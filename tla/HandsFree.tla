------------------------------ MODULE HandsFree ------------------------------
(***************************************************************************)
(* Hands-free mode (hands_free/runtime.rs): a listener thread owns the     *)
(* microphone, hears the wake phrase, starts Ask and stops it again.  The  *)
(* settings, the tray, the end of the wake model's download and the exit   *)
(* of the app start, restart and stop it, each on a task of its own.       *)
(*                                                                         *)
(* Ask is the abstract machine of AskRun, which AskDictation implements;   *)
(* a dictation is only busy or not.                                        *)
(***************************************************************************)
EXTENDS Naturals

CONSTANTS
  Tasks,      \* calls that apply the setting, each made once
  Listeners,  \* listeners opened over a run of the app
  Names,      \* wake names: a change restarts the listener
  None,
  MaxRuns     \* bound: runs the user starts with a shortcut

ASSUME HandsFreeAssumption ==
  /\ Names # {} /\ None \notin Listeners
  /\ MaxRuns \in Nat

AnyName == CHOOSE n \in Names : TRUE  \* one wake name is as good as another
Settings == [on : BOOLEAN, name : Names]
Fresh == [on |-> FALSE, name |-> AnyName]

VARIABLES
  saved,       \* the setting as ConfigManager holds it
  installed,   \* the wake model is on disk
  pc, config,  \* a task's next step, and the settings it applies
  goal,        \* what an apply has decided
  listener,    \* the listener a task joins or has opened
  status,      \* what the last apply returned
  overlapped,  \* the task begun last found another one under way
  unapplied,   \* history: since then a save failed, and its change was not applied
  quit,
  running,     \* HandsFreeState.running: the listener,
  name,        \*   and the settings it was started with
  stop,        \* per listener: its stop flag,
  mic,         \*   its microphone is open,
  thread,      \*   where its thread is
  ask,         \* Ask's phase
  dictating,   \* the pipeline is not idle
  stops,       \* listeners whose spawned stop of Ask has not run yet
  runs         \* runs the user started

tasks     == <<pc, config, goal, listener, status, overlapped, unapplied, quit, saved,
               installed>>
listeners == <<running, name, stop, mic, thread>>
otherRuns == <<ask, dictating, stops, runs>>
vars      == <<tasks, listeners, otherRuns>>

Ask == INSTANCE AskRun WITH phase <- ask

Init ==
  /\ saved \in [on : BOOLEAN, name : {AnyName}] /\ installed \in BOOLEAN
  /\ pc = [t \in Tasks |-> "new"]
  /\ config = [t \in Tasks |-> Fresh]
  /\ goal = [t \in Tasks |-> "off"]
  /\ listener = [t \in Tasks |-> None]
  /\ status = "off" /\ overlapped = FALSE /\ unapplied = FALSE /\ quit = FALSE
  /\ running = None
  /\ name = AnyName
  /\ stop = [l \in Listeners |-> FALSE] /\ mic = [l \in Listeners |-> FALSE]
  /\ thread = [l \in Listeners |-> "none"]
  /\ ask = "idle" /\ dictating = FALSE /\ stops = {} /\ runs = 0

(***************************************************************************)
(* The tasks: a call reads the settings, saves what it changed, and        *)
(* applies the copy it holds.  One that cannot read them does nothing.     *)
(***************************************************************************)
UnderWay(t) == pc[t] \notin {"new", "done"}
Quiet == \A t \in Tasks : ~UnderWay(t)
Go(t, from, to) == pc[t] = from /\ pc' = [pc EXCEPT ![t] = to]

\* A call that has returned holds nothing any more.
Return(t) ==
  /\ pc' = [pc EXCEPT ![t] = "done"]
  /\ config' = [config EXCEPT ![t] = Fresh]
  /\ goal' = [goal EXCEPT ![t] = "off"]
  /\ listener' = [listener EXCEPT ![t] = None]

Begin(t, to, settings) ==
  /\ ~quit /\ Go(t, "new", to)
  /\ config' = [config EXCEPT ![t] = settings]
  /\ overlapped' = \E u \in Tasks : UnderWay(u)
  /\ unapplied' = FALSE

ToggleFromTray(t) ==
  /\ Begin(t, "save", [saved EXCEPT !.on = ~@])
  /\ UNCHANGED <<goal, listener, status, quit, saved, installed, listeners, otherRuns>>

\* update_config applies only when the new config differs from the one it loaded.
UpdateConfig(t) ==
  /\ \E settings \in Settings \ {saved} : Begin(t, "save", settings)
  /\ UNCHANGED <<goal, listener, status, quit, saved, installed, listeners, otherRuns>>

\* At startup, and when the wake model has been downloaded.
ApplySaved(t) ==
  /\ Begin(t, "apply", saved)
  /\ installed' \in {installed, TRUE}
  /\ UNCHANGED <<goal, listener, status, quit, saved, listeners, otherRuns>>

Quit(t) ==
  /\ Begin(t, "stop", [saved EXCEPT !.on = FALSE])
  /\ quit' = TRUE
  /\ UNCHANGED <<goal, listener, status, saved, installed, listeners, otherRuns>>

\* ConfigManager::save fills its cache, then writes the file.
Save(t) ==
  /\ Go(t, "save", "apply")
  /\ saved' = config[t]
  /\ UNCHANGED <<config, goal, listener, status, overlapped, unapplied, quit, installed, listeners, otherRuns>>

\* The file cannot be written: the call returns, with the cache ahead of the listener.
SaveFails(t) ==
  /\ pc[t] = "save" /\ Return(t)
  /\ saved' = config[t] /\ unapplied' = TRUE
  /\ UNCHANGED <<status, overlapped, quit, installed, listeners, otherRuns>>

Decision(t) ==
  CASE ~config[t].on -> "off"
    [] config[t].on /\ ~installed -> "needsModel"
    [] OTHER -> "listening"

SameSettings_Ignored(t) == running # None
SameSettings(t) == running # None /\ name = config[t].name

ApplyKeeps(t) ==
  /\ pc[t] = "apply" /\ Return(t)
  /\ Decision(t) = "listening" /\ SameSettings(t)
  /\ status' = "listening"
  /\ UNCHANGED <<overlapped, unapplied, quit, saved, installed, listeners, otherRuns>>

ApplyChanges(t) ==
  /\ Go(t, "apply", "stop")
  /\ ~(Decision(t) = "listening" /\ SameSettings(t))
  /\ goal' = [goal EXCEPT ![t] = Decision(t)]
  /\ UNCHANGED <<config, listener, status, overlapped, unapplied, quit, saved, installed, listeners, otherRuns>>

\* HandsFreeState::stop: take the listener, raise its flag, close its microphone, join.
Closed_NotYet(l) == mic
Closed(l) == [mic EXCEPT ![l] = FALSE]

StopTake(t) ==
  /\ Go(t, "stop", "join")
  /\ listener' = [listener EXCEPT ![t] = running]
  /\ IF running = None
     THEN UNCHANGED <<stop, mic>>
     ELSE stop' = [stop EXCEPT ![running] = TRUE] /\ mic' = Closed(running)
  /\ running' = None /\ name' = AnyName
  /\ UNCHANGED <<config, goal, status, overlapped, unapplied, quit, saved, installed, thread, otherRuns>>

Joined(t) == \A l \in {listener[t]} \ {None} : thread[l] = "over"

StopJoin(t) ==
  /\ pc[t] = "join" /\ Joined(t)
  /\ IF goal[t] = "listening"
     THEN /\ Go(t, "join", "open")
          /\ listener' = [listener EXCEPT ![t] = None]
          /\ UNCHANGED <<config, goal, status>>
     ELSE Return(t) /\ status' = goal[t]
  /\ UNCHANGED <<overlapped, unapplied, quit, saved, installed, listeners, otherRuns>>

\* start: the microphone opens, then the thread begins to load the wake model.
Unused == {l \in Listeners : thread[l] = "none"}

Open(t) ==
  /\ Unused # {}  \* bound
  /\ Go(t, "open", "store")
  /\ LET l == CHOOSE u \in Unused : TRUE
     IN  /\ listener' = [listener EXCEPT ![t] = l]
         /\ mic' = [mic EXCEPT ![l] = TRUE]
         /\ thread' = [thread EXCEPT ![l] = "loading"]
  /\ UNCHANGED <<config, goal, status, overlapped, unapplied, quit, saved, installed, running, name, stop, otherRuns>>

OpenFails(t) ==
  /\ pc[t] = "open" /\ Return(t)
  /\ status' = "micError"
  /\ UNCHANGED <<overlapped, unapplied, quit, saved, installed, listeners, otherRuns>>

\* Storing the new listener drops the one that is there: its microphone closes.
Store(t) ==
  /\ pc[t] = "store" /\ Return(t)
  /\ mic' = IF running = None THEN mic ELSE Closed(running)
  /\ running' = listener[t] /\ name' = config[t].name
  /\ status' = "listening"
  /\ UNCHANGED <<overlapped, unapplied, quit, saved, installed, stop, thread, otherRuns>>

(***************************************************************************)
(* The listener's thread.  It looks at its stop flag before each piece of  *)
(* audio, and ends when the microphone is closed.                          *)
(***************************************************************************)
Move(l, from, to) == thread[l] = from /\ thread' = [thread EXCEPT ![l] = to]
Hears(l) == ~stop[l]

Busy_WithItself == dictating \/ ask # "idle" \/ running # None
Busy == dictating \/ ask # "idle"

Load(l) ==
  /\ Move(l, "loading", "listening") \/ Move(l, "loading", "over")
  /\ UNCHANGED <<tasks, running, name, stop, mic, otherRuns>>

Over_OnlyByFlag(l) == stop[l]
Over(l) == stop[l] \/ ~mic[l]

End(l) ==
  /\ Over(l)
  /\ Move(l, "listening", "over") \/ Move(l, "request", "over") \/ Move(l, "paused", "over")
  /\ UNCHANGED <<tasks, running, name, stop, mic, otherRuns>>

Pause(l) ==
  /\ Hears(l) /\ Busy /\ Move(l, "listening", "paused")
  /\ UNCHANGED <<tasks, running, name, stop, mic, otherRuns>>

Candidate(l) ==
  /\ Hears(l) /\ ~Busy /\ Move(l, "listening", "checking")
  /\ UNCHANGED <<tasks, running, name, stop, mic, otherRuns>>

NoMatch(l) ==
  /\ Move(l, "checking", "listening")
  /\ UNCHANGED <<tasks, running, name, stop, mic, otherRuns>>

\* on_wake: onboarding may refuse Ask; otherwise Ask starts unless a run of it is under way, and
\* the listener goes on to watch the request either way.
WakeRefused(l) ==
  /\ Move(l, "checking", "paused")
  /\ UNCHANGED <<tasks, running, name, stop, mic, otherRuns>>

Wake(l) ==
  /\ Move(l, "checking", "request")
  /\ IF ask = "idle" THEN Ask!Begin ELSE UNCHANGED ask
  /\ UNCHANGED <<tasks, running, name, stop, mic, dictating, stops, runs>>

\* The end phrase, a pause, no speech or the maximum length: Ask is stopped by a task.
RequestStops(l) ==
  /\ Hears(l) /\ Move(l, "request", "paused")
  /\ stops' = stops \cup {l}
  /\ UNCHANGED <<tasks, running, name, stop, mic, ask, dictating, runs>>

RequestLost(l) ==
  /\ Hears(l) /\ ask = "idle" /\ Move(l, "request", "paused")
  /\ UNCHANGED <<tasks, running, name, stop, mic, otherRuns>>

ListenAgain(l) ==
  /\ Hears(l) /\ ~Busy /\ Move(l, "paused", "listening")
  /\ UNCHANGED <<tasks, running, name, stop, mic, otherRuns>>

\* stop_ask_shortcut: only a recording is stopped, whoever started it.
StopAsk(l) ==
  /\ l \in stops /\ stops' = stops \ {l}
  /\ IF ask = "recording" THEN Ask!Think ELSE UNCHANGED ask
  /\ UNCHANGED <<tasks, listeners, dictating, runs>>

(***************************************************************************)
(* The other runs.                                                         *)
(***************************************************************************)
UserAsks ==
  /\ runs < MaxRuns /\ runs' = runs + 1
  /\ Ask!Begin
  /\ UNCHANGED <<tasks, listeners, dictating, stops>>

AskMoves ==
  /\ Ask!Record \/ Ask!Think
  /\ UNCHANGED <<tasks, listeners, dictating, stops, runs>>

AskEnds ==
  /\ Ask!GiveUp \/ Ask!Lose \/ Ask!Finish
  /\ UNCHANGED <<tasks, listeners, dictating, stops, runs>>

Dictate ==
  /\ \/ ~dictating /\ runs < MaxRuns /\ runs' = runs + 1
     \/ dictating /\ UNCHANGED runs
  /\ dictating' = ~dictating
  /\ UNCHANGED <<tasks, listeners, ask, stops>>

TaskStep(t) ==
  \/ Save(t) \/ SaveFails(t) \/ ApplyKeeps(t) \/ ApplyChanges(t) \/ StopTake(t) \/ StopJoin(t)
  \/ Open(t) \/ OpenFails(t) \/ Store(t)

ThreadStep(l) ==
  \/ Load(l) \/ End(l) \/ Pause(l) \/ NoMatch(l) \/ WakeRefused(l) \/ Wake(l)
  \/ RequestStops(l) \/ RequestLost(l) \/ ListenAgain(l)

Next ==
  \/ \E t \in Tasks :
        ToggleFromTray(t) \/ UpdateConfig(t) \/ ApplySaved(t) \/ Quit(t) \/ TaskStep(t)
  \/ \E l \in Listeners : ThreadStep(l) \/ Candidate(l) \/ StopAsk(l)
  \/ UserAsks \/ AskMoves \/ AskEnds \/ Dictate

\* Every thread goes on (audio arrives every 20 ms, a request has a maximum
\* length); the audio left when a microphone closes is finite, so the thread comes to its end
\* (strong fairness: between two pieces it may be in a check).  A task that began goes on, once the
\* thread it joins is over.  Ask ends its runs as AskRun promises, and so does a dictation.
Fairness ==
  /\ \A t \in Tasks : WF_vars(TaskStep(t))
  /\ \A l \in Listeners : WF_vars(ThreadStep(l)) /\ SF_vars(End(l)) /\ WF_vars(StopAsk(l))
  /\ WF_vars(AskMoves \/ AskEnds)
  /\ WF_vars(dictating /\ Dictate)

Spec == Init /\ [][Next]_vars
FairSpec == Spec /\ Fairness

(***************************************************************************)
(* Properties.                                                             *)
(***************************************************************************)

\* Every open microphone belongs to the listener in HandsFreeState or to the apply that is about
\* to store it: whichever applies overlap, none is left open with nobody to close it.
MicOwned ==
  \A l \in Listeners :
    mic[l] => running = l \/ \E t \in Tasks : pc[t] = "store" /\ listener[t] = l

ListensAsSaved ==
  IF running = None
  THEN ~saved.on \/ ~installed \/ quit \/ status = "micError"
  ELSE saved.on /\ ~quit /\ name = saved.name

\* Once a change that overlapped no other has been applied, what listens is what was saved,
\* whatever earlier ones left.  A change that could not be written is not applied.
SettledAsSaved ==
  Quiet /\ ~overlapped /\ ~unapplied /\ (\E t \in Tasks : pc[t] = "done") => ListensAsSaved

\* A listener whose microphone was closed ends, and frees the wake model: the stop that joins it
\* returns, and one that an overlapping apply replaced without joining it does not live on.
ListenersEnd ==
  \A l \in Listeners : (thread[l] # "none" /\ ~mic[l]) ~> thread[l] = "over"

\* After a run, its own or another, the listener hears the wake phrase again.
ListensAgain == \A l \in Listeners : thread[l] = "paused" ~> thread[l] \in {"listening", "over"}

(* What the code does not keep.                                                             *)

\* The setting's own comment: "the microphone stays open while this is on".
OffMeansClosed ==
  Quiet /\ ~saved.on => \A l \in Listeners : ~mic[l]

\* SettledAsSaved with no change that overlapped another: a failed write breaks it alone.
AloneMeansAsSaved ==
  Quiet /\ ~overlapped /\ (\E t \in Tasks : pc[t] = "done") => ListensAsSaved

=============================================================================
