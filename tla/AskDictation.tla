---------------------------- MODULE AskDictation ----------------------------
(***************************************************************************)
(* Ask (src-tauri/src/commands/ask.rs): a recording machine of its own     *)
(* beside the dictation pipeline, with what src-tauri/src/hotkey.rs makes  *)
(* of the presses of Ask's and Dictate's shortcuts, of Escape and of the   *)
(* wake phrase.                                                            *)
(*                                                                         *)
(* Each press is a process and becomes the start() or stop() that it       *)
(* causes.  A run is named by its start; the deadline task of run s is the *)
(* process <<s>>.  A step holds the lock of AskDictationState at most      *)
(* once.  Of the pipeline there is only what the shortcuts look at.        *)
(***************************************************************************)
CONSTANTS
    AskKeys,    \* presses of the Ask shortcut
    Flows,      \* Asks started by the tray or by "oratype ask" (start_ask_flow())
    Wakes,      \* wake phrases that the hands-free listener heard
    DictKeys,   \* presses of the Dictate shortcut (toggle mode)
    Toggles,    \* "oratype toggle"
    Escapes,    \* presses of Escape
    None

Starts   == AskKeys \cup Flows \cup Wakes
Timers   == {<<s>> : s \in Starts}
Presses  == Starts \cup DictKeys \cup Toggles
Stoppers == Presses \cup Timers
Procs    == Stoppers \cup Escapes

ASSUME PressesAssumption ==
    /\ AskKeys \cap Wakes = {} /\ Flows \cap (AskKeys \cup Wakes) = {}
    /\ DictKeys \cap Starts = {} /\ Toggles \cap (Starts \cup DictKeys) = {}
    /\ Escapes \cap Presses = {}
    /\ Timers \cap (Presses \cup Escapes) = {}
    /\ None \notin Procs

VARIABLES
    starting,           \* the fields of AskDictationStateInner:
    stop_after_start,
    session,            \* the run whose AskDictationSession is stored, or None
    processing,
    processing_cancel   \* the stop() whose Notify is stored, or None

VARIABLES
    pc,
    taken,      \* the session that each stop(), Escape or speech task has taken
    mic,        \* the microphone of each run is on
    listening,  \* the runs whose speech task has not failed
    permit,     \* the stops whose Notify holds a permit
    pipeline,   \* "Idle", "Recording" or "Polishing"
    dict_mic,   \* the microphone of the dictation is on
    reserved,   \* history: the start that last reserved Ask
    cancelled   \* history: the runs an Escape found starting or recording

inner  == <<starting, stop_after_start, session, processing,
            processing_cancel>>
dict   == <<pipeline, dict_mic>>
vars   == <<inner, pc, taken, mic, listening, permit, dict, reserved, cancelled>>

Init ==
    /\ starting = FALSE
    /\ stop_after_start = FALSE
    /\ session = None
    /\ processing = FALSE
    /\ processing_cancel = None
    /\ pc = [x \in Procs |-> IF x \in Timers THEN "off" ELSE "ready"]
    /\ taken = [x \in Procs |-> None]
    /\ mic = [s \in Starts |-> FALSE]
    /\ listening = {}
    /\ permit = {}
    /\ pipeline = "Idle"
    /\ dict_mic = FALSE
    /\ reserved = None
    /\ cancelled = {}

Go(x, from, to) == pc[x] = from /\ pc' = [pc EXCEPT ![x] = to]

IsBusy == starting \/ session # None \/ processing

ClearStarting ==
    /\ starting' = FALSE
    /\ stop_after_start' = FALSE

-----------------------------------------------------------------------------
(* The shortcuts.  Dictate ends an Ask that records or starts.             *)

LookRecording(k) ==
    /\ k \in AskKeys \cup DictKeys
    /\ Go(k, "ready", IF session # None THEN "stop" ELSE "look")
    /\ UNCHANGED <<inner, taken, mic, listening, permit, dict, reserved, cancelled>>

LookStarting(k) ==
    /\ Go(k, "look", IF starting THEN "request"
                     ELSE IF k \in AskKeys THEN "begin" ELSE "dictate")
    /\ UNCHANGED <<inner, taken, mic, listening, permit, dict, reserved, cancelled>>

\* request_stop_after_start().  The mutant does not check that a start is there.
RequestStop_Unchecked(k) ==
    /\ Go(k, "request", "done")
    /\ stop_after_start' = TRUE
    /\ UNCHANGED <<starting, session, processing, processing_cancel, taken,
                   mic, listening, permit, dict, reserved, cancelled>>
RequestStop(k) ==
    /\ Go(k, "request", "done")
    /\ stop_after_start' = (stop_after_start \/ starting)
    /\ UNCHANGED <<starting, session, processing, processing_cancel, taken,
                   mic, listening, permit, dict, reserved, cancelled>>

\* What try_begin_starting() asks.  The mutant forgets the answer being made.
MayBegin_BesideAnswer == ~starting /\ session = None
MayBegin == ~IsBusy

\* The wake phrase, start_ask_flow() and "oratype toggle" do not look at Ask first.
PressUnseen(k) ==
    /\ k \in Wakes \cup Flows \cup Toggles
    /\ Go(k, "ready", IF k \in Starts THEN "begin" ELSE "dictate")
    /\ UNCHANGED <<inner, taken, mic, listening, permit, dict, reserved, cancelled>>

BeginStart(k) ==
    /\ Go(k, "begin", "begun")
    /\ MayBegin
    /\ starting' = TRUE
    /\ stop_after_start' = FALSE
    /\ reserved' = k
    /\ UNCHANGED <<session, processing, processing_cancel, taken, mic, listening, permit,
                   dict, cancelled>>

BeginRefused(k) ==
    /\ Go(k, "begin", "done")
    /\ ~MayBegin
    /\ UNCHANGED <<inner, taken, mic, listening, permit, dict, reserved, cancelled>>

-----------------------------------------------------------------------------
(* start_reserved_ask_dictation().                                         *)

\* Ask is not set up: nothing starts and nothing is an error.
NotReady(s) ==
    /\ Go(s, "begun", "return")
    /\ ClearStarting
    /\ UNCHANGED <<session, processing, processing_cancel, taken, mic, listening,
                   permit, dict, reserved, cancelled>>

OpenMic(s) ==
    /\ Go(s, "begun", "opening")
    /\ mic' = [mic EXCEPT ![s] = TRUE]
    /\ UNCHANGED <<inner, taken, listening, permit, dict, reserved, cancelled>>

\* The settings, the provider or the microphone fail, or the startup times out.
StartFails(s) ==
    /\ pc[s] \in {"begun", "opening"}
    /\ pc' = [pc EXCEPT ![s] = "done"]
    /\ mic' = [mic EXCEPT ![s] = FALSE]
    /\ ClearStarting
    /\ UNCHANGED <<session, processing, processing_cancel, taken, listening,
                   permit, dict, reserved, cancelled>>

\* The look at AskDictationState when the microphone is on.  The mutant forgets
\* that the run may have been cancelled.
Wanted_Always == session = None
Wanted        == starting /\ session = None /\ ~processing

Commit(s) ==
    /\ pc[s] = "opening"
    /\ Wanted
    /\ pc' = [pc EXCEPT ![s] = "return", ![<<s>>] = "armed"]
    /\ starting' = FALSE
    /\ session' = s
    /\ listening' = listening \cup {s}
    /\ UNCHANGED <<stop_after_start, processing, processing_cancel, taken, mic,
                   permit, dict, reserved, cancelled>>

\* The mutant forgets the handle.
Discard_Leaks(s) == /\ Go(s, "opening", "return") /\ ~Wanted /\ ClearStarting
                    /\ UNCHANGED <<session, processing, processing_cancel,
                                   taken, mic, listening, permit, dict, reserved, cancelled>>
Discard(s) ==
    /\ Go(s, "opening", "return")
    /\ ~Wanted
    /\ mic' = [mic EXCEPT ![s] = FALSE]
    /\ ClearStarting
    /\ UNCHANGED <<session, processing, processing_cancel, taken, listening,
                   permit, dict, reserved, cancelled>>

\* take_stop_after_start(), which start_ask_flow() leaves out.
Return(s) ==
    /\ Go(s, "return", IF stop_after_start /\ s \notin Flows THEN "stop" ELSE "done")
    /\ stop_after_start' = (stop_after_start /\ s \in Flows)
    /\ UNCHANGED <<starting, session, processing, processing_cancel, taken,
                   mic, listening, permit, dict, reserved, cancelled>>

StartStep(s) == \/ BeginStart(s) \/ BeginRefused(s) \/ NotReady(s)
                \/ OpenMic(s) \/ StartFails(s) \/ Commit(s) \/ Discard(s) \/ Return(s)

-----------------------------------------------------------------------------
(* The speech task and the deadline task of a run.                         *)

\* surface_async_recording_error(): only for the recording that is on.
OnItsRecording(s) == ~processing /\ session = s

SpeechFails(s) ==
    /\ s \in listening
    /\ listening' = listening \ {s}
    /\ IF OnItsRecording(s)
         THEN session' = None /\ mic' = [mic EXCEPT ![session] = FALSE]
         ELSE UNCHANGED <<session, mic>>
    /\ UNCHANGED <<starting, stop_after_start, processing, processing_cancel,
                   pc, taken, permit, dict, reserved, cancelled>>

\* drive_recording_deadline().
Deadline(s) ==
    /\ Go(<<s>>, "armed", IF session = s THEN "stop" ELSE "done")
    /\ UNCHANGED <<inner, taken, mic, listening, permit, dict, reserved, cancelled>>

-----------------------------------------------------------------------------
(* stop_ask_dictation().  The session lives until it returns, and what is    *)
(* left of the microphone with it.                                           *)

StopLook(x) ==
    /\ Go(x, "stop", IF session # None THEN "take" ELSE "done")
    /\ UNCHANGED <<inner, taken, mic, listening, permit, dict, reserved, cancelled>>

StopRefused(x) ==
    /\ Go(x, "take", "done")
    /\ processing \/ session = None
    /\ UNCHANGED <<inner, taken, mic, listening, permit, dict, reserved, cancelled>>

StopTake(x) ==
    /\ Go(x, "take", "halt")
    /\ ~processing /\ session # None
    /\ taken' = [taken EXCEPT ![x] = session]
    /\ session' = None
    /\ stop_after_start' = FALSE
    /\ processing' = TRUE
    /\ processing_cancel' = x
    /\ UNCHANGED <<starting, mic, listening, permit, dict, reserved, cancelled>>

HaltMic(x) ==
    /\ Go(x, "halt", "wait")
    /\ mic' = [mic EXCEPT ![taken[x]] = FALSE]
    /\ UNCHANGED <<inner, taken, listening, permit, dict, reserved, cancelled>>

\* The speech task is over, or 12 seconds have passed: there are words, or none, or
\* an error.
Transcribed(x) ==
    /\ Go(x, "wait", "work") \/ Go(x, "wait", "ending")
    /\ UNCHANGED <<inner, taken, mic, listening, permit, dict, reserved, cancelled>>

\* An answer, a search, a voice command, or an error.
Answer(x) ==
    /\ Go(x, "work", "ending")
    /\ UNCHANGED <<inner, taken, mic, listening, permit, dict, reserved, cancelled>>

\* run_ask_draft() and run_hands_free_dictation().
DraftLook(x) ==
    /\ Go(x, "work", IF pipeline = "Idle" THEN "draft" ELSE "ending")
    /\ UNCHANGED <<inner, taken, mic, listening, permit, dict, reserved, cancelled>>

DraftPolish(x) ==
    /\ Go(x, "draft", "polish")
    /\ pipeline' = "Polishing"
    /\ UNCHANGED <<inner, taken, mic, listening, permit, dict_mic, reserved, cancelled>>

DraftEnd(x) ==
    /\ Go(x, "polish", "ending")
    /\ pipeline' = "Idle"
    /\ UNCHANGED <<inner, taken, mic, listening, permit, dict_mic, reserved, cancelled>>

\* The Notify wins the select!: the work is dropped where it awaits.
Drop(x) ==
    /\ x \in permit
    /\ pc[x] \in {"halt", "wait", "work", "draft", "polish"}
    /\ pc' = [pc EXCEPT ![x] = "dropped"]
    /\ permit' = permit \ {x}
    /\ UNCHANGED <<inner, taken, mic, listening, dict, reserved, cancelled>>

\* set_processing(false).  The mutant returns before it when the run was cancelled.
EndProcessing_NotWhenDropped(x) ==
    /\ pc[x] \in {"ending", "dropped"}
    /\ pc' = [pc EXCEPT ![x] = IF pc[x] = "dropped" THEN "tail" ELSE "done"]
    /\ processing' = (pc[x] = "dropped")
    /\ processing_cancel' = None
    /\ taken' = [taken EXCEPT ![x] = IF pc[x] = "dropped" THEN @ ELSE None]
    /\ permit' = permit \ {x}
    /\ UNCHANGED <<starting, stop_after_start, session, mic, listening, dict,
                   reserved, cancelled>>
EndProcessing(x) ==
    /\ pc[x] \in {"ending", "dropped"}
    /\ pc' = [pc EXCEPT ![x] = IF pc[x] = "dropped" THEN "tail" ELSE "done"]
    /\ processing' = FALSE
    /\ processing_cancel' = None
    /\ taken' = [taken EXCEPT ![x] = IF pc[x] = "dropped" THEN @ ELSE None]
    /\ permit' = permit \ {x}
    /\ UNCHANGED <<starting, stop_after_start, session, mic, listening, dict,
                   reserved, cancelled>>

\* "A dropped draft may have left the pipeline mid-polish": abort() unless it is idle.
\* The mutant leaves the pipeline as it is.
DropTail_KeepsPipeline(x) ==
    /\ Go(x, "tail", "done")
    /\ mic' = [mic EXCEPT ![taken[x]] = FALSE]
    /\ UNCHANGED <<inner, taken, listening, permit, dict, reserved, cancelled>>
DropTail(x) ==
    /\ Go(x, "tail", "done")
    /\ mic' = [mic EXCEPT ![taken[x]] = FALSE]
    /\ pipeline' = "Idle"
    /\ dict_mic' = (dict_mic /\ pipeline = "Idle")
    /\ taken' = [taken EXCEPT ![x] = None]
    /\ UNCHANGED <<inner, listening, permit, reserved, cancelled>>

StopStep(x) == \/ StopLook(x) \/ StopRefused(x) \/ StopTake(x) \/ HaltMic(x)
               \/ Transcribed(x) \/ Answer(x) \/ DraftLook(x) \/ DraftPolish(x)
               \/ DraftEnd(x) \/ EndProcessing(x) \/ DropTail(x)

-----------------------------------------------------------------------------
(* Dictation: what the presses of its shortcut do to the pipeline.           *)

\* recording_shortcut_action(); the spawned task looks at Ask once more, that of
\* "oratype toggle" does not.
DictDecide(k) ==
    /\ Go(k, "dictate", CASE pipeline = "Idle" /\ k \in DictKeys -> "may_start"
                         [] pipeline = "Idle" /\ k \in Toggles  -> "start"
                         [] pipeline # "Idle" /\ k \in DictKeys -> "may_end"
                         [] pipeline # "Idle" /\ k \in Toggles  -> "end")
    /\ UNCHANGED <<inner, taken, mic, listening, permit, dict, reserved, cancelled>>

DictLookAtAsk(k) ==
    /\ \/ Go(k, "may_start", IF IsBusy THEN "done" ELSE "start")
       \/ Go(k, "may_end", IF IsBusy THEN "done" ELSE "end")
    /\ UNCHANGED <<inner, taken, mic, listening, permit, dict, reserved, cancelled>>

\* PipelineHandle::start() and stop(), as far as the claim of the state goes.
DictStart(k) ==
    /\ Go(k, "start", "done")
    /\ IF pipeline = "Idle"
         THEN pipeline' = "Recording" /\ dict_mic' = TRUE
         ELSE UNCHANGED dict
    /\ UNCHANGED <<inner, taken, mic, listening, permit, reserved, cancelled>>

DictStop(k) ==
    /\ IF pipeline = "Recording"
         THEN Go(k, "end", "transcribe") /\ pipeline' = "Polishing" /\ dict_mic' = FALSE
         ELSE Go(k, "end", "done") /\ UNCHANGED dict
    /\ UNCHANGED <<inner, taken, mic, listening, permit, reserved, cancelled>>

DictEnd(k) ==
    /\ Go(k, "transcribe", "done")
    /\ pipeline' = "Idle"
    /\ UNCHANGED <<inner, taken, mic, listening, permit, dict_mic, reserved, cancelled>>

DictStep(k) == DictDecide(k) \/ DictLookAtAsk(k) \/ DictStart(k) \/ DictStop(k) \/ DictEnd(k)

-----------------------------------------------------------------------------
(* Escape: cancel_active_run().                                              *)

EscapeLook(e) ==
    /\ IsBusy \/ pipeline # "Idle"
    /\ Go(e, "ready", IF IsBusy THEN "cancel" ELSE "abort")
    /\ UNCHANGED <<inner, taken, mic, listening, permit, dict, reserved, cancelled>>

AbortRun(e) ==
    /\ Go(e, "abort", "done")
    /\ pipeline' = "Idle"
    /\ dict_mic' = FALSE
    /\ UNCHANGED <<inner, taken, mic, listening, permit, reserved, cancelled>>

\* abort_starting_or_recording().
CancelStartOrRecording(e) ==
    /\ Go(e, "cancel", "halt")
    /\ ClearStarting
    /\ taken' = [taken EXCEPT ![e] = session]
    /\ session' = None
    /\ cancelled' = cancelled \cup ({session} \ {None}) \cup (IF starting THEN {reserved} ELSE {})
    /\ UNCHANGED <<processing, processing_cancel, mic, listening, permit, dict,
                   reserved>>

CancelHaltMic(e) ==
    /\ Go(e, "halt", "notify")
    /\ mic' = [s \in Starts |-> mic[s] /\ s # taken[e]]
    /\ taken' = [taken EXCEPT ![e] = None]
    /\ UNCHANGED <<inner, listening, permit, dict, reserved, cancelled>>

\* cancel_processing(): notify_one() keeps its permit for a stop() that does not wait yet.
\* The mutant wakes only one that waits already.
CancelProcessing_Waiters(e) ==
    /\ Go(e, "notify", "done")
    /\ processing_cancel' = None
    /\ permit' = permit \cup {x \in {processing_cancel} \ {None} : pc[x] # "halt"}
    /\ UNCHANGED <<starting, stop_after_start, session, processing, taken, mic,
                   listening, dict, reserved, cancelled>>
CancelProcessing(e) ==
    /\ Go(e, "notify", "done")
    /\ processing_cancel' = None
    /\ permit' = permit \cup ({processing_cancel} \ {None})
    /\ UNCHANGED <<starting, stop_after_start, session, processing, taken, mic,
                   listening, dict, reserved, cancelled>>

CancelStep(e) == AbortRun(e) \/ CancelStartOrRecording(e) \/ CancelHaltMic(e) \/ CancelProcessing(e)

-----------------------------------------------------------------------------

AllDone ==
    /\ \A x \in Procs : pc[x] \in {"done", "off", "ready"}
    /\ UNCHANGED vars

Next ==
    \/ \E k \in AskKeys \cup DictKeys : LookRecording(k) \/ LookStarting(k) \/ RequestStop(k)
    \/ \E k \in Wakes \cup Flows \cup Toggles : PressUnseen(k)
    \/ \E s \in Starts : StartStep(s) \/ SpeechFails(s) \/ Deadline(s)
    \/ \E x \in Stoppers : StopStep(x) \/ Drop(x)
    \/ \E k \in DictKeys \cup Toggles : DictStep(k)
    \/ \E e \in Escapes : EscapeLook(e) \/ CancelStep(e)
    \/ AllDone

\* Tasks that were spawned run; the services they await answer or time out, and the
\* recording limit passes.  Nobody has to press, to speak or to fail.
Fairness ==
    /\ \A s \in Starts : WF_vars(StartStep(s)) /\ WF_vars(Deadline(s))
    /\ \A x \in Stoppers : WF_vars(StopStep(x) \/ Drop(x))
    /\ \A k \in DictKeys \cup Toggles : WF_vars(DictStep(k))
    /\ \A e \in Escapes : WF_vars(CancelStep(e))

Spec     == Init /\ [][Next]_vars
FairSpec == Spec /\ Fairness

-----------------------------------------------------------------------------
(* Properties.                                                               *)

InWork(x) == pc[x] \in {"halt", "wait", "work", "draft", "polish", "ending", "dropped"}

\* Ask starts, records or thinks, never two of them; and it thinks exactly while one
\* stop() is between its look at the session and set_processing(false).
OnePhase ==
    /\ ~(starting /\ session # None)
    /\ ~(starting /\ processing)
    /\ ~(session # None /\ processing)
    /\ processing <=> \E x \in Stoppers : InWork(x)
    /\ \A x, y \in Stoppers : InWork(x) /\ InWork(y) => x = y

\* An open microphone of Ask has somebody who will close it: the recording it belongs
\* to, the start that opens it, or the stop() or Escape that has taken the recording.
AskMicOwned ==
    \A s \in Starts : mic[s] =>
        \/ session = s
        \/ pc[s] = "opening"
        \/ \E x \in Stoppers : taken[x] = s /\ (InWork(x) \/ pc[x] = "tail")
        \/ \E e \in Escapes : taken[e] = s /\ pc[e] = "halt"

\* A run that Escape has cancelled records only when another start has reserved Ask
\* since: the flag "starting" does not say whose start it is.
RevivedOnlyByNext == session \in cancelled => reserved # session

\* Escape while Ask thinks is not lost: once the Notify of the run is taken, the run
\* has its permit or has seen it.
NoCancelLost ==
    \A x \in Stoppers :
        InWork(x) /\ processing_cancel = None => x \in permit \/ pc[x] \in {"ending", "dropped"}

\* A stop that a press asked of a start is kept by a start that will look for it.
StopRequestHeld ==
    stop_after_start => \E s \in Starts : pc[s] \in {"begun", "opening", "return"}

\* The end of an Ask that Escape dropped puts back the pipeline of its own draft: a
\* dictation that records beside it goes on.
TailSparesDictation ==
    [][\A x \in Stoppers : DropTail(x) => dict_mic' = dict_mic]_vars

\* A draft that Escape has dropped does not leave the pipeline polishing for ever.
PipelineFreed == pipeline = "Polishing" ~> pipeline # "Polishing"

\* Ask as the rest of the app sees it.
Phase == IF session # None THEN "recording"
         ELSE IF starting THEN "starting"
         ELSE IF processing THEN "thinking" ELSE "idle"

Abstract == INSTANCE AskRun WITH phase <- Phase
RunsComeAndGo == Abstract!FairSpec

=============================================================================
