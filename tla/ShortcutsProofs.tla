--------------------------- MODULE ShortcutsProofs ---------------------------
(***************************************************************************)
(* What holds of the shortcuts for every choice of the constants.           *)
(*                                                                         *)
(* Their registration, for every number of saves, recordings and moves of  *)
(* the gate: RegInv is inductive.  The generation orders the attempts      *)
(* (OwnInv), so that one of a call is alone and what the retry and the     *)
(* gate register is what is saved (SavedInv).                              *)
(*                                                                         *)
(* The key listener, for every keyboard and every set of shortcuts:        *)
(* ListenerInv is inductive.  The matcher is consistent in itself, and so  *)
(* long as it hears every edge it believes no key held that is up, and     *)
(* hides no key from the app that the app believes held (KeyboardInv).     *)
(***************************************************************************)
EXTENDS ShortcutRegistration, NativeHotkey, TLAPS

(***************************************************************************)
(* The registration.                                                       *)
(***************************************************************************)

\* The tasks that register under the lock.
Lockers == {Retry} \cup Gates
Tasks   == Calls \cup Lockers

Places == {"ready", "wake", "clear", "enter", "record", "error", "persist", "pause",
           "capturing", "unpaused", "begin", "load", "look", "done"}
Jobs == [target : Configs \cup {None}, previous : Configs \cup {None},
         stage : {"next", "rollback", "restore"}, gen : Nat, ok : BOOLEAN]

Types ==
  /\ cache \in Configs \cup {None} /\ roleCache \in Configs \cup {None}
  /\ live \in [keys : Configs \cup {None}, open : BOOLEAN]
  /\ missed \in BOOLEAN /\ open \in BOOLEAN /\ able \in BOOLEAN
  /\ generation \in Nat \ {0}
  /\ state \in {"starting", "installed", "failed", "disabled"}
  /\ lock \in Lockers \cup {None}
  /\ pc \in [Tasks -> Places] /\ job \in [Tasks -> Jobs]
  /\ overlapped \in BOOLEAN /\ saveFailed \in BOOLEAN

\* A task that does nothing has no job, and no job is of a generation to come.
JobInv ==
  \A p \in Tasks : /\ job[p].gen <= generation
                   /\ ~UnderWay(p) => job[p] = NoJob

\* Who holds the lock is about to register, for the current generation.
LockInv ==
  \A p \in Lockers : /\ lock = p <=> pc[p] = "enter"
                     /\ lock = p => job[p].gen = generation

\* p has an attempt of the current generation.
Current(p) ==
  /\ p \in Lockers /\ job[p].gen = generation
  /\ pc[p] \in (IF p = Retry THEN {"load", "clear", "enter", "look", "record"}
                             ELSE {"clear", "enter"})

\* p is between the begin of its generation and the result of it.
Pausing(p) == pc[p] \in {"pause", "capturing", "unpaused", "begin"}
Busy(p)    == Pausing(p) \/ pc[p] \in {"clear", "enter", "record"}

\* Calls come one after the other, and while one registers or pauses nobody else has an
\* attempt of its generation.
Alone ==
  \A p, q \in Calls : UnderWay(p) /\ UnderWay(q) => p = q

CallOwns(p) ==
  Busy(p) => /\ lock = None /\ \A q \in Lockers : ~Current(q)
             /\ state = IF Pausing(p) THEN "disabled" ELSE "starting"
             /\ ~Pausing(p) => job[p].gen = generation
             /\ pc[p] = "capturing" => live = Nothing

AttemptState ==
  /\ Current(Retry) => state = "starting"
  /\ \A g \in Gates : Current(g) => state = "installed"

OwnInv == ~overlapped => Alone /\ AttemptState /\ \A p \in Calls : CallOwns(p)

\* What a call is to register: what it was asked to, or what is saved.
SaveJob(s) ==
  UnderWay(s) =>
    /\ pc[s] \in {"wake", "clear", "enter", "record", "error", "persist"}
    /\ job[s].stage \in {"next", "rollback"}
    /\ job[s].previous = cache
    /\ job[s].stage = "rollback" => job[s].target = cache
    /\ pc[s] = "record" /\ job[s].stage = "next" => job[s].ok
    /\ pc[s] = "error" /\ job[s].stage = "next" => state = "installed"
    /\ pc[s] = "persist" => /\ job[s].stage = "next"
                            /\ state = "installed" \/ job[s].target = cache

CaptureJob(c) ==
  pc[c] \in {"begin", "clear", "enter", "record"} => job[c].target = cache

\* What was registered is what the system has,
Entered(p) == live.keys = job[p].target /\ roleCache = job[p].target

RetryJob ==
  Current(Retry) =>
    /\ pc[Retry] # "load" => job[Retry].target = cache
    /\ pc[Retry] \in {"load", "clear"} => ~job[Retry].ok
    /\ pc[Retry] \in {"look", "record"} /\ job[Retry].ok => Entered(Retry)

\* and the gate keeps it so, or has left something out.  A save that has registered its
\* shortcuts and is about to write them.
Bound(s) == pc[s] \in {"error", "persist"} /\ job[s].stage = "next"

Installed ==
  state = "installed" =>
    /\ lock = None => live.keys = roleCache \/ missed
    /\ \A g \in Gates : Current(g) => job[g].target = roleCache
    /\ \A s \in Saves : Bound(s) => job[s].target = roleCache
    /\ (\A s \in Saves : ~Bound(s)) => roleCache = cache

SavedInv ==
  ~overlapped /\ ~saveFailed =>
    /\ \A s \in Saves : SaveJob(s)
    /\ \A c \in Captures : CaptureJob(c)
    /\ \A p \in Calls : pc[p] = "record" /\ job[p].ok => Entered(p)
    /\ RetryJob
    /\ Installed

RegInv == Types /\ JobInv /\ LockInv /\ OwnInv /\ SavedInv

\* What register_configured_shortcuts leaves, and what a refused unregister_all does.
LEMMA RegisterTypes ==
  ASSUME Types, NEW config \in Configs \cup {None}, Register(config)
  PROVE  /\ live' \in [keys : Configs \cup {None}, open : BOOLEAN]
         /\ roleCache' \in Configs \cup {None} /\ missed' \in BOOLEAN
         /\ Works(config) => live'.keys = config /\ roleCache' = config
         /\ ~Works(config) => UNCHANGED shortcuts
<1>1. CASE Works(config)
  <2>1. live' = [keys |-> config, open |-> open] /\ roleCache' = config /\ missed' = FALSE
    BY <1>1, Zenon DEF Register
  <2> QED
    BY <1>1, <2>1 DEF Types
<1>2. CASE ~Works(config)
  BY <1>2, Zenon DEF Types, Register, shortcuts
<1> QED
  BY <1>1, <1>2

LEMMA NothingTypes ==
  ASSUME Types, live' \in {live, Nothing}
  PROVE  live' \in [keys : Configs \cup {None}, open : BOOLEAN]
<1>1. Nothing \in [keys : Configs \cup {None}, open : BOOLEAN]
  BY DEF Nothing
<1> QED
  BY <1>1 DEF Types

\* Who is who among the tasks.
LEMMA Who ==
  /\ \A p \in Saves \cup Captures : p \in Calls
  /\ \A p \in Calls : /\ p \in Tasks /\ p \notin Lockers /\ p # None
                      /\ p # Retry /\ p \notin Gates
  /\ \A p \in Lockers : p \in Tasks /\ p # None
  /\ Retry \in Lockers /\ Retry \in Tasks /\ Retry \notin Gates
  /\ \A p \in Gates : p \in Lockers /\ p \in Tasks /\ p # Retry
  /\ \A p \in Saves : p \notin Captures
  /\ Registrants \cup Gates = Tasks
BY RegistrationAssumption DEF Calls, Lockers, Tasks, Registrants

\* A save begins with what it was asked to register, and what to go back to.
LEMMA LoadJob ==
  ASSUME Types, JobInv, NEW p \in Saves, NEW config \in Configs, NEW to, Load(p, config, to)
  PROVE  \E j \in Jobs :
           /\ job' = [job EXCEPT ![p] = j]
           /\ j.target = config /\ j.previous = cache
           /\ j.stage = "next" /\ j.gen = 0
           /\ Go(p, "ready", to) /\ Begins
           /\ UNCHANGED <<cache, shortcuts, open, supervisor, environment, saveFailed>>
<1> p \in Tasks
  BY Who
<1>4. Go(p, "ready", to)
  BY Zenon DEF Load
<1>5. job[p] \in Jobs /\ job[p].stage = "next" /\ job[p].gen = 0
  BY <1>4 DEF Types, JobInv, UnderWay, Go, NoJob
<1> DEFINE new == [job[p] EXCEPT !.target = config, !.previous = cache]
<1>1. /\ new \in Jobs
      /\ new.target = config /\ new.previous = cache
      /\ new.stage = job[p].stage /\ new.gen = job[p].gen
  BY DEF Types, Jobs
<1>2. job' = [job EXCEPT ![p] = new]
  BY Zenon DEF Load
<1>3. /\ Go(p, "ready", to) /\ Begins
      /\ UNCHANGED <<cache, shortcuts, open, supervisor, environment, saveFailed>>
  BY DEF Load
<1> HIDE DEF new
<1> QED
  BY <1>1, <1>2, <1>3, <1>5

\* A save takes its generation.
LEMMA WakeJob ==
  ASSUME Types, JobInv, NEW p \in Saves, WakeForSettings(p)
  PROVE  \E j \in Jobs :
           /\ job' = [job EXCEPT ![p] = j]
           /\ j.target = job[p].target /\ j.previous = job[p].previous
           /\ j.stage = job[p].stage /\ j.gen = generation'
           /\ Go(p, "wake", "clear") /\ Wake
           /\ UNCHANGED <<cache, shortcuts, open, error, lock, overlapped, environment,
                          saveFailed>>
<1> p \in Tasks
  BY Who
<1>4. Wake
  BY Zenon DEF WakeForSettings
<1>5. PICK g \in Nat : g = generation'
  BY <1>4 DEF Wake, Types
<1> DEFINE new == [job[p] EXCEPT !.gen = g]
<1>1. /\ new \in Jobs
      /\ new.target = job[p].target /\ new.previous = job[p].previous
      /\ new.stage = job[p].stage /\ new.gen = g
  BY DEF Types, Jobs
<1>2. job' = [job EXCEPT ![p] = new]
  BY <1>5, Zenon DEF WakeForSettings
<1>3. /\ Go(p, "wake", "clear") /\ Wake
      /\ UNCHANGED <<cache, shortcuts, open, error, lock, overlapped, environment,
                     saveFailed>>
  BY DEF WakeForSettings, Wake
<1> HIDE DEF new
<1> QED
  BY <1>1, <1>2, <1>3, <1>5

\* The end of a recording goes back to what is saved.
LEMMA ResumeJob ==
  ASSUME Types, JobInv, NEW p \in Captures, Resume(p)
  PROVE  \E j \in Jobs :
           /\ job' = [job EXCEPT ![p] = j]
           /\ j.target = cache /\ j.gen = job[p].gen
           /\ pc[p] \in {"capturing", "unpaused"} /\ pc' = [pc EXCEPT ![p] = "begin"]
           /\ UNCHANGED <<cache, shortcuts, open, supervisor, overlapped, environment,
                          saveFailed>>
<1> p \in Tasks
  BY Who
<1> DEFINE new == [job[p] EXCEPT !.target = cache]
<1>1. /\ new \in Jobs
      /\ new.target = cache /\ new.gen = job[p].gen
  BY DEF Types, JobInv, Jobs, UnderWay, NoJob, Go, Resume
<1>2. job' = [job EXCEPT ![p] = new]
  BY Zenon DEF Resume
<1>3. /\ pc[p] \in {"capturing", "unpaused"} /\ pc' = [pc EXCEPT ![p] = "begin"]
      /\ UNCHANGED <<cache, shortcuts, open, supervisor, overlapped, environment,
                     saveFailed>>
  BY DEF Resume
<1> HIDE DEF new
<1> QED
  BY <1>1, <1>2, <1>3

\* ... under the generation of its recording.
LEMMA AttemptJob ==
  ASSUME Types, JobInv, NEW p \in Calls, begin_registration_attempt(p)
  PROVE  \E j \in Jobs :
           /\ job' = [job EXCEPT ![p] = j]
           /\ j.target = job[p].target /\ j.gen = generation
           /\ Go(p, "begin", "clear") /\ lock = None /\ state' = "starting"
           /\ UNCHANGED <<cache, shortcuts, open, generation, error, lock, overlapped,
                          environment, saveFailed>>
<1> p \in Tasks
  BY Who
<1> DEFINE new == [job[p] EXCEPT !.gen = generation]
<1>1. /\ new \in Jobs
      /\ new.target = job[p].target /\ new.gen = generation
  BY DEF Types, JobInv, Jobs, UnderWay, NoJob, Go, begin_registration_attempt
<1>2. job' = [job EXCEPT ![p] = new]
  BY Zenon DEF begin_registration_attempt
<1>3. /\ Go(p, "begin", "clear") /\ lock = None /\ state' = "starting"
      /\ UNCHANGED <<cache, shortcuts, open, generation, error, lock, overlapped,
                     environment, saveFailed>>
  BY DEF begin_registration_attempt
<1> HIDE DEF new
<1> QED
  BY <1>1, <1>2, <1>3

\* The retry takes the generation there is,
LEMMA RetryJobBegins ==
  ASSUME Types, JobInv, begin_retry_registration_attempt
  PROVE  \E j \in Jobs :
           /\ job' = [job EXCEPT ![Retry] = j]
           /\ j.gen = generation /\ ~j.ok
           /\ Go(Retry, "ready", "load") /\ lock = None
           /\ state = "failed" /\ state' = "starting"
           /\ UNCHANGED <<cache, shortcuts, open, generation, error, lock, overlapped,
                          environment, saveFailed>>
<1> Retry \in Tasks
  BY Who
<1> DEFINE new == [job[Retry] EXCEPT !.gen = generation]
<1>1. /\ new \in Jobs
      /\ new.gen = generation /\ ~new.ok
  BY DEF Types, JobInv, Jobs, UnderWay, NoJob, Go, begin_retry_registration_attempt
<1>2. job' = [job EXCEPT ![Retry] = new]
  BY Zenon DEF begin_retry_registration_attempt
<1>3. /\ Go(Retry, "ready", "load") /\ lock = None
      /\ state = "failed" /\ state' = "starting"
      /\ UNCHANGED <<cache, shortcuts, open, generation, error, lock, overlapped,
                     environment, saveFailed>>
  BY DEF begin_retry_registration_attempt
<1> HIDE DEF new
<1> QED
  BY <1>1, <1>2, <1>3

\* ... then what is saved,
LEMMA RetryJobLoads ==
  ASSUME Types, JobInv, RetryLoad
  PROVE  \E j \in Jobs :
           /\ job' = [job EXCEPT ![Retry] = j]
           /\ j.target = cache /\ j.gen = job[Retry].gen /\ j.ok = job[Retry].ok
           /\ Go(Retry, "load", "clear")
           /\ UNCHANGED <<cache, shortcuts, open, supervisor, overlapped, environment,
                          saveFailed>>
<1> Retry \in Tasks
  BY Who
<1> DEFINE new == [job[Retry] EXCEPT !.target = cache]
<1>1. /\ new \in Jobs
      /\ new.target = cache /\ new.gen = job[Retry].gen /\ new.ok = job[Retry].ok
  BY DEF Types, JobInv, Jobs, UnderWay, NoJob, Go, RetryLoad
<1>2. job' = [job EXCEPT ![Retry] = new]
  BY Zenon DEF RetryLoad
<1>3. /\ Go(Retry, "load", "clear")
      /\ UNCHANGED <<cache, shortcuts, open, supervisor, overlapped, environment,
                     saveFailed>>
  BY DEF RetryLoad
<1> HIDE DEF new
<1> QED
  BY <1>1, <1>2, <1>3

\* ... and registers that.
LEMMA RetryJobEnters ==
  ASSUME Types, JobInv, RetryEnter
  PROVE  \E j \in Jobs :
           /\ job' = [job EXCEPT ![Retry] = j]
           /\ j.target = job[Retry].target /\ j.gen = job[Retry].gen
           /\ j.ok <=> Works(job[Retry].target)
           /\ Go(Retry, "enter", "look") /\ Register(job[Retry].target) /\ lock' = None
           /\ UNCHANGED <<cache, open, generation, state, error, overlapped,
                          environment, saveFailed>>
<1> Retry \in Tasks
  BY Who
<1> DEFINE new == [job[Retry] EXCEPT !.ok = Works(job[Retry].target)]
<1>1. /\ new \in Jobs
      /\ new.target = job[Retry].target /\ new.gen = job[Retry].gen
      /\ new.ok <=> Works(job[Retry].target)
  BY DEF Types, JobInv, Jobs, UnderWay, NoJob, Go, RetryEnter, Works, Free
<1>2. job' = [job EXCEPT ![Retry] = new]
  BY Zenon DEF RetryEnter, Works
<1>3. /\ Go(Retry, "enter", "look") /\ Register(job[Retry].target) /\ lock' = None
      /\ UNCHANGED <<cache, open, generation, state, error, overlapped, environment,
                     saveFailed>>
  BY DEF RetryEnter, Works
<1> HIDE DEF new
<1> QED
  BY <1>1, <1>2, <1>3

\* A save that could not register goes back to what there was, any other call records that.
LEMMA CannotRegisterJob ==
  ASSUME Types, NEW p \in Calls, CannotRegister(p)
  PROVE  \E j \in Jobs :
           /\ job' = [job EXCEPT ![p] = j]
           /\ j.previous = job[p].previous /\ j.gen = job[p].gen
           /\ \/ /\ RollsBack(p)
                 /\ pc' = [pc EXCEPT ![p] = "clear"]
                 /\ j.stage = "rollback" /\ j.target = job[p].previous
              \/ /\ ~RollsBack(p)
                 /\ pc' = [pc EXCEPT ![p] = "record"]
                 /\ j.stage = job[p].stage /\ j.target = job[p].target /\ ~j.ok
<1> p \in Tasks
  BY Who
<1> DEFINE back == [job[p] EXCEPT !.stage = "rollback", !.target = job[p].previous]
           none == [job[p] EXCEPT !.ok = FALSE]
<1>1. /\ back \in Jobs /\ back.stage = "rollback" /\ back.target = job[p].previous
      /\ back.previous = job[p].previous /\ back.gen = job[p].gen
  BY DEF Types, Jobs
<1>2. /\ none \in Jobs /\ none.stage = job[p].stage /\ none.target = job[p].target
      /\ none.previous = job[p].previous /\ none.gen = job[p].gen /\ ~none.ok
  BY DEF Types, Jobs
<1>3. \/ RollsBack(p) /\ pc' = [pc EXCEPT ![p] = "clear"] /\ job' = [job EXCEPT ![p] = back]
      \/ ~RollsBack(p) /\ pc' = [pc EXCEPT ![p] = "record"] /\ job' = [job EXCEPT ![p] = none]
  BY Zenon DEF CannotRegister
<1> HIDE DEF back, none
<1> QED
  BY <1>1, <1>2, <1>3

\* A call that has registered records what came of it; a save that could not goes back.
LEMMA EnterJob ==
  ASSUME Types, NEW p \in Calls, Enter(p)
  PROVE  \E j \in Jobs :
           /\ job' = [job EXCEPT ![p] = j]
           /\ j.previous = job[p].previous /\ j.gen = job[p].gen
           /\ \/ /\ ~Works(job[p].target) /\ RollsBack(p)
                 /\ pc' = [pc EXCEPT ![p] = "clear"]
                 /\ j.stage = "rollback" /\ j.target = job[p].previous
              \/ /\ Works(job[p].target) \/ ~RollsBack(p)
                 /\ pc' = [pc EXCEPT ![p] = "record"]
                 /\ j.stage = job[p].stage /\ j.target = job[p].target
                 /\ j.ok <=> Works(job[p].target)
           /\ pc[p] = "enter" /\ Register(job[p].target)
           /\ UNCHANGED <<cache, open, supervisor, overlapped, environment, saveFailed>>
<1> p \in Tasks
  BY Who
<1> DEFINE done == [job[p] EXCEPT !.ok = TRUE]
<1>1. /\ done \in Jobs /\ done.stage = job[p].stage /\ done.target = job[p].target
      /\ done.previous = job[p].previous /\ done.gen = job[p].gen /\ done.ok
  BY DEF Types, Jobs
<1>2. /\ pc[p] = "enter" /\ Register(job[p].target)
      /\ UNCHANGED <<cache, open, supervisor, overlapped, environment, saveFailed>>
  BY DEF Enter
<1>3. CASE Works(job[p].target)
  <2>1. pc' = [pc EXCEPT ![p] = "record"] /\ job' = [job EXCEPT ![p] = done]
    BY <1>3, Zenon DEF Enter
  <2> HIDE DEF done
  <2> QED
    BY <1>1, <1>2, <1>3, <2>1
<1>4. CASE ~Works(job[p].target)
  <2>1. CannotRegister(p)
    BY <1>4 DEF Enter
  <2> QED
    BY <1>2, <1>4, <2>1, CannotRegisterJob
<1> QED
  BY <1>3, <1>4

\* So does one that could not take the shortcuts out.
LEMMA ClearFailsJob ==
  ASSUME Types, NEW p \in Calls, ClearFails(p)
  PROVE  \E j \in Jobs :
           /\ job' = [job EXCEPT ![p] = j]
           /\ j.previous = job[p].previous /\ j.gen = job[p].gen
           /\ \/ /\ RollsBack(p)
                 /\ pc' = [pc EXCEPT ![p] = "clear"]
                 /\ j.stage = "rollback" /\ j.target = job[p].previous
              \/ /\ ~RollsBack(p)
                 /\ pc' = [pc EXCEPT ![p] = "record"]
                 /\ j.stage = job[p].stage /\ j.target = job[p].target /\ ~j.ok
           /\ pc[p] = "clear" /\ live' \in {live, Nothing}
           /\ UNCHANGED <<cache, missed, roleCache, open, supervisor, able, overlapped, saveFailed>>
<1>1. /\ CannotRegister(p) /\ pc[p] = "clear" /\ live' \in {live, Nothing}
      /\ UNCHANGED <<cache, missed, roleCache, open, supervisor, able, overlapped, saveFailed>>
  BY DEF ClearFails, UnregisterFails
<1> QED
  BY <1>1, CannotRegisterJob

\* A save that could not be written ends, or registers what was there again.
LEMMA PersistFailsJob ==
  ASSUME Types, NEW p \in Saves, PersistFails(p)
  PROVE  \E j \in Jobs :
           /\ job' = [job EXCEPT ![p] = j]
           /\ \/ pc' = [pc EXCEPT ![p] = "done"] /\ j = NoJob
              \/ pc' = [pc EXCEPT ![p] = "wake"] /\ j.gen = job[p].gen
           /\ pc[p] = "persist" /\ cache' = job[p].target /\ saveFailed'
           /\ UNCHANGED <<shortcuts, open, supervisor, overlapped, environment>>
<1> p \in Tasks
  BY Who
<1> DEFINE old == [job[p] EXCEPT !.stage = "restore", !.target = job[p].previous]
<1>1. old \in Jobs /\ old.gen = job[p].gen /\ NoJob \in Jobs
  BY DEF Types, Jobs, NoJob
<1>2. \/ pc' = [pc EXCEPT ![p] = "done"] /\ job' = [job EXCEPT ![p] = NoJob]
      \/ pc' = [pc EXCEPT ![p] = "wake"] /\ job' = [job EXCEPT ![p] = old]
  BY Zenon DEF PersistFails, Finish
<1>3. /\ pc[p] = "persist" /\ cache' = job[p].target /\ saveFailed'
      /\ UNCHANGED <<shortcuts, open, supervisor, overlapped, environment>>
  BY DEF PersistFails
<1> HIDE DEF old
<1> QED
  BY <1>1, <1>2, <1>3

\* The gate takes the generation there is and what was registered last.
LEMMA SyncLookJob ==
  ASSUME Types, NEW p \in Gates, SyncLook(p)
  PROVE  \E j \in Jobs :
           /\ job' = [job EXCEPT ![p] = j]
           /\ \/ pc' = [pc EXCEPT ![p] = "done"] /\ j = NoJob
              \/ /\ state = "installed" /\ pc' = [pc EXCEPT ![p] = "clear"]
                 /\ j.gen = generation /\ j.target = roleCache
           /\ pc[p] = "look" /\ lock = None
           /\ UNCHANGED <<cache, shortcuts, open, supervisor, overlapped, environment,
                          saveFailed>>
<1> p \in Tasks
  BY Who
<1> DEFINE new == [job[p] EXCEPT !.gen = generation, !.target = roleCache]
<1>1. new \in Jobs /\ new.gen = generation /\ new.target = roleCache /\ NoJob \in Jobs
  BY DEF Types, Jobs, NoJob
<1>2. \/ pc' = [pc EXCEPT ![p] = "done"] /\ job' = [job EXCEPT ![p] = NoJob]
      \/ /\ state = "installed" /\ pc' = [pc EXCEPT ![p] = "clear"]
         /\ job' = [job EXCEPT ![p] = new]
  BY Zenon DEF SyncLook, Finish, MaySync
<1>3. /\ pc[p] = "look" /\ lock = None
      /\ UNCHANGED <<cache, shortcuts, open, supervisor, overlapped, environment,
                     saveFailed>>
  BY DEF SyncLook
<1> HIDE DEF new
<1> QED
  BY <1>1, <1>2, <1>3

\* Only saves wake and persist.
LEMMA SavesOnly ==
  ASSUME NEW p \in Calls, WakeForSettings(p) \/ Persist(p) \/ PersistFails(p)
  PROVE  p \in Saves
BY Zenon DEF WakeForSettings, Persist, PersistFails

\* A task that goes on keeps its job typed and its generation one there has been.
LEMMA JobKept ==
  ASSUME Types, JobInv, NEW p \in Tasks, NEW j \in Jobs, job' = [job EXCEPT ![p] = j],
         NEW to \in Places, pc' = [pc EXCEPT ![p] = to],
         to \in {"ready", "done"} => j = NoJob,
         j.gen <= generation', generation' \in {generation, generation + 1}
  PROVE  JobInv'
BY DEF Types, JobInv, UnderWay, Jobs

\* What ShowError does to its call.
LEMMA ShowErrorJob ==
  ASSUME Types, NEW p \in Calls, ShowError(p)
  PROVE  \E j \in Jobs :
           /\ job' = [job EXCEPT ![p] = j]
           /\ \/ /\ p \in Saves /\ job[p].stage = "next"
                 /\ pc' = [pc EXCEPT ![p] = "persist"] /\ j = job[p]
              \/ /\ p \notin Saves \/ job[p].stage # "next"
                 /\ pc' = [pc EXCEPT ![p] = "done"] /\ j = NoJob
           /\ pc[p] = "error"
           /\ UNCHANGED <<cache, shortcuts, open, generation, state, lock, overlapped,
                          environment, saveFailed>>
<1>1. p \in Tasks /\ NoJob \in Jobs /\ job[p] \in Jobs
  BY Who DEF Types, Jobs, NoJob
<1>2. \/ /\ p \in Saves /\ job[p].stage = "next"
         /\ pc' = [pc EXCEPT ![p] = "persist"] /\ job' = job
      \/ /\ p \notin Saves \/ job[p].stage # "next"
         /\ pc' = [pc EXCEPT ![p] = "done"] /\ job' = [job EXCEPT ![p] = NoJob]
  BY Zenon DEF ShowError, Finish
<1>3. job = [job EXCEPT ![p] = job[p]]
  BY <1>1 DEF Types
<1>4. /\ pc[p] = "error"
      /\ UNCHANGED <<cache, shortcuts, open, generation, state, lock, overlapped,
                     environment, saveFailed>>
  BY Zenon DEF ShowError
<1> QED
  BY <1>1, <1>2, <1>3, <1>4

\* A save that begins finds what is saved, and what is registered is that.
LEMMA SavedAtLoad ==
  ASSUME RegInv, NEW p \in Saves, NEW config \in Configs, NEW to \in {"wake", "persist"},
         Load(p, config, to), to = "persist" => config = cache
  PROVE  SavedInv'
<1>1. PICK j \in Jobs :
        /\ job' = [job EXCEPT ![p] = j] /\ pc' = [pc EXCEPT ![p] = to]
        /\ j.target = config /\ j.previous = cache /\ j.stage = "next" /\ pc[p] = "ready"
        /\ Begins
        /\ UNCHANGED <<cache, live, missed, roleCache, generation, state, lock, saveFailed>>
  BY LoadJob DEF RegInv, Go, shortcuts, supervisor
<1>2. SUFFICES ASSUME ~overlapped', ~saveFailed'
               PROVE  SavedInv'
  BY DEF SavedInv
<1>3. ~overlapped /\ ~saveFailed /\ \A q \in Calls : ~UnderWay(q)
  BY <1>1, <1>2 DEF Begins, Types, RegInv
<1>4. /\ p \in Tasks /\ pc'[p] = to /\ job'[p] = j
      /\ \A q \in Tasks : q # p => pc'[q] = pc[q] /\ job'[q] = job[q]
  BY <1>1, Who DEF RegInv, Types
<1>5. \A q \in Calls : q # p => ~UnderWay(q)'
  BY <1>3, <1>4, Who DEF UnderWay
<1>6. \A s \in Saves : SaveJob(s)'
  BY <1>1, <1>4, <1>5, Who DEF SaveJob, UnderWay
<1>7. \A c \in Captures : CaptureJob(c)'
  BY <1>4, <1>5, Who DEF CaptureJob, UnderWay
<1>8. \A q \in Calls : pc'[q] # "record"
  BY <1>4, <1>5, Who DEF UnderWay
<1>9. RetryJob'
  BY <1>1, <1>3, <1>4, Who DEF RegInv, SavedInv, RetryJob, Current, Entered
<1>10. Installed'
  <2>1. \A s \in Saves : ~Bound(s)
    BY <1>3, Who DEF Bound, UnderWay
  <2>2. \A s \in Saves : Bound(s)' => s = p /\ job'[s].target = cache
    BY <1>1, <1>4, <1>5, Who DEF Bound, UnderWay
  <2>3. \A g \in Gates : (Current(g)' <=> Current(g)) /\ job'[g] = job[g]
    BY <1>1, <1>4, Who DEF Current
  <2> QED
    BY <1>1, <1>3, <2>1, <2>2, <2>3 DEF RegInv, SavedInv, Installed
<1> QED
  BY <1>6, <1>7, <1>8, <1>9, <1>10 DEF SavedInv

\* A call that records its result is the only one of its generation, and what it
\* registered is what it was asked to or what is saved.
LEMMA SavedAtRecord ==
  ASSUME RegInv, NEW p \in Calls, Record(p)
  PROVE  SavedInv'
<1>1. /\ pc[p] = "record" /\ pc' = [pc EXCEPT ![p] = "error"] /\ lock = None
      /\ state' = IF generation = job[p].gen
                  THEN (IF job[p].ok THEN "installed" ELSE "failed") ELSE state
      /\ UNCHANGED <<cache, live, missed, roleCache, generation, lock, job, overlapped,
                     saveFailed>>
  BY DEF Record, record_registration, Go, shortcuts
<1>2. SUFFICES ASSUME ~overlapped, ~saveFailed
               PROVE  SavedInv'
  BY <1>1 DEF SavedInv
<1>3. /\ p \in Tasks /\ pc'[p] = "error"
      /\ \A q \in Tasks : q # p => pc'[q] = pc[q]
  BY <1>1, Who DEF RegInv, Types
<1>4. CallOwns(p) /\ \A q \in Calls : q # p => ~UnderWay(q)
  BY <1>1, <1>2 DEF RegInv, OwnInv, Alone, UnderWay
<1>5. job[p].gen = generation /\ \A q \in Lockers : ~Current(q)
  BY <1>1, <1>4 DEF CallOwns, Busy, Pausing
<1>6. state' = IF job[p].ok THEN "installed" ELSE "failed"
  BY <1>1, <1>5
<1>7. \A q \in Lockers : ~Current(q)'
  BY <1>1, <1>3, <1>5, Who DEF Current
<1>8. /\ p \in Saves => SaveJob(p)
      /\ p \in Captures => CaptureJob(p)
      /\ job[p].ok => Entered(p)
  BY <1>1, <1>2 DEF RegInv, SavedInv
<1>9. \A s \in Saves : SaveJob(s)'
  BY <1>1, <1>3, <1>4, <1>6, <1>8, Who DEF SaveJob, UnderWay
<1>10. \A c \in Captures : CaptureJob(c)'
  BY <1>1, <1>3, <1>4, Who DEF CaptureJob, UnderWay
<1>11. \A q \in Calls : pc'[q] # "record"
  BY <1>3, <1>4, Who DEF UnderWay
<1>12. RetryJob'
  BY <1>7, Who DEF RetryJob
<1>13. Installed'
  <2>1. SUFFICES ASSUME job[p].ok
                 PROVE  Installed'
    BY <1>6 DEF Installed
  <2>2. live'.keys = job[p].target /\ roleCache' = job[p].target
    BY <1>1, <1>8, <2>1 DEF Entered
  <2>3. \A s \in Saves : Bound(s)' <=> s = p /\ job[p].stage = "next"
    BY <1>1, <1>3, <1>4, Who DEF Bound, UnderWay
  <2>4. ~(p \in Saves /\ job[p].stage = "next") => job[p].target = cache
    BY <1>1, <1>8 DEF SaveJob, CaptureJob, UnderWay, Calls
  <2> QED
    BY <1>1, <1>7, <2>2, <2>3, <2>4, Who DEF Installed
<1> QED
  BY <1>9, <1>10, <1>11, <1>12, <1>13 DEF SavedInv

\* A call that registers is the only one of its generation, and what it is to register next, or
\* has registered, is what it was asked to or what is saved.
LEMMA SavedAtEnter ==
  ASSUME RegInv, NEW p \in Calls, Enter(p)
  PROVE  SavedInv'
<1>1. PICK j \in Jobs :
        /\ job' = [job EXCEPT ![p] = j]
        /\ j.previous = job[p].previous /\ j.gen = job[p].gen
        /\ \/ /\ ~Works(job[p].target) /\ RollsBack(p)
              /\ pc' = [pc EXCEPT ![p] = "clear"]
              /\ j.stage = "rollback" /\ j.target = job[p].previous
           \/ /\ Works(job[p].target) \/ ~RollsBack(p)
              /\ pc' = [pc EXCEPT ![p] = "record"]
              /\ j.stage = job[p].stage /\ j.target = job[p].target
              /\ j.ok <=> Works(job[p].target)
        /\ pc[p] = "enter" /\ Register(job[p].target)
        /\ UNCHANGED <<cache, generation, state, lock, overlapped, saveFailed>>
  BY EnterJob DEF RegInv, supervisor
<1>2. SUFFICES ASSUME ~overlapped, ~saveFailed
               PROVE  SavedInv'
  BY <1>1 DEF SavedInv
<1>3. /\ p \in Tasks /\ pc'[p] \in {"clear", "record"} /\ job'[p] = j
      /\ \A q \in Tasks : q # p => pc'[q] = pc[q] /\ job'[q] = job[q]
  BY <1>1, Who DEF RegInv, Types
<1>4. CallOwns(p) /\ \A q \in Calls : q # p => ~UnderWay(q)
  BY <1>1, <1>2 DEF RegInv, OwnInv, Alone, UnderWay
<1>5. state = "starting" /\ \A q \in Lockers : ~Current(q)
  BY <1>1, <1>4 DEF CallOwns, Busy, Pausing
<1>6. \A q \in Lockers : ~Current(q)'
  BY <1>1, <1>3, <1>5, Who DEF Current
<1>7. /\ p \in Saves => SaveJob(p)
      /\ p \in Captures => CaptureJob(p)
  BY <1>1, <1>2 DEF RegInv, SavedInv
<1>8. p \in Saves => SaveJob(p)'
  BY <1>1, <1>3, <1>7, Who DEF SaveJob, UnderWay, RollsBack
<1>9. p \in Captures => CaptureJob(p)'
  BY <1>1, <1>3, <1>7, Who DEF CaptureJob, RollsBack
<1>10. \A s \in Saves : SaveJob(s)'
  BY <1>3, <1>4, <1>8, Who DEF SaveJob, UnderWay
<1>11. \A c \in Captures : CaptureJob(c)'
  BY <1>3, <1>4, <1>9, Who DEF CaptureJob, UnderWay
<1>12. \A q \in Calls : pc'[q] = "record" /\ job'[q].ok => Entered(q)'
  <2>1. job[p].target \in Configs \cup {None}
    BY <1>3 DEF RegInv, Types, Jobs
  <2>2. pc'[p] = "record" /\ j.ok => Entered(p)'
    BY <1>1, <1>3, <2>1, RegisterTypes DEF Entered, RegInv, Types
  <2> QED
    BY <1>3, <1>4, <2>2, Who DEF UnderWay
<1>13. RetryJob' /\ Installed'
  BY <1>1, <1>5, <1>6, Who DEF RetryJob, Installed
<1> QED
  BY <1>10, <1>11, <1>12, <1>13 DEF SavedInv

\* The values stay in their sets.
LEMMA TypesStep ==
  ASSUME RegInv, [Next]_vars
  PROVE  Types'
<1> USE Who DEF RegInv, Types, Go, Finish, Begins, supervisor, shortcuts, calls,
            environment, Tasks, Places, Jobs, NoJob, Nothing, LockIfCurrent, MayRetry
<1>1. ASSUME NEW p \in Saves, UpdateConfig(p)  PROVE Types'
  <2>1. PICK j \in Jobs, to \in {"wake", "persist"} :
           /\ job' = [job EXCEPT ![p] = j] /\ pc' = [pc EXCEPT ![p] = to]
           /\ Begins
           /\ UNCHANGED <<cache, shortcuts, open, supervisor, environment, saveFailed>>
    BY <1>1, LoadJob DEF UpdateConfig
  <2> QED
    BY <2>1
<1>2. ASSUME NEW p \in Saves, UpdateHotkey(p)  PROVE Types'
  <2>1. PICK j \in Jobs, to \in {"wake", "persist"} :
           /\ job' = [job EXCEPT ![p] = j] /\ pc' = [pc EXCEPT ![p] = to]
           /\ Begins
           /\ UNCHANGED <<cache, shortcuts, open, supervisor, environment, saveFailed>>
    BY <1>2, LoadJob DEF UpdateHotkey
  <2> QED
    BY <2>1
<1>3. ASSUME NEW p \in Saves, WakeForSettings(p)  PROVE Types'
  BY <1>3, WakeJob DEF Wake
<1>4. ASSUME NEW p \in Saves, Persist(p)  PROVE Types'
  BY <1>4 DEF Persist
<1>5. ASSUME NEW p \in Saves, PersistFails(p)  PROVE Types'
  <2>1. PICK j \in Jobs, to \in {"wake", "done"} :
           /\ job' = [job EXCEPT ![p] = j] /\ pc' = [pc EXCEPT ![p] = to]
           /\ cache' = job[p].target
           /\ UNCHANGED <<shortcuts, open, supervisor, overlapped, environment>>
    BY <1>5, PersistFailsJob
  <2>2. saveFailed' = TRUE
    BY <1>5, Zenon DEF PersistFails
  <2> QED
    BY <2>1, <2>2
<1>6. ASSUME NEW p \in Captures, Disable(p)  PROVE Types'
  BY <1>6 DEF Disable
<1>7. ASSUME NEW p \in Captures, Resume(p)  PROVE Types'
  BY <1>7, ResumeJob
<1>8. ASSUME NEW p \in Calls, Pause(p)  PROVE Types'
  BY <1>8 DEF Pause, Unregister, Nothing
<1>9. ASSUME NEW p \in Calls, begin_registration_attempt(p)  PROVE Types'
  BY <1>9, AttemptJob
<1>10. ASSUME NEW p \in Calls, Clear(p)  PROVE Types'
  BY <1>10 DEF Clear, Unregister, Nothing
<1>11. ASSUME NEW p \in Calls, Enter(p)  PROVE Types'
  <2>1. PICK j \in Jobs :
           /\ job' = [job EXCEPT ![p] = j]
           /\ \/ pc' = [pc EXCEPT ![p] = "clear"]
              \/ pc' = [pc EXCEPT ![p] = "record"]
           /\ Register(job[p].target)
           /\ UNCHANGED <<cache, open, supervisor, overlapped, environment, saveFailed>>
    BY <1>11, EnterJob
  <2>2. job[p].target \in Configs \cup {None}
    OBVIOUS
  <2>3. /\ live' \in [keys : Configs \cup {None}, open : BOOLEAN]
        /\ roleCache' \in Configs \cup {None} /\ missed' \in BOOLEAN
    BY <2>1, <2>2, RegisterTypes
  <2> QED
    BY <2>1, <2>3
<1>12. ASSUME NEW p \in Calls, Record(p)  PROVE Types'
  BY <1>12 DEF Record, record_registration
<1>13. ASSUME NEW p \in Calls, ShowError(p)  PROVE Types'
  BY <1>13, ShowErrorJob
<1>14. ASSUME begin_retry_registration_attempt  PROVE Types'
  BY <1>14, RetryJobBegins
<1>15. ASSUME RetryLoad  PROVE Types'
  BY <1>15, RetryJobLoads
<1>16. ASSUME RetryClear  PROVE Types'
  BY <1>16 DEF RetryClear, Unregister, Nothing
<1>17. ASSUME Superseded  PROVE Types'
  BY <1>17 DEF Superseded
<1>18. ASSUME RetryEnter  PROVE Types'
  <2>1. PICK j \in Jobs :
           /\ job' = [job EXCEPT ![Retry] = j] /\ pc' = [pc EXCEPT ![Retry] = "look"]
           /\ Register(job[Retry].target) /\ lock' = None
           /\ UNCHANGED <<cache, open, generation, state, error, overlapped, environment,
                          saveFailed>>
    BY <1>18, RetryJobEnters
  <2>2. job[Retry].target \in Configs \cup {None}
    OBVIOUS
  <2>3. /\ live' \in [keys : Configs \cup {None}, open : BOOLEAN]
        /\ roleCache' \in Configs \cup {None} /\ missed' \in BOOLEAN
    BY <2>1, <2>2, RegisterTypes
  <2> QED
    BY <2>1, <2>3
<1>19. ASSUME RetryLook  PROVE Types'
  BY <1>19 DEF RetryLook
<1>20. ASSUME RetryRecord  PROVE Types'
  BY <1>20 DEF RetryRecord, record_registration
<1>21. ASSUME RetryShowError  PROVE Types'
  BY <1>21 DEF RetryShowError
<1>22. ASSUME Permission  PROVE Types'
  BY <1>22 DEF Permission
<1>23. ASSUME NEW p \in Gates, SetGate(p)  PROVE Types'
  BY <1>23 DEF SetGate
<1>24. ASSUME NEW p \in Gates, SyncLook(p)  PROVE Types'
  BY <1>24, SyncLookJob
<1>25. ASSUME NEW p \in Gates, SyncClear(p)  PROVE Types'
  BY <1>25 DEF SyncClear, Unregister, Nothing
<1>26. ASSUME NEW p \in Gates, SyncRefused(p)  PROVE Types'
  BY <1>26 DEF SyncRefused
<1>27. ASSUME NEW p \in Gates, SyncEnter(p)  PROVE Types'
  BY <1>27 DEF SyncEnter, Free
<1>29. ASSUME NEW p \in Calls, ClearFails(p)  PROVE Types'
  <2>1. PICK j \in Jobs :
           /\ job' = [job EXCEPT ![p] = j]
           /\ \/ pc' = [pc EXCEPT ![p] = "clear"]
              \/ pc' = [pc EXCEPT ![p] = "record"]
           /\ live' \in {live, Nothing}
           /\ UNCHANGED <<cache, missed, roleCache, open, supervisor, able, overlapped, saveFailed>>
    BY <1>29, ClearFailsJob
  <2>2. live' \in [keys : Configs \cup {None}, open : BOOLEAN]
    BY <2>1, NothingTypes
  <2> QED
    BY <2>1, <2>2
<1>30. ASSUME NEW p \in Calls, PauseFails(p)  PROVE Types'
  <2>1. live' \in [keys : Configs \cup {None}, open : BOOLEAN]
    BY <1>30, NothingTypes DEF PauseFails, UnregisterFails
  <2> QED
    BY <1>30, <2>1 DEF PauseFails, UnregisterFails
<1>31. ASSUME RetryClearFails  PROVE Types'
  <2>1. live' \in [keys : Configs \cup {None}, open : BOOLEAN]
    BY <1>31, NothingTypes DEF RetryClearFails, UnregisterFails
  <2> QED
    BY <1>31, <2>1 DEF RetryClearFails, UnregisterFails
<1>32. ASSUME NEW p \in Gates, SyncClearFails(p)  PROVE Types'
  <2>1. live' \in [keys : Configs \cup {None}, open : BOOLEAN]
    BY <1>32, NothingTypes DEF SyncClearFails, UnregisterFails
  <2> QED
    BY <1>32, <2>1 DEF SyncClearFails, UnregisterFails
<1>28. CASE UNCHANGED vars
  BY <1>28 DEF vars
<1> QED
  BY SavesOnly, <1>1, <1>2, <1>3, <1>4, <1>5, <1>6, <1>7, <1>8, <1>9, <1>10, <1>11,
     <1>12, <1>13, <1>14, <1>15, <1>16, <1>17, <1>18, <1>19, <1>20, <1>21, <1>22,
     <1>23, <1>24, <1>25, <1>26, <1>27, <1>28, <1>29, <1>30, <1>31, <1>32
  DEF Next, CallStep, RetryStep, GateStep

\* A task begins with no job and leaves none, and takes the generation there is.
LEMMA JobStep ==
  ASSUME RegInv, [Next]_vars
  PROVE  JobInv'
<1> USE Who DEF RegInv, Types, Go, Finish, Begins, supervisor, shortcuts, calls,
            environment, JobInv, UnderWay, NoJob, Jobs
<1>1. ASSUME NEW p \in Saves, UpdateConfig(p)  PROVE JobInv'
  <2>1. PICK j \in Jobs, to \in {"wake", "persist"} :
           /\ job' = [job EXCEPT ![p] = j] /\ pc' = [pc EXCEPT ![p] = to]
           /\ j.gen <= generation' /\ generation' \in {generation, generation + 1}
           /\ to \in {"ready", "done"} => j = NoJob
    BY <1>1, LoadJob DEF UpdateConfig
  <2> QED
    BY <2>1, JobKept DEF Places
<1>2. ASSUME NEW p \in Saves, UpdateHotkey(p)  PROVE JobInv'
  <2>1. PICK j \in Jobs, to \in {"wake"} :
           /\ job' = [job EXCEPT ![p] = j] /\ pc' = [pc EXCEPT ![p] = to]
           /\ j.gen <= generation' /\ generation' \in {generation, generation + 1}
           /\ to \in {"ready", "done"} => j = NoJob
    BY <1>2, LoadJob DEF UpdateHotkey
  <2> QED
    BY <2>1, JobKept DEF Places
<1>3. ASSUME NEW p \in Saves, WakeForSettings(p)  PROVE JobInv'
  <2>1. PICK j \in Jobs, to \in {"clear"} :
           /\ job' = [job EXCEPT ![p] = j] /\ pc' = [pc EXCEPT ![p] = to]
           /\ j.gen <= generation' /\ generation' \in {generation, generation + 1}
           /\ to \in {"ready", "done"} => j = NoJob
    BY <1>3, WakeJob DEF Wake
  <2> QED
    BY <2>1, JobKept DEF Places
<1>4. ASSUME NEW p \in Saves, Persist(p)  PROVE JobInv'
  BY <1>4 DEF Persist
<1>5. ASSUME NEW p \in Saves, PersistFails(p)  PROVE JobInv'
  <2>1. PICK j \in Jobs, to \in {"done", "wake"} :
           /\ job' = [job EXCEPT ![p] = j] /\ pc' = [pc EXCEPT ![p] = to]
           /\ j.gen <= generation' /\ generation' \in {generation, generation + 1}
           /\ to \in {"ready", "done"} => j = NoJob
    BY <1>5, PersistFailsJob DEF Types
  <2> QED
    BY <2>1, JobKept DEF Places
<1>6. ASSUME NEW p \in Captures, Disable(p)  PROVE JobInv'
  BY <1>6 DEF Disable
<1>7. ASSUME NEW p \in Captures, Resume(p)  PROVE JobInv'
  <2>1. PICK j \in Jobs, to \in {"begin"} :
           /\ job' = [job EXCEPT ![p] = j] /\ pc' = [pc EXCEPT ![p] = to]
           /\ j.gen <= generation' /\ generation' \in {generation, generation + 1}
           /\ to \in {"ready", "done"} => j = NoJob
    BY <1>7, ResumeJob DEF Types
  <2> QED
    BY <2>1, JobKept DEF Places
<1>8. ASSUME NEW p \in Calls, Pause(p)  PROVE JobInv'
  BY <1>8 DEF Pause, Unregister, Nothing
<1>9. ASSUME NEW p \in Calls, begin_registration_attempt(p)  PROVE JobInv'
  <2>1. PICK j \in Jobs, to \in {"clear"} :
           /\ job' = [job EXCEPT ![p] = j] /\ pc' = [pc EXCEPT ![p] = to]
           /\ j.gen <= generation' /\ generation' \in {generation, generation + 1}
           /\ to \in {"ready", "done"} => j = NoJob
    BY <1>9, AttemptJob DEF Types
  <2> QED
    BY <2>1, JobKept DEF Places
<1>10. ASSUME NEW p \in Calls, Clear(p)  PROVE JobInv'
  BY <1>10 DEF Clear, Unregister, Nothing
<1>11. ASSUME NEW p \in Calls, Enter(p)  PROVE JobInv'
  <2>1. PICK j \in Jobs, to \in {"clear", "record"} :
           /\ job' = [job EXCEPT ![p] = j] /\ pc' = [pc EXCEPT ![p] = to]
           /\ j.gen <= generation' /\ generation' \in {generation, generation + 1}
           /\ to \in {"ready", "done"} => j = NoJob
    BY <1>11, EnterJob DEF Types
  <2> QED
    BY <2>1, JobKept DEF Places
<1>12. ASSUME NEW p \in Calls, Record(p)  PROVE JobInv'
  BY <1>12 DEF Record, record_registration
<1>13. ASSUME NEW p \in Calls, ShowError(p)  PROVE JobInv'
  <2>1. PICK j \in Jobs, to \in {"persist", "done"} :
           /\ job' = [job EXCEPT ![p] = j] /\ pc' = [pc EXCEPT ![p] = to]
           /\ j.gen <= generation' /\ generation' \in {generation, generation + 1}
           /\ to \in {"ready", "done"} => j = NoJob
    BY <1>13, ShowErrorJob DEF Types
  <2> QED
    BY <2>1, JobKept DEF Places
<1>14. ASSUME begin_retry_registration_attempt  PROVE JobInv'
  <2>1. PICK j \in Jobs, to \in {"load"} :
           /\ job' = [job EXCEPT ![Retry] = j] /\ pc' = [pc EXCEPT ![Retry] = to]
           /\ j.gen <= generation' /\ generation' \in {generation, generation + 1}
           /\ to \in {"ready", "done"} => j = NoJob
    BY <1>14, RetryJobBegins DEF Types
  <2> QED
    BY <2>1, JobKept DEF Places
<1>15. ASSUME RetryLoad  PROVE JobInv'
  <2>1. PICK j \in Jobs, to \in {"clear"} :
           /\ job' = [job EXCEPT ![Retry] = j] /\ pc' = [pc EXCEPT ![Retry] = to]
           /\ j.gen <= generation' /\ generation' \in {generation, generation + 1}
           /\ to \in {"ready", "done"} => j = NoJob
    BY <1>15, RetryJobLoads DEF Types
  <2> QED
    BY <2>1, JobKept DEF Places
<1>16. ASSUME RetryClear  PROVE JobInv'
  BY <1>16 DEF RetryClear, Unregister, Nothing
<1>17. ASSUME Superseded  PROVE JobInv'
  BY <1>17 DEF Superseded
<1>18. ASSUME RetryEnter  PROVE JobInv'
  <2>1. PICK j \in Jobs, to \in {"look"} :
           /\ job' = [job EXCEPT ![Retry] = j] /\ pc' = [pc EXCEPT ![Retry] = to]
           /\ j.gen <= generation' /\ generation' \in {generation, generation + 1}
           /\ to \in {"ready", "done"} => j = NoJob
    BY <1>18, RetryJobEnters DEF Types
  <2> QED
    BY <2>1, JobKept DEF Places
<1>19. ASSUME RetryLook  PROVE JobInv'
  BY <1>19 DEF RetryLook
<1>20. ASSUME RetryRecord  PROVE JobInv'
  BY <1>20 DEF RetryRecord, record_registration
<1>21. ASSUME RetryShowError  PROVE JobInv'
  BY <1>21 DEF RetryShowError
<1>22. ASSUME Permission  PROVE JobInv'
  BY <1>22 DEF Permission
<1>23. ASSUME NEW p \in Gates, SetGate(p)  PROVE JobInv'
  BY <1>23 DEF SetGate
<1>24. ASSUME NEW p \in Gates, SyncLook(p)  PROVE JobInv'
  <2>1. PICK j \in Jobs, to \in {"done", "clear"} :
           /\ job' = [job EXCEPT ![p] = j] /\ pc' = [pc EXCEPT ![p] = to]
           /\ j.gen <= generation' /\ generation' \in {generation, generation + 1}
           /\ to \in {"ready", "done"} => j = NoJob
    BY <1>24, SyncLookJob DEF Types
  <2> QED
    BY <2>1, JobKept DEF Places
<1>25. ASSUME NEW p \in Gates, SyncClear(p)  PROVE JobInv'
  BY <1>25 DEF SyncClear, Unregister, Nothing
<1>26. ASSUME NEW p \in Gates, SyncRefused(p)  PROVE JobInv'
  BY <1>26 DEF SyncRefused
<1>27. ASSUME NEW p \in Gates, SyncEnter(p)  PROVE JobInv'
  BY <1>27 DEF SyncEnter, Free
<1>29. ASSUME NEW p \in Calls, ClearFails(p)  PROVE JobInv'
  <2>1. PICK j \in Jobs, to \in {"clear", "record"} :
           /\ job' = [job EXCEPT ![p] = j] /\ pc' = [pc EXCEPT ![p] = to]
           /\ j.gen <= generation' /\ generation' \in {generation, generation + 1}
           /\ to \in {"ready", "done"} => j = NoJob
    BY <1>29, ClearFailsJob DEF Types
  <2> QED
    BY <2>1, JobKept DEF Places
<1>30. ASSUME NEW p \in Calls, PauseFails(p)  PROVE JobInv'
  BY <1>30 DEF PauseFails, UnregisterFails, Nothing
<1>31. ASSUME RetryClearFails  PROVE JobInv'
  BY <1>31 DEF RetryClearFails, UnregisterFails, Nothing
<1>32. ASSUME NEW p \in Gates, SyncClearFails(p)  PROVE JobInv'
  BY <1>32 DEF SyncClearFails, UnregisterFails, Nothing
<1>28. CASE UNCHANGED vars
  BY <1>28 DEF vars
<1> QED
  BY SavesOnly, <1>1, <1>2, <1>3, <1>4, <1>5, <1>6, <1>7, <1>8, <1>9, <1>10, <1>11,
     <1>12, <1>13, <1>14, <1>15, <1>16, <1>17, <1>18, <1>19, <1>20, <1>21, <1>22,
     <1>23, <1>24, <1>25, <1>26, <1>27, <1>28, <1>29, <1>30, <1>31, <1>32
  DEF Next, CallStep, RetryStep, GateStep

\* The lock is taken on the way to "enter" and given back from it, and nobody begins a
\* generation while somebody has it.
LEMMA LockStep ==
  ASSUME RegInv, [Next]_vars
  PROVE  LockInv'
<1> USE Who DEF RegInv, Types, Go, Finish, Begins, supervisor, shortcuts, calls,
            environment, LockInv, JobInv, Lockers, LockIfCurrent, MayRetry
<1>1. ASSUME NEW p \in Saves, UpdateConfig(p)  PROVE LockInv'
  BY <1>1, LoadJob DEF UpdateConfig, Refreshes
<1>2. ASSUME NEW p \in Saves, UpdateHotkey(p)  PROVE LockInv'
  BY <1>2, LoadJob DEF UpdateHotkey
<1>3. ASSUME NEW p \in Saves, WakeForSettings(p)  PROVE LockInv'
  BY <1>3, WakeJob DEF Wake
<1>4. ASSUME NEW p \in Saves, Persist(p)  PROVE LockInv'
  BY <1>4 DEF Persist
<1>5. ASSUME NEW p \in Saves, PersistFails(p)  PROVE LockInv'
  BY <1>5, PersistFailsJob
<1>6. ASSUME NEW p \in Captures, Disable(p)  PROVE LockInv'
  BY <1>6 DEF Disable
<1>7. ASSUME NEW p \in Captures, Resume(p)  PROVE LockInv'
  BY <1>7, ResumeJob
<1>8. ASSUME NEW p \in Calls, Pause(p)  PROVE LockInv'
  BY <1>8 DEF Pause, Unregister, Nothing
<1>9. ASSUME NEW p \in Calls, begin_registration_attempt(p)  PROVE LockInv'
  BY <1>9, AttemptJob
<1>10. ASSUME NEW p \in Calls, Clear(p)  PROVE LockInv'
  BY <1>10 DEF Clear, Unregister, Nothing
<1>11. ASSUME NEW p \in Calls, Enter(p)  PROVE LockInv'
  BY <1>11, EnterJob
<1>12. ASSUME NEW p \in Calls, Record(p)  PROVE LockInv'
  BY <1>12 DEF Record, record_registration
<1>13. ASSUME NEW p \in Calls, ShowError(p)  PROVE LockInv'
  BY <1>13, ShowErrorJob
<1>14. ASSUME begin_retry_registration_attempt  PROVE LockInv'
  BY <1>14, RetryJobBegins
<1>15. ASSUME RetryLoad  PROVE LockInv'
  BY <1>15, RetryJobLoads
<1>16. ASSUME RetryClear  PROVE LockInv'
  BY <1>16 DEF RetryClear, Unregister, Nothing
<1>17. ASSUME Superseded  PROVE LockInv'
  BY <1>17 DEF Superseded
<1>18. ASSUME RetryEnter  PROVE LockInv'
  BY <1>18, RetryJobEnters
<1>19. ASSUME RetryLook  PROVE LockInv'
  BY <1>19 DEF RetryLook
<1>20. ASSUME RetryRecord  PROVE LockInv'
  BY <1>20 DEF RetryRecord, record_registration
<1>21. ASSUME RetryShowError  PROVE LockInv'
  BY <1>21 DEF RetryShowError
<1>22. ASSUME Permission  PROVE LockInv'
  BY <1>22 DEF Permission
<1>23. ASSUME NEW p \in Gates, SetGate(p)  PROVE LockInv'
  BY <1>23 DEF SetGate
<1>24. ASSUME NEW p \in Gates, SyncLook(p)  PROVE LockInv'
  BY <1>24, SyncLookJob
<1>25. ASSUME NEW p \in Gates, SyncClear(p)  PROVE LockInv'
  BY <1>25 DEF SyncClear, Unregister, Nothing
<1>26. ASSUME NEW p \in Gates, SyncRefused(p)  PROVE LockInv'
  BY <1>26 DEF SyncRefused
<1>27. ASSUME NEW p \in Gates, SyncEnter(p)  PROVE LockInv'
  BY <1>27 DEF SyncEnter, Free
<1>29. ASSUME NEW p \in Calls, ClearFails(p)  PROVE LockInv'
  BY <1>29, ClearFailsJob DEF RollsBack, Nothing
<1>30. ASSUME NEW p \in Calls, PauseFails(p)  PROVE LockInv'
  BY <1>30 DEF PauseFails, UnregisterFails, Nothing
<1>31. ASSUME RetryClearFails  PROVE LockInv'
  BY <1>31 DEF RetryClearFails, UnregisterFails, Nothing
<1>32. ASSUME NEW p \in Gates, SyncClearFails(p)  PROVE LockInv'
  BY <1>32 DEF SyncClearFails, UnregisterFails, Nothing
<1>28. CASE UNCHANGED vars
  BY <1>28 DEF vars
<1> QED
  BY SavesOnly, <1>1, <1>2, <1>3, <1>4, <1>5, <1>6, <1>7, <1>8, <1>9, <1>10, <1>11,
     <1>12, <1>13, <1>14, <1>15, <1>16, <1>17, <1>18, <1>19, <1>20, <1>21, <1>22,
     <1>23, <1>24, <1>25, <1>26, <1>27, <1>28, <1>29, <1>30, <1>31, <1>32
  DEF Next, CallStep, RetryStep, GateStep

\* A call that begins a generation leaves every attempt under way behind, and no other
\* begins before it has recorded its result.
LEMMA OwnStep ==
  ASSUME RegInv, [Next]_vars
  PROVE  OwnInv'
<1> USE Who DEF RegInv, Types, Go, Finish, Begins, supervisor, shortcuts, calls,
            environment, OwnInv, Alone, AttemptState, CallOwns, Busy, Pausing, Current,
            LockInv, JobInv, UnderWay, LockIfCurrent, MayRetry
<1>1. ASSUME NEW p \in Saves, UpdateConfig(p)  PROVE OwnInv'
  <2>1. PICK j \in Jobs, to \in {"wake", "persist"} :
           /\ job' = [job EXCEPT ![p] = j] /\ pc' = [pc EXCEPT ![p] = to]
           /\ Begins /\ UNCHANGED <<live, generation, state, lock>>
    BY <1>1, LoadJob DEF UpdateConfig
  <2>2. SUFFICES ASSUME ~overlapped'
                 PROVE  Alone' /\ AttemptState' /\ \A q \in Calls : CallOwns(q)'
    BY DEF OwnInv
  <2>3. ~overlapped /\ \A q \in Calls : ~UnderWay(q)
    BY <2>1, <2>2
  <2>4. \A q \in Calls : q # p => pc'[q] = pc[q]
    BY <2>1
  <2>5. \A q \in Lockers : Current(q)' <=> Current(q)
    BY <2>1
  <2>6. \A q \in Calls : ~Busy(q)'
    BY <2>1, <2>3, <2>4
  <2>7. Alone'
    BY <2>3, <2>4
  <2>8. AttemptState'
    BY <2>1, <2>3, <2>5
  <2> QED
    BY <2>6, <2>7, <2>8
<1>2. ASSUME NEW p \in Saves, UpdateHotkey(p)  PROVE OwnInv'
  <2>1. PICK j \in Jobs, to \in {"wake", "persist"} :
           /\ job' = [job EXCEPT ![p] = j] /\ pc' = [pc EXCEPT ![p] = to]
           /\ Begins /\ UNCHANGED <<live, generation, state, lock>>
    BY <1>2, LoadJob DEF UpdateHotkey
  <2>2. SUFFICES ASSUME ~overlapped'
                 PROVE  Alone' /\ AttemptState' /\ \A q \in Calls : CallOwns(q)'
    BY DEF OwnInv
  <2>3. ~overlapped /\ \A q \in Calls : ~UnderWay(q)
    BY <2>1, <2>2
  <2>4. \A q \in Calls : q # p => pc'[q] = pc[q]
    BY <2>1
  <2>5. \A q \in Lockers : Current(q)' <=> Current(q)
    BY <2>1
  <2>6. \A q \in Calls : ~Busy(q)'
    BY <2>1, <2>3, <2>4
  <2>7. Alone'
    BY <2>3, <2>4
  <2>8. AttemptState'
    BY <2>1, <2>3, <2>5
  <2> QED
    BY <2>6, <2>7, <2>8
<1>3. ASSUME NEW p \in Saves, WakeForSettings(p)  PROVE OwnInv'
  BY <1>3, WakeJob DEF Wake
<1>4. ASSUME NEW p \in Saves, Persist(p)  PROVE OwnInv'
  BY <1>4 DEF Persist
<1>5. ASSUME NEW p \in Saves, PersistFails(p)  PROVE OwnInv'
  BY <1>5, PersistFailsJob
<1>6. ASSUME NEW p \in Captures, Disable(p)  PROVE OwnInv'
  <2>1. SUFFICES ASSUME ~overlapped'
                 PROVE  Alone' /\ AttemptState' /\ \A q \in Calls : CallOwns(q)'
    BY DEF OwnInv
  <2>2. /\ pc' = [pc EXCEPT ![p] = "pause"] /\ job' = job
        /\ lock = None /\ lock' = None
        /\ generation' = generation + 1 /\ state' = "disabled"
    BY <1>6 DEF Disable
  <2>3. \A q \in Calls : ~UnderWay(q)
    BY <1>6, <2>1 DEF Disable
  <2>4. \A q \in Calls : q # p => pc'[q] = pc[q]
    BY <2>2
  <2>5. \A q \in Lockers : ~Current(q)'
    BY <2>2 DEF Jobs
  <2>6. \A q \in Calls : q # p => ~Busy(q)'
    BY <2>3, <2>4
  <2>7. Alone'
    BY <2>3, <2>4
  <2>8. pc'[p] = "pause"
    BY <2>2
  <2> QED
    BY <2>2, <2>5, <2>6, <2>7, <2>8
<1>7. ASSUME NEW p \in Captures, Resume(p)  PROVE OwnInv'
  BY <1>7, ResumeJob
<1>8. ASSUME NEW p \in Calls, Pause(p)  PROVE OwnInv'
  BY <1>8 DEF Pause, Unregister, Nothing
<1>9. ASSUME NEW p \in Calls, begin_registration_attempt(p)  PROVE OwnInv'
  BY <1>9, AttemptJob
<1>10. ASSUME NEW p \in Calls, Clear(p)  PROVE OwnInv'
  BY <1>10 DEF Clear, Unregister, Nothing
<1>11. ASSUME NEW p \in Calls, Enter(p)  PROVE OwnInv'
  BY <1>11, EnterJob DEF RollsBack
<1>12. ASSUME NEW p \in Calls, Record(p)  PROVE OwnInv'
  BY <1>12 DEF Record, record_registration
<1>13. ASSUME NEW p \in Calls, ShowError(p)  PROVE OwnInv'
  BY <1>13, ShowErrorJob
<1>14. ASSUME begin_retry_registration_attempt  PROVE OwnInv'
  BY <1>14, RetryJobBegins
<1>15. ASSUME RetryLoad  PROVE OwnInv'
  BY <1>15, RetryJobLoads
<1>16. ASSUME RetryClear  PROVE OwnInv'
  BY <1>16 DEF RetryClear, Unregister, Nothing
<1>17. ASSUME Superseded  PROVE OwnInv'
  BY <1>17 DEF Superseded
<1>18. ASSUME RetryEnter  PROVE OwnInv'
  BY <1>18, RetryJobEnters
<1>19. ASSUME RetryLook  PROVE OwnInv'
  BY <1>19 DEF RetryLook
<1>20. ASSUME RetryRecord  PROVE OwnInv'
  BY <1>20 DEF RetryRecord, record_registration
<1>21. ASSUME RetryShowError  PROVE OwnInv'
  BY <1>21 DEF RetryShowError
<1>22. ASSUME Permission  PROVE OwnInv'
  BY <1>22 DEF Permission
<1>23. ASSUME NEW p \in Gates, SetGate(p)  PROVE OwnInv'
  BY <1>23 DEF SetGate
<1>24. ASSUME NEW p \in Gates, SyncLook(p)  PROVE OwnInv'
  BY <1>24, SyncLookJob
<1>25. ASSUME NEW p \in Gates, SyncClear(p)  PROVE OwnInv'
  BY <1>25 DEF SyncClear, Unregister, Nothing
<1>26. ASSUME NEW p \in Gates, SyncRefused(p)  PROVE OwnInv'
  BY <1>26 DEF SyncRefused
<1>27. ASSUME NEW p \in Gates, SyncEnter(p)  PROVE OwnInv'
  BY <1>27 DEF SyncEnter, Free
<1>29. ASSUME NEW p \in Calls, ClearFails(p)  PROVE OwnInv'
  BY <1>29, ClearFailsJob DEF RollsBack, Nothing
<1>30. ASSUME NEW p \in Calls, PauseFails(p)  PROVE OwnInv'
  BY <1>30 DEF PauseFails, UnregisterFails, Nothing
<1>31. ASSUME RetryClearFails  PROVE OwnInv'
  BY <1>31 DEF RetryClearFails, UnregisterFails, Nothing
<1>32. ASSUME NEW p \in Gates, SyncClearFails(p)  PROVE OwnInv'
  BY <1>32 DEF SyncClearFails, UnregisterFails, Nothing
<1>28. CASE UNCHANGED vars
  BY <1>28 DEF vars
<1> QED
  BY SavesOnly, <1>1, <1>2, <1>3, <1>4, <1>5, <1>6, <1>7, <1>8, <1>9, <1>10, <1>11,
     <1>12, <1>13, <1>14, <1>15, <1>16, <1>17, <1>18, <1>19, <1>20, <1>21, <1>22,
     <1>23, <1>24, <1>25, <1>26, <1>27, <1>28, <1>29, <1>30, <1>31, <1>32
  DEF Next, CallStep, RetryStep, GateStep

\* What is registered, by a call, the retry or the gate, is what is saved or about to be.
LEMMA SavedStep ==
  ASSUME RegInv, [Next]_vars
  PROVE  SavedInv'
<1> USE Who DEF RegInv, Types, Go, Finish, Begins, supervisor, shortcuts, calls,
            environment, SavedInv, OwnInv, Alone, AttemptState, CallOwns, Busy,
            Pausing, Current, LockInv, JobInv, UnderWay, LockIfCurrent, MayRetry,
            SaveJob, CaptureJob, RetryJob, Installed, Bound, Entered
<1>1. ASSUME NEW p \in Saves, UpdateConfig(p)  PROVE SavedInv'
  <2>1. PICK config \in Configs, to \in {"wake", "persist"} :
           Load(p, config, to) /\ (to = "persist" => config = cache)
    BY <1>1 DEF UpdateConfig, Refreshes
  <2> QED
    BY <2>1, SavedAtLoad
<1>2. ASSUME NEW p \in Saves, UpdateHotkey(p)  PROVE SavedInv'
  <2>1. PICK config \in Configs, to \in {"wake", "persist"} :
           Load(p, config, to) /\ (to = "persist" => config = cache)
    BY <1>2 DEF UpdateHotkey, Refreshes
  <2> QED
    BY <2>1, SavedAtLoad
<1>3. ASSUME NEW p \in Saves, WakeForSettings(p)  PROVE SavedInv'
  BY <1>3, WakeJob DEF Wake
<1>4. ASSUME NEW p \in Saves, Persist(p)  PROVE SavedInv'
  BY <1>4 DEF Persist
<1>5. ASSUME NEW p \in Saves, PersistFails(p)  PROVE SavedInv'
  BY <1>5, PersistFailsJob
<1>6. ASSUME NEW p \in Captures, Disable(p)  PROVE SavedInv'
  <2>1. /\ pc' = [pc EXCEPT ![p] = "pause"] /\ job' = job
        /\ state' = "disabled" /\ generation' = generation + 1
        /\ Begins /\ UNCHANGED <<cache, saveFailed>>
    BY <1>6 DEF Disable
  <2>2. SUFFICES ASSUME ~overlapped', ~saveFailed'
                 PROVE  SavedInv'
    BY DEF SavedInv
  <2>3. ~overlapped /\ \A q \in Calls : ~UnderWay(q)
    BY <2>1, <2>2
  <2>4. \A q \in Calls : q # p => ~UnderWay(q)' /\ pc'[q] = pc[q]
    BY <2>1, <2>3
  <2>5. pc'[p] = "pause"
    BY <2>1
  <2>6. ~Current(Retry)'
    BY <2>1 DEF Jobs
  <2> QED
    BY <2>1, <2>3, <2>4, <2>5, <2>6
<1>7. ASSUME NEW p \in Captures, Resume(p)  PROVE SavedInv'
  BY <1>7, ResumeJob
<1>8. ASSUME NEW p \in Calls, Pause(p)  PROVE SavedInv'
  BY <1>8 DEF Pause, Unregister, Nothing
<1>9. ASSUME NEW p \in Calls, begin_registration_attempt(p)  PROVE SavedInv'
  BY <1>9, AttemptJob
<1>10. ASSUME NEW p \in Calls, Clear(p)  PROVE SavedInv'
  BY <1>10 DEF Clear, Unregister, Nothing
<1>11. ASSUME NEW p \in Calls, Enter(p)  PROVE SavedInv'
  BY <1>11, SavedAtEnter
<1>12. ASSUME NEW p \in Calls, Record(p)  PROVE SavedInv'
  BY <1>12, SavedAtRecord
<1>13. ASSUME NEW p \in Calls, ShowError(p)  PROVE SavedInv'
  BY <1>13, ShowErrorJob
<1>14. ASSUME begin_retry_registration_attempt  PROVE SavedInv'
  BY <1>14, RetryJobBegins
<1>15. ASSUME RetryLoad  PROVE SavedInv'
  BY <1>15, RetryJobLoads
<1>16. ASSUME RetryClear  PROVE SavedInv'
  BY <1>16 DEF RetryClear, Unregister, Nothing
<1>17. ASSUME Superseded  PROVE SavedInv'
  BY <1>17 DEF Superseded
<1>18. ASSUME RetryEnter  PROVE SavedInv'
  <2>1. SUFFICES ASSUME ~overlapped, ~saveFailed
                 PROVE  SavedInv'
    BY <1>18, RetryJobEnters
  <2>2. PICK j \in Jobs :
           /\ job' = [job EXCEPT ![Retry] = j] /\ pc' = [pc EXCEPT ![Retry] = "look"]
           /\ pc[Retry] = "enter"
           /\ j.target = job[Retry].target /\ j.gen = job[Retry].gen
           /\ j.ok <=> Works(job[Retry].target)
           /\ Register(job[Retry].target) /\ UNCHANGED <<cache, generation, state>>
    BY <1>18, RetryJobEnters
  <2>3. Current(Retry) /\ state = "starting" /\ job[Retry].target = cache
    BY <2>1, <2>2
  <2>4. \A q \in Tasks : q # Retry => pc'[q] = pc[q] /\ job'[q] = job[q]
    BY <2>2
  <2>5. pc'[Retry] = "look" /\ job'[Retry] = j
    BY <2>2
  <2>6. \A q \in Calls : ~Busy(q)
    BY <2>1, <2>3
  <2>7. j.ok => Entered(Retry)'
    <3>1. job[Retry] \in Jobs /\ Types
      BY Who DEF RegInv, Types
    <3>3. job[Retry].target \in Configs \cup {None}
      BY <3>1 DEF Jobs
    <3>2. Works(job[Retry].target) =>
            live'.keys = job[Retry].target /\ roleCache' = job[Retry].target
      BY <2>2, <3>1, <3>3, RegisterTypes
    <3> QED
      BY <2>2, <2>5, <3>2
  <2>8. RetryJob'
    BY <2>2, <2>3, <2>5, <2>7
  <2>9. \A q \in Saves : SaveJob(q)'
    BY <2>1, <2>2, <2>4
  <2>10. \A q \in Captures : CaptureJob(q)'
    BY <2>1, <2>2, <2>4
  <2>11. \A q \in Calls : pc'[q] # "record"
    BY <2>4, <2>6
  <2>12. Installed'
    BY <2>2, <2>3
  <2> QED
    BY <2>8, <2>9, <2>10, <2>11, <2>12
<1>19. ASSUME RetryLook  PROVE SavedInv'
  BY <1>19 DEF RetryLook
<1>20. ASSUME RetryRecord  PROVE SavedInv'
  BY <1>20 DEF RetryRecord, record_registration
<1>21. ASSUME RetryShowError  PROVE SavedInv'
  BY <1>21 DEF RetryShowError
<1>22. ASSUME Permission  PROVE SavedInv'
  BY <1>22 DEF Permission
<1>23. ASSUME NEW p \in Gates, SetGate(p)  PROVE SavedInv'
  BY <1>23 DEF SetGate
<1>24. ASSUME NEW p \in Gates, SyncLook(p)  PROVE SavedInv'
  BY <1>24, SyncLookJob
<1>25. ASSUME NEW p \in Gates, SyncClear(p)  PROVE SavedInv'
  BY <1>25 DEF SyncClear, Unregister, Nothing
<1>26. ASSUME NEW p \in Gates, SyncRefused(p)  PROVE SavedInv'
  BY <1>26 DEF SyncRefused
<1>27. ASSUME NEW p \in Gates, SyncEnter(p)  PROVE SavedInv'
  <2>1. SUFFICES ASSUME ~overlapped, ~saveFailed
                 PROVE  SavedInv'
    BY <1>27 DEF SyncEnter
  <2>2. /\ pc[p] = "enter" /\ pc' = [pc EXCEPT ![p] = "done"] /\ job' = [job EXCEPT ![p] = NoJob]
        /\ live'.keys = job[p].target \/ missed'
        /\ UNCHANGED <<cache, roleCache, generation, state>>
    <3>1. CASE Free(job[p].target)
      BY <1>27, <3>1, Zenon DEF SyncEnter
    <3>2. CASE ~Free(job[p].target)
      BY <1>27, <3>2, Zenon DEF SyncEnter
    <3> QED
      BY <3>1, <3>2
  <2>3. Current(p) /\ state = "installed" /\ job[p].target = roleCache
    BY <2>1, <2>2
  <2>4. \A q \in Tasks : q # p => pc'[q] = pc[q] /\ job'[q] = job[q]
    BY <2>2
  <2>5. \A q \in Calls : ~Busy(q)
    BY <2>1, <2>3
  <2>6. ~Current(Retry)'
    BY <2>1, <2>2, <2>3, <2>4
  <2>7. \A q \in Gates : Current(q)' => q # p /\ Current(q)
    BY <2>2, <2>4
  <2>8. \A s \in Saves : Bound(s)' <=> Bound(s)
    BY <2>4
  <2>9. Installed'
    BY <2>1, <2>2, <2>3, <2>4, <2>7, <2>8
  <2>10. \A q \in Saves : SaveJob(q)'
    BY <2>1, <2>2, <2>4
  <2>11. \A q \in Captures : CaptureJob(q)'
    BY <2>1, <2>2, <2>4
  <2>12. \A q \in Calls : pc'[q] # "record"
    BY <2>4, <2>5
  <2> QED
    BY <2>6, <2>9, <2>10, <2>11, <2>12
<1>29. ASSUME NEW p \in Calls, ClearFails(p)  PROVE SavedInv'
  BY <1>29, ClearFailsJob DEF RollsBack, Nothing
<1>30. ASSUME NEW p \in Calls, PauseFails(p)  PROVE SavedInv'
  BY <1>30 DEF PauseFails, UnregisterFails, Nothing
<1>31. ASSUME RetryClearFails  PROVE SavedInv'
  BY <1>31 DEF RetryClearFails, UnregisterFails, Nothing
<1>32. ASSUME NEW p \in Gates, SyncClearFails(p)  PROVE SavedInv'
  BY <1>32 DEF SyncClearFails, UnregisterFails, Nothing
<1>28. CASE UNCHANGED vars
  BY <1>28 DEF vars
<1> QED
  BY SavesOnly, <1>1, <1>2, <1>3, <1>4, <1>5, <1>6, <1>7, <1>8, <1>9, <1>10, <1>11,
     <1>12, <1>13, <1>14, <1>15, <1>16, <1>17, <1>18, <1>19, <1>20, <1>21, <1>22,
     <1>23, <1>24, <1>25, <1>26, <1>27, <1>28, <1>29, <1>30, <1>31, <1>32
  DEF Next, CallStep, RetryStep, GateStep

\* The app begins like that.
LEMMA RegInit == Init => RegInv
<1> SUFFICES ASSUME Init
             PROVE  RegInv
  OBVIOUS
<1> USE Who, RegistrationAssumption DEF Init
<1>1. Types
  <2>1. NoJob \in Jobs
    BY DEF Jobs, NoJob
  <2>2. live \in [keys : Configs \cup {None}, open : BOOLEAN]
    BY DEF Nothing
  <2>3. pc \in [Tasks -> Places] /\ job \in [Tasks -> Jobs]
    BY <2>1 DEF Places
  <2>4. state \in {"installed", "failed"}
    BY Zenon
  <2>5. /\ cache = First /\ roleCache = First /\ missed = FALSE /\ open = FALSE /\ able \in BOOLEAN
        /\ generation = 1 /\ lock = None /\ overlapped = FALSE /\ saveFailed = FALSE
    OBVIOUS
  <2>6. First \in Configs /\ 1 \in Nat \ {0}
    BY RegistrationAssumption
  <2> HIDE DEF Init
  <2> QED
    BY <2>2, <2>3, <2>4, <2>5, <2>6 DEF Types
<1>2. \A p \in Tasks : pc[p] = "ready" /\ job[p] = NoJob /\ ~UnderWay(p)
  BY DEF UnderWay
<1>3. \A p \in Lockers : ~Current(p)
  BY <1>2, Who DEF Current
<1>4. JobInv /\ LockInv
  BY <1>2, Who DEF JobInv, LockInv, NoJob
<1>5. OwnInv
  BY <1>2, <1>3, Who DEF OwnInv, Alone, AttemptState, CallOwns, Busy, Pausing
<1>6. SavedInv
  BY <1>2, <1>3, Who DEF SavedInv, SaveJob, CaptureJob, RetryJob, Installed, Bound, Nothing
<1> QED
  BY <1>1, <1>4, <1>5, <1>6 DEF RegInv

\* ... and stays like that.
LEMMA RegInvAlways == Spec => []RegInv
<1>1. RegInv /\ [Next]_vars => RegInv'
  BY TypesStep, JobStep, LockStep, OwnStep, SavedStep DEF RegInv
<1> QED
  BY RegInit, <1>1, PTL DEF Spec

\* While a shortcut is recorded nothing is registered, whatever retries and moves of the
\* gate were under way when the recording began.
THEOREM PauseAlwaysHolds == Spec => []PauseHolds
<1>1. RegInv => PauseHolds
  BY Who DEF RegInv, OwnInv, CallOwns, Busy, Pausing, PauseHolds
<1> QED
  BY <1>1, RegInvAlways, PTL

\* When all is quiet and the supervisor believes that shortcuts are registered, they are
\* those that are saved, but for what the gate could not put in.
THEOREM AlwaysRegisteredAsSaved == Spec => []RegisteredAsSaved
<1>1. RegInv => RegisteredAsSaved
  <2> SUFFICES ASSUME RegInv, Quiet, state = "installed", ~overlapped, ~saveFailed
               PROVE  live.keys = cache \/ missed
    BY DEF RegisteredAsSaved
  <2>1. \A p \in Tasks : ~UnderWay(p)
    BY Who DEF Quiet
  <2>2. lock = None
    BY <2>1, Who DEF RegInv, Types, LockInv, UnderWay
  <2>3. \A s \in Saves : ~Bound(s)
    BY <2>1, Who DEF Bound, UnderWay
  <2> QED
    BY <2>2, <2>3 DEF RegInv, SavedInv, Installed
<1> QED
  BY <1>1, RegInvAlways, PTL

(***************************************************************************)
(* The key listener.                                                       *)
(***************************************************************************)

\* The keys that may switch the language.
SwitchKeys == UNION SwitchChords

Matchers ==
  [held : SUBSET Keys, active : SUBSET Bindings, deferred : SUBSET Bindings,
   swallowed : SUBSET Keys, cancelDown : BOOLEAN]

CaptureStates == [held : SUBSET Keys, peak : SUBSET Keys, done : BOOLEAN]

KeyEdges ==
  [key : Keys, pressed : BOOLEAN, repeat : BOOLEAN, matched : BOOLEAN, missed : SUBSET Modifiers]

ListenerTypes ==
  /\ listener \in {"off", "hotkeys", "capture"} /\ heard \in BOOLEAN
  /\ capture \in CaptureStates /\ edge \subseteq KeyEdges
  /\ down \subseteq Keys /\ app \subseteq Keys
  /\ told \in [Bindings -> HandlerStates]
  /\ recording \in BOOLEAN /\ running \in BOOLEAN /\ own \in BOOLEAN /\ allowed \in Gatings

\* The matcher by itself: what is held or waiting has all its keys held, and nothing is both; what
\* waits is in no larger chord that is held or waits too; what is swallowed is held.
Consistent(m) ==
  /\ m \in Matchers
  /\ \A i \in m.active \cup m.deferred : i.keys \subseteq m.held
  /\ m.active \cap m.deferred = {}
  /\ \A i \in m.deferred, j \in m.active \cup m.deferred : ~StrictSubset(i, j)
  /\ m.swallowed \subseteq m.held
  /\ m.cancelDown => Escape \notin m.held

\* The keys whose way up is not shown to the app.
Hidden(m) == m.swallowed \cup {k \in {Escape} : m.cancelDown}

\* The matcher and the world, so long as it hears every edge: the keys it knows of are down, and
\* the app believes none of the hidden ones held, but for those that switch the language.
KeyboardInv ==
  heard /\ listener = "hotkeys" =>
    /\ matcher.held \cup Hidden(matcher) \subseteq down
    /\ Hidden(matcher) \cap app \subseteq SwitchKeys

\* An edge in the tap is the next one of the keyboard, and what it brings in line is down: no
\* release of a modifier is ever missed while the tap hears.
InStep(e) ==
  /\ heard /\ listener # "off"
  /\ IF e.pressed /\ ~e.repeat THEN e.key \notin down ELSE e.key \in down
  /\ e.repeat => e.pressed
  /\ ~e.pressed \/ e.repeat => e.matched
  /\ e.key \notin Modifiers => e.missed \subseteq down
  /\ e.key \in Modifiers /\ listener = "hotkeys" => e.missed = {}

EdgeInv == \A e \in edge : InStep(e)

ListenerInv ==
  /\ ListenerTypes /\ Consistent(matcher) /\ PressesPair
  /\ KeyboardInv /\ EdgeInv /\ AppKeepsNoKey

-----------------------------------------------------------------------------
\* The largest of some chords is one of them, and the only one.
LEMMA LargestIsOne ==
  ASSUME NEW S
  PROVE  /\ Largest(S) \subseteq S
         /\ \A v, w \in Largest(S) : v = w
BY DEF Largest

\* The chords of a binding that switches the language.
LEMMA SwitchChordKeys ==
  ASSUME NEW i \in Bindings, i.role = "switchLanguage"
  PROVE  i.keys \subseteq SwitchKeys
<1>1. CASE i \in Chords("stopTranslate", Len(Configured) + 1, StopChords)
  BY <1>1 DEF Chords
<1>2. ASSUME NEW n \in DOMAIN Configured,
             i \in Chords(Configured[n].role, n, NativeChords(Configured[n]))
      PROVE  i.keys \in SwitchChords
  <2>1. Configured[n].role = "switchLanguage" /\ i.keys \in NativeChords(Configured[n])
    BY <1>2 DEF Chords
  <2> QED
    BY <2>1 DEF SwitchChords
<1>3. i \in Chords("stopTranslate", Len(Configured) + 1, StopChords)
        \/ \E n \in DOMAIN Configured :
              i \in Chords(Configured[n].role, n, NativeChords(Configured[n]))
  BY DEF Bindings
<1> QED
  BY <1>1, <1>2, <1>3 DEF SwitchKeys

\* A key is of one class, and Escape is no modifier.
LEMMA KeyClasses ==
  /\ Escape \in Keys /\ Modifiers \subseteq Keys
  /\ \A k \in Modifiers : k # Escape /\ k \notin Standalone /\ k \notin Typing
BY KeysAssumption DEF Keys

-----------------------------------------------------------------------------
\* A step of the matcher from m, as far as the handler is concerned.
Sound(m, step) ==
  /\ Consistent(step.m)
  /\ step.pressed \subseteq Bindings
  /\ step.m.active = (m.active \cup step.pressed) \ step.released
  /\ step.pressed \cap (m.active \cup step.tapped \cup step.released) = {}
  /\ step.released \subseteq m.active /\ step.tapped \cap m.active = {}

\* What a step on an edge of k does to the keys the matcher knows of and hides from the app.
KeyKept(m, step, k, pressed, repeat) ==
  /\ step.m.held \subseteq IF pressed THEN m.held \cup {k} ELSE m.held \ {k}
  /\ Hidden(step.m) \subseteq IF pressed THEN Hidden(m) \cup {k} ELSE Hidden(m) \ {k}
  /\ step.swallow \in BOOLEAN
  /\ repeat => Hidden(step.m) = Hidden(m)
  /\ pressed /\ k \in Hidden(step.m) => step.swallow
  /\ pressed /\ k \in Hidden(step.m) \ Hidden(m) /\ k \in Modifiers => k \in SwitchKeys
  /\ ~pressed /\ step.swallow => k \in Hidden(m)

\* A step that tells nothing is sound.
LEMMA QuietStep ==
  ASSUME NEW m, Consistent(m), NEW swallow
  PROVE  Sound(m, Quietly(m, swallow))
BY DEF Sound, Quietly

\* The cancel key.
LEMMA CancelStep ==
  ASSUME NEW m, Consistent(m), NEW pressed \in BOOLEAN, NEW repeat \in BOOLEAN,
         repeat => pressed, pressed /\ ~repeat => Escape \notin m.held,
         HandlesCancelKey(m, Escape, pressed, repeat)
  PROVE  LET step == HandleCancelKey(m, pressed)
         IN  Sound(m, step) /\ KeyKept(m, step, Escape, pressed, repeat)
<1> DEFINE after == [m EXCEPT !.cancelDown = pressed]
<1>1. m \in Matchers
  BY DEF Consistent
<1>2. /\ after \in Matchers /\ after.cancelDown = pressed
      /\ after.held = m.held /\ after.active = m.active
      /\ after.deferred = m.deferred /\ after.swallowed = m.swallowed
  BY <1>1 DEF Matchers
<1>3. m.cancelDown \/ (pressed /\ ~repeat)
  BY DEF HandlesCancelKey
<1>4. Escape \notin m.held
  BY <1>3 DEF Consistent
<1> HIDE DEF after
<1>5. Consistent(after)
  BY <1>2, <1>4 DEF Consistent
<1>6. LET step == Quietly(after, TRUE)
      IN  Sound(m, step) /\ KeyKept(m, step, Escape, pressed, repeat)
  <2>1. Sound(m, Quietly(after, TRUE))
    BY <1>2, <1>5 DEF Sound, Quietly
  <2>2. Escape \notin m.swallowed
    BY <1>4 DEF Consistent
  <2>3. KeyKept(m, Quietly(after, TRUE), Escape, pressed, repeat)
    BY <1>2, <1>3, <1>4, <2>2, KeyClasses DEF KeyKept, Quietly, Hidden
  <2> QED
    BY <2>1, <2>3
<1> QED
  BY <1>6 DEF HandleCancelKey, after

\* A press that completes no chord, or a chord of its own.
LEMMA FireStep ==
  ASSUME NEW m, Consistent(m), NEW k \in Keys, k \notin m.held, k = Escape => ~m.cancelDown,
         NEW winner \in SUBSET Bindings, \A v, w \in winner : v = w,
         \A w \in winner : k \in w.keys /\ w.keys \subseteq m.held \cup {k},
         NEW waits \in SUBSET winner, NEW swallow \in BOOLEAN,
         swallow /\ k \in Modifiers => k \in SwitchKeys
  PROVE  LET step == Fire(m, k, winner, waits, swallow)
         IN  Sound(m, step) /\ KeyKept(m, step, k, TRUE, FALSE)
<1> DEFINE kept == KeptAtPress(m.deferred, k)
           waiting == (kept \ DroppedBy(kept, winner)) \cup waits
           after == [m EXCEPT !.held = @ \cup {k}, !.active = @ \cup (winner \ waits),
                              !.deferred = waiting,
                              !.swallowed = IF swallow THEN @ \cup {k} ELSE @]
           step == [Quietly(after, swallow) EXCEPT !.pressed = winner \ (waits \cup m.active)]
<1>1. m \in Matchers
  BY DEF Consistent
<1>2. \A i \in waiting : i \in waits \/ (i \in m.deferred /\ \A w \in winner : ~StrictSubset(i, w))
  BY DEF KeptAtPress, DroppedBy
<1> HIDE DEF waiting
<1>3. waiting \subseteq Bindings
  BY <1>1, <1>2 DEF Matchers
<1>4. /\ after \in Matchers /\ after.cancelDown = m.cancelDown
      /\ after.held = m.held \cup {k} /\ after.active = m.active \cup (winner \ waits)
      /\ after.deferred = waiting
      /\ after.swallowed = IF swallow THEN m.swallowed \cup {k} ELSE m.swallowed
  BY <1>1, <1>3 DEF Matchers
<1> HIDE DEF after
<1>5. \A i \in m.active \cup m.deferred : i.keys \subseteq m.held /\ i \notin winner
  BY DEF Consistent
<1>6. Consistent(after)
  <2>1. \A i \in after.active \cup after.deferred : i.keys \subseteq after.held
    BY <1>2, <1>4, <1>5
  <2>2. after.active \cap after.deferred = {}
    BY <1>2, <1>4, <1>5 DEF Consistent
  <2>3. \A i \in after.deferred, j \in after.active \cup after.deferred : ~StrictSubset(i, j)
    <3> SUFFICES ASSUME NEW i \in waiting,
                        NEW j \in m.active \cup m.deferred \cup winner, StrictSubset(i, j)
                 PROVE  FALSE
      BY <1>2, <1>4
    <3>1. CASE i \in winner /\ j \in winner
      BY <3>1 DEF StrictSubset
    <3>2. CASE i \in winner /\ j \notin winner
      BY <1>5, <3>2 DEF StrictSubset
    <3>3. CASE i \notin winner
      BY <1>2, <3>3 DEF Consistent
    <3> QED
      BY <3>1, <3>2, <3>3
  <2>4. after.swallowed \subseteq after.held
    BY <1>4 DEF Consistent
  <2>5. after.cancelDown => Escape \notin after.held
    BY <1>4 DEF Consistent
  <2> QED
    BY <1>4, <2>1, <2>2, <2>3, <2>4, <2>5 DEF Consistent
<1>7. /\ step.m = after /\ step.pressed = winner \ (waits \cup m.active)
      /\ step.tapped = {} /\ step.released = {} /\ step.swallow = swallow
  BY DEF Quietly
<1> HIDE DEF step
<1>8. Sound(m, step)
  BY <1>4, <1>5, <1>6, <1>7 DEF Sound
<1>9. k \notin Hidden(m)
  BY DEF Hidden, Consistent
<1>10. Hidden(after) = IF swallow THEN Hidden(m) \cup {k} ELSE Hidden(m)
  BY <1>4 DEF Hidden
<1>11. KeyKept(m, step, k, TRUE, FALSE)
  BY <1>4, <1>7, <1>9, <1>10 DEF KeyKept
<1> QED
  BY <1>8, <1>11 DEF Fire, step, after, waiting

\* A press.
LEMMA PressStep ==
  ASSUME NEW m, Consistent(m), NEW k \in Keys, NEW repeat \in BOOLEAN, k = Escape => ~m.cancelDown
  PROVE  LET step == Press(m, k, repeat)
         IN  Sound(m, step) /\ KeyKept(m, step, k, TRUE, repeat)
<1>1. CASE repeat \/ k \in m.held
  <2> DEFINE swallow == k \in m.swallowed \/ (k \in Standalone /\ k \in BoundKeys)
  <2>1. Press(m, k, repeat) = Quietly(m, swallow)
    BY <1>1 DEF Press
  <2>2. Sound(m, Quietly(m, swallow))
    BY QuietStep
  <2>3. k \in Hidden(m) => swallow
    BY DEF Hidden
  <2>4. swallow \in BOOLEAN
    OBVIOUS
  <2> HIDE DEF swallow
  <2>5. KeyKept(m, Quietly(m, swallow), k, TRUE, repeat)
    BY <2>3, <2>4 DEF KeyKept, Quietly
  <2> QED
    BY <2>1, <2>2, <2>5
<1>2. CASE ~repeat /\ k \notin m.held
  <2> DEFINE winner == NewlySatisfiedLargest(k, m.held \cup {k})
             waits == {w \in winner : HasLiveSuperset(w)}
             swallow == Swallows(k, winner)
  <2>1. /\ winner \subseteq Bindings /\ \A v, w \in winner : v = w
        /\ \A w \in winner : k \in w.keys /\ w.keys \subseteq m.held \cup {k}
    BY LargestIsOne DEF NewlySatisfiedLargest, Live
  <2>2. Press(m, k, repeat) = Fire(m, k, winner, waits, swallow)
    BY <1>2 DEF Press, Complete
  <2> HIDE DEF winner
  <2>3. swallow \in BOOLEAN
    <3>1. CASE k \in Modifiers
      BY <3>1, KeyClasses DEF Swallows
    <3>2. CASE k \in Standalone
      <4>1. k \notin Modifiers /\ k \notin Typing
        BY <3>2, KeysAssumption
      <4>2. swallow = (k \in BoundKeys)
        BY <3>2, <4>1 DEF Swallows
      <4> QED
        BY <4>2
    <3>3. CASE k \in Typing
      BY <3>3, KeysAssumption DEF Swallows
    <3> QED
      BY <3>1, <3>2, <3>3 DEF Keys
  <2>4. swallow /\ k \in Modifiers => k \in SwitchKeys
    <3> SUFFICES ASSUME swallow, k \in Modifiers
                 PROVE  k \in SwitchKeys
      OBVIOUS
    <3>1. PICK w \in winner : w.role = "switchLanguage"
      BY KeyClasses DEF Swallows
    <3> QED
      BY <2>1, <3>1, SwitchChordKeys
  <2>5. waits \in SUBSET winner
    OBVIOUS
  <2> HIDE DEF waits, swallow
  <2>6. LET step == Fire(m, k, winner, waits, swallow)
        IN  Sound(m, step) /\ KeyKept(m, step, k, TRUE, FALSE)
    BY <1>2, <2>1, <2>3, <2>4, <2>5, FireStep
  <2> QED
    BY <1>2, <2>2, <2>6
<1> QED
  BY <1>1, <1>2

\* A release.
LEMMA ReleaseStep ==
  ASSUME NEW m, Consistent(m), NEW k \in Keys, k = Escape => ~m.cancelDown
  PROVE  LET step == Release(m, k)
         IN  Sound(m, step) /\ KeyKept(m, step, k, FALSE, FALSE)
<1>0. m \in Matchers
  BY DEF Consistent
<1>1. CASE k \notin m.held
  <2>1. k \notin m.swallowed
    BY <1>1 DEF Consistent
  <2>2. [m EXCEPT !.swallowed = @ \ {k}] = m
    BY <1>0, <2>1 DEF Matchers
  <2>3. Release(m, k) = Quietly(m, FALSE)
    <3>1. Release(m, k) = Quietly([m EXCEPT !.swallowed = @ \ {k}], k \in m.swallowed)
      BY <1>1 DEF Release
    <3>2. (k \in m.swallowed) = FALSE
      BY <2>1
    <3> QED
      BY <2>2, <3>1, <3>2
  <2>4. Sound(m, Quietly(m, FALSE))
    BY QuietStep
  <2>5. KeyKept(m, Quietly(m, FALSE), k, FALSE, FALSE)
    BY <1>1, <2>1 DEF KeyKept, Quietly, Hidden
  <2> QED
    BY <2>3, <2>4, <2>5
<1>2. CASE k \in m.held
  <2> DEFINE after == Forget(DropDeferred(m, k), k)
             swallow == k \in m.swallowed
             step == [Quietly(after, swallow)
                        EXCEPT !.tapped = With(m.deferred, k), !.released = With(m.active, k)]
  <2>1. /\ after \in Matchers /\ after.cancelDown = m.cancelDown
        /\ after.held = m.held \ {k} /\ after.swallowed = m.swallowed \ {k}
        /\ after.active = m.active \ With(m.active, k)
        /\ after.deferred = m.deferred \ With(m.deferred, k)
    BY <1>0 DEF Matchers, Forget, DropDeferred, With
  <2>2. swallow \in BOOLEAN /\ (swallow => k \in m.swallowed)
    OBVIOUS
  <2> HIDE DEF after, swallow
  <2>3. Consistent(after)
    BY <2>1 DEF Consistent, With
  <2>4. /\ step.m = after /\ step.pressed = {} /\ step.tapped = With(m.deferred, k)
        /\ step.released = With(m.active, k) /\ step.swallow = swallow
    BY DEF Quietly
  <2> HIDE DEF step
  <2>5. Sound(m, step)
    BY <2>1, <2>3, <2>4 DEF Sound, Consistent, With
  <2>6. Hidden(after) = Hidden(m) \ {k}
    BY <2>1 DEF Hidden
  <2>7. step.swallow \in BOOLEAN /\ (step.swallow => k \in Hidden(m))
    BY <2>2, <2>4 DEF Hidden
  <2>8. KeyKept(m, step, k, FALSE, FALSE)
    BY <2>1, <2>4, <2>6, <2>7 DEF KeyKept
  <2> QED
    BY <1>2, <2>5, <2>8 DEF Release, step, after, swallow
<1> QED
  BY <1>1, <1>2

\* An edge, whatever key it is of.
LEMMA HandleStep ==
  ASSUME NEW m, Consistent(m), NEW k \in Keys, NEW pressed \in BOOLEAN, NEW repeat \in BOOLEAN,
         repeat => pressed, k = Escape /\ pressed /\ ~repeat => k \notin m.held
  PROVE  LET step == Handle(m, k, pressed, repeat)
         IN  Sound(m, step) /\ KeyKept(m, step, k, pressed, repeat)
<1>1. CASE HandlesCancelKey(m, k, pressed, repeat)
  <2>1. k = Escape
    BY <1>1 DEF HandlesCancelKey
  <2> QED
    BY <1>1, <2>1, CancelStep DEF Handle
<1>2. CASE ~HandlesCancelKey(m, k, pressed, repeat)
  <2>1. k = Escape => ~m.cancelDown
    BY <1>2 DEF HandlesCancelKey
  <2>2. CASE pressed
    BY <1>2, <2>1, <2>2, PressStep DEF Handle
  <2>3. CASE ~pressed
    <3>1. pressed = FALSE /\ repeat = FALSE
      BY <2>3
    <3> QED
      BY <1>2, <2>1, <3>1, ReleaseStep DEF Handle
  <2> QED
    BY <2>2, <2>3
<1> QED
  BY <1>1, <1>2

\* The matcher starts over.
LEMMA ResetStep ==
  ASSUME NEW m, Consistent(m)
  PROVE  Sound(m, Reset(m)) /\ Reset(m).m = NoKeys
<1>1. Consistent(NoKeys)
  BY DEF Consistent, NoKeys, Matchers
<1>2. /\ Reset(m).m = NoKeys /\ Reset(m).pressed = {} /\ Reset(m).tapped = {}
      /\ Reset(m).released = m.active
  BY DEF Reset, Quietly
<1> QED
  BY <1>1, <1>2 DEF Sound, NoKeys

-----------------------------------------------------------------------------
\* What a sound step tells the handler: presses and releases go on in pairs.
LEMMA TakesStep ==
  ASSUME Consistent(matcher), PressesPair, told \in [Bindings -> HandlerStates],
         NEW step, Sound(matcher, step), Takes(step)
  PROVE  /\ Consistent(matcher)' /\ PressesPair' /\ told' \in [Bindings -> HandlerStates]
<1>1. matcher' = step.m /\ told' = [i \in Bindings |-> Told(i, step)]
  BY DEF Takes
<1>2. Consistent(matcher')
  BY <1>1 DEF Sound
<1>3. ASSUME NEW i \in Bindings
      PROVE  Told(i, step) \in {"up", "down"} /\ (Told(i, step) = "down" <=> i \in step.m.active)
  <2>1. told[i] \in {"up", "down"} /\ (told[i] = "down" <=> i \in matcher.active)
    BY DEF PressesPair, HandlerStates
  <2>2. CASE i \in step.pressed
    BY <2>1, <2>2 DEF Sound, Told, Hears
  <2>3. CASE i \in step.released
    BY <2>1, <2>3 DEF Sound, Told, Hears
  <2>4. CASE i \notin step.pressed /\ i \notin step.released
    BY <2>1, <2>4 DEF Sound, Told, Hears
  <2> QED
    BY <2>2, <2>3, <2>4
<1>4. \A i \in Bindings : told'[i] = Told(i, step)
  BY <1>1
<1>5. told' \in [Bindings -> HandlerStates]
  BY <1>1, <1>3 DEF HandlerStates
<1>6. PressesPair'
  BY <1>1, <1>3, <1>4 DEF PressesPair
<1> QED
  BY <1>2, <1>5, <1>6

-----------------------------------------------------------------------------
\* The capture keeps its type.
LEMMA CaptureStep ==
  ASSUME NEW c \in CaptureStates, NEW k \in Keys, NEW pressed \in BOOLEAN, NEW repeat \in BOOLEAN
  PROVE  CaptureHandle(c, k, pressed, repeat) \in CaptureStates
<1>1. Add(c, k) \in CaptureStates
  <2>1. c.held \cup {k} \in SUBSET Keys /\ c.peak \in SUBSET Keys
    BY DEF CaptureStates
  <2> QED
    BY <2>1 DEF Add, CaptureStates
<1>2. CapturePress(c, k, repeat) \in CaptureStates
  <2>1. [c EXCEPT !.done = TRUE] \in CaptureStates
    BY DEF CaptureStates
  <2>2. CASE k = Escape
    BY <2>1, <2>2 DEF CapturePress
  <2>3. CASE k # Escape /\ (repeat \/ k \in c.held \/ Full(c))
    BY <2>3 DEF CapturePress
  <2>4. CASE k # Escape /\ ~(repeat \/ k \in c.held \/ Full(c))
    BY <1>1, <2>4 DEF CapturePress
  <2> QED
    BY <2>2, <2>3, <2>4
<1>3. CaptureRelease(c, k) \in CaptureStates
  <2> DEFINE last == c.held = {k}
  <2>1. last \in BOOLEAN
    OBVIOUS
  <2> HIDE DEF last
  <2>2. [c EXCEPT !.held = @ \ {k}, !.done = last] \in CaptureStates
    BY <2>1 DEF CaptureStates
  <2> QED
    BY <2>2 DEF CaptureRelease, last
<1>4. c.done \in BOOLEAN
  BY DEF CaptureStates
<1> QED
  BY <1>2, <1>3, <1>4 DEF CaptureHandle

\* What the app sees of an edge.
LEMMA DeliveredStep ==
  ASSUME ListenerTypes, AppKeepsNoKey, NEW e \in KeyEdges, NEW swallow \in BOOLEAN,
         Delivered(e, swallow)
  PROVE  /\ edge' = {} /\ down' \subseteq Keys /\ app' \subseteq Keys
         /\ IF e.pressed
            THEN /\ down' = down \cup {e.key}
                 /\ app' = IF swallow THEN app ELSE app \cup {e.key}
            ELSE /\ down' = down \ {e.key}
                 /\ app' = IF swallow THEN app ELSE app \ {e.key}
         /\ (e.pressed \/ ~swallow \/ e.key \notin app \ SwitchKeys => AppKeepsNoKey')
<1>1. e.key \in Keys /\ e.pressed \in BOOLEAN
  BY DEF KeyEdges
<1>2. edge' = {} /\ down' = IF e.pressed THEN down \cup {e.key} ELSE down \ {e.key}
  BY DEF Delivered
<1>3. app' = IF swallow THEN app ELSE IF e.pressed THEN app \cup {e.key} ELSE app \ {e.key}
  BY <1>1 DEF Delivered, AppSees
<1>4. app \ down \subseteq SwitchKeys
  BY DEF AppKeepsNoKey, SwitchKeys
<1>5. e.pressed \/ ~swallow \/ e.key \notin app \ SwitchKeys => app' \ down' \subseteq SwitchKeys
  BY <1>1, <1>2, <1>3, <1>4
<1> QED
  BY <1>1, <1>2, <1>3, <1>5 DEF ListenerTypes, AppKeepsNoKey, SwitchKeys

\* The matcher decides on an edge.
LEMMA MatchEdgeStep ==
  ASSUME ListenerInv, NEW e \in KeyEdges, InStep(e), listener = "hotkeys", MatchEdge(e),
         UNCHANGED <<listener, heard, gates>>
  PROVE  ListenerInv'
<1> DEFINE k == e.key
           handled == Handle(matcher, k, e.pressed, e.repeat)
           step == IF e.matched THEN handled ELSE Quietly(matcher, FALSE)
<1>1. k \in Keys /\ e.pressed \in BOOLEAN /\ e.repeat \in BOOLEAN /\ e.matched \in BOOLEAN
  BY DEF KeyEdges
<1>2. Takes(step) /\ Delivered(e, step.swallow) /\ UNCHANGED capture
  BY DEF MatchEdge
<1>3. /\ matcher.held \subseteq down /\ Hidden(matcher) \subseteq down
      /\ Hidden(matcher) \cap app \subseteq SwitchKeys /\ app \ down \subseteq SwitchKeys
  BY DEF InStep, KeyboardInv, ListenerInv, AppKeepsNoKey, SwitchKeys
<1>4. /\ e.pressed /\ ~e.repeat => k \notin matcher.held \cup Hidden(matcher) \cup down
      /\ e.repeat => e.pressed
      /\ ~e.matched => e.pressed /\ ~e.repeat
  BY <1>1, <1>3 DEF InStep
<1>5. Sound(matcher, handled) /\ KeyKept(matcher, handled, k, e.pressed, e.repeat)
  BY <1>1, <1>4, HandleStep DEF ListenerInv
<1>6. Sound(matcher, Quietly(matcher, FALSE))
  BY QuietStep DEF ListenerInv
<1>7. Quietly(matcher, FALSE).m = matcher /\ Quietly(matcher, FALSE).swallow = FALSE
  BY DEF Quietly
<1> HIDE DEF k, handled
<1>8. Sound(matcher, step) /\ step.swallow \in BOOLEAN
  BY <1>5, <1>6, <1>7 DEF KeyKept
<1>9. matcher' = step.m
  BY <1>2 DEF Takes
<1>10. /\ Consistent(matcher)' /\ PressesPair' /\ told' \in [Bindings -> HandlerStates]
  <2> HIDE DEF step
  <2> QED
    BY <1>2, <1>8, TakesStep DEF ListenerInv, ListenerTypes
<1>11. ~e.pressed /\ step.swallow => k \notin app \ SwitchKeys
  <2>1. e.matched /\ ~e.pressed /\ handled.swallow => k \in Hidden(matcher)
    BY <1>5 DEF KeyKept
  <2> QED
    BY <1>3, <1>4, <1>7, <2>1
<1>12. /\ edge' = {} /\ down' \subseteq Keys /\ app' \subseteq Keys /\ AppKeepsNoKey'
       /\ IF e.pressed
          THEN down' = down \cup {k} /\ app' = IF step.swallow THEN app ELSE app \cup {k}
          ELSE down' = down \ {k} /\ app' = IF step.swallow THEN app ELSE app \ {k}
  <2> HIDE DEF step
  <2> QED
    BY <1>2, <1>8, <1>11, DeliveredStep DEF ListenerInv, k
<1>13. /\ matcher'.held \cup Hidden(matcher') \subseteq down'
       /\ Hidden(matcher') \cap app' \subseteq SwitchKeys
  <2>1. CASE ~e.matched
    <3>1. matcher' = matcher /\ e.pressed /\ k \notin Hidden(matcher) /\ ~step.swallow
      BY <1>4, <1>7, <1>9, <2>1
    <3> QED
      BY <1>3, <1>12, <3>1
  <2>2. CASE e.matched /\ e.pressed
    <3>1. /\ matcher'.held \subseteq matcher.held \cup {k}
          /\ Hidden(matcher') \subseteq Hidden(matcher) \cup {k}
          /\ e.repeat => Hidden(matcher') = Hidden(matcher)
          /\ k \in Hidden(matcher') => step.swallow
      BY <1>5, <1>9, <2>2 DEF KeyKept
    <3>2. ~e.repeat => k \notin app \ SwitchKeys
      BY <1>3, <1>4, <2>2
    <3> HIDE DEF step
    <3>3. Hidden(matcher') \cap app \subseteq SwitchKeys
      BY <1>1, <1>3, <3>1, <3>2
    <3>4. Hidden(matcher') \cap app' \subseteq Hidden(matcher') \cap app
      BY <1>12, <2>2, <3>1
    <3> QED
      BY <1>3, <1>12, <2>2, <3>1, <3>3, <3>4
  <2>3. CASE e.matched /\ ~e.pressed
    <3>1. /\ matcher'.held \subseteq matcher.held \ {k}
          /\ Hidden(matcher') \subseteq Hidden(matcher) \ {k}
      BY <1>5, <1>9, <2>3 DEF KeyKept
    <3>2. app' \subseteq app /\ down' = down \ {k}
      BY <1>12, <2>3
    <3> QED
      BY <1>3, <3>1, <3>2
  <2> QED
    BY <1>1, <2>1, <2>2, <2>3
<1>14. ListenerTypes'
  BY <1>2, <1>10, <1>12 DEF ListenerInv, ListenerTypes, gates
<1> QED
  BY <1>10, <1>12, <1>13, <1>14 DEF ListenerInv, KeyboardInv, EdgeInv

\* The capture decides on an edge.
LEMMA CaptureEdgeStep ==
  ASSUME ListenerInv, NEW e \in KeyEdges, InStep(e), listener = "capture", CaptureEdge(e),
         UNCHANGED <<listener, heard, gates>>
  PROVE  ListenerInv'
<1>1. /\ e.key \in Keys /\ e.pressed \in BOOLEAN /\ e.repeat \in BOOLEAN /\ e.matched \in BOOLEAN
  BY DEF KeyEdges
<1>2. capture' \in CaptureStates
  BY <1>1, CaptureStep DEF CaptureEdge, ListenerInv, ListenerTypes
<1>3. Delivered(e, CaptureSwallows(e)) /\ UNCHANGED <<matcher, told>>
  BY DEF CaptureEdge
<1>4. CaptureSwallows(e) \in BOOLEAN /\ (CaptureSwallows(e) => e.pressed)
  BY DEF CaptureSwallows
<1>5. /\ edge' = {} /\ down' \subseteq Keys /\ app' \subseteq Keys /\ AppKeepsNoKey'
  BY <1>3, <1>4, DeliveredStep DEF ListenerInv
<1> QED
  BY <1>2, <1>3, <1>5 DEF ListenerInv, ListenerTypes, KeyboardInv, EdgeInv, PressesPair, gates

\* Either of them.
LEMMA DecideStep ==
  ASSUME ListenerInv, NEW e \in KeyEdges, InStep(e), Decide(e), UNCHANGED <<listener, heard, gates>>
  PROVE  ListenerInv'
<1>1. listener = "hotkeys" \/ listener = "capture"
  BY DEF InStep, ListenerInv, ListenerTypes
<1> QED
  BY <1>1, MatchEdgeStep, CaptureEdgeStep DEF Decide

\* An edge as the tap takes it up.
LEMMA EdgeTaken ==
  ASSUME ListenerInv, NEW k \in Keys, NEW pressed \in BOOLEAN, NEW repeat \in BOOLEAN,
         KeyEdge(k, pressed, repeat)
  PROVE  \E e \in KeyEdges :
           IF listener = "off" \/ ~heard
           THEN Delivered(e, FALSE) /\ UNCHANGED <<matcher, capture, told>>
           ELSE /\ InStep(e)
                /\ IF e.missed = {} THEN Decide(e)
                   ELSE edge' = {e} /\ UNCHANGED <<matcher, capture, keyboard, told>>
<1> DEFINE held == IF listener = "hotkeys" THEN matcher.held ELSE capture.held
           flags == Modifiers \cap (IF pressed THEN down \cup {k} ELSE down \ {k})
           unseen == Resynced(k, held, flags)
<1>1. PICK e \in {Edge(k, pressed, repeat, held)} :
        IF listener = "off" \/ ~heard
        THEN Delivered(e, FALSE) /\ UNCHANGED <<matcher, capture, told>>
        ELSE IF e.missed = {} THEN Decide(e)
        ELSE edge' = {e} /\ UNCHANGED <<matcher, capture, keyboard, told>>
  BY DEF KeyEdge
<1>2. /\ IF pressed /\ ~repeat THEN k \notin down ELSE k \in down
      /\ repeat => pressed
  BY DEF KeyEdge
<1>3. /\ unseen \subseteq Modifiers
      /\ k \notin Modifiers => unseen \subseteq down
      /\ k \in Modifiers => unseen \cap down = {} /\ unseen \subseteq held
  BY DEF Resynced, ModifierMismatches
<1>4. Matched(pressed, repeat) \in BOOLEAN /\ (~pressed \/ repeat => Matched(pressed, repeat))
  BY DEF Matched
<1>5. e = [key |-> k, pressed |-> pressed, repeat |-> repeat,
           matched |-> Matched(pressed, repeat), missed |-> unseen]
  BY <1>1 DEF Edge
<1> HIDE DEF unseen
<1>6. e \in KeyEdges
  BY <1>3, <1>4, <1>5 DEF KeyEdges
<1>7. ASSUME listener # "off", heard
      PROVE  InStep(e)
  <2>1. listener = "hotkeys" => held \subseteq down
    BY <1>7 DEF ListenerInv, KeyboardInv
  <2> HIDE DEF held
  <2>2. k \in Modifiers /\ listener = "hotkeys" => unseen = {}
    BY <1>3, <2>1
  <2> QED
    BY <1>2, <1>3, <1>4, <1>5, <1>7, <2>2 DEF InStep
<1> QED
  BY <1>1, <1>6, <1>7

\* An edge reaches the tap.
LEMMA KeyEdgeStep ==
  ASSUME ListenerInv, NEW k \in Keys, NEW pressed \in BOOLEAN, NEW repeat \in BOOLEAN,
         KeyEdge(k, pressed, repeat)
  PROVE  ListenerInv'
<1>1. PICK e \in KeyEdges :
        IF listener = "off" \/ ~heard
        THEN Delivered(e, FALSE) /\ UNCHANGED <<matcher, capture, told>>
        ELSE /\ InStep(e)
             /\ IF e.missed = {} THEN Decide(e)
                ELSE edge' = {e} /\ UNCHANGED <<matcher, capture, keyboard, told>>
  BY EdgeTaken
<1>2. UNCHANGED <<listener, heard, gates>>
  BY DEF KeyEdge
<1>3. CASE listener = "off" \/ ~heard
  <2>1. Delivered(e, FALSE) /\ UNCHANGED <<matcher, capture, told>>
    BY <1>1, <1>3
  <2>2. /\ edge' = {} /\ down' \subseteq Keys /\ app' \subseteq Keys /\ AppKeepsNoKey'
    BY <2>1, DeliveredStep DEF ListenerInv
  <2> QED
    BY <1>2, <1>3, <2>1, <2>2
    DEF ListenerInv, ListenerTypes, KeyboardInv, EdgeInv, PressesPair, gates
<1>4. CASE listener # "off" /\ heard /\ e.missed = {}
  BY <1>1, <1>2, <1>4, DecideStep
<1>5. CASE listener # "off" /\ heard /\ e.missed # {}
  <2>1. /\ edge' = {e} /\ UNCHANGED <<matcher, capture, keyboard, told, listener, heard, gates>>
        /\ InStep(e)
    BY <1>1, <1>2, <1>5
  <2>2. InStep(e)'
    BY <2>1 DEF InStep, keyboard
  <2>3. ListenerTypes'
    BY <2>1 DEF ListenerInv, ListenerTypes, keyboard, gates
  <2> QED
    BY <2>1, <2>2, <2>3
    DEF ListenerInv, KeyboardInv, EdgeInv, PressesPair, AppKeepsNoKey, keyboard
<1> QED
  BY <1>3, <1>4, <1>5

\* A modifier is brought in line before the edge e is decided.
LEMMA ResyncStep ==
  ASSUME ListenerInv, NEW e \in edge, NEW j \in e.missed, Resync(e, j)
  PROVE  ListenerInv'
<1> DEFINE pressed == e.key \notin Modifiers
           step == Handle(matcher, j, pressed, FALSE)
           after == [e EXCEPT !.missed = @ \ {j}]
<1>1. e \in KeyEdges /\ InStep(e) /\ j \in Modifiers /\ j \in Keys /\ j # Escape
  BY KeyClasses DEF ListenerInv, ListenerTypes, EdgeInv, KeyEdges
<1>2. edge' = {after} /\ UNCHANGED <<listener, heard, keyboard, gates>>
  BY DEF Resync
<1>3. EdgeInv'
  <2>1. /\ after.key = e.key /\ after.pressed = e.pressed /\ after.repeat = e.repeat
        /\ after.matched = e.matched /\ after.missed \subseteq e.missed
    BY <1>1 DEF KeyEdges
  <2> HIDE DEF after
  <2>2. InStep(after)'
    BY <1>1, <1>2, <2>1 DEF InStep, keyboard
  <2> QED
    BY <1>2, <2>2 DEF EdgeInv
<1>4. after \in KeyEdges
  BY <1>1 DEF KeyEdges
<1> HIDE DEF after
<1>5. CASE listener = "hotkeys"
  <2>1. Takes(step) /\ UNCHANGED capture
    BY <1>5 DEF Resync
  <2>2. pressed \in BOOLEAN /\ (pressed => j \in down)
    BY <1>1 DEF InStep
  <2> HIDE DEF pressed
  <2>3. Sound(matcher, step) /\ KeyKept(matcher, step, j, pressed, FALSE)
    BY <1>1, <2>2, HandleStep DEF ListenerInv
  <2> HIDE DEF step
  <2>4. Consistent(matcher)' /\ PressesPair' /\ told' \in [Bindings -> HandlerStates]
    BY <2>1, <2>3, TakesStep DEF ListenerInv, ListenerTypes
  <2>5. matcher' = step.m
    BY <2>1 DEF Takes
  <2>6. /\ matcher.held \subseteq down /\ Hidden(matcher) \subseteq down
        /\ Hidden(matcher) \cap app \subseteq SwitchKeys
    BY <1>1, <1>5 DEF InStep, KeyboardInv, ListenerInv
  <2>7. /\ matcher'.held \cup Hidden(matcher') \subseteq down
        /\ Hidden(matcher') \cap app \subseteq SwitchKeys
    BY <1>1, <2>2, <2>3, <2>5, <2>6 DEF KeyKept
  <2>8. ListenerTypes'
    BY <1>2, <1>4, <2>1, <2>4 DEF ListenerInv, ListenerTypes, keyboard, gates
  <2> QED
    BY <1>2, <1>3, <2>4, <2>7, <2>8 DEF ListenerInv, KeyboardInv, AppKeepsNoKey, keyboard
<1>6. CASE listener # "hotkeys"
  <2>1. UNCHANGED <<matcher, told>> /\ capture' = CaptureHandle(capture, j, pressed, FALSE)
    BY <1>6 DEF Resync
  <2>2. capture' \in CaptureStates
    BY <1>1, <2>1, CaptureStep DEF ListenerInv, ListenerTypes
  <2>3. ListenerTypes'
    BY <1>2, <1>4, <2>1, <2>2 DEF ListenerInv, ListenerTypes, keyboard, gates
  <2> QED
    BY <1>2, <1>3, <1>6, <2>1, <2>3
    DEF ListenerInv, KeyboardInv, PressesPair, AppKeepsNoKey, keyboard
<1> QED
  BY <1>5, <1>6

\* The tap was off and starts over.
LEMMA TapResetStep ==
  ASSUME ListenerInv, TapReset
  PROVE  ListenerInv'
<1>1. edge = {} /\ heard' = TRUE /\ UNCHANGED <<listener, edge, keyboard, gates>>
  BY DEF TapReset
<1>2. EdgeInv'
  BY <1>1 DEF EdgeInv
<1>3. CASE listener = "hotkeys"
  <2>1. Takes(Reset(matcher)) /\ UNCHANGED capture
    BY <1>3 DEF TapReset
  <2>2. Sound(matcher, Reset(matcher)) /\ Reset(matcher).m = NoKeys
    BY ResetStep DEF ListenerInv
  <2>3. Consistent(matcher)' /\ PressesPair' /\ told' \in [Bindings -> HandlerStates]
    BY <2>1, <2>2, TakesStep DEF ListenerInv, ListenerTypes
  <2>4. matcher' = NoKeys
    BY <2>1, <2>2 DEF Takes
  <2>5. KeyboardInv'
    BY <2>4 DEF KeyboardInv, NoKeys, Hidden
  <2>6. ListenerTypes'
    BY <1>1, <2>1, <2>3 DEF ListenerInv, ListenerTypes, keyboard, gates
  <2> QED
    BY <1>1, <1>2, <2>3, <2>5, <2>6 DEF ListenerInv, AppKeepsNoKey, keyboard
<1>4. CASE listener # "hotkeys"
  <2>1. capture' = CaptureReset(capture) /\ UNCHANGED <<matcher, told>>
    BY <1>4 DEF TapReset
  <2>2. capture' \in CaptureStates
    BY <2>1 DEF CaptureReset, CaptureStates, ListenerInv, ListenerTypes
  <2>3. ListenerTypes'
    BY <1>1, <2>1, <2>2 DEF ListenerInv, ListenerTypes, keyboard, gates
  <2> QED
    BY <1>1, <1>2, <1>4, <2>1, <2>3
    DEF ListenerInv, KeyboardInv, PressesPair, AppKeepsNoKey, keyboard
<1> QED
  BY <1>3, <1>4

\* A new listener knows of no key and has told nothing.
LEMMA ReplaceStep ==
  ASSUME ListenerInv, NEW new \in {"off", "hotkeys", "capture"}, Replace(new)
  PROVE  ListenerInv'
<1>1. /\ edge' = {} /\ listener' = new /\ matcher' = NoKeys /\ capture' = NoCapture /\ heard' = TRUE
      /\ told' = [i \in Bindings |-> "up"] /\ UNCHANGED <<keyboard, gates>>
  BY DEF Replace
<1>2. Consistent(matcher')
  BY <1>1 DEF Consistent, NoKeys, Matchers
<1>3. told' \in [Bindings -> HandlerStates] /\ PressesPair'
  BY <1>1 DEF HandlerStates, PressesPair, NoKeys
<1>4. KeyboardInv' /\ EdgeInv'
  BY <1>1 DEF KeyboardInv, EdgeInv, NoKeys, Hidden
<1>5. ListenerTypes'
  BY <1>1, <1>3 DEF ListenerInv, ListenerTypes, CaptureStates, NoCapture, keyboard, gates
<1> QED
  BY <1>1, <1>2, <1>3, <1>4, <1>5 DEF ListenerInv, AppKeepsNoKey, keyboard

\* The invariant holds when the app starts ...
LEMMA ListenerInvInit == ListenerInit => ListenerInv
<1> SUFFICES ASSUME ListenerInit
             PROVE  ListenerInv
  OBVIOUS
<1>1. ListenerTypes
  BY DEF ListenerInit, ListenerTypes, CaptureStates, NoCapture, HandlerStates
<1>2. Consistent(matcher)
  BY DEF ListenerInit, Consistent, NoKeys, Matchers
<1>3. PressesPair /\ KeyboardInv /\ EdgeInv /\ AppKeepsNoKey
  BY DEF ListenerInit, PressesPair, KeyboardInv, EdgeInv, AppKeepsNoKey, NoKeys, Hidden
<1> QED
  BY <1>1, <1>2, <1>3 DEF ListenerInv

\* ... and is kept by every step.
LEMMA ListenerInvStep == ListenerInv /\ [ListenerNext]_listenerVars => ListenerInv'
<1> SUFFICES ASSUME ListenerInv, [ListenerNext]_listenerVars
             PROVE  ListenerInv'
  OBVIOUS
<1>1. ASSUME NEW k \in Keys, NEW pressed \in BOOLEAN, NEW repeat \in BOOLEAN,
             KeyEdge(k, pressed, repeat)
      PROVE  ListenerInv'
  BY <1>1, KeyEdgeStep
<1>2. ASSUME NEW e \in edge, NEW j \in e.missed, Resync(e, j)
      PROVE  ListenerInv'
  BY <1>2, ResyncStep
<1>3. ASSUME NEW e \in edge, DecideLast(e)
      PROVE  ListenerInv'
  <2>1. e \in KeyEdges /\ InStep(e)
    BY DEF ListenerInv, ListenerTypes, EdgeInv
  <2> QED
    BY <1>3, <2>1, DecideStep DEF DecideLast
<1>4. CASE TapDisabled
  BY <1>4 DEF TapDisabled, ListenerInv, ListenerTypes, KeyboardInv, EdgeInv, PressesPair,
              AppKeepsNoKey, keyboard, gates
<1>5. CASE Install \/ StartCapture \/ PauseListener
  BY <1>5, ReplaceStep DEF Install, StartCapture, PauseListener
<1>6. CASE MoveGates
  BY <1>6 DEF MoveGates, ListenerInv, ListenerTypes, KeyboardInv, EdgeInv, InStep, PressesPair,
              AppKeepsNoKey, keyboard
<1>7. CASE UNCHANGED listenerVars
  BY <1>7 DEF listenerVars, ListenerInv, ListenerTypes, KeyboardInv, EdgeInv, InStep, PressesPair,
              AppKeepsNoKey, keyboard, gates
<1> QED
  BY <1>1, <1>2, <1>3, <1>4, <1>5, <1>6, <1>7, TapResetStep DEF ListenerNext

\* So it holds in every state of every behaviour.
LEMMA ListenerInvAlways == ListenerSpec => []ListenerInv
BY ListenerInvInit, ListenerInvStep, PTL DEF ListenerSpec

\* No shortcut is held or waiting while one of its keys is up.
THEOREM NothingGetsStuck == ListenerSpec => []NothingStuck
<1>1. ListenerInv => NothingStuck
  BY DEF ListenerInv, Consistent, KeyboardInv, NothingStuck
<1> QED
  BY <1>1, ListenerInvAlways, PTL

\* Presses and releases of every binding come in pairs.
THEOREM PressesAlwaysPair == ListenerSpec => []PressesPair
<1>1. ListenerInv => PressesPair
  BY DEF ListenerInv
<1> QED
  BY <1>1, ListenerInvAlways, PTL

\* A chord that a larger one beat does not wait to fire.
THEOREM SmallerChordAlwaysDropped == ListenerSpec => []SmallerChordDropped
<1>1. ListenerInv => SmallerChordDropped
  BY DEF ListenerInv, Consistent, SmallerChordDropped
<1> QED
  BY <1>1, ListenerInvAlways, PTL

\* The focused app is left with no key held that is up, but for those that switch the language.
THEOREM AppNeverKeepsAKey == ListenerSpec => []AppKeepsNoKey
<1>1. ListenerInv => AppKeepsNoKey
  BY DEF ListenerInv
<1> QED
  BY <1>1, ListenerInvAlways, PTL

-----------------------------------------------------------------------------
\* Whom a step presses and releases: one live chord whose keys are down, and those k is a key of.
Meant(m, step, k, pressed) ==
  /\ \A i \in step.pressed : pressed /\ i \in Live /\ i.keys \subseteq m.held \cup {k}
  /\ \A i, j \in step.pressed : i = j
  /\ \A i \in step.released : ~pressed /\ k \in i.keys

\* That is what an edge does, whatever state the matcher is in.
LEMMA HandleMeant ==
  ASSUME NEW m, NEW k, NEW pressed \in BOOLEAN, NEW repeat
  PROVE  Meant(m, Handle(m, k, pressed, repeat), k, pressed)
<1>1. \A after, swallow : Meant(m, Quietly(after, swallow), k, pressed)
  BY DEF Meant, Quietly
<1>2. CASE HandlesCancelKey(m, k, pressed, repeat)
  BY <1>1, <1>2 DEF Handle, HandleCancelKey
<1>3. CASE ~HandlesCancelKey(m, k, pressed, repeat) /\ pressed
  <2>1. Handle(m, k, pressed, repeat) = Press(m, k, repeat)
    BY <1>3 DEF Handle
  <2>2. CASE repeat \/ k \in m.held
    BY <1>1, <2>1, <2>2 DEF Press
  <2>3. CASE ~(repeat \/ k \in m.held)
    <3> DEFINE winner == NewlySatisfiedLargest(k, m.held \cup {k})
    <3>1. /\ \A v, w \in winner : v = w
          /\ \A w \in winner : w \in Live /\ w.keys \subseteq m.held \cup {k}
      BY LargestIsOne DEF NewlySatisfiedLargest
    <3> HIDE DEF winner
    <3>2. ASSUME NEW waits, NEW swallow
          PROVE  Meant(m, Fire(m, k, winner, waits, swallow), k, pressed)
      BY <1>3, <3>1 DEF Meant, Fire, Quietly
    <3>3. Handle(m, k, pressed, repeat) = Complete(m, k, winner)
      BY <2>1, <2>3 DEF Press, winner
    <3> QED
      BY <3>2, <3>3 DEF Complete
  <2> QED
    BY <2>2, <2>3
<1>4. CASE ~HandlesCancelKey(m, k, pressed, repeat) /\ ~pressed
  <2>1. Handle(m, k, pressed, repeat) = Release(m, k)
    BY <1>4 DEF Handle
  <2>2. CASE k \notin m.held
    BY <1>1, <2>1, <2>2 DEF Release
  <2>3. CASE k \in m.held
    BY <1>4, <2>1, <2>3 DEF Meant, Release, Quietly, With
  <2> QED
    BY <2>2, <2>3
<1> QED
  BY <1>2, <1>3, <1>4

\* What the handler is told are the presses and the releases of the step.
LEMMA TakesTells ==
  ASSUME PressesPair, NEW step, Sound(matcher, step), Takes(step), NEW i \in Bindings
  PROVE  /\ told[i] = "up" /\ told'[i] = "down" => i \in step.pressed
         /\ told[i] = "down" /\ told'[i] = "up" => i \in step.released
<1>1. told'[i] = Told(i, step)
  BY DEF Takes
<1>2. told[i] = "down" <=> i \in matcher.active
  BY DEF PressesPair
<1> QED
  BY <1>1, <1>2 DEF Told, Hears, Sound

\* PressesAreMeant, of one step.
ToldAsMeant ==
  \A i \in Bindings :
    /\ told[i] = "up" /\ told'[i] = "down" =>
         /\ i \in Live /\ i.keys \subseteq down'
         /\ \A j \in Bindings : told[j] = "up" /\ told'[j] = "down" => j = i
    /\ told[i] = "down" /\ told'[i] = "up" =>
         ~(i.keys \subseteq down') \/ matcher' = NoKeys

\* A step of the matcher on an edge of k, when the keyboard agrees with it.
LEMMA ToldByHandle ==
  ASSUME ListenerInv, NEW k, NEW pressed \in BOOLEAN, NEW repeat,
         Sound(matcher, Handle(matcher, k, pressed, repeat)),
         Takes(Handle(matcher, k, pressed, repeat)),
         pressed => matcher.held \cup {k} \subseteq down',
         ~pressed => k \notin down'
  PROVE  ToldAsMeant
<1> DEFINE step == Handle(matcher, k, pressed, repeat)
<1>1. Meant(matcher, step, k, pressed)
  BY HandleMeant
<1>2. Sound(matcher, step) /\ Takes(step) /\ PressesPair
  BY DEF ListenerInv
<1> HIDE DEF step
<1>3. \A i \in Bindings : /\ told[i] = "up" /\ told'[i] = "down" => i \in step.pressed
                          /\ told[i] = "down" /\ told'[i] = "up" => i \in step.released
  BY <1>2, TakesTells
<1> QED
  BY <1>1, <1>3 DEF Meant, ToldAsMeant

\* The edge itself, a modifier before it, and every other step.
LEMMA DecideTells ==
  ASSUME ListenerInv, NEW e \in KeyEdges, InStep(e), Decide(e)
  PROVE  ToldAsMeant
<1>1. CASE listener # "hotkeys"
  BY <1>1 DEF Decide, CaptureEdge, ToldAsMeant
<1>2. CASE listener = "hotkeys"
  <2> DEFINE k == e.key
             step == IF e.matched THEN Handle(matcher, k, e.pressed, e.repeat)
                                  ELSE Quietly(matcher, FALSE)
  <2>1. Takes(step) /\ down' = IF e.pressed THEN down \cup {k} ELSE down \ {k}
    BY <1>2 DEF Decide, MatchEdge, Delivered
  <2>2. /\ k \in Keys /\ e.pressed \in BOOLEAN /\ e.repeat \in BOOLEAN
    BY DEF KeyEdges
  <2>3. matcher.held \subseteq down
    BY <1>2 DEF InStep, ListenerInv, KeyboardInv
  <2>4. CASE e.matched
    <3>1. e.repeat => e.pressed
      BY DEF InStep
    <3>2. e.pressed /\ ~e.repeat => k \notin matcher.held
      BY <2>3 DEF InStep
    <3> HIDE DEF k
    <3>3. Sound(matcher, Handle(matcher, k, e.pressed, e.repeat))
      BY <2>2, <3>1, <3>2, HandleStep DEF ListenerInv
    <3>4. Takes(Handle(matcher, k, e.pressed, e.repeat))
      BY <2>1, <2>4
    <3> QED
      BY <2>1, <2>2, <2>3, <3>3, <3>4, ToldByHandle
  <2>5. CASE ~e.matched
    <3>1. Takes(Quietly(matcher, FALSE))
      BY <2>1, <2>5
    <3>2. ASSUME NEW i \in Bindings
          PROVE  told'[i] = told[i]
      BY <3>1 DEF Takes, Told, Quietly
    <3> QED
      BY <3>2 DEF ToldAsMeant
  <2> QED
    BY <2>4, <2>5
<1> QED
  BY <1>1, <1>2

LEMMA ResyncTells ==
  ASSUME ListenerInv, NEW e \in edge, NEW j \in e.missed, Resync(e, j)
  PROVE  ToldAsMeant
<1>1. e \in KeyEdges /\ InStep(e) /\ j \in Keys /\ j # Escape
  BY KeyClasses DEF ListenerInv, ListenerTypes, EdgeInv, KeyEdges
<1>2. CASE listener # "hotkeys"
  BY <1>2 DEF Resync, ToldAsMeant
<1>3. CASE listener = "hotkeys"
  <2>1. e.key \notin Modifiers /\ j \in down
    BY <1>1, <1>3 DEF InStep
  <2>2. matcher.held \subseteq down /\ down' = down
    BY <1>1, <1>3 DEF InStep, ListenerInv, KeyboardInv, Resync, keyboard
  <2>3. Takes(Handle(matcher, j, TRUE, FALSE))
    BY <1>3, <2>1 DEF Resync
  <2>4. Sound(matcher, Handle(matcher, j, TRUE, FALSE))
    BY <1>1, HandleStep DEF ListenerInv
  <2> QED
    BY <2>1, <2>2, <2>3, <2>4, ToldByHandle
<1> QED
  BY <1>2, <1>3

LEMMA NextTells == ListenerInv /\ [ListenerNext]_listenerVars => ToldAsMeant
<1> SUFFICES ASSUME ListenerInv, [ListenerNext]_listenerVars
             PROVE  ToldAsMeant
  OBVIOUS
<1>1. ASSUME UNCHANGED told
      PROVE  ToldAsMeant
  BY <1>1 DEF ToldAsMeant
<1>2. ASSUME NEW k \in Keys, NEW pressed \in BOOLEAN, NEW repeat \in BOOLEAN,
             KeyEdge(k, pressed, repeat)
      PROVE  ToldAsMeant
  <2>1. CASE UNCHANGED told
    BY <1>1, <2>1
  <2>2. CASE ~UNCHANGED told
    <3>1. \E e \in KeyEdges : InStep(e) /\ Decide(e)
      BY <1>2, <2>2, EdgeTaken
    <3> QED
      BY <3>1, DecideTells
  <2> QED
    BY <2>1, <2>2
<1>3. ASSUME NEW e \in edge, DecideLast(e)
      PROVE  ToldAsMeant
  <2>1. e \in KeyEdges /\ InStep(e)
    BY DEF ListenerInv, ListenerTypes, EdgeInv
  <2> QED
    BY <1>3, <2>1, DecideTells DEF DecideLast
<1>4. ASSUME matcher' = NoKeys, \A i \in Bindings : told[i] = "up" => told'[i] = "up"
      PROVE  ToldAsMeant
  BY <1>4 DEF ToldAsMeant
<1>5. CASE TapReset
  <2>1. CASE UNCHANGED told
    BY <1>1, <2>1
  <2>2. CASE Takes(Reset(matcher))
    <3>1. Sound(matcher, Reset(matcher)) /\ Reset(matcher).m = NoKeys /\ Reset(matcher).pressed = {}
      BY ResetStep DEF ListenerInv, Reset, Quietly
    <3>2. \A i \in Bindings : told[i] = "up" => told'[i] # "down"
      BY <2>2, <3>1, TakesTells DEF ListenerInv
    <3>3. PressesPair' /\ told' \in [Bindings -> HandlerStates]
      BY <2>2, <3>1, TakesStep DEF ListenerInv, ListenerTypes
    <3>4. \A i \in Bindings : told[i] = "up" => told'[i] = "up"
      BY <3>2, <3>3 DEF PressesPair, HandlerStates
    <3>5. matcher' = NoKeys
      BY <2>2, <3>1 DEF Takes
    <3> QED
      BY <1>4, <3>4, <3>5
  <2> QED
    BY <1>5, <2>1, <2>2 DEF TapReset
<1>6. CASE Install \/ StartCapture \/ PauseListener
  <2>1. matcher' = NoKeys /\ told' = [i \in Bindings |-> "up"]
    BY <1>6 DEF Install, StartCapture, PauseListener, Replace
  <2> QED
    BY <1>4, <2>1
<1>7. CASE TapDisabled \/ MoveGates \/ UNCHANGED listenerVars
  BY <1>1, <1>7 DEF TapDisabled, MoveGates, listenerVars
<1> QED
  BY <1>2, <1>3, <1>5, <1>6, <1>7, ResyncTells DEF ListenerNext

\* A shortcut is pressed only while its role is let through and all its keys are down, one at a
\* time, and released only when one of them comes up or the matcher starts over.
THEOREM PressesAlwaysMeant == ListenerSpec => PressesAreMeant
<1>1. ListenerInv /\ [ListenerNext]_listenerVars => ToldAsMeant
  BY NextTells
<1>2. ListenerInv /\ [ListenerNext]_listenerVars =>
        [\A i \in Bindings :
           /\ told[i] = "up" /\ told'[i] = "down" =>
                /\ i \in Live /\ i.keys \subseteq down'
                /\ \A j \in Bindings : told[j] = "up" /\ told'[j] = "down" => j = i
           /\ told[i] = "down" /\ told'[i] = "up" =>
                ~(i.keys \subseteq down') \/ matcher' = NoKeys]_listenerVars
  BY <1>1 DEF ToldAsMeant
<1> QED
  BY <1>2, ListenerInvAlways, PTL DEF ListenerSpec, PressesAreMeant

=============================================================================
