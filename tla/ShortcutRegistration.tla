------------------------ MODULE ShortcutRegistration ------------------------
(***************************************************************************)
(* Which shortcuts the system has: the settings register what they save    *)
(* and go back when that fails, recording a shortcut pauses them all, the  *)
(* supervisor retries a failed registration, and onboarding's gate takes   *)
(* some out.  Only the supervisor's retry and the gate register under the  *)
(* lock of its generation (hotkey.rs); the settings and the end of a       *)
(* recording do not, and each runs on a task of its own.                   *)
(***************************************************************************)
EXTENDS Naturals

CONSTANTS
  Saves,     \* calls of update_config, update_hotkey and update_ask_hotkey
  Captures,  \* recordings of a shortcut in the settings window
  Gates,     \* calls of set_shortcut_gate
  Configs,   \* sets of shortcuts the user may choose,
  Taken,     \*   those of them with a shortcut that another app holds,
  LeftOut,   \*   of them those whose taken shortcut a closed gate leaves out,
  First,     \*   and the one saved when the app starts
  Retry,     \* the supervisor's loop
  None,
  MaxFaults  \* bound: times the Accessibility permission is lost, or the system
             \* refuses to take the shortcuts out

ASSUME RegistrationAssumption ==
  /\ First \in Configs \ Taken /\ LeftOut \subseteq Taken /\ None \notin Configs
  /\ Saves \cap Captures = {} /\ Retry \notin Saves \cup Captures
  /\ Gates \cap (Saves \cup Captures \cup {Retry}) = {}
  /\ None \notin Saves \cup Captures \cup Gates \cup {Retry}
  /\ MaxFaults \in Nat

Calls == Saves \cup Captures
Registrants == Calls \cup {Retry}

VARIABLES
  cache,       \* ConfigManager.cache: the shortcuts
  live,        \* what the system has: whose shortcuts (None: none, or some), behind which gate
  missed,      \* history: the gate's last pass left out a shortcut it let through
  roleCache,   \* HotkeyRoleCache: the plan registered last
  open,        \* ShortcutGateState: all shortcuts, or some
  generation, state,  \* HotkeySupervisor
  error,       \* HotkeyRegistrationError is set
  lock,        \* who registers under the supervisor's mutex
  pc, job,     \* a call's next step, and its local variables
  able, faults,  \* the Accessibility permission, and what went wrong so far
  overlapped,  \* a call began while another one was under way
  saveFailed   \* settings.json could not be written once

supervisor  == <<generation, state, error, lock>>
shortcuts   == <<live, missed, roleCache>>
calls       == <<pc, job, overlapped>>
environment == <<able, faults>>
vars == <<cache, shortcuts, open, supervisor, calls, environment, saveFailed>>

NoJob == [target |-> None, previous |-> None, stage |-> "next", gen |-> 0, ok |-> FALSE]
Nothing == [keys |-> None, open |-> FALSE]

\* begin_registration_attempt() at startup has ended before the loop or a window runs.
Init ==
  /\ cache = First /\ roleCache = First
  /\ open = FALSE  \* the gate moves during onboarding only, which begins with it closed
  /\ able \in BOOLEAN
  /\ live = IF able THEN [keys |-> First, open |-> open] ELSE Nothing
  /\ missed = FALSE
  /\ generation = 1 /\ state = IF able THEN "installed" ELSE "failed"
  /\ error = ~able /\ lock = None
  /\ pc = [p \in Registrants \cup Gates |-> "ready"]
  /\ job = [p \in Registrants \cup Gates |-> NoJob]
  /\ faults = 0 /\ overlapped = FALSE /\ saveFailed = FALSE

UnderWay(p) == pc[p] \notin {"ready", "done"}
Quiet == \A p \in Registrants \cup Gates : ~UnderWay(p)

Go(p, from, to) == pc[p] = from /\ pc' = [pc EXCEPT ![p] = to]
Finish(p, to) == pc' = [pc EXCEPT ![p] = to] /\ job' = [job EXCEPT ![p] = NoJob]
Begins == overlapped' = (overlapped \/ \E q \in Calls : UnderWay(q))

(***************************************************************************)
(* HotkeySupervisor.                                                       *)
(***************************************************************************)
Wake_SameGeneration == lock = None /\ generation' = generation /\ state' = "starting"
Wake == lock = None /\ generation' = generation + 1 /\ state' = "starting"

record_registration_OnlySuccess(gen, ok) ==
  state' = IF generation = gen /\ ok THEN "installed" ELSE state
record_registration(gen, ok) ==
  state' = IF generation = gen THEN (IF ok THEN "installed" ELSE "failed") ELSE state

\* run_if_current_generation: the lock, if nobody has begun anything since.
LockIfCurrent(p, gen) == lock = None /\ generation = gen /\ lock' = p

(***************************************************************************)
(* register_configured_shortcuts: everything is taken out, then each       *)
(* shortcut that the gate allows is put in, and the key listener starts.   *)
(***************************************************************************)
Unregister == live' = Nothing /\ UNCHANGED missed

\* unregister_all() fails, and what it took out by then is out.
UnregisterFails ==
  /\ faults < MaxFaults /\ faults' = faults + 1 /\ UNCHANGED able
  /\ live' \in {live, Nothing}

\* A shortcut the gate leaves out is not asked for.
Free(config) == config \notin Taken \/ (config \in LeftOut /\ ~open)
Works(config) == able /\ Free(config)

Register(config) ==
  IF Works(config)
  THEN live' = [keys |-> config, open |-> open] /\ roleCache' = config /\ missed' = FALSE
  ELSE UNCHANGED shortcuts

Clear(p) ==
  /\ p \in Calls /\ Go(p, "clear", "enter")
  /\ Unregister
  /\ UNCHANGED <<cache, roleCache, open, supervisor, job, overlapped, environment, saveFailed>>

\* refresh_hotkey_runtime_with_rollback: what cannot be registered gives way to what was there.
RollsBack(p) == p \in Saves /\ job[p].stage = "next"

CannotRegister(p) ==
  IF RollsBack(p)
  THEN /\ pc' = [pc EXCEPT ![p] = "clear"]
       /\ job' = [job EXCEPT ![p].stage = "rollback", ![p].target = job[p].previous]
  ELSE /\ pc' = [pc EXCEPT ![p] = "record"]
       /\ job' = [job EXCEPT ![p].ok = FALSE]

ClearFails(p) ==
  /\ p \in Calls /\ pc[p] = "clear"
  /\ UnregisterFails /\ CannotRegister(p)
  /\ UNCHANGED <<cache, missed, roleCache, open, supervisor, overlapped, saveFailed>>

Enter(p) ==
  /\ p \in Calls /\ pc[p] = "enter"
  /\ Register(job[p].target)
  /\ IF Works(job[p].target)
     THEN /\ pc' = [pc EXCEPT ![p] = "record"]
          /\ job' = [job EXCEPT ![p].ok = TRUE]
     ELSE CannotRegister(p)
  /\ UNCHANGED <<cache, open, supervisor, overlapped, environment, saveFailed>>

Record(p) ==
  /\ p \in Calls /\ lock = None
  /\ Go(p, "record", "error")
  /\ record_registration(job[p].gen, job[p].ok)
  /\ UNCHANGED <<cache, shortcuts, open, generation, error, lock, job, overlapped,
                 environment, saveFailed>>

\* A save whose own shortcuts were registered goes on to write them.
ShowError(p) ==
  /\ p \in Calls /\ pc[p] = "error"
  /\ error' = ~job[p].ok
  /\ IF p \in Saves /\ job[p].stage = "next"
     THEN pc' = [pc EXCEPT ![p] = "persist"] /\ UNCHANGED job
     ELSE Finish(p, "done")
  /\ UNCHANGED <<cache, shortcuts, open, generation, state, lock, overlapped,
                 environment, saveFailed>>

(***************************************************************************)
(* The settings.                                                           *)
(***************************************************************************)
Load(s, config, to) ==
  /\ s \in Saves /\ Go(s, "ready", to)
  /\ job' = [job EXCEPT ![s].target = config, ![s].previous = cache]
  /\ Begins
  /\ UNCHANGED <<cache, shortcuts, open, supervisor, environment, saveFailed>>

\* update_config registers only what differs from the configuration it loaded.
Refreshes(config) == config # cache

UpdateConfig(s) ==
  \E config \in Configs : Load(s, config, IF Refreshes(config) THEN "wake" ELSE "persist")

UpdateHotkey(s) == \E config \in Configs : Load(s, config, "wake")

WakeForSettings(s) ==
  /\ s \in Saves /\ Go(s, "wake", "clear")
  /\ Wake
  /\ job' = [job EXCEPT ![s].gen = generation']
  /\ UNCHANGED <<cache, shortcuts, open, error, lock, overlapped, environment,
                 saveFailed>>

\* ConfigManager::save() takes the new configuration over before it writes it.  Only
\* update_config sets the registered plan again; update_hotkey leaves it as registered.
Persist(s) ==
  /\ s \in Saves /\ pc[s] = "persist"
  /\ cache' = job[s].target
  /\ \/ roleCache' = job[s].target
     \/ job[s].gen # 0 /\ UNCHANGED roleCache
  /\ Finish(s, "done")
  /\ UNCHANGED <<live, missed, open, supervisor, overlapped, environment, saveFailed>>

PersistFails(s) ==
  /\ s \in Saves /\ pc[s] = "persist"
  /\ cache' = job[s].target /\ saveFailed' = TRUE
  /\ IF job[s].gen = 0
     THEN Finish(s, "done")
     ELSE /\ pc' = [pc EXCEPT ![s] = "wake"]
          /\ job' = [job EXCEPT ![s].stage = "restore", ![s].target = job[s].previous]
  /\ UNCHANGED <<shortcuts, open, supervisor, overlapped, environment>>

(***************************************************************************)
(* Recording a shortcut: pause_hotkey, then resume_hotkey.                 *)
(***************************************************************************)
Disable(c) ==
  /\ c \in Captures /\ Go(c, "ready", "pause")
  /\ lock = None /\ generation' = generation + 1 /\ state' = "disabled"
  /\ Begins
  /\ UNCHANGED <<cache, shortcuts, open, error, lock, job, environment, saveFailed>>

Pause(c) ==
  /\ Go(c, "pause", "capturing")
  /\ Unregister
  /\ UNCHANGED <<cache, roleCache, open, supervisor, job, overlapped, environment, saveFailed>>

\* The window stops the recording it could not begin.
PauseFails(c) ==
  /\ Go(c, "pause", "unpaused")
  /\ UnregisterFails
  /\ UNCHANGED <<cache, missed, roleCache, open, supervisor, job, overlapped, saveFailed>>

Resume(c) ==
  /\ pc[c] \in {"capturing", "unpaused"} /\ pc' = [pc EXCEPT ![c] = "begin"]
  /\ job' = [job EXCEPT ![c].target = cache]
  /\ UNCHANGED <<cache, shortcuts, open, supervisor, overlapped, environment, saveFailed>>

begin_registration_attempt(c) ==
  /\ Go(c, "begin", "clear")
  /\ lock = None /\ state' = "starting"
  /\ job' = [job EXCEPT ![c].gen = generation]
  /\ UNCHANGED <<cache, shortcuts, open, generation, error, lock, overlapped,
                 environment, saveFailed>>

(***************************************************************************)
(* The supervisor's loop.                                                  *)
(***************************************************************************)
begin_retry_registration_attempt ==
  /\ Go(Retry, "ready", "load")
  /\ lock = None /\ state = "failed"
  /\ state' = "starting"
  /\ job' = [job EXCEPT ![Retry].gen = generation]
  /\ UNCHANGED <<cache, shortcuts, open, generation, error, lock, overlapped,
                 environment, saveFailed>>

RetryLoad ==
  /\ Go(Retry, "load", "clear")
  /\ job' = [job EXCEPT ![Retry].target = cache]
  /\ UNCHANGED <<cache, shortcuts, open, supervisor, overlapped, environment, saveFailed>>

MayRetry == LockIfCurrent(Retry, job[Retry].gen)

RetryClear ==
  /\ Go(Retry, "clear", "enter")
  /\ MayRetry /\ Unregister
  /\ UNCHANGED <<cache, roleCache, open, generation, state, error, job, overlapped,
                 environment, saveFailed>>

RetryClearFails ==
  /\ Go(Retry, "clear", "look")
  /\ lock = None /\ generation = job[Retry].gen
  /\ UnregisterFails
  /\ UNCHANGED <<cache, missed, roleCache, open, supervisor, job, overlapped, saveFailed>>

Superseded ==
  /\ pc[Retry] \in {"clear", "look"}
  /\ lock = None /\ generation # job[Retry].gen
  /\ Finish(Retry, "ready")
  /\ UNCHANGED <<cache, shortcuts, open, supervisor, overlapped, environment, saveFailed>>

RetryEnter ==
  /\ Go(Retry, "enter", "look")
  /\ Register(job[Retry].target)
  /\ job' = [job EXCEPT ![Retry].ok = Works(job[Retry].target)]
  /\ lock' = None
  /\ UNCHANGED <<cache, open, generation, state, error, overlapped, environment,
                 saveFailed>>

\* record_hotkey_registration_result: is the generation still current?  Only then the result is
\* recorded, if it still is, and shown.
RetryLook ==
  /\ Go(Retry, "look", "record")
  /\ lock = None /\ generation = job[Retry].gen
  /\ UNCHANGED <<cache, shortcuts, open, supervisor, job, overlapped, environment, saveFailed>>

RetryRecord ==
  /\ Go(Retry, "record", "error") /\ lock = None
  /\ record_registration(job[Retry].gen, job[Retry].ok)
  /\ UNCHANGED <<cache, shortcuts, open, generation, error, lock, job, overlapped,
                 environment, saveFailed>>

RetryShowError ==
  /\ pc[Retry] = "error" /\ Finish(Retry, "ready")
  /\ error' = ~job[Retry].ok
  /\ UNCHANGED <<cache, shortcuts, open, generation, state, lock, overlapped,
                 environment, saveFailed>>

(***************************************************************************)
(* Onboarding's gate: set_shortcut_gate, sync_global_shortcuts_with_gate.  *)
(***************************************************************************)
SetGate(g) ==
  /\ g \in Gates /\ Go(g, "ready", "look")
  /\ open' = ~open
  /\ UNCHANGED <<cache, shortcuts, supervisor, job, overlapped, environment, saveFailed>>

MaySync_Always == TRUE
MaySync == state = "installed"

SyncLook(g) ==
  /\ g \in Gates /\ pc[g] = "look" /\ lock = None
  /\ IF MaySync
     THEN /\ pc' = [pc EXCEPT ![g] = "clear"]
          /\ job' = [job EXCEPT ![g].gen = generation, ![g].target = roleCache]
     ELSE Finish(g, "done")
  /\ UNCHANGED <<cache, shortcuts, open, supervisor, overlapped, environment, saveFailed>>

SyncClear(g) ==
  /\ g \in Gates /\ Go(g, "clear", "enter")
  /\ LockIfCurrent(g, job[g].gen) /\ Unregister
  /\ UNCHANGED <<cache, roleCache, open, generation, state, error, job, overlapped,
                 environment, saveFailed>>

\* A failure is only logged, here and of each shortcut: the supervisor does not hear of it.
SyncClearFails(g) ==
  /\ g \in Gates /\ pc[g] = "clear" /\ Finish(g, "done")
  /\ lock = None /\ generation = job[g].gen
  /\ UnregisterFails /\ missed' = TRUE
  /\ UNCHANGED <<cache, roleCache, open, supervisor, overlapped, saveFailed>>

SyncRefused(g) ==
  /\ g \in Gates /\ pc[g] = "clear"
  /\ lock = None /\ generation # job[g].gen
  /\ Finish(g, "done")
  /\ UNCHANGED <<cache, shortcuts, open, supervisor, overlapped, environment, saveFailed>>

SyncEnter(g) ==
  /\ g \in Gates /\ pc[g] = "enter" /\ Finish(g, "done")
  /\ live' = [keys |-> IF Free(job[g].target) THEN job[g].target ELSE None, open |-> open]
  /\ missed' = ~Free(job[g].target)
  /\ lock' = None
  /\ UNCHANGED <<cache, roleCache, open, generation, state, error, overlapped,
                 environment, saveFailed>>

\* The user takes the Accessibility permission away, or grants it.
Permission ==
  /\ \/ able /\ faults < MaxFaults /\ faults' = faults + 1
     \/ ~able /\ UNCHANGED faults
  /\ able' = ~able
  /\ UNCHANGED <<cache, shortcuts, open, supervisor, calls, saveFailed>>

CallStep(p) ==
  \/ Clear(p) \/ ClearFails(p) \/ Enter(p) \/ Record(p) \/ ShowError(p)
  \/ WakeForSettings(p) \/ Persist(p) \/ PersistFails(p)
  \/ Pause(p) \/ PauseFails(p) \/ begin_registration_attempt(p)

RetryStep ==
  \/ begin_retry_registration_attempt \/ RetryLoad \/ RetryClear \/ RetryClearFails
  \/ Superseded
  \/ RetryEnter \/ RetryLook \/ RetryRecord \/ RetryShowError

GateStep(g) ==
  \/ SyncLook(g) \/ SyncClear(g) \/ SyncClearFails(g) \/ SyncRefused(g)
  \/ SyncEnter(g)

Next ==
  \/ \E s \in Saves : UpdateConfig(s) \/ UpdateHotkey(s)
  \/ \E c \in Captures : Disable(c) \/ Resume(c)
  \/ \E p \in Calls : CallStep(p)
  \/ RetryStep \/ Permission
  \/ \E g \in Gates : SetGate(g) \/ GateStep(g)

\* Every call and the loop go on; nobody ends a recording for the user.
Fairness ==
  /\ \A p \in Calls : WF_vars(CallStep(p))
  /\ WF_vars(RetryStep)
  /\ \A g \in Gates : WF_vars(GateStep(g))

Spec == Init /\ [][Next]_vars
FairSpec == Spec /\ Fairness

(***************************************************************************)
(* Properties.                                                             *)
(***************************************************************************)

\* While no call has overlapped another, and each could be written, the system has the shortcuts
\* that are saved whenever the supervisor believes it has: neither a rollback nor a retry of
\* older ones that was under way leaves others, nor the gate unless it could not put one in.
RegisteredAsSaved ==
  Quiet /\ state = "installed" /\ ~overlapped /\ ~saveFailed => live.keys = cache \/ missed

\* While a shortcut is recorded nothing is registered: a retry or the gate that was about to
\* register when it began would take the keys, and the recording's own listener, away.
PauseHolds ==
  ~overlapped /\ (\E c \in Captures : pc[c] = "capturing") => live = Nothing

\* A registration that fails is tried again until it works: once the permission stays and nobody
\* holds what is saved, the supervisor is not left failed, nor waiting for an attempt that ended.
Recovers ==
  <>[](able /\ Free(cache)) => []<>(state \in {"installed", "disabled"})

\* sync_global_shortcuts_with_gate: "Skipped while shortcuts are paused (recording a shortcut)
\* or not installed: the next registration applies the gate anyway."
GateIsApplied ==
  Quiet /\ state = "installed" /\ live.keys # None => live.open = open

\* sync_global_shortcuts_with_gate: "Registers the global shortcuts again so only the roles the
\* gate allows are registered", and those are: the gate, too, leaves what is saved registered.
GateRegistersAll ==
  Quiet /\ state = "installed" /\ ~overlapped /\ ~saveFailed => live.keys = cache

\* The supervisor's loop, of an attempt it lost: "A settings change or a shortcut recording took
\* over; it reports for itself."
ErrorIsCurrent ==
  Quiet /\ state = "installed" /\ ~overlapped => ~error

=============================================================================
