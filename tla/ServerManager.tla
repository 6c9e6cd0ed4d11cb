---------------------------- MODULE ServerManager ----------------------------
(***************************************************************************)
(* ServerManager of src-tauri/src/llm/builtin.rs: the llama-server program *)
(* that OraType starts on demand, stops, and finds again after a crash by  *)
(* the process id in a file.  There are two of them, for AI polish and for *)
(* speech; they share nothing.                                             *)
(*                                                                         *)
(* ensure_with() calls come one at a time, behind a gate.  stop() takes no *)
(* gate and may come in anywhere.  A server is named by the call that      *)
(* spawned it.                                                             *)
(***************************************************************************)
EXTENDS Integers

CONSTANTS
    Calls,       \* calls of ensure_with()
    Model,       \* the model and projector file each of them asks for
    Droppable,   \* calls whose future a cancelled Ask or dictation may drop
    Stops,       \* calls of stop() by commands
    Quits,       \* calls of stop() by the exit handler; the app exits after
    MaxCrashes,  \* how often the app may crash
    None

ASSUME ManagerAssumption ==
    /\ Droppable \subseteq Calls
    /\ Quits \subseteq Stops
    /\ Calls \cap Stops = {}
    /\ None \notin Calls
    /\ MaxCrashes \in Nat

VARIABLES
    app,         \* "down", "launch" in set_paths(), "up", or "quit" after a quit
    gate,        \* the ensure_with() call that holds it, or None
    running,     \* the server stored in it, or None
    generation,
    pid_file,    \* the server it names, or None

    stale,       \* the server that a launch read from the pid file, or None
    taken,       \* what each stop() took out of running and has to kill, or None
    alive,       \* the llama-server processes there are
    pc,          \* where each call is
    seen,        \* the generation each ensure_with() read
    crashes,

    met,         \* history: starts under way when a stop() came
    lost         \* history: servers the manager may have lost sight of

shared  == <<app, gate, running, generation>>
local   == <<stale, taken, seen>>
history == <<met, lost>>
vars    == <<shared, pid_file, alive, pc, local, crashes, history>>

Processes == Calls \cup Stops

Init ==
    /\ app = "down"
    /\ gate = None
    /\ running = None
    /\ generation = 0
    /\ pid_file = None
    /\ stale = None
    /\ taken = [p \in Processes |-> None]
    /\ alive = {}
    /\ pc = [p \in Processes |-> "ready"]
    /\ seen = [c \in Calls |-> 0]
    /\ crashes = 0
    /\ met = {}
    /\ lost = {}

Go(p, l)   == pc' = [pc EXCEPT ![p] = l]
At(p, l)   == app = "up" /\ pc[p] = l
Return(c)  == Go(c, "done") /\ gate' = None

-----------------------------------------------------------------------------
(* ensure_with().                                                          *)

\* The mutant does not wait its turn.
GateFree_Ignored == TRUE
GateFree         == gate = None

Enter(c) ==
    /\ At(c, "ready")
    /\ GateFree
    /\ gate' = c
    /\ Go(c, "inspect")
    /\ UNCHANGED <<app, running, generation, pid_file, alive, local, crashes,
                   history>>

\* The model or its projector is not downloaded.
ModelMissing(c) ==
    /\ At(c, "inspect")
    /\ Return(c)
    /\ UNCHANGED <<app, running, generation, pid_file, alive, local, crashes,
                   history>>

Serves(c) == running \in alive /\ Model[running] = Model[c]

Reuse(c) ==
    /\ At(c, "inspect")
    /\ Serves(c)
    /\ Return(c)
    /\ UNCHANGED <<app, running, generation, pid_file, alive, local, crashes,
                   history>>

\* No server, a dead one, or another model's: the call runs stop() itself.
Replace(c) ==
    /\ At(c, "inspect")
    /\ ~Serves(c)
    /\ Go(c, "bump")
    /\ UNCHANGED <<shared, pid_file, alive, local, crashes, history>>

LoadGeneration(c) ==
    /\ At(c, "load")
    /\ seen' = [seen EXCEPT ![c] = generation]
    /\ Go(c, "spawn")
    /\ UNCHANGED <<shared, pid_file, alive, stale, taken, crashes, history>>

\* No server program, no free port, or it does not start.
SpawnFails(c) ==
    /\ At(c, "spawn")
    /\ Return(c)
    /\ UNCHANGED <<app, running, generation, pid_file, alive, local, crashes,
                   history>>

\* A stop() that has taken a server out and not yet removed the pid file will
\* remove this server's, and this one's pid overwrites that of the other.
HalfWay == {p \in Stops : pc[p] \in {"kill", "unfile"}}

Spawn(c) ==
    /\ At(c, "spawn")
    /\ alive' = alive \cup {c}
    /\ lost' = IF HalfWay = {} THEN lost
               ELSE lost \cup {c} \cup ({taken[p] : p \in HalfWay} \ {None})
    /\ Go(c, "file")
    /\ UNCHANGED <<shared, pid_file, local, crashes, met>>

WritePid(c) ==
    /\ At(c, "file")
    /\ pid_file' = c
    /\ Go(c, "starting")
    /\ UNCHANGED <<shared, alive, local, crashes, history>>

Healthy(c) ==
    /\ At(c, "starting")
    /\ c \in alive
    /\ Go(c, "check")
    /\ UNCHANGED <<shared, pid_file, alive, local, crashes, history>>

Exited(c) ==
    /\ At(c, "starting")
    /\ c \notin alive
    /\ pid_file' = None
    /\ Return(c)
    /\ UNCHANGED <<app, running, generation, alive, local, crashes, history>>

\* 240 seconds without an answer.  The mutant never gives up.
TimedOut_Never(c) == FALSE

TimedOut(c) ==
    /\ At(c, "starting")
    /\ c \in alive
    /\ alive' = alive \ {c}
    /\ pid_file' = None
    /\ Return(c)
    /\ UNCHANGED <<app, running, generation, local, crashes, history>>

\* A stop() came since the generation was read.  The mutant does not compare.
StoppedMeanwhile_No(c) == FALSE
StoppedMeanwhile(c)    == generation # seen[c]

Discard(c) ==
    /\ At(c, "check")
    /\ StoppedMeanwhile(c)
    /\ alive' = alive \ {c}
    /\ pid_file' = None
    /\ Return(c)
    /\ UNCHANGED <<app, running, generation, local, crashes, history>>

Checked(c) ==
    /\ At(c, "check")
    /\ ~StoppedMeanwhile(c)
    /\ Go(c, "store")
    /\ UNCHANGED <<shared, pid_file, alive, local, crashes, history>>

Store(c) ==
    /\ At(c, "store")
    /\ running' = c
    /\ Return(c)
    /\ UNCHANGED <<app, generation, pid_file, alive, local, crashes, history>>

\* The future is dropped while it awaits /health: the gate opens, and dropping
\* the child does not stop its process.
Dropped(c) ==
    /\ c \in Droppable
    /\ At(c, "starting")
    /\ lost' = lost \cup {c}
    /\ Return(c)
    /\ UNCHANGED <<app, running, generation, pid_file, alive, local, crashes,
                   met>>

-----------------------------------------------------------------------------
(* stop(), called by a command, at exit, or by an ensure_with().           *)

NextGeneration == generation + 1

Bump(p) ==
    /\ At(p, IF p \in Calls THEN "bump" ELSE "ready")
    /\ generation' = NextGeneration
    /\ met' = met \cup {c \in Calls \ {p} : pc[c] \in {"spawn", "file", "starting"}}
    /\ Go(p, "take")
    /\ UNCHANGED <<app, gate, running, pid_file, alive, local, crashes, lost>>

AfterStop(p) == IF p \in Calls THEN "load" ELSE "done"

\* What is taken out is killed.  The mutant only forgets it.
Kill_Forgets(s) == alive
Kill(s)         == alive \ {s}

Take(p) ==
    /\ At(p, "take")
    /\ running' = None
    /\ taken' = [taken EXCEPT ![p] = running]
    /\ Go(p, IF running = None THEN AfterStop(p) ELSE "kill")
    /\ UNCHANGED <<app, gate, generation, pid_file, alive, stale, seen, crashes,
                   history>>

KillTaken(p) ==
    /\ At(p, "kill")
    /\ alive' = Kill(taken[p])
    /\ taken' = [taken EXCEPT ![p] = None]
    /\ Go(p, "unfile")
    /\ UNCHANGED <<shared, pid_file, stale, seen, crashes, history>>

Unfile(p) ==
    /\ At(p, "unfile")
    /\ pid_file' = None
    /\ Go(p, AfterStop(p))
    /\ UNCHANGED <<shared, alive, local, crashes, history>>

-----------------------------------------------------------------------------
(* The server program and the app.                                         *)

ServerDies(c) ==
    /\ c \in alive
    /\ alive' = alive \ {c}
    /\ UNCHANGED <<shared, pid_file, pc, local, crashes, history>>

\* The app's process ends.  Calls in flight end with it, servers do not; the
\* launch that was about to stop a server has removed its pid file.
AppEnds(how) ==
    /\ app \in {"launch", "up"}
    /\ app' = how
    /\ gate' = None
    /\ running' = None
    /\ generation' = 0
    /\ stale' = None
    /\ taken' = [p \in Processes |-> None]
    /\ pc' = [p \in Processes |-> IF pc[p] = "ready" THEN "ready" ELSE "done"]
    /\ lost' = lost \cup {c \in Calls : pc[c] = "file"} \cup ({stale} \ {None})
    /\ UNCHANGED <<pid_file, alive, seen, met>>

Crash ==
    /\ crashes < MaxCrashes
    /\ crashes' = crashes + 1
    /\ AppEnds("down")

\* The exit handler's stop() has returned.
Quit ==
    /\ app = "up"
    /\ \E p \in Quits : pc[p] = "done"
    /\ AppEnds("quit")
    /\ UNCHANGED crashes

\* set_paths() at launch: stop_stale_server() reads the file and removes it ...
SetPaths ==
    /\ app \in {"down", "quit"}
    /\ app' = "launch"
    /\ stale' = pid_file
    /\ pid_file' = None
    /\ UNCHANGED <<gate, running, generation, alive, pc, taken, seen, crashes, history>>

\* ... then it looks at the process, and stops a server.  The mutant does not.
Stale_NotStopped == {}
Stale            == {stale}

StopStale ==
    /\ app = "launch"
    /\ app' = "up"
    /\ alive' = alive \ Stale
    /\ stale' = None
    /\ UNCHANGED <<gate, running, generation, pid_file, pc, taken, seen, crashes,
                   history>>

\* ps or kill cannot be run: the server stays, and nothing names it any more.
LookFails ==
    /\ app = "launch"
    /\ app' = "up"
    /\ stale' = None
    /\ lost' = lost \cup ({stale} \ {None})
    /\ UNCHANGED <<gate, running, generation, pid_file, alive, pc, taken, seen, crashes,
                   met>>

-----------------------------------------------------------------------------

\* What the call does of itself; Healthy needs the server, Dropped the caller.
OwnStep(c) ==
    \/ ModelMissing(c) \/ Reuse(c) \/ Replace(c)
    \/ LoadGeneration(c) \/ SpawnFails(c) \/ Spawn(c) \/ WritePid(c)
    \/ Exited(c) \/ TimedOut(c) \/ Discard(c) \/ Checked(c) \/ Store(c)

EnsureStep(c) == OwnStep(c) \/ Healthy(c) \/ Dropped(c)

StopStep(p) == Bump(p) \/ Take(p) \/ KillTaken(p) \/ Unfile(p)

AllDone == (\A p \in Processes : pc[p] = "done") /\ UNCHANGED vars

Next ==
    \/ \E c \in Calls : Enter(c) \/ EnsureStep(c) \/ ServerDies(c)
    \/ \E p \in Processes : StopStep(p)
    \/ Crash \/ Quit \/ SetPaths \/ StopStale \/ LookFails
    \/ AllDone

\* A call that has the gate goes on: every step of it is short but for the wait
\* for /health, which ends after STARTUP_TIMEOUT at the latest; a server may hang
\* and never answer.  The gate is a first come, first served mutex.
Fairness ==
    \A c \in Calls : /\ WF_vars(OwnStep(c) \/ (pc[c] # "ready" /\ StopStep(c)))
                     /\ SF_vars(Enter(c))

Spec     == Init /\ [][Next]_vars
FairSpec == Spec /\ Fairness

-----------------------------------------------------------------------------
(* Properties.                                                             *)

Starting == {"file", "starting", "check", "store"}

\* The shape of every variable.  A start compares the generation it read with
\* one that only grows.
TypeOK ==
    /\ app \in {"down", "launch", "up", "quit"}
    /\ gate \in Calls \cup {None}
    /\ running \in Calls \cup {None}
    /\ generation \in Nat
    /\ pid_file \in Calls \cup {None}
    /\ stale \in Calls \cup {None}
    /\ taken \in [Processes -> Calls \cup {None}]
    /\ alive \in SUBSET Calls
    /\ pc \in [Processes -> {"ready", "inspect", "bump", "take", "kill", "unfile",
                             "load", "spawn", "file", "starting", "check", "store",
                             "done"}]
    /\ seen \in [Calls -> Nat]
    /\ \A c \in Calls :
         pc[c] \in {"spawn"} \cup Starting => seen[c] \in 0 .. generation
    /\ crashes \in 0 .. MaxCrashes
    /\ met \in SUBSET Calls
    /\ lost \in SUBSET Calls

\* "Owns one llama-server process": there are never two, each of which holds a
\* model of some gigabytes, whatever restarts and stop() calls come together.
\* Not counted (lost) are the servers of dropped calls, of starts in the middle of
\* another stop() and what that stop() kills, of starts a crash cut off before the
\* pid was written, and of launches that removed the pid file and then died or
\* could not run ps or kill.
OneServer == \A s, t \in alive \ lost : s = t

\* A stop() has the server in hand and is about to kill it.
InHand(s) == \E p \in Processes : pc[p] = "kill" /\ taken[p] = s

\* "Stops the server if one runs": a server is stored where stop() finds it, or
\* is a local of the start under way or of the stop() that kills it next.
EveryServerIsOwned ==
    app = "up" =>
      \A s \in alive \ lost :
         running = s \/ (gate = s /\ pc[s] \in Starting) \/ InHand(s)

\* "A server left running by a OraType that crashed is stopped here": at every
\* moment the app may die the pid file names the server there is, and in a launch
\* that has removed it the launch itself has yet to look.  The launch's death and
\* its failure at that point are in lost; LeftServerIsStopped is without them.
ServerIsRecoverable ==
    \A s \in alive \ lost :
       \/ pid_file = s
       \/ app = "up" /\ pc[s] = "file"
       \/ app = "launch" /\ stale = s

\* "... so a start that was under way when Built-in AI was switched off does not
\* leave a server behind": a start that a stop() met before the server answered
\* kills it.  (Between its look at the generation and the store into running a
\* stop() goes unnoticed.)
StopReachesStarts ==
    app = "up" => \A c \in met \ lost : pc[c] = "done" => c \notin alive

\* The gate opens again for the next polish or dictation, whatever the server
\* program does.
EveryStartEnds == \A c \in Calls : (gate = c) ~> (gate # c)

(* What the code does not keep.                                            *)

\* "A server left running by a OraType that crashed is stopped here": a server that
\* a pid file has named goes on being named, or is stopped, whatever a launch meets.
LeftServerIsStopped ==
    [][app = "launch" /\ app' # "launch" => stale \notin alive']_vars

\* "It is stopped when OraType quits".
QuitStopsServer == app = "quit" => alive = {}
=============================================================================
