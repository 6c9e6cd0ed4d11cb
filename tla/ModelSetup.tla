------------------------------ MODULE ModelSetup ------------------------------
(***************************************************************************)
(* The setup of a built-in model (commands/model_setup.rs, stt/models.rs,  *)
(* commands/speech_setup.rs, commands/ai_setup.rs): one set-up at a time   *)
(* downloads a model's files, resuming what an earlier one left, checks    *)
(* and names them, tests the model and selects it in the config.  Beside   *)
(* it the user cancels, deletes models and picks another engine, and the   *)
(* app may end at any time.                                                *)
(*                                                                         *)
(* It is the speech setup; the AI's is the same with models of one file.   *)
(***************************************************************************)
EXTENDS Integers

CONSTANTS
  Setups,           \* calls of start_speech_setup(), numbered in the order they begin
  Deletes,          \* calls of delete_speech_model()
  Models,
  TwoFiles,         \* models of a file and a projector
  None,
  FullSize,         \* pieces a file arrives in
  MaxCrashes        \* bound: times the app ends

ASSUME SetupAssumption ==
  /\ Setups \subseteq Nat /\ Setups \cap Deletes = {}
  /\ None \notin Setups \cup Models
  /\ TwoFiles \subseteq Models
  /\ FullSize \in Nat \ {0} /\ MaxCrashes \in Nat

Calls == Setups \cup Deletes
LastFile(m) == IF m \in TwoFiles THEN 2 ELSE 1
Files == {f \in Models \X {1, 2} : f[2] <= LastFile(f[1])}

\* A file on the disk: its size, and whether every piece is what the checksum wants.
Content == [size : Nat, good : BOOLEAN]
Empty == [size |-> 0, good |-> TRUE]
NoFile == [size |-> 0, good |-> FALSE]
Longer == [size |-> FullSize + 1, good |-> FALSE]  \* of another version of the model

VARIABLES
  status,     \* the SetupStatus: its model and phase
  cancel,     \* the set-up that holds the receiver of the cancel switch
  asked,      \* set-ups whose switch was thrown
  part, file, \* on the disk: the .part files and the finished ones
  config,     \* the Built-in preset's model, the active engine
  pc, job, at,  \* a call's next step, its model, its file
  transfer,   \* pieces a set-up believes its part has; the file its handle writes ("part",
              \* "file", one that is "gone", or no handle), and whether it appends to it
  kept,       \* the config a call loaded
  passed,     \* the test passed
  seen,       \* a delete found its model set up and ready
  overlapped, \* a delete met another one or, after its look, the begin of a set-up that it may
              \* disturb: one of its model, or any if it will reset the status
  crashes

disk  == <<part, file>>
setup == <<status, cancel, asked>>
call  == <<pc, job, at>>
local == <<transfer, kept, passed, seen>>
vars  == <<setup, disk, config, call, local, overlapped, crashes>>

Whole(f) == file[f].size = FullSize
Installed(m) == \A i \in 1..LastFile(m) : Whole(<<m, i>>)
FileOf(c) == <<job[c], at[c]>>
Under(c) == pc[c] \notin {"new", "over", "failed"}

Transfer(have, on, append) == [have |-> have, on |-> on, append |-> append]
NoTransfer == Transfer(0, "none", FALSE)

Init ==
  /\ status = [model |-> None, phase |-> "idle"] /\ cancel = None /\ asked = {}
  /\ \E left \in {NoFile, Longer} : part = [f \in Files |-> left]
  /\ file = [f \in Files |-> NoFile]
  /\ config \in [model : {None}, active : {"builtin", "other"}]
  /\ pc = [c \in Calls |-> "new"]
  /\ job = [c \in Calls |-> None] /\ at = [c \in Calls |-> 1]
  /\ transfer = [s \in Setups |-> NoTransfer]
  /\ kept = [c \in Calls |-> None]
  /\ passed = [s \in Setups |-> FALSE] /\ seen = [d \in Deletes |-> FALSE]
  /\ overlapped = FALSE /\ crashes = 0

Go(c, from, to) ==
  /\ pc[c] = from
  /\ pc' = [pc EXCEPT ![c] = to]
  /\ UNCHANGED <<job, at>>

\* A call that returns is of no interest any more.
Return(c) ==
  /\ pc' = [pc EXCEPT ![c] = "over"]
  /\ job' = [job EXCEPT ![c] = None] /\ at' = [at EXCEPT ![c] = 1]
  /\ kept' = [kept EXCEPT ![c] = None]

(***************************************************************************)
(* The status and its cancel switch.                                       *)
(***************************************************************************)
Running(st) == st.phase \in {"downloading", "verifying", "testing"}

\* update(): a status that is not running lets the switch go.
Update(st) ==
  /\ status' = st
  /\ cancel' = IF Running(st) THEN cancel ELSE None

Phase(to) == Update([model |-> status.model, phase |-> to])

\* on_progress, when n pieces are there.
Progress(n) == Phase(IF n >= FullSize THEN "verifying" ELSE "downloading")

Cancel ==
  /\ status.phase = "downloading" /\ cancel # None
  /\ asked' = asked \cup {cancel}
  /\ UNCHANGED <<status, cancel, disk, config, call, local, overlapped, crashes>>

(***************************************************************************)
(* A set-up.                                                               *)
(***************************************************************************)
\* A call that finds a set-up running is refused and leaves no trace.
Begin(s, m) ==
  /\ pc[s] = "new" /\ (\A x \in Setups : x < s => pc[x] # "new")
  /\ ~Running(status)
  /\ status' = [model |-> m, phase |-> "downloading"] /\ cancel' = s
  /\ pc' = [pc EXCEPT ![s] = "next"] /\ job' = [job EXCEPT ![s] = m]
  /\ overlapped' = (overlapped \/ \E d \in Deletes : Under(d) /\ (job[d] = m \/ seen[d]))
  /\ UNCHANGED <<asked, at, disk, config, local, crashes>>

\* What a step of the download leaves alone.
apart == <<kept, passed, seen, config, overlapped, crashes>>

Close(s) == transfer' = [transfer EXCEPT ![s] = NoTransfer]

\* The handles on a file that is now "file" or "gone".
Moved(f, from, to) ==
  [x \in Setups |-> IF FileOf(x) = f /\ transfer[x].on \in from
                    THEN Transfer(transfer[x].have, to, transfer[x].append) ELSE transfer[x]]

RemovePart(s) ==
  /\ part' = [part EXCEPT ![FileOf(s)] = NoFile]
  /\ transfer' = [Moved(FileOf(s), {"part"}, "gone") EXCEPT ![s] = NoTransfer]

Fail(s, from) == Go(s, from, "finish") /\ UNCHANGED apart

\* The file is in place: on to the next one, or to the test.
Advance(s, from) ==
  /\ pc[s] = from
  /\ IF at[s] < LastFile(job[s])
     THEN at' = [at EXCEPT ![s] = @ + 1] /\ pc' = [pc EXCEPT ![s] = "next"]
     ELSE pc' = [pc EXCEPT ![s] = "load"] /\ UNCHANGED at
  /\ UNCHANGED <<job, apart>>

SkipInstalled(s) ==
  /\ Advance(s, "next") /\ Whole(FileOf(s))
  /\ UNCHANGED <<setup, disk, transfer>>

\* No llama-server program for a model that needs it, or no space on the disk.
CannotInstall(s) == Fail(s, "next") /\ UNCHANGED <<setup, disk, transfer>>

\* A part that is longer than the model is not resumed.
RemoveLonger(s) ==
  /\ Go(s, "next", "next")
  /\ part[FileOf(s)].size > FullSize
  /\ RemovePart(s)
  /\ UNCHANGED <<setup, file, apart>>

\* The part of an earlier download is resumed, or checked at once when nothing is missing.
LookAtPart(s) ==
  LET existing == part[FileOf(s)].size
  IN  /\ Go(s, "next", IF existing < FullSize THEN "request" ELSE "hash")
      /\ ~Whole(FileOf(s)) /\ existing <= FullSize
      /\ IF existing < FullSize
         THEN transfer' = [transfer EXCEPT ![s] = Transfer(existing, "none", FALSE)]
              /\ UNCHANGED <<status, cancel>>
         ELSE Progress(existing) /\ UNCHANGED transfer
      /\ UNCHANGED <<asked, disk, apart>>

\* The server answers 206 with the rest of the file, or 200 with all of it.
Resume(s) ==
  /\ Go(s, "request", "receive")
  /\ transfer[s].have > 0 /\ part[FileOf(s)] # NoFile
  /\ transfer' = [transfer EXCEPT ![s] = Transfer(@.have, "part", TRUE)]
  /\ UNCHANGED <<setup, disk, apart>>

StartOver(s) ==
  /\ Go(s, "request", "receive")
  /\ transfer' = [transfer EXCEPT ![s] = Transfer(0, "part", FALSE)]
  /\ part' = [part EXCEPT ![FileOf(s)] = Empty]
  /\ UNCHANGED <<setup, file, apart>>

RequestFails(s) == Fail(s, "request") /\ Close(s) /\ UNCHANGED <<setup, disk>>

\* The cancel branch of the two selects.  The mutant has it in the transfer alone.
CancelSeen_Receiving(s) ==
  /\ s \in asked
  /\ Fail(s, "receive") /\ Close(s)
  /\ UNCHANGED <<setup, disk>>
CancelSeen(s) ==
  /\ s \in asked
  /\ Fail(s, "request") \/ Fail(s, "receive")
  /\ Close(s)
  /\ UNCHANGED <<setup, disk>>

\* What a set-up's next piece makes of a file: it is right if it lands where it belongs.
Written(s, content, right) ==
  LET have  == transfer[s].have
      place == IF transfer[s].append THEN content.size ELSE have
  IN  [size |-> IF place < content.size THEN content.size ELSE place + 1,
       good |-> content.good /\ right /\ place = have /\ place <= content.size]

\* A piece arrives; the progress is reported now and then.
Receive(s, right) ==
  LET f == FileOf(s)
      to(on, files) ==
        IF transfer[s].on = on THEN [files EXCEPT ![f] = Written(s, @, right)] ELSE files
  IN  /\ Go(s, "receive", "receive")
      /\ transfer[s].have < FullSize
      /\ part' = to("part", part) /\ file' = to("file", file)
      /\ transfer' = [transfer EXCEPT ![s] = Transfer(@.have + 1, @.on, @.append)]
      /\ Progress(transfer'[s].have) \/ UNCHANGED <<status, cancel>>
      /\ UNCHANGED <<asked, apart>>

\* The stream breaks or stalls: what came stays.
Break(s) == Fail(s, "receive") /\ Close(s) /\ UNCHANGED <<setup, disk>>

StreamEnds(s) ==
  /\ Go(s, "receive", IF transfer[s].have < FullSize THEN "finish" ELSE "hash")
  /\ Progress(transfer[s].have)
  /\ Close(s)
  /\ UNCHANGED <<asked, disk, apart>>

TooLong(s) ==
  /\ Fail(s, "receive")
  /\ transfer[s].have = FullSize
  /\ RemovePart(s)
  /\ UNCHANGED <<setup, file>>

\* The mutant looks at the size only.
Matches_Size(content) == content.size = FullSize
Matches(content) == content = [size |-> FullSize, good |-> TRUE]

HashFits(s) ==
  /\ Go(s, "hash", "rename") /\ Matches(part[FileOf(s)])
  /\ UNCHANGED <<setup, disk, transfer, apart>>

HashFails(s) ==
  /\ Fail(s, "hash") /\ ~Matches(part[FileOf(s)])
  /\ RemovePart(s)
  /\ UNCHANGED <<setup, file>>

Rename(s) ==
  LET f == FileOf(s)
  IN  /\ Advance(s, "rename")
      /\ part[f] # NoFile
      /\ file' = [file EXCEPT ![f] = part[f]] /\ part' = [part EXCEPT ![f] = NoFile]
      /\ transfer' = [x \in Setups |->
                        IF transfer[x].on = "file" THEN Moved(f, {"file"}, "gone")[x]
                        ELSE Moved(f, {"part"}, "file")[x]]
      /\ UNCHANGED setup

RenameFails(s) == Fail(s, "rename") /\ UNCHANGED <<setup, disk, transfer>>

\* All files are in place: the test runs on a copy of the config with the preset
\* pointed at the model.
LoadConfig(s) ==
  /\ Go(s, "load", "test")
  /\ Phase("testing")
  /\ kept' = [kept EXCEPT ![s] = [config EXCEPT !.model = job[s]]]
  /\ UNCHANGED <<asked, disk, config, transfer, passed, seen, overlapped, crashes>>

Test(s) ==
  /\ Go(s, "test", "save")
  /\ \E ok \in BOOLEAN :
       /\ ok => Installed(job[s])
       /\ passed' = [passed EXCEPT ![s] = ok]
  /\ UNCHANGED <<setup, disk, config, transfer, kept, seen, overlapped, crashes>>

SaveSetup(s) ==
  /\ Go(s, "save", "finish")
  /\ config' = IF passed[s] THEN [kept[s] EXCEPT !.active = "builtin"] ELSE kept[s]
  /\ UNCHANGED <<setup, disk, local, overlapped, crashes>>

Finish(s) ==
  /\ pc[s] = "finish" /\ Return(s)
  /\ Phase(IF passed[s] THEN "ready" ELSE "error")
  /\ passed' = [passed EXCEPT ![s] = FALSE] /\ asked' = asked \ {s}
  /\ UNCHANGED <<disk, config, transfer, seen, overlapped, crashes>>

(***************************************************************************)
(* Deleting a model.                                                       *)
(***************************************************************************)
BeingSetUp_Testing(m) == status.phase \in {"downloading", "verifying"} /\ status.model = m
BeingSetUp(m) == Running(status) /\ status.model = m

Look(d, m) ==
  /\ pc[d] = "new" /\ ~BeingSetUp(m)
  /\ pc' = [pc EXCEPT ![d] = "delete"] /\ job' = [job EXCEPT ![d] = m]
  /\ seen' = [seen EXCEPT ![d] = status.model = m /\ status.phase = "ready"]
  /\ overlapped' = (overlapped \/ \E e \in Deletes : Under(e))
  /\ UNCHANGED <<at, setup, disk, config, transfer, kept, passed, crashes>>

DeleteFile(d) ==
  LET f == FileOf(d)
  IN  /\ pc[d] = "delete"
      /\ file' = [file EXCEPT ![f] = NoFile] /\ part' = [part EXCEPT ![f] = NoFile]
      /\ transfer' = Moved(f, {"part", "file"}, "gone")
      /\ IF at[d] < LastFile(job[d])
         THEN at' = [at EXCEPT ![d] = @ + 1] /\ UNCHANGED pc
         ELSE pc' = [pc EXCEPT ![d] = "reconcile"] /\ UNCHANGED at
      /\ UNCHANGED <<job, setup, apart>>

\* A file cannot be removed: the call returns an error and leaves the config alone.
DeleteFails(d) ==
  /\ Go(d, "delete", "failed")
  /\ UNCHANGED <<setup, disk, config, local, overlapped, crashes>>

\* reconcile_builtin_models(): a preset without its model moves to one that is installed.
Reconciled(c) ==
  IF c.model # None /\ Installed(c.model) THEN {c}
  ELSE LET there == {m \in Models : Installed(m)}
       IN  {[c EXCEPT !.model = m] : m \in IF there = {} THEN {None} ELSE there}

Reconcile(d) ==
  /\ kept' \in {[kept EXCEPT ![d] = c] : c \in Reconciled(config)}
  /\ IF kept'[d] = config THEN Go(d, "reconcile", "clear") ELSE Go(d, "reconcile", "save")
  /\ UNCHANGED <<setup, disk, config, transfer, passed, seen, overlapped, crashes>>

SaveDelete(d) ==
  /\ Go(d, "save", "clear")
  /\ config' = kept[d]
  /\ UNCHANGED <<setup, disk, local, overlapped, crashes>>

\* The card of the deleted model goes back to Idle, as the status was at the look.
Clear(d) ==
  /\ pc[d] = "clear" /\ Return(d)
  /\ IF seen[d] THEN Update([model |-> None, phase |-> "idle"]) ELSE UNCHANGED <<status, cancel>>
  /\ seen' = [seen EXCEPT ![d] = FALSE]
  /\ UNCHANGED <<asked, disk, config, transfer, passed, overlapped, crashes>>

(***************************************************************************)
(* The user and the app.                                                   *)
(***************************************************************************)
PickEngine ==
  /\ config' \in {[config EXCEPT !.active = e] : e \in {"builtin", "other"}}
  /\ UNCHANGED <<setup, disk, call, local, overlapped, crashes>>

\* The app ends and is started again: init() reconciles the config with the disk.
Restart ==
  /\ crashes < MaxCrashes /\ crashes' = crashes + 1
  /\ status' = [model |-> None, phase |-> "idle"] /\ cancel' = None /\ asked' = {}
  /\ pc' = [c \in Calls |-> IF pc[c] = "new" THEN "new" ELSE "over"]
  /\ transfer' = [s \in Setups |-> NoTransfer]
  /\ config' \in Reconciled(config)
  /\ kept' = [c \in Calls |-> None]
  /\ passed' = [s \in Setups |-> FALSE] /\ seen' = [d \in Deletes |-> FALSE]
  /\ job' = [c \in Calls |-> None] /\ at' = [c \in Calls |-> 1]
  /\ UNCHANGED <<part, file, overlapped>>

-----------------------------------------------------------------------------
\* A request may wait for its answer for ever: only the connection has a timeout.
Answer(s) == Resume(s) \/ StartOver(s) \/ RequestFails(s)

GoOn(s) ==
  \/ SkipInstalled(s) \/ CannotInstall(s) \/ RemoveLonger(s) \/ LookAtPart(s) \/ CancelSeen(s)
  \/ (\E right \in BOOLEAN : Receive(s, right)) \/ Break(s) \/ StreamEnds(s) \/ TooLong(s)
  \/ HashFits(s) \/ HashFails(s) \/ Rename(s) \/ RenameFails(s)
  \/ LoadConfig(s) \/ Test(s) \/ SaveSetup(s) \/ Finish(s)

Delete(d) ==
  \/ (\E m \in Models : Look(d, m))
  \/ DeleteFile(d) \/ DeleteFails(d) \/ Reconcile(d) \/ SaveDelete(d) \/ Clear(d)

Next ==
  \/ \E s \in Setups : (\E m \in Models : Begin(s, m)) \/ Answer(s) \/ GoOn(s)
  \/ \E d \in Deletes : Delete(d)
  \/ Cancel \/ PickEngine \/ Restart

Spec == Init /\ [][Next]_vars
Fairness == \A s \in Setups : WF_vars(GoOn(s))
FairSpec == Spec /\ Fairness

(***************************************************************************)
(* Properties.                                                             *)
(***************************************************************************)
\* A file under a model's name is the whole model: whatever was resumed, sent wrong, cut by a
\* crash or deleted, no other content of the full size gets the name.  Left out is
\* what happens after a set-up began between a delete's look at the status and its end.
InstalledIsVerified ==
  overlapped \/ \A f \in Files : Whole(f) => file[f].good

\* While nothing is under way the Built-in preset names a model that is there: a set-up saves a
\* config that it loaded before its test, and a model deleted meanwhile must not come back.
\* Left out are deletes that met, and those that could not remove a file.
PresetHasItsModel ==
  \/ overlapped \/ \E c \in Calls : pc[c] = "failed" \/ Under(c)
  \/ config.model = None \/ Installed(config.model)

\* A set-up that the user cancelled ends, in a request that is never answered too, and when
\* the switch is thrown after the last piece of a file.
CancelEnds == asked # {} ~> asked = {}

\* model_setup.rs: "Starts a setup for `model` unless one is running".  The end of a delete
\* that found the model ready resets the status of a set-up begun since.
OneSetup == \A s, x \in Setups : Under(s) /\ Under(x) => s = x

\* model_setup.rs: "A stalled transfer is caught by the download's own stall timeout instead".
\* The wait for the answer of the server is not.
SetupsEnd == \A s \in Setups : Under(s) ~> ~Under(s)

\* speech_setup.rs: "select it only when the test passes".  The engine a failed set-up goes
\* back to is the one of before the test, although the user picked another one since.
FailedSetupKeepsEngine ==
  [][\A s \in Setups : SaveSetup(s) /\ ~passed[s] => config'.active = config.active]_vars
=============================================================================
