--------------------------- MODULE ModelSetupProofs ---------------------------
(***************************************************************************)
(* For any number of set-ups, deletes, models and restarts:                *)
(*   - a finished model file is a verified one.  Only one set-up at a time *)
(*     writes, since the status of one that is under way is running and    *)
(*     begin() looks at it; what it renames it has checked, and nobody has *)
(*     written to it since;                                                *)
(*   - the Built-in preset names a model that is there.  While a set-up    *)
(*     works no delete does; what it found or wrote is still there when it *)
(*     saves the config it loaded; and a delete that has removed the model *)
(*     of the preset is not over until it has saved another one.           *)
(***************************************************************************)
EXTENDS ModelSetup, TLAPS

Shapes ==
  /\ pc = [c \in Calls |-> pc[c]] /\ job = [c \in Calls |-> job[c]] /\ at = [c \in Calls |-> at[c]]
  /\ part = [f \in Files |-> part[f]] /\ file = [f \in Files |-> file[f]]
  /\ transfer = [s \in Setups |-> transfer[s]]
  /\ seen \in [Deletes -> BOOLEAN]

\* A set-up under way is the only one, the status shows it, and no delete will reset that.
Alone ==
  \A s \in Setups : Under(s) =>
    /\ Running(status)
    /\ \A x \in Setups : Under(x) => x = s
    /\ \A d \in Deletes : Under(d) => ~seen[d]

\* Nobody writes to a finished file, and to a part only the transfer.
Handles ==
  \A s \in Setups :
    /\ transfer[s].on # "file"
    /\ transfer[s].on = "part" => pc[s] = "receive"

\* A part about to get the model's name is checked, or was deleted.
CheckedParts ==
  \A s \in Setups, f \in Files :
    pc[s] = "rename" /\ f = FileOf(s) => part[f] = NoFile \/ Matches(part[f])

Verified == \A f \in Files : Whole(f) => file[f].good

SetupInv ==
  /\ Shapes
  /\ overlapped \/ (Alone /\ Handles /\ CheckedParts /\ Verified)

LEMMA InitInv ==
  ASSUME SetupAssumption, Init
  PROVE  SetupInv
<1>1. Shapes
  <2>1. PICK left \in {NoFile, Longer} : part = [f \in Files |-> left]
    BY DEF Init
  <2>2. /\ pc = [c \in Calls |-> pc[c]] /\ job = [c \in Calls |-> job[c]]
        /\ at = [c \in Calls |-> at[c]] /\ file = [f \in Files |-> file[f]]
        /\ transfer = [s \in Setups |-> transfer[s]] /\ seen \in [Deletes -> BOOLEAN]
    BY DEF Init
  <2> QED BY <2>1, <2>2 DEF Shapes
<1>2. Verified
  BY DEF Init, SetupAssumption, Verified, Whole, NoFile
<1> QED BY <1>1, <1>2 DEF Init, SetupInv, Alone, Handles, CheckedParts, Under, Calls, NoTransfer,
  Transfer

LEMMA ShapesStep ==
  ASSUME SetupAssumption, Shapes, [Next]_vars
  PROVE  Shapes'
<1> USE DEF Shapes
<1>1. ASSUME NEW s \in Setups, NEW m \in Models, Begin(s, m) PROVE Shapes'
  BY <1>1 DEF Begin, disk, local
<1>2. ASSUME NEW s \in Setups, Answer(s) PROVE Shapes'
  BY <1>2 DEF Answer, Resume, StartOver, RequestFails, Fail, Close, Go, disk, apart
<1>3. ASSUME NEW s \in Setups, GoOn(s) PROVE Shapes'
  <2> USE DEF Go, Fail, Advance, Close, Moved, RemovePart, Return, disk, apart, local
  <2>1. CASE SkipInstalled(s)            BY <2>1 DEF SkipInstalled
  <2>2. CASE CannotInstall(s)            BY <2>2 DEF CannotInstall
  <2>3. CASE RemoveLonger(s)             BY <2>3 DEF RemoveLonger
  <2>4. CASE LookAtPart(s)               BY <2>4 DEF LookAtPart
  <2>5. CASE CancelSeen(s)               BY <2>5 DEF CancelSeen
  <2>6. ASSUME NEW right \in BOOLEAN, Receive(s, right) PROVE Shapes'
    BY <2>6 DEF Receive
  <2>7. CASE Break(s)                    BY <2>7 DEF Break
  <2>8. CASE StreamEnds(s)               BY <2>8 DEF StreamEnds
  <2>9. CASE TooLong(s)                  BY <2>9 DEF TooLong
  <2>10. CASE HashFits(s)                BY <2>10 DEF HashFits
  <2>11. CASE HashFails(s)               BY <2>11 DEF HashFails
  <2>12. CASE Rename(s)                  BY <2>12 DEF Rename
  <2>13. CASE RenameFails(s)             BY <2>13 DEF RenameFails
  <2>14. CASE LoadConfig(s)              BY <2>14 DEF LoadConfig
  <2>15. CASE Test(s)                    BY <2>15 DEF Test
  <2>16. CASE SaveSetup(s)               BY <2>16 DEF SaveSetup
  <2>17. CASE Finish(s)                  BY <2>17 DEF Finish
  <2> QED
    BY <1>3, <2>1, <2>2, <2>3, <2>4, <2>5, <2>6, <2>7, <2>8, <2>9, <2>10, <2>11, <2>12, <2>13,
       <2>14, <2>15, <2>16, <2>17 DEF GoOn
<1>4. ASSUME NEW d \in Deletes, Delete(d) PROVE Shapes'
  <2> USE DEF Go, Moved, Return, disk, apart, local
  <2>1. ASSUME NEW m \in Models, Look(d, m) PROVE Shapes'
    BY <2>1 DEF Look
  <2>2. CASE DeleteFile(d)               BY <2>2 DEF DeleteFile
  <2>3. CASE DeleteFails(d)              BY <2>3 DEF DeleteFails
  <2>4. CASE Reconcile(d)                BY <2>4 DEF Reconcile
  <2>5. CASE SaveDelete(d)               BY <2>5 DEF SaveDelete
  <2>6. CASE Clear(d)                    BY <2>6 DEF Clear
  <2> QED BY <1>4, <2>1, <2>2, <2>3, <2>4, <2>5, <2>6 DEF Delete
<1>5. CASE Cancel \/ PickEngine          BY <1>5 DEF Cancel, PickEngine, disk, call, local
<1>6. CASE Restart                       BY <1>6 DEF Restart
<1>7. CASE UNCHANGED vars                BY <1>7 DEF vars, disk, call, local
<1> QED BY <1>1, <1>2, <1>3, <1>4, <1>5, <1>6, <1>7 DEF Next

\* What a set-up's steps have in common: no file but a part changes, the status goes on
\* running until the end, and the handle is one on a part in the transfer, or none.
Tidy(s) ==
  /\ Under(s)
  /\ pc[s] # "rename" \/ part' = part
  /\ UNCHANGED <<file, seen>>
  /\ \A c \in Calls \ {s} : pc'[c] = pc[c]
  /\ Running(status) => Running(status)' \/ ~Under(s)'
  /\ \A x \in Setups \ {s} :
        transfer'[x].on = transfer[x].on \/ transfer'[x].on = "gone"
  /\ \/ transfer'[s].on # "file" /\ (transfer'[s].on = "part" => pc'[s] = "receive")
     \/ transfer'[s].on = transfer[s].on /\ pc[s] # "receive"

LEMMA TidyStep ==
  ASSUME NEW s \in Setups, Alone, Handles, CheckedParts, Verified, Shapes, Under(s), Tidy(s),
         pc'[s] # "rename"
  PROVE  Alone' /\ Handles' /\ CheckedParts' /\ Verified'
<1> USE DEF Calls, Tidy
<1>1. Alone'
  BY DEF Alone, Under
<1>2. Handles'
  BY DEF Handles, Alone, Under
<1>3. CheckedParts'
  BY DEF CheckedParts, Alone, Under
<1>4. Verified'
  BY DEF Verified, Whole
<1> QED BY <1>1, <1>2, <1>3, <1>4

\* Each step but Receive and Rename is tidy by itself.
LEMMA StepsAreTidy ==
  ASSUME NEW s \in Setups, Shapes,
         \/ SkipInstalled(s) \/ CannotInstall(s) \/ RemoveLonger(s) \/ LookAtPart(s)
         \/ Answer(s) \/ CancelSeen(s) \/ Break(s) \/ StreamEnds(s) \/ TooLong(s)
         \/ HashFails(s) \/ RenameFails(s)
         \/ LoadConfig(s) \/ Test(s) \/ SaveSetup(s) \/ Finish(s)
  PROVE  Under(s) /\ Tidy(s) /\ pc'[s] # "rename"
<1> DEFINE Goal == Under(s) /\ Tidy(s) /\ pc'[s] # "rename"
<1> USE DEF Shapes, Tidy, Under, Calls, Go, Fail, Close, NoTransfer, Transfer, disk,
            apart, local, setup
<1>1. CASE SkipInstalled(s)  BY <1>1 DEF SkipInstalled, Advance
<1>2. CASE CannotInstall(s)  BY <1>2 DEF CannotInstall
<1>3. CASE RemoveLonger(s)   BY <1>3 DEF RemoveLonger, RemovePart, Moved
<1>4. CASE LookAtPart(s)
  <2>1. CASE part[FileOf(s)].size < FullSize
    BY <1>4, <2>1 DEF LookAtPart
  <2>2. CASE ~(part[FileOf(s)].size < FullSize)
    BY <1>4, <2>2 DEF LookAtPart, Progress, Phase, Update, Running
  <2> QED BY <2>1, <2>2
<1>5. CASE Resume(s)         BY <1>5 DEF Resume
<1>6. CASE StartOver(s)      BY <1>6 DEF StartOver
<1>7. CASE RequestFails(s)   BY <1>7 DEF RequestFails
<1>8. CASE CancelSeen(s)     BY <1>8 DEF CancelSeen
<1>9. CASE Break(s)          BY <1>9 DEF Break
<1>10. CASE StreamEnds(s)    BY <1>10 DEF StreamEnds, Progress, Phase, Update, Running
<1>11. CASE TooLong(s)       BY <1>11 DEF TooLong, RemovePart, Moved
<1>12. CASE HashFails(s)     BY <1>12 DEF HashFails, RemovePart, Moved
<1>13. CASE RenameFails(s)   BY <1>13 DEF RenameFails
<1>14. CASE LoadConfig(s)    BY <1>14 DEF LoadConfig, Phase, Update, Running
<1>15. CASE Test(s)          BY <1>15 DEF Test
<1>16. CASE SaveSetup(s)     BY <1>16 DEF SaveSetup
<1>17. CASE Finish(s)        BY <1>17 DEF Finish, Return
<1> QED
  BY <1>1, <1>2, <1>3, <1>4, <1>5, <1>6, <1>7, <1>8, <1>9, <1>10, <1>11, <1>12, <1>13, <1>14,
     <1>15, <1>16, <1>17 DEF Answer

LEMMA SetupStep ==
  ASSUME NEW s \in Setups, Answer(s) \/ GoOn(s),
         Alone, Handles, CheckedParts, Verified, Shapes
  PROVE  Alone' /\ Handles' /\ CheckedParts' /\ Verified'
<1> DEFINE Goal == Alone' /\ Handles' /\ CheckedParts' /\ Verified'
<1> USE DEF Shapes, Go, Calls, Under, disk, apart, local, setup
<1>1. ASSUME NEW right \in BOOLEAN, Receive(s, right) PROVE Goal
  <2>1. file' = file
    BY <1>1 DEF Receive, Handles
  <2>2. Running(status)'
    BY <1>1 DEF Receive, Progress, Phase, Update, Running, Alone
  <2>3. /\ pc[s] = "receive" /\ pc' = pc /\ UNCHANGED seen
        /\ transfer' = [transfer EXCEPT ![s] =
                          Transfer(transfer[s].have + 1, transfer[s].on, transfer[s].append)]
    BY <1>1 DEF Receive
  <2>4. /\ transfer'[s].on = transfer[s].on
        /\ \A x \in Setups \ {s} : transfer'[x].on = transfer[x].on
    BY <2>3 DEF Transfer
  <2>5. transfer[s].on # "file"
    BY DEF Handles
  <2>6. Tidy(s)
    BY <2>1, <2>2, <2>3, <2>4, <2>5 DEF Tidy
  <2> QED BY <2>3, <2>6, TidyStep
<1>2. CASE HashFits(s)
  BY <1>2 DEF HashFits, Alone, Handles, CheckedParts, Verified, FileOf, Whole, Matches
<1>3. CASE Rename(s)
  <2>1. Alone'
    BY <1>3 DEF Rename, Advance, Alone
  <2>2. CheckedParts'
    BY <1>3 DEF Rename, Advance, Alone, CheckedParts
  <2>3. Handles'
    BY <1>3 DEF Rename, Advance, Alone, Handles, Moved, Transfer
  <2>4. Verified'
    BY <1>3 DEF Rename, Advance, CheckedParts, Verified, Matches, Whole
  <2> QED BY <2>1, <2>2, <2>3, <2>4
<1>4. ASSUME ~HashFits(s), ~Rename(s), \A right \in BOOLEAN : ~Receive(s, right)
      PROVE  Goal
  <2>1. Under(s) /\ Tidy(s) /\ pc'[s] # "rename"
    BY <1>4, StepsAreTidy DEF GoOn
  <2> QED BY <2>1, TidyStep
<1> QED BY <1>1, <1>2, <1>3, <1>4

LEMMA DeleteStep ==
  ASSUME SetupAssumption, NEW d \in Deletes, Delete(d), ~overlapped',
         Alone, Handles, CheckedParts, Verified, Shapes
  PROVE  Alone' /\ Handles' /\ CheckedParts' /\ Verified'
<1> DEFINE Goal == Alone' /\ Handles' /\ CheckedParts' /\ Verified'
<1> USE DEF SetupAssumption, Shapes, Go, Calls, Under, disk, apart, local, setup
<1>1. \A s \in Setups : pc'[s] = pc[s] /\ job'[s] = job[s] /\ at'[s] = at[s]
  BY DEF Delete, Look, DeleteFile, DeleteFails, Reconcile, SaveDelete, Clear, Return
<1>2. ASSUME NEW m \in Models, Look(d, m) PROVE Goal
  <2>1. Alone'
    BY <1>1, <1>2 DEF Look, Alone, Running
  <2> QED
    BY <1>1, <1>2, <2>1 DEF Look, Handles, CheckedParts, Verified, FileOf, Whole, Matches
<1>3. CASE DeleteFile(d)
  <2>1. Alone'
    BY <1>1, <1>3 DEF DeleteFile, Alone, Running
  <2>2. Handles'
    BY <1>1, <1>3 DEF DeleteFile, Handles, Moved, Transfer
  <2>3. \A f \in Files : /\ part'[f] = part[f] \/ part'[f] = NoFile
                         /\ file'[f] = file[f] \/ file'[f] = NoFile
    BY <1>3 DEF DeleteFile
  <2>4. ASSUME NEW s \in Setups, NEW f \in Files, pc'[s] = "rename", f = FileOf(s)'
        PROVE  part'[f] = NoFile \/ Matches(part'[f])
    <3>1. pc[s] = "rename" /\ f = FileOf(s)
      BY <1>1, <2>4 DEF FileOf
    <3>2. part[f] = NoFile \/ Matches(part[f])
      BY <3>1 DEF CheckedParts
    <3> QED BY <2>3, <3>2 DEF Matches
  <2>5. ASSUME NEW f \in Files, Whole(f)' PROVE file'[f].good
    <3>1. file'[f] # NoFile
      BY <2>5 DEF Whole, NoFile
    <3> QED BY <2>3, <2>5, <3>1 DEF Verified, Whole
  <2> QED BY <2>1, <2>2, <2>4, <2>5 DEF CheckedParts, Matches, Verified
<1>4. ASSUME DeleteFails(d) \/ Reconcile(d) \/ SaveDelete(d) PROVE Goal
  <2>1. UNCHANGED <<setup, disk, transfer, seen>> /\ Under(d)
    BY <1>4 DEF DeleteFails, Reconcile, SaveDelete
  <2>2. Alone'
    BY <1>1, <1>4, <2>1 DEF DeleteFails, Reconcile, SaveDelete, Alone, Running
  <2> QED BY <1>1, <2>1, <2>2 DEF Handles, CheckedParts, Verified, FileOf, Whole, Matches
<1>5. CASE Clear(d)
  <2>1. Alone'
    BY <1>1, <1>5 DEF Clear, Return, Alone, Running
  <2> QED
    BY <1>1, <1>5, <2>1 DEF Clear, Return, Handles, CheckedParts, Verified, FileOf, Whole, Matches
<1> QED BY <1>2, <1>3, <1>4, <1>5 DEF Delete

\* What happens once it has happened.
LEMMA OverlappedForGood ==
  ASSUME [Next]_vars, overlapped
  PROVE  overlapped'
<1> USE DEF disk, apart, local
<1>1. ASSUME NEW s \in Setups, Answer(s) PROVE overlapped'
  BY <1>1 DEF Answer, Resume, StartOver, RequestFails, Fail
<1>2. ASSUME NEW s \in Setups, GoOn(s) PROVE overlapped'
  BY <1>2 DEF GoOn, SkipInstalled, Advance, CannotInstall, RemoveLonger, LookAtPart, CancelSeen,
     Receive, Break, StreamEnds, TooLong, HashFits, HashFails, Rename, RenameFails, Fail,
     LoadConfig, Test, SaveSetup, Finish
<1>3. ASSUME NEW d \in Deletes, Delete(d) PROVE overlapped'
  BY <1>3 DEF Delete, Look, DeleteFile, DeleteFails, Reconcile, SaveDelete, Clear
<1>4. CASE \E s \in Setups, m \in Models : Begin(s, m)
  BY <1>4 DEF Begin
<1>5. CASE Cancel \/ PickEngine \/ Restart \/ UNCHANGED vars
  BY <1>5 DEF Cancel, PickEngine, Restart, vars
<1> QED BY <1>1, <1>2, <1>3, <1>4, <1>5 DEF Next

LEMMA InvStep ==
  ASSUME SetupAssumption, SetupInv, [Next]_vars
  PROVE  SetupInv'
<1> DEFINE Goal == Alone' /\ Handles' /\ CheckedParts' /\ Verified'
<1>1. Shapes /\ Shapes'
  BY ShapesStep DEF SetupInv
<1>2. ASSUME ~overlapped' PROVE Goal
  <2>1. Alone /\ Handles /\ CheckedParts /\ Verified
    BY <1>2, OverlappedForGood DEF SetupInv
  <2>2. ASSUME NEW s \in Setups, NEW m \in Models, Begin(s, m) PROVE Goal
    BY <1>1, <1>2, <2>1, <2>2 DEF Begin, Shapes, Alone, Handles, CheckedParts, Verified, Running,
       Under, Calls, FileOf, Whole, Matches, disk, local
  <2>3. ASSUME NEW s \in Setups, Answer(s) \/ GoOn(s) PROVE Goal
    BY <1>1, <2>1, <2>3, SetupStep
  <2>4. ASSUME NEW d \in Deletes, Delete(d) PROVE Goal
    BY <1>1, <1>2, <2>1, <2>4, DeleteStep
  <2>5. ASSUME Cancel \/ PickEngine \/ UNCHANGED vars PROVE Goal
    <3>1. UNCHANGED <<status, disk, call, transfer, seen>>
      BY <2>5 DEF Cancel, PickEngine, vars, setup, local
    <3> QED
      BY <2>1, <3>1 DEF disk, call, Alone, Handles, CheckedParts, Verified, Running, Under,
         FileOf, Whole, Matches
  <2>6. CASE Restart
    BY <2>1, <2>6 DEF Restart, NoTransfer, Transfer, Alone, Handles, CheckedParts, Verified,
       Under, Calls, Whole
  <2> QED BY <2>2, <2>3, <2>4, <2>5, <2>6 DEF Next
<1> QED BY <1>1, <1>2 DEF SetupInv

\* A file under a model's name is the whole model, for any number of set-ups, deletes, models
\* and restarts, unless a set-up began in the middle of a delete it should not have met.
THEOREM InstalledAlwaysVerified == Spec => []InstalledIsVerified
<1>1. Init => SetupInv
  BY SetupAssumption, InitInv
<1>2. SetupInv /\ [Next]_vars => SetupInv'
  BY SetupAssumption, InvStep
<1>3. SetupInv => InstalledIsVerified
  BY DEF SetupInv, Verified, InstalledIsVerified
<1> QED BY <1>1, <1>2, <1>3, PTL DEF Spec

(***************************************************************************)
(* The Built-in preset names a model that is there.  No delete is at work  *)
(* on the model of the set-up under way, so what the set-up passed by is   *)
(* still there when it saves the config, although it loaded that before    *)
(* its test; and a delete that took the preset's model away is under way   *)
(* until it has saved a config that names another one.                     *)
(***************************************************************************)
Configs == [model : Models \cup {None}, active : {"builtin", "other"}]

\* The calls hold models, files and configs.
Sorts ==
  /\ config \in Configs
  /\ kept = [c \in Calls |-> kept[c]]
  /\ \A c \in Calls :
       /\ pc[c] = "new" => at[c] = 1
       /\ Under(c) => job[c] \in Models /\ at[c] \in 1..LastFile(job[c])
       /\ pc[c] \in {"test", "save"} => kept[c] \in Configs

\* No delete is under way on the model that is set up, which the status names, and no two at once.
OwnModel ==
  /\ \A s \in Setups : Under(s) =>
       /\ status.model = job[s]
       /\ \A d \in Deletes : Under(d) => job[d] # job[s]
  /\ \A d, e \in Deletes : Under(d) /\ Under(e) => d = e

\* What a set-up has passed by is there.
Gathered ==
  \A s \in Setups : Under(s) =>
    /\ \A i \in 1..(at[s] - 1) : Whole(<<job[s], i>>)
    /\ pc[s] \in {"load", "test", "save"} => Installed(job[s])

There(m) == m = None \/ Installed(m)

\* The configs about to be saved name models that are there.
Prepared ==
  /\ \A s \in Setups : pc[s] \in {"test", "save"} => kept[s].model = job[s]
  /\ \A d \in Deletes : pc[d] = "save" => There(kept[d].model)

\* A preset without its model has a delete at work on it, or one that failed.
Mended ==
  There(config.model) \/ \E d \in Deletes : pc[d] \in {"delete", "reconcile", "save", "failed"}

PresetInv ==
  /\ Sorts
  /\ overlapped \/ (OwnModel /\ Gathered /\ Prepared /\ Mended)
-----------------------------------------------------------------------------
LEMMA FileOfIsFile ==
  ASSUME SetupAssumption, Sorts, NEW c \in Calls, Under(c)
  PROVE  /\ job[c] \in Models /\ FileOf(c) \in Files
         /\ LastFile(job[c]) \in {1, 2} /\ at[c] \in 1..LastFile(job[c])
<1>1. job[c] \in Models /\ at[c] \in 1..LastFile(job[c]) /\ LastFile(job[c]) \in {1, 2}
  BY DEF Sorts, LastFile
<1>2. at[c] \in {1, 2} /\ at[c] <= LastFile(job[c])
  BY <1>1
<1>3. <<job[c], at[c]>> \in Files
  BY <1>1, <1>2 DEF Files
<1> QED BY <1>1, <1>3 DEF FileOf

\* reconcile_builtin_models() leaves a preset whose model is there, and a config a config.
LEMMA ReconciledThere ==
  ASSUME NEW c \in Configs, NEW r \in Reconciled(c)
  PROVE  r \in Configs /\ There(r.model)
<1>1. CASE c.model # None /\ Installed(c.model)
  BY <1>1 DEF Reconciled, There
<1>2. CASE ~(c.model # None /\ Installed(c.model))
  <2> DEFINE there == {m \in Models : Installed(m)}
  <2>1. PICK m \in IF there = {} THEN {None} ELSE there : r = [c EXCEPT !.model = m]
    BY <1>2 DEF Reconciled
  <2>2. m = None \/ (m \in Models /\ Installed(m))
    BY <2>1
  <2> QED BY <2>1, <2>2 DEF Configs, There
<1> QED BY <1>1, <1>2

\* What most steps of a set-up leave alone.
Onward(s) ==
  /\ Under(s)
  /\ UNCHANGED <<job, at, kept, config>>
  /\ status'.model = status.model
  /\ \A c \in Calls \ {s} : pc'[c] = pc[c]
  /\ pc'[s] \notin {"new", "load", "test", "save"}

LEMMA MostGoOnward ==
  ASSUME NEW s \in Setups, Shapes,
         \/ CannotInstall(s) \/ RemoveLonger(s) \/ LookAtPart(s) \/ Answer(s) \/ CancelSeen(s)
         \/ (\E right \in BOOLEAN : Receive(s, right)) \/ Break(s) \/ StreamEnds(s) \/ TooLong(s)
         \/ HashFits(s) \/ HashFails(s) \/ RenameFails(s)
  PROVE  Onward(s)
<1> USE DEF Shapes, Onward, Under, Calls, Go, Fail, apart, setup
<1>1. CASE CannotInstall(s)  BY <1>1 DEF CannotInstall
<1>2. CASE RemoveLonger(s)   BY <1>2 DEF RemoveLonger
<1>3. CASE LookAtPart(s)
  <2>1. CASE part[FileOf(s)].size < FullSize
    BY <1>3, <2>1 DEF LookAtPart
  <2>2. CASE ~(part[FileOf(s)].size < FullSize)
    BY <1>3, <2>2 DEF LookAtPart, Progress, Phase, Update
  <2> QED BY <2>1, <2>2
<1>4. CASE Answer(s)         BY <1>4 DEF Answer, Resume, StartOver, RequestFails
<1>5. CASE CancelSeen(s)     BY <1>5 DEF CancelSeen
<1>6. ASSUME NEW right \in BOOLEAN, Receive(s, right) PROVE Onward(s)
  BY <1>6 DEF Receive, Progress, Phase, Update
<1>7. CASE Break(s)          BY <1>7 DEF Break
<1>8. CASE StreamEnds(s)     BY <1>8 DEF StreamEnds, Progress, Phase, Update
<1>9. CASE TooLong(s)        BY <1>9 DEF TooLong
<1>10. CASE HashFits(s)      BY <1>10 DEF HashFits
<1>11. CASE HashFails(s)     BY <1>11 DEF HashFails
<1>12. CASE RenameFails(s)   BY <1>12 DEF RenameFails
<1> QED BY <1>1, <1>2, <1>3, <1>4, <1>5, <1>6, <1>7, <1>8, <1>9, <1>10, <1>11, <1>12

\* A step of one call touches what the call holds.
LEMMA SortsOf ==
  ASSUME Sorts, NEW c \in Calls,
         \A x \in Calls \ {c} : /\ pc'[x] = pc[x] /\ job'[x] = job[x]
                                /\ at'[x] = at[x] /\ kept'[x] = kept[x],
         config' \in Configs, kept' = [x \in Calls |-> kept'[x]],
         pc'[c] = "new" => at'[c] = 1,
         Under(c)' => job'[c] \in Models /\ at'[c] \in 1..LastFile(job'[c]),
         pc'[c] \in {"test", "save"} => kept'[c] \in Configs
  PROVE  Sorts'
<1> USE DEF Sorts, Under
<1>1. ASSUME NEW x \in Calls
      PROVE  /\ pc'[x] = "new" => at'[x] = 1
             /\ Under(x)' => job'[x] \in Models /\ at'[x] \in 1..LastFile(job'[x])
             /\ pc'[x] \in {"test", "save"} => kept'[x] \in Configs
  <2>1. CASE x = c
    BY <2>1
  <2>2. CASE x # c
    BY <2>2
  <2> QED BY <2>1, <2>2
<1> QED BY <1>1

LEMMA SortsStep ==
  ASSUME SetupAssumption, Shapes, Shapes', Sorts, [Next]_vars
  PROVE  Sorts'
<1> USE DEF Shapes, Sorts, Under, Calls, SetupAssumption
<1>0. \A m : LastFile(m) \in {1, 2}
  BY DEF LastFile
<1>1. ASSUME NEW s \in Setups, NEW m \in Models, Begin(s, m) PROVE Sorts'
  <2>1. /\ pc[s] = "new" /\ pc' = [pc EXCEPT ![s] = "next"] /\ job' = [job EXCEPT ![s] = m]
        /\ UNCHANGED <<at, kept, config>>
    BY <1>1 DEF Begin, local
  <2>2. at'[s] = 1 /\ job'[s] = m /\ pc'[s] = "next" /\ 1 \in 1..LastFile(m)
    <3>1. 1 \in 1..LastFile(m)
      BY <1>0
    <3> QED BY <2>1, <3>1
  <2> QED BY <2>1, <2>2, SortsOf
<1>2. ASSUME NEW s \in Setups, Onward(s) PROVE Sorts'
  BY <1>2, SortsOf DEF Onward
<1>3. ASSUME NEW s \in Setups, SkipInstalled(s) \/ Rename(s) PROVE Sorts'
  <2>1. UNCHANGED <<job, kept, config>> /\ pc[s] \in {"next", "rename"}
    BY <1>3 DEF SkipInstalled, Rename, Advance, apart
  <2>2. \/ /\ at[s] < LastFile(job[s])
           /\ at' = [at EXCEPT ![s] = at[s] + 1] /\ pc' = [pc EXCEPT ![s] = "next"]
        \/ pc' = [pc EXCEPT ![s] = "load"] /\ UNCHANGED at
    BY <1>3 DEF SkipInstalled, Rename, Advance
  <2>3. job[s] \in Models /\ at[s] \in 1..LastFile(job[s])
    BY <2>1
  <2>4. at'[s] \in 1..LastFile(job[s]) /\ pc'[s] \in {"next", "load"}
    BY <1>0, <2>2, <2>3
  <2>5. \A x \in Calls \ {s} : pc'[x] = pc[x] /\ at'[x] = at[x]
    BY <2>2
  <2> QED BY <2>1, <2>3, <2>4, <2>5, SortsOf
<1>4. ASSUME NEW s \in Setups, LoadConfig(s) PROVE Sorts'
  <2>1. [config EXCEPT !.model = job[s]] \in Configs
    BY <1>4 DEF LoadConfig, Go, Configs
  <2> QED BY <1>4, <2>1 DEF LoadConfig, Go
<1>5. ASSUME NEW s \in Setups, Test(s) PROVE Sorts'
  BY <1>5 DEF Test, Go
<1>6. ASSUME NEW s \in Setups, SaveSetup(s) PROVE Sorts'
  <2>1. config' \in Configs
    <3>1. kept[s] \in Configs /\ config' \in {kept[s], [kept[s] EXCEPT !.active = "builtin"]}
      BY <1>6 DEF SaveSetup, Go
    <3> QED BY <3>1 DEF Configs
  <2> QED BY <1>6, <2>1 DEF SaveSetup, Go, local
<1>7. ASSUME NEW s \in Setups, Finish(s) PROVE Sorts'
  BY <1>7 DEF Finish, Return
<1>8. ASSUME NEW d \in Deletes, Delete(d) PROVE Sorts'
  <2>1. ASSUME NEW m \in Models, Look(d, m) PROVE Sorts'
    <3>1. /\ pc[d] = "new" /\ pc' = [pc EXCEPT ![d] = "delete"] /\ job' = [job EXCEPT ![d] = m]
          /\ UNCHANGED <<at, kept, config>>
      BY <2>1 DEF Look
    <3>2. at'[d] = 1 /\ job'[d] = m /\ pc'[d] = "delete" /\ 1 \in 1..LastFile(m)
      <4>1. 1 \in 1..LastFile(m)
        BY <1>0
      <4> QED BY <3>1, <4>1
    <3> QED BY <3>1, <3>2, SortsOf
  <2>2. CASE DeleteFile(d)
    <3>1. UNCHANGED <<job, kept, config>> /\ pc[d] = "delete"
      BY <2>2 DEF DeleteFile, apart
    <3>2. \/ /\ at[d] < LastFile(job[d])
             /\ at' = [at EXCEPT ![d] = at[d] + 1] /\ UNCHANGED pc
          \/ pc' = [pc EXCEPT ![d] = "reconcile"] /\ UNCHANGED at
      BY <2>2 DEF DeleteFile
    <3>3. job[d] \in Models /\ at[d] \in 1..LastFile(job[d])
      BY <3>1
    <3>4. at'[d] \in 1..LastFile(job[d]) /\ pc'[d] \in {"delete", "reconcile"}
      BY <1>0, <3>1, <3>2, <3>3
    <3>5. \A x \in Calls \ {d} : pc'[x] = pc[x] /\ at'[x] = at[x]
      BY <3>2
    <3> QED BY <3>1, <3>3, <3>4, <3>5, SortsOf
  <2>3. CASE DeleteFails(d)    BY <2>3 DEF DeleteFails, Go, local
  <2>4. CASE Reconcile(d)
    <3>1. PICK c \in Reconciled(config) : kept' = [kept EXCEPT ![d] = c]
      BY <2>4 DEF Reconcile
    <3>2. c \in Configs
      BY ReconciledThere
    <3>3. /\ UNCHANGED <<job, at, config>> /\ pc[d] = "reconcile"
          /\ pc' = [pc EXCEPT ![d] = "clear"] \/ pc' = [pc EXCEPT ![d] = "save"]
      BY <2>4 DEF Reconcile, Go
    <3>4. pc'[d] \in {"clear", "save"} /\ \A x \in Calls \ {d} : pc'[x] = pc[x]
      BY <3>3
    <3> QED BY <3>1, <3>2, <3>3, <3>4, SortsOf
  <2>5. CASE SaveDelete(d)     BY <2>5 DEF SaveDelete, Go, local
  <2>6. CASE Clear(d)          BY <2>6 DEF Clear, Return
  <2> QED BY <1>8, <2>1, <2>2, <2>3, <2>4, <2>5, <2>6 DEF Delete
<1>9. CASE Cancel              BY <1>9 DEF Cancel, call, local
<1>10. CASE PickEngine
  <2>1. config' \in Configs
    BY <1>10 DEF PickEngine, Configs
  <2> QED BY <1>10, <2>1 DEF PickEngine, call, local
<1>11. CASE Restart
  <2>1. config' \in Configs
    BY <1>11, ReconciledThere DEF Restart
  <2> QED BY <1>11, <2>1 DEF Restart
<1>12. CASE UNCHANGED vars     BY <1>12 DEF vars, call, local
<1> QED
  BY <1>1, <1>2, <1>3, <1>4, <1>5, <1>6, <1>7, <1>8, <1>9, <1>10, <1>11, <1>12, MostGoOnward
  DEF Next, GoOn

-----------------------------------------------------------------------------
\* The parts that hold as long as no delete met what it should not have.
Settled == OwnModel /\ Gathered /\ Prepared /\ Mended

\* A set-up takes no finished file away.
LEMMA FilesStay ==
  ASSUME SetupAssumption, NEW s \in Setups, Answer(s) \/ GoOn(s),
         Shapes, Sorts, Handles, CheckedParts
  PROVE  /\ \A f \in Files : Whole(f) => Whole(f)'
         /\ \A m \in Models : Installed(m) => Installed(m)'
<1>1. \A f \in Files : Whole(f) => Whole(f)'
  <2>1. CASE Rename(s)
    <3> DEFINE f == FileOf(s)
    <3>1. Matches(part[f]) /\ f \in Files
      BY <2>1, FileOfIsFile DEF Rename, Advance, CheckedParts, Under, Calls
    <3>2. file' = [file EXCEPT ![f] = part[f]]
      BY <2>1 DEF Rename
    <3> QED BY <3>1, <3>2 DEF Matches, Whole, Shapes
  <2>2. ASSUME NEW right \in BOOLEAN, Receive(s, right) PROVE file' = file
    BY <2>2 DEF Receive, Handles
  <2>3. ASSUME ~Rename(s), \A right \in BOOLEAN : ~Receive(s, right) PROVE file' = file
    BY <2>3, StepsAreTidy DEF GoOn, Tidy, HashFits, disk
  <2> QED BY <2>1, <2>2, <2>3 DEF Whole
<1>2. ASSUME NEW m \in Models, NEW i \in 1..LastFile(m) PROVE <<m, i>> \in Files
  BY <1>2 DEF Files, LastFile
<1> QED BY <1>1, <1>2 DEF Installed

LEMMA OnwardSettled ==
  ASSUME SetupAssumption, NEW s \in Setups, Onward(s), Shapes, Sorts, Settled, Alone,
         \A f \in Files : Whole(f) => Whole(f)',
         \A m \in Models : Installed(m) => Installed(m)'
  PROVE  Settled'
<1> USE DEF Settled, Onward, Calls, Under, SetupAssumption
<1>1. OwnModel'
  BY DEF OwnModel
<1>2. Gathered'
  <2>1. SUFFICES ASSUME NEW x \in Setups, Under(x)'
                 PROVE  /\ \A i \in 1..(at[x] - 1) : Whole(<<job[x], i>>)'
                        /\ pc'[x] \in {"load", "test", "save"} => Installed(job[x])'
    BY DEF Gathered
  <2>2. Under(x)
    BY <2>1
  <2>3. job[x] \in Models /\ at[x] \in 1..LastFile(job[x]) /\ LastFile(job[x]) \in {1, 2}
    BY <2>2, FileOfIsFile
  <2>4. \A i \in 1..(at[x] - 1) : <<job[x], i>> \in Files
    BY <2>3 DEF Files
  <2>5. \A i \in 1..(at[x] - 1) : Whole(<<job[x], i>>)
    BY <2>2 DEF Gathered
  <2>6. pc'[x] \in {"load", "test", "save"} => Installed(job[x])
    BY <2>2 DEF Gathered
  <2> QED BY <2>3, <2>4, <2>5, <2>6
<1>3. Prepared'
  BY DEF Prepared, There, Sorts, Configs
<1>4. Mended'
  BY DEF Mended, There, Sorts, Configs
<1> QED BY <1>1, <1>2, <1>3, <1>4

LEMMA SetupSettled ==
  ASSUME SetupAssumption, NEW s \in Setups, Answer(s) \/ GoOn(s),
         Shapes, Sorts, Settled, Alone, Handles, CheckedParts
  PROVE  Settled'
<1> USE DEF Settled, Calls, Under, SetupAssumption
<1>1. /\ \A f \in Files : Whole(f) => Whole(f)'
      /\ \A m \in Models : Installed(m) => Installed(m)'
  BY FilesStay
<1>2. CASE Onward(s)
  BY <1>1, <1>2, OnwardSettled
\* The steps that go on from a file, and the test and the save.
<1>3. ASSUME Under(s), status'.model = status.model,
             \A c \in Calls \ {s} : /\ pc'[c] = pc[c] /\ kept'[c] = kept[c]
                                    /\ job'[c] = job[c] /\ at'[c] = at[c],
             Under(s)' => job'[s] = job[s],
             Under(s)' => \A i \in 1..(at[s] - 1)' : Whole(<<job[s], i>>)',
             pc'[s] \in {"load", "test", "save"} => Installed(job[s])',
             pc'[s] \in {"test", "save"} => kept'[s].model = job[s],
             config'.model = config.model \/ (config'.model = job[s] /\ Installed(job[s]))
      PROVE  Settled'
  <2>1. \A d \in Deletes : /\ Under(d)' = Under(d) /\ job'[d] = job[d]
                           /\ pc'[d] = pc[d] /\ kept'[d] = kept[d]
    BY <1>3
  <2>2. \A x \in Setups \ {s} : ~Under(x)'
    BY <1>3 DEF Alone
  <2>3. OwnModel'
    BY <1>3, <2>1, <2>2 DEF OwnModel
  <2>4. Gathered'
    <3>1. ASSUME NEW x \in Setups, Under(x)'
          PROVE  /\ \A i \in 1..(at[x] - 1)' : Whole(<<job[x], i>>)'
                 /\ pc'[x] \in {"load", "test", "save"} => Installed(job[x])'
      <4>1. x = s
        BY <2>2, <3>1
      <4> QED BY <1>3, <3>1, <4>1
    <3> QED BY <3>1 DEF Gathered
  <2>5. job[s] \in Models
    BY <1>3, FileOfIsFile
  <2>6. ASSUME NEW m \in Models \cup {None}, There(m) PROVE There(m)'
    BY <1>1, <2>6 DEF There
  <2>7. Prepared'
    <3>1. \A d \in Deletes : pc[d] = "save" =>
            kept[d].model \in Models \cup {None} /\ There(kept[d].model)
      BY DEF Prepared, Sorts, Configs
    <3>2. \A d \in Deletes : pc'[d] = "save" => There(kept[d].model)'
      BY <2>1, <2>6, <3>1 DEF There, Installed, Whole
    <3>3. \A x \in Setups : pc'[x] \in {"test", "save"} => x = s
      BY <2>2
    <3> QED BY <1>3, <3>2, <3>3 DEF Prepared
  <2>8. Mended'
    <3>1. config.model \in Models \cup {None}
      BY DEF Sorts, Configs
    <3>2. There(config.model) => There(config.model)'
      BY <1>1, <1>3, <2>5, <3>1 DEF There, Installed, Whole
    <3>3. config'.model # config.model => There(config.model)'
      BY <1>1, <1>3, <2>5 DEF There, Installed, Whole
    <3> QED BY <2>1, <3>2, <3>3 DEF Mended
  <2> QED BY <2>3, <2>4, <2>7, <2>8
<1>4. ASSUME SkipInstalled(s) \/ Rename(s) PROVE Settled'
  <2>1. /\ UNCHANGED <<job, kept, config>> /\ status' = status /\ pc[s] \in {"next", "rename"}
        /\ \A c \in Calls \ {s} : pc'[c] = pc[c] /\ at'[c] = at[c]
    BY <1>4 DEF SkipInstalled, Rename, Advance, apart, setup, Shapes
  <2>2. PICK m \in Models : m = job[s]
    BY <2>1, FileOfIsFile
  <2>3. PICK n \in 1..LastFile(m) : n = at[s]
    BY <2>2, <2>1, FileOfIsFile
  <2>4. m = job[s] /\ n = at[s]
    BY <2>2, <2>3
  <2>5. LastFile(m) \in {1, 2} /\ \A i \in 1..LastFile(m) : <<m, i>> \in Files
    BY DEF LastFile, Files
  <2>6. \/ at'[s] = n + 1 /\ pc'[s] = "next"
        \/ at'[s] = n /\ n = LastFile(m) /\ pc'[s] = "load"
    <3>1. \/ /\ n < LastFile(m)
             /\ at' = [at EXCEPT ![s] = at[s] + 1] /\ pc' = [pc EXCEPT ![s] = "next"]
          \/ /\ ~(n < LastFile(m))
             /\ pc' = [pc EXCEPT ![s] = "load"] /\ UNCHANGED at
      BY <1>4, <2>4 DEF SkipInstalled, Rename, Advance
    <3> QED BY <2>4, <2>5, <3>1 DEF Shapes
  <2>7. Whole(<<m, n>>)'
    <3>1. CASE SkipInstalled(s)
      BY <1>1, <2>4, <2>5, <3>1 DEF SkipInstalled, FileOf
    <3>2. CASE Rename(s)
      <4>1. pc[s] = "rename" /\ part[<<m, n>>] # NoFile
            /\ file' = [file EXCEPT ![<<m, n>>] = part[<<m, n>>]]
        BY <2>4, <3>2 DEF Rename, Advance, FileOf
      <4>2. Matches(part[<<m, n>>])
        BY <2>4, <2>5, <4>1 DEF CheckedParts, FileOf
      <4> QED BY <2>5, <4>1, <4>2 DEF Matches, Whole, Shapes
    <3> QED BY <1>4, <3>1, <3>2
  <2>8. \A i \in 1..n : Whole(<<m, i>>)'
    <3>1. ASSUME NEW i \in 1..(n - 1) PROVE <<m, i>> \in Files /\ Whole(<<m, i>>)
      BY <2>1, <2>4, <2>5 DEF Gathered
    <3> QED BY <1>1, <2>5, <2>7, <3>1
  <2>9. n = LastFile(m) => Installed(m)'
    BY <2>8 DEF Installed
  <2>10. job'[s] = m /\ (at[s] - 1)' <= n /\ (at[s] - 1)' \in Int
    BY <2>1, <2>4, <2>5, <2>6
  <2>11. \A i \in 1..(at[s] - 1)' : Whole(<<job[s], i>>)'
    BY <2>5, <2>8, <2>10
  <2>12. pc'[s] \in {"load", "test", "save"} => Installed(job[s])'
    BY <2>6, <2>9, <2>10
  <2> QED BY <1>3, <2>1, <2>6, <2>11, <2>12
<1>5. CASE LoadConfig(s)
  <2>1. /\ pc[s] = "load" /\ pc' = [pc EXCEPT ![s] = "test"] /\ UNCHANGED <<job, at, config>>
        /\ status'.model = status.model
    BY <1>5 DEF LoadConfig, Go, Phase, Update
  <2>2. kept' = [kept EXCEPT ![s] = [config EXCEPT !.model = job[s]]]
    BY <1>5 DEF LoadConfig
  <2>3. kept'[s].model = job[s] /\ \A c \in Calls \ {s} : kept'[c] = kept[c]
    BY <2>2 DEF Sorts, Configs
  <2>4. /\ \A c \in Calls \ {s} : pc'[c] = pc[c]
        /\ pc'[s] = "test"
    BY <2>1 DEF Shapes
  <2>5. /\ job[s] \in Models /\ at[s] \in 1..LastFile(job[s]) /\ LastFile(job[s]) \in {1, 2}
        /\ \A i \in 1..(at[s] - 1) : Whole(<<job[s], i>>)'
        /\ Installed(job[s])'
    BY <1>1, <2>1, FileOfIsFile DEF Gathered, Files
  <2> QED BY <1>3, <2>1, <2>3, <2>4, <2>5
<1>6. CASE Test(s) \/ SaveSetup(s)
  <2>1. /\ pc[s] \in {"test", "save"} /\ UNCHANGED <<job, at, kept, status>>
        /\ \A c \in Calls \ {s} : pc'[c] = pc[c]
        /\ pc'[s] \in {"save", "finish"}
    BY <1>6 DEF Test, SaveSetup, Go, setup, local, Shapes
  <2>2. /\ job[s] \in Models /\ at[s] \in 1..LastFile(job[s]) /\ LastFile(job[s]) \in {1, 2}
        /\ \A i \in 1..(at[s] - 1) : Whole(<<job[s], i>>)'
        /\ Installed(job[s]) /\ Installed(job[s])'
    BY <1>1, <2>1, FileOfIsFile DEF Gathered, Files
  <2>3. kept[s].model = job[s] /\ kept[s] \in Configs
    BY <2>1 DEF Prepared, Sorts
  <2>4. config' = config \/ config'.model = job[s]
    BY <1>6, <2>3 DEF Test, SaveSetup, Configs
  <2> QED BY <1>3, <2>1, <2>2, <2>3, <2>4
<1>7. CASE Finish(s)
  <2>1. /\ pc[s] = "finish" /\ pc'[s] = "over" /\ UNCHANGED config
        /\ \A c \in Calls \ {s} : pc'[c] = pc[c] /\ kept'[c] = kept[c] /\ job'[c] = job[c]
                                  /\ at'[c] = at[c]
        /\ status'.model = status.model
    BY <1>7 DEF Finish, Return, Phase, Update, Shapes, Sorts
  <2> QED BY <1>3, <2>1
<1> QED BY <1>2, <1>4, <1>5, <1>6, <1>7, MostGoOnward DEF GoOn

\* Only the delete under way takes files, of a model that is not the set-up's.
LEMMA DeleteSettled ==
  ASSUME SetupAssumption, NEW d \in Deletes, Delete(d), ~overlapped',
         Shapes, Sorts, Settled, Alone
  PROVE  Settled'
<1> USE DEF Settled, Calls, Under, SetupAssumption, Shapes
<1>0. ASSUME NEW c \in Calls \ {d}
      PROVE  pc'[c] = pc[c] /\ job'[c] = job[c] /\ at'[c] = at[c] /\ kept'[c] = kept[c]
  <2> USE DEF Sorts, Go
  <2>1. ASSUME NEW m \in Models, Look(d, m)
        PROVE  pc'[c] = pc[c] /\ job'[c] = job[c] /\ at'[c] = at[c] /\ kept'[c] = kept[c]
    BY <2>1 DEF Look
  <2>2. CASE DeleteFile(d)                  BY <2>2 DEF DeleteFile, apart
  <2>3. CASE DeleteFails(d)                 BY <2>3 DEF DeleteFails, local
  <2>4. CASE Reconcile(d)                   BY <2>4 DEF Reconcile
  <2>5. CASE SaveDelete(d)                  BY <2>5 DEF SaveDelete, local
  <2>6. CASE Clear(d)                       BY <2>6 DEF Clear, Return
  <2> QED BY <2>1, <2>2, <2>3, <2>4, <2>5, <2>6 DEF Delete
<1>1. \A s \in Setups : /\ pc'[s] = pc[s] /\ job'[s] = job[s] /\ at'[s] = at[s]
                        /\ kept'[s] = kept[s]
  BY <1>0
<1>2. \A e \in Deletes \ {d} : pc'[e] = pc[e] /\ job'[e] = job[e] /\ kept'[e] = kept[e]
  BY <1>0
<1>3. ASSUME NEW m \in Models, Look(d, m) PROVE Settled'
  <2>1. /\ \A e \in Deletes : ~Under(e) /\ UNCHANGED <<status, file, config, kept>>
        /\ pc'[d] = "delete" /\ job'[d] = m /\ ~BeingSetUp(m)
    BY <1>3 DEF Look, setup, disk
  <2>2. OwnModel'
    BY <1>1, <1>2, <2>1 DEF OwnModel, BeingSetUp, Alone
  <2>3. Gathered'
    BY <1>1, <2>1 DEF Gathered, Whole, Installed
  <2>4. Prepared'
    BY <1>1, <1>2, <2>1 DEF Prepared, There, Installed, Whole
  <2>5. Mended'
    BY <1>2, <2>1 DEF Mended
  <2> QED BY <2>2, <2>3, <2>4, <2>5
<1>4. CASE DeleteFile(d)
  <2>1. /\ pc[d] = "delete" /\ pc'[d] \in {"delete", "reconcile"} /\ job'[d] = job[d]
        /\ UNCHANGED <<status, config, kept>>
        /\ file' = [file EXCEPT ![FileOf(d)] = NoFile]
    BY <1>4 DEF DeleteFile, apart, setup
  <2>2. \A f \in Files : f[1] # job[d] => Whole(f) = Whole(f)'
    BY <2>1 DEF FileOf, Whole
  <2>3. OwnModel'
    BY <1>1, <1>2, <2>1 DEF OwnModel
  <2>4. Gathered'
    <3>1. SUFFICES ASSUME NEW s \in Setups, Under(s)
                   PROVE  /\ \A i \in 1..(at[s] - 1)' : Whole(<<job[s], i>>)'
                          /\ pc[s] \in {"load", "test", "save"} => Installed(job[s])'
      BY <1>1 DEF Gathered
    <3>2. PICK m \in Models : m = job[s]
      BY <3>1, FileOfIsFile
    <3>3. m # job[d] /\ LastFile(m) \in {1, 2} /\ at[s] \in 1..LastFile(m)
      BY <2>1, <3>1, <3>2, FileOfIsFile DEF OwnModel
    <3>4. \A i \in 1..LastFile(m) : <<m, i>> \in Files
      BY <3>3 DEF Files
    <3>5. \A i \in 1..LastFile(m) : Whole(<<m, i>>) = Whole(<<m, i>>)'
      BY <2>2, <3>3, <3>4
    <3>6. job'[s] = m /\ at'[s] = at[s]
      BY <1>1, <3>2
    <3>7. \A i \in 1..(at[s] - 1) : Whole(<<m, i>>)'
      BY <3>1, <3>2, <3>3, <3>5 DEF Gathered
    <3>8. pc[s] \in {"load", "test", "save"} => Installed(m)'
      BY <3>1, <3>2, <3>5 DEF Gathered, Installed
    <3> QED BY <3>6, <3>7, <3>8
  <2>5. Prepared'
    <3>1. \A e \in Deletes : pc'[e] # "save"
      BY <1>2, <2>1 DEF OwnModel
    <3> QED BY <1>1, <3>1 DEF Prepared
  <2>6. Mended'
    BY <2>1 DEF Mended
  <2> QED BY <2>3, <2>4, <2>5, <2>6
<1>5. ASSUME DeleteFails(d) \/ Reconcile(d) \/ SaveDelete(d) \/ Clear(d) PROVE Settled'
  <2>1. Under(d) /\ UNCHANGED file /\ (Under(d)' => job'[d] = job[d])
    <3>1. pc[d] \in {"delete", "reconcile", "save", "clear"} /\ UNCHANGED file
      BY <1>5 DEF DeleteFails, Reconcile, SaveDelete, Clear, Go, disk
    <3>2. CASE Clear(d)
      BY <3>1, <3>2 DEF Clear, Return
    <3>3. CASE ~Clear(d)
      BY <1>5, <3>1, <3>3 DEF DeleteFails, Reconcile, SaveDelete, Go
    <3> QED BY <3>1, <3>2, <3>3
  <2>2. \A m : Installed(m) = Installed(m)'
    BY <2>1 DEF Installed, Whole
  <2>3. \A s \in Setups : Under(s) => status' = status
    BY <1>5 DEF DeleteFails, Reconcile, SaveDelete, Clear, Alone, setup
  <2>4. OwnModel'
    BY <1>1, <1>2, <2>1, <2>3 DEF OwnModel
  <2>5. Gathered'
    BY <1>1, <2>1, <2>2 DEF Gathered, Whole
  <2>6. CASE DeleteFails(d)
    BY <1>1, <1>2, <2>2, <2>4, <2>5, <2>6 DEF DeleteFails, Go, Prepared, Mended, There, local
  <2>7. CASE Reconcile(d)
    <3>1. PICK c \in Reconciled(config) : kept' = [kept EXCEPT ![d] = c]
      BY <2>7 DEF Reconcile
    <3>2. There(c.model) /\ kept'[d] = c
      BY <3>1, ReconciledThere DEF Sorts
    <3>3. config' = config /\ (c = config \/ pc'[d] = "save")
      BY <2>7, <3>2 DEF Reconcile, Go
    <3>4. Prepared'
      BY <1>1, <1>2, <2>2, <3>2 DEF Prepared, There
    <3>5. Mended'
      BY <2>2, <3>2, <3>3 DEF Mended, There
    <3> QED BY <2>4, <2>5, <3>4, <3>5
  <2>8. CASE SaveDelete(d)
    <3>1. config' = kept[d] /\ There(kept[d].model) /\ pc'[d] = "clear" /\ UNCHANGED kept
      BY <2>8 DEF SaveDelete, Go, Prepared, local
    <3> QED BY <1>1, <1>2, <2>2, <2>4, <2>5, <3>1 DEF Prepared, Mended, There
  <2>9. CASE Clear(d)
    <3>1. pc[d] = "clear" /\ pc'[d] = "over" /\ UNCHANGED config
      BY <2>9 DEF Clear, Return
    <3> QED BY <1>1, <1>2, <2>2, <2>4, <2>5, <3>1 DEF Prepared, Mended, There
  <2> QED BY <1>5, <2>6, <2>7, <2>8, <2>9
<1> QED BY <1>3, <1>4, <1>5 DEF Delete

PresetSteady == SetupInv /\ PresetInv

LEMMA PresetStep ==
  ASSUME SetupAssumption, PresetSteady, [Next]_vars
  PROVE  PresetSteady'
<1>1. SetupInv' /\ Shapes /\ Shapes' /\ Sorts
  BY InvStep, ShapesStep DEF PresetSteady, SetupInv, PresetInv
<1>2. Sorts'
  BY <1>1, SortsStep
<1>3. ASSUME ~overlapped' PROVE Settled'
  <2>1. Alone /\ Handles /\ CheckedParts /\ Settled
    BY <1>3, OverlappedForGood DEF PresetSteady, SetupInv, PresetInv, Settled
  <2>2. ASSUME NEW s \in Setups, NEW m \in Models, Begin(s, m) PROVE Settled'
    <3>1. /\ pc[s] = "new" /\ pc' = [pc EXCEPT ![s] = "next"] /\ job' = [job EXCEPT ![s] = m]
          /\ status'.model = m /\ UNCHANGED <<at, file, config, kept>>
          /\ \A x \in Setups : ~Under(x)
          /\ \A d \in Deletes : Under(d) => job[d] # m
      BY <1>3, <2>1, <2>2 DEF Begin, Alone, disk, local
    <3>2. /\ \A c \in Calls \ {s} : pc'[c] = pc[c] /\ job'[c] = job[c]
          /\ pc'[s] = "next" /\ job'[s] = m /\ at[s] = 1 /\ s \notin Deletes
      BY <1>1, <3>1 DEF Shapes, Sorts, Calls, SetupAssumption
    <3>3. OwnModel'
      BY <2>1, <3>1, <3>2 DEF Settled, OwnModel, Under, Calls
    <3>4. Gathered'
      BY <3>1, <3>2 DEF Gathered, Under, Calls
    <3>5. Prepared'
      BY <2>1, <3>1, <3>2 DEF Settled, Prepared, Under, Calls, There, Installed, Whole
    <3>6. Mended'
      BY <2>1, <3>1, <3>2 DEF Settled, Mended, Calls, There, Installed, Whole
    <3> QED BY <3>3, <3>4, <3>5, <3>6 DEF Settled
  <2>3. ASSUME NEW s \in Setups, Answer(s) \/ GoOn(s) PROVE Settled'
    BY <1>1, <2>1, <2>3, SetupSettled
  <2>4. ASSUME NEW d \in Deletes, Delete(d) PROVE Settled'
    BY <1>1, <1>3, <2>1, <2>4, DeleteSettled
  <2>5. ASSUME Cancel \/ PickEngine \/ UNCHANGED vars PROVE Settled'
    <3>1. UNCHANGED <<status, file, call, kept>> /\ config'.model = config.model
      BY <1>1, <2>5 DEF Cancel, PickEngine, vars, setup, disk, local, Sorts, Configs
    <3> QED
      BY <2>1, <3>1 DEF call, Settled, OwnModel, Gathered, Prepared, Mended, Under, There,
         Installed, Whole
  <2>6. CASE Restart
    <3>1. There(config'.model) /\ UNCHANGED file
      BY <1>1, <2>6, ReconciledThere DEF Restart, Sorts
    <3>2. \A c \in Calls : ~Under(c)'
      BY <2>6 DEF Restart, Under
    <3> QED
      BY <3>1, <3>2 DEF Settled, OwnModel, Gathered, Prepared, Mended, Under, There, Calls,
         Installed, Whole
  <2> QED BY <2>2, <2>3, <2>4, <2>5, <2>6 DEF Next
<1> QED BY <1>1, <1>2, <1>3 DEF PresetSteady, PresetInv, Settled

\* While no call is under way the Built-in preset names a model that is there, for any number of
\* set-ups, deletes, models and restarts: the config that a set-up loaded before its test and
\* saves after it, and the one that a delete reconciled, still say what is on the disk.
THEOREM PresetAlwaysHasItsModel == Spec => []PresetHasItsModel
<1>1. Init => PresetSteady
  <2>1. ASSUME Init PROVE Sorts
    BY <2>1, SetupAssumption DEF Init, Sorts, Configs, Under
  <2>2. ASSUME Init PROVE OwnModel /\ Gathered /\ Prepared /\ Mended
    BY <2>2, SetupAssumption DEF Init, OwnModel, Gathered, Prepared, Mended, There, Under, Calls
  <2> QED BY <2>1, <2>2, SetupAssumption, InitInv DEF PresetSteady, PresetInv
<1>2. PresetSteady /\ [Next]_vars => PresetSteady'
  BY SetupAssumption, PresetStep
<1>3. PresetSteady => PresetHasItsModel
  BY DEF PresetSteady, PresetInv, Mended, There, PresetHasItsModel, Under, Calls
<1> QED BY <1>1, <1>2, <1>3, PTL DEF Spec
=============================================================================
