--------------------------- MODULE ClipboardProofs ---------------------------
(***************************************************************************)
(* What holds of the clipboard module for any number of pastes, captures   *)
(* and copies: the type of its state, that a restore writes over the text  *)
(* of its own paste only, and that what the user put on the clipboard      *)
(* comes back.                                                             *)
(***************************************************************************)
EXTENDS Clipboard, TLAPS

\* Ids are given out in order: the counter is ahead of every one in use.
IdsInv ==
    /\ next_id > 0
    /\ \A p \in Pastes : local[p].restore_id < next_id

\* While the change count is the one that paste p read, or is going to read, the
\* clipboard holds its text.
CountInv ==
    \A p \in Pastes :
        /\ local[p].count <= change_count
        /\ pc[p] = "count" /\ p \notin unsure => contents = p
        /\ pc[p] \in {"paste", "remember", "waiting"} /\ p \notin unsure
             /\ local[p].count = change_count => contents = p

IInv == TypeOK /\ IdsInv /\ CountInv

\* Put() by any call keeps the types and counts one more write.
LEMMA PutTypes ==
    ASSUME TypeOK, NEW x \in Contents, Put(x)
    PROVE  /\ contents' = x
           /\ contents' \in Contents
           /\ change_count' = change_count + 1
           /\ change_count' \in Nat
           /\ unsure' \in SUBSET Pastes
           /\ unsure \subseteq unsure'
           /\ \A p \in Pastes : pc[p] = "count" => p \in unsure'
  BY DEF TypeOK, Put

\* Whether a call arrives apart is a truth value.
LEMMA ArrivesTypes ==
    ASSUME NEW x, Arrives(x)
    PROVE  apart' \in BOOLEAN
  BY Zenon DEF Arrives

\* What is wanted is given up, or nothing is.
LEMMA BuryTypes ==
    ASSUME TypeOK, NEW lost, Bury(lost)
    PROVE  buried' \subseteq Contents /\ buried \subseteq buried'
  BY DEF TypeOK, Bury

\* Every call's name may be on the clipboard.
LEMMA CallsAreContents == Calls \subseteq Contents /\ None \in Contents
  BY DEF Contents

\* No two restores have the same id.
IdsApart(f) ==
    \A p, q \in Pastes :
      f[p].restore_id = f[q].restore_id => p = q \/ f[p].restore_id = 0

\* A call that returns forgets its snapshot, its count and its id.
LEMMA ReturnTypes ==
    ASSUME TypeOK, IdsInv, NEW x \in Calls, NEW from, Return(x, from)
    PROVE  /\ pc' = [pc EXCEPT ![x] = "done"]
           /\ local' \in [Calls -> [snapshot : Contents, count : Nat,
                                    restore_id : Nat]]
           /\ local'[x] = NoLocal
           /\ \A y \in Calls \ {x} : local'[y] = local[y]
           /\ IdsApart(local')
<1>1. NoLocal \in [snapshot : Contents, count : Nat, restore_id : Nat]
  BY CallsAreContents DEF NoLocal
<1>2. /\ pc' = [pc EXCEPT ![x] = "done"]
      /\ local' = [local EXCEPT ![x] = NoLocal]
  BY DEF Return, Go
<1>3. /\ local' \in [Calls -> [snapshot : Contents, count : Nat,
                                restore_id : Nat]]
      /\ local'[x] = NoLocal
      /\ \A y \in Calls \ {x} : local'[y] = local[y]
  BY <1>1, <1>2 DEF TypeOK
<1>4. NoLocal.restore_id = 0
  BY DEF NoLocal
<1>5. IdsApart(local')
  <2> SUFFICES ASSUME NEW p \in Pastes, NEW q \in Pastes,
                      local'[p].restore_id = local'[q].restore_id, p # q,
                      local'[p].restore_id # 0
               PROVE  FALSE
    BY DEF IdsApart
  <2>1. p # x /\ q # x
    BY <1>3, <1>4
  <2>2. local'[p] = local[p] /\ local'[q] = local[q]
    BY <2>1, <1>3 DEF Calls
  <2> QED BY <2>2 DEF TypeOK
<1> QED BY <1>2, <1>3, <1>5

LEMMA InitIInv == Init => IInv
  BY ClipboardAssumption
  DEF Init, IInv, TypeOK, Places, IdsInv, CountInv, NoLocal, Contents, Calls

LEMMA NextIInv == IInv /\ [Next]_vars => IInv'
<1> SUFFICES ASSUME IInv, [Next]_vars PROVE IInv'
  OBVIOUS
<1> USE ClipboardAssumption DEF IInv, Places
<1>1. ASSUME NEW p \in Pastes, TakeSnapshot(p) PROVE IInv'
  BY <1>1, BuryTypes DEF TakeSnapshot, Go, Arrives, board, batch, TypeOK, IdsInv, CountInv,
       Calls, Contents
<1>2. ASSUME NEW p \in Pastes, WriteText(p) PROVE IInv'
  <2>0. p \in Contents
    BY CallsAreContents DEF Calls
  <2>1. TypeOK'
    BY <1>2, <2>0, PutTypes DEF WriteText, Go, batch, TypeOK
  <2>2. IdsInv'
    BY <1>2 DEF WriteText, batch, IdsInv
  <2>3. CountInv'
    BY <1>2, <2>0, PutTypes DEF WriteText, Go, CountInv, TypeOK, Calls
  <2> QED BY <2>1, <2>2, <2>3
<1>3. ASSUME NEW p \in Pastes, ReadCount(p) PROVE IInv'
  BY <1>3 DEF ReadCount, Go, board, batch, TypeOK, IdsInv, CountInv, Calls
<1>4. ASSUME NEW p \in Pastes, SimulatePaste(p) PROVE IInv'
  BY <1>4 DEF SimulatePaste, Go, board, batch, TypeOK, IdsInv, CountInv, Calls
<1>5. ASSUME NEW p \in Pastes, PasteFails(p) PROVE IInv'
  <2>0. p \in Contents
    BY CallsAreContents DEF Calls
  <2>1. TypeOK'
    <3>1. p \in Calls /\ Return(p, "paste") /\ Put(p)
      BY <1>5 DEF PasteFails, Calls
    <3> QED BY <1>5, <2>0, <3>1, PutTypes, ReturnTypes
            DEF PasteFails, batch, TypeOK, IdsApart
  <2>2. IdsInv'
    BY <1>5 DEF PasteFails, Return, NoLocal, batch, IdsInv, TypeOK, Calls
  <2>3. CountInv'
    BY <1>5, <2>0, PutTypes
    DEF PasteFails, Return, Go, NoLocal, CountInv, TypeOK, Calls
  <2> QED BY <2>1, <2>2, <2>3
<1>6. ASSUME NEW p \in Pastes, Remember(p) PROVE IInv'
  <2>1. Original(p) \in Contents
    BY DEF Original, TypeOK, Calls
  <2>2. next_id' = next_id + 1
    BY <1>6 DEF Remember, FetchId
  <2>3. local' = [local EXCEPT ![p].restore_id = next_id,
                              ![p].snapshot = Original(p)]
    BY <1>6 DEF Remember
  <2>4. \A q \in Calls \ {p} : local'[q] = local[q]
    BY <2>3 DEF TypeOK
  <2>5. /\ local'[p].restore_id = next_id
        /\ local'[p].count = local[p].count
    BY <2>3 DEF TypeOK, Calls
  <2>6. local' \in [Calls -> [snapshot : Contents, count : Nat, restore_id : Nat]]
    <3>1. local[p] \in [snapshot : Contents, count : Nat, restore_id : Nat]
          /\ next_id \in Nat
      BY DEF TypeOK, Calls
    <3>2. [local[p] EXCEPT !.restore_id = next_id, !.snapshot = Original(p)]
            \in [snapshot : Contents, count : Nat, restore_id : Nat]
      BY <2>1, <3>1
    <3>3. local' = [local EXCEPT ![p] = [local[p] EXCEPT !.restore_id = next_id,
                                                        !.snapshot = Original(p)]]
      BY <2>3
    <3> QED BY <3>2, <3>3 DEF TypeOK
  <2>7. IdsInv'
    BY <2>2, <2>4, <2>5 DEF IdsInv, TypeOK, Calls
  <2>8. \A q, r \in Pastes :
          local'[q].restore_id = local'[r].restore_id
          => q = r \/ local'[q].restore_id = 0
    <3> TAKE q, r \in Pastes
    <3>1. CASE q # p /\ r # p
      BY <3>1, <2>4 DEF TypeOK, Calls
    <3>2. CASE q = p /\ r # p
      BY <3>2, <2>4, <2>5 DEF IdsInv, TypeOK, Calls
    <3>3. CASE q # p /\ r = p
      BY <3>3, <2>4, <2>5 DEF IdsInv, TypeOK, Calls
    <3> QED BY <3>1, <3>2, <3>3
  <2>9. TypeOK'
    <3>1. pending' \in [latest : Nat, original : Contents]
      BY <1>6, <2>1 DEF Remember, TypeOK
    <3>2. pc' = [pc EXCEPT ![p] = "waiting"]
      BY <1>6 DEF Remember, Go
    <3>3. next_id' \in Nat
      BY <2>2 DEF TypeOK
    <3>4. UNCHANGED <<contents, change_count, answer, wanted, unsure, apart, buried>>
      BY <1>6 DEF Remember, board
    <3>5. pc' \in [Calls -> Places]
      BY <3>2 DEF TypeOK
    <3> QED BY <2>6, <2>8, <3>1, <3>3, <3>4, <3>5 DEF TypeOK
  <2>10. CountInv'
    BY <1>6, <2>4, <2>5 DEF Remember, Go, board, CountInv, TypeOK, Calls
  <2> QED BY <2>7, <2>9, <2>10
<1>7. ASSUME NEW p \in Pastes, RestoreOutdated(p) PROVE IInv'
  <2>1. p \in Calls /\ Return(p, "waiting")
    BY <1>7 DEF RestoreOutdated, Calls
  <2>2. TypeOK'
    BY <1>7, <2>1, ReturnTypes DEF RestoreOutdated, board, batch, TypeOK, IdsApart
  <2>3. IdsInv'
    BY <1>7, <2>1, ReturnTypes
    DEF RestoreOutdated, batch, IdsInv, NoLocal, TypeOK, Calls
  <2>4. CountInv'
    BY <1>7, <2>1, ReturnTypes
    DEF RestoreOutdated, board, CountInv, NoLocal, TypeOK, Calls
  <2> QED BY <2>2, <2>3, <2>4
<1>8. ASSUME NEW p \in Pastes, RestoreDue(p) \/ RestoreSkipped(p) PROVE IInv'
  <2>1. Arrives(p) /\ (Go(p, "waiting", "restore") \/ Go(p, "waiting", "clear"))
        /\ UNCHANGED <<board, batch, local, answer, wanted, unsure, buried>>
    BY <1>8 DEF RestoreDue, RestoreSkipped
  <2>2. apart' \in BOOLEAN
    BY <2>1, ArrivesTypes
  <2> QED
    BY <2>1, <2>2 DEF Go, board, batch, TypeOK, IdsInv, CountInv, Calls
<1>9. ASSUME NEW p \in Pastes, Restore(p) PROVE IInv'
  <2>0. local[p].snapshot \in Contents
    BY DEF TypeOK, Calls
  <2>1. TypeOK'
    BY <1>9, <2>0, PutTypes DEF Restore, Go, batch, TypeOK
  <2>2. IdsInv'
    BY <1>9 DEF Restore, batch, IdsInv
  <2>3. CountInv'
    BY <1>9, <2>0, PutTypes DEF Restore, Go, CountInv, TypeOK, Calls
  <2> QED BY <2>1, <2>2, <2>3
<1>10. ASSUME NEW p \in Pastes, ClearPending(p) PROVE IInv'
  <2>1. p \in Calls /\ Return(p, "clear")
    BY <1>10 DEF ClearPending, Calls
  <2>2. TypeOK'
    BY <1>10, <2>1, ReturnTypes DEF ClearPending, board, TypeOK, IdsApart
  <2>3. IdsInv'
    BY <1>10, <2>1, ReturnTypes DEF ClearPending, IdsInv, NoLocal, TypeOK, Calls
  <2>4. CountInv'
    BY <1>10, <2>1, ReturnTypes
    DEF ClearPending, board, CountInv, NoLocal, TypeOK, Calls
  <2> QED BY <2>2, <2>3, <2>4
<1>11. ASSUME NEW c \in Captures, CaptureStart(c) PROVE IInv'
  <2>1. apart' \in BOOLEAN /\ buried' \subseteq Contents
    BY <1>11, ArrivesTypes, BuryTypes DEF CaptureStart
  <2>2. local' = [local EXCEPT ![c].count = change_count, ![c].snapshot = contents]
        /\ c \in Calls /\ c \notin Pastes
    BY <1>11 DEF CaptureStart, Calls
  <2>3. \A p \in Pastes : local'[p] = local[p]
    BY <2>2 DEF TypeOK, Calls
  <2>4. local' \in [Calls -> [snapshot : Contents, count : Nat, restore_id : Nat]]
    <3>1. local[c] \in [snapshot : Contents, count : Nat, restore_id : Nat]
          /\ change_count \in Nat /\ contents \in Contents
      BY DEF TypeOK, Calls
    <3>2. [local[c] EXCEPT !.count = change_count, !.snapshot = contents]
            \in [snapshot : Contents, count : Nat, restore_id : Nat]
      BY <3>1
    <3>3. local' = [local EXCEPT ![c] = [local[c] EXCEPT !.count = change_count,
                                                        !.snapshot = contents]]
      BY <2>2
    <3> QED BY <3>2, <3>3 DEF TypeOK
  <2>5. TypeOK'
    <3>1. UNCHANGED <<contents, change_count, pending, next_id, answer, wanted, unsure>>
      BY <1>11 DEF CaptureStart, board, batch
    <3>2. pc' \in [Calls -> Places]
      BY <1>11 DEF CaptureStart, Go, TypeOK
    <3> QED BY <2>1, <2>3, <2>4, <3>1, <3>2 DEF TypeOK
  <2>6. IdsInv' /\ CountInv'
    BY <1>11, <2>3 DEF CaptureStart, Go, board, batch, IdsInv, CountInv, TypeOK, Calls
  <2> QED BY <2>5, <2>6
<1>12. ASSUME NEW c \in Captures, CopyKey(c) PROVE IInv'
  BY <1>12 DEF CopyKey, Go, board, batch, TypeOK, IdsInv, CountInv, Calls
<1>13. ASSUME NEW c \in Captures, CopyKeyFails(c) PROVE IInv'
  BY <1>13 DEF CopyKeyFails, Return, Go, NoLocal, board, batch, TypeOK, IdsInv,
       CountInv, Calls, Contents
<1>14. ASSUME NEW c \in Captures, SeesChange(c) PROVE IInv'
  BY <1>14 DEF SeesChange, board, batch, TypeOK, IdsInv, CountInv, Calls
<1>15. ASSUME NEW c \in Captures, GivesUp(c) PROVE IInv'
  BY <1>15 DEF GivesUp, Return, Go, NoLocal, board, batch, TypeOK, IdsInv, CountInv,
       Calls, Contents
<1>16. ASSUME NEW c \in Captures, PutBack(c) PROVE IInv'
  <2>0. local[c].snapshot \in Contents
    BY DEF TypeOK, Calls
  <2>1. TypeOK'
    BY <1>16, <2>0, PutTypes
    DEF PutBack, Return, Go, NoLocal, batch, TypeOK, Contents, Calls
  <2>2. IdsInv'
    BY <1>16 DEF PutBack, Return, NoLocal, batch, IdsInv, TypeOK, Calls
  <2>3. CountInv'
    BY <1>16, <2>0, PutTypes
    DEF PutBack, Return, Go, NoLocal, CountInv, TypeOK, Calls
  <2> QED BY <2>1, <2>2, <2>3
<1>17. ASSUME NEW c \in Captures, AppAnswers(c) PROVE IInv'
  <2>0. c \in Contents
    BY CallsAreContents DEF Calls
  <2>1. TypeOK'
    BY <1>17, <2>0, PutTypes DEF AppAnswers, batch, TypeOK
  <2>2. IdsInv'
    BY <1>17 DEF AppAnswers, batch, IdsInv
  <2>3. CountInv'
    BY <1>17, <2>0, PutTypes DEF AppAnswers, CountInv, TypeOK, Calls
  <2> QED BY <2>1, <2>2, <2>3
<1>18. ASSUME NEW u \in Copies, Copy(u) PROVE IInv'
  <2>0. u \in Contents
    BY CallsAreContents DEF Calls
  <2>1. TypeOK'
    BY <1>18, <2>0, PutTypes DEF Copy, Go, Arrives, batch, TypeOK
  <2>2. IdsInv'
    BY <1>18 DEF Copy, batch, IdsInv
  <2>3. CountInv'
    BY <1>18, <2>0, PutTypes DEF Copy, Go, CountInv, TypeOK, Calls
  <2> QED BY <2>1, <2>2, <2>3
<1>19. CASE UNCHANGED vars
  BY <1>19 DEF vars, board, batch, TypeOK, IdsInv, CountInv
<1> QED
  BY <1>1, <1>2, <1>3, <1>4, <1>5, <1>6, <1>7, <1>8, <1>9, <1>10, <1>11, <1>12,
     <1>13, <1>14, <1>15, <1>16, <1>17, <1>18, <1>19
  DEF Next, PasteStep, CaptureStep, AllDone

LEMMA SpecIInv == Spec => []IInv
  BY InitIInv, NextIInv, PTL DEF Spec

\* The state keeps its types, and no two restores ever share an id, for any calls.
THEOREM ClipboardTypeCorrect == Spec => []TypeOK
<1>1. IInv => TypeOK
  BY DEF IInv
<1> QED BY <1>1, SpecIInv, PTL

\* A restore that decides to write finds the text of its own paste: what the user
\* or an app copied since is never overwritten by that decision, for any calls.
THEOREM RestoresOnlyItsTextAlways == Spec => RestoresOnlyItsText
<1> DEFINE Own == \A p \in Pastes :
                    pc[p] = "waiting" /\ pc'[p] = "restore" /\ p \notin unsure
                    => contents = p
<1>1. ASSUME IInv, Next PROVE Own
  <2> SUFFICES ASSUME NEW p \in Pastes, pc[p] = "waiting", pc'[p] = "restore",
                      p \notin unsure
               PROVE  contents = p
    OBVIOUS
  <2>1. RestoreDue(p)
    <3>1. CASE \E q \in Pastes : TakeSnapshot(q) \/ WriteText(q) \/ ReadCount(q)
                 \/ SimulatePaste(q) \/ PasteFails(q) \/ Remember(q)
      BY <3>1, <1>1 DEF TakeSnapshot, WriteText, ReadCount, SimulatePaste,
           PasteFails, Remember, Return, Go, IInv, TypeOK, Calls
    <3>2. CASE \E q \in Pastes : RestoreOutdated(q) \/ RestoreSkipped(q)
                 \/ Restore(q) \/ ClearPending(q)
      BY <3>2, <1>1 DEF RestoreOutdated, RestoreSkipped, Restore, ClearPending,
           Return, Go, IInv, TypeOK, Calls
    <3>3. CASE \E q \in Pastes : RestoreDue(q)
      BY <3>3, <1>1 DEF RestoreDue, Go, IInv, TypeOK, Calls
    <3>4. CASE \E c \in Captures : CaptureStart(c) \/ CopyKey(c) \/ CopyKeyFails(c)
                 \/ SeesChange(c) \/ GivesUp(c) \/ PutBack(c) \/ AppAnswers(c)
      BY <3>4, <1>1 DEF CaptureStart, CopyKey, CopyKeyFails, SeesChange, GivesUp,
           PutBack, AppAnswers, Return, Go, IInv, TypeOK, Calls
    <3>5. CASE \E u \in Copies : Copy(u)
      BY <3>5, <1>1 DEF Copy, Go, IInv, TypeOK, Calls
    <3>6. CASE AllDone
      BY <3>6 DEF AllDone, vars
    <3> QED BY <1>1, <3>1, <3>2, <3>3, <3>4, <3>5, <3>6
            DEF Next, PasteStep, CaptureStep
  <2>2. local[p].count = change_count
    BY <2>1 DEF RestoreDue, StillOurs
  <2> QED
    BY <1>1, <2>2 DEF IInv, CountInv
<1>2. IInv /\ [Next]_vars => [Own]_vars
  BY <1>1
<1> QED BY <1>2, SpecIInv, PTL DEF Spec, RestoresOnlyItsText

-----------------------------------------------------------------------------
(* What comes back.                                                        *)

\* The restore that pending names is waiting or at work, with the original as its snapshot; a
\* count that a call read is not ahead; and the app answers after it was asked.
LatestInv ==
    /\ \A x \in Calls : local[x].count <= change_count
    /\ \A p \in Pastes : IsLatest(p) => /\ pc[p] \in {"waiting", "restore", "clear"}
                                        /\ local[p].snapshot = pending.original
    /\ pending # None => pending.latest > 0 /\ \E p \in Pastes : IsLatest(p)
    /\ \A c \in Captures : answer[c] = "asked" => pc[c] \in {"wait", "watch", "putback", "done"}

LEMMA OneLatest ==
    ASSUME TypeOK, LatestInv, NEW p \in Pastes, NEW q \in Pastes, IsLatest(p), IsLatest(q)
    PROVE  p = q
<1>1. pending.latest > 0 /\ local[p].restore_id = local[q].restore_id
  BY DEF LatestInv, IsLatest
<1>2. local[p].restore_id # 0
  BY <1>1 DEF IsLatest
<1> QED BY <1>1, <1>2 DEF TypeOK

\* A step that leaves pending alone, and the call it names where it waits or works.
LEMMA LatestKeep ==
    ASSUME LatestInv, UNCHANGED <<pending, answer>>,
           \A x \in Calls : local'[x].count <= change_count',
           \A p \in Pastes :
             IsLatest(p) => /\ local'[p].restore_id = local[p].restore_id
                            /\ local'[p].snapshot = local[p].snapshot
                            /\ pc'[p] \in {"waiting", "restore", "clear"},
           \A p \in Pastes : local'[p].restore_id \in {local[p].restore_id, 0},
           \A c \in Captures : pc'[c] = pc[c] \/ pc'[c] \in {"watch", "putback", "done"}
                                 \/ answer[c] # "asked"
    PROVE  LatestInv'
<1>1. ASSUME NEW p \in Pastes, IsLatest(p)' PROVE IsLatest(p)
  BY <1>1 DEF IsLatest, LatestInv
<1>2. ASSUME NEW p \in Pastes, IsLatest(p) PROVE IsLatest(p)'
  BY <1>2 DEF IsLatest
<1>3. \A p \in Pastes : IsLatest(p)' => /\ pc'[p] \in {"waiting", "restore", "clear"}
                                        /\ local'[p].snapshot = pending'.original
  BY <1>1 DEF LatestInv
<1>4. pending' # None => pending'.latest > 0 /\ \E p \in Pastes : IsLatest(p)'
  BY <1>2 DEF LatestInv
<1>5. \A c \in Captures :
        answer'[c] = "asked" => pc'[c] \in {"wait", "watch", "putback", "done"}
  BY DEF LatestInv
<1> QED BY <1>3, <1>4, <1>5 DEF LatestInv

LEMMA LatestInit == Init => LatestInv
  BY ClipboardAssumption DEF Init, LatestInv, IsLatest, NoLocal, Calls

LEMMA LatestStep == IInv /\ LatestInv /\ [Next]_vars => LatestInv'
<1> SUFFICES ASSUME IInv, LatestInv, [Next]_vars PROVE LatestInv'
  OBVIOUS
<1>0. /\ change_count \in Nat /\ next_id \in Nat
      /\ pc \in [Calls -> Places]
      /\ local \in [Calls -> [snapshot : Contents, count : Nat, restore_id : Nat]]
      /\ answer \in [Captures -> {"none", "asked", "given"}]
      /\ Pastes \subseteq Calls /\ Captures \subseteq Calls /\ Pastes \cap Captures = {}
      /\ TypeOK /\ next_id > 0
      /\ \A x \in Calls : local[x].count <= change_count
  BY ClipboardAssumption DEF IInv, IdsInv, LatestInv, TypeOK, Calls
<1>a. NoLocal.count = 0 /\ NoLocal.restore_id = 0
  BY DEF NoLocal
\* A step in which a call goes on and what it keeps stays.
<1>1. ASSUME NEW x \in Calls, NEW l, pc' = [pc EXCEPT ![x] = l],
             UNCHANGED <<pending, answer, local>>, change_count' \in {change_count, change_count + 1},
             x \in Pastes => ~IsLatest(x) \/ l \in {"waiting", "restore", "clear"},
             x \in Captures => l \in {"watch", "putback", "done"} \/ answer[x] # "asked"
      PROVE  LatestInv'
  <2>1. \A y \in Calls : local'[y].count <= change_count'
    BY <1>0, <1>1
  <2>2. \A p \in Pastes : IsLatest(p) => pc'[p] \in {"waiting", "restore", "clear"}
    BY <1>0, <1>1 DEF LatestInv
  <2>3. \A c \in Captures : pc'[c] = pc[c] \/ pc'[c] \in {"watch", "putback", "done"}
                              \/ answer[c] # "asked"
    BY <1>0, <1>1
  <2> QED BY <1>1, <2>1, <2>2, <2>3, LatestKeep
\* A call that returns: it is not the latest.
<1>2. ASSUME NEW x \in Calls, NEW from, Return(x, from),
             UNCHANGED <<pending, answer>>, change_count' \in {change_count, change_count + 1},
             x \in Pastes => ~IsLatest(x)
      PROVE  LatestInv'
  <2>1. pc' = [pc EXCEPT ![x] = "done"] /\ local' = [local EXCEPT ![x] = NoLocal]
    BY <1>2 DEF Return, Go
  <2>2. /\ local'[x] = NoLocal /\ pc'[x] = "done"
        /\ \A y \in Calls \ {x} : local'[y] = local[y] /\ pc'[y] = pc[y]
    BY <1>0, <2>1
  <2>3. \A y \in Calls : local'[y].count <= change_count'
    BY <1>0, <1>2, <1>a, <2>2
  <2>4. \A p \in Pastes :
          IsLatest(p) => local'[p] = local[p] /\ pc'[p] \in {"waiting", "restore", "clear"}
    BY <1>0, <1>2, <2>2 DEF LatestInv
  <2>5. \A p \in Pastes : local'[p].restore_id \in {local[p].restore_id, 0}
    BY <1>0, <1>a, <2>2
  <2>6. \A c \in Captures : pc'[c] = pc[c] \/ pc'[c] = "done"
    BY <1>0, <2>2
  <2> QED BY <1>2, <2>3, <2>4, <2>5, <2>6, LatestKeep
<1>3. CASE UNCHANGED vars
  BY <1>0, <1>3, LatestKeep DEF vars, board, batch, LatestInv
<1>4. ASSUME NEW p \in Pastes, TakeSnapshot(p) \/ PasteStep(p)
      PROVE  LatestInv'
  <2>0. IsLatest(p) => pc[p] \in {"waiting", "restore", "clear"}
    BY DEF LatestInv
  <2>1. CASE TakeSnapshot(p)
    <3>1. /\ pc' = [pc EXCEPT ![p] = "write"] /\ pc[p] = "ready"
          /\ local' = [local EXCEPT ![p].snapshot = contents]
          /\ UNCHANGED <<pending, answer, change_count>>
      BY <2>1 DEF TakeSnapshot, Go, board, batch
    <3>2. /\ \A y \in Calls \ {p} : local'[y] = local[y] /\ pc'[y] = pc[y]
          /\ local'[p].count = local[p].count /\ local'[p].restore_id = local[p].restore_id
      BY <1>0, <3>1
    <3>3. \A q \in Pastes : IsLatest(q) => q # p
      BY <3>1 DEF LatestInv
    <3> QED BY <1>0, <3>1, <3>2, <3>3, LatestKeep DEF LatestInv
  <2>2. CASE ReadCount(p)
    <3>1. /\ pc' = [pc EXCEPT ![p] = "paste"] /\ pc[p] = "count"
          /\ local' = [local EXCEPT ![p].count = change_count]
          /\ UNCHANGED <<pending, answer, change_count>>
      BY <2>2 DEF ReadCount, Go, board, batch
    <3>2. /\ \A y \in Calls \ {p} : local'[y] = local[y] /\ pc'[y] = pc[y]
          /\ local'[p].count = change_count /\ local'[p].restore_id = local[p].restore_id
      BY <1>0, <3>1
    <3>3. \A q \in Pastes : IsLatest(q) => q # p
      BY <3>1 DEF LatestInv
    <3> QED BY <1>0, <3>1, <3>2, <3>3, LatestKeep DEF LatestInv
  <2>3. CASE Remember(p)
    <3>1. /\ pc' = [pc EXCEPT ![p] = "waiting"] /\ UNCHANGED <<answer, change_count>>
          /\ local' = [local EXCEPT ![p].restore_id = next_id, ![p].snapshot = Original(p)]
          /\ pending' = [latest |-> next_id, original |-> Original(p)]
      BY <2>3 DEF Remember, Go, board
    <3>2. /\ \A y \in Calls \ {p} : local'[y] = local[y] /\ pc'[y] = pc[y]
          /\ local'[p].count = local[p].count /\ local'[p].restore_id = next_id
          /\ local'[p].snapshot = Original(p) /\ pc'[p] = "waiting"
      BY <1>0, <3>1
    <3>3. pending' # None /\ pending'.latest = next_id /\ pending'.original = Original(p)
      <4>1. Original(p) \in Calls \cup {None}
        BY <1>0 DEF Original, TypeOK, Contents
      <4>2. pending' \in [latest : Nat, original : Calls \cup {None}]
        BY <1>0, <3>1, <4>1
      <4> QED BY <3>1, <4>2, ClipboardAssumption
    <3>4. \A q \in Pastes : IsLatest(q)' <=> q = p
      BY <1>0, <3>2, <3>3 DEF IsLatest, IInv, IdsInv
    <3>5. \A x \in Calls : local'[x].count <= change_count'
      BY <1>0, <3>1, <3>2
    <3>6. \A c \in Captures : pc'[c] = pc[c]
      BY <1>0, <3>2
    <3> QED BY <1>0, <3>1, <3>2, <3>3, <3>4, <3>5, <3>6 DEF LatestInv
  <2>4. CASE ClearPending(p)
    <3>1. CASE ~IsLatest(p)
      BY <1>0, <1>2, <2>4, <3>1 DEF ClearPending, board
    <3>2. CASE IsLatest(p)
      <4>1. /\ pending' = None /\ UNCHANGED <<answer, change_count>>
            /\ pc' = [pc EXCEPT ![p] = "done"] /\ local' = [local EXCEPT ![p] = NoLocal]
        BY <2>4, <3>2 DEF ClearPending, Return, Go, board
      <4>2. \A x \in Calls : local'[x].count <= change_count'
        BY <1>0, <1>a, <4>1
      <4>3. \A c \in Captures : pc'[c] = pc[c]
        BY <1>0, <4>1
      <4> QED BY <4>1, <4>2, <4>3 DEF LatestInv, IsLatest
    <3> QED BY <3>1, <3>2
  <2>5. CASE PasteFails(p) \/ RestoreOutdated(p)
    <3>1. PICK from : /\ Return(p, from) /\ UNCHANGED <<pending, answer>>
                      /\ change_count' \in {change_count, change_count + 1}
                      /\ ~IsLatest(p)
      BY <2>0, <2>5 DEF PasteFails, RestoreOutdated, Return, Go, Put, board, batch
    <3> QED BY <1>0, <1>2, <3>1
  <2>6. CASE \/ WriteText(p) \/ SimulatePaste(p) \/ RestoreDue(p) \/ RestoreSkipped(p)
             \/ Restore(p)
    <3>1. PICK l : /\ pc' = [pc EXCEPT ![p] = l] /\ UNCHANGED <<pending, answer, local>>
                   /\ change_count' \in {change_count, change_count + 1}
                   /\ pc[p] \in {"waiting", "restore", "clear"} => l \in {"waiting", "restore", "clear"}
      BY <2>6 DEF WriteText, SimulatePaste, RestoreDue, RestoreSkipped, Restore, Go, Put,
         board, batch
    <3> QED BY <1>0, <1>1, <2>0, <3>1
  <2> QED BY <1>4, <2>1, <2>2, <2>3, <2>4, <2>5, <2>6 DEF PasteStep
<1>5. ASSUME NEW c \in Captures, CaptureStart(c) \/ CaptureStep(c) \/ AppAnswers(c)
      PROVE  LatestInv'
  <2>1. CASE CaptureStart(c)
    <3>1. /\ pc' = [pc EXCEPT ![c] = "ask"] /\ pc[c] = "ready"
          /\ local' = [local EXCEPT ![c].count = change_count, ![c].snapshot = contents]
          /\ UNCHANGED <<pending, answer, change_count>>
      BY <2>1 DEF CaptureStart, Go, board, batch
    <3>2. /\ \A y \in Calls \ {c} : local'[y] = local[y] /\ pc'[y] = pc[y]
          /\ local'[c].count = change_count
      BY <1>0, <3>1
    <3>3. answer[c] # "asked"
      BY <3>1 DEF LatestInv
    <3>4. \A x \in Calls : local'[x].count <= change_count'
      BY <1>0, <3>1, <3>2
    <3>5. \A q \in Pastes : local'[q] = local[q] /\ pc'[q] = pc[q]
      BY <1>0, <3>2
    <3>6. \A d \in Captures : pc'[d] = pc[d] \/ answer[d] # "asked"
      BY <1>0, <3>2, <3>3
    <3> QED BY <3>1, <3>4, <3>5, <3>6, LatestKeep DEF LatestInv
  <2>2. CASE CopyKey(c)
    <3>1. /\ pc' = [pc EXCEPT ![c] = "wait"] /\ answer' = [answer EXCEPT ![c] = "asked"]
          /\ UNCHANGED <<pending, change_count, local>>
      BY <2>2 DEF CopyKey, Go, board, batch
    <3>2. \A q \in Pastes : (IsLatest(q)' <=> IsLatest(q)) /\ pc'[q] = pc[q]
      BY <1>0, <3>1 DEF IsLatest
    <3>3. \A d \in Captures :
            answer'[d] = "asked" => pc'[d] \in {"wait", "watch", "putback", "done"}
      BY <1>0, <3>1 DEF LatestInv
    <3> QED BY <3>1, <3>2, <3>3 DEF LatestInv
  <2>3. CASE SeesChange(c) \/ (GivesUp(c) /\ UNCHANGED local)
    <3>1. PICK l \in {"watch", "putback", "done"} :
            pc' = [pc EXCEPT ![c] = l] /\ UNCHANGED <<pending, answer, local, change_count>>
      BY <2>3 DEF SeesChange, GivesUp, Return, Go, board, batch
    <3> QED BY <1>0, <1>1, <3>1
  <2>4. CASE \/ CopyKeyFails(c) \/ PutBack(c) \/ (GivesUp(c) /\ ~UNCHANGED local)
    <3>1. PICK from : /\ Return(c, from) /\ UNCHANGED <<pending, answer>>
                      /\ change_count' \in {change_count, change_count + 1}
      BY <2>4 DEF CopyKeyFails, PutBack, GivesUp, Put, board, batch
    <3> QED BY <1>0, <1>2, <3>1
  <2>5. CASE AppAnswers(c)
    <3>1. /\ answer' = [answer EXCEPT ![c] = "given"] /\ UNCHANGED <<pending, pc, local>>
          /\ change_count' = change_count + 1
      BY <2>5 DEF AppAnswers, Put, batch
    <3>2. \A q \in Pastes : IsLatest(q)' <=> IsLatest(q)
      BY <3>1 DEF IsLatest
    <3>3. \A d \in Captures :
            answer'[d] = "asked" => pc'[d] \in {"wait", "watch", "putback", "done"}
      BY <1>0, <3>1 DEF LatestInv
    <3>4. \A x \in Calls : local'[x].count <= change_count'
      BY <1>0, <3>1
    <3> QED BY <3>1, <3>2, <3>3, <3>4 DEF LatestInv
  <2> QED BY <1>5, <2>1, <2>2, <2>3, <2>4, <2>5 DEF CaptureStep
<1>6. ASSUME NEW u \in Copies, Copy(u)
      PROVE  LatestInv'
  <2>1. /\ pc' = [pc EXCEPT ![u] = "done"] /\ change_count' = change_count + 1
        /\ UNCHANGED <<pending, answer, local>>
    BY <1>6 DEF Copy, Go, Put, batch
  <2>2. u \in Calls /\ u \notin Pastes /\ u \notin Captures
    BY ClipboardAssumption DEF Calls
  <2> QED BY <1>0, <1>1, <2>1, <2>2
<1> QED BY <1>3, <1>4, <1>5, <1>6 DEF Next, AllDone

\* What is wanted or given up was put there by a call that is over.
OverInv ==
    /\ TypeOK
    /\ \A x \in Calls : x = wanted \/ x \in buried => pc[x] = "done"

\* The restore that waits will bring back what was wanted, or finds it there.
WillBeBack ==
    \A p \in Pastes :
      IsLatest(p) => IF StillOurs(p) THEN pending.original = wanted ELSE contents = wanted

\* Nobody is borrowing, and what is wanted is there, or will be.
Rests ==
    /\ \A x \in Calls : ~Middle(x)
    /\ wanted \notin buried => (pending = None => contents = wanted) /\ WillBeBack

\* Call x is in the middle of what it does, and no other.
Alone(x) == Middle(x) /\ \A y \in Calls \ {x} : ~Middle(y)

\* Paste p is: it has what was wanted, or will take it over from the one that waits.
Pasting(p) ==
    /\ Alone(p)
    /\ pc[p] \in {"paste", "remember"} => StillOurs(p)
    /\ pc[p] \in {"restore", "clear"} => IsLatest(p)
    /\ wanted \notin buried =>
         /\ pc[p] \in {"write", "count", "paste", "remember"} => Original(p) = wanted
         /\ pc[p] = "restore" => local[p].snapshot = wanted
         /\ pc[p] = "clear" => contents = wanted

\* Capture c is: it has what was wanted, which stays there until the app answers.
Capturing(c) ==
    /\ Alone(c)
    /\ pc[c] = "ask" => change_count = local[c].count
    /\ wanted \notin buried =>
         /\ local[c].snapshot = wanted
         /\ pc[c] # "putback" /\ change_count = local[c].count =>
              contents = wanted /\ WillBeBack

ApartInv ==
    apart => \/ Rests
             \/ \E p \in Pastes : Pasting(p)
             \/ \E c \in Captures : Capturing(c)

\* A call in the middle of something is the one the others leave alone.
LEMMA MiddleIsAlone ==
    ASSUME ApartInv, apart, NEW x \in Calls, Middle(x)
    PROVE  (x \in Pastes /\ Pasting(x)) \/ (x \in Captures /\ Capturing(x))
<1>1. ~Rests
  BY DEF Rests
<1>2. ASSUME NEW y \in Calls, Alone(y) PROVE x = y
  BY <1>2 DEF Alone
<1> QED BY <1>1, <1>2 DEF ApartInv, Pasting, Capturing, Calls

\* When nobody is, and when one arrives apart, all is at rest.
LEMMA NobodyRests ==
    ASSUME ApartInv, apart, \A y \in Calls : ~Middle(y)
    PROVE  Rests
  BY DEF ApartInv, Pasting, Capturing, Alone, Calls

LEMMA ArrivesRests ==
    ASSUME ApartInv, NEW x \in Calls, Arrives(x), apart', ~Middle(x)
    PROVE  apart /\ Rests
<1>1. apart /\ \A y \in Calls : ~Middle(y)
  BY DEF Arrives
<1> QED BY <1>1, NobodyRests

LEMMA OverInit == Init => OverInv
  BY ClipboardAssumption, InitIInv DEF Init, OverInv, IInv, Calls

\* A step in which the calls that are over stay so, and what is wanted and what is
\* given up were so before, or are a call that is over now.
LEMMA OverStep == IInv /\ OverInv /\ [Next]_vars => OverInv'
<1> SUFFICES ASSUME IInv, OverInv, [Next]_vars
             PROVE  \A x \in Calls : x = wanted' \/ x \in buried' => pc'[x] = "done"
  BY NextIInv DEF OverInv, IInv
<1>0. /\ pc \in [Calls -> Places] /\ Pastes \subseteq Calls
      /\ Captures \subseteq Calls /\ Copies \subseteq Calls
  BY DEF IInv, TypeOK, Calls
<1>1. ASSUME UNCHANGED <<wanted, buried>> \/ (UNCHANGED wanted /\ \E lost : Bury(lost)),
             \A x \in Calls : pc[x] = "done" => pc'[x] = "done"
      PROVE  \A x \in Calls : x = wanted' \/ x \in buried' => pc'[x] = "done"
  BY <1>1 DEF OverInv, Bury
<1>2. ASSUME NEW x \in Calls, wanted' = x, pc' = [pc EXCEPT ![x] = "done"], UNCHANGED buried
      PROVE  \A y \in Calls : y = wanted' \/ y \in buried' => pc'[y] = "done"
  BY <1>0, <1>2 DEF OverInv
<1>3. ASSUME NEW p \in Pastes, TakeSnapshot(p) \/ PasteStep(p)
      PROVE  \A x \in Calls : x = wanted' \/ x \in buried' => pc'[x] = "done"
  <2>1. CASE TakeSnapshot(p)
    BY <1>0, <1>1, <2>1 DEF TakeSnapshot, Go
  <2>2. CASE WriteText(p) \/ ReadCount(p) \/ SimulatePaste(p) \/ Remember(p)
    BY <1>0, <1>1, <2>2 DEF WriteText, ReadCount, SimulatePaste, Remember, Go
  <2>3. CASE PasteFails(p)
    BY <1>0, <1>2, <2>3 DEF PasteFails, Return, Go
  <2>4. CASE RestoreOutdated(p) \/ RestoreDue(p) \/ RestoreSkipped(p) \/ Restore(p)
             \/ ClearPending(p)
    BY <1>0, <1>1, <2>4
    DEF RestoreOutdated, RestoreDue, RestoreSkipped, Restore, ClearPending, Return, Go
  <2> QED BY <1>3, <2>1, <2>2, <2>3, <2>4 DEF PasteStep
<1>4. ASSUME NEW c \in Captures, CaptureStart(c) \/ CaptureStep(c) \/ AppAnswers(c)
      PROVE  \A x \in Calls : x = wanted' \/ x \in buried' => pc'[x] = "done"
  <2>1. CASE CaptureStart(c)
    BY <1>0, <1>1, <2>1 DEF CaptureStart, Go
  <2>2. CASE CaptureStep(c) \/ AppAnswers(c)
    BY <1>0, <1>1, <2>2
    DEF CaptureStep, CopyKey, CopyKeyFails, SeesChange, GivesUp, PutBack, AppAnswers,
        Return, Go
  <2> QED BY <1>4, <2>1, <2>2
<1>5. ASSUME NEW u \in Copies, Copy(u)
      PROVE  \A x \in Calls : x = wanted' \/ x \in buried' => pc'[x] = "done"
  BY <1>0, <1>2, <1>5 DEF Copy, Go
<1>6. CASE UNCHANGED vars
  BY <1>1, <1>6 DEF vars
<1> QED BY <1>3, <1>4, <1>5, <1>6 DEF Next, AllDone

LEMMA ApartInit == Init => ApartInv
  BY DEF Init, ApartInv, Rests, WillBeBack, Middle, IsLatest

\* The steps of a paste.
LEMMA ApartPaste ==
    ASSUME IInv, LatestInv, LatestInv', OverInv, ApartInv, apart',
           NEW p \in Pastes, TakeSnapshot(p) \/ PasteStep(p)
    PROVE  Rests' \/ (\E q \in Pastes : Pasting(q)') \/ (\E c \in Captures : Capturing(c)')
<1>0. /\ change_count \in Nat /\ TypeOK
      /\ pc \in [Calls -> Places]
      /\ local \in [Calls -> [snapshot : Contents, count : Nat, restore_id : Nat]]
      /\ Pastes \subseteq Calls /\ p \in Calls /\ p \notin Captures
      /\ \A x \in Calls : local[x].count <= change_count
  BY ClipboardAssumption DEF IInv, LatestInv, TypeOK, Calls
<1>a. Middle(p) /\ apart => Pasting(p)
  BY <1>0, MiddleIsAlone
\* What stays of the others when only p goes on.
<1>b. ASSUME NEW l \in Places, pc' = [pc EXCEPT ![p] = l]
      PROVE  /\ pc'[p] = l
             /\ \A y \in Calls \ {p} : pc'[y] = pc[y] /\ (Middle(y)' <=> Middle(y))
             /\ Middle(p)' <=> l \notin {"ready", "waiting", "done"}
  BY <1>0, <1>b DEF Middle
<1>c. ASSUME Alone(p) \/ \A y \in Calls : ~Middle(y), NEW l \in Places, pc' = [pc EXCEPT ![p] = l]
      PROVE  IF l \in {"ready", "waiting", "done"} THEN \A y \in Calls : ~Middle(y)' ELSE Alone(p)'
  BY <1>b, <1>c DEF Alone
<1>1. CASE TakeSnapshot(p)
  <2>1. /\ pc' = [pc EXCEPT ![p] = "write"] /\ pc[p] = "ready"
        /\ local' = [local EXCEPT ![p].snapshot = contents]
        /\ UNCHANGED <<board, batch, wanted>>
        /\ Bury(pending # None /\ pending.original # wanted)
    BY <1>1 DEF TakeSnapshot, Go
  <2>2. apart /\ Rests
    BY <1>0, <1>1, <2>1, ArrivesRests DEF TakeSnapshot, Middle
  <2>3. Alone(p)' /\ pc'[p] = "write"
    BY <1>b, <1>c, <2>1, <2>2 DEF Rests, Places
  <2>4. local'[p].snapshot = contents
    BY <1>0, <2>1
  <2>5. wanted' \notin buried' => Original(p)' = wanted'
    <3> SUFFICES ASSUME wanted' \notin buried' PROVE Original(p)' = wanted'
      OBVIOUS
    <3>1. wanted \notin buried /\ (pending = None \/ pending.original = wanted)
      BY <2>1 DEF Bury
    <3>2. CASE pending = None
      BY <2>1, <2>2, <2>4, <3>1, <3>2 DEF Original, Rests, batch
    <3>3. CASE pending # None
      BY <2>1, <3>1, <3>3 DEF Original, batch
    <3> QED BY <3>2, <3>3
  <2>6. Pasting(p)'
    BY <2>3, <2>5 DEF Pasting
  <2> QED BY <2>6
<1>2. CASE WriteText(p)
  <2>1. /\ pc' = [pc EXCEPT ![p] = "count"] /\ pc[p] = "write"
        /\ UNCHANGED <<batch, local, wanted, apart, buried>>
    BY <1>2 DEF WriteText, Go
  <2>2. Pasting(p)
    BY <1>a, <2>1 DEF Middle
  <2>3. Alone(p)' /\ pc'[p] = "count"
    BY <1>b, <1>c, <2>1, <2>2 DEF Pasting, Places
  <2>4. wanted' \notin buried' => Original(p)' = wanted'
    BY <2>1, <2>2 DEF Pasting, Original, batch
  <2>5. Pasting(p)'
    BY <2>3, <2>4 DEF Pasting
  <2> QED BY <2>5
<1>3. CASE ReadCount(p)
  <2>1. /\ pc' = [pc EXCEPT ![p] = "paste"] /\ pc[p] = "count"
        /\ local' = [local EXCEPT ![p].count = change_count]
        /\ UNCHANGED <<board, batch, wanted, apart, buried>>
    BY <1>3 DEF ReadCount, Go
  <2>2. Pasting(p)
    BY <1>a, <2>1 DEF Middle
  <2>3. Alone(p)' /\ pc'[p] = "paste"
    BY <1>b, <1>c, <2>1, <2>2 DEF Pasting, Places
  <2>4. local'[p].snapshot = local[p].snapshot /\ local'[p].count = change_count
    BY <1>0, <2>1
  <2>5. (wanted' \notin buried' => Original(p)' = wanted') /\ StillOurs(p)'
    BY <2>1, <2>2, <2>4 DEF Pasting, Original, StillOurs, batch, board
  <2>6. Pasting(p)'
    BY <2>3, <2>5 DEF Pasting
  <2> QED BY <2>6
<1>4. CASE SimulatePaste(p)
  <2>1. /\ pc' = [pc EXCEPT ![p] = "remember"] /\ pc[p] = "paste"
        /\ UNCHANGED <<board, batch, local, wanted, apart, buried>>
    BY <1>4 DEF SimulatePaste, Go
  <2>2. Pasting(p)
    BY <1>a, <2>1 DEF Middle
  <2>3. Alone(p)' /\ pc'[p] = "remember"
    BY <1>b, <1>c, <2>1, <2>2 DEF Pasting, Places
  <2>4. (wanted' \notin buried' => Original(p)' = wanted') /\ StillOurs(p)'
    BY <2>1, <2>2 DEF Pasting, Original, StillOurs, batch, board
  <2>5. Pasting(p)'
    BY <2>3, <2>4 DEF Pasting
  <2> QED BY <2>5
\* A refused paste: every count that was read is an old one now.
<1>5. CASE PasteFails(p)
  <2>1. /\ pc' = [pc EXCEPT ![p] = "done"] /\ pc[p] = "paste"
        /\ local' = [local EXCEPT ![p] = NoLocal]
        /\ contents' = p /\ wanted' = p /\ change_count' = change_count + 1
        /\ UNCHANGED <<batch, apart, buried>>
    BY <1>5 DEF PasteFails, Return, Go, Put
  <2>2. Pasting(p)
    BY <1>a, <2>1 DEF Middle
  <2>3. \A y \in Calls : ~Middle(y)'
    BY <1>c, <2>1, <2>2 DEF Pasting, Places
  <2>4. Rests'
    BY <2>1, <2>3, <1>0 DEF Rests, WillBeBack, StillOurs, NoLocal
  <2> QED BY <2>4
<1>6. CASE Remember(p)
  <2>1. /\ pc' = [pc EXCEPT ![p] = "waiting"] /\ pc[p] = "remember"
        /\ local' = [local EXCEPT ![p].restore_id = next_id, ![p].snapshot = Original(p)]
        /\ pending' = [latest |-> next_id, original |-> Original(p)]
        /\ UNCHANGED <<board, wanted, apart, buried>>
    BY <1>6 DEF Remember, Go
  <2>2. Pasting(p)
    BY <1>a, <2>1 DEF Middle
  <2>3. \A y \in Calls : ~Middle(y)'
    BY <1>c, <2>1, <2>2 DEF Pasting, Places
  <2>4. /\ local'[p].restore_id = next_id /\ local'[p].count = local[p].count
        /\ \A q \in Pastes \ {p} : local'[q] = local[q]
    BY <1>0, <2>1
  <2>5. /\ pending'.latest = next_id
        /\ wanted' \notin buried' => pending'.original = wanted'
    BY <2>1, <2>2 DEF Pasting
  <2>6. \A q \in Pastes : IsLatest(q)' => q = p
    BY <2>4, <2>5 DEF IsLatest, IInv, IdsInv, TypeOK
  <2>7. pending' # None
    <3>1. Original(p) \in Calls \cup {None}
      BY <1>0 DEF Original, TypeOK, Contents
    <3>2. pending' \in [latest : Nat, original : Calls \cup {None}]
      BY <1>0, <2>1, <3>1 DEF TypeOK
    <3> QED BY <3>2, ClipboardAssumption
  <2>8. StillOurs(p)'
    BY <2>1, <2>2, <2>4 DEF Pasting, StillOurs, board
  <2>9. Rests'
    BY <2>3, <2>5, <2>6, <2>7, <2>8 DEF Rests, WillBeBack
  <2> QED BY <2>9
\* It changes nothing that the others look at.
<1>7. CASE RestoreOutdated(p)
  <2>1. /\ pc' = [pc EXCEPT ![p] = "done"] /\ pc[p] = "waiting" /\ ~IsLatest(p)
        /\ local' = [local EXCEPT ![p] = NoLocal]
        /\ UNCHANGED <<board, batch, wanted, apart, buried>>
    BY <1>7 DEF RestoreOutdated, Return, Go
  <2>2. /\ \A y \in Calls \ {p} : local'[y] = local[y] /\ pc'[y] = pc[y]
        /\ pc'[p] = "done" /\ local'[p] = NoLocal
    BY <1>0, <2>1
  <2>3. \A y \in Calls : (Middle(y)' <=> Middle(y)) /\ (y # p => (Alone(y)' <=> Alone(y)))
    BY <2>1, <2>2 DEF Middle, Alone
  <2>4. ~IsLatest(p)'
    BY <2>1, <2>2 DEF IsLatest, NoLocal, LatestInv, batch
  <2>5. \A q \in Pastes \ {p} : (IsLatest(q)' <=> IsLatest(q)) /\ (StillOurs(q)' <=> StillOurs(q))
                                /\ Original(q)' = Original(q)
    BY <2>1, <2>2 DEF IsLatest, StillOurs, Original, batch, board
  <2>6. CASE Rests
    BY <2>1, <2>3, <2>4, <2>5, <2>6 DEF Rests, WillBeBack, batch, board
  <2>7. ASSUME NEW q \in Pastes, Pasting(q) PROVE Pasting(q)'
    <3>1. q # p
      BY <2>1, <2>7 DEF Pasting, Alone, Middle
    <3>2. pc'[q] = pc[q] /\ local'[q] = local[q] /\ Alone(q)'
      BY <1>0, <2>2, <2>3, <2>7, <3>1 DEF Pasting
    <3> QED BY <2>1, <2>5, <2>7, <3>1, <3>2 DEF Pasting, board, batch
  <2>8. ASSUME NEW c \in Captures, Capturing(c) PROVE Capturing(c)'
    <3>1. c # p /\ c \in Calls
      BY <1>0 DEF Calls
    <3>2. pc'[c] = pc[c] /\ local'[c] = local[c] /\ Alone(c)'
      BY <2>2, <2>3, <2>8, <3>1 DEF Capturing
    <3>3. WillBeBack => WillBeBack'
      BY <2>1, <2>4, <2>5 DEF WillBeBack, board, batch
    <3> QED BY <2>1, <2>8, <3>2, <3>3 DEF Capturing, board, batch
  <2> QED BY <2>1, <2>6, <2>7, <2>8 DEF ApartInv
<1>8. CASE RestoreDue(p)
  <2>1. /\ pc' = [pc EXCEPT ![p] = "restore"] /\ pc[p] = "waiting" /\ IsLatest(p) /\ StillOurs(p)
        /\ UNCHANGED <<board, batch, local, wanted, buried>>
    BY <1>8 DEF RestoreDue, Go
  <2>2. Rests
    BY <1>0, <1>8, <2>1, ArrivesRests DEF RestoreDue, Middle
  <2>3. Alone(p)' /\ pc'[p] = "restore"
    BY <1>b, <1>c, <2>1, <2>2 DEF Rests, Places
  <2>4. IsLatest(p)' /\ (wanted' \notin buried' => local'[p].snapshot = wanted')
    BY <2>1, <2>2 DEF IsLatest, Rests, WillBeBack, LatestInv, batch
  <2>5. Pasting(p)'
    BY <2>3, <2>4 DEF Pasting
  <2> QED BY <2>5
<1>9. CASE RestoreSkipped(p)
  <2>1. /\ pc' = [pc EXCEPT ![p] = "clear"] /\ pc[p] = "waiting" /\ IsLatest(p) /\ ~StillOurs(p)
        /\ UNCHANGED <<board, batch, local, wanted, buried>>
    BY <1>9 DEF RestoreSkipped, Go
  <2>2. Rests
    BY <1>0, <1>9, <2>1, ArrivesRests DEF RestoreSkipped, Middle
  <2>3. Alone(p)' /\ pc'[p] = "clear"
    BY <1>b, <1>c, <2>1, <2>2 DEF Rests, Places
  <2>4. IsLatest(p)' /\ (wanted' \notin buried' => contents' = wanted')
    BY <2>1, <2>2 DEF IsLatest, Rests, WillBeBack, batch, board
  <2>5. Pasting(p)'
    BY <2>3, <2>4 DEF Pasting
  <2> QED BY <2>5
<1>10. CASE Restore(p)
  <2>1. /\ pc' = [pc EXCEPT ![p] = "clear"] /\ pc[p] = "restore"
        /\ contents' = local[p].snapshot /\ UNCHANGED <<batch, local, wanted, apart, buried>>
    BY <1>10 DEF Restore, Go, Put
  <2>2. Pasting(p)
    BY <1>a, <2>1 DEF Middle
  <2>3. Alone(p)' /\ pc'[p] = "clear"
    BY <1>b, <1>c, <2>1, <2>2 DEF Pasting, Places
  <2>4. IsLatest(p)' /\ (wanted' \notin buried' => contents' = wanted')
    BY <2>1, <2>2 DEF Pasting, IsLatest, batch
  <2>5. Pasting(p)'
    BY <2>3, <2>4 DEF Pasting
  <2> QED BY <2>5
<1>11. CASE ClearPending(p)
  <2>1. /\ pc' = [pc EXCEPT ![p] = "done"] /\ pc[p] = "clear"
        /\ UNCHANGED <<board, wanted, apart, buried>>
        /\ pending' = IF IsLatest(p) THEN None ELSE pending
    BY <1>11 DEF ClearPending, Return, Go
  <2>2. Pasting(p)
    BY <1>a, <2>1 DEF Middle
  <2>3. \A y \in Calls : ~Middle(y)'
    BY <1>c, <2>1, <2>2 DEF Pasting, Places
  <2>4. (wanted' \notin buried' => contents' = wanted') /\ pending' = None
    BY <2>1, <2>2 DEF Pasting, board
  <2>5. Rests'
    BY <2>3, <2>4 DEF Rests, WillBeBack, IsLatest
  <2> QED BY <2>5
<1> QED BY <1>1, <1>2, <1>3, <1>4, <1>5, <1>6, <1>7, <1>8, <1>9, <1>10, <1>11 DEF PasteStep

\* The steps of a capture, and the app's answer to it.
LEMMA ApartCapture ==
    ASSUME IInv, LatestInv, LatestInv', OverInv, ApartInv, apart',
           NEW c \in Captures, CaptureStart(c) \/ CaptureStep(c) \/ AppAnswers(c)
    PROVE  Rests' \/ (\E q \in Pastes : Pasting(q)') \/ (\E d \in Captures : Capturing(d)')
<1>0. /\ change_count \in Nat /\ TypeOK
      /\ pc \in [Calls -> Places]
      /\ local \in [Calls -> [snapshot : Contents, count : Nat, restore_id : Nat]]
      /\ Captures \subseteq Calls /\ c \in Calls /\ c \notin Pastes
      /\ \A x \in Calls : local[x].count <= change_count
  BY ClipboardAssumption DEF IInv, LatestInv, TypeOK, Calls
<1>a. Middle(c) /\ apart => Capturing(c)
  BY <1>0, MiddleIsAlone
<1>b. ASSUME Alone(c) \/ \A y \in Calls : ~Middle(y), NEW l \in Places, pc' = [pc EXCEPT ![c] = l]
      PROVE  IF l \in {"ready", "waiting", "done"} THEN \A y \in Calls : ~Middle(y)' ELSE Alone(c)'
  BY <1>0, <1>b DEF Middle, Alone
\* What is wanted is there, and so is the one who would bring it back.
<1>c. ASSUME \A y \in Calls : ~Middle(y)',
             wanted' \notin buried' => contents' = wanted' /\ WillBeBack'
      PROVE  Rests'
  BY <1>c DEF Rests
\* A step that leaves the clipboard, the batch and the counts of the pastes alone.
<1>d. ASSUME UNCHANGED <<board, batch, wanted>>, \A p \in Pastes : local'[p] = local[p], WillBeBack
      PROVE  WillBeBack'
  BY <1>d DEF WillBeBack, IsLatest, StillOurs, board, batch
<1>1. CASE CaptureStart(c)
  <2>1. /\ pc' = [pc EXCEPT ![c] = "ask"] /\ pc[c] = "ready"
        /\ local' = [local EXCEPT ![c].count = change_count, ![c].snapshot = contents]
        /\ UNCHANGED <<board, batch, wanted>>
        /\ Bury(contents # wanted)
    BY <1>1 DEF CaptureStart, Go
  <2>2. Rests
    BY <1>0, <1>1, <2>1, ArrivesRests DEF CaptureStart, Middle
  <2>3. Alone(c)'
    BY <1>b, <2>1, <2>2 DEF Rests, Places
  <2>4. /\ local'[c].snapshot = contents /\ local'[c].count = change_count
        /\ \A p \in Pastes : local'[p] = local[p]
    BY <1>0, <2>1 DEF Calls
  <2>5. wanted' \notin buried' => contents' = wanted' /\ WillBeBack'
    <3> SUFFICES ASSUME wanted' \notin buried' PROVE contents' = wanted' /\ WillBeBack'
      OBVIOUS
    <3>1. wanted \notin buried /\ contents = wanted
      BY <2>1 DEF Bury
    <3> QED BY <1>d, <2>1, <2>2, <2>4, <3>1 DEF Rests, board
  <2>6. Capturing(c)'
    BY <2>1, <2>3, <2>4, <2>5 DEF Capturing, board
  <2> QED BY <2>6
<1>2. CASE CopyKey(c)
  <2>1. /\ pc' = [pc EXCEPT ![c] = "wait"] /\ pc[c] = "ask"
        /\ UNCHANGED <<board, batch, local, wanted, apart, buried>>
    BY <1>2 DEF CopyKey, Go
  <2>2. Capturing(c)
    BY <1>a, <2>1 DEF Middle
  <2>3. Alone(c)' /\ pc'[c] = "wait"
    BY <1>0, <1>b, <2>1, <2>2 DEF Capturing, Places
  <2>4. Capturing(c)'
    BY <1>d, <2>1, <2>2, <2>3 DEF Capturing, board
  <2> QED BY <2>4
<1>3. CASE CopyKeyFails(c)
  <2>1. /\ pc' = [pc EXCEPT ![c] = "done"] /\ pc[c] = "ask"
        /\ local' = [local EXCEPT ![c] = NoLocal]
        /\ UNCHANGED <<board, batch, wanted, apart, buried>>
    BY <1>3 DEF CopyKeyFails, Return, Go
  <2>2. Capturing(c)
    BY <1>a, <2>1 DEF Middle
  <2>3. \A y \in Calls : ~Middle(y)'
    BY <1>b, <2>1, <2>2 DEF Capturing, Places
  <2>4. \A p \in Pastes : local'[p] = local[p]
    BY <1>0, <2>1 DEF Calls
  <2>5. wanted' \notin buried' => contents' = wanted' /\ WillBeBack'
    BY <1>d, <2>1, <2>2, <2>4 DEF Capturing, board
  <2> QED BY <1>c, <2>3, <2>5
<1>4. CASE SeesChange(c)
  <2>1. /\ pc' = [pc EXCEPT ![c] = "putback"] /\ pc[c] \in {"wait", "watch"}
        /\ UNCHANGED <<board, batch, local, wanted, apart, buried>>
    BY <1>4 DEF SeesChange
  <2>2. Capturing(c)
    BY <1>a, <2>1 DEF Middle
  <2>3. Alone(c)' /\ pc'[c] = "putback"
    BY <1>0, <1>b, <2>1, <2>2 DEF Capturing, Places
  <2>4. Capturing(c)'
    BY <1>d, <2>1, <2>2, <2>3 DEF Capturing, board
  <2> QED BY <2>4
<1>5. CASE GivesUp(c)
  <2>1. /\ change_count = local[c].count /\ pc[c] \in {"wait", "watch"}
        /\ UNCHANGED <<board, batch, wanted, apart, buried>>
    BY <1>5 DEF GivesUp, Return, Go
  <2>2. Capturing(c) /\ (wanted \notin buried => contents = wanted /\ WillBeBack)
    BY <1>a, <2>1 DEF Middle, Capturing
  <2>3. \A p \in Pastes : local'[p] = local[p]
    BY <1>0, <1>5 DEF GivesUp, Return, Calls
  <2>4. wanted' \notin buried' => contents' = wanted' /\ WillBeBack'
    BY <1>d, <2>1, <2>2, <2>3 DEF board
  <2>5. CASE pc' = [pc EXCEPT ![c] = "watch"] /\ UNCHANGED local
    <3>1. Alone(c)' /\ pc'[c] = "watch"
      BY <1>0, <1>b, <2>2, <2>5 DEF Capturing, Places
    <3>2. wanted' \notin buried' => local'[c].snapshot = wanted'
      BY <2>1, <2>2, <2>5 DEF Capturing
    <3>3. Capturing(c)'
      BY <2>4, <3>1, <3>2 DEF Capturing
    <3> QED BY <3>3
  <2>6. CASE pc' = [pc EXCEPT ![c] = "done"]
    <3>1. \A y \in Calls : ~Middle(y)'
      BY <1>b, <2>2, <2>6 DEF Capturing, Places
    <3> QED BY <1>c, <2>4, <3>1
  <2> QED BY <1>5, <2>5, <2>6 DEF GivesUp, Return, Go
\* Every count that was read is an old one now.
<1>6. CASE PutBack(c)
  <2>1. /\ pc' = [pc EXCEPT ![c] = "done"] /\ pc[c] = "putback"
        /\ local' = [local EXCEPT ![c] = NoLocal] /\ change_count' = change_count + 1
        /\ contents' = local[c].snapshot /\ UNCHANGED <<batch, wanted, apart, buried>>
    BY <1>6 DEF PutBack, Return, Go, Put
  <2>2. Capturing(c)
    BY <1>a, <2>1 DEF Middle
  <2>3. \A y \in Calls : ~Middle(y)'
    BY <1>b, <2>1, <2>2 DEF Capturing, Places
  <2>4. \A p \in Pastes : ~StillOurs(p)'
    <3>1. \A p \in Pastes : local'[p] = local[p] /\ local[p].count \in Nat
                            /\ local[p].count <= change_count
      BY <1>0, <2>1 DEF Calls
    <3> QED BY <1>0, <2>1, <3>1 DEF StillOurs
  <2>5. wanted' \notin buried' => contents' = wanted'
    BY <2>1, <2>2 DEF Capturing
  <2>6. wanted' \notin buried' => WillBeBack'
    BY <2>4, <2>5 DEF WillBeBack
  <2> QED BY <1>c, <2>3, <2>5, <2>6
\* The capture is waiting for it, or has seen a change already.
<1>7. CASE AppAnswers(c)
  <2>1. /\ answer[c] = "asked" /\ apart /\ pc[c] # "done"
        /\ change_count' = change_count + 1 /\ UNCHANGED <<batch, pc, local, wanted, buried>>
    BY <1>7 DEF AppAnswers, Put
  <2>2. Capturing(c)
    BY <1>a, <2>1 DEF Middle, LatestInv
  <2>3. Alone(c)'
    BY <2>1, <2>2 DEF Capturing, Alone, Middle
  <2>4. change_count' # local'[c].count /\ pc'[c] # "ask"
    BY <1>0, <2>1 DEF LatestInv
  <2>5. Capturing(c)'
    BY <2>1, <2>2, <2>3, <2>4 DEF Capturing, batch
  <2> QED BY <2>5
<1> QED BY <1>1, <1>2, <1>3, <1>4, <1>5, <1>6, <1>7 DEF CaptureStep

\* A copy that is to stay: every count that was read is an old one now.
LEMMA ApartCopy ==
    ASSUME IInv, LatestInv, OverInv, ApartInv, apart', NEW u \in Copies, Copy(u)
    PROVE  Rests'
<1>1. /\ pc' = [pc EXCEPT ![u] = "done"] /\ pc[u] = "ready"
      /\ contents' = u /\ wanted' = u /\ change_count' = change_count + 1
      /\ UNCHANGED <<batch, local>>
  BY DEF Copy, Go, Put
<1>2. u \in Calls /\ Pastes \subseteq Calls
  BY DEF Calls
<1>3. Rests
  BY <1>1, <1>2, ArrivesRests DEF Copy, Middle
<1>4. \A y \in Calls : ~Middle(y)'
  BY <1>1, <1>2, <1>3 DEF Rests, Middle, IInv, TypeOK
<1>5. \A p \in Pastes : ~StillOurs(p)'
  BY <1>1, <1>2 DEF StillOurs, LatestInv, IInv, TypeOK
<1> QED BY <1>1, <1>4, <1>5 DEF Rests, WillBeBack

LEMMA ApartStep == IInv /\ LatestInv /\ OverInv /\ ApartInv /\ [Next]_vars => ApartInv'
<1> SUFFICES ASSUME IInv, LatestInv, OverInv, ApartInv, [Next]_vars, apart'
             PROVE  Rests' \/ (\E p \in Pastes : Pasting(p)') \/ (\E c \in Captures : Capturing(c)')
  BY DEF ApartInv
<1>1. LatestInv'
  BY LatestStep
<1>2. CASE \E p \in Pastes : TakeSnapshot(p) \/ PasteStep(p)
  BY <1>1, <1>2, ApartPaste
<1>3. CASE \E c \in Captures : CaptureStart(c) \/ CaptureStep(c) \/ AppAnswers(c)
  BY <1>1, <1>3, ApartCapture
<1>4. CASE \E u \in Copies : Copy(u)
  BY <1>4, ApartCopy
<1>5. CASE UNCHANGED vars
  <2>1. UNCHANGED <<contents, change_count, pending, pc, local, wanted, apart, buried>>
    BY <1>5 DEF vars, board, batch
  <2>2. \A p \in Pastes : /\ IsLatest(p)' <=> IsLatest(p)
                          /\ StillOurs(p)' <=> StillOurs(p)
                          /\ Original(p)' = Original(p)
    BY <2>1 DEF IsLatest, StillOurs, Original
  <2>3. \A x \in Calls : (Middle(x)' <=> Middle(x)) /\ (Alone(x)' <=> Alone(x))
    BY <2>1 DEF Middle, Alone
  <2>4. WillBeBack' <=> WillBeBack
    BY <2>1, <2>2 DEF WillBeBack
  <2>5. CASE Rests
    BY <2>1, <2>3, <2>5, <2>4 DEF Rests
  <2>6. CASE \E p \in Pastes : Pasting(p)
    BY <2>1, <2>2, <2>3, <2>6 DEF Pasting, Calls
  <2>7. CASE \E c \in Captures : Capturing(c)
    BY <2>1, <2>3, <2>7, <2>4 DEF Capturing, Calls
  <2> QED BY <2>1, <2>5, <2>6, <2>7 DEF ApartInv
<1> QED BY <1>2, <1>3, <1>4, <1>5 DEF Next, AllDone

\* What the user put there to stay is there when OraType is not at work, after any pastes
\* in quick succession, refused pastes, captures and late answers, for any calls: unless a
\* call came in the middle of another, or a paste or a capture between it and a restore.
THEOREM ClipboardAlwaysComesBack == Spec => []ClipboardComesBack
<1> DEFINE All == IInv /\ LatestInv /\ OverInv /\ ApartInv
<1>1. Init => All
  BY InitIInv, LatestInit, OverInit, ApartInit
<1>2. All /\ [Next]_vars => All'
  BY NextIInv, LatestStep, OverStep, ApartStep
<1>3. All => ClipboardComesBack
  <2> SUFFICES ASSUME All, Settled, apart, wanted \notin buried PROVE contents = wanted
    BY DEF ClipboardComesBack
  <2>1. Rests
    BY NobodyRests DEF Settled
  <2>2. pending = None
    BY DEF Settled, LatestInv, Middle, Calls
  <2> QED BY <2>1, <2>2 DEF Rests
<1> QED BY <1>1, <1>2, <1>3, PTL DEF Spec
=============================================================================
