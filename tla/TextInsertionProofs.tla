------------------------- MODULE TextInsertionProofs -------------------------
(***************************************************************************)
(* For any number of runs and pieces, and however often the user moves and *)
(* cancels:                                                                *)
(*   - KeysInOrder.  A run's record changes in one step of its own or by   *)
(*     keys typed late: each lemma shows that the new record Fits, and     *)
(*     Grows from the old one.                                             *)
(*   - OfferIsCurrent: a run under way that nobody cancelled and no other  *)
(*     crossed is the last one, and alone with the pipeline.               *)
(*   - NothingLost: what a run types is on its target, or excused, or the  *)
(*     field's length will tell; Careful says which, phase by phase.       *)
(***************************************************************************)
EXTENDS TextInsertion, SequenceTheorems, TLAPS

Phases == {"new", "speaking", "look", "asking", "answered", "execute", "type",
           "paste", "write", "fallback", "copy", "tail", "done"}

RunRecord ==
  [phase : Phases, guard : Apps, readable : BOOLEAN,
   caller : {"pipeline", "executor"},
   sent : 0..Pieces, answer : {"none", "same", "changed", "error"},
   worker : {"none", "recv", "typing", "over"}, inserted : 0..Pieces,
   failed : BOOLEAN, target_lost : BOOLEAN,
   keys : Seq(Nat), erred : BOOLEAN, missed : BOOLEAN, arrived : BOOLEAN,
   moved : BOOLEAN, unclear : BOOLEAN, told : BOOLEAN, silent : BOOLEAN]

LateRecord ==
  {l \in [run : Runs, first : 1..Pieces, last : 1..Pieces] : l.first <= l.last}

\* What the keys of a run are where it stands, if none of them failed.
KeysFit(x) ==
  /\ x.phase \in {"asking", "answered", "copy"} => x.keys = Piece(1, x.inserted)
  /\ x.phase = "tail" => x.keys = Piece(1, Len(x.keys))
  /\ x.phase \notin {"asking", "answered", "copy", "tail"} => x.keys = << >>

\* The worker works while the AI is asked or has answered, and types a piece
\* that has come.
WorkerFits(x) ==
  /\ x.inserted <= x.sent
  /\ x.worker \in {"recv", "typing"} => x.phase \in {"asking", "answered"}
  /\ x.worker = "typing" => x.inserted < x.sent
  /\ x.phase \notin {"asking", "answered", "copy", "tail"} => x.inserted = 0

Fits(x) == x \in RunRecord /\ WorkerFits(x) /\ (~x.erred => KeysFit(x))

\* Keys that wait on the main thread are those of a run that knows of their
\* failure, or has ended.
LateIsKnown(x) == x.phase = "done" \/ (x.phase # "new" /\ x.erred)
Grows(old, new) == LateIsKnown(old) => LateIsKnown(new)

TypeOK == front \in Apps /\ run \in [Runs -> RunRecord] /\ late \in Seq(LateRecord)

Inv ==
  /\ TypeOK
  /\ \A r \in Runs : Fits(run[r])
  /\ \A i \in DOMAIN late : LateIsKnown(run[late[i].run])

-----------------------------------------------------------------------------
(* Pieces.                                                                 *)

LEMMA PieceIsSeq ==
  ASSUME NEW m \in Nat, NEW n \in Nat, m >= 1, n + 1 >= m
  PROVE  Piece(m, n) \in Seq(Nat) /\ Len(Piece(m, n)) = n + 1 - m
<1> DEFINE k == n + 1 - m
<1>1. k \in Nat
  OBVIOUS
<1>2. \A i \in 1..k : m + i - 1 \in Nat
  OBVIOUS
<1>3. Piece(m, n) = [i \in 1..k |-> m + i - 1]
  BY DEF Piece
<1> QED BY <1>1, <1>2, <1>3

\* A beginning and the rest make the whole.
LEMMA PiecesJoin ==
  ASSUME NEW n \in Nat, NEW m \in Nat, n <= m
  PROVE  Piece(1, n) \o Piece(n + 1, m) = Piece(1, m)
<1> DEFINE p == Piece(1, n)
           q == Piece(n + 1, m)
           w == Piece(1, m)
<1>1. p \in Seq(Nat) /\ Len(p) = n /\ \A i \in 1..n : p[i] = i
  <2>1. \A i \in 1..n : p[i] = i
    BY DEF Piece
  <2>2. p \in Seq(Nat) /\ Len(p) = n + 1 - 1
    BY PieceIsSeq
  <2> QED BY <2>1, <2>2
<1>2. q \in Seq(Nat) /\ Len(q) = m - n /\ \A i \in 1..(m - n) : q[i] = n + i
  <2>1. \A i \in 1..(m + 1 - (n + 1)) : q[i] = n + 1 + i - 1
    BY DEF Piece
  <2>2. n + 1 \in Nat /\ n + 1 >= 1 /\ m + 1 >= n + 1
    OBVIOUS
  <2>3. q \in Seq(Nat) /\ Len(q) = m + 1 - (n + 1)
    BY <2>2, PieceIsSeq
  <2>4. m + 1 - (n + 1) = m - n /\ \A i \in 1..(m - n) : n + 1 + i - 1 = n + i
    OBVIOUS
  <2> QED BY <2>1, <2>3, <2>4
<1>3. w \in Seq(Nat) /\ Len(w) = m /\ \A i \in 1..m : w[i] = i
  <2>1. \A i \in 1..m : w[i] = i
    BY DEF Piece
  <2>2. w \in Seq(Nat) /\ Len(w) = m + 1 - 1
    BY PieceIsSeq
  <2> QED BY <2>1, <2>2
<1> HIDE DEF p, q, w
<1>4. /\ p \o q \in Seq(Nat) /\ Len(p \o q) = m
      /\ \A i \in 1..m : (p \o q)[i] = IF i <= n THEN p[i] ELSE q[i - n]
  <2>1. n + (m - n) = m
    OBVIOUS
  <2>2. /\ p \o q \in Seq(Nat) /\ Len(p \o q) = Len(p) + Len(q)
        /\ \A i \in 1..Len(p) + Len(q) :
             (p \o q)[i] = IF i <= Len(p) THEN p[i] ELSE q[i - Len(p)]
    <3>1. p \in Seq(Nat) /\ q \in Seq(Nat)
      BY <1>1, <1>2
    <3> QED BY <3>1, ConcatProperties
  <2>3. Len(p) = n /\ Len(q) = m - n
    BY <1>1, <1>2
  <2> QED BY <2>1, <2>2, <2>3
<1>5. ASSUME NEW i \in 1..m PROVE (p \o q)[i] = i
  <2>1. CASE i <= n
    BY <1>1, <1>4, <2>1
  <2>2. CASE ~(i <= n)
    <3>1. i - n \in 1..(m - n) /\ n + (i - n) = i
      BY <2>2
    <3>2. (p \o q)[i] = q[i - n]
      BY <2>2, <1>4
    <3>3. q[i - n] = n + (i - n)
      BY <3>1, <1>2
    <3> QED BY <3>1, <3>2, <3>3
  <2> QED BY <2>1, <2>2
<1>6. p \o q = w
  BY <1>3, <1>4, <1>5, SeqEqual
<1> QED BY <1>6 DEF p, q, w

LEMMA NoPiece == Piece(1, 0) = << >>
BY PieceIsSeq

-----------------------------------------------------------------------------
(* The record of a run.                                                    *)

LEMMA LocalFits ==
  ASSUME NEW phase \in {"new", "speaking", "done"}, NEW a \in Apps
  PROVE  /\ Fits(Local(phase))
         /\ Fits([Local(phase) EXCEPT !.guard = a])
<1>1. Pieces \in Nat /\ 0 \in 0..Pieces /\ << >> \in Seq(Nat) /\ phase \in Phases
  BY InsertionAssumption DEF Phases
<1>2. Local(phase) \in RunRecord
  BY <1>1 DEF RunRecord, Local, Apps
<1>3. [Local(phase) EXCEPT !.guard = a] \in RunRecord
  BY <1>2 DEF RunRecord
<1>4. Fits(Local(phase))
  BY <1>2 DEF Local, Fits, WorkerFits, KeysFit
<1>5. Fits([Local(phase) EXCEPT !.guard = a])
  BY <1>3 DEF Local, Fits, WorkerFits, KeysFit
<1> QED BY <1>4, <1>5

\* What a step that changes one record has to show of the new one.
LEMMA OneRunMoves ==
  ASSUME Inv, NEW r \in Runs, NEW x, Becomes(r, x), Fits(x), Grows(run[r], x),
         front' \in Apps,
         \/ late' = late
         \/ /\ x.erred /\ x.phase # "new"
            /\ \E l \in LateRecord : l.run = r /\ late' = Append(late, l)
         \/ late # << >> /\ late' = Tail(late)
  PROVE  Inv'
<1>1. run' = [run EXCEPT ![r] = x] /\ run \in [Runs -> RunRecord] /\ late \in Seq(LateRecord)
  BY DEF Becomes, Inv, TypeOK
<1>2. run' \in [Runs -> RunRecord] /\ (\A q \in Runs : Fits(run'[q]))
  BY <1>1 DEF Fits, Inv
<1>3. \A i \in DOMAIN late : late[i].run \in Runs /\ LateIsKnown(run'[late[i].run])
  <2>1. \A i \in DOMAIN late : late[i].run \in Runs /\ LateIsKnown(run[late[i].run])
    <3>1. \A i \in DOMAIN late : late[i] \in LateRecord
      BY <1>1
    <3>2. \A l \in LateRecord : l.run \in Runs
      BY DEF LateRecord
    <3> QED BY <3>1, <3>2 DEF Inv
  <2>2. \A q \in Runs : LateIsKnown(run[q]) => LateIsKnown(run'[q])
    <3> SUFFICES ASSUME NEW q \in Runs PROVE LateIsKnown(run[q]) => LateIsKnown(run'[q])
      OBVIOUS
    <3>1. CASE q = r
      BY <3>1, <1>1 DEF Grows
    <3>2. CASE q # r
      BY <3>2, <1>1
    <3> QED BY <3>1, <3>2
  <2> QED BY <2>1, <2>2
<1>4. late' \in Seq(LateRecord) /\ \A i \in DOMAIN late' : LateIsKnown(run'[late'[i].run])
  <2>1. CASE late' = late
    BY <2>1, <1>1, <1>3
  <2>2. CASE /\ x.erred /\ x.phase # "new"
             /\ \E l \in LateRecord : l.run = r /\ late' = Append(late, l)
    <3>1. PICK l \in LateRecord : l.run = r /\ late' = Append(late, l)
      BY <2>2
    <3>2. LateIsKnown(run'[r])
      BY <2>2, <1>1 DEF LateIsKnown
    <3>3. late' \in Seq(LateRecord) /\ Len(late') = Len(late) + 1
      BY <3>1, <1>1
    <3>4. ASSUME NEW i \in 1..Len(late')
          PROVE  late'[i].run = r \/ (i \in DOMAIN late /\ late'[i] = late[i])
      BY <3>1, <3>3, <1>1
    <3>5. DOMAIN late' = 1..Len(late')
      BY <3>3
    <3> QED BY <3>2, <3>3, <3>4, <3>5, <1>3
  <2>3. CASE late # << >> /\ late' = Tail(late)
    <3>1. /\ late' \in Seq(LateRecord)
          /\ \A i \in DOMAIN late' : i + 1 \in DOMAIN late /\ late'[i] = late[i + 1]
      BY <2>3, <1>1
    <3> QED BY <3>1, <1>3
  <2> QED BY <2>1, <2>2, <2>3
<1>5. front' \in Apps
  OBVIOUS
<1> QED BY <1>2, <1>4, <1>5 DEF Inv, TypeOK

-----------------------------------------------------------------------------
(* The steps of one run that type nothing.                                 *)

LEMMA WorkerKeeps ==
  ASSUME Inv, NEW r \in Runs,
         \/ SendPiece(r) \/ WorkerAborts(r) \/ WorkerLosesTarget(r)
         \/ WorkerTakes(r) \/ WorkerEnds(r)
  PROVE  Inv'
<1> DEFINE x == run[r]
<1>1. x \in RunRecord /\ Fits(x) /\ front \in Apps /\ Pieces \in Nat
  BY InsertionAssumption DEF Inv, TypeOK
<1>2. CASE SendPiece(r)
  <2> DEFINE y == [x EXCEPT !.sent = @ + 1]
  <2>1. Becomes(r, y) /\ front' = front /\ late' = late
    BY <1>2 DEF SendPiece, Go, desk
  <2>2. /\ x.sent + 1 \in 0..Pieces /\ x.inserted <= x.sent + 1
        /\ x.inserted < x.sent => x.inserted < x.sent + 1
    BY <1>1, <1>2 DEF SendPiece, At, Fits, RunRecord, WorkerFits
  <2>3. y \in RunRecord
    BY <1>1, <2>2 DEF RunRecord
  <2>4. Fits(y) /\ Grows(x, y)
    BY <1>1, <1>2, <2>2, <2>3
       DEF SendPiece, At, Fits, RunRecord, WorkerFits, KeysFit, Grows, LateIsKnown
  <2> QED BY <2>1, <2>4, <1>1, OneRunMoves
<1>3. CASE WorkerAborts(r)
  <2> DEFINE y == [x EXCEPT !.worker = "over"]
  <2>1. Becomes(r, y) /\ front' = front /\ late' = late
    BY <1>3 DEF WorkerAborts, Go, desk
  <2>2. Fits(y) /\ Grows(x, y)
    BY <1>1, <1>3
       DEF WorkerAborts, At, Waiting, Fits, RunRecord, Phases, WorkerFits, KeysFit,
           Grows, LateIsKnown
  <2> QED BY <2>1, <2>2, <1>1, OneRunMoves
<1>4. CASE WorkerLosesTarget(r)
  <2> DEFINE y == [x EXCEPT !.worker = "over", !.failed = TRUE, !.target_lost = TRUE]
  <2>1. Becomes(r, y) /\ front' = front /\ late' = late
    BY <1>4 DEF WorkerLosesTarget, Go, desk
  <2>2. Fits(y) /\ Grows(x, y)
    BY <1>1, <1>4
       DEF WorkerLosesTarget, At, Waiting, Fits, RunRecord, Phases, WorkerFits, KeysFit,
           Grows, LateIsKnown
  <2> QED BY <2>1, <2>2, <1>1, OneRunMoves
<1>5. CASE WorkerTakes(r)
  <2> DEFINE y == [x EXCEPT !.worker = "typing"]
  <2>1. Becomes(r, y) /\ front' = front /\ late' = late
    BY <1>5 DEF WorkerTakes, Go, desk
  <2>2. Fits(y) /\ Grows(x, y)
    BY <1>1, <1>5
       DEF WorkerTakes, At, Waiting, Fits, RunRecord, Phases, WorkerFits, KeysFit,
           Grows, LateIsKnown
  <2> QED BY <2>1, <2>2, <1>1, OneRunMoves
<1>6. CASE WorkerEnds(r)
  <2> DEFINE y == [x EXCEPT !.worker = "over"]
  <2>1. Becomes(r, y) /\ front' = front /\ late' = late
    BY <1>6 DEF WorkerEnds, Go, desk
  <2>2. Fits(y) /\ Grows(x, y)
    BY <1>1, <1>6
       DEF WorkerEnds, At, Fits, RunRecord, Phases, WorkerFits, KeysFit,
           Grows, LateIsKnown
  <2> QED BY <2>1, <2>2, <1>1, OneRunMoves
<1> QED BY <1>2, <1>3, <1>4, <1>5, <1>6

\* What a move of the user makes of a record.
SameButMoved(y, x) ==
  /\ y.phase = x.phase /\ y.guard = x.guard /\ y.readable = x.readable
  /\ y.sent = x.sent /\ y.answer = x.answer /\ y.worker = x.worker
  /\ y.inserted = x.inserted /\ y.failed = x.failed /\ y.target_lost = x.target_lost
  /\ y.erred = x.erred /\ y.missed = x.missed /\ y.arrived = x.arrived
  /\ y.unclear = x.unclear
  /\ y.told = x.told /\ y.silent = x.silent

-----------------------------------------------------------------------------
(* The steps that type nothing.                                            *)

LEMMA AsksKeep ==
  ASSUME Inv, NEW r \in Runs,
         \/ Begin(r) \/ BeginDraft(r) \/ SpokenInVain(r) \/ OutputRaw(r)
         \/ DraftRefused(r) \/ AskAI(r) \/ Answer(r)
  PROVE  Inv'
<1> DEFINE x == run[r]
<1>1. x \in RunRecord /\ Fits(x) /\ front \in Apps /\ Pieces \in Nat
  BY InsertionAssumption DEF Inv, TypeOK
<1>2. CASE Begin(r)
  <2> DEFINE y == [Local("speaking") EXCEPT !.guard = front]
  <2>1. Becomes(r, y) /\ front' = front /\ late' = late /\ x.phase = "new"
    BY <1>2 DEF Begin, At, desk
  <2>2. Fits(y) /\ Grows(x, y)
    BY <1>1, <2>1, LocalFits DEF Grows, LateIsKnown
  <2> QED BY <2>1, <2>2, <1>1, OneRunMoves
<1>8. CASE BeginDraft(r)
  <2>1. PICK app \in Apps :
          Becomes(r, [Local("speaking") EXCEPT !.guard = app, !.moved = (app # front)])
    BY <1>8 DEF BeginDraft
  <2>2. PICK m \in BOOLEAN : m = (app # front)
    OBVIOUS
  <2>3. PICK z : z = [Local("speaking") EXCEPT !.guard = app]
    OBVIOUS
  <2>4. PICK y : y = [z EXCEPT !.moved = m]
    OBVIOUS
  <2>5. Becomes(r, y) /\ front' = front /\ late' = late /\ x.phase = "new"
    <3>1. y = [Local("speaking") EXCEPT !.guard = app, !.moved = (app # front)]
      BY <2>2, <2>3, <2>4
    <3> QED BY <1>8, <2>1, <3>1 DEF BeginDraft, At, desk
  <2>6. Fits(z)
    BY <2>3, LocalFits
  <2>7. y \in RunRecord /\ SameButMoved(y, z) /\ y.keys = z.keys
    BY <2>4, <2>6 DEF Fits, RunRecord, SameButMoved
  <2>8. Fits(y) /\ Grows(x, y)
    BY <1>1, <2>5, <2>6, <2>7
       DEF Grows, LateIsKnown, Fits, WorkerFits, KeysFit, SameButMoved
  <2> QED BY <2>5, <2>8, <1>1, OneRunMoves
<1>9. CASE DraftRefused(r)
  <2> DEFINE y == [x EXCEPT !.phase = "tail", !.told = TRUE]
  <2>1. Becomes(r, y) /\ front' = front /\ late' = late /\ x.phase = "speaking"
    BY <1>9 DEF DraftRefused, desk, At
  <2>2. /\ y \in RunRecord /\ y.phase = "tail" /\ y.worker = x.worker /\ y.sent = x.sent
        /\ y.inserted = x.inserted /\ y.keys = x.keys /\ y.erred = x.erred
    BY <1>1 DEF RunRecord, Phases
  <2>3. Fits(y) /\ Grows(x, y)
    BY <1>1, <2>1, <2>2, NoPiece DEF Fits, WorkerFits, KeysFit, Grows, LateIsKnown
  <2> QED BY <2>1, <2>3, <1>1, OneRunMoves
<1>3. CASE SpokenInVain(r)
  <2> DEFINE y == Local("done")
  <2>1. Becomes(r, y) /\ front' = front /\ late' = late
    BY <1>3 DEF SpokenInVain, desk
  <2>2. Fits(y) /\ Grows(x, y)
    BY <1>1, LocalFits DEF Grows, LateIsKnown, Local
  <2> QED BY <2>1, <2>2, <1>1, OneRunMoves
<1>4. CASE OutputRaw(r)
  <2> DEFINE y == [x EXCEPT !.phase = "look"]
  <2>1. Becomes(r, y) /\ front' = front /\ late' = late
    BY <1>4 DEF OutputRaw, Go, desk
  <2>2. Fits(y) /\ Grows(x, y)
    BY <1>1, <1>4
       DEF OutputRaw, At, Fits, RunRecord, Phases, WorkerFits, KeysFit,
           Grows, LateIsKnown
  <2> QED BY <2>1, <2>2, <1>1, OneRunMoves
<1>5. CASE AskAI(r)
  <2>1. PICK tells \in BOOLEAN :
          Becomes(r, [x EXCEPT !.phase = "asking",
                               !.worker = IF Streams(r) THEN "recv" ELSE "none",
                               !.readable = Streams(r) /\ tells])
    BY <1>5 DEF AskAI
  <2> DEFINE w == IF Streams(r) THEN "recv" ELSE "none"
             t == Streams(r) /\ tells
             y == [x EXCEPT !.phase = "asking", !.worker = w, !.readable = t]
  <2>2. front' = front /\ late' = late /\ x.phase = "speaking"
    BY <1>5 DEF AskAI, At, desk
  <2>3. w \in {"recv", "none"} /\ t \in BOOLEAN
    BY DEF Streams
  <2>4. Becomes(r, y)
    BY <2>1
  <2> HIDE DEF w, t
  <2>5. /\ y \in RunRecord /\ y.phase = "asking" /\ y.worker = w /\ y.sent = x.sent
        /\ y.inserted = x.inserted /\ y.keys = x.keys /\ y.erred = x.erred
    <3>1. x \in RunRecord /\ "asking" \in Phases
      BY <1>1 DEF Fits, Phases
    <3> HIDE DEF x
    <3> QED BY <2>3, <3>1 DEF RunRecord
  <2> HIDE DEF y
  <2>6. Fits(y) /\ Grows(x, y)
    BY <1>1, <2>2, <2>3, <2>5, NoPiece DEF Fits, WorkerFits, KeysFit, Grows, LateIsKnown
  <2> QED BY <2>2, <2>4, <2>6, <1>1, OneRunMoves
<1>6. CASE Answer(r)
  <2>1. PICK a \in {"same", "changed", "error"} :
          Becomes(r, [x EXCEPT !.answer = a, !.phase = "answered"])
    BY <1>6 DEF Answer
  <2> DEFINE y == [x EXCEPT !.answer = a, !.phase = "answered"]
  <2>2. Becomes(r, y) /\ front' = front /\ late' = late /\ x.phase = "asking"
    BY <1>6, <2>1 DEF Answer, At, desk
  <2>3. Fits(y) /\ Grows(x, y)
    BY <1>1, <2>2 DEF Fits, RunRecord, Phases, WorkerFits, KeysFit,
           Grows, LateIsKnown
  <2> QED BY <2>2, <2>3, <1>1, OneRunMoves
<1> QED BY <1>2, <1>3, <1>4, <1>5, <1>6, <1>8, <1>9

LEMMA RecoveryKeeps ==
  ASSUME Inv, NEW r \in Runs, RecoverByCopy(r) \/ Skip(r) \/ OutputAnswer(r)
  PROVE  Inv'
<1> DEFINE x == run[r]
<1>1. x \in RunRecord /\ Fits(x) /\ front \in Apps /\ Pieces \in Nat
  BY InsertionAssumption DEF Inv, TypeOK
<1>2. CASE RecoverByCopy(r)
  <2> DEFINE t == HasInserted(r)
             y == [x EXCEPT !.phase = "copy", !.told = t]
  <2>1. Becomes(r, y) /\ front' = front /\ late' = late
    BY <1>2 DEF RecoverByCopy, desk
  <2>2. t \in BOOLEAN /\ x.phase = "answered" /\ x.worker \in {"none", "over"}
    BY <1>1, <1>2 DEF RecoverByCopy, At, WorkerOver, HasInserted, RunRecord
  <2> HIDE DEF t
  <2>3. Fits(y) /\ Grows(x, y)
    BY <1>1, <2>2 DEF Fits, RunRecord, Phases, WorkerFits, KeysFit,
           Grows, LateIsKnown
  <2> QED BY <2>1, <2>3, <1>1, OneRunMoves
<1>3. ASSUME WorkerOver(r), ~HasInserted(r)
      PROVE  /\ x.phase = "answered" /\ x.worker \in {"none", "over"} /\ x.inserted = 0
             /\ ~x.erred => x.keys = << >> /\ x.keys = Piece(1, Len(x.keys))
  <2>1. x.phase = "answered" /\ x.worker \in {"none", "over"} /\ x.inserted = 0
    BY <1>1, <1>3 DEF At, WorkerOver, HasInserted, RunRecord
  <2>2. ~x.erred => x.keys = << >>
    BY <2>1, <1>1, NoPiece DEF Fits, KeysFit
  <2>3. << >> = Piece(1, Len(<< >>))
    BY NoPiece
  <2> QED BY <2>1, <2>2, <2>3
<1>4. CASE Skip(r)
  <2> DEFINE y == [x EXCEPT !.phase = "tail"]
  <2>1. Becomes(r, y) /\ front' = front /\ late' = late /\ WorkerOver(r) /\ ~HasInserted(r)
    BY <1>4 DEF Skip, Go, desk
  <2>2. y \in RunRecord
    BY <1>1 DEF RunRecord, Phases
  <2>3. /\ y.keys = x.keys /\ y.erred = x.erred /\ y.phase = "tail"
        /\ y.inserted = x.inserted /\ y.sent = x.sent /\ y.worker = x.worker
    BY <1>1 DEF RunRecord
  <2>4. Fits(y) /\ Grows(x, y)
    BY <1>1, <1>3, <2>1, <2>2, <2>3 DEF Fits, WorkerFits, KeysFit, Grows, LateIsKnown
  <2> QED BY <2>1, <2>4, <1>1, OneRunMoves
<1>5. CASE OutputAnswer(r)
  <2>1. /\ front' = front /\ late' = late /\ WorkerOver(r) /\ ~HasInserted(r)
        /\ \/ Becomes(r, [x EXCEPT !.phase = "look", !.told = TRUE])
           \/ Becomes(r, [x EXCEPT !.phase = "execute", !.caller = "executor"])
    BY <1>5 DEF OutputAnswer, desk
  <2>2. PICK y : /\ Becomes(r, y)
                 /\ \/ y = [x EXCEPT !.phase = "look", !.told = TRUE]
                    \/ y = [x EXCEPT !.phase = "execute", !.caller = "executor"]
    BY <2>1
  <2>3. /\ y \in RunRecord /\ y.keys = x.keys /\ y.erred = x.erred
        /\ y.phase \in {"look", "execute"}
        /\ y.inserted = x.inserted /\ y.sent = x.sent /\ y.worker = x.worker
    <3>1. CASE y = [x EXCEPT !.phase = "look", !.told = TRUE]
      BY <1>1, <3>1 DEF RunRecord, Phases
    <3>2. CASE y = [x EXCEPT !.phase = "execute", !.caller = "executor"]
      BY <1>1, <3>2 DEF RunRecord, Phases
    <3> QED BY <2>2, <3>1, <3>2
  <2>4. Fits(y) /\ Grows(x, y)
    BY <1>1, <1>3, <2>1, <2>3 DEF Fits, WorkerFits, KeysFit, Grows, LateIsKnown
  <2> QED BY <2>1, <2>2, <2>4, <1>1, OneRunMoves
<1> QED BY <1>2, <1>4, <1>5


LEMMA OutputKeeps ==
  ASSUME Inv, NEW r \in Runs,
         Execute(r) \/ PickStrategy(r) \/ HoldText(r)
  PROVE  Inv'
<1> DEFINE x == run[r]
<1>1. x \in RunRecord /\ Fits(x) /\ front \in Apps /\ Pieces \in Nat
  BY InsertionAssumption DEF Inv, TypeOK
<1>2. CASE Execute(r)
  <2> DEFINE y == [x EXCEPT !.phase = IF TargetMatchesNow(r) THEN "look" ELSE "fallback"]
  <2>1. Becomes(r, y) /\ front' = front /\ late' = late
    BY <1>2 DEF Execute, Go, desk
  <2>2. Fits(y) /\ Grows(x, y)
    BY <1>1, <1>2
       DEF Execute, At, Fits, RunRecord, Phases, WorkerFits, KeysFit,
           Grows, LateIsKnown
  <2> QED BY <2>1, <2>2, <1>1, OneRunMoves
<1>3. CASE PickStrategy(r)
  <2> DEFINE y == [x EXCEPT !.phase = Strategy(r)]
  <2>1. Becomes(r, y) /\ front' = front /\ late' = late
    BY <1>3 DEF PickStrategy, Go, desk
  <2>2. Fits(y) /\ Grows(x, y)
    BY <1>1, <1>3
       DEF PickStrategy, At, Strategy, Fits, RunRecord, Phases, WorkerFits, KeysFit,
           Grows, LateIsKnown
  <2> QED BY <2>1, <2>2, <1>1, OneRunMoves
<1>4. CASE HoldText(r)
  <2> DEFINE t == x.told \/ (TargetMatchesNow(r) /\ ~trusted)
             y == [x EXCEPT !.phase = "tail", !.told = t]
  <2>1. Becomes(r, y) /\ front' = front /\ late' = late
    BY <1>4 DEF HoldText, Go, desk
  <2>2. t \in BOOLEAN /\ x.phase = "look"
    BY <1>1, <1>4 DEF HoldText, At, TargetMatchesNow, RunRecord
  <2> HIDE DEF t
  <2>3. Fits(y) /\ Grows(x, y)
    BY <1>1, <2>2, NoPiece
       DEF Fits, RunRecord, Phases, WorkerFits, KeysFit,
           Grows, LateIsKnown
  <2> QED BY <2>1, <2>3, <1>1, OneRunMoves
<1> QED BY <1>2, <1>3, <1>4

LEMMA EndsKeep ==
  ASSUME Inv, NEW r \in Runs,
         RecoverComplete(r) \/ CopyForRecovery(r) \/ Finish(r)
  PROVE  Inv'
<1> DEFINE x == run[r]
<1>1. x \in RunRecord /\ Fits(x) /\ front \in Apps /\ Pieces \in Nat
  BY InsertionAssumption DEF Inv, TypeOK
<1>2. ASSUME x.phase \in {"answered", "copy"}, x.worker \in {"none", "over"},
             NEW y, y \in RunRecord, Becomes(r, y), front' = front, late' = late,
             y.keys = x.keys, y.erred = x.erred, y.phase = "tail",
             y.inserted = x.inserted, y.sent = x.sent, y.worker = x.worker
      PROVE  Inv'
  <2>1. ~x.erred => x.keys = Piece(1, x.inserted)
    BY <1>1, <1>2 DEF Fits, KeysFit
  <2>2. /\ x.inserted \in Nat /\ x.inserted + 1 - 1 = x.inserted
        /\ 1 \in Nat /\ 1 >= 1 /\ x.inserted + 1 >= 1
    BY <1>1 DEF RunRecord
  <2>3. Len(Piece(1, x.inserted)) = x.inserted
    BY <2>2, PieceIsSeq
  <2>4. Fits(y) /\ Grows(x, y)
    BY <1>1, <1>2, <2>1, <2>3 DEF Fits, WorkerFits, KeysFit, Grows, LateIsKnown
  <2> QED BY <1>1, <1>2, <2>4, OneRunMoves
<1>3. CASE RecoverComplete(r)
  <2> DEFINE y == [x EXCEPT !.phase = "tail"]
  <2>1. /\ Becomes(r, y) /\ front' = front /\ late' = late
        /\ x.phase = "answered" /\ x.worker \in {"none", "over"}
    BY <1>3 DEF RecoverComplete, WorkerOver, At, Go, desk
  <2>2. /\ y \in RunRecord /\ y.keys = x.keys /\ y.erred = x.erred /\ y.phase = "tail"
        /\ y.inserted = x.inserted /\ y.sent = x.sent /\ y.worker = x.worker
    BY <1>1 DEF RunRecord, Phases
  <2> QED BY <1>2, <2>1, <2>2
<1>4. CASE CopyForRecovery(r)
  <2> DEFINE y == [x EXCEPT !.phase = "tail", !.told = TRUE]
  <2>1. Becomes(r, y) /\ front' = front /\ late' = late /\ x.phase = "copy"
    BY <1>4 DEF CopyForRecovery, At, desk
  <2>2. x.worker \in {"none", "over"}
    BY <1>1, <2>1 DEF Fits, WorkerFits, RunRecord
  <2>3. /\ y \in RunRecord /\ y.keys = x.keys /\ y.erred = x.erred /\ y.phase = "tail"
        /\ y.inserted = x.inserted /\ y.sent = x.sent /\ y.worker = x.worker
    BY <1>1 DEF RunRecord, Phases
  <2> QED BY <1>2, <2>1, <2>2, <2>3
<1>5. CASE Finish(r)
  <2> DEFINE y == Local("done")
  <2>1. Becomes(r, y) /\ front' = front /\ late' = late
    BY <1>5 DEF Finish, desk
  <2>2. Fits(y) /\ Grows(x, y)
    BY <1>1, LocalFits DEF Grows, LateIsKnown, Local
  <2> QED BY <2>1, <2>2, <1>1, OneRunMoves
<1> QED BY <1>3, <1>4, <1>5

-----------------------------------------------------------------------------
(* The steps that type.                                                    *)

\* With the pieces first to last a record without a failure fits again.
FitsWith(z, first, last) ==
  /\ z.phase \in {"asking", "answered", "copy", "tail"}
  /\ z.keys \o Piece(first, last) = Piece(1, last)
  /\ z.phase # "tail" => last = z.inserted

LEMMA KeysGoKeep ==
  ASSUME Inv, NEW r \in Runs, NEW z \in RunRecord,
         NEW first \in 1..Pieces, NEW last \in 0..Pieces, first <= last + 1,
         WorkerFits(z), z.phase # "new", Grows(run[r], z), front' = front,
         late' = late \/ (late # << >> /\ late' = Tail(late)),
         NEW lands \in MayLand, Becomes(r, Typed(z, first, last, lands)),
         z.erred \/ FitsWith(z, first, last)
  PROVE  Inv'
<1> PICK y : y = Typed(z, first, last, lands)
  OBVIOUS
<1>1. lands \in BOOLEAN /\ front \in Apps /\ Pieces \in Nat
  BY InsertionAssumption DEF MayLand, Inv, TypeOK
<1>2. /\ first \in Nat /\ last \in Nat /\ first >= 1 /\ last + 1 >= first
  BY <1>1
<1>3. /\ y \in RunRecord /\ y.keys = z.keys \o Piece(first, last)
      /\ y.phase = z.phase /\ y.sent = z.sent /\ y.worker = z.worker
      /\ y.inserted = z.inserted /\ y.erred = z.erred
  <2>1. z.keys \o Piece(first, last) \in Seq(Nat)
    BY <1>2, PieceIsSeq DEF RunRecord
  <2>2. PICK keys \in Seq(Nat) : keys = z.keys \o Piece(first, last)
    BY <2>1
  <2>3. PICK m \in BOOLEAN : m = (z.missed \/ ~lands \/ front # z.guard)
    OBVIOUS
  <2>4. PICK u \in BOOLEAN : u = (z.unclear \/ (spot = "canvas" /\ ~lands /\ ~z.readable))
    OBVIOUS
  <2>5. PICK a \in BOOLEAN : a = (z.arrived \/ (first <= last /\ lands /\ front = z.guard))
    OBVIOUS
  <2>6. y = [z EXCEPT !.keys = keys, !.missed = m, !.arrived = a, !.unclear = u]
    BY <2>2, <2>3, <2>4, <2>5 DEF Typed, RunRecord
  <2>7. /\ y.keys = keys /\ y.phase = z.phase /\ y.sent = z.sent /\ y.worker = z.worker
        /\ y.inserted = z.inserted /\ y.erred = z.erred
    BY <2>6 DEF RunRecord
  <2>8. y \in RunRecord
    <3>1. PICK v \in RunRecord : v = [z EXCEPT !.keys = keys, !.missed = m]
      BY DEF RunRecord
    <3>2. [v EXCEPT !.arrived = a, !.unclear = u] \in RunRecord
      BY DEF RunRecord
    <3>3. y = [v EXCEPT !.arrived = a, !.unclear = u]
      BY <2>6, <3>1 DEF RunRecord
    <3> QED BY <3>2, <3>3
  <2> QED BY <2>2, <2>7, <2>8
<1>4. Len(Piece(1, last)) = last
  <2>1. 1 \in Nat /\ 1 >= 1 /\ last + 1 >= 1 /\ last + 1 - 1 = last
    BY <1>2
  <2> QED BY <1>2, <2>1, PieceIsSeq
<1>5. Fits(y)
  BY <1>3, <1>4 DEF Fits, WorkerFits, KeysFit, FitsWith
<1>6. Grows(run[r], y)
  BY <1>3 DEF Grows, LateIsKnown
<1>7. Becomes(r, y)
  OBVIOUS
<1> QED BY <1>1, <1>5, <1>6, <1>7, OneRunMoves

LEMMA KeysFailKeep ==
  ASSUME Inv, NEW r \in Runs, NEW z \in RunRecord,
         NEW first \in 1..Pieces, NEW last \in 1..Pieces, first <= last,
         WorkerFits(z), z.phase \notin {"new", "done"}, front' = front,
         KeysFail(r, first, last, z)
  PROVE  Inv'
<1> DEFINE y == [z EXCEPT !.erred = TRUE]
<1>1. /\ y \in RunRecord /\ y.erred = TRUE /\ y.phase = z.phase
      /\ y.inserted = z.inserted /\ y.sent = z.sent /\ y.worker = z.worker
  BY DEF RunRecord
<1>2. front \in Apps /\ Pieces \in Nat
  BY InsertionAssumption DEF Inv, TypeOK
<1>3. WorkerFits(y) /\ Grows(run[r], y) /\ y.phase # "new"
  BY <1>1 DEF WorkerFits, Grows, LateIsKnown
<1>4. CASE /\ late' = Append(late, [run |-> r, first |-> first, last |-> last])
           /\ Becomes(r, y)
  <2>1. [run |-> r, first |-> first, last |-> last] \in LateRecord
    BY DEF LateRecord
  <2>2. Fits(y)
    BY <1>1, <1>3 DEF Fits
  <2> QED BY <1>1, <1>2, <1>3, <1>4, <2>1, <2>2, OneRunMoves
<1>5. CASE \E lands \in MayLand, n \in (first - 1)..last :
             Becomes(r, Typed(y, first, n, lands)) /\ late' = late
  <2>1. PICK lands \in MayLand, n \in (first - 1)..last :
          Becomes(r, Typed(y, first, n, lands)) /\ late' = late
    BY <1>5
  <2>2. n \in 0..Pieces /\ first <= n + 1
    BY <1>2
  <2> HIDE DEF y
  <2> QED BY <1>1, <1>3, <2>1, <2>2, KeysGoKeep
<1> QED BY <1>4, <1>5 DEF KeysFail

LEMMA WorkerTypes ==
  ASSUME Inv, NEW r \in Runs, WorkerTyped(r) \/ WorkerFails(r)
  PROVE  Inv'
<1> DEFINE x == run[r]
           n == NextPiece(r)
<1>1. x \in RunRecord /\ Fits(x) /\ Pieces \in Nat
  BY InsertionAssumption DEF Inv, TypeOK
<1>2. /\ x.worker = "typing" /\ x.phase \in {"asking", "answered"} /\ front' = front
      /\ n = x.inserted + 1 /\ n \in 1..Pieces /\ n <= x.sent
  BY <1>1 DEF WorkerTyped, WorkerFails, Fits, WorkerFits, RunRecord, NextPiece, desk
<1>3. CASE WorkerTyped(r)
  <2> DEFINE z == [x EXCEPT !.worker = "recv", !.inserted = n]
  <2>0. z = [x EXCEPT !.worker = "recv", !.inserted = @ + 1]
    BY <1>1, <1>2 DEF RunRecord
  <2>1. PICK lands \in MayLand : Becomes(r, Typed(z, n, n, lands)) /\ late' = late
    BY <1>3, <2>0 DEF WorkerTyped, KeysGo
  <2>2. /\ z \in RunRecord /\ z.inserted = n /\ z.worker = "recv" /\ z.erred = x.erred
        /\ z.keys = x.keys /\ z.sent = x.sent /\ z.phase = x.phase
    <3>1. n \in 0..Pieces
      BY <1>2
    <3> HIDE DEF n
    <3> QED BY <1>1, <3>1 DEF RunRecord
  <2>3. ~x.erred => x.keys \o Piece(n, n) = Piece(1, n)
    <3>1. x.inserted \in Nat /\ n \in Nat /\ x.inserted <= n
      BY <1>1, <1>2 DEF RunRecord
    <3>2. Piece(1, x.inserted) \o Piece(x.inserted + 1, n) = Piece(1, n)
      BY <3>1, PiecesJoin
    <3> QED BY <3>2, <1>1, <1>2 DEF Fits, KeysFit
  <2>4. WorkerFits(z) /\ Grows(x, z) /\ z.phase # "new"
    BY <1>2, <2>2 DEF WorkerFits, Grows, LateIsKnown
  <2>5. z.erred \/ FitsWith(z, n, n)
    BY <1>2, <2>2, <2>3 DEF FitsWith
  <2>6. n \in 0..Pieces /\ n <= n + 1
    BY <1>2
  <2> HIDE DEF z, n
  <2> QED BY <1>2, <2>1, <2>2, <2>4, <2>5, <2>6, KeysGoKeep
<1>4. CASE WorkerFails(r)
  <2> DEFINE z == [x EXCEPT !.worker = "over", !.failed = TRUE]
  <2>1. KeysFail(r, n, n, z)
    BY <1>4 DEF WorkerFails
  <2>2. /\ z \in RunRecord /\ z.worker = "over" /\ z.sent = x.sent /\ z.phase = x.phase
        /\ z.inserted = x.inserted
    BY <1>1 DEF RunRecord
  <2>3. WorkerFits(z) /\ z.phase \notin {"new", "done"}
    BY <1>1, <1>2, <2>2 DEF Fits, WorkerFits
  <2>4. n <= n
    BY <1>2
  <2> HIDE DEF z, n
  <2> QED BY <1>2, <2>1, <2>2, <2>3, <2>4, KeysFailKeep
<1> QED BY <1>3, <1>4

LEMMA SuffixKeeps ==
  ASSUME Inv, NEW r \in Runs, RecoverSuffix(r)
  PROVE  Inv'
<1> DEFINE x == run[r]
           n == SuffixStart(r)
<1>1. x \in RunRecord /\ Fits(x) /\ Pieces \in Nat \ {0}
  BY InsertionAssumption DEF Inv, TypeOK
<1>2. /\ x.phase = "answered" /\ x.worker \in {"none", "over"} /\ front' = front
      /\ HasInserted(r) /\ IsPrefix(r) /\ ~AlreadyComplete(r)
  BY DEF RecoverSuffix, WorkerOver, At, InsertSuffix, desk
<1>3. n = x.inserted + 1 /\ x.inserted \in Nat /\ x.inserted # Pieces /\ x.inserted <= Pieces
  BY <1>1, <1>2 DEF SuffixStart, AlreadyComplete, RunRecord
<1>4. /\ n \in 1..Pieces /\ Pieces \in 0..Pieces /\ Pieces \in 1..Pieces
      /\ n <= Pieces /\ n <= Pieces + 1
  BY <1>1, <1>3
<1>5. CASE KeysGo(r, n, Pieces, [x EXCEPT !.phase = "tail"])
  <2> DEFINE z == [x EXCEPT !.phase = "tail"]
  <2>1. PICK lands \in MayLand : Becomes(r, Typed(z, n, Pieces, lands)) /\ late' = late
    BY <1>5 DEF KeysGo
  <2>2. /\ z \in RunRecord /\ z.inserted = x.inserted /\ z.worker = x.worker
        /\ z.erred = x.erred /\ z.keys = x.keys /\ z.sent = x.sent /\ z.phase = "tail"
    BY <1>1 DEF RunRecord, Phases
  <2>3. ~x.erred => x.keys \o Piece(n, Pieces) = Piece(1, Pieces)
    <3>1. Piece(1, x.inserted) \o Piece(x.inserted + 1, Pieces) = Piece(1, Pieces)
      BY <1>1, <1>3, PiecesJoin
    <3> QED BY <3>1, <1>1, <1>2, <1>3 DEF Fits, KeysFit
  <2>4. WorkerFits(z) /\ Grows(x, z) /\ z.phase # "new"
    BY <1>1, <1>2, <2>2 DEF Fits, WorkerFits, Grows, LateIsKnown
  <2>5. z.erred \/ FitsWith(z, n, Pieces)
    BY <2>2, <2>3 DEF FitsWith
  <2> HIDE DEF z, n
  <2> QED BY <1>2, <1>4, <2>1, <2>2, <2>4, <2>5, KeysGoKeep
<1>6. CASE KeysFail(r, n, Pieces, [x EXCEPT !.phase = "copy", !.told = TRUE])
  <2> DEFINE z == [x EXCEPT !.phase = "copy", !.told = TRUE]
  <2>1. /\ z \in RunRecord /\ z.inserted = x.inserted /\ z.worker = x.worker
        /\ z.sent = x.sent /\ z.phase = "copy"
    BY <1>1 DEF RunRecord, Phases
  <2>2. WorkerFits(z)
    BY <1>1, <1>2, <2>1 DEF Fits, WorkerFits
  <2> HIDE DEF z, n
  <2> QED BY <1>2, <1>4, <1>6, <2>1, <2>2, KeysFailKeep DEF z
<1> QED BY <1>5, <1>6 DEF RecoverSuffix

\* The whole text, by keys or as a paste.
LEMMA WholeKeeps ==
  ASSUME Inv, NEW r \in Runs, run[r].phase \in {"type", "paste"}, front' = front, late' = late,
         NEW lands \in MayLand,
         Becomes(r, Typed([run[r] EXCEPT !.phase = "tail"], 1, Pieces, lands))
  PROVE  Inv'
<1> DEFINE x == run[r]
           z == [x EXCEPT !.phase = "tail"]
<1>1. x \in RunRecord /\ Fits(x) /\ Pieces \in Nat \ {0}
  BY InsertionAssumption DEF Inv, TypeOK
<1>2. /\ z \in RunRecord /\ z.inserted = x.inserted /\ z.worker = x.worker
      /\ z.erred = x.erred /\ z.keys = x.keys /\ z.sent = x.sent /\ z.phase = "tail"
  BY <1>1 DEF RunRecord, Phases
<1>3. ~x.erred => x.keys \o Piece(1, Pieces) = Piece(1, Pieces)
  <2>1. ~x.erred => x.keys = Piece(1, 0)
    BY <1>1, NoPiece DEF Fits, KeysFit
  <2>2. Piece(1, 0) \o Piece(1, Pieces) = Piece(1, Pieces)
    <3>1. 0 \in Nat /\ 0 <= Pieces /\ 0 + 1 = 1
      BY <1>1
    <3> QED BY <3>1, <1>1, PiecesJoin
  <2> QED BY <2>1, <2>2
<1>4. WorkerFits(z) /\ Grows(x, z) /\ z.phase # "new"
  BY <1>1, <1>2 DEF Fits, WorkerFits, Grows, LateIsKnown
<1>5. z.erred \/ FitsWith(z, 1, Pieces)
  BY <1>2, <1>3 DEF FitsWith
<1>6. 1 \in 1..Pieces /\ Pieces \in 0..Pieces /\ 1 <= Pieces + 1
  BY <1>1
<1>7. Becomes(r, Typed(z, 1, Pieces, lands))
  OBVIOUS
<1> HIDE DEF z
<1> QED BY <1>2, <1>4, <1>5, <1>6, <1>7, KeysGoKeep

LEMMA TextKeeps ==
  ASSUME Inv, NEW r \in Runs, TypeText(r) \/ PasteText(r) \/ WriteText(r) \/ Fallback(r)
  PROVE  Inv'
<1> DEFINE x == run[r]
<1>1. x \in RunRecord /\ Fits(x) /\ front \in Apps /\ Pieces \in Nat \ {0}
  BY InsertionAssumption DEF Inv, TypeOK
\* A record that only goes on, with nothing typed.
<1>2. ASSUME x.phase \in {"paste", "write", "fallback"}, front' = front, late' = late,
             NEW y, Becomes(r, y), y \in RunRecord, y.phase \in {"tail", "fallback"},
             y.keys = x.keys, y.erred = x.erred,
             y.inserted = x.inserted, y.sent = x.sent, y.worker = x.worker
      PROVE  Inv'
  <2>1. ~x.erred => x.keys = << >>
    BY <1>1, <1>2 DEF Fits, KeysFit
  <2>2. << >> = Piece(1, Len(<< >>))
    BY NoPiece
  <2>3. Fits(y) /\ Grows(x, y)
    BY <1>1, <1>2, <2>1, <2>2 DEF Fits, WorkerFits, KeysFit, Grows, LateIsKnown
  <2> QED BY <1>1, <1>2, <2>3, OneRunMoves
<1>3. ASSUME x.phase \in {"paste", "write"}, front' = front, late' = late,
             Becomes(r, AfterError(r))
      PROVE  Inv'
  <2>1. CASE Becomes(r, [x EXCEPT !.phase = "fallback"])
    <3> DEFINE y == [x EXCEPT !.phase = "fallback"]
    <3>1. /\ y \in RunRecord /\ y.phase \in {"tail", "fallback"}
          /\ y.keys = x.keys /\ y.erred = x.erred
          /\ y.inserted = x.inserted /\ y.sent = x.sent /\ y.worker = x.worker
      BY <1>1 DEF RunRecord, Phases
    <3> HIDE DEF y
    <3> QED BY <1>2, <1>3, <2>1, <3>1 DEF y
  <2>2. CASE Becomes(r, [x EXCEPT !.phase = "tail", !.told = TRUE])
    <3> DEFINE y == [x EXCEPT !.phase = "tail", !.told = TRUE]
    <3>1. /\ y \in RunRecord /\ y.phase \in {"tail", "fallback"}
          /\ y.keys = x.keys /\ y.erred = x.erred
          /\ y.inserted = x.inserted /\ y.sent = x.sent /\ y.worker = x.worker
      BY <1>1 DEF RunRecord, Phases
    <3> HIDE DEF y
    <3> QED BY <1>2, <1>3, <2>2, <3>1 DEF y
  <2> QED BY <1>3, <2>1, <2>2 DEF AfterError
<1> DEFINE t == [x EXCEPT !.phase = "tail"]
           u == [x EXCEPT !.phase = "tail", !.silent = TRUE]
<1>4. /\ t \in RunRecord /\ t.phase = "tail" /\ t.keys = x.keys /\ t.erred = x.erred
      /\ t.inserted = x.inserted /\ t.sent = x.sent /\ t.worker = x.worker
  BY <1>1 DEF RunRecord, Phases
<1>9. /\ u \in RunRecord /\ u.phase = "tail" /\ u.keys = x.keys /\ u.erred = x.erred
      /\ u.inserted = x.inserted /\ u.sent = x.sent /\ u.worker = x.worker
  BY <1>1 DEF RunRecord, Phases
<1>5. CASE TypeText(r)
  <2>1. x.phase = "type" /\ front' = front
    BY <1>5 DEF TypeText, At, desk
  <2>2. CASE KeysGo(r, 1, Pieces, [x EXCEPT !.phase = "tail"])
    BY <2>1, <2>2, WholeKeeps DEF KeysGo
  <2>3. CASE KeysFail(r, 1, Pieces, [x EXCEPT !.phase = "paste"])
    <3> DEFINE z == [x EXCEPT !.phase = "paste"]
    <3>1. /\ z \in RunRecord /\ z.inserted = x.inserted /\ z.worker = x.worker
          /\ z.sent = x.sent /\ z.phase = "paste"
      BY <1>1 DEF RunRecord, Phases
    <3>2. WorkerFits(z)
      BY <1>1, <2>1, <3>1 DEF Fits, WorkerFits
    <3>3. 1 \in 1..Pieces /\ Pieces \in 1..Pieces /\ 1 <= Pieces /\ KeysFail(r, 1, Pieces, z)
      BY <1>1, <2>3
    <3> HIDE DEF z
    <3> QED BY <2>1, <3>1, <3>2, <3>3, KeysFailKeep
  <2> QED BY <1>5, <2>2, <2>3 DEF TypeText
<1>6. CASE PasteText(r)
  <2>1. x.phase = "paste" /\ front' = front /\ late' = late
    BY <1>6 DEF PasteText, At, desk
  <2>2. CASE \E lands \in MayLand :
               Becomes(r, Typed([x EXCEPT !.phase = "tail"], 1, Pieces, lands))
    BY <2>1, <2>2, WholeKeeps
  <2>3. CASE Go(r, "tail")
    BY <1>2, <1>4, <2>1, <2>3 DEF Go
  <2>4. CASE Becomes(r, AfterError(r))
    BY <1>3, <2>1, <2>4
  <2> QED BY <1>6, <2>2, <2>3, <2>4 DEF PasteText
<1>7. CASE WriteText(r)
  <2>1. x.phase = "write" /\ front' = front /\ late' = late
    BY <1>7 DEF WriteText, At, desk
  <2>2. CASE Go(r, "tail")
    BY <1>2, <1>4, <2>1, <2>2 DEF Go
  <2>3. CASE Becomes(r, AfterError(r))
    BY <1>3, <2>1, <2>3
  <2> QED BY <1>7, <2>2, <2>3 DEF WriteText
<1>8. CASE Fallback(r)
  <2>1. x.phase = "fallback" /\ front' = front /\ late' = late
    BY <1>8 DEF Fallback, At, desk
  <2>2. CASE Go(r, "tail")
    BY <1>2, <1>4, <2>1, <2>2 DEF Go
  <2>3. CASE Becomes(r, [x EXCEPT !.phase = "tail", !.silent = TRUE])
    BY <1>2, <1>9, <2>1, <2>3
  <2> QED BY <1>8, <2>2, <2>3 DEF Fallback
<1> QED BY <1>5, <1>6, <1>7, <1>8

-----------------------------------------------------------------------------
(* What happens by itself or by the user, and the theorem.                 *)

LEMMA LateKeep ==
  ASSUME Inv, LateKeys
  PROVE  Inv'
<1> PICK l : l = Head(late)
  OBVIOUS
<1> DEFINE r == l.run
           x == run[r]
<1>1. late \in Seq(LateRecord) /\ late # << >> /\ late' = Tail(late) /\ front' = front
  BY DEF LateKeys, Inv, TypeOK, desk
<1>2. late[1] = l /\ 1 \in DOMAIN late /\ l \in LateRecord
  BY <1>1
<1>3. r \in Runs /\ l.first \in 1..Pieces /\ l.last \in 1..Pieces /\ LateIsKnown(x)
  BY <1>2 DEF LateRecord, Inv
<1>4. /\ run \in [Runs -> RunRecord] /\ front \in Apps /\ Pieces \in Nat
      /\ x \in RunRecord /\ Fits(x)
  BY <1>3, InsertionAssumption DEF Inv, TypeOK
<1>5. Tail(late) \in Seq(LateRecord) /\ \A i \in DOMAIN Tail(late) : i + 1 \in DOMAIN late
                                                /\ Tail(late)[i] = late[i + 1]
  BY <1>1
<1>6. CASE Under(r)
  <2>1. PICK lands \in MayLand :
          Becomes(r, Typed(x, l.first, l.last, lands))
    BY <1>6 DEF LateKeys
  <2>2. x.erred /\ x.phase # "new" /\ lands \in BOOLEAN
    BY <1>3, <1>6 DEF LateIsKnown, Under, MayLand
  <2>3. /\ l.first \in 1..Pieces /\ l.last \in 0..Pieces /\ l.first <= l.last + 1
    BY <1>2, <1>3, <1>4 DEF LateRecord
  <2>4. WorkerFits(x) /\ Grows(x, x)
    BY <1>4 DEF Fits, Grows
  <2> HIDE DEF r
  <2> QED BY <1>1, <1>3, <1>4, <2>1, <2>2, <2>3, <2>4, KeysGoKeep
<1>7. CASE ~Under(r)
  <2>1. run' = run
    BY <1>7 DEF LateKeys
  <2> QED BY <1>1, <1>4, <1>5, <2>1 DEF Inv, TypeOK
<1> QED BY <1>6, <1>7

LEMMA OthersKeep ==
  ASSUME Inv, \/ Move \/ Refresh \/ StartRefused \/ Cancel \/ DismissOffer
              \/ PressCopy \/ OfferCopied \/ UNCHANGED vars
  PROVE  Inv'
<1>1. CASE Move
  <2>1. /\ front' \in Apps /\ late' = late
        /\ run' = [r \in Runs |-> [run[r] EXCEPT !.moved = Under(r)]]
    BY <1>1 DEF Move
  <2>2. \A r \in Runs : Under(r) \in BOOLEAN
    BY DEF Under
  <2>3. ASSUME NEW r \in Runs
        PROVE  /\ run'[r] \in RunRecord /\ Fits(run'[r])
               /\ LateIsKnown(run[r]) => LateIsKnown(run'[r])
    <3> DEFINE t == Under(r)
               x == run[r]
    <3>1. run'[r] = [x EXCEPT !.moved = t] /\ t \in BOOLEAN /\ x \in RunRecord /\ Fits(x)
      BY <2>1, <2>2 DEF Inv, TypeOK
    <3> HIDE DEF t, x
    <3>2. /\ run'[r] \in RunRecord
          /\ run'[r].keys = x.keys /\ run'[r].erred = x.erred /\ run'[r].phase = x.phase
          /\ run'[r].inserted = x.inserted /\ run'[r].sent = x.sent
          /\ run'[r].worker = x.worker
      BY <3>1 DEF RunRecord
    <3> QED BY <3>1, <3>2 DEF x, Fits, WorkerFits, KeysFit, LateIsKnown
  <2>4. \A i \in DOMAIN late : late[i].run \in Runs
    <3>1. \A i \in DOMAIN late : late[i] \in LateRecord
      BY DEF Inv, TypeOK
    <3>2. \A l \in LateRecord : l.run \in Runs
      BY DEF LateRecord
    <3> QED BY <3>1, <3>2
  <2> QED BY <2>1, <2>3, <2>4 DEF Inv, TypeOK
<1>2. CASE \/ Refresh \/ StartRefused \/ Cancel \/ DismissOffer
           \/ PressCopy \/ OfferCopied \/ UNCHANGED vars
  <2>1. UNCHANGED <<front, run, late>>
    BY <1>2 DEF Refresh, StartRefused, Cancel, DismissOffer, PressCopy, OfferCopied, desk, vars
  <2> QED BY <2>1 DEF Inv, TypeOK
<1> QED BY <1>1, <1>2

LEMMA InvInit == Init => Inv
<1> SUFFICES ASSUME Init PROVE Inv
  OBVIOUS
<1>1. front \in Apps /\ late = << >> /\ run = [r \in Runs |-> Local("new")]
  BY DEF Init, Apps
<1>2. Fits(Local("new")) /\ Local("new") \in RunRecord
  BY <1>1, LocalFits DEF Fits
<1> QED BY <1>1, <1>2 DEF Inv, TypeOK

LEMMA InvNext == Inv /\ [Next]_vars => Inv'
<1> SUFFICES ASSUME Inv, [Next]_vars PROVE Inv'
  OBVIOUS
<1>1. ASSUME NEW r \in Runs, Begin(r) \/ BeginDraft(r) \/ AIStep(r)
      PROVE  Inv'
  BY <1>1, AsksKeep, WorkerKeeps DEF AIStep
<1>2. ASSUME NEW r \in Runs, WorkerStep(r)
      PROVE  Inv'
  BY <1>2, WorkerKeeps, WorkerTypes DEF WorkerStep
<1>3. ASSUME NEW r \in Runs, RecoveryStep(r)
      PROVE  Inv'
  BY <1>3, RecoveryKeeps, SuffixKeeps, EndsKeep DEF RecoveryStep
<1>4. ASSUME NEW r \in Runs, OutputStep(r)
      PROVE  Inv'
  BY <1>4, OutputKeeps, TextKeeps, EndsKeep DEF OutputStep
<1> QED BY <1>1, <1>2, <1>3, <1>4, LateKeep, OthersKeep DEF Next

LEMMA InvKeysInOrder == Inv => KeysInOrder
<1> SUFFICES ASSUME Inv, NEW r \in Runs, ~run[r].erred
             PROVE  run[r].keys = Piece(1, Len(run[r].keys))
  BY DEF KeysInOrder
<1> DEFINE x == run[r]
<1>1. x \in RunRecord /\ Fits(x)
  BY DEF Inv, TypeOK
<1>2. x.inserted \in Nat /\ 1 \in Nat /\ 1 >= 1 /\ x.inserted + 1 >= 1
      /\ x.inserted + 1 - 1 = x.inserted
  BY <1>1, InsertionAssumption DEF RunRecord
<1>3. Len(Piece(1, x.inserted)) = x.inserted /\ << >> = Piece(1, Len(<< >>))
  BY <1>2, PieceIsSeq, NoPiece
<1> QED BY <1>1, <1>3 DEF Fits, KeysFit

\* What a run types is a beginning of its text, each piece once and in order,
\* unless the keyboard failed.
THEOREM KeysAlwaysInOrder == Spec => []KeysInOrder
BY InvInit, InvNext, InvKeysInOrder, PTL DEF Spec

\* Every variable the argument reads stays in its type.
THEOREM RunsStayTyped == Spec => []TypeOK
<1>1. Inv => TypeOK
  BY DEF Inv
<1> QED BY <1>1, InvInit, InvNext, PTL DEF Spec

-----------------------------------------------------------------------------
(***************************************************************************)
(* The pill's offer: whoever ends while the pipeline is free for another   *)
(* run was cancelled or shares the pipeline, so the offer that is up is    *)
(* the last run's, or such a one's.                                        *)
(***************************************************************************)

\* A Dictate or Translate run under way is the last one and alone with the pipeline, or it was
\* cancelled, or begun beside another one.
Unsettled(r) == r \in cancelled \cup crossed
LastIsAlone ==
  \A r \in PillRuns : Under(r) =>
    \/ Unsettled(r)
    \/ r = latest /\ state = "Busy" /\ \A q \in Runs : Under(q) => q = r

OfferInv == LastIsAlone /\ OfferIsCurrent

\* What a run's steps have in common.
LEMMA RunStepFrame ==
  ASSUME Inv, NEW r \in Runs, AIStep(r) \/ WorkerStep(r) \/ RecoveryStep(r) \/ OutputStep(r)
  PROVE  /\ UNCHANGED <<front, spot, abort_flag, latest, cancelled, crossed>>
         /\ \A q \in Runs \ {r} : run'[q] = run[q]
         /\ Under(r)
         /\ state' \in {state, "Busy"} \/ ~Under(r)'
         /\ copy_offer' = copy_offer \/ (copy_offer' = r /\ r \in PillRuns)
<1> DEFINE Frame ==
         /\ UNCHANGED <<front, spot, abort_flag, latest, cancelled, crossed>>
         /\ \A q \in Runs \ {r} : run'[q] = run[q]
         /\ Under(r)
         /\ state' \in {state, "Busy"} \/ ~Under(r)'
         /\ copy_offer' = copy_offer \/ (copy_offer' = r /\ r \in PillRuns)
<1> USE DEF Under, At, Go, desk, flags, pill, history
<1>1. ASSUME NEW x, Becomes(r, x) PROVE \A q \in Runs \ {r} : run'[q] = run[q]
  BY <1>1 DEF Becomes, Inv, TypeOK
<1>2. ASSUME NEW first, NEW last, NEW x, KeysGo(r, first, last, x) \/ KeysFail(r, first, last, x)
      PROVE  \A q \in Runs \ {r} : run'[q] = run[q]
  BY <1>1, <1>2 DEF KeysGo, KeysFail
<1>3. run[r].worker \in {"recv", "typing"} => Under(r)
  BY DEF Inv, Fits, WorkerFits
<1>4. CASE AIStep(r)
  BY <1>1, <1>4 DEF AIStep, SpokenInVain, OutputRaw, DraftRefused, AskAI, SendPiece, Answer
<1>5. CASE WorkerStep(r)
  <2>1. CASE WorkerAborts(r) \/ WorkerLosesTarget(r) \/ WorkerTakes(r) \/ WorkerEnds(r)
    BY <1>1, <1>3, <2>1 DEF WorkerAborts, WorkerLosesTarget, WorkerTakes, WorkerEnds, Waiting
  <2>2. CASE WorkerTyped(r) \/ WorkerFails(r)
    BY <1>2, <1>3, <2>2 DEF WorkerTyped, WorkerFails
  <2> QED BY <1>5, <2>1, <2>2 DEF WorkerStep
<1>6. CASE RecoveryStep(r)
  <2>1. CASE RecoverSuffix(r)
    BY <1>2, <2>1 DEF RecoverSuffix, WorkerOver
  <2>2. CASE RecoverComplete(r)
    BY <1>1, <2>2 DEF RecoverComplete, WorkerOver
  <2>3. CASE RecoverByCopy(r) \/ CopyForRecovery(r) \/ Skip(r) \/ OutputAnswer(r)
    BY <1>1, <2>3 DEF RecoverByCopy, CopyForRecovery, Skip, OutputAnswer, WorkerOver
  <2> QED BY <1>6, <2>1, <2>2, <2>3 DEF RecoveryStep
<1>7. CASE OutputStep(r)
  <2>1. CASE Execute(r) \/ HoldText(r) \/ PickStrategy(r)
    BY <1>1, <2>1 DEF Execute, HoldText, Held, PickStrategy
  <2>2. CASE TypeText(r)
    BY <1>2, <2>2 DEF TypeText
  <2>3. CASE PasteText(r) \/ WriteText(r) \/ Fallback(r)
    BY <1>1, <2>3 DEF PasteText, WriteText, Fallback
  <2>4. CASE Finish(r)
    <3>1. Becomes(r, Local("done")) /\ run'[r].phase = "done" /\ At(r, "tail")
      BY <2>4 DEF Finish, Becomes, Local, Inv, TypeOK
    <3> QED BY <1>1, <2>4, <3>1 DEF Finish
  <2> QED BY <1>7, <2>1, <2>2, <2>3, <2>4 DEF OutputStep
<1> QED BY <1>4, <1>5, <1>6, <1>7

LEMMA OfferStep ==
  ASSUME Inv, OfferInv, [Next]_vars
  PROVE  OfferInv'
<1> USE DEF OfferInv, OfferIsCurrent, LastIsAlone, Unsettled
<1>1. ASSUME NEW r \in Runs, AIStep(r) \/ WorkerStep(r) \/ RecoveryStep(r) \/ OutputStep(r)
      PROVE  OfferInv'
  <2>1. /\ UNCHANGED <<latest, cancelled, crossed>>
        /\ \A q \in Runs \ {r} : run'[q] = run[q]
        /\ Under(r)
        /\ state' \in {state, "Busy"} \/ ~Under(r)'
        /\ copy_offer' = copy_offer \/ (copy_offer' = r /\ r \in PillRuns)
    BY <1>1, RunStepFrame
  <2>2. \A q \in Runs : Under(q)' => Under(q)
    BY <2>1 DEF Under
  <2>3. OfferIsCurrent'
    BY <2>1
  <2>4. ASSUME NEW q \in PillRuns, Under(q)', ~Unsettled(q)
        PROVE  q = latest /\ state' = "Busy" /\ \A p \in Runs : Under(p)' => p = q
    <3>1. q = latest /\ state = "Busy" /\ (\A p \in Runs : Under(p) => p = q) /\ q = r
      BY <2>1, <2>2, <2>4, InsertionAssumption
    <3> QED BY <2>1, <2>2, <2>4, <3>1, InsertionAssumption
  <2> QED BY <2>1, <2>3, <2>4
<1>2. ASSUME NEW r \in Runs, Begin(r) PROVE OfferInv'
  <2>1. /\ state = "Idle" /\ latest' = r /\ cancelled' = cancelled /\ copy_offer' = None
        /\ state' = "Busy"
        /\ \A q \in Runs \ {r} : run'[q] = run[q]
        /\ crossed' = IF \E q \in Runs : Under(q) THEN crossed \cup {r} ELSE crossed
        /\ run[r].phase = "new"
    BY <1>2 DEF Begin, OfferAtStart, At, Becomes, Inv, TypeOK
  <2>2. \A q \in Runs \ {r} : Under(q)' => Under(q)
    BY <2>1 DEF Under
  <2>3. \A q \in PillRuns \ {r} : Under(q)' => Unsettled(q)
    BY <2>1, <2>2, InsertionAssumption
  <2> QED BY <2>1, <2>2, <2>3, InsertionAssumption
<1>7. ASSUME NEW r \in Runs, BeginDraft(r) PROVE OfferInv'
  <2>1. /\ UNCHANGED <<state, copy_offer, latest, cancelled, crossed>> /\ state = "Idle"
        /\ r \notin PillRuns /\ \A q \in Runs \ {r} : run'[q] = run[q]
    BY <1>7 DEF BeginDraft, At, Becomes, Inv, TypeOK, pill, history
  <2>2. \A q \in PillRuns : Under(q)' = Under(q)
    BY <2>1, InsertionAssumption DEF Under
  <2> QED BY <2>1, <2>2
<1>3. CASE LateKeys
  <2>1. UNCHANGED <<state, copy_offer, latest, cancelled, crossed>>
    BY <1>3 DEF LateKeys, flags, pill, history
  <2>2. \A q \in Runs : Under(q)' = Under(q)
    <3>1. PICK l : l = Head(late)
      OBVIOUS
    <3>2. CASE Under(l.run)
      <4>1. PICK lands \in MayLand :
              Becomes(l.run, Typed(run[l.run], l.first, l.last, lands))
        BY <1>3, <3>1, <3>2 DEF LateKeys
      <4>2. l.run \in Runs => Typed(run[l.run], l.first, l.last, lands).phase = run[l.run].phase
        BY DEF Typed, Inv, TypeOK, RunRecord
      <4> QED BY <4>1, <4>2 DEF Becomes, Under, Inv, TypeOK
    <3>3. CASE ~Under(l.run)
      BY <1>3, <3>1, <3>3 DEF LateKeys, Under
    <3> QED BY <3>2, <3>3
  <2> QED BY <2>1, <2>2, InsertionAssumption
<1>4. CASE Move
  <2>1. UNCHANGED <<state, copy_offer, latest, cancelled, crossed>>
    BY <1>4 DEF Move, flags, pill, history
  <2>2. \A q \in Runs : Under(q)' = Under(q)
    <3>1. \A q \in Runs : run'[q] = [run[q] EXCEPT !.moved = Under(q)]
      BY <1>4 DEF Move
    <3>2. ASSUME NEW q \in Runs PROVE run'[q].phase = run[q].phase
      <4> DEFINE t == Under(q)
      <4>1. run'[q] = [run[q] EXCEPT !.moved = t] /\ run[q] \in RunRecord
        BY <3>1 DEF Inv, TypeOK
      <4> HIDE DEF t
      <4> QED BY <4>1 DEF RunRecord
    <3> QED BY <3>2 DEF Under
  <2> QED BY <2>1, <2>2, InsertionAssumption
<1>5. CASE Cancel
  BY <1>5, InsertionAssumption DEF Cancel, pill, Under
<1>6. CASE Refresh \/ StartRefused \/ DismissOffer \/ PressCopy \/ OfferCopied \/ UNCHANGED vars
  BY <1>6 DEF Refresh, StartRefused, DismissOffer, PressCopy, OfferCopied, OfferAtStart, vars,
     flags, pill, history, Under
<1> QED BY <1>1, <1>2, <1>3, <1>4, <1>5, <1>6, <1>7 DEF Next

\* The pill offers the text of the last Dictate or Translate run, for any number of runs and
\* cancels, unless the run was cancelled or was begun while another one had not ended.
THEOREM OfferAlwaysCurrent == Spec => []OfferIsCurrent
<1>1. Init => OfferInv
  BY InsertionAssumption DEF Init, OfferInv, LastIsAlone, OfferIsCurrent, Under, Local
<1>2. Inv /\ OfferInv /\ [Next]_vars => OfferInv'
  BY OfferStep
<1>3. OfferInv => OfferIsCurrent
  BY DEF OfferInv
<1> QED BY <1>1, <1>2, <1>3, InvInit, InvNext, PTL DEF Spec

-----------------------------------------------------------------------------
(***************************************************************************)
(* No text is lost.  A run's record tells, wherever it stands, why keys of *)
(* it may have missed their target and why its worker has stopped, and     *)
(* that is what decides between the recovery, the output and the pill.     *)
(***************************************************************************)

\* What excuses keys that missed their target.
Pardoned(r, x) ==
  x.moved \/ x.unclear \/ x.erred \/ r \notin PillRuns \/ (x.readable /\ x.arrived)

\* The run types where it began: into the app of its start, and into no list.
OnTarget(r, x) ==
  /\ x.moved \/ front = x.guard
  /\ x.worker # "none" \/ x.phase \in {"type", "paste"} =>
       x.moved \/ r \notin PillRuns \/ spot # "list"

\* Keys that missed are excused, or the field's length will tell of them.
MissesKnown(r, x) ==
  x.missed /\ x.phase # "tail" => Pardoned(r, x) \/ (x.readable /\ x.inserted > 0)

\* Why a worker has stopped, and what it has done by then.
WorkerAccounts(r, x) ==
  /\ x.phase = "speaking" => x.worker = "none" /\ ~x.erred
  /\ x.worker = "none" => ~x.readable /\ x.inserted = 0
  /\ x.erred => x.inserted < Pieces /\ x.worker \in {"none", "over"}
  /\ x.failed => x.target_lost \/ x.erred
  /\ x.phase = "answered" /\ x.answer # "error" /\ x.worker # "none" => x.sent = Pieces
  /\ x.worker = "over" /\ x.phase \in {"asking", "answered"} =>
       x.failed \/ r \in cancelled \/ (x.phase = "answered" /\ x.inserted = x.sent)

\* A text put out after a worker that could have told what the field took has its reason.
OutputAccounts(r, x) ==
  x.phase \in {"look", "execute", "type", "paste", "write", "fallback"} =>
    x.told \/ ~x.readable \/ x.erred \/ r \in cancelled

Careful(r, x) ==
  x.phase \notin {"new", "done"} =>
    /\ abort_flag => r \in cancelled
    /\ OnTarget(r, x)
    /\ MissesKnown(r, x)
    /\ WorkerAccounts(r, x)
    /\ OutputAccounts(r, x)

AllCareful == \A r \in Runs : Careful(r, run[r])

CarefulInv == spot \in Spots /\ AllCareful

\* What NothingLost asks of a step of run r.
Kept(r) ==
  r \notin cancelled' /\ run'[r].phase = "tail" /\ ~At(r, "tail") =>
    \/ Whole(run'[r].keys) /\ (run'[r].missed => Pardoned(r, run'[r]))
    \/ clipboard' = r \/ copy_offer' = r
    \/ run'[r].told \/ run'[r].silent

-----------------------------------------------------------------------------
\* What a step that changes one record has to show of the new one.
LEMMA OneRunCareful ==
  ASSUME Inv, CarefulInv, NEW r \in Runs, NEW y, Becomes(r, y), Careful(r, y),
         UNCHANGED <<front, spot, abort_flag, cancelled>>
  PROVE  CarefulInv'
<1>1. run' = [run EXCEPT ![r] = y] /\ run \in [Runs -> RunRecord]
  BY DEF Becomes, Inv, TypeOK
<1>2. ASSUME NEW q \in Runs, NEW x, Careful(q, x) PROVE Careful(q, x)'
  BY <1>2 DEF Careful, OnTarget, MissesKnown, Pardoned, WorkerAccounts, OutputAccounts
<1>3. ASSUME NEW q \in Runs PROVE Careful(q, run'[q])
  BY <1>1 DEF CarefulInv, AllCareful
<1>4. ASSUME NEW q \in Runs PROVE Careful(q, run[q])'
  <2>1. PICK x : x = run'[q]
    OBVIOUS
  <2>2. Careful(q, x)'
    BY <1>2, <1>3, <2>1
  <2> QED
    BY <2>1, <2>2 DEF Careful, OnTarget, MissesKnown, Pardoned, WorkerAccounts, OutputAccounts
<1> QED BY <1>4 DEF CarefulInv, AllCareful

LEMMA OneRunKept ==
  ASSUME Inv, CarefulInv, NEW r \in Runs, NEW y, Becomes(r, y), Careful(r, y),
         UNCHANGED <<front, spot, abort_flag, cancelled>>,
         r \notin cancelled /\ y.phase = "tail" =>
           \/ Whole(y.keys) /\ (y.missed => Pardoned(r, y))
           \/ clipboard' = r \/ copy_offer' = r
           \/ y.told \/ y.silent
  PROVE  CarefulInv' /\ Kept(r)
<1>1. CarefulInv'
  BY OneRunCareful
<1>2. run'[r] = y
  BY DEF Becomes, Inv, TypeOK
<1>3. Kept(r)
  BY <1>2 DEF Kept
<1> QED BY <1>1, <1>3

\* All pieces are there once the whole text was typed after whatever came before.
LEMMA WholeTyped ==
  ASSUME NEW keys \in Seq(Nat)
  PROVE  Whole(keys \o Piece(1, Pieces)) /\ Whole(Piece(1, Pieces))
<1> DEFINE p == Piece(1, Pieces)
<1>1. Pieces \in Nat /\ Pieces >= 1
  BY InsertionAssumption
<1>2. p \in Seq(Nat) /\ Len(p) = Pieces + 1 - 1
  <2>1. 1 \in Nat /\ 1 >= 1 /\ Pieces + 1 >= 1
    BY <1>1
  <2> QED BY <1>1, <2>1, PieceIsSeq
<1>3. Len(p) = Pieces /\ \A i \in 1..Pieces : p[i] = i
  BY <1>1, <1>2 DEF Piece
<1> HIDE DEF p
<1>4. Whole(p)
  BY <1>2, <1>3 DEF Whole
<1>5. Whole(keys \o p)
  <2>1. /\ keys \o p \in Seq(Nat) /\ Len(keys \o p) = Len(keys) + Pieces
        /\ \A i \in 1..Len(keys) + Len(p) :
             (keys \o p)[i] = IF i <= Len(keys) THEN keys[i] ELSE p[i - Len(keys)]
    BY <1>2, <1>3, ConcatProperties
  <2>2. ASSUME NEW i \in 1..Pieces
        PROVE  Len(keys) + i \in DOMAIN (keys \o p) /\ (keys \o p)[Len(keys) + i] = i
    <3>1. Len(keys) \in Nat
      OBVIOUS
    <3>2. /\ Len(keys) + i \in 1..(Len(keys) + Pieces) /\ ~(Len(keys) + i <= Len(keys))
          /\ Len(keys) + i - Len(keys) = i
      BY <1>1, <3>1
    <3> QED BY <1>3, <2>1, <3>2
  <2> QED BY <2>2 DEF Whole
<1> QED BY <1>4, <1>5 DEF p

\* What keys make of a record.
SameBut(y, z) ==
  /\ y.phase = z.phase /\ y.guard = z.guard /\ y.readable = z.readable
  /\ y.sent = z.sent /\ y.answer = z.answer /\ y.worker = z.worker
  /\ y.inserted = z.inserted /\ y.failed = z.failed /\ y.target_lost = z.target_lost
  /\ y.moved = z.moved /\ y.told = z.told /\ y.silent = z.silent

LEMMA TypedRecord ==
  ASSUME Inv, NEW z \in RunRecord, NEW lands \in MayLand,
         NEW first \in 1..Pieces, NEW last \in 0..Pieces, first <= last + 1
  PROVE  LET y == Typed(z, first, last, lands)
         IN  /\ SameBut(y, z) /\ y.erred = z.erred
             /\ y.keys = z.keys \o Piece(first, last)
             /\ y.missed = (z.missed \/ ~lands \/ front # z.guard)
             /\ z.arrived => y.arrived
             /\ y.unclear = (z.unclear \/ (spot = "canvas" /\ ~lands /\ ~z.readable))
             /\ ~lands => spot # "field"
  BY DEF Typed, RunRecord, SameBut, MayLand

\* Keys that failed: the run knows, and that is all.
LEMMA FailedRecord ==
  ASSUME Inv, NEW r \in Runs, NEW z \in RunRecord,
         NEW first \in 1..Pieces, NEW last \in 1..Pieces, first <= last,
         KeysFail(r, first, last, z)
  PROVE  \E y : Becomes(r, y) /\ SameBut(y, z) /\ y.erred
<1> PICK e : e = [z EXCEPT !.erred = TRUE]
  OBVIOUS
<1>1. e \in RunRecord /\ SameBut(e, z) /\ e.erred
  BY DEF RunRecord, SameBut
<1>2. CASE Becomes(r, e)
  BY <1>1, <1>2
<1>3. CASE \E lands \in MayLand, n \in (first - 1)..last : Becomes(r, Typed(e, first, n, lands))
  <2>1. PICK lands \in MayLand, n \in (first - 1)..last : Becomes(r, Typed(e, first, n, lands))
    BY <1>3
  <2>2. PICK y : y = Typed(e, first, n, lands)
    OBVIOUS
  <2>3. n \in 0..Pieces /\ first <= n + 1
    BY InsertionAssumption
  <2>4. SameBut(y, e) /\ y.erred = e.erred
    BY <1>1, <2>2, <2>3, TypedRecord
  <2>5. Becomes(r, y)
    BY <2>1, <2>2
  <2> QED BY <1>1, <2>4, <2>5 DEF SameBut
<1> QED BY <1>2, <1>3 DEF KeysFail

-----------------------------------------------------------------------------
\* A piece sent or taken, the worker's end, and the steps up to the answer.
LEMMA WorkerCareful ==
  ASSUME Inv, CarefulInv, NEW r \in Runs,
         \/ SendPiece(r) \/ WorkerAborts(r) \/ WorkerLosesTarget(r)
         \/ WorkerTakes(r) \/ WorkerEnds(r)
  PROVE  CarefulInv' /\ Kept(r)
<1> DEFINE x == run[r]
<1>1. x \in RunRecord /\ Fits(x) /\ Careful(r, x)
  BY DEF Inv, TypeOK, CarefulInv, AllCareful
<1>2. UNCHANGED <<front, spot, abort_flag, cancelled>>
  BY DEF SendPiece, WorkerAborts, WorkerLosesTarget, WorkerTakes, WorkerEnds, desk, flags, history
<1>3. PICK y : /\ Becomes(r, y) /\ y.phase = x.phase /\ x.phase \in {"asking", "answered"}
               /\ \/ SendPiece(r) /\ y = [x EXCEPT !.sent = @ + 1]
                  \/ WorkerAborts(r) /\ y = [x EXCEPT !.worker = "over"]
                  \/ /\ WorkerLosesTarget(r)
                     /\ y = [x EXCEPT !.worker = "over", !.failed = TRUE, !.target_lost = TRUE]
                  \/ WorkerTakes(r) /\ y = [x EXCEPT !.worker = "typing"]
                  \/ WorkerEnds(r) /\ y = [x EXCEPT !.worker = "over"]
  <2>1. x.worker \in {"recv", "typing"} => x.phase \in {"asking", "answered"}
    BY <1>1 DEF Fits, WorkerFits
  <2>2. CASE SendPiece(r)
    BY <1>1, <2>2 DEF SendPiece, At, RunRecord
  <2>3. CASE WorkerAborts(r)
    BY <1>1, <2>1, <2>3 DEF WorkerAborts, Waiting, RunRecord
  <2>4. CASE WorkerLosesTarget(r)
    BY <1>1, <2>1, <2>4 DEF WorkerLosesTarget, Waiting, RunRecord
  <2>5. CASE WorkerTakes(r)
    BY <1>1, <2>1, <2>5 DEF WorkerTakes, Waiting, RunRecord
  <2>6. CASE WorkerEnds(r)
    BY <1>1, <2>1, <2>6 DEF WorkerEnds, RunRecord
  <2> QED BY <2>2, <2>3, <2>4, <2>5, <2>6
<1>4. Careful(r, y)
  <2> USE DEF Careful, OnTarget, MissesKnown, Pardoned, WorkerAccounts, OutputAccounts, RunRecord
  <2>1. CASE SendPiece(r) /\ y = [x EXCEPT !.sent = @ + 1]
    BY <1>1, <1>3, <2>1 DEF SendPiece, At
  <2>2. CASE WorkerAborts(r) /\ y = [x EXCEPT !.worker = "over"]
    BY <1>1, <1>3, <2>2 DEF WorkerAborts, Waiting
  <2>3. CASE /\ WorkerLosesTarget(r)
             /\ y = [x EXCEPT !.worker = "over", !.failed = TRUE, !.target_lost = TRUE]
    BY <1>1, <1>3, <2>3 DEF WorkerLosesTarget, Waiting
  <2>4. CASE WorkerTakes(r) /\ y = [x EXCEPT !.worker = "typing"]
    BY <1>1, <1>3, <2>4 DEF WorkerTakes, Waiting
  <2>5. CASE WorkerEnds(r) /\ y = [x EXCEPT !.worker = "over"]
    BY <1>1, <1>3, <2>5 DEF WorkerEnds, At
  <2> QED BY <1>3, <2>1, <2>2, <2>3, <2>4, <2>5
<1>5. Kept(r)
  BY <1>1, <1>3 DEF Kept, Becomes, Inv, TypeOK
<1> QED BY <1>2, <1>3, <1>4, <1>5, OneRunCareful

LEMMA AsksCareful ==
  ASSUME Inv, CarefulInv, NEW r \in Runs,
         SpokenInVain(r) \/ OutputRaw(r) \/ DraftRefused(r) \/ AskAI(r) \/ Answer(r)
  PROVE  CarefulInv' /\ Kept(r)
<1> DEFINE x == run[r]
<1> USE DEF Careful, OnTarget, MissesKnown, Pardoned, WorkerAccounts, OutputAccounts
<1>1. x \in RunRecord /\ Fits(x) /\ Careful(r, x) /\ run \in [Runs -> RunRecord]
  BY DEF Inv, TypeOK, CarefulInv, AllCareful
<1>2. UNCHANGED <<front, spot, abort_flag, cancelled>>
  BY DEF SpokenInVain, OutputRaw, DraftRefused, AskAI, Answer, desk, flags, history
<1>4. CASE SpokenInVain(r)
  <2>1. PICK y : y = Local("done")
    OBVIOUS
  <2>2. Becomes(r, y) /\ y.phase = "done"
    BY <1>4, <2>1 DEF SpokenInVain, Local
  <2>3. Careful(r, y)
    BY <2>2
  <2> QED BY <1>2, <2>2, <2>3, OneRunKept
<1>5. CASE OutputRaw(r)
  <2>1. PICK y : y = [x EXCEPT !.phase = "look"]
    OBVIOUS
  <2>2. Becomes(r, y) /\ x.phase = "speaking"
    BY <1>5, <2>1 DEF OutputRaw, Go, At
  <2>3. Careful(r, y) /\ y.phase # "tail"
    BY <1>1, <2>1, <2>2 DEF RunRecord
  <2> QED BY <1>2, <2>2, <2>3, OneRunKept
<1>8. CASE DraftRefused(r)
  <2>1. PICK y : y = [x EXCEPT !.phase = "tail", !.told = TRUE]
    OBVIOUS
  <2>2. Becomes(r, y) /\ x.phase = "speaking"
    BY <1>8, <2>1 DEF DraftRefused, At
  <2>3. Careful(r, y) /\ y.told
    BY <1>1, <2>1, <2>2 DEF RunRecord
  <2> QED BY <1>2, <2>2, <2>3, OneRunKept
<1>6. CASE AskAI(r)
  <2>1. PICK tells \in BOOLEAN :
          Becomes(r, [x EXCEPT !.phase = "asking",
                               !.worker = IF Streams(r) THEN "recv" ELSE "none",
                               !.readable = Streams(r) /\ tells])
    BY <1>6 DEF AskAI
  <2>2. PICK w, t : w = (IF Streams(r) THEN "recv" ELSE "none") /\ t = (Streams(r) /\ tells)
    OBVIOUS
  <2>3. PICK y : y = [x EXCEPT !.phase = "asking", !.worker = w, !.readable = t]
    OBVIOUS
  <2>4. Becomes(r, y) /\ x.phase = "speaking"
    BY <1>6, <2>1, <2>2, <2>3 DEF AskAI, At
  <2>5. /\ w \in {"recv", "none"} /\ t \in BOOLEAN /\ (w = "none" => ~t)
        /\ w # "none" => r \notin PillRuns \/ spot # "list"
    BY <2>2 DEF Streams, NotEditable
  <2>6. /\ y.phase = "asking" /\ y.worker = w /\ y.readable = t /\ y.guard = x.guard
        /\ y.moved = x.moved /\ y.missed = x.missed /\ y.arrived = x.arrived /\ y.unclear = x.unclear
        /\ y.erred = x.erred /\ y.inserted = x.inserted /\ y.sent = x.sent
        /\ y.failed = x.failed /\ y.target_lost = x.target_lost /\ y.answer = x.answer
    BY <1>1, <2>3 DEF RunRecord
  <2>7. /\ x.worker = "none" /\ x.inserted = 0 /\ ~x.readable
        /\ abort_flag => r \in cancelled
        /\ x.moved \/ front = x.guard
        /\ x.missed => Pardoned(r, x)
        /\ ~x.erred
        /\ x.failed => x.target_lost \/ x.erred
    BY <1>1, <2>4
  <2>8. Careful(r, y) /\ y.phase # "tail"
    BY <2>5, <2>6, <2>7
  <2> QED BY <1>2, <2>4, <2>8, OneRunKept
<1>7. CASE Answer(r)
  <2>1. PICK a \in {"same", "changed", "error"} :
          /\ a # "error" /\ x.worker # "none" => x.sent = Pieces
          /\ Becomes(r, [x EXCEPT !.answer = a, !.phase = "answered"])
    BY <1>7 DEF Answer
  <2>2. PICK y : y = [x EXCEPT !.answer = a, !.phase = "answered"]
    OBVIOUS
  <2>3. Becomes(r, y) /\ x.phase = "asking"
    BY <1>7, <2>1, <2>2 DEF Answer, At
  <2>4. Careful(r, y) /\ y.phase # "tail"
    BY <1>1, <2>1, <2>2, <2>3 DEF RunRecord, Fits, WorkerFits
  <2> QED BY <1>2, <2>3, <2>4, OneRunKept
<1> QED BY <1>4, <1>5, <1>6, <1>7, <1>8

LEMMA RecoveryCareful ==
  ASSUME Inv, CarefulInv, NEW r \in Runs,
         RecoverByCopy(r) \/ Skip(r) \/ OutputAnswer(r) \/ RecoverComplete(r) \/ CopyForRecovery(r)
  PROVE  CarefulInv' /\ Kept(r)
<1> DEFINE x == run[r]
<1>1. x \in RunRecord /\ Fits(x) /\ Careful(r, x) /\ run \in [Runs -> RunRecord] /\ Pieces \in Nat \ {0}
  BY InsertionAssumption DEF Inv, TypeOK, CarefulInv, AllCareful
<1>2. UNCHANGED <<front, spot, abort_flag, cancelled>>
  BY DEF RecoverByCopy, Skip, OutputAnswer, RecoverComplete, CopyForRecovery, desk, flags, history
<1> USE DEF Careful, OnTarget, MissesKnown, Pardoned, WorkerAccounts, OutputAccounts
<1>4. CASE RecoverByCopy(r)
  <2>1. PICK t : t = HasInserted(r)
    OBVIOUS
  <2>2. PICK y : y = [x EXCEPT !.phase = "copy", !.told = t]
    OBVIOUS
  <2>3. Becomes(r, y) /\ x.phase = "answered"
    BY <1>4, <2>1, <2>2 DEF RecoverByCopy, WorkerOver, At
  <2>4. Careful(r, y) /\ y.phase = "copy"
    BY <1>1, <2>2, <2>3 DEF RunRecord
  <2> QED BY <1>2, <2>3, <2>4, OneRunKept
<1>5. CASE Skip(r)
  <2>1. PICK y : y = [x EXCEPT !.phase = "tail"]
    OBVIOUS
  <2>2. Becomes(r, y) /\ x.phase = "answered" /\ abort_flag
    BY <1>5, <2>1 DEF Skip, WorkerOver, At, Go
  <2>3. Careful(r, y) /\ r \in cancelled
    BY <1>1, <2>1, <2>2 DEF RunRecord
  <2> QED BY <1>2, <2>2, <2>3, OneRunKept
<1>6. CASE OutputAnswer(r)
  <2>1. PICK y : /\ Becomes(r, y)
                 /\ \/ x.answer = "error" /\ y = [x EXCEPT !.phase = "look", !.told = TRUE]
                    \/ /\ x.answer # "error"
                       /\ y = [x EXCEPT !.phase = "execute", !.caller = "executor"]
    BY <1>6 DEF OutputAnswer
  <2>2. /\ x.phase = "answered" /\ x.worker \in {"none", "over"} /\ x.inserted = 0
        /\ ~abort_flag /\ (x.answer # "error" => ~x.target_lost)
    BY <1>1, <1>6 DEF OutputAnswer, WorkerOver, At, HasInserted, CopyFull, RunRecord
  <2>3. x.answer # "error" => ~x.readable \/ x.erred \/ r \in cancelled
    BY <1>1, <2>2
  <2>4. /\ y.phase \in {"look", "execute"} /\ (y.told \/ x.answer # "error")
        /\ y.worker = x.worker /\ y.readable = x.readable /\ y.guard = x.guard
        /\ y.moved = x.moved /\ y.missed = x.missed /\ y.arrived = x.arrived /\ y.unclear = x.unclear
        /\ y.erred = x.erred /\ y.inserted = x.inserted /\ y.sent = x.sent
        /\ y.failed = x.failed /\ y.target_lost = x.target_lost /\ y.answer = x.answer
    <3>1. CASE x.answer = "error" /\ y = [x EXCEPT !.phase = "look", !.told = TRUE]
      BY <1>1, <3>1 DEF RunRecord
    <3>2. CASE x.answer # "error" /\ y = [x EXCEPT !.phase = "execute", !.caller = "executor"]
      BY <1>1, <3>2 DEF RunRecord
    <3> QED BY <2>1, <3>1, <3>2
  <2>5. Careful(r, y)
    BY <1>1, <2>2, <2>3, <2>4
  <2> QED BY <1>2, <2>1, <2>4, <2>5, OneRunKept
\* What was streamed is whole; if the field's length tells of a miss, the pill has the text.
<1>7. CASE RecoverComplete(r)
  <2>1. PICK y : y = [x EXCEPT !.phase = "tail"]
    OBVIOUS
  <2>2. /\ Becomes(r, y) /\ x.phase = "answered" /\ x.inserted = Pieces
        /\ \E landed \in Landed(r) :
             copy_offer' = IF ~landed /\ r \in PillRuns THEN r ELSE copy_offer
    BY <1>7, <2>1 DEF RecoverComplete, WorkerOver, At, Go, AlreadyComplete
  <2>3. Careful(r, y) /\ ~x.erred
    BY <1>1, <2>1, <2>2 DEF RunRecord
  <2>4. Whole(y.keys)
    <3>1. x.keys = Piece(1, Pieces)
      BY <1>1, <2>2, <2>3 DEF Fits, KeysFit
    <3>2. y.keys = x.keys
      BY <1>1, <2>1 DEF RunRecord
    <3> QED BY <3>1, <3>2, WholeTyped, EmptySeq
  <2>5. y.missed => Pardoned(r, y) \/ copy_offer' = r
    <3>1. x.missed => Pardoned(r, x) \/ (x.readable /\ ~x.moved /\ r \in PillRuns)
      BY <1>1, <2>2
    <3>2. x.readable /\ ~x.moved /\ r \in PillRuns /\ ~x.arrived => copy_offer' = r
      BY <2>2 DEF Landed
    <3>3. y.missed = x.missed /\ (Pardoned(r, x) => Pardoned(r, y))
      BY <1>1, <2>1 DEF RunRecord
    <3> QED BY <3>1, <3>2, <3>3
  <2> QED BY <1>2, <2>2, <2>3, <2>4, <2>5, OneRunKept
<1>8. CASE CopyForRecovery(r)
  <2>1. PICK y : y = [x EXCEPT !.phase = "tail", !.told = TRUE]
    OBVIOUS
  <2>2. Becomes(r, y) /\ x.phase = "copy"
    BY <1>8, <2>1 DEF CopyForRecovery, At
  <2>3. Careful(r, y) /\ y.told
    BY <1>1, <2>1, <2>2 DEF RunRecord
  <2> QED BY <1>2, <2>2, <2>3, OneRunKept
<1> QED BY <1>4, <1>5, <1>6, <1>7, <1>8

LEMMA OutputCareful ==
  ASSUME Inv, CarefulInv, NEW r \in Runs,
         Execute(r) \/ PickStrategy(r) \/ HoldText(r) \/ Finish(r)
  PROVE  CarefulInv' /\ Kept(r)
<1> DEFINE x == run[r]
<1> USE DEF Careful, OnTarget, MissesKnown, Pardoned, WorkerAccounts, OutputAccounts
<1>1. x \in RunRecord /\ Fits(x) /\ Careful(r, x)
  BY DEF Inv, TypeOK, CarefulInv, AllCareful
<1>2. UNCHANGED <<front, spot, abort_flag, cancelled>>
  BY DEF Execute, PickStrategy, HoldText, Finish, desk, flags, history
<1>3. ASSUME NEW y, NEW to \in {"look", "fallback", "write", "paste", "type"},
             y = [x EXCEPT !.phase = to], Becomes(r, y), x.phase \in {"execute", "look"},
             to \in {"paste", "type"} => r \notin PillRuns \/ spot # "list"
      PROVE  CarefulInv' /\ Kept(r)
  <2>1. Careful(r, y) /\ y.phase # "tail"
    BY <1>1, <1>3 DEF RunRecord
  <2>2. Becomes(r, y)
    BY <1>3
  <2> QED BY <1>2, <2>1, <2>2, OneRunKept
<1>4. CASE Execute(r)
  <2>1. PICK to \in {"look", "fallback"} : Becomes(r, [x EXCEPT !.phase = to])
    BY <1>4 DEF Execute, Go
  <2>2. PICK y : y = [x EXCEPT !.phase = to]
    OBVIOUS
  <2>3. Becomes(r, y) /\ x.phase = "execute"
    BY <1>4, <2>1, <2>2 DEF Execute, At
  <2> QED BY <1>3, <2>2, <2>3
<1>5. CASE PickStrategy(r)
  <2>1. PICK to \in {"write", "paste", "type"} : to = Strategy(r)
    BY DEF Strategy
  <2>2. PICK y : y = [x EXCEPT !.phase = to]
    OBVIOUS
  <2>3. Becomes(r, y) /\ x.phase = "look"
    BY <1>5, <2>1, <2>2 DEF PickStrategy, At, Go
  <2>4. to \in {"paste", "type"} => r \notin PillRuns \/ spot # "list"
    BY <1>5, <2>1 DEF PickStrategy, Strategy, Held, NotEditable
  <2> QED BY <1>3, <2>2, <2>3, <2>4
<1>6. CASE HoldText(r)
  <2>1. PICK t : t = (x.told \/ (TargetMatchesNow(r) /\ ~trusted))
    OBVIOUS
  <2>2. PICK y : y = [x EXCEPT !.phase = "tail", !.told = t]
    OBVIOUS
  <2>3. Becomes(r, y) /\ x.phase = "look" /\ copy_offer' = r
    BY <1>6, <2>1, <2>2 DEF HoldText, At
  <2>4. Careful(r, y)
    BY <1>1, <2>2, <2>3 DEF RunRecord
  <2> QED BY <1>2, <2>3, <2>4, OneRunKept
<1>7. CASE Finish(r)
  <2>1. PICK y : y = Local("done")
    OBVIOUS
  <2>2. Becomes(r, y) /\ y.phase = "done"
    BY <1>7, <2>1 DEF Finish, Local
  <2>3. Careful(r, y)
    BY <2>2
  <2> QED BY <1>2, <2>2, <2>3, OneRunKept
<1> QED BY <1>4, <1>5, <1>6, <1>7

-----------------------------------------------------------------------------
\* The steps that type.  Keys that miss are excused, or a field that tells its length was
\* there when the run began to type.
LEMMA WorkerTypesCareful ==
  ASSUME Inv, CarefulInv, NEW r \in Runs, WorkerTyped(r) \/ WorkerFails(r)
  PROVE  CarefulInv' /\ Kept(r)
<1> DEFINE x == run[r]
<1> USE DEF Careful, OnTarget, MissesKnown, Pardoned, WorkerAccounts, OutputAccounts
<1>1. x \in RunRecord /\ Fits(x) /\ Careful(r, x) /\ spot \in Spots /\ Pieces \in Nat
  BY InsertionAssumption DEF Inv, TypeOK, CarefulInv, AllCareful
<1>2. /\ UNCHANGED <<front, spot, abort_flag, cancelled>>
      /\ x.worker = "typing" /\ x.phase \in {"asking", "answered"}
      /\ x.inserted < x.sent /\ x.sent <= Pieces /\ x.inserted \in Nat
  BY <1>1 DEF WorkerTyped, WorkerFails, Fits, WorkerFits, RunRecord, desk, flags, history
<1>3. PICK n \in 1..Pieces : n = x.inserted + 1
  BY <1>1, <1>2 DEF RunRecord
<1>4. CASE WorkerTyped(r)
  <2>1. PICK z : z = [x EXCEPT !.worker = "recv", !.inserted = n]
    OBVIOUS
  <2>2. PICK lands \in MayLand : Becomes(r, Typed(z, n, n, lands))
    <3>1. z = [x EXCEPT !.worker = "recv", !.inserted = @ + 1]
      BY <1>1, <1>3, <2>1 DEF RunRecord
    <3>2. KeysGo(r, n, n, z)
      BY <1>3, <1>4, <3>1 DEF WorkerTyped, NextPiece
    <3> QED BY <3>2 DEF KeysGo
  <2>3. PICK y : y = Typed(z, n, n, lands)
    OBVIOUS
  <2>4. /\ z \in RunRecord /\ z.worker = "recv" /\ z.inserted = n /\ z.phase = x.phase
        /\ z.guard = x.guard /\ z.moved = x.moved /\ z.missed = x.missed
        /\ z.unclear = x.unclear /\ z.erred = x.erred /\ z.readable = x.readable
        /\ z.sent = x.sent /\ z.failed = x.failed /\ z.target_lost = x.target_lost
        /\ z.answer = x.answer
    <3>1. n \in 0..Pieces
      BY <1>1
    <3> QED BY <1>1, <2>1, <3>1 DEF RunRecord
  <2>5. n \in 0..Pieces /\ n <= n + 1
    BY <1>1
  <2>6. /\ SameBut(y, z) /\ y.erred = z.erred
        /\ y.missed = (z.missed \/ ~lands \/ front # z.guard)
        /\ y.unclear = (z.unclear \/ (spot = "canvas" /\ ~lands /\ ~z.readable))
        /\ ~lands => spot # "field"
    BY <2>3, <2>4, <2>5, TypedRecord
  <2>7. n > 0 /\ ~x.erred
    BY <1>1, <1>2
  <2>8. y.missed => Pardoned(r, y) \/ (y.readable /\ y.inserted > 0)
    BY <1>1, <1>2, <2>4, <2>6, <2>7 DEF SameBut, Spots
  <2>9. Careful(r, y) /\ y.phase # "tail"
    BY <1>1, <1>2, <2>4, <2>6, <2>7, <2>8 DEF SameBut
  <2>10. Becomes(r, y)
    BY <2>2, <2>3
  <2> QED BY <1>2, <2>9, <2>10, OneRunKept
<1>5. CASE WorkerFails(r)
  <2>1. PICK z : z = [x EXCEPT !.worker = "over", !.failed = TRUE]
    OBVIOUS
  <2>2. KeysFail(r, n, n, z) /\ z \in RunRecord
    BY <1>1, <1>3, <1>5, <2>1 DEF WorkerFails, NextPiece, RunRecord
  <2>3. n <= n
    BY <1>1
  <2>4. PICK y : Becomes(r, y) /\ SameBut(y, z) /\ y.erred
    BY <2>2, <2>3, FailedRecord
  <2>5. /\ y.worker = "over" /\ y.failed /\ y.phase = x.phase /\ y.guard = x.guard
        /\ y.moved = x.moved /\ y.inserted = x.inserted /\ y.sent = x.sent
        /\ y.answer = x.answer
    BY <1>1, <2>1, <2>4 DEF SameBut, RunRecord
  <2>6. y.inserted < Pieces /\ (x.answer # "error" /\ x.phase = "answered" => x.sent = Pieces)
    BY <1>1, <1>2, <2>5 DEF RunRecord
  <2>7. OnTarget(r, y) /\ (abort_flag => r \in cancelled)
    BY <1>1, <1>2, <2>5
  <2>8. Careful(r, y) /\ y.phase # "tail"
    BY <1>2, <2>4, <2>5, <2>6, <2>7
  <2> QED BY <1>2, <2>4, <2>8, OneRunKept
<1> QED BY <1>4, <1>5

\* The rest is typed only after a cancel: otherwise a worker that did not fail has typed all.
LEMMA SuffixCareful ==
  ASSUME Inv, CarefulInv, NEW r \in Runs, RecoverSuffix(r)
  PROVE  CarefulInv' /\ Kept(r)
<1> DEFINE x == run[r]
<1> USE DEF Careful, OnTarget, MissesKnown, Pardoned, WorkerAccounts, OutputAccounts
<1>1. /\ x \in RunRecord /\ Fits(x) /\ Careful(r, x) /\ spot \in Spots
      /\ Pieces \in Nat \ {0}
  BY InsertionAssumption DEF Inv, TypeOK, CarefulInv, AllCareful
<1>2. /\ UNCHANGED <<front, spot, abort_flag, cancelled>>
      /\ x.phase = "answered" /\ x.worker \in {"none", "over"}
      /\ x.inserted > 0 /\ x.answer = "same" /\ x.inserted # Pieces
      /\ ~x.failed /\ ~x.target_lost
  BY DEF RecoverSuffix, WorkerOver, At, InsertSuffix, HasInserted, IsPrefix, AlreadyComplete,
     StillTrusted, desk, flags, history
<1>3. r \in cancelled
  BY <1>1, <1>2
<1>4. PICK n \in 1..Pieces : n = x.inserted + 1 /\ n <= Pieces /\ n <= Pieces + 1
  BY <1>1, <1>2 DEF RunRecord
<1>5. n = SuffixStart(r) /\ Pieces \in 0..Pieces /\ Pieces \in 1..Pieces
  BY <1>1, <1>4 DEF SuffixStart
<1>6. CASE KeysGo(r, SuffixStart(r), Pieces, [x EXCEPT !.phase = "tail"])
  <2>1. PICK z : z = [x EXCEPT !.phase = "tail"]
    OBVIOUS
  <2>2. PICK lands \in MayLand : Becomes(r, Typed(z, n, Pieces, lands))
    BY <1>5, <1>6, <2>1 DEF KeysGo
  <2>3. PICK y : y = Typed(z, n, Pieces, lands)
    OBVIOUS
  <2>4. z \in RunRecord /\ z.phase = "tail"
    BY <1>1, <2>1 DEF RunRecord, Phases
  <2>5. SameBut(y, z) /\ y.erred = z.erred
    BY <1>4, <1>5, <2>3, <2>4, TypedRecord
  <2>6. /\ z.guard = x.guard /\ z.moved = x.moved /\ z.worker = x.worker
        /\ z.inserted = x.inserted /\ z.readable = x.readable /\ z.erred = x.erred
        /\ z.failed = x.failed /\ z.target_lost = x.target_lost
    BY <1>1, <2>1 DEF RunRecord
  <2>7. Careful(r, y)
    BY <1>1, <1>2, <2>4, <2>5, <2>6 DEF SameBut
  <2>8. Becomes(r, y)
    BY <2>2, <2>3
  <2> QED BY <1>2, <1>3, <2>7, <2>8, OneRunKept
<1>7. CASE KeysFail(r, SuffixStart(r), Pieces, [x EXCEPT !.phase = "copy", !.told = TRUE])
  <2>1. PICK z : z = [x EXCEPT !.phase = "copy", !.told = TRUE]
    OBVIOUS
  <2>2. KeysFail(r, n, Pieces, z) /\ z \in RunRecord
    BY <1>1, <1>5, <1>7, <2>1 DEF RunRecord, Phases
  <2>3. PICK y : Becomes(r, y) /\ SameBut(y, z) /\ y.erred
    BY <1>4, <1>5, <2>2, FailedRecord
  <2>4. /\ y.worker = x.worker /\ y.failed = x.failed /\ y.phase = "copy" /\ y.guard = x.guard
        /\ y.moved = x.moved /\ y.inserted = x.inserted /\ y.readable = x.readable
    BY <1>1, <2>1, <2>3 DEF SameBut, RunRecord
  <2>5. Careful(r, y)
    BY <1>1, <1>2, <1>4, <2>3, <2>4 DEF RunRecord
  <2> QED BY <1>2, <2>3, <2>4, <2>5, OneRunKept
<1> QED BY <1>6, <1>7 DEF RecoverSuffix

\* The whole text: a run that may type there, and says why if a field's length could have told.
LEMMA WholeCareful ==
  ASSUME Inv, CarefulInv, NEW r \in Runs, run[r].phase \in {"type", "paste"},
         UNCHANGED <<front, spot, abort_flag, cancelled>>, NEW lands \in MayLand,
         Becomes(r, Typed([run[r] EXCEPT !.phase = "tail"], 1, Pieces, lands))
  PROVE  CarefulInv' /\ Kept(r)
<1> DEFINE x == run[r]
<1> USE DEF Careful, OnTarget, MissesKnown, Pardoned, WorkerAccounts, OutputAccounts
<1>1. /\ x \in RunRecord /\ Fits(x) /\ Careful(r, x) /\ spot \in Spots
      /\ Pieces \in Nat \ {0}
  BY InsertionAssumption DEF Inv, TypeOK, CarefulInv, AllCareful
<1>2. PICK z : z = [x EXCEPT !.phase = "tail"]
  OBVIOUS
<1>3. PICK y : y = Typed(z, 1, Pieces, lands)
  OBVIOUS
<1>4. Becomes(r, y)
  BY <1>2, <1>3
<1>5. /\ z \in RunRecord /\ z.phase = "tail" /\ z.guard = x.guard /\ z.moved = x.moved
      /\ z.missed = x.missed /\ z.unclear = x.unclear /\ z.erred = x.erred
      /\ z.readable = x.readable /\ z.worker = x.worker /\ z.inserted = x.inserted
      /\ z.failed = x.failed /\ z.target_lost = x.target_lost /\ z.told = x.told
      /\ z.keys = x.keys /\ z.keys \in Seq(Nat)
  BY <1>1, <1>2 DEF RunRecord, Phases
<1>6. /\ SameBut(y, z) /\ y.erred = z.erred /\ y.keys = z.keys \o Piece(1, Pieces)
      /\ y.missed = (z.missed \/ ~lands \/ front # z.guard)
      /\ y.unclear = (z.unclear \/ (spot = "canvas" /\ ~lands /\ ~z.readable))
      /\ ~lands => spot # "field"
  <2>1. PICK n \in 1..Pieces : n = 1 /\ n <= Pieces + 1
    BY <1>1
  <2>2. Pieces \in 0..Pieces
    BY <1>1
  <2>3. z \in RunRecord /\ y = Typed(z, n, Pieces, lands)
    BY <1>3, <1>5, <2>1
  <2> HIDE DEF x
  <2>4. /\ SameBut(y, z) /\ y.erred = z.erred
        /\ y.missed = (z.missed \/ ~lands \/ front # z.guard)
        /\ y.unclear = (z.unclear \/ (spot = "canvas" /\ ~lands /\ ~z.readable))
        /\ ~lands => spot # "field"
    BY <2>1, <2>2, <2>3, TypedRecord
  <2>5. y.keys = z.keys \o Piece(n, Pieces)
    BY <2>3 DEF Typed, RunRecord
  <2> QED BY <2>1, <2>4, <2>5
<1>7. Careful(r, y)
  BY <1>1, <1>5, <1>6 DEF SameBut
<1>8. Whole(y.keys)
  BY <1>5, <1>6, WholeTyped
<1>9. ASSUME r \notin cancelled, y.missed, ~y.told PROVE Pardoned(r, y)
  <2>1. x.inserted = 0 /\ (x.missed => Pardoned(r, x))
    BY <1>1 DEF Fits, WorkerFits
  <2>2. ~x.readable \/ x.erred
    BY <1>1, <1>5, <1>6, <1>9 DEF SameBut
  <2>3. x.moved \/ (front = x.guard /\ (r \notin PillRuns \/ spot # "list"))
    BY <1>1
  <2> QED BY <1>1, <1>5, <1>6, <1>9, <2>1, <2>2, <2>3 DEF SameBut, Spots
<1> QED BY <1>4, <1>7, <1>8, <1>9, OneRunKept

LEMMA TextCareful ==
  ASSUME Inv, CarefulInv, NEW r \in Runs, TypeText(r) \/ PasteText(r) \/ WriteText(r) \/ Fallback(r)
  PROVE  CarefulInv' /\ Kept(r)
<1> DEFINE x == run[r]
<1> USE DEF Careful, OnTarget, MissesKnown, Pardoned, WorkerAccounts, OutputAccounts
<1>1. x \in RunRecord /\ Fits(x) /\ Careful(r, x) /\ Pieces \in Nat \ {0}
  BY InsertionAssumption DEF Inv, TypeOK, CarefulInv, AllCareful
<1>2. UNCHANGED <<front, spot, abort_flag, cancelled>>
  BY DEF TypeText, PasteText, WriteText, Fallback, desk, flags, history
<1>3. ASSUME NEW y, Becomes(r, y), x.phase \in {"paste", "write", "fallback"},
             \/ y = [x EXCEPT !.phase = "tail"] /\ clipboard' = r
             \/ y = [x EXCEPT !.phase = "tail", !.told = TRUE]
             \/ y = [x EXCEPT !.phase = "tail", !.silent = TRUE]
             \/ y = [x EXCEPT !.phase = "fallback"]
      PROVE  CarefulInv' /\ Kept(r)
  <2>1. /\ y.worker = x.worker /\ y.readable = x.readable /\ y.guard = x.guard
        /\ y.moved = x.moved /\ y.missed = x.missed /\ y.arrived = x.arrived /\ y.unclear = x.unclear
        /\ y.erred = x.erred /\ y.inserted = x.inserted
        /\ y.failed = x.failed /\ y.target_lost = x.target_lost
        /\ \/ y.phase = "fallback" /\ y.told = x.told
           \/ y.phase = "tail" /\ (y.told \/ y.silent \/ clipboard' = r)
    <3>1. CASE y = [x EXCEPT !.phase = "tail"] /\ clipboard' = r
      BY <1>1, <3>1 DEF RunRecord
    <3>2. CASE y = [x EXCEPT !.phase = "tail", !.told = TRUE]
      BY <1>1, <3>2 DEF RunRecord
    <3>3. CASE y = [x EXCEPT !.phase = "tail", !.silent = TRUE]
      BY <1>1, <3>3 DEF RunRecord
    <3>4. CASE y = [x EXCEPT !.phase = "fallback"]
      BY <1>1, <3>4 DEF RunRecord
    <3> QED BY <1>3, <3>1, <3>2, <3>3, <3>4
  <2>2. Careful(r, y)
    BY <1>1, <1>3, <2>1
  <2>3. Becomes(r, y)
    BY <1>3
  <2> QED BY <1>2, <2>1, <2>2, <2>3, OneRunKept
<1>4. CASE TypeText(r)
  <2>1. x.phase = "type"
    BY <1>4 DEF TypeText, At
  <2>2. CASE KeysGo(r, 1, Pieces, [x EXCEPT !.phase = "tail"])
    BY <1>2, <2>1, <2>2, WholeCareful DEF KeysGo
  <2>3. CASE KeysFail(r, 1, Pieces, [x EXCEPT !.phase = "paste"])
    <3>1. PICK z : z = [x EXCEPT !.phase = "paste"]
      OBVIOUS
    <3>2. KeysFail(r, 1, Pieces, z) /\ z \in RunRecord
      BY <1>1, <2>3, <3>1 DEF RunRecord, Phases
    <3>3. 1 \in 1..Pieces /\ Pieces \in 1..Pieces /\ 1 <= Pieces
      BY <1>1
    <3>4. PICK y : Becomes(r, y) /\ SameBut(y, z) /\ y.erred
      BY <3>2, <3>3, FailedRecord
    <3>5. /\ y.worker = x.worker /\ y.failed = x.failed /\ y.phase = "paste" /\ y.guard = x.guard
          /\ y.moved = x.moved /\ y.inserted = x.inserted /\ y.readable = x.readable
      BY <1>1, <3>1, <3>4 DEF SameBut, RunRecord
    <3>6. x.inserted = 0 /\ 0 < Pieces /\ x.worker \in {"none", "over"}
      BY <1>1, <2>1 DEF Fits, WorkerFits, RunRecord
    <3>7. Careful(r, y)
      BY <1>1, <2>1, <3>4, <3>5, <3>6
    <3> QED BY <1>2, <3>4, <3>5, <3>7, OneRunKept
  <2> QED BY <1>4, <2>2, <2>3 DEF TypeText
<1>5. ASSUME Becomes(r, AfterError(r)), x.phase \in {"paste", "write"}
      PROVE  CarefulInv' /\ Kept(r)
  <2>1. PICK y : y = AfterError(r)
    OBVIOUS
  <2>2. Becomes(r, y)
    BY <1>5, <2>1
  <2> QED BY <1>3, <1>5, <2>1, <2>2 DEF AfterError
<1>6. ASSUME Go(r, "tail"), clipboard' = r, x.phase \in {"paste", "write", "fallback"}
      PROVE  CarefulInv' /\ Kept(r)
  <2>1. PICK y : y = [x EXCEPT !.phase = "tail"]
    OBVIOUS
  <2>2. Becomes(r, y)
    BY <1>6, <2>1 DEF Go
  <2> QED BY <1>3, <1>6, <2>1, <2>2
<1>7. CASE PasteText(r)
  <2>1. x.phase = "paste"
    BY <1>7 DEF PasteText, At
  <2>2. CASE \E lands \in MayLand :
               Becomes(r, Typed([x EXCEPT !.phase = "tail"], 1, Pieces, lands))
    BY <1>2, <2>1, <2>2, WholeCareful
  <2> QED BY <1>5, <1>6, <1>7, <2>1, <2>2 DEF PasteText
<1>8. CASE WriteText(r)
  BY <1>5, <1>6, <1>8 DEF WriteText, At
<1>9. CASE Fallback(r)
  <2>1. x.phase = "fallback"
    BY <1>9 DEF Fallback, At
  <2>2. CASE Becomes(r, [x EXCEPT !.phase = "tail", !.silent = TRUE])
    <3>1. PICK y : y = [x EXCEPT !.phase = "tail", !.silent = TRUE]
      OBVIOUS
    <3>2. Becomes(r, y)
      BY <2>2, <3>1
    <3> QED BY <1>3, <2>1, <3>1, <3>2
  <2> QED BY <1>6, <1>9, <2>1, <2>2 DEF Fallback
<1> QED BY <1>4, <1>7, <1>8, <1>9

-----------------------------------------------------------------------------
LEMMA LateCareful ==
  ASSUME Inv, CarefulInv, LateKeys
  PROVE  CarefulInv' /\ \A r \in Runs : Kept(r)
<1> PICK l : l = Head(late)
  OBVIOUS
<1>1. late \in Seq(LateRecord) /\ late # << >>
  BY DEF LateKeys, Inv, TypeOK
<1>2. /\ l \in LateRecord /\ l.run \in Runs /\ l.first \in 1..Pieces /\ l.last \in 1..Pieces
      /\ l.first <= l.last /\ LateIsKnown(run[l.run])
  <2>1. late[1] = l /\ 1 \in DOMAIN late /\ l \in LateRecord
    BY <1>1
  <2> QED BY <2>1 DEF LateRecord, Inv
<1>3. UNCHANGED <<front, spot, abort_flag, cancelled>>
  BY DEF LateKeys, desk, flags, history
<1>4. PICK r \in Runs : r = l.run
  BY <1>2
<1> DEFINE x == run[r]
<1>5. x \in RunRecord /\ Fits(x) /\ Careful(r, x) /\ run \in [Runs -> RunRecord]
  BY DEF Inv, TypeOK, CarefulInv, AllCareful
<1>6. CASE Under(r)
  <2>1. PICK lands \in MayLand : Becomes(r, Typed(x, l.first, l.last, lands))
    BY <1>4, <1>6 DEF LateKeys
  <2>2. PICK y : y = Typed(x, l.first, l.last, lands)
    OBVIOUS
  <2>3. Becomes(r, y)
    BY <2>1, <2>2
  <2>4. l.last \in 0..Pieces /\ l.first <= l.last + 1
    BY <1>2, InsertionAssumption
  <2>5. SameBut(y, x) /\ y.erred = x.erred
    BY <1>2, <1>5, <2>2, <2>4, TypedRecord
  <2>6. x.erred /\ y.erred
    BY <1>2, <1>4, <1>6, <2>5 DEF LateIsKnown, Under
  <2>7. Careful(r, y)
    BY <1>5, <2>5, <2>6 DEF SameBut, Careful, OnTarget, MissesKnown, Pardoned, WorkerAccounts,
       OutputAccounts
  <2>8. CarefulInv'
    BY <1>3, <2>3, <2>7, OneRunCareful
  <2>9. \A q \in Runs : run'[q].phase = run[q].phase
    BY <1>5, <2>3, <2>5 DEF Becomes, SameBut
  <2> QED BY <2>8, <2>9 DEF Kept, At
<1>7. CASE ~Under(r)
  <2>1. run' = run
    BY <1>4, <1>7 DEF LateKeys
  <2> QED
    BY <1>3, <2>1 DEF CarefulInv, AllCareful, Careful, OnTarget, MissesKnown, Pardoned,
       WorkerAccounts, OutputAccounts, Kept, At
<1> QED BY <1>6, <1>7

LEMMA OthersCareful ==
  ASSUME Inv, CarefulInv,
         \/ Move \/ Refresh \/ StartRefused \/ Cancel \/ DismissOffer
         \/ PressCopy \/ OfferCopied \/ UNCHANGED vars
  PROVE  CarefulInv' /\ \A r \in Runs : Kept(r)
<1> USE DEF Careful, OnTarget, MissesKnown, Pardoned, WorkerAccounts, OutputAccounts
<1>1. CASE Move
  <2>1. front' \in Apps /\ spot' \in Spots /\ UNCHANGED <<abort_flag, cancelled>>
    BY <1>1 DEF Move, flags, history
  <2>2. ASSUME NEW r \in Runs PROVE Careful(r, run[r])' /\ Kept(r)
    <3> DEFINE x == run[r]
    <3>1. x \in RunRecord /\ Careful(r, x)
      BY DEF Inv, TypeOK, CarefulInv, AllCareful
    <3>2. PICK t \in BOOLEAN : t = (x.phase \notin {"new", "done"})
      OBVIOUS
    <3>3. PICK y : y = [x EXCEPT !.moved = t]
      OBVIOUS
    <3>4. run'[r] = y
      BY <1>1, <3>2, <3>3 DEF Move, Under
    <3>5. SameButMoved(y, x) /\ y.moved = t
      BY <3>1, <3>3 DEF RunRecord, SameButMoved
    <3>6. Kept(r)
      BY <3>4, <3>5 DEF Kept, At, SameButMoved
    <3>7. Careful(r, run[r])'
      BY <2>1, <3>1, <3>2, <3>4, <3>5 DEF SameButMoved
    <3> QED BY <3>6, <3>7
  <2> QED BY <2>1, <2>2 DEF CarefulInv, AllCareful
<1>2. CASE Cancel
  BY <1>2 DEF Cancel, desk, CarefulInv, AllCareful, Under, Kept, At
<1>3. CASE StartRefused
  BY <1>3 DEF StartRefused, desk, history, CarefulInv, AllCareful, Kept, At
<1>4. CASE Refresh \/ DismissOffer \/ PressCopy \/ OfferCopied \/ UNCHANGED vars
  <2>1. UNCHANGED <<front, spot, abort_flag, cancelled, run>>
    BY <1>4 DEF Refresh, DismissOffer, PressCopy, OfferCopied, vars, desk, flags, history
  <2> QED BY <2>1 DEF CarefulInv, AllCareful, Kept, At
<1> QED BY <1>1, <1>2, <1>3, <1>4

LEMMA BeginCareful ==
  ASSUME Inv, CarefulInv, NEW r \in Runs, Begin(r)
  PROVE  CarefulInv' /\ Kept(r)
<1>1. PICK y : y = [Local("speaking") EXCEPT !.guard = front]
  OBVIOUS
<1>2. /\ run' = [run EXCEPT ![r] = y] /\ run \in [Runs -> RunRecord]
      /\ UNCHANGED <<front, spot, cancelled>> /\ ~abort_flag'
  BY <1>1 DEF Begin, Becomes, Inv, TypeOK, desk
<1>3. /\ y.phase = "speaking" /\ y.guard = front /\ ~y.missed /\ y.worker = "none"
      /\ ~y.erred /\ ~y.readable /\ y.inserted = 0 /\ ~y.failed
  BY <1>1 DEF Local
<1>4. ASSUME NEW q \in Runs PROVE Careful(q, run[q])'
  <2>1. CASE q = r
    BY <1>2, <1>3, <2>1
    DEF Careful, OnTarget, MissesKnown, Pardoned, WorkerAccounts, OutputAccounts
  <2>2. CASE q # r
    <3>1. run'[q] = run[q] /\ Careful(q, run[q])
      BY <1>2, <2>2 DEF CarefulInv, AllCareful
    <3> QED
      BY <1>2, <3>1
      DEF Careful, OnTarget, MissesKnown, Pardoned, WorkerAccounts, OutputAccounts
  <2> QED BY <2>1, <2>2
<1>5. Kept(r)
  BY <1>2, <1>3 DEF Kept
<1> QED BY <1>2, <1>4, <1>5 DEF CarefulInv, AllCareful

LEMMA BeginDraftCareful ==
  ASSUME Inv, CarefulInv, NEW r \in Runs, BeginDraft(r)
  PROVE  CarefulInv' /\ Kept(r)
<1>1. PICK app \in Apps :
        Becomes(r, [Local("speaking") EXCEPT !.guard = app, !.moved = (app # front)])
  BY DEF BeginDraft
<1>2. PICK y : y = [Local("speaking") EXCEPT !.guard = app, !.moved = (app # front)]
  OBVIOUS
<1>3. /\ run' = [run EXCEPT ![r] = y] /\ run \in [Runs -> RunRecord]
      /\ UNCHANGED <<front, spot, cancelled>> /\ ~abort_flag'
  BY <1>1, <1>2 DEF BeginDraft, Becomes, Inv, TypeOK, desk, history
<1>4. /\ y.phase = "speaking" /\ y.guard = app /\ y.moved = (app # front) /\ ~y.missed
      /\ y.worker = "none" /\ ~y.erred /\ ~y.readable /\ y.inserted = 0 /\ ~y.failed
  BY <1>2 DEF Local
<1>5. ASSUME NEW q \in Runs PROVE Careful(q, run[q])'
  <2>1. CASE q = r
    BY <1>3, <1>4, <2>1
    DEF Careful, OnTarget, MissesKnown, Pardoned, WorkerAccounts, OutputAccounts
  <2>2. CASE q # r
    <3>1. run'[q] = run[q] /\ Careful(q, run[q])
      BY <1>3, <2>2 DEF CarefulInv, AllCareful
    <3> QED
      BY <1>3, <3>1
      DEF Careful, OnTarget, MissesKnown, Pardoned, WorkerAccounts, OutputAccounts
  <2> QED BY <2>1, <2>2
<1>6. Kept(r)
  BY <1>3, <1>4 DEF Kept
<1> QED BY <1>3, <1>5, <1>6 DEF CarefulInv, AllCareful

LEMMA NextCareful ==
  ASSUME Inv, CarefulInv, [Next]_vars
  PROVE  CarefulInv' /\ \A r \in Runs : Kept(r)
<1>1. ASSUME NEW r \in Runs,
             \/ Begin(r) \/ BeginDraft(r) \/ AIStep(r) \/ WorkerStep(r)
             \/ RecoveryStep(r) \/ OutputStep(r)
      PROVE  CarefulInv' /\ \A q \in Runs : Kept(q)
  <2>1. CarefulInv' /\ Kept(r)
    <3>1. CASE Begin(r) \/ BeginDraft(r)
      BY <3>1, BeginCareful, BeginDraftCareful
    <3>2. CASE AIStep(r)
      BY <3>2, AsksCareful, WorkerCareful DEF AIStep
    <3>3. CASE WorkerStep(r)
      BY <3>3, WorkerCareful, WorkerTypesCareful DEF WorkerStep
    <3>4. CASE RecoveryStep(r)
      BY <3>4, RecoveryCareful, SuffixCareful DEF RecoveryStep
    <3>5. CASE OutputStep(r)
      BY <3>5, OutputCareful, TextCareful DEF OutputStep
    <3> QED BY <1>1, <3>1, <3>2, <3>3, <3>4, <3>5
  <2>2. ASSUME NEW q \in Runs, q # r PROVE Kept(q)
    <3>1. run'[q] = run[q]
      <4>1. CASE Begin(r) \/ BeginDraft(r)
        BY <2>2, <4>1 DEF Begin, BeginDraft, Becomes, Inv, TypeOK
      <4>2. CASE ~(Begin(r) \/ BeginDraft(r))
        BY <1>1, <2>2, <4>2, RunStepFrame
      <4> QED BY <4>1, <4>2
    <3> QED BY <3>1 DEF Kept, At
  <2> QED BY <2>1, <2>2
<1> QED BY <1>1, LateCareful, OthersCareful DEF Next

\* The text of a run that was not cancelled is not lost, for any number of runs, pieces, moves of
\* the user and cancels: when it is done with it has been typed whole, and where it
\* should, or it is on the clipboard or in the pill, or the user was told; what is left is a run
\* whose last fallback failed in silence.
THEOREM NothingEverLost == Spec => NothingLost
<1> DEFINE Lost == \A r \in Runs \ cancelled' :
              run'[r].phase = "tail" /\ ~At(r, "tail") =>
                \/ Whole(run'[r].keys) /\ (run'[r].missed => Excused(r)')
                \/ clipboard' = r \/ copy_offer' = r
                \/ run'[r].told \/ run'[r].silent
<1>1. Init => CarefulInv
  BY DEF Init, CarefulInv, AllCareful, Careful, Local
<1>2. Inv /\ CarefulInv /\ [Next]_vars => CarefulInv'
  BY NextCareful
<1>3. Inv /\ CarefulInv /\ [Next]_vars => [Lost]_vars
  <2>1. ASSUME Inv, CarefulInv, Next PROVE Lost
    <3>1. \A r \in Runs : Kept(r)
      BY <2>1, NextCareful
    <3> QED BY <3>1 DEF Kept, Pardoned, Excused, InPart
  <2> QED BY <2>1
<1> QED BY <1>1, <1>2, <1>3, InvInit, InvNext, PTL DEF Spec, NothingLost
=============================================================================
