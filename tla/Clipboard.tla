------------------------------ MODULE Clipboard ------------------------------
(***************************************************************************)
(* How OraType borrows the user's clipboard: to paste a text               *)
(* (src-tauri/src/output/clipboard.rs, on macOS) and to read the highlight *)
(* of an app that only answers a Command-C (src-tauri/src/selection.rs).   *)
(* Both put back what was there, a paste 750 ms later from a thread of its *)
(* own.  The user, the app asked and several calls share one clipboard     *)
(* without a lock; its change count tells whether somebody wrote it.       *)
(*                                                                         *)
(* What is on the clipboard is named by the call that put it there, and    *)
(* None by what was there at first.                                        *)
(***************************************************************************)
EXTENDS Naturals

CONSTANTS
    Pastes,      \* calls of type_text() with auto_paste and restore_after_paste
    Captures,    \* calls of capture_with_copy()
    Copies,      \* what is written to stay: copies of the user's, and type_text()
                 \* without auto_paste or without restore_after_paste
    None

Calls == Pastes \cup Captures \cup Copies

ASSUME ClipboardAssumption ==
    /\ Pastes \cap Captures = {}
    /\ (Pastes \cup Captures) \cap Copies = {}
    /\ None \notin Calls
    /\ None \notin [latest : Nat, original : Calls \cup {None}]

VARIABLES
    contents,      \* what is on the clipboard
    change_count,
    pending,       \* PENDING_CLIPBOARD_RESTORE: [latest, original], or None
    next_id,       \* NEXT_CLIPBOARD_RESTORE_ID
    pc,
    local,         \* of each call: [snapshot, count, restore_id], where count is
                   \* written of a paste and before of a capture
    answer         \* of the app to the Command-C of each capture

VARIABLES
    wanted,        \* history: what was last put there to stay
    unsure,        \* history: pastes whose written may be another write's
    apart,         \* history: so far no call came in the middle of another
    buried         \* history: what was put there to stay and is given up, because
                   \* a paste or a capture came between it and a restore

board   == <<contents, change_count>>
batch   == <<pending, next_id>>
vars    == <<board, batch, pc, local, answer, wanted, unsure, apart, buried>>

NoLocal == [snapshot |-> None, count |-> 0, restore_id |-> 0]

Init ==
    /\ contents = None
    /\ change_count = 0
    /\ pending = None
    /\ next_id = 1
    /\ pc = [x \in Calls |-> "ready"]
    /\ local = [x \in Calls |-> NoLocal]
    /\ answer = [c \in Captures |-> "none"]
    /\ wanted = None
    /\ unsure = {}
    /\ apart = TRUE
    /\ buried = {}

Go(x, from, to) == pc[x] = from /\ pc' = [pc EXCEPT ![x] = to]
Return(x, from) == Go(x, from, "done") /\ local' = [local EXCEPT ![x] = NoLocal]

\* The clipboard takes every write, and every write moves the change count.  A
\* paste that has written and not yet read the count will read this write's.
Put(x) ==
    /\ contents' = x
    /\ change_count' = change_count + 1
    /\ unsure' = unsure \cup {p \in Pastes : pc[p] = "count"}

\* A call that is borrowing or putting back.
Middle(x) == pc[x] \notin {"ready", "waiting", "done"}

\* Call x comes up: is nobody in the middle of something?
Arrives(x) == apart' = (apart /\ \A y \in Calls \ {x} : ~Middle(y))

\* What is wanted is given up if lost.
Bury(lost) == buried' = IF lost THEN buried \cup {wanted} ELSE buried

-----------------------------------------------------------------------------
(* type_text() of ClipboardOutput.                                         *)

\* A paste joins the batch of the restore that waits, which brings back what was
\* there when the batch began: what was put there since is given up, though the
\* paste has it in its snapshot.
TakeSnapshot(p) ==
    /\ Go(p, "ready", "write")
    /\ local' = [local EXCEPT ![p].snapshot = contents]
    /\ Arrives(p)
    /\ Bury(pending # None /\ pending.original # wanted)
    /\ UNCHANGED <<board, batch, answer, wanted, unsure>>

WriteText(p) ==
    /\ Go(p, "write", "count")
    /\ Put(p)
    /\ UNCHANGED <<batch, local, answer, wanted, apart, buried>>

ReadCount(p) ==
    /\ Go(p, "count", "paste")
    /\ local' = [local EXCEPT ![p].count = change_count]
    /\ UNCHANGED <<board, batch, answer, wanted, unsure, apart, buried>>

\* Command-V, after 20 ms.
SimulatePaste(p) ==
    /\ Go(p, "paste", "remember")
    /\ UNCHANGED <<board, batch, local, answer, wanted, unsure, apart, buried>>

\* The keystroke is refused: the text stays on the clipboard.
PasteFails(p) ==
    /\ Return(p, "paste")
    /\ Put(p)
    /\ wanted' = p
    /\ UNCHANGED <<batch, answer, apart, buried>>

\* Pastes in quick succession share the first one's snapshot.  The mutant takes
\* each its own.
Original_Own(p) == local[p].snapshot
Original(p) == IF pending = None THEN local[p].snapshot ELSE pending.original

FetchId == next_id' = next_id + 1

\* remember_pending_clipboard_restore(); then the restore's thread sleeps.  The id
\* is drawn just before the lock on pending; here it is one step.
Remember(p) ==
    /\ Go(p, "remember", "waiting")
    /\ FetchId
    /\ local' = [local EXCEPT ![p].restore_id = next_id,
                              ![p].snapshot = Original(p)]
    /\ pending' = [latest |-> next_id, original |-> Original(p)]
    /\ UNCHANGED <<board, answer, wanted, unsure, apart, buried>>

-----------------------------------------------------------------------------
(* restore_clipboard_if_safe(), 750 ms later.                              *)

IsLatest(p) == pending # None /\ pending.latest = local[p].restore_id

\* The clipboard still holds the pasted text.  The mutant does not look.
StillOurs_Unchecked(p) == TRUE
StillOurs(p)           == change_count = local[p].count

RestoreOutdated(p) ==
    /\ Return(p, "waiting")
    /\ ~IsLatest(p)
    /\ UNCHANGED <<board, batch, answer, wanted, unsure, apart, buried>>

RestoreDue(p) ==
    /\ Go(p, "waiting", "restore")
    /\ IsLatest(p)
    /\ StillOurs(p)
    /\ Arrives(p)
    /\ UNCHANGED <<board, batch, local, answer, wanted, unsure, buried>>

RestoreSkipped(p) ==
    /\ Go(p, "waiting", "clear")
    /\ IsLatest(p)
    /\ ~StillOurs(p)
    /\ Arrives(p)
    /\ UNCHANGED <<board, batch, local, answer, wanted, unsure, buried>>

Restore(p) ==
    /\ Go(p, "restore", "clear")
    /\ Put(local[p].snapshot)
    /\ UNCHANGED <<batch, local, answer, wanted, apart, buried>>

\* The batch ends, unless a later paste has taken it over.  The mutant ends it
\* only if the clipboard was restored.
ClearPending_IfRestored(p) ==
    /\ Return(p, "clear")
    /\ pending' = IF IsLatest(p) /\ contents = local[p].snapshot THEN None
                                                                ELSE pending
    /\ UNCHANGED <<board, next_id, answer, wanted, unsure, apart, buried>>

ClearPending(p) ==
    /\ Return(p, "clear")
    /\ pending' = IF IsLatest(p) THEN None ELSE pending
    /\ UNCHANGED <<board, next_id, answer, wanted, unsure, apart, buried>>

PasteStep(p) ==
    \/ WriteText(p) \/ ReadCount(p) \/ SimulatePaste(p) \/ PasteFails(p)
    \/ Remember(p) \/ RestoreOutdated(p) \/ RestoreDue(p) \/ RestoreSkipped(p)
    \/ Restore(p) \/ ClearPending(p)

-----------------------------------------------------------------------------
(* capture_with_copy().                                                    *)

\* A write between the two reads would only be taken for the app's answer.  A
\* capture that finds a pasted text puts that back, which the restore that waits
\* takes for a copy of the user's: what is wanted is given up.
CaptureStart(c) ==
    /\ Go(c, "ready", "ask")
    /\ local' = [local EXCEPT ![c].count = change_count,
                              ![c].snapshot = contents]
    /\ Arrives(c)
    /\ Bury(contents # wanted)
    /\ UNCHANGED <<board, batch, answer, wanted, unsure>>

CopyKey(c) ==
    /\ Go(c, "ask", "wait")
    /\ answer' = [answer EXCEPT ![c] = "asked"]
    /\ UNCHANGED <<board, batch, local, wanted, unsure, apart, buried>>

CopyKeyFails(c) ==
    /\ Return(c, "ask")
    /\ UNCHANGED <<board, batch, answer, wanted, unsure, apart, buried>>

\* wait_for_clipboard_change(): for 500 ms, then once more for 1.5 s.
SeesChange(c) ==
    /\ pc[c] \in {"wait", "watch"}
    /\ change_count # local[c].count
    /\ pc' = [pc EXCEPT ![c] = "putback"]
    /\ UNCHANGED <<board, batch, local, answer, wanted, unsure, apart, buried>>

GivesUp(c) ==
    /\ change_count = local[c].count
    /\ \/ Go(c, "wait", "watch") /\ UNCHANGED local
       \/ Return(c, "watch")
    /\ UNCHANGED <<board, batch, answer, wanted, unsure, apart, buried>>

\* The selection has been read; or it is a late copy.
PutBack(c) ==
    /\ Return(c, "putback")
    /\ Put(local[c].snapshot)
    /\ UNCHANGED <<batch, answer, wanted, apart, buried>>

CaptureStep(c) ==
    \/ CopyKey(c) \/ CopyKeyFails(c) \/ SeesChange(c) \/ GivesUp(c)
    \/ PutBack(c)

-----------------------------------------------------------------------------
(* The user and the app in front.                                          *)

Copy(u) ==
    /\ Go(u, "ready", "done")
    /\ Put(u)
    /\ wanted' = u
    /\ Arrives(u)
    /\ UNCHANGED <<batch, local, answer, buried>>

\* The app copies its selection, at any time after it was asked or never.
AppAnswers(c) ==
    /\ answer[c] = "asked"
    /\ answer' = [answer EXCEPT ![c] = "given"]
    /\ Put(c)
    /\ apart' = (apart /\ pc[c] # "done")
    /\ UNCHANGED <<batch, pc, local, wanted, buried>>

AllDone == (\A x \in Calls : pc[x] = "done") /\ UNCHANGED vars

Next ==
    \/ \E p \in Pastes : TakeSnapshot(p) \/ PasteStep(p)
    \/ \E c \in Captures : CaptureStart(c) \/ CaptureStep(c) \/ AppAnswers(c)
    \/ \E u \in Copies : Copy(u)
    \/ AllDone

\* A call that has begun goes on: its waits are sleeps and polls with an end.
Fairness ==
    /\ \A p \in Pastes : WF_vars(PasteStep(p))
    /\ \A c \in Captures : WF_vars(CaptureStep(c))

Spec     == Init /\ [][Next]_vars
FairSpec == Spec /\ Fairness

-----------------------------------------------------------------------------
(* Properties.                                                             *)

Contents == Calls \cup {None}
Places   == {"ready", "write", "count", "paste", "remember", "waiting", "restore",
             "clear", "ask", "wait", "watch", "putback", "done"}

\* The shape of every variable.  No two restores have the same id, so at most one
\* of them is the latest.
TypeOK ==
    /\ contents \in Contents
    /\ change_count \in Nat
    /\ pending \in [latest : Nat, original : Contents] \cup {None}
    /\ next_id \in Nat
    /\ pc \in [Calls -> Places]
    /\ local \in [Calls -> [snapshot : Contents, count : Nat, restore_id : Nat]]
    /\ \A p, q \in Pastes :
         local[p].restore_id = local[q].restore_id
         => p = q \/ local[p].restore_id = 0
    /\ answer \in [Captures -> {"none", "asked", "given"}]
    /\ wanted \in Contents
    /\ unsure \in SUBSET Pastes
    /\ apart \in BOOLEAN
    /\ buried \subseteq Contents

\* "Only when ... the clipboard still holds what OraType wrote (no app or person
\* copied something since)": when a restore decides to write, the clipboard holds
\* the text of its paste.  (Not known for a paste whose change count was read
\* after somebody else's write.)
RestoresOnlyItsText ==
    [][\A p \in Pastes :
         pc[p] = "waiting" /\ pc'[p] = "restore" /\ p \notin unsure
         => contents = p]_vars

\* "The clipboard holds what the user put there, unless they press Copy in
\* OraType": when OraType is not at work, the last thing that was put there to
\* stay is there, after any number of pastes in quick succession, refused pastes,
\* captures and late answers of an app.  It takes for granted that no call came in
\* the middle of another.  Two orders of calls that follow each other lose it as
\* well (buried): a paste, a copy of the user's and a paste within 750 ms, and a
\* paste and a capture within 750 ms.
Settled == \A x \in Calls : ~Middle(x) /\ pc[x] # "waiting"
ClipboardComesBack == Settled /\ apart => contents = wanted \/ wanted \in buried

\* A batch of pastes ends, so the snapshot it holds is never brought back by a
\* paste made much later.
BatchEnds == (pending # None) ~> (pending = None)

(* What the code does not keep.                                            *)

\* "Only when ... the clipboard still holds what OraType wrote (no app or person
\* copied something since)": calls that follow each other lose nothing.
ClipboardAlwaysBack == Settled /\ apart => contents = wanted

\* "Pastes in quick succession share one: the clipboard from before the first is
\* the one that comes back": a batch never brings back OraType's own text.
BringsBackNoPaste == pending # None => pending.original \notin Pastes

\* "pastes the text into the frontmost app": when the Command-V is sent, the
\* clipboard holds the text to be pasted.
PastesItsText ==
    [][\A p \in Pastes :
         pc[p] = "paste" /\ pc'[p] = "remember" => contents = p]_vars
=============================================================================
