---------------------------- MODULE TextInsertion ----------------------------
(***************************************************************************)
(* How the text of a run gets into the app, after its words are known: the *)
(* AI's answer streamed piece by piece into the text field, the recovery   *)
(* when the stream and the answer part, the output of the whole text with  *)
(* its fallbacks, the clipboard as the last of them, and the Copy pill     *)
(* (pipeline.rs from polish_text() on, voice_intent/executor.rs, output/,  *)
(* copy_pill.rs).                                                          *)
(*                                                                         *)
(* The user may go to another app or another element between any two       *)
(* steps, keys may fail, or be typed after their caller stopped waiting,   *)
(* and a run may be cancelled and another one begun.  Speech, the AI's     *)
(* request and the pipeline's lock are in Pipeline, the clipboard's coming *)
(* back after a paste in Clipboard.                                        *)
(***************************************************************************)
EXTENDS Naturals, Sequences

CONSTANTS
  Runs,       \* runs, each made once
  PillRuns,   \* those of start_with_options(), which close the Copy pill and may
              \*   end in it: Dictate and Translate; the others are Ask's drafts
              \*   and hands-free dictations
  Settings,   \* the insertion settings looked at
  Pieces,     \* an answer comes in this many pieces
  MaxMoves,   \* bound: moves of the user to an app or an element
  MaxCancels, \* bound: cancels
  None

ASSUME InsertionAssumption ==
  /\ PillRuns \subseteq Runs /\ None \notin Runs
  /\ Settings \subseteq {"stream", "keyboard", "paste", "copyOnly"}
  /\ Pieces \in Nat \ {0}
  /\ MaxMoves \in Nat /\ MaxCancels \in Nat

Apps == {"app", "other"}

\* What the focused element is: a field takes text and says so, a list takes
\* none and says so, a canvas does not tell.
Spots == {"field", "list", "canvas"}

VARIABLES
  setting, trusted,   \* the insertion setting; the permission to type
  front, spot, moves, \* the app in front and its focused element
  seen,               \* the app the detector's cache holds
  state, abort_flag,  \* PipelineHandle's
  copy_offer,         \* the run whose text waits in the pill
  copying,            \* the run whose text the Copy button has taken
  clipboard,          \* the run whose text is on the clipboard
  late,               \* keys on the main thread that nobody waits for
  run,                \* what the calls of a run hold (below)
  latest,             \* the one of PillRuns begun last
  cancels, cancelled,
  crossed             \* runs begun while another one had not ended

settings == <<setting, trusted>>
desk     == <<front, spot, moves, seen>>
pill     == <<copy_offer, copying>>
flags    == <<state, abort_flag>>
history  == <<latest, cancels, cancelled, crossed>>
vars == <<settings, desk, flags, pill, clipboard, late, run, history>>

\* The locals of a run, and at the end what has become of its text: the pieces
\* typed or pasted in order, whether the keyboard failed, a key did not get
\* into the target, one did, the user went elsewhere, the element does not tell
\* what it takes, the user was told something, or every output failed in silence.
Local(phase) ==
  [phase |-> phase, guard |-> "app", readable |-> FALSE, caller |-> "pipeline",
   sent |-> 0, answer |-> "none",
   worker |-> "none", inserted |-> 0, failed |-> FALSE, target_lost |-> FALSE,
   keys |-> << >>, erred |-> FALSE, missed |-> FALSE, arrived |-> FALSE,
   moved |-> FALSE, unclear |-> FALSE, told |-> FALSE, silent |-> FALSE]

Init ==
  /\ setting \in Settings /\ trusted \in BOOLEAN
  /\ front = "app" /\ spot \in Spots /\ moves = 0 /\ seen = "app"
  /\ state = "Idle" /\ abort_flag = FALSE
  /\ copy_offer = None /\ copying = None /\ clipboard = None
  /\ late = << >>
  /\ run = [r \in Runs |-> Local("new")]
  /\ latest = None /\ cancels = 0 /\ cancelled = {} /\ crossed = {}

-----------------------------------------------------------------------------
(* Helpers.                                                                *)

Under(r) == run[r].phase \notin {"new", "done"}
At(r, phase) == run[r].phase = phase
Becomes(r, new) == run' = [run EXCEPT ![r] = new]
Go(r, phase)    == Becomes(r, [run[r] EXCEPT !.phase = phase])

\* check_focus(): only a clear answer holds text back.
NotEditable == spot = "list"

\* target_still_matches() asks the cache, target_still_matches_now() the
\* system.
TargetMatches(r)    == seen = run[r].guard
TargetMatchesNow(r) == front = run[r].guard

Piece(first, last) == [i \in 1..(last + 1 - first) |-> first + i - 1]

\* Run r (in state old) after keys went to whatever has the focus now.  They
\* land in a field, and in a canvas or not.
Typed(old, first, last, lands) ==
  [old EXCEPT !.keys = @ \o Piece(first, last),
              !.missed = @ \/ ~lands \/ front # old.guard,
              !.arrived = @ \/ (first <= last /\ lands /\ front = old.guard),
              !.unclear = @ \/ (spot = "canvas" /\ ~lands /\ ~old.readable)]
MayLand == {spot = "field", spot # "list"}

\* Keys go out behind the ones that wait on the main thread; the run goes on
\* as new.
KeysGo(r, first, last, new) ==
  /\ late = << >>
  /\ \E lands \in MayLand : Becomes(r, Typed(new, first, last, lands))
  /\ UNCHANGED late

\* type_text() fails: some of the keys went out, or all of them wait on the main
\* thread, which types them after its caller has stopped waiting.
KeysFail(r, first, last, new) ==
  \/ /\ late' = Append(late, [run |-> r, first |-> first, last |-> last])
     /\ Becomes(r, [new EXCEPT !.erred = TRUE])
  \/ /\ late = << >>
     /\ \E lands \in MayLand, n \in (first - 1)..last :
          Becomes(r, Typed([new EXCEPT !.erred = TRUE], first, n, lands))
     /\ UNCHANGED late

-----------------------------------------------------------------------------
(* The user, and what happens by itself.                                   *)

Move ==
  /\ moves < MaxMoves /\ moves' = moves + 1
  /\ \E a \in Apps, s \in Spots : <<a, s>> # <<front, spot>> /\ front' = a /\ spot' = s
  /\ run' = [r \in Runs |-> [run[r] EXCEPT !.moved = Under(r)]]
  /\ UNCHANGED <<seen, settings, flags, pill, clipboard, late, history>>

\* run_detector(): the cache catches up once a second.
Refresh ==
  /\ seen # front /\ seen' = front
  /\ UNCHANGED <<settings, front, spot, moves, flags, pill, clipboard, late, run, history>>

\* The main thread gets to keys whose caller has gone.
LateKeys ==
  /\ late # << >> /\ late' = Tail(late)
  /\ \E lands \in MayLand, l \in {Head(late)} :
       IF Under(l.run) THEN Becomes(l.run, Typed(run[l.run], l.first, l.last, lands))
                       ELSE UNCHANGED run
  /\ UNCHANGED <<settings, desk, flags, pill, clipboard, history>>

\* start_with_options() of run r: the flag is reset, the pill closed, and the
\* app in front is where the text will go.  The mutant leaves the pill up.
OfferAtStart_Kept == copy_offer
OfferAtStart      == None
Begin(r) ==
  /\ At(r, "new") /\ r \in PillRuns /\ state = "Idle"
  /\ state' = "Busy" /\ abort_flag' = FALSE
  /\ copy_offer' = OfferAtStart
  /\ Becomes(r, [Local("speaking") EXCEPT !.guard = front])
  /\ latest' = r
  /\ crossed' = IF \E q \in Runs : Under(q) THEN crossed \cup {r} ELSE crossed
  /\ UNCHANGED <<settings, desk, copying, clipboard, late, cancels, cancelled>>

\* run_ask_draft() and run_hands_free_dictation(): the words are there already, the
\* text goes into the app that was in front when Ask began, and neither the pill
\* nor the state is touched yet.
BeginDraft(r) ==
  /\ At(r, "new") /\ r \notin PillRuns /\ state = "Idle"
  /\ abort_flag' = FALSE
  /\ \E app \in Apps :
       Becomes(r, [Local("speaking") EXCEPT !.guard = app, !.moved = (app # front)])
  /\ UNCHANGED <<settings, desk, state, pill, clipboard, late, history>>

\* start_with_options() that finds the pipeline busy has reset the flag and closed
\* the pill before it looks.
StartRefused ==
  /\ state # "Idle"
  /\ abort_flag' = FALSE /\ copy_offer' = OfferAtStart
  /\ UNCHANGED <<settings, desk, state, copying, clipboard, late, run, history>>

\* abort(), by Escape or the pill's button.
Cancel ==
  /\ state # "Idle" /\ cancels < MaxCancels
  /\ cancels' = cancels + 1
  /\ abort_flag' = TRUE /\ state' = "Idle"
  /\ cancelled' = cancelled \cup {r \in Runs : Under(r)}
  /\ UNCHANGED <<settings, desk, pill, clipboard, late, run, latest, crossed>>

\* Escape while no run is under way, the end of the pill's countdown, or the
\* capsule's window that hears of a state other than Idle while the pill is up.
DismissOffer ==
  /\ copy_offer # None /\ copy_offer' = None
  /\ UNCHANGED <<settings, desk, flags, copying, clipboard, late, run, history>>

\* copy_offer_to_clipboard(): the offer is taken first, and lost if the clipboard
\* cannot be written.
PressCopy ==
  /\ copy_offer # None /\ copying = None
  /\ copying' = copy_offer /\ copy_offer' = None
  /\ UNCHANGED <<settings, desk, flags, clipboard, late, run, history>>

OfferCopied ==
  /\ copying # None /\ copying' = None
  /\ clipboard' \in {clipboard, copying}
  /\ UNCHANGED <<settings, desk, flags, copy_offer, late, run, history>>

-----------------------------------------------------------------------------
(* The AI's answer and the insert worker.                                  *)

\* stop() of a cancelled recording ends before the AI is asked, unless the cancel
\* came after its look.
SpokenInVain(r) ==
  /\ At(r, "speaking") /\ r \in PillRuns \cap cancelled
  /\ Becomes(r, Local("done"))
  /\ UNCHANGED <<settings, desk, flags, pill, clipboard, late, history>>

\* Without polish the words are put out as they are.
OutputRaw(r) ==
  /\ At(r, "speaking")
  /\ Go(r, "look")
  /\ UNCHANGED <<settings, desk, flags, pill, clipboard, late, history>>

\* A draft without polish ends with an error that is shown.
DraftRefused(r) ==
  /\ At(r, "speaking") /\ r \notin PillRuns
  /\ Becomes(r, [run[r] EXCEPT !.phase = "tail", !.told = TRUE])
  /\ UNCHANGED <<settings, desk, flags, pill, clipboard, late, history>>

\* polish_text() asks the AI.  Its answer is streamed into the app if the
\* setting types, it may, and no list has the focus (a run without the pill
\* does not look).  The field's length is read before the first key, if the
\* app tells it.
Streams(r) ==
  /\ setting = "stream" /\ trusted
  /\ r \in PillRuns => ~NotEditable
AskAI(r) ==
  /\ At(r, "speaking")
  /\ state' = "Busy"
  /\ \E tells \in BOOLEAN :
       Becomes(r, [run[r] EXCEPT !.phase = "asking",
                                 !.worker = IF Streams(r) THEN "recv" ELSE "none",
                                 !.readable = Streams(r) /\ tells])
  /\ UNCHANGED <<settings, desk, abort_flag, pill, clipboard, late, history>>

\* A piece comes: on_chunk() hands it to the worker.
SendPiece(r) ==
  /\ At(r, "asking") /\ run[r].worker # "none" /\ run[r].sent < Pieces
  /\ Becomes(r, [run[r] EXCEPT !.sent = @ + 1])
  /\ UNCHANGED <<settings, desk, flags, pill, clipboard, late, history>>

\* The request ends: with the text its pieces make, with another one (the last
\* clean-up changed what had been shown), or with an error at any moment.
Answer(r) ==
  /\ At(r, "asking")
  /\ \E a \in {"same", "changed", "error"} :
       /\ a # "error" /\ run[r].worker # "none" => run[r].sent = Pieces
       /\ Becomes(r, [run[r] EXCEPT !.answer = a, !.phase = "answered"])
  /\ UNCHANGED <<settings, desk, flags, pill, clipboard, late, history>>

\* run_streaming_insert_worker(): a look at the flag, then at the target.
Waiting(r) == run[r].worker = "recv" /\ run[r].inserted < run[r].sent
NextPiece(r) == run[r].inserted + 1

WorkerAborts(r) ==
  /\ Waiting(r) /\ abort_flag
  /\ Becomes(r, [run[r] EXCEPT !.worker = "over"])
  /\ UNCHANGED <<settings, desk, flags, pill, clipboard, late, history>>

\* Another app is in the cache, or the cache is older than stale_after.
WorkerLosesTarget(r) ==
  /\ Waiting(r) /\ ~abort_flag
  /\ Becomes(r, [run[r] EXCEPT !.worker = "over", !.failed = TRUE, !.target_lost = TRUE])
  /\ UNCHANGED <<settings, desk, flags, pill, clipboard, late, history>>

WorkerTakes(r) ==
  /\ Waiting(r) /\ ~abort_flag /\ TargetMatches(r)
  /\ Becomes(r, [run[r] EXCEPT !.worker = "typing"])
  /\ UNCHANGED <<settings, desk, flags, pill, clipboard, late, history>>

WorkerTyped(r) ==
  /\ run[r].worker = "typing"
  /\ KeysGo(r, NextPiece(r), NextPiece(r),
            [run[r] EXCEPT !.worker = "recv", !.inserted = @ + 1])
  /\ UNCHANGED <<settings, desk, flags, pill, clipboard, history>>

\* A piece that failed is not in the report, whatever of it went out.
WorkerFails(r) ==
  /\ run[r].worker = "typing"
  /\ KeysFail(r, NextPiece(r), NextPiece(r),
              [run[r] EXCEPT !.worker = "over", !.failed = TRUE])
  /\ UNCHANGED <<settings, desk, flags, pill, clipboard, history>>

\* finish(): the sender is dropped, and the worker has taken every piece.
WorkerEnds(r) ==
  /\ run[r].worker = "recv" /\ At(r, "answered") /\ run[r].inserted = run[r].sent
  /\ Becomes(r, [run[r] EXCEPT !.worker = "over"])
  /\ UNCHANGED <<settings, desk, flags, pill, clipboard, late, history>>

WorkerStep(r) ==
  WorkerAborts(r) \/ WorkerLosesTarget(r) \/ WorkerTakes(r) \/ WorkerTyped(r)
    \/ WorkerFails(r) \/ WorkerEnds(r)

-----------------------------------------------------------------------------
(* What becomes of the answer: streaming_recovery_action() and the code    *)
(* after it, until polish_text() returns ("tail").                         *)

WorkerOver(r)   == At(r, "answered") /\ run[r].worker \in {"none", "over"}
HasInserted(r)  == run[r].inserted > 0
IsPrefix(r)     == run[r].answer = "same"   \* the report, of the polished text
StillTrusted(r) == ~run[r].failed /\ ~run[r].target_lost

\* The mutant takes a beginning of the text for the whole.
AlreadyComplete_Prefix(r) == HasInserted(r) /\ IsPrefix(r)
AlreadyComplete(r) == HasInserted(r) /\ IsPrefix(r) /\ run[r].inserted = Pieces
InsertSuffix(r) ==
  HasInserted(r) /\ IsPrefix(r) /\ ~AlreadyComplete(r) /\ StillTrusted(r)
CopyFull(r) ==
  \/ HasInserted(r) /\ run[r].answer = "changed"
  \/ HasInserted(r) /\ IsPrefix(r) /\ ~AlreadyComplete(r) /\ ~StillTrusted(r)
  \/ ~HasInserted(r) /\ run[r].answer # "error" /\ run[r].target_lost
CopyPartial(r) == HasInserted(r) /\ run[r].answer = "error"

\* typed_text_landed(): any change of the length says that the text landed, all of
\* it or not; a length that did not change says that nothing did; one that was not
\* told says nothing, and neither does another element's.  The mutant takes the
\* text for landed without a look.
Landed_Unseen(r) == {TRUE}
Landed(r) ==
  IF run[r].moved /\ run[r].readable THEN BOOLEAN
  ELSE {run[r].arrived \/ ~run[r].readable}
RecoverComplete(r) ==
  /\ WorkerOver(r) /\ AlreadyComplete(r)
  /\ \E landed \in Landed(r) :
       copy_offer' = IF ~landed /\ r \in PillRuns THEN r ELSE copy_offer
  /\ Go(r, "tail")
  /\ UNCHANGED <<settings, desk, flags, copying, clipboard, late, history>>

\* The rest is typed into whatever is in front by now; if that fails the text
\* is copied.  The mutant types the whole text again.
SuffixStart_Whole(r) == 1
SuffixStart(r) == run[r].inserted + 1
RecoverSuffix(r) ==
  /\ WorkerOver(r) /\ InsertSuffix(r)
  /\ \/ KeysGo(r, SuffixStart(r), Pieces, [run[r] EXCEPT !.phase = "tail"])
     \/ KeysFail(r, SuffixStart(r), Pieces,
                 [run[r] EXCEPT !.phase = "copy", !.told = TRUE])
  /\ UNCHANGED <<settings, desk, flags, pill, clipboard, history>>

\* The text, or what the app got of it, is to be copied; a text typed in part
\* has its warning.
RecoverByCopy(r) ==
  /\ WorkerOver(r) /\ (CopyFull(r) \/ CopyPartial(r))
  /\ Becomes(r, [run[r] EXCEPT !.phase = "copy", !.told = HasInserted(r)])
  /\ UNCHANGED <<settings, desk, flags, pill, clipboard, late, history>>

\* copy_text_to_clipboard_with_warning(): a warning, or an error.
CopyForRecovery(r) ==
  /\ At(r, "copy")
  /\ clipboard' \in {r, clipboard}
  /\ Becomes(r, [run[r] EXCEPT !.phase = "tail", !.told = TRUE])
  /\ UNCHANGED <<settings, desk, flags, pill, late, history>>

\* Nothing was inserted: the one look at the flag.
Skip(r) ==
  /\ WorkerOver(r) /\ ~HasInserted(r) /\ ~CopyFull(r)
  /\ abort_flag
  /\ Go(r, "tail")
  /\ UNCHANGED <<settings, desk, flags, pill, clipboard, late, history>>

\* An answer goes to the executor; without one an error is shown and the raw
\* words are put out.
OutputAnswer(r) ==
  /\ WorkerOver(r) /\ ~HasInserted(r) /\ ~CopyFull(r)
  /\ ~abort_flag
  /\ Becomes(r, IF run[r].answer = "error"
                  THEN [run[r] EXCEPT !.phase = "look", !.told = TRUE]
                  ELSE [run[r] EXCEPT !.phase = "execute", !.caller = "executor"])
  /\ UNCHANGED <<settings, desk, flags, pill, clipboard, late, history>>

-----------------------------------------------------------------------------
(* execute_insert(), output_text() and output_with_strategy().             *)

\* Another app in front: the executor copies, and never gets to the pill.
Execute(r) ==
  /\ At(r, "execute")
  /\ Go(r, IF TargetMatchesNow(r) THEN "look" ELSE "fallback")
  /\ UNCHANGED <<settings, desk, flags, pill, clipboard, late, history>>

\* copy_pill_hold()
Automated == setting # "copyOnly"
Held(r) ==
  /\ r \in PillRuns /\ Automated
  /\ ~TargetMatchesNow(r) \/ ~trusted \/ NotEditable

HoldText(r) ==
  /\ At(r, "look") /\ Held(r)
  /\ copy_offer' = r
  /\ state' = "Busy"
  /\ Becomes(r, [run[r] EXCEPT !.phase = "tail",
                               !.told = @ \/ (TargetMatchesNow(r) /\ ~trusted)])
  /\ UNCHANGED <<settings, desk, abort_flag, copying, clipboard, late, history>>

\* The strategy that the target and the permission leave.
Strategy(r) ==
  IF ~TargetMatchesNow(r) \/ ~trusted \/ ~Automated THEN "write"
  ELSE IF setting = "paste" THEN "paste" ELSE "type"
PickStrategy(r) ==
  /\ At(r, "look") /\ ~Held(r)
  /\ state' = "Busy"
  /\ Go(r, Strategy(r))
  /\ UNCHANGED <<settings, desk, abort_flag, pill, clipboard, late, history>>

\* The keyboard first, and the clipboard's paste when it fails.
TypeText(r) ==
  /\ At(r, "type")
  /\ \/ KeysGo(r, 1, Pieces, [run[r] EXCEPT !.phase = "tail"])
     \/ KeysFail(r, 1, Pieces, [run[r] EXCEPT !.phase = "paste"])
  /\ UNCHANGED <<settings, desk, flags, pill, clipboard, history>>

\* An error of output_text(): the executor copies the text, others show it.
\* The mutant lets the executor take it for done.
AfterError_Done(r) == [run[r] EXCEPT !.phase = "tail", !.told = run[r].caller = "pipeline"]
AfterError(r) ==
  IF run[r].caller = "executor" THEN [run[r] EXCEPT !.phase = "fallback"]
                                ELSE [run[r] EXCEPT !.phase = "tail", !.told = TRUE]

\* The paste: Command-V; or the text stays on the clipboard if that fails; or
\* the clipboard cannot be written.
PasteText(r) ==
  /\ At(r, "paste")
  /\ \/ /\ \E lands \in MayLand :
             Becomes(r, Typed([run[r] EXCEPT !.phase = "tail"], 1, Pieces, lands))
        /\ UNCHANGED clipboard
     \/ clipboard' = r /\ Go(r, "tail")
     \/ Becomes(r, AfterError(r)) /\ UNCHANGED clipboard
  /\ UNCHANGED <<settings, desk, flags, pill, late, history>>

\* Copy-only, which the executor takes for an insertion that did not happen;
\* it knows that the text is copied already.
WriteText(r) ==
  /\ At(r, "write")
  /\ \/ clipboard' = r /\ Go(r, "tail")
     \/ Becomes(r, AfterError(r)) /\ UNCHANGED clipboard
  /\ UNCHANGED <<settings, desk, flags, pill, late, history>>

\* The executor's copy_to_clipboard(); when that fails too, nobody is told.
Fallback(r) ==
  /\ At(r, "fallback")
  /\ state' = "Busy"
  /\ \/ clipboard' = r /\ Go(r, "tail")
     \/ /\ Becomes(r, [run[r] EXCEPT !.phase = "tail", !.silent = TRUE])
        /\ UNCHANGED clipboard
  /\ UNCHANGED <<settings, desk, abort_flag, pill, late, history>>

\* The end of stop(): Idle, whoever the pipeline is busy with.
Finish(r) ==
  /\ At(r, "tail")
  /\ state' = "Idle"
  /\ Becomes(r, Local("done"))
  /\ UNCHANGED <<settings, desk, abort_flag, pill, clipboard, late, history>>

-----------------------------------------------------------------------------

AIStep(r) ==
  SpokenInVain(r) \/ OutputRaw(r) \/ DraftRefused(r) \/ AskAI(r) \/ SendPiece(r) \/ Answer(r)

RecoveryStep(r) ==
  RecoverComplete(r) \/ RecoverSuffix(r) \/ RecoverByCopy(r) \/ CopyForRecovery(r)
    \/ Skip(r) \/ OutputAnswer(r)

OutputStep(r) ==
  Execute(r) \/ HoldText(r) \/ PickStrategy(r) \/ TypeText(r) \/ PasteText(r)
    \/ WriteText(r) \/ Fallback(r) \/ Finish(r)

Next ==
  \/ \E r \in Runs :
       Begin(r) \/ BeginDraft(r) \/ AIStep(r) \/ WorkerStep(r) \/ RecoveryStep(r)
         \/ OutputStep(r)
  \/ Move \/ Refresh \/ LateKeys \/ StartRefused \/ Cancel
  \/ DismissOffer \/ PressCopy \/ OfferCopied

Spec == Init /\ [][Next]_vars

-----------------------------------------------------------------------------
(* Properties.                                                             *)

\* The text of a run that was not cancelled is not lost: when polish_text()
\* returns all of it has been typed, or it is on the clipboard, or in the pill,
\* or the user has been told.  Typed text got into the app the run began in,
\* unless the user went elsewhere meanwhile, the element does not tell what it
\* takes, the keyboard failed, the run has no pill to offer it, or a streamed text
\* got into the element in part, which the look at its length takes for the whole.
\* Nothing is said of a run whose last fallback failed as well: that happens in
\* silence.
Whole(typed) == \A i \in 1..Pieces : \E k \in DOMAIN typed : typed[k] = i
InPart(r) == run[r].readable /\ run[r].arrived
Excused(r) ==
  run[r].moved \/ run[r].unclear \/ run[r].erred \/ r \notin PillRuns \/ InPart(r)
NothingLost ==
  [][\A r \in Runs \ cancelled' :
       run'[r].phase = "tail" /\ ~At(r, "tail") =>
         \/ Whole(run'[r].keys) /\ (run'[r].missed => Excused(r)')
         \/ clipboard' = r \/ copy_offer' = r
         \/ run'[r].told \/ run'[r].silent]_vars

\* However the pieces get there (streamed, as a rest, as a whole, pasted), what
\* a run has typed is a beginning of its text, each piece once, unless the
\* keyboard failed: keys that failed may have gone out, or go out later.
KeysInOrder ==
  \A r \in Runs : run[r].erred \/ run[r].keys = Piece(1, Len(run[r].keys))

\* The pill offers the text of the last Dictate or Translate run.  Only a cancelled
\* run, whose end comes when it comes, and a run begun beside one may offer theirs
\* later.
OfferIsCurrent ==
  copy_offer # None => copy_offer = latest \/ copy_offer \in cancelled \cup crossed

(* What the code does not keep.                                            *)

\* "Closes the Copy pill (Escape, the countdown, or a new run)": a draft and a
\* hands-free dictation leave it to the capsule's window, which nobody waits for.
NewRunClosesOffer ==
  [][\A r \in Runs : At(r, "new") /\ run'[r].phase # "new" => copy_offer' = None]_vars

\* A text that landed in part is offered again, or told of.
PartIsTold ==
  [][\A r \in Runs \ cancelled' :
       /\ run'[r].phase = "tail" /\ ~At(r, "tail")
       /\ run'[r].missed /\ InPart(r)'
       /\ ~(run[r].moved \/ run[r].unclear \/ run[r].erred \/ r \notin PillRuns)
       => clipboard' = r \/ copy_offer' = r \/ run'[r].told]_vars

\* The plan clipboard-safety: "The clipboard holds what the user put there, unless
\* they press Copy".  The executor and the recovery copy a text that cannot go
\* into its app, and so does a paste whose Command-V fails.
ClipboardLeftAlone ==
  [][setting # "copyOnly" =>
       \A r \in PillRuns : clipboard' = r => clipboard = r \/ copying = r]_vars

\* README: "Nothing is pasted" after a cancel.  The worker stops, and the recovery
\* types the rest of the answer.
CancelEndsTyping ==
  [][\A r \in cancelled :
       WorkerOver(r) /\ late' = late => run'[r].keys = run[r].keys]_vars

\* A text that no output takes is shown to the user somewhere.
NobodyLeftInSilence == \A r \in Runs \ cancelled : ~run[r].silent

\* The Copy button copies, or leaves the offer up.
CopyCopies ==
  [][copying # None /\ copying' = None =>
       clipboard' = copying \/ copy_offer' = copying]_vars

=============================================================================
