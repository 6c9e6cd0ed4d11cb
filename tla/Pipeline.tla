------------------------------ MODULE Pipeline ------------------------------
(***************************************************************************)
(* The dictation pipeline of src-tauri/src/pipeline.rs: what start(),      *)
(* stop(), abort(), the speech (STT) task and the deadline task of each    *)
(* recording, and the Ask drafts that borrow its polish and output, do to  *)
(* the state they share.                                                   *)
(*                                                                         *)
(* Every call is a process.  A step is what a call does to shared state    *)
(* between two awaits; it is cut where abort(), which runs on another      *)
(* thread and takes no lock, can come in between and make a difference.    *)
(* A run is named by the start() that opens it.                            *)
(***************************************************************************)
EXTENDS Naturals, FiniteSets

CONSTANTS
    Starts,           \* calls of start_with_options()
    TranslateStarts,  \* those of them with force_translate
    Stops,            \* calls of stop() made by a key, the tray or the pill
    Aborts,           \* calls of abort()
    Drafts,           \* calls of run_ask_draft() or run_hands_free_dictation()
    None

\* The deadline task of run s is named s too: it ends in a stop() of its own.
Stoppers == Stops \cup Starts
Tasks    == Stoppers \cup Drafts     \* calls that may polish and output

\* What pipeline_lock and active_translation_operation hold besides None.
Holders    == ({"start"} \X Starts) \cup ({"stop"} \X Stoppers)
Operations == [run : Starts, phase : {"Capturing", "Finalizing"}]

ASSUME CallsAssumption ==
    /\ TranslateStarts \subseteq Starts
    /\ Stops \cap Starts = {}
    /\ Drafts \cap Stoppers = {}
    /\ None \notin Tasks \cup Holders \cup Operations

VARIABLES
    state,                         \* the PipelineState the app shows
    active_translation_operation,  \* [run, phase], or None
    abort_flag,
    active_stt_session_id,
    active_deadline_session_id,
    pipeline_lock,                 \* the call that holds it, or None
    audio_handle,                  \* the run whose capture is stored, or None
    stt_session,                   \* the run whose SttTaskControl is stored
    preloaded,                     \* the run that filled the preloaded_* fields
    accumulated_text,              \* the runs whose speech is in it
    stt_error                      \* the run whose error is latched, or None

VARIABLES
    startPc,       \* where each start() is
    id,            \* the session id each start() took, 0 before
    capture,       \* each run's microphone capture
    sttPc,         \* where the speech task of each run is
    abortNotify,   \* SttTaskControl.abort of each run
    doneNotify,    \* SttTaskControl.done of each run: a permit is stored
    pc,            \* where each stop(), deadline task and draft is
    taken,         \* what each stop() took out of the shared fields
    text,          \* the runs whose speech is in the raw text of each task
    abortPc,       \* where each abort() is
    cancelled,     \* history: runs under way when an abort() set abort_flag
    overtaken,     \* history: runs under way at a later step of an abort(), or
                   \* when the end of another call set Idle
    slipped,       \* history: those whose session was left active, and those a
                   \* late abort() woke although their session is active
    owner,         \* history: the call that last found the pipeline Idle
    delivered,     \* history: tasks whose result was pasted or offered
    timedOut       \* history: runs whose stop() gave up waiting for speech

phase    == <<state, active_translation_operation>>
sessions == <<active_stt_session_id, active_deadline_session_id>>
slots    == <<audio_handle, stt_session, preloaded>>
speech   == <<accumulated_text, stt_error>>
starts   == <<startPc, id>>
stt      == <<sttPc, abortNotify, doneNotify>>
tasks    == <<pc, taken, text>>
history  == <<cancelled, overtaken, slipped, owner, delivered, timedOut>>
vars     == <<phase, abort_flag, sessions, pipeline_lock, slots, speech,
              starts, capture, stt, tasks, abortPc, history>>

Nothing == [session |-> None, audio |-> None, preload |-> None,
            target |-> None]

Init ==
    /\ state = "Idle"
    /\ active_translation_operation = None
    /\ abort_flag = FALSE
    /\ active_stt_session_id = 0
    /\ active_deadline_session_id = 0
    /\ pipeline_lock = None
    /\ audio_handle = None
    /\ stt_session = None
    /\ preloaded = None
    /\ accumulated_text = {}
    /\ stt_error = None
    /\ startPc = [s \in Starts |-> "ready"]
    /\ id = [s \in Starts |-> 0]
    /\ capture = [s \in Starts |-> "none"]
    /\ sttPc = [s \in Starts |-> "off"]
    /\ abortNotify = [s \in Starts |-> "none"]
    /\ doneNotify = [s \in Starts |-> FALSE]
    /\ pc = [p \in Tasks |-> IF p \in Starts THEN "off" ELSE "ready"]
    /\ taken = [p \in Tasks |-> Nothing]
    /\ text = [p \in Tasks |-> {}]
    /\ abortPc = [a \in Aborts |-> "ready"]
    /\ cancelled = {}
    /\ overtaken = {}
    /\ slipped = {}
    /\ owner = None
    /\ delivered = {}
    /\ timedOut = {}

-----------------------------------------------------------------------------
(* Helpers.                                                                *)

\* set_state(): Idle also drops the Translate operation.
SetState(new) ==
    /\ state' = new
    /\ active_translation_operation' =
         IF new = "Idle" THEN None ELSE active_translation_operation

\* compare_exchange() on the state, and the plain store it could be instead.
Exchange_Store(from, to) == state' = to
Exchange(from, to)       == state = from /\ state' = to

\* pipeline_lock can be taken.  The mutant forgets to take it.
LockFree_Ignored == TRUE
LockFree         == pipeline_lock = None

\* should_finalize_stt_task().  The mutant knows of cancels, not of sessions.
ShouldFinalize_AnySession(s) == ~abort_flag
ShouldFinalize(s) == ~abort_flag /\ active_stt_session_id = id[s]

\* What abort() makes of the session counter: every session so far is stale.
StaleSession == active_stt_session_id + 1

\* The stored AudioCaptureHandle is stopped or dropped: its capture ends.  The
\* mutant forgets to stop it.
CloseStored_Leaks == capture
CloseStored ==
    IF audio_handle = None THEN capture
                           ELSE [capture EXCEPT ![audio_handle] = "closed"]

\* clear_stt_session() of task p: only the control of its own run.
ClearSttSession(p) ==
    stt_session' = IF stt_session = taken[p].session THEN None ELSE stt_session

Run(p)        == IF p \in Drafts THEN p ELSE taken[p].session
UnderWay      == IF state = "Idle" THEN {} ELSE {owner}
GoStart(s, l) == startPc' = [startPc EXCEPT ![s] = l]
Go(p, l)      == pc' = [pc EXCEPT ![p] = l]

\* Idle is set at the end of task p: a run of another call that is under way goes
\* on, and the app shows none.
ShowIdle(p) ==
    /\ SetState("Idle")
    /\ overtaken' = overtaken \cup (UnderWay \ {Run(p)})
    /\ slipped' = slipped \cup ((UnderWay \cap Starts) \ {Run(p)})
    /\ UNCHANGED <<cancelled, owner, delivered>>

-----------------------------------------------------------------------------
(* start_with_options(), all of it under pipeline_lock.                    *)

\* The flag is reset and Idle is exchanged for Preparing.
StartClaim(s) ==
    /\ startPc[s] = "ready"
    /\ LockFree
    /\ Exchange("Idle", "Preparing")
    /\ pipeline_lock' = <<"start", s>>
    /\ abort_flag' = FALSE
    /\ owner' = s
    /\ GoStart(s, "claimed")
    /\ UNCHANGED <<active_translation_operation, sessions, slots, speech, id,
                   capture, stt, tasks, abortPc, cancelled, overtaken,
                   slipped, delivered, timedOut>>

\* The exchange fails and the call returns; the flag is reset all the same.
StartRefused(s) ==
    /\ startPc[s] = "ready"
    /\ LockFree
    /\ state # "Idle"
    /\ abort_flag' = FALSE
    /\ GoStart(s, "done")
    /\ UNCHANGED <<phase, sessions, pipeline_lock, slots, speech, id, capture,
                   stt, tasks, abortPc, history>>

\* readiness::start_error(): a missing service ends the call.  The store does
\* not go through set_state().
StartNotReady(s) ==
    /\ startPc[s] = "claimed"
    /\ state' = "Idle"
    /\ pipeline_lock' = None
    /\ GoStart(s, "done")
    /\ UNCHANGED <<active_translation_operation, abort_flag, sessions, slots,
                   speech, id, capture, stt, tasks, abortPc, history>>

\* Preparing is shown, the last run's text and error are cleared, the
\* preloaded_* fields filled and the microphone opened.
StartPrepare(s) ==
    /\ startPc[s] = "claimed"
    /\ SetState("Preparing")
    /\ accumulated_text' = {}
    /\ stt_error' = None
    /\ preloaded' = s
    /\ capture' = [capture EXCEPT ![s] = "open"]
    /\ GoStart(s, "connecting")
    /\ UNCHANGED <<abort_flag, sessions, pipeline_lock, audio_handle,
                   stt_session, id, stt, tasks, abortPc, history>>

\* The tail of every failed or cancelled start: the preloads are dropped, Idle
\* is set and the lock released.
StartGiveUp(s) ==
    /\ preloaded' = None
    /\ SetState("Idle")
    /\ pipeline_lock' = None
    /\ GoStart(s, "done")
    /\ UNCHANGED <<abort_flag, sessions, stt_session, speech, id, stt, tasks,
                   abortPc, history>>

\* No credential, provider, microphone or connection, or 30 seconds without an
\* answer; or the first look at abort_flag finds it set.  The handle, a local,
\* is dropped.
StartFail(s) ==
    /\ startPc[s] = "connecting"
    /\ capture' = [capture EXCEPT ![s] = "closed"]
    /\ StartGiveUp(s)
    /\ UNCHANGED audio_handle

StartConnected(s) ==
    /\ startPc[s] = "connecting"
    /\ ~abort_flag
    /\ GoStart(s, "store")
    /\ UNCHANGED <<phase, abort_flag, sessions, pipeline_lock, slots, speech,
                   id, capture, stt, tasks, abortPc, history>>

\* The handle is stored; one still there is dropped.
StartStoreHandle(s) ==
    /\ startPc[s] = "store"
    /\ audio_handle' = s
    /\ capture' = CloseStored
    /\ GoStart(s, "stored")
    /\ UNCHANGED <<phase, abort_flag, sessions, pipeline_lock, stt_session,
                   preloaded, speech, id, stt, tasks, abortPc, history>>

\* The second look at abort_flag.
StartUndo(s) ==
    /\ startPc[s] = "stored"
    /\ abort_flag
    /\ capture' = CloseStored
    /\ audio_handle' = None
    /\ StartGiveUp(s)

StartKeep(s) ==
    /\ startPc[s] = "stored"
    /\ ~abort_flag
    /\ GoStart(s, "record")
    /\ UNCHANGED <<phase, abort_flag, sessions, pipeline_lock, slots, speech,
                   id, capture, stt, tasks, abortPc, history>>

\* fetch_add gives the session id.
StartSession(s) ==
    /\ startPc[s] = "record"
    /\ active_stt_session_id' = active_stt_session_id + 1
    /\ id' = [id EXCEPT ![s] = active_stt_session_id + 1]
    /\ GoStart(s, "arm")
    /\ UNCHANGED <<phase, abort_flag, active_deadline_session_id, pipeline_lock,
                   slots, speech, capture, stt, tasks, abortPc, history>>

\* The deadline is armed.
StartArm(s) ==
    /\ startPc[s] = "arm"
    /\ active_deadline_session_id' = id[s]
    /\ GoStart(s, "operation")
    /\ UNCHANGED <<phase, abort_flag, active_stt_session_id, pipeline_lock, slots,
                   speech, id, capture, stt, tasks, abortPc, history>>

\* The Translate operation is opened, or the last one dropped.
StartOperation(s) ==
    /\ startPc[s] = "operation"
    /\ active_translation_operation' =
         IF s \in TranslateStarts THEN [run |-> s, phase |-> "Capturing"]
                                  ELSE None
    /\ GoStart(s, "show")
    /\ UNCHANGED <<state, abort_flag, sessions, pipeline_lock, slots, speech, id,
                   capture, stt, tasks, abortPc, history>>

\* The user is told to speak.
StartShow(s) ==
    /\ startPc[s] = "show"
    /\ SetState("Recording")
    /\ GoStart(s, "spawn")
    /\ UNCHANGED <<abort_flag, sessions, pipeline_lock, slots, speech, id, capture,
                   stt, tasks, abortPc, history>>

\* The SttTaskControl is stored, the speech and deadline tasks are spawned and
\* the lock is released.
StartSpawn(s) ==
    /\ startPc[s] = "spawn"
    /\ stt_session' = s
    /\ sttPc' = [sttPc EXCEPT ![s] = "loop"]
    /\ Go(s, "armed")
    /\ pipeline_lock' = None
    /\ GoStart(s, "done")
    /\ UNCHANGED <<phase, abort_flag, sessions, audio_handle, preloaded,
                   speech, id, capture, abortNotify, doneNotify, taken, text,
                   abortPc, history>>

StartStep(s) ==
    \/ StartNotReady(s) \/ StartPrepare(s) \/ StartFail(s) \/ StartConnected(s)
    \/ StartStoreHandle(s) \/ StartUndo(s) \/ StartKeep(s)
    \/ StartSession(s) \/ StartArm(s) \/ StartOperation(s) \/ StartShow(s)
    \/ StartSpawn(s)

-----------------------------------------------------------------------------
(* The speech task of run s.  It waits in a select! at "select" (audio, an *)
(* event or the abort signal) and at "closing" (disconnect() or the abort  *)
(* signal); at "sending" it awaits send_audio() and hears no signal.       *)

\* Where the top of the loop sends it.
LoopTop(s) == IF ShouldFinalize(s) THEN "select" ELSE "ended"

\* Leaving a wait: a notify_waiters() wake-up that was not consumed is lost, a
\* notify_one() permit stays.  The end of the task stores a permit in done.
SttGo(s, l) ==
    /\ sttPc' = [sttPc EXCEPT ![s] = l]
    /\ abortNotify' = [abortNotify EXCEPT ![s] = IF @ = "wake" THEN "none" ELSE @]
    /\ doneNotify' = [doneNotify EXCEPT ![s] = @ \/ l = "ended"]

SttBegin(s) ==
    /\ sttPc[s] = "loop"
    /\ SttGo(s, LoopTop(s))
    /\ UNCHANGED speech

SttAborted(s) ==
    /\ sttPc[s] \in {"select", "closing"}
    /\ abortNotify[s] # "none"
    /\ sttPc' = [sttPc EXCEPT ![s] = "ended"]
    /\ abortNotify' = [abortNotify EXCEPT ![s] = "none"]
    /\ doneNotify' = [doneNotify EXCEPT ![s] = TRUE]
    /\ UNCHANGED speech

\* A chunk, perhaps one still queued when the capture ended.
SttChunk(s) ==
    /\ sttPc[s] = "select"
    /\ SttGo(s, "sending")
    /\ UNCHANGED speech

SttSent(s) ==
    /\ sttPc[s] = "sending"
    /\ SttGo(s, LoopTop(s))
    /\ UNCHANGED speech

\* The channel is closed: disconnect, unless the session is stale.
SttClosed(s) ==
    /\ sttPc[s] = "select"
    /\ capture[s] = "closed"
    /\ SttGo(s, IF ShouldFinalize(s) THEN "closing" ELSE "ended")
    /\ UNCHANGED speech

\* Final text: an event of a streaming provider, or the answer to disconnect().
SttText(s) ==
    /\ sttPc[s] \in {"select", "closing"}
    /\ accumulated_text' = IF ShouldFinalize(s) THEN accumulated_text \cup {s}
                                                ELSE accumulated_text
    /\ SttGo(s, IF sttPc[s] = "select" THEN LoopTop(s) ELSE "ended")
    /\ UNCHANGED stt_error

\* disconnect() had nothing to add.
SttSilence(s) ==
    /\ sttPc[s] = "closing"
    /\ SttGo(s, "ended")
    /\ UNCHANGED speech

\* Sending, receiving or disconnecting failed: the error is latched, for the
\* active session only.
SttError(s) ==
    /\ sttPc[s] \in {"select", "sending", "closing"}
    /\ stt_error' = IF ShouldFinalize(s) THEN s ELSE stt_error
    /\ SttGo(s, "ended")
    /\ UNCHANGED accumulated_text

SttStep(s) ==
    /\ \/ SttBegin(s) \/ SttAborted(s) \/ SttChunk(s) \/ SttSent(s)
       \/ SttClosed(s) \/ SttText(s) \/ SttSilence(s) \/ SttError(s)
    /\ UNCHANGED <<phase, abort_flag, sessions, pipeline_lock, slots, starts,
                   capture, tasks, abortPc, history>>

-----------------------------------------------------------------------------
(* The deadline task of run s (drive_recording_deadline): at the limit it  *)
(* calls stop() if its session is still the active one.                    *)

DeadlineReached_Never(s) == FALSE   \* the mutant: no limit
DeadlineReached(s) ==
    /\ pc[s] = "armed"
    /\ active_deadline_session_id = id[s]
    /\ Go(s, "ready")

DeadlineStale(s) ==
    /\ pc[s] = "armed"
    /\ active_deadline_session_id # id[s]
    /\ Go(s, "done")

DeadlineStep(s) ==
    /\ DeadlineReached(s) \/ DeadlineStale(s)
    /\ UNCHANGED <<phase, abort_flag, sessions, pipeline_lock, slots, speech,
                   starts, capture, stt, taken, text, abortPc, history>>

-----------------------------------------------------------------------------
(* stop(), first under pipeline_lock.                                      *)

\* The exchange Recording -> Transcribing.
StopClaim(p) ==
    /\ p \in Stoppers
    /\ pc[p] = "ready"
    /\ LockFree
    /\ Exchange("Recording", "Transcribing")
    /\ pipeline_lock' = <<"stop", p>>
    /\ Go(p, "disarm")
    /\ UNCHANGED <<active_translation_operation, abort_flag, sessions, slots, speech,
                   starts, capture, stt, taken, text, abortPc, history>>

\* The deadline is disarmed.
StopDisarm(p) ==
    /\ pc[p] = "disarm"
    /\ active_deadline_session_id' = 0
    /\ Go(p, "freeze")
    /\ UNCHANGED <<phase, abort_flag, active_stt_session_id, pipeline_lock, slots,
                   speech, starts, capture, stt, taken, text, abortPc, history>>

\* The Translate target is frozen, if the operation is still there.
StopFreeze(p) ==
    /\ pc[p] = "freeze"
    /\ IF active_translation_operation = None
         THEN UNCHANGED <<active_translation_operation, taken>>
         ELSE /\ active_translation_operation' =
                   [active_translation_operation EXCEPT !.phase = "Finalizing"]
              /\ taken' = [taken EXCEPT ![p].target =
                             active_translation_operation.run]
    /\ Go(p, "selection")
    /\ UNCHANGED <<state, abort_flag, sessions, pipeline_lock, slots, speech, starts,
                   capture, stt, text, abortPc, history>>

StopRefused(p) ==
    /\ p \in Stoppers
    /\ pc[p] = "ready"
    /\ LockFree
    /\ state # "Recording"
    /\ Go(p, "done")
    /\ UNCHANGED <<phase, abort_flag, sessions, pipeline_lock, slots, speech,
                   starts, capture, stt, taken, text, abortPc, history>>

\* The selection has been read (an await).  The stored capture is stopped, the
\* speech task's control read, the preloads taken and the lock released.
StopTake(p) ==
    /\ pc[p] = "selection"
    /\ capture' = CloseStored
    /\ audio_handle' = None
    /\ preloaded' = None
    /\ taken' = [taken EXCEPT ![p].audio = audio_handle,
                              ![p].session = stt_session,
                              ![p].preload = preloaded]
    /\ pipeline_lock' = None
    /\ Go(p, IF stt_session = None THEN "read" ELSE "wait")
    /\ UNCHANGED <<phase, abort_flag, sessions, stt_session, speech, starts,
                   stt, text, abortPc, history>>

-----------------------------------------------------------------------------
(* wait_for_stt() and the rest of stop(), with the lock free.              *)

StopNotified(p) ==
    /\ pc[p] = "wait"
    /\ doneNotify[Run(p)]
    /\ doneNotify' = [doneNotify EXCEPT ![Run(p)] = FALSE]
    /\ Go(p, "check")
    /\ UNCHANGED <<phase, abort_flag, sessions, pipeline_lock, slots, speech,
                   starts, capture, sttPc, abortNotify, taken, text, abortPc,
                   history>>

\* STT_FINALIZE_TIMEOUT_SECS without an answer: the run fails.  notify_waiters()
\* reaches the speech task only while it waits in a select!.  The mutant waits
\* for ever.
StopTimeout_Never(p) == FALSE
StopTimeout(p) ==
    /\ pc[p] = "wait"
    /\ ShouldFinalize(Run(p))
    /\ abortNotify' = [abortNotify EXCEPT ![Run(p)] =
         IF @ = "none" /\ sttPc[Run(p)] \in {"select", "closing"}
           THEN "wake" ELSE @]
    /\ timedOut' = timedOut \cup {Run(p)}
    /\ ShowIdle(p)
    /\ Go(p, "clear")
    /\ UNCHANGED <<abort_flag, sessions, pipeline_lock, slots, speech, starts,
                   capture, sttPc, doneNotify, taken, text, abortPc>>

\* A cancelled or stale run ends and leaves the state alone: after the timeout,
\* after the wait, or at the last look at abort_flag before the AI.
StopCancelled(p) ==
    /\ \/ pc[p] \in {"wait", "check"} /\ ~ShouldFinalize(Run(p))
       \/ pc[p] = "read" /\ abort_flag
    /\ Go(p, "clear")
    /\ UNCHANGED <<phase, abort_flag, sessions, pipeline_lock, slots, speech,
                   starts, capture, stt, taken, text, abortPc, history>>

\* take_matching_stt_error(): the run's own error fails the run.
StopFailed(p) ==
    /\ pc[p] = "check"
    /\ ShouldFinalize(Run(p))
    /\ stt_error = Run(p)
    /\ stt_error' = None
    /\ ShowIdle(p)
    /\ Go(p, "clear")
    /\ UNCHANGED <<abort_flag, sessions, pipeline_lock, slots,
                   accumulated_text, starts, capture, stt, taken, text,
                   abortPc, timedOut>>

StopChecked(p) ==
    /\ pc[p] = "check"
    /\ ShouldFinalize(Run(p))
    /\ stt_error # Run(p)
    /\ Go(p, "read")
    /\ UNCHANGED <<phase, abort_flag, sessions, pipeline_lock, slots, speech,
                   starts, capture, stt, taken, text, abortPc, history>>

\* The transcript.  Without speech only a Translate run with a selection goes
\* on to the AI.
StopRead(p) ==
    /\ pc[p] = "read"
    /\ ~abort_flag
    /\ accumulated_text # {} \/ taken[p].preload \in TranslateStarts
    /\ text' = [text EXCEPT ![p] = accumulated_text]
    /\ Go(p, "polish")
    /\ UNCHANGED <<phase, abort_flag, sessions, pipeline_lock, slots, speech,
                   starts, capture, stt, taken, abortPc, history>>

\* "No speech" fails the run, also when it is abort() that emptied the text
\* since the check.
StopNoSpeech(p) ==
    /\ pc[p] = "read"
    /\ accumulated_text = {}
    /\ ShowIdle(p)
    /\ Go(p, "clear")
    /\ UNCHANGED <<abort_flag, sessions, pipeline_lock, slots, speech, starts,
                   capture, stt, taken, text, abortPc, timedOut>>

\* The end of a failed or cancelled stop().  The mutant disarms a deadline that
\* may be another run's by now.
StopClear_Disarms(p) ==
    /\ pc[p] = "clear"
    /\ ClearSttSession(p)
    /\ active_deadline_session_id' = 0
    /\ Go(p, "done")
    /\ UNCHANGED <<phase, abort_flag, active_stt_session_id, pipeline_lock,
                   audio_handle, preloaded, speech, starts, capture, stt,
                   taken, text, abortPc, history>>

StopClear(p) ==
    /\ pc[p] = "clear"
    /\ ClearSttSession(p)
    /\ Go(p, "done")
    /\ UNCHANGED <<phase, abort_flag, sessions, pipeline_lock, audio_handle,
                   preloaded, speech, starts, capture, stt, taken, text,
                   abortPc, history>>

StopStep(p) ==
    \/ StopDisarm(p) \/ StopFreeze(p) \/ StopTake(p) \/ StopNotified(p)
    \/ StopTimeout(p) \/ StopCancelled(p) \/ StopFailed(p) \/ StopChecked(p)
    \/ StopRead(p) \/ StopNoSpeech(p) \/ StopClear(p)

-----------------------------------------------------------------------------
(* polish_text() and output_text(), for a stop() and for a draft alike.    *)

\* With AI polish on the text goes to the AI.
PolishStart(p) ==
    /\ pc[p] = "polish"
    /\ SetState("Polishing")
    /\ Go(p, "llm")
    /\ UNCHANGED <<abort_flag, sessions, pipeline_lock, slots, speech, starts,
                   capture, stt, taken, text, abortPc, history>>

\* The AI's answer, or the raw text on its error, goes on unless abort_flag is
\* set by then.
PolishAnswered(p) ==
    /\ pc[p] = "llm"
    /\ ~abort_flag
    /\ Go(p, "deliver")
    /\ UNCHANGED <<phase, abort_flag, sessions, pipeline_lock, slots, speech,
                   starts, capture, stt, taken, text, abortPc, history>>

\* An answer is output after another await, in which the selection is read; with
\* polish off the raw text is output at once.
OutputStart(p) ==
    /\ pc[p] \in {"polish", "deliver"}
    /\ SetState("Outputting")
    /\ Go(p, "output")
    /\ UNCHANGED <<abort_flag, sessions, pipeline_lock, slots, speech, starts,
                   capture, stt, taken, text, abortPc, history>>

\* Pasted, typed, copied, or offered in the Copy pill.
OutputDone(p) ==
    /\ pc[p] = "output"
    /\ delivered' = delivered \cup {p}
    /\ Go(p, "finish")
    /\ UNCHANGED <<phase, abort_flag, sessions, pipeline_lock, slots, speech,
                   starts, capture, stt, taken, text, abortPc, cancelled,
                   overtaken, slipped, owner, timedOut>>

\* Aborted meanwhile, a command that needs the AI and has none or got an error,
\* or an output that fails: nothing is output.
OutputSkipped(p) ==
    /\ pc[p] \in {"polish", "llm", "deliver", "output"}
    /\ Go(p, "finish")
    /\ UNCHANGED <<phase, abort_flag, sessions, pipeline_lock, slots, speech,
                   starts, capture, stt, taken, text, abortPc, history>>

\* The control is cleared and Idle set, whoever the state belongs to by now.
RunFinish(p) ==
    /\ pc[p] = "finish"
    /\ ClearSttSession(p)
    /\ ShowIdle(p)
    /\ Go(p, "done")
    /\ UNCHANGED <<abort_flag, sessions, pipeline_lock, audio_handle,
                   preloaded, speech, starts, capture, stt, taken, text,
                   abortPc, timedOut>>

TailStep(p) ==
    \/ PolishStart(p) \/ PolishAnswered(p) \/ OutputStart(p) \/ OutputDone(p)
    \/ OutputSkipped(p) \/ RunFinish(p)

-----------------------------------------------------------------------------
(* run_ask_draft() and run_hands_free_dictation(): no lock, no exchange.   *)

DraftClaim(d) ==
    /\ pc[d] = "ready"
    /\ state = "Idle"
    /\ abort_flag' = FALSE
    /\ text' = [text EXCEPT ![d] = {d}]
    /\ owner' = d
    /\ Go(d, "polish")
    /\ UNCHANGED <<phase, sessions, pipeline_lock, slots, speech, starts,
                   capture, stt, taken, abortPc, cancelled, overtaken,
                   slipped, delivered, timedOut>>

DraftRefused(d) ==
    /\ pc[d] = "ready"
    /\ state # "Idle"
    /\ Go(d, "done")
    /\ UNCHANGED <<phase, abort_flag, sessions, pipeline_lock, slots, speech,
                   starts, capture, stt, taken, text, abortPc, history>>

-----------------------------------------------------------------------------
(* abort(): any thread, no lock, one field after the other.                *)

NowOvertaken ==
    /\ overtaken' = overtaken \cup UnderWay
    /\ UNCHANGED <<cancelled, owner, delivered, timedOut>>
NowSlipped ==
    slipped' = slipped \cup
      {s \in UnderWay \cap Starts : id[s] \in {0, active_stt_session_id}}

GoAbort(a, from, to) ==
    /\ abortPc[a] = from
    /\ abortPc' = [abortPc EXCEPT ![a] = to]

AbortFlag(a) ==
    /\ GoAbort(a, "ready", "flagged")
    /\ abort_flag' = TRUE
    /\ cancelled' = cancelled \cup UnderWay
    /\ UNCHANGED <<phase, sessions, pipeline_lock, slots, speech, starts,
                   capture, stt, tasks, overtaken, slipped, owner,
                   delivered, timedOut>>

\* The session becomes stale.
AbortSession(a) ==
    /\ GoAbort(a, "flagged", "stale")
    /\ active_stt_session_id' = StaleSession
    /\ NowOvertaken
    /\ UNCHANGED <<phase, abort_flag, active_deadline_session_id, pipeline_lock, slots,
                   speech, starts, capture, stt, tasks, slipped>>

\* The deadline is disarmed.
AbortDisarm(a) ==
    /\ GoAbort(a, "stale", "disarmed")
    /\ active_deadline_session_id' = 0
    /\ NowOvertaken
    /\ UNCHANGED <<phase, abort_flag, active_stt_session_id, pipeline_lock, slots,
                   speech, starts, capture, stt, tasks, slipped>>

\* The stored capture is stopped.
AbortClose(a) ==
    /\ GoAbort(a, "disarmed", "closed")
    /\ capture' = CloseStored
    /\ audio_handle' = None
    /\ NowOvertaken
    /\ UNCHANGED <<phase, abort_flag, sessions, pipeline_lock, stt_session, preloaded,
                   speech, starts, stt, tasks, slipped>>

\* Both halves of the stored control get a notify_one().
AbortNotify(a) ==
    /\ GoAbort(a, "closed", "notified")
    /\ IF stt_session = None
         THEN UNCHANGED <<abortNotify, doneNotify>>
         ELSE /\ abortNotify' = [abortNotify EXCEPT ![stt_session] = "permit"]
              /\ doneNotify' = [doneNotify EXCEPT ![stt_session] = TRUE]
    /\ NowOvertaken
    /\ slipped' = slipped \cup
         {s \in Starts : s = stt_session /\ id[s] = active_stt_session_id}
    /\ UNCHANGED <<phase, abort_flag, sessions, pipeline_lock, slots, speech, starts,
                   capture, sttPc, tasks>>

\* What was said is dropped.
AbortClear(a) ==
    /\ GoAbort(a, "notified", "cleared")
    /\ accumulated_text' = {}
    /\ stt_error' = None
    /\ NowOvertaken
    /\ UNCHANGED <<phase, abort_flag, sessions, pipeline_lock, slots, starts, capture,
                   stt, tasks, slipped>>

AbortIdle(a) ==
    /\ GoAbort(a, "cleared", "done")
    /\ SetState("Idle")
    /\ NowOvertaken
    /\ NowSlipped
    /\ UNCHANGED <<abort_flag, sessions, pipeline_lock, slots, speech, starts, capture,
                   stt, tasks>>

\* abort() goes on once it is called.
AbortStep(a) ==
    \/ AbortSession(a) \/ AbortDisarm(a) \/ AbortClose(a) \/ AbortNotify(a)
    \/ AbortClear(a) \/ AbortIdle(a)

-----------------------------------------------------------------------------

\* Every call has returned.
AllDone ==
    /\ \A s \in Starts : startPc[s] = "done" /\ sttPc[s] \in {"off", "ended"}
    /\ \A p \in Tasks : pc[p] \in {"off", "done"}
    /\ \A a \in Aborts : abortPc[a] = "done"
    /\ UNCHANGED vars

Next ==
    \/ \E s \in Starts : StartClaim(s) \/ StartRefused(s) \/ StartStep(s)
                           \/ SttStep(s) \/ DeadlineStep(s)
    \/ \E p \in Tasks : StopClaim(p) \/ StopRefused(p) \/ StopStep(p)
                          \/ TailStep(p)
    \/ \E d \in Drafts : DraftClaim(d) \/ DraftRefused(d)
    \/ \E a \in Aborts : AbortFlag(a) \/ AbortStep(a)
    \/ AllDone

\* A call that is made goes on: start() awaits at most its 30-second startup
\* timeout, wait_for_stt() its own, the AI the client's request timeout, and
\* pipeline_lock is a first come, first served mutex.  Whether the user calls
\* start(), stop() or abort() is up to them; the speech task may hang in its
\* provider for ever.
Fairness ==
    /\ \A s \in Starts :
         /\ WF_vars(StartStep(s))
         /\ WF_vars(DeadlineStep(s))
         /\ SF_vars(StopClaim(s) \/ StopRefused(s))
    /\ \A p \in Tasks : WF_vars(StopStep(p) \/ TailStep(p))
    /\ \A a \in Aborts : WF_vars(AbortStep(a))

Spec     == Init /\ [][Next]_vars
FairSpec == Spec /\ Fairness

-----------------------------------------------------------------------------
(* Properties.                                                             *)

Phases == {"Idle", "Preparing", "Recording", "Transcribing", "Polishing",
           "Outputting"}
RunOrNone == Starts \cup {None}

SharedOK ==
    /\ state \in Phases
    /\ active_translation_operation \in Operations \cup {None}
    /\ abort_flag \in BOOLEAN
    /\ active_stt_session_id \in Nat
    /\ active_deadline_session_id \in 0 .. active_stt_session_id
    /\ pipeline_lock \in Holders \cup {None}
    /\ audio_handle \in RunOrNone
    /\ stt_session \in RunOrNone
    /\ preloaded \in RunOrNone
    /\ accumulated_text \in SUBSET Starts
    /\ stt_error \in RunOrNone

CallsOK ==
    /\ startPc \in [Starts -> {"ready", "claimed", "connecting", "store",
                               "stored", "record", "arm", "operation", "show",
                               "spawn", "done"}]
    /\ id \in [Starts -> 0 .. active_stt_session_id]
    /\ capture \in [Starts -> {"none", "open", "closed"}]
    /\ sttPc \in [Starts -> {"off", "loop", "select", "sending", "closing",
                             "ended"}]
    /\ abortNotify \in [Starts -> {"none", "permit", "wake"}]
    /\ doneNotify \in [Starts -> BOOLEAN]
    /\ pc \in [Tasks -> {"off", "armed", "ready", "disarm", "freeze", "selection",
                         "wait", "check", "read", "polish", "llm", "deliver",
                         "output", "finish", "clear", "done"}]
    /\ taken \in [Tasks -> [session : RunOrNone, audio : RunOrNone,
                            preload : RunOrNone, target : RunOrNone]]
    /\ text \in [Tasks -> SUBSET (Starts \cup Drafts)]
    /\ abortPc \in [Aborts -> {"ready", "flagged", "stale", "disarmed", "closed",
                              "notified", "cleared", "done"}]

HistoryOK ==
    /\ cancelled \in SUBSET (Tasks \cup {None})
    /\ overtaken \in SUBSET (Tasks \cup {None})
    /\ slipped \in SUBSET Starts
    /\ owner \in Tasks \cup {None}
    /\ delivered \in SUBSET Tasks
    /\ timedOut \in SUBSET Starts

\* The shape of every variable.  No session id is ahead of the counter that
\* start() and abort() draw them from, so a new recording's id is a new one.
TypeOK == SharedOK /\ CallsOK /\ HistoryOK

\* "Hold pipeline_lock for the entire setup so stop() cannot read
\* partially-initialised state": the speech task, the preloads, the capture and
\* the Translate target a stop() takes are those of one run.  Only an abort() that
\* met the run may have taken the capture or the target first.
Stopped(p) == p \in Stoppers /\ pc[p] \notin {"off", "armed", "ready", "disarm",
                                              "freeze", "selection"}
TranslateTarget(s) == IF s \in TranslateStarts THEN s ELSE None
TakenFrom(p, s) ==
    /\ taken[p].session = s
    /\ taken[p].preload = s
    /\ \/ taken[p].audio = s
       \/ taken[p].audio = None /\ s \in overtaken
    /\ \/ taken[p].target = TranslateTarget(s)
       \/ taken[p].target = None /\ s \in overtaken
StopTakesOneRun ==
    \A p \in Tasks : Stopped(p) =>
        taken[p] = Nothing \/ \E s \in Starts : TakenFrom(p, s)

\* A key, the pill and the deadline may all stop a recording: only one of them
\* gets it, so no speech is polished and pasted twice.
OneStopPerRun ==
    \A p, q \in Stoppers :
        taken[p].session = taken[q].session /\ taken[p].session # None => p = q

\* A microphone that is on can be turned off: its handle is stored, where
\* stop() and abort() find it, or is a local of a start() that has yet to look
\* at abort_flag ("it would be orphaned with nobody to stop it").
MicOwned ==
    \A s \in Starts : capture[s] = "open" =>
        audio_handle = s \/ startPc[s] \in {"connecting", "store"}

\* A run that nobody met polishes what was said in it and nothing else: not the
\* words of the run before, cancelled or not, whose speech task is late.  There
\* are four exceptions, runs that the app takes for over while their session is
\* still the active one and whose task may add its words to the next run's: a run
\* whose stop() timed out (notify_waiters() is not heard while the task sends
\* audio), one that an abort() met between the last look at abort_flag and the
\* new session id, one whose done an abort() notified that had made an older
\* session stale (its stop() then waits for no task), and one hidden by the Idle
\* that a cancelled run or a draft sets at its end.
Undisturbed(p) == Run(p) \notin cancelled \cup overtaken
SpeechStaysInItsRun ==
    \A p \in Tasks :
        Undisturbed(p) => text[p] \subseteq {Run(p)} \cup timedOut \cup slipped

\* A stop() moves the pipeline's state on for the run that has it.  Only a run
\* that an abort() met, or that the end of another call hid, may, at its end,
\* disturb the run of a later start().
OnlyCancelledRunsInterfere ==
    [][\A p \in Stoppers :
         /\ pc'[p] # pc[p] /\ state' # state
         /\ Run(p) # None
         => Run(p) = owner \/ ~Undisturbed(p)]_vars

\* A microphone that is on while the app shows Recording (and no start(), stop()
\* or abort() is half way through) has a deadline task that will stop it, aimed at
\* the session that is active.  The deadline is armed long after the handle is
\* stored, so an abort() that disarms it closes the microphone as well.
Limited(s) ==
    \/ pc[s] = "ready"
    \/ pc[s] = "armed" /\ active_deadline_session_id = id[s]
RecordingIsBounded ==
    /\ state = "Recording"
    /\ pipeline_lock = None
    /\ \A a \in Aborts : abortPc[a] \in {"ready", "done"}
    => \A s \in Starts : capture[s] = "open" => stt_session = s /\ Limited(s)

\* Not so without a microphone: an abort() between the arming of the deadline and
\* the state leaves Recording shown, with nothing that will end it.
ShownRecordingIsBounded ==
    /\ state = "Recording"
    /\ pipeline_lock = None
    /\ \A a \in Aborts : abortPc[a] \in {"ready", "done"}
    => stt_session # None /\ Limited(stt_session)

\* "Stop the current recording or processing. Nothing is pasted."  A run that
\* was cancelled before the AI answered does not go on to the output.
CancelledRunsPasteNothing ==
    [][\A p \in Stoppers :
         pc[p] = "llm" /\ pc'[p] = "deliver" => Run(p) \notin cancelled]_vars

\* "Shows recording, transcribing and polishing": the Idle that a stop() shows
\* at its end does not hide a microphone that is on.
EndOfRunHidesNoMic ==
    [][\A p \in Stoppers :
         pc[p] = "finish" /\ pc'[p] = "done" => audio_handle = None]_vars

\* Whatever happens to a run, the app is ready for the next one at some time.
AlwaysBackToIdle == (state # "Idle") ~> (state = "Idle")

\* A microphone that is turned on is turned off at some time, by a stop() or by
\* the recording limit.
MicIsReleased ==
    \A s \in Starts : (capture[s] = "open") ~> (capture[s] = "closed")

-----------------------------------------------------------------------------
(* Without abort() and drafts the pipeline does what VoiceRun promises.    *)

RunActive == IF state = "Idle" THEN None ELSE owner
Mic       == IF \E s \in Starts : capture[s] = "open"
               THEN CHOOSE s \in Starts : capture[s] = "open" ELSE None
Pastes    == [s \in Starts |->
                Cardinality({p \in delivered : taken[p].session = s})]

Promise == INSTANCE VoiceRun WITH
             Runs <- Starts, active <- RunActive, mic <- Mic, pastes <- Pastes

\* Runs come one after the other, each records only while it has the pipeline,
\* is pasted at most once, with the microphone off, and ends.
KeepsPromise == Promise!FairSpec

=============================================================================
