--------------------------- MODULE PipelineProofs ---------------------------
(***************************************************************************)
(* What holds of Pipeline for any number of starts, stops, aborts and      *)
(* drafts: the shape of its state, the hand-over of a recording from       *)
(* start() to stop() under pipeline_lock, the microphone, the recording    *)
(* limit, whose run the shown state is, and whose words the transcript     *)
(* holds.  At the end the refinement of VoiceRun.                          *)
(***************************************************************************)
EXTENDS Pipeline, FiniteSetTheorems, TLAPS

\* A draft does not take the steps of a stop(), and a stop() that waits for a
\* speech task has one to wait for.
WaitsForRun ==
    \A p \in Tasks :
        /\ pc[p] \in {"disarm", "freeze", "selection", "wait", "check"} => p \notin Drafts
        /\ pc[p] \in {"wait", "check"} => taken[p].session \in Starts

TypeInv == TypeOK /\ WaitsForRun

LEMMA TypeInit == Init => TypeInv
<1> SUFFICES ASSUME Init PROVE TypeInv
  OBVIOUS
<1>1. Nothing \in [session : RunOrNone, audio : RunOrNone,
                   preload : RunOrNone, target : RunOrNone]
  BY DEF Nothing, RunOrNone
<1>2. taken \in [Tasks -> [session : RunOrNone, audio : RunOrNone,
                           preload : RunOrNone, target : RunOrNone]]
  BY <1>1 DEF Init
<1>a. abort_flag \in BOOLEAN
  BY DEF Init
<1>b. /\ abortNotify \in [Starts -> {"none", "permit", "wake"}]
      /\ doneNotify \in [Starts -> BOOLEAN]
  BY DEF Init
<1>3. TypeOK
  BY <1>2, <1>a, <1>b DEF Init, TypeOK, SharedOK, CallsOK, HistoryOK, Phases, RunOrNone
<1>4. WaitsForRun
  BY DEF Init, WaitsForRun
<1>5. QED
  BY <1>3, <1>4 DEF TypeInv

LEMMA HoldersTyped ==
    ASSUME NEW c
    PROVE  /\ c \in Starts => <<"start", c>> \in Holders
           /\ c \in Stoppers => <<"stop", c>> \in Holders
  BY DEF Holders

LEMMA NobodyHolds ==
    /\ \A s \in Starts : None # <<"start", s>>
    /\ \A p \in Stoppers : None # <<"stop", p>>
  BY HoldersTyped, CallsAssumption

LEMMA TypeStart ==
    ASSUME TypeInv, NEW s \in Starts,
           StartClaim(s) \/ StartRefused(s) \/ StartStep(s)
    PROVE  TypeInv'
<1> USE CallsAssumption DEF TypeInv, TypeOK, SharedOK, CallsOK, HistoryOK, Phases, RunOrNone,
   Tasks, Stoppers,
    history, tasks, stt, starts, speech, slots, sessions, phase
<1>1. CASE StartClaim(s)
  <2>1. pipeline_lock' \in Holders
    BY <1>1, HoldersTyped DEF StartClaim
  <2>2. SharedOK'
    BY <1>1, <2>1 DEF StartClaim, Exchange
  <2>3. CallsOK'
    BY <1>1 DEF StartClaim, GoStart
  <2>4. HistoryOK'
    BY <1>1 DEF StartClaim
  <2>5. WaitsForRun'
    BY <1>1 DEF StartClaim, WaitsForRun
  <2> HIDE DEF SharedOK, CallsOK, HistoryOK
  <2>6. QED
    BY <2>2, <2>3, <2>4, <2>5
<1>2. CASE StartRefused(s)
  <2>1. SharedOK'
    BY <1>2 DEF StartRefused
  <2>2. CallsOK'
    BY <1>2 DEF StartRefused, GoStart
  <2>3. HistoryOK' /\ WaitsForRun'
    BY <1>2 DEF StartRefused, WaitsForRun
  <2> HIDE DEF SharedOK, CallsOK, HistoryOK
  <2>4. QED
    BY <2>1, <2>2, <2>3
<1>3. CASE StartNotReady(s)
  BY <1>3 DEF StartNotReady, GoStart, WaitsForRun
<1>4. CASE StartPrepare(s)
  BY <1>4 DEF StartPrepare, GoStart, SetState, WaitsForRun
<1>5. CASE StartFail(s)
  BY <1>5 DEF StartFail, StartGiveUp, GoStart, SetState, WaitsForRun
<1>6. CASE StartConnected(s)
  BY <1>6 DEF StartConnected, GoStart, WaitsForRun
<1>7. CASE StartStoreHandle(s)
  BY <1>7 DEF StartStoreHandle, GoStart, CloseStored, WaitsForRun
<1>8. CASE StartUndo(s)
  BY <1>8 DEF StartUndo, StartGiveUp, GoStart, SetState, CloseStored,
     WaitsForRun
<1>9. CASE StartKeep(s)
  BY <1>9 DEF StartKeep, GoStart, WaitsForRun
<1>10. CASE StartSession(s)
  BY <1>10 DEF StartSession, GoStart, WaitsForRun
<1>13. CASE StartArm(s)
  BY <1>13 DEF StartArm, GoStart, WaitsForRun
<1>14. CASE StartOperation(s)
  BY <1>14 DEF Operations, StartOperation, GoStart, WaitsForRun
<1>15. CASE StartShow(s)
  BY <1>15 DEF StartShow, SetState, GoStart, WaitsForRun
<1>11. CASE StartSpawn(s)
  BY <1>11 DEF StartSpawn, GoStart, Go, WaitsForRun
<1>12. QED
  BY <1>1, <1>2, <1>3, <1>4, <1>5, <1>6, <1>7, <1>8, <1>9, <1>10, <1>11, <1>13, <1>14, <1>15
  DEF StartStep

LEMMA TypeSpeech ==
    ASSUME TypeInv, NEW s \in Starts, SttStep(s)
    PROVE  TypeInv'
<1> USE DEF TypeInv, TypeOK, SharedOK, CallsOK, HistoryOK, RunOrNone, history,
    tasks, starts, slots, sessions, phase, speech, WaitsForRun
<1>1. UNCHANGED <<phase, abort_flag, sessions, pipeline_lock, slots, starts,
                  capture, tasks, abortPc, history>>
  BY DEF SttStep
<1>2. /\ accumulated_text' \in SUBSET Starts
      /\ stt_error' \in RunOrNone
  BY DEF SttStep, SttBegin, SttAborted, SttChunk, SttSent, SttClosed, SttText,
     SttSilence, SttError
<1>3. sttPc' \in [Starts -> {"off", "loop", "select", "sending", "closing",
                             "ended"}]
  BY DEF SttStep, SttBegin, SttAborted, SttChunk, SttSent, SttClosed, SttText,
     SttSilence, SttError, SttGo, LoopTop
<1>4. abortNotify' \in [Starts -> {"none", "permit", "wake"}]
  BY DEF SttStep, SttBegin, SttAborted, SttChunk, SttSent, SttClosed, SttText,
     SttSilence, SttError, SttGo
<1>5. doneNotify' \in [Starts -> BOOLEAN]
  BY DEF SttStep, SttBegin, SttAborted, SttChunk, SttSent, SttClosed, SttText,
     SttSilence, SttError, SttGo
<1>6. SharedOK'
  BY <1>1, <1>2
<1>7. CallsOK'
  BY <1>1, <1>3, <1>4, <1>5
<1>8. HistoryOK' /\ WaitsForRun'
  BY <1>1
<1> HIDE DEF SharedOK, CallsOK, HistoryOK, WaitsForRun
<1>9. QED
  BY <1>6, <1>7, <1>8

LEMMA TypeDeadline ==
    ASSUME TypeInv, NEW s \in Starts, DeadlineStep(s)
    PROVE  TypeInv'
<1>1. PICK l \in {"ready", "done"} : pc' = [pc EXCEPT ![s] = l]
  BY DEF DeadlineStep, DeadlineReached, DeadlineStale, Go
<1>2. /\ UNCHANGED <<phase, abort_flag, sessions, pipeline_lock, slots, speech>>
      /\ UNCHANGED <<starts, capture, stt, taken, text, abortPc>>
      /\ UNCHANGED history
  BY DEF DeadlineStep
<1>3. SharedOK'
  BY <1>2 DEF TypeInv, TypeOK, SharedOK, phase, sessions, slots, speech
<1>4. CallsOK'
  <2>1. pc' \in [Tasks -> {"off", "armed", "ready", "disarm", "freeze", "selection", "wait", "check",
                          "read", "polish", "llm", "deliver", "output",
                          "finish", "clear", "done"}]
    BY <1>1 DEF TypeInv, TypeOK, CallsOK
  <2>2. UNCHANGED <<startPc, id, active_stt_session_id, capture, sttPc,
                    abortNotify, doneNotify, taken, text, abortPc>>
    BY <1>2 DEF starts, stt, sessions
  <2> QED BY <2>1, <2>2 DEF TypeInv, TypeOK, CallsOK
<1>5. HistoryOK'
  BY <1>2 DEF TypeInv, TypeOK, HistoryOK, history
<1>6. WaitsForRun'
  BY <1>1, <1>2 DEF TypeInv, TypeOK, CallsOK, WaitsForRun
<1> QED BY <1>3, <1>4, <1>5, <1>6 DEF TypeInv, TypeOK

LEMMA ShowsIdle ==
    ASSUME HistoryOK, NEW p \in Tasks, ShowIdle(p), timedOut' \in SUBSET Starts
    PROVE  HistoryOK' /\ state' = "Idle" /\ active_translation_operation' = None
  BY DEF HistoryOK, ShowIdle, SetState, UnderWay

\* What a stop() freezes is the target alone.
LEMMA FreezesTarget ==
    ASSUME TypeInv, NEW p \in Tasks, StopFreeze(p)
    PROVE  /\ \A q \in Tasks : taken'[q].session = taken[q].session
           /\ \A q \in Tasks \ {p} : taken'[q] = taken[q]
<1>1. taken \in [Tasks -> [session : RunOrNone, audio : RunOrNone,
                           preload : RunOrNone, target : RunOrNone]]
  BY DEF TypeInv, TypeOK, CallsOK
<1> QED BY <1>1 DEF StopFreeze

LEMMA TypeStop ==
    ASSUME TypeInv, NEW p \in Tasks,
           StopClaim(p) \/ StopRefused(p) \/ StopStep(p)
    PROVE  TypeInv'
<1> USE CallsAssumption DEF TypeInv, TypeOK, SharedOK, CallsOK, HistoryOK, Phases,
    RunOrNone, Tasks, Stoppers, history, tasks, stt, starts, speech, slots,
    sessions, phase
<1>1. CASE StopClaim(p)
  <2>1. pipeline_lock' \in Holders
    BY <1>1, HoldersTyped DEF StopClaim
  <2>2. SharedOK'
    BY <1>1, <2>1 DEF StopClaim, Exchange
  <2>3. CallsOK'
    BY <1>1 DEF StopClaim, Go
  <2>4. HistoryOK' /\ WaitsForRun'
    BY <1>1 DEF StopClaim, WaitsForRun, Go
  <2> HIDE DEF SharedOK, CallsOK, HistoryOK
  <2>5. QED
    BY <2>2, <2>3, <2>4
<1>13. CASE StopDisarm(p)
  BY <1>13 DEF StopDisarm, Go, WaitsForRun
<1>14. CASE StopFreeze(p)
  <2>1. active_translation_operation' \in Operations \cup {None}
    <3>1. CASE active_translation_operation = None
      BY <1>14, <3>1 DEF StopFreeze
    <3>2. CASE active_translation_operation # None
      <4>1. active_translation_operation \in Operations
        BY <3>2
      <4>2. [active_translation_operation EXCEPT !.phase = "Finalizing"] \in Operations
        BY <4>1 DEF Operations
      <4>3. QED
        BY <1>14, <3>2, <4>2 DEF StopFreeze
    <3>3. QED
      BY <3>1, <3>2
  <2>2. SharedOK'
    BY <1>14, <2>1 DEF StopFreeze
  <2>3. taken' \in [Tasks -> [session : RunOrNone, audio : RunOrNone,
                              preload : RunOrNone, target : RunOrNone]]
    <3>1. CASE active_translation_operation = None
      BY <1>14, <3>1 DEF StopFreeze
    <3>2. CASE active_translation_operation # None
      <4>1. active_translation_operation.run \in RunOrNone
        BY <3>2 DEF Operations
      <4>2. taken[p] \in [session : RunOrNone, audio : RunOrNone,
                          preload : RunOrNone, target : RunOrNone]
        OBVIOUS
      <4>3. [taken[p] EXCEPT !.target = active_translation_operation.run] \in
              [session : RunOrNone, audio : RunOrNone,
               preload : RunOrNone, target : RunOrNone]
        BY <4>1, <4>2
      <4>4. taken' = [taken EXCEPT ![p] =
              [taken[p] EXCEPT !.target = active_translation_operation.run]]
        BY <1>14, <3>2 DEF StopFreeze
      <4>5. QED
        BY <4>3, <4>4
    <3>3. QED
      BY <3>1, <3>2
  <2>4. CallsOK'
    BY <1>14, <2>3 DEF StopFreeze, Go
  <2>5. HistoryOK' /\ WaitsForRun'
    <3>1. /\ pc[p] = "freeze" /\ pc' = [pc EXCEPT ![p] = "selection"]
          /\ \A q \in Tasks : taken'[q].session = taken[q].session
      BY <1>14, FreezesTarget DEF StopFreeze, Go
    <3>2. WaitsForRun'
      BY <3>1 DEF WaitsForRun
    <3> QED BY <1>14, <3>2 DEF StopFreeze
  <2> HIDE DEF SharedOK, CallsOK, HistoryOK
  <2>6. QED
    BY <2>2, <2>4, <2>5
<1>2. CASE StopRefused(p)
  BY <1>2 DEF StopRefused, Go, WaitsForRun
<1>3. CASE StopTake(p)
  <2>1. SharedOK'
    BY <1>3 DEF StopTake
  <2>2. taken' \in [Tasks -> [session : RunOrNone, audio : RunOrNone,
                              preload : RunOrNone, target : RunOrNone]]
    <3> DEFINE t == [taken[p] EXCEPT !.audio = audio_handle,
                                     !.session = stt_session,
                                     !.preload = preloaded]
    <3>0. taken[p] \in [session : RunOrNone, audio : RunOrNone,
                        preload : RunOrNone, target : RunOrNone]
      OBVIOUS
    <3>1. t \in [session : RunOrNone, audio : RunOrNone,
                 preload : RunOrNone, target : RunOrNone]
      BY <3>0
    <3>2. taken' = [taken EXCEPT ![p] = t]
      BY <1>3 DEF StopTake
    <3> HIDE DEF t
    <3>3. QED
      BY <3>1, <3>2
  <2>3. capture' \in [Starts -> {"none", "open", "closed"}]
    BY <1>3 DEF StopTake, CloseStored
  <2>4. CallsOK'
    BY <1>3, <2>2, <2>3 DEF StopTake, Go
  <2>5. HistoryOK'
    BY <1>3 DEF StopTake
  <2>6. WaitsForRun'
    BY <1>3 DEF StopTake, WaitsForRun, Go
  <2> HIDE DEF SharedOK, CallsOK, HistoryOK
  <2>7. QED
    BY <2>1, <2>4, <2>5, <2>6
<1>4. CASE StopNotified(p)
  BY <1>4 DEF StopNotified, Go, WaitsForRun, Run
<1>5. CASE StopTimeout(p)
  <2>1. SharedOK' /\ HistoryOK'
    <3>1. timedOut' \in SUBSET Starts
      BY <1>5 DEF StopTimeout, Run, WaitsForRun
    <3> HIDE DEF HistoryOK
    <3>2. HistoryOK' /\ state' = "Idle" /\ active_translation_operation' = None
      BY <1>5, <3>1, ShowsIdle DEF StopTimeout
    <3> QED BY <1>5, <3>2 DEF StopTimeout
  <2>2. CallsOK' /\ WaitsForRun'
    BY <1>5 DEF StopTimeout, Go, Run, WaitsForRun
  <2> HIDE DEF SharedOK, CallsOK, HistoryOK, WaitsForRun
  <2> QED BY <2>1, <2>2
<1>6. CASE StopCancelled(p)
  BY <1>6 DEF StopCancelled, Go, WaitsForRun
<1>7. CASE StopFailed(p)
  <2>1. SharedOK' /\ HistoryOK'
    <3>1. timedOut' \in SUBSET Starts
      BY <1>7 DEF StopFailed
    <3> HIDE DEF HistoryOK
    <3>2. HistoryOK' /\ state' = "Idle" /\ active_translation_operation' = None
      BY <1>7, <3>1, ShowsIdle DEF StopFailed
    <3> QED BY <1>7, <3>2 DEF StopFailed
  <2>2. CallsOK' /\ WaitsForRun'
    BY <1>7 DEF StopFailed, Go, Run, WaitsForRun
  <2> HIDE DEF SharedOK, CallsOK, HistoryOK, WaitsForRun
  <2> QED BY <2>1, <2>2
<1>8. CASE StopChecked(p)
  BY <1>8 DEF StopChecked, Go, WaitsForRun
<1>9. CASE StopRead(p)
  BY <1>9 DEF StopRead, Go, WaitsForRun
<1>10. CASE StopNoSpeech(p)
  <2>1. SharedOK' /\ HistoryOK'
    <3>1. timedOut' \in SUBSET Starts
      BY <1>10 DEF StopNoSpeech
    <3> HIDE DEF HistoryOK
    <3>2. HistoryOK' /\ state' = "Idle" /\ active_translation_operation' = None
      BY <1>10, <3>1, ShowsIdle DEF StopNoSpeech
    <3> QED BY <1>10, <3>2 DEF StopNoSpeech
  <2>2. CallsOK' /\ WaitsForRun'
    BY <1>10 DEF StopNoSpeech, Go, Run, WaitsForRun
  <2> HIDE DEF SharedOK, CallsOK, HistoryOK, WaitsForRun
  <2> QED BY <2>1, <2>2
<1>11. CASE StopClear(p)
  BY <1>11 DEF StopClear, ClearSttSession, Go, WaitsForRun
<1>12. QED
  BY <1>1, <1>2, <1>3, <1>4, <1>5, <1>6, <1>7, <1>8, <1>9, <1>10, <1>11, <1>13, <1>14
  DEF StopStep

LEMMA TypeTail ==
    ASSUME TypeInv, NEW p \in Tasks, TailStep(p)
    PROVE  TypeInv'
<1> USE CallsAssumption DEF TypeInv, TypeOK, SharedOK, CallsOK, HistoryOK, Phases,
    RunOrNone, Tasks, Stoppers, history, tasks, stt, starts, speech, slots,
    sessions, phase, Go, SetState, WaitsForRun
<1>1. CASE PolishStart(p)
  BY <1>1 DEF PolishStart
<1>2. CASE PolishAnswered(p)
  BY <1>2 DEF PolishAnswered
<1>3. CASE OutputStart(p)
  BY <1>3 DEF OutputStart
<1>4. CASE OutputDone(p)
  BY <1>4 DEF OutputDone
<1>5. CASE OutputSkipped(p)
  BY <1>5 DEF OutputSkipped
<1>6. CASE RunFinish(p)
  <2>1. SharedOK' /\ HistoryOK'
    <3>1. timedOut' \in SUBSET Starts
      BY <1>6 DEF RunFinish
    <3> HIDE DEF HistoryOK
    <3>2. HistoryOK' /\ state' = "Idle" /\ active_translation_operation' = None
      BY <1>6, <3>1, ShowsIdle DEF RunFinish
    <3> QED BY <1>6, <3>2 DEF RunFinish, ClearSttSession
  <2>2. CallsOK' /\ WaitsForRun'
    BY <1>6 DEF RunFinish, Go, Run, WaitsForRun
  <2> HIDE DEF SharedOK, CallsOK, HistoryOK, WaitsForRun
  <2> QED BY <2>1, <2>2
<1>7. QED
  BY <1>1, <1>2, <1>3, <1>4, <1>5, <1>6 DEF TailStep

LEMMA TypeDraft ==
    ASSUME TypeInv, NEW d \in Drafts, DraftClaim(d) \/ DraftRefused(d)
    PROVE  TypeInv'
<1> USE CallsAssumption DEF TypeInv, TypeOK, SharedOK, CallsOK, HistoryOK, Phases,
    RunOrNone, Tasks, Stoppers, history, tasks, stt, starts, speech, slots,
    sessions, phase, Go, WaitsForRun
<1>1. CASE DraftClaim(d)
  <2>1. SharedOK'
    BY <1>1 DEF DraftClaim
  <2>2. CallsOK'
    BY <1>1 DEF DraftClaim
  <2>3. HistoryOK' /\ WaitsForRun'
    BY <1>1 DEF DraftClaim
  <2> HIDE DEF SharedOK, CallsOK, HistoryOK, WaitsForRun
  <2>4. QED
    BY <2>1, <2>2, <2>3
<1>2. CASE DraftRefused(d)
  BY <1>2 DEF DraftRefused
<1>3. QED
  BY <1>1, <1>2

LEMMA TypeAbort ==
    ASSUME TypeInv, NEW a \in Aborts,
           AbortFlag(a) \/ AbortStep(a)
    PROVE  TypeInv'
<1> USE CallsAssumption DEF TypeInv, TypeOK, SharedOK, CallsOK, HistoryOK, Phases,
    RunOrNone, Tasks, Stoppers, history, tasks, stt, starts, speech, slots,
    sessions, phase, GoAbort, UnderWay, WaitsForRun
<1>1. CASE AbortFlag(a)
  BY <1>1 DEF AbortFlag
<1>2. CASE AbortSession(a)
  <2>1. SharedOK'
    BY <1>2 DEF AbortSession, StaleSession
  <2>2. id' \in [Starts -> 0 .. active_stt_session_id']
    BY <1>2 DEF AbortSession, StaleSession
  <2>3. CallsOK'
    BY <1>2, <2>2 DEF AbortSession
  <2>4. HistoryOK' /\ WaitsForRun'
    BY <1>2 DEF AbortSession, NowOvertaken
  <2> HIDE DEF SharedOK, CallsOK, HistoryOK, WaitsForRun
  <2>5. QED
    BY <2>1, <2>3, <2>4
<1>3. CASE AbortDisarm(a)
  BY <1>3 DEF AbortDisarm, NowOvertaken
<1>4. CASE AbortClose(a)
  <2>1. SharedOK'
    BY <1>4 DEF AbortClose
  <2>2. capture' \in [Starts -> {"none", "open", "closed"}]
    BY <1>4 DEF AbortClose, CloseStored
  <2>3. CallsOK'
    BY <1>4, <2>2 DEF AbortClose
  <2>4. HistoryOK' /\ WaitsForRun'
    BY <1>4 DEF AbortClose, NowOvertaken
  <2> HIDE DEF SharedOK, CallsOK, HistoryOK, WaitsForRun
  <2>5. QED
    BY <2>1, <2>3, <2>4
<1>5. CASE AbortNotify(a)
  <2>1. SharedOK'
    BY <1>5 DEF AbortNotify
  <2>2. abortNotify' \in [Starts -> {"none", "permit", "wake"}]
    <3>1. abortNotify' \in {abortNotify,
                            [abortNotify EXCEPT ![stt_session] = "permit"]}
      BY <1>5 DEF AbortNotify
    <3>2. QED
      BY <3>1, SMTT(20)
  <2>3. doneNotify' \in [Starts -> BOOLEAN]
    <3>1. doneNotify' \in {doneNotify, [doneNotify EXCEPT ![stt_session] = TRUE]}
      BY <1>5 DEF AbortNotify
    <3>2. [doneNotify EXCEPT ![stt_session] = TRUE] \in [Starts -> BOOLEAN]
      <4>1. doneNotify \in [Starts -> BOOLEAN]
        OBVIOUS
      <4> HIDE DEF TypeInv
      <4>2. QED
        BY <4>1
    <3>3. QED
      BY <3>1, <3>2
  <2>4. CallsOK'
    BY <1>5, <2>2, <2>3 DEF AbortNotify
  <2>5. HistoryOK' /\ WaitsForRun'
    BY <1>5 DEF AbortNotify, NowOvertaken
  <2> HIDE DEF SharedOK, CallsOK, HistoryOK, WaitsForRun
  <2>6. QED
    BY <2>1, <2>4, <2>5
<1>6. CASE AbortClear(a)
  BY <1>6 DEF AbortClear, NowOvertaken
<1>7. CASE AbortIdle(a)
  BY <1>7 DEF AbortIdle, SetState, NowOvertaken, NowSlipped
<1>8. QED
  BY <1>1, <1>2, <1>3, <1>4, <1>5, <1>6, <1>7 DEF AbortStep

LEMMA TypeStep == TypeInv /\ [Next]_vars => TypeInv'
<1> SUFFICES ASSUME TypeInv, [Next]_vars PROVE TypeInv'
  OBVIOUS
<1>1. CASE UNCHANGED vars
  BY <1>1 DEF vars, TypeInv, TypeOK, SharedOK, CallsOK, HistoryOK, WaitsForRun,
     history, tasks, stt, starts, speech, slots, sessions, phase
<1>2. CASE Next
  BY <1>1, <1>2, TypeStart, TypeSpeech, TypeDeadline, TypeStop, TypeTail,
     TypeDraft, TypeAbort
  DEF Next, AllDone
<1>3. QED
  BY <1>1, <1>2

\* Every variable keeps its shape, and session ids never run ahead of the
\* counter, whatever calls are made.
THEOREM TypeCorrect == Spec => []TypeOK
<1>1. TypeInv => TypeOK
  BY DEF TypeInv
<1>2. QED
  BY TypeInit, TypeStep, <1>1, PTL DEF Spec

-----------------------------------------------------------------------------
(* What the lock protects.  A recording is handed from start() to stop() in *)
(* three fields: stt_session, the preloads and audio_handle.               *)

Fresh(s)  == \A p \in Tasks : taken[p].session # s
Slots(s)  == preloaded = s /\ audio_handle \in {s, None}
Matches(s) ==
    \/ active_translation_operation = None
    \/ /\ s \in TranslateStarts
       /\ active_translation_operation # None
       /\ active_translation_operation.run = s

\* pipeline_lock is held by whoever is in the middle of a start() or at the
\* first half of a stop().
LockInv ==
    /\ \A s \in Starts :
         startPc[s] \notin {"ready", "done"} <=> pipeline_lock = <<"start", s>>
    /\ \A p \in Stoppers :
         pc[p] \in {"disarm", "freeze", "selection"} <=> pipeline_lock = <<"stop", p>>

\* The fields belong to the start() under way; no stop() had its run, whose
\* deadline task is not there.
StartInv ==
    \A s \in Starts :
        /\ startPc[s] \notin {"ready", "claimed", "done"} => preloaded = s
        /\ startPc[s] \notin {"ready", "claimed", "connecting", "store", "done"}
             => audio_handle \in {s, None}
        /\ startPc[s] \in {"show", "spawn"} => Matches(s)
        /\ startPc[s] # "done" => stt_session # s /\ Fresh(s) /\ pc[s] = "off"

\* Recording is shown by a start() that is about to spawn its speech task, or
\* while the fields hold a recording that no stop() had yet.
RecordingInv ==
    state = "Recording" =>
        \/ \E s \in Starts : startPc[s] = "spawn"
        \/ /\ pipeline_lock = None
           /\ \E s \in Starts : stt_session = s /\ Slots(s) /\ Matches(s) /\ Fresh(s)

\* A stop() in its first half still finds that recording there.
SelectionInv ==
    \A p \in Tasks : pc[p] \in {"disarm", "freeze", "selection"} =>
        /\ state # "Recording"
        /\ \E s \in Starts :
             /\ stt_session = s
             /\ Slots(s)
             /\ Matches(s)
             /\ Fresh(s)
             /\ pc[p] # "selection" => taken[p] = Nothing
             /\ \E t \in {TranslateTarget(s), None} :
                  taken[p] = [session |-> None, audio |-> None, preload |-> None,
                              target |-> t]

\* Before that it has taken nothing, and a draft takes nothing at all.
NothingYet ==
    \A p \in Tasks :
        p \in Drafts \/ pc[p] \in {"off", "armed", "ready"} => taken[p] = Nothing

\* What a stop() took is of one run, as far as it is there.
TakenBy(p, s) ==
    /\ taken[p].session = s
    /\ taken[p].preload = s
    /\ taken[p].audio \in {s, None}
    /\ taken[p].target \in {TranslateTarget(s), None}
OneRunInv ==
    \A p \in Tasks : Stopped(p) =>
        taken[p] = Nothing \/ \E s \in Starts : TakenBy(p, s)

HandoverInv ==
    /\ TypeInv
    /\ LockInv
    /\ StartInv
    /\ RecordingInv
    /\ SelectionInv
    /\ NothingYet
    /\ OneRunInv
    /\ OneStopPerRun

LEMMA HandoverInit == Init => HandoverInv
<1> SUFFICES ASSUME Init PROVE HandoverInv
  OBVIOUS
<1> USE CallsAssumption DEF Init, Tasks, Stoppers, Nothing
<1>1. TypeInv
  BY TypeInit
<1>2. LockInv
  BY HoldersTyped DEF LockInv
<1>3. StartInv /\ RecordingInv /\ SelectionInv /\ NothingYet
  BY DEF StartInv, RecordingInv, SelectionInv, NothingYet, Fresh
<1>4. OneRunInv /\ OneStopPerRun
  BY DEF OneRunInv, OneStopPerRun, Stopped
<1>5. QED
  BY <1>1, <1>2, <1>3, <1>4 DEF HandoverInv

\* A step that takes nothing, leaves the lock alone and at most closes the
\* stored capture or shows another state than Recording.
LEMMA HandoverElsewhere ==
    ASSUME HandoverInv, TypeInv',
           UNCHANGED <<pipeline_lock, stt_session, preloaded, startPc, pc, taken>>,
           audio_handle' \in {audio_handle, None},
           active_translation_operation' \in {active_translation_operation, None},
           state' # "Recording" \/ UNCHANGED phase
    PROVE  HandoverInv'
<1> USE DEF HandoverInv
<1>1. LockInv'
  BY DEF LockInv
<1>2. StartInv'
  BY DEF StartInv, Matches, Fresh, phase
<1>3. RecordingInv'
  BY DEF RecordingInv, Slots, Matches, Fresh, phase
<1>4. SelectionInv'
  BY DEF SelectionInv, Slots, Matches, Fresh, Nothing, phase
<1>5. NothingYet'
  BY DEF NothingYet, Nothing
<1>6. OneRunInv' /\ OneStopPerRun'
  BY DEF OneRunInv, OneStopPerRun, Stopped, TakenBy, Nothing
<1>7. QED
  BY <1>1, <1>2, <1>3, <1>4, <1>5, <1>6

\* A step of a task that neither reads nor has read the selection: it moves on,
\* may show another state than Recording, and may clear its own speech task.
LEMMA HandoverTask ==
    ASSUME HandoverInv, TypeInv', NEW p \in Tasks, NEW l,
           pc[p] \notin {"off", "disarm", "freeze", "selection"},
           l \notin {"disarm", "freeze", "selection"},
           l \in {"off", "armed", "ready"} => taken[p] = Nothing,
           pc' = [pc EXCEPT ![p] = l],
           UNCHANGED <<pipeline_lock, audio_handle, preloaded, startPc, taken>>,
           \/ UNCHANGED stt_session
           \/ stt_session = taken[p].session /\ stt_session' = None,
           active_translation_operation' \in {active_translation_operation, None},
           state' # "Recording" \/ UNCHANGED phase
    PROVE  HandoverInv'
<1> USE DEF HandoverInv
<1>0. pc \in [Tasks -> {"off", "armed", "ready", "disarm", "freeze", "selection", "wait", "check",
                        "read", "polish", "llm", "deliver", "output",
                        "finish", "clear", "done"}]
  BY DEF TypeInv, TypeOK, CallsOK
<1>1. LockInv'
  BY <1>0 DEF LockInv
<1>2. StartInv'
  BY <1>0, CallsAssumption DEF StartInv, Matches, Fresh, phase, Tasks, Stoppers
<1>3. RecordingInv'
  BY DEF RecordingInv, Slots, Matches, Fresh, phase
<1>4. SelectionInv'
  BY <1>0 DEF SelectionInv, Slots, Matches, Fresh, Nothing, phase
<1>5. NothingYet'
  BY <1>0 DEF NothingYet, Nothing
<1>6. OneRunInv'
  BY <1>0 DEF OneRunInv, NothingYet, Stopped, TakenBy, Nothing
<1>7. OneStopPerRun'
  BY DEF OneStopPerRun
<1>8. QED
  BY <1>1, <1>2, <1>3, <1>4, <1>5, <1>6, <1>7

\* A start that ends gives up the lock.
LEMMA StartLeaves ==
    ASSUME TypeInv, NEW s \in Starts, pipeline_lock = <<"start", s>>,
           \A p \in Tasks : pc[p] \notin {"disarm", "freeze", "selection"},
           \A t \in Starts \ {s} : startPc[t] \in {"ready", "done"},
           GoStart(s, "done"), pipeline_lock' = None, UNCHANGED pc
    PROVE  LockInv'
<1>1. \A t \in Starts : startPc'[t] \in {"ready", "done"}
  BY DEF TypeInv, TypeOK, CallsOK, GoStart
<1>2. \A p \in Stoppers : pc'[p] \notin {"disarm", "freeze", "selection"}
  BY DEF Tasks
<1>3. QED
  BY <1>1, <1>2, NobodyHolds DEF LockInv

\* Whoever holds the lock is alone between start() and the selection.
LEMMA StartAlone ==
    ASSUME HandoverInv, NEW s \in Starts, startPc[s] \notin {"ready", "done"}
    PROVE  /\ pipeline_lock = <<"start", s>>
           /\ \A p \in Tasks : pc[p] \notin {"disarm", "freeze", "selection"}
           /\ \A t \in Starts \ {s} : startPc[t] \in {"ready", "done"}
<1> USE CallsAssumption DEF HandoverInv, LockInv
<1>1. pipeline_lock = <<"start", s>>
  OBVIOUS
<1>2. \A p \in Tasks : pc[p] \notin {"disarm", "freeze", "selection"}
  BY <1>1 DEF TypeInv, WaitsForRun, Tasks
<1>3. \A t \in Starts \ {s} : startPc[t] \in {"ready", "done"}
  BY <1>1
<1>4. QED
  BY <1>1, <1>2, <1>3

LEMMA StopAlone ==
    ASSUME HandoverInv, NEW p \in Tasks, pc[p] \in {"disarm", "freeze", "selection"}
    PROVE  /\ pipeline_lock = <<"stop", p>>
           /\ \A q \in Tasks \ {p} : pc[q] \notin {"disarm", "freeze", "selection"}
           /\ \A s \in Starts : startPc[s] \in {"ready", "done"}
<1> USE CallsAssumption DEF HandoverInv, LockInv
<1>1. p \in Stoppers /\ pipeline_lock = <<"stop", p>>
  BY DEF TypeInv, WaitsForRun, Tasks
<1>2. \A q \in Tasks \ {p} : pc[q] \notin {"disarm", "freeze", "selection"}
  BY <1>1 DEF TypeInv, WaitsForRun, Tasks
<1>3. \A s \in Starts : startPc[s] \in {"ready", "done"}
  BY <1>1
<1>4. QED
  BY <1>1, <1>2, <1>3

LEMMA HandoverStart ==
    ASSUME HandoverInv, NEW s \in Starts,
           StartClaim(s) \/ StartRefused(s) \/ StartStep(s)
    PROVE  HandoverInv'
<1> USE CallsAssumption DEF HandoverInv, tasks, slots, phase
<1>a. TypeInv'
  BY TypeStart
<1>b. /\ startPc \in [Starts -> {"ready", "claimed", "connecting", "store",
                                 "stored", "record", "arm", "operation", "show", "spawn", "done"}]
      /\ pc \in [Tasks -> {"off", "armed", "ready", "disarm", "freeze", "selection", "wait", "check",
                           "read", "polish", "llm", "deliver", "output",
                           "finish", "clear", "done"}]
  BY DEF TypeInv, TypeOK, CallsOK
<1> USE <1>a, <1>b
<1>1. CASE StartClaim(s)
  <2>0. /\ pipeline_lock = None /\ pipeline_lock' = <<"start", s>>
        /\ startPc' = [startPc EXCEPT ![s] = "claimed"]
        /\ UNCHANGED pc
    BY <1>1 DEF StartClaim, GoStart, LockFree, Exchange
  <2>1. LockInv'
    <3>1. /\ \A t \in Starts : pipeline_lock' = <<"start", t>> <=> t = s
          /\ \A p \in Stoppers : pipeline_lock' # <<"stop", p>>
      BY <2>0
    <3>2. /\ \A t \in Starts : startPc[t] \in {"ready", "done"}
          /\ \A p \in Stoppers : pc[p] \notin {"disarm", "freeze", "selection"}
      BY <2>0, NobodyHolds DEF LockInv
    <3>3. \A t \in Starts : startPc'[t] \notin {"ready", "done"} <=> t = s
      BY <2>0, <3>2
    <3>4. \A p \in Stoppers : pc'[p] \notin {"disarm", "freeze", "selection"}
      BY <2>0, <3>2
    <3> QED BY <3>1, <3>3, <3>4 DEF LockInv
  <2>2. StartInv'
    BY <1>1 DEF StartInv, LockInv, Matches, Fresh, StartClaim, GoStart, LockFree, Exchange
  <2>3. RecordingInv'
    BY <1>1 DEF RecordingInv, LockInv, StartInv, Slots, Matches, Fresh, StartClaim, GoStart,
       LockFree, Exchange
  <2>4. SelectionInv'
    BY <1>1, NobodyHolds DEF SelectionInv, LockInv, TypeInv, WaitsForRun, Tasks, StartClaim,
       LockFree
  <2>5. NothingYet' /\ OneRunInv' /\ OneStopPerRun'
    BY <1>1 DEF NothingYet, OneRunInv, OneStopPerRun, Stopped, TakenBy,
       Nothing, StartClaim, GoStart, LockFree, Exchange
  <2>6. QED
    BY <2>1, <2>2, <2>3, <2>4, <2>5
<1>2. CASE StartRefused(s)
  <2>1. LockInv'
    BY <1>2, HoldersTyped, SMTT(20) DEF LockInv, StartRefused, GoStart, LockFree
  <2>2. StartInv'
    BY <1>2 DEF StartInv, LockInv, Matches, Fresh, StartRefused, GoStart, LockFree
  <2>3. RecordingInv'
    BY <1>2 DEF RecordingInv, LockInv, StartInv, Slots, Matches, Fresh, StartRefused, GoStart,
       LockFree
  <2>4. SelectionInv'
    BY <1>2, NobodyHolds DEF SelectionInv, LockInv, TypeInv, WaitsForRun, Tasks, StartRefused,
       LockFree
  <2>5. NothingYet' /\ OneRunInv' /\ OneStopPerRun'
    BY <1>2 DEF NothingYet, OneRunInv, OneStopPerRun, Stopped, TakenBy,
       Nothing, StartRefused, GoStart, LockFree
  <2>6. QED
    BY <2>1, <2>2, <2>3, <2>4, <2>5
<1>3. CASE StartNotReady(s)
  <2>0. /\ pipeline_lock = <<"start", s>>
        /\ \A p \in Tasks : pc[p] \notin {"disarm", "freeze", "selection"}
        /\ \A t \in Starts \ {s} : startPc[t] \in {"ready", "done"}
    BY <1>3, StartAlone DEF StartNotReady
  <2>1. LockInv'
    BY <1>3, <2>0, StartLeaves DEF StartNotReady, tasks
  <2>2. StartInv'
    BY <1>3, <2>0 DEF StartInv, LockInv, Matches, Fresh, StartNotReady, GoStart
  <2>3. RecordingInv'
    BY <1>3, <2>0 DEF RecordingInv, LockInv, StartInv, Slots, Matches, Fresh, StartNotReady, GoStart
  <2>4. SelectionInv'
    BY <1>3, <2>0 DEF SelectionInv, LockInv, Slots, Fresh, StartNotReady, GoStart
  <2>5. NothingYet' /\ OneRunInv' /\ OneStopPerRun'
    BY <1>3 DEF NothingYet, OneRunInv, OneStopPerRun, Stopped, TakenBy,
       Nothing, StartNotReady, GoStart
  <2>6. QED
    BY <2>1, <2>2, <2>3, <2>4, <2>5
<1>4. CASE StartPrepare(s)
  <2>0. /\ pipeline_lock = <<"start", s>>
        /\ \A p \in Tasks : pc[p] \notin {"disarm", "freeze", "selection"}
        /\ \A t \in Starts \ {s} : startPc[t] \in {"ready", "done"}
    BY <1>4, StartAlone DEF StartPrepare
  <2>1. LockInv'
    BY <1>4, HoldersTyped, <2>0, SMTT(20) DEF LockInv, StartPrepare, GoStart, SetState
  <2>2. StartInv'
    BY <1>4, <2>0 DEF StartInv, LockInv, Matches, Fresh, StartPrepare, GoStart, SetState
  <2>3. RecordingInv'
    BY <1>4, <2>0 DEF RecordingInv, LockInv, StartInv, Slots, Matches, Fresh, StartPrepare,
       GoStart, SetState
  <2>4. SelectionInv'
    BY <1>4, <2>0 DEF SelectionInv, LockInv, Slots, Fresh, StartPrepare, GoStart, SetState
  <2>5. NothingYet' /\ OneRunInv' /\ OneStopPerRun'
    BY <1>4 DEF NothingYet, OneRunInv, OneStopPerRun, Stopped, TakenBy,
       Nothing, StartPrepare, GoStart, SetState
  <2>6. QED
    BY <2>1, <2>2, <2>3, <2>4, <2>5
<1>5. CASE StartFail(s)
  <2>0. /\ pipeline_lock = <<"start", s>>
        /\ \A p \in Tasks : pc[p] \notin {"disarm", "freeze", "selection"}
        /\ \A t \in Starts \ {s} : startPc[t] \in {"ready", "done"}
    BY <1>5, StartAlone DEF StartFail
  <2>1. LockInv'
    BY <1>5, <2>0, StartLeaves DEF StartFail, StartGiveUp, tasks
  <2>2. StartInv'
    BY <1>5, <2>0 DEF StartInv, LockInv, Matches, Fresh, StartFail, GoStart, StartGiveUp, SetState
  <2>3. RecordingInv'
    BY <1>5, <2>0 DEF RecordingInv, LockInv, StartInv, Slots, Matches, Fresh, StartFail, GoStart,
       StartGiveUp, SetState
  <2>4. SelectionInv'
    BY <1>5, <2>0 DEF SelectionInv, LockInv, Slots, Fresh, StartFail, GoStart, StartGiveUp, SetState
  <2>5. NothingYet' /\ OneRunInv' /\ OneStopPerRun'
    BY <1>5 DEF NothingYet, OneRunInv, OneStopPerRun, Stopped, TakenBy,
       Nothing, StartFail, GoStart, StartGiveUp, SetState
  <2>6. QED
    BY <2>1, <2>2, <2>3, <2>4, <2>5
<1>6. CASE StartConnected(s)
  <2>0. /\ pipeline_lock = <<"start", s>>
        /\ \A p \in Tasks : pc[p] \notin {"disarm", "freeze", "selection"}
        /\ \A t \in Starts \ {s} : startPc[t] \in {"ready", "done"}
    BY <1>6, StartAlone DEF StartConnected
  <2>1. LockInv'
    BY <1>6, HoldersTyped, <2>0, SMTT(20) DEF LockInv, StartConnected, GoStart
  <2>2. StartInv'
    BY <1>6, <2>0 DEF StartInv, LockInv, Matches, Fresh, StartConnected, GoStart
  <2>3. RecordingInv'
    BY <1>6, <2>0 DEF RecordingInv, LockInv, StartInv, Slots, Matches, Fresh, StartConnected,
       GoStart
  <2>4. SelectionInv'
    BY <1>6, <2>0 DEF SelectionInv, LockInv, Slots, Fresh, StartConnected, GoStart
  <2>5. NothingYet' /\ OneRunInv' /\ OneStopPerRun'
    BY <1>6 DEF NothingYet, OneRunInv, OneStopPerRun, Stopped, TakenBy,
       Nothing, StartConnected, GoStart
  <2>6. QED
    BY <2>1, <2>2, <2>3, <2>4, <2>5
<1>7. CASE StartStoreHandle(s)
  <2>0. /\ pipeline_lock = <<"start", s>>
        /\ \A p \in Tasks : pc[p] \notin {"disarm", "freeze", "selection"}
        /\ \A t \in Starts \ {s} : startPc[t] \in {"ready", "done"}
    BY <1>7, StartAlone DEF StartStoreHandle
  <2>1. LockInv'
    BY <1>7, HoldersTyped, <2>0, SMTT(20) DEF LockInv, StartStoreHandle, GoStart
  <2>2. StartInv'
    BY <1>7, <2>0 DEF StartInv, LockInv, Matches, Fresh, StartStoreHandle, GoStart
  <2>3. RecordingInv'
    BY <1>7, <2>0 DEF RecordingInv, LockInv, StartInv, Slots, Matches, Fresh, StartStoreHandle,
       GoStart
  <2>4. SelectionInv'
    BY <1>7, <2>0 DEF SelectionInv, LockInv, Slots, Fresh, StartStoreHandle, GoStart
  <2>5. NothingYet' /\ OneRunInv' /\ OneStopPerRun'
    BY <1>7 DEF NothingYet, OneRunInv, OneStopPerRun, Stopped, TakenBy,
       Nothing, StartStoreHandle, GoStart
  <2>6. QED
    BY <2>1, <2>2, <2>3, <2>4, <2>5
<1>8. CASE StartUndo(s)
  <2>0. /\ pipeline_lock = <<"start", s>>
        /\ \A p \in Tasks : pc[p] \notin {"disarm", "freeze", "selection"}
        /\ \A t \in Starts \ {s} : startPc[t] \in {"ready", "done"}
    BY <1>8, StartAlone DEF StartUndo
  <2>1. LockInv'
    BY <1>8, <2>0, StartLeaves DEF StartUndo, StartGiveUp, tasks
  <2>2. StartInv'
    BY <1>8, <2>0 DEF StartInv, LockInv, Matches, Fresh, StartUndo, GoStart, StartGiveUp, SetState
  <2>3. RecordingInv'
    BY <1>8, <2>0 DEF RecordingInv, LockInv, StartInv, Slots, Matches, Fresh, StartUndo, GoStart,
       StartGiveUp, SetState
  <2>4. SelectionInv'
    BY <1>8, <2>0 DEF SelectionInv, LockInv, Slots, Fresh, StartUndo, GoStart, StartGiveUp, SetState
  <2>5. NothingYet' /\ OneRunInv' /\ OneStopPerRun'
    BY <1>8 DEF NothingYet, OneRunInv, OneStopPerRun, Stopped, TakenBy,
       Nothing, StartUndo, GoStart, StartGiveUp, SetState
  <2>6. QED
    BY <2>1, <2>2, <2>3, <2>4, <2>5
<1>9. CASE StartKeep(s)
  <2>0. /\ pipeline_lock = <<"start", s>>
        /\ \A p \in Tasks : pc[p] \notin {"disarm", "freeze", "selection"}
        /\ \A t \in Starts \ {s} : startPc[t] \in {"ready", "done"}
    BY <1>9, StartAlone DEF StartKeep
  <2>1. LockInv'
    BY <1>9, HoldersTyped, <2>0, SMTT(20) DEF LockInv, StartKeep, GoStart
  <2>2. StartInv'
    BY <1>9, <2>0 DEF StartInv, LockInv, Matches, Fresh, StartKeep, GoStart
  <2>3. RecordingInv'
    BY <1>9, <2>0 DEF RecordingInv, LockInv, StartInv, Slots, Matches, Fresh, StartKeep, GoStart
  <2>4. SelectionInv'
    BY <1>9, <2>0 DEF SelectionInv, LockInv, Slots, Fresh, StartKeep, GoStart
  <2>5. NothingYet' /\ OneRunInv' /\ OneStopPerRun'
    BY <1>9 DEF NothingYet, OneRunInv, OneStopPerRun, Stopped, TakenBy,
       Nothing, StartKeep, GoStart
  <2>6. QED
    BY <2>1, <2>2, <2>3, <2>4, <2>5
<1>10. CASE StartSession(s)
  <2>0. /\ pipeline_lock = <<"start", s>>
        /\ \A p \in Tasks : pc[p] \notin {"disarm", "freeze", "selection"}
        /\ \A t \in Starts \ {s} : startPc[t] \in {"ready", "done"}
    BY <1>10, StartAlone DEF StartSession
  <2>1. LockInv'
    BY <1>10, HoldersTyped, <2>0, SMTT(20) DEF LockInv, StartSession, GoStart
  <2>2. StartInv'
    BY <1>10, <2>0 DEF StartInv, LockInv, Matches, Fresh, StartSession, GoStart
  <2>3. RecordingInv'
    BY <1>10, <2>0 DEF RecordingInv, LockInv, StartInv, Slots, Matches, Fresh, StartSession,
       GoStart
  <2>4. SelectionInv'
    BY <1>10, <2>0 DEF SelectionInv, LockInv, Slots, Fresh, StartSession, GoStart
  <2>5. NothingYet' /\ OneRunInv' /\ OneStopPerRun'
    BY <1>10 DEF NothingYet, OneRunInv, OneStopPerRun, Stopped, TakenBy,
       Nothing, StartSession, GoStart
  <2>6. QED
    BY <2>1, <2>2, <2>3, <2>4, <2>5
<1>13. CASE StartArm(s)
  <2>0. /\ pipeline_lock = <<"start", s>>
        /\ \A p \in Tasks : pc[p] \notin {"disarm", "freeze", "selection"}
        /\ \A t \in Starts \ {s} : startPc[t] \in {"ready", "done"}
    BY <1>13, StartAlone DEF StartArm
  <2>1. LockInv'
    BY <1>13, HoldersTyped, <2>0, SMTT(20) DEF LockInv, StartArm, GoStart
  <2>2. StartInv'
    BY <1>13, <2>0 DEF StartInv, LockInv, Matches, Fresh, StartArm, GoStart
  <2>3. RecordingInv'
    BY <1>13, <2>0 DEF RecordingInv, LockInv, StartInv, Slots, Matches, Fresh, StartArm,
       GoStart
  <2>4. SelectionInv'
    BY <1>13, <2>0 DEF SelectionInv, LockInv, Slots, Fresh, StartArm, GoStart
  <2>5. NothingYet' /\ OneRunInv' /\ OneStopPerRun'
    BY <1>13 DEF NothingYet, OneRunInv, OneStopPerRun, Stopped, TakenBy,
       Nothing, StartArm, GoStart
  <2>6. QED
    BY <2>1, <2>2, <2>3, <2>4, <2>5
<1>14. CASE StartOperation(s)
  <2>0. /\ pipeline_lock = <<"start", s>>
        /\ \A p \in Tasks : pc[p] \notin {"disarm", "freeze", "selection"}
        /\ \A t \in Starts \ {s} : startPc[t] \in {"ready", "done"}
    BY <1>14, StartAlone DEF StartOperation
  <2>1. LockInv'
    BY <1>14, HoldersTyped, <2>0, SMTT(20) DEF LockInv, StartOperation, GoStart, Operations
  <2>2. StartInv'
    BY <1>14, <2>0 DEF StartInv, LockInv, Matches, Fresh, StartOperation, GoStart, Operations
  <2>3. RecordingInv'
    BY <1>14, <2>0 DEF RecordingInv, LockInv, StartInv, Slots, Matches, Fresh, StartOperation,
       GoStart, Operations
  <2>4. SelectionInv'
    BY <1>14, <2>0 DEF SelectionInv, LockInv, Slots, Fresh, StartOperation, GoStart, Operations
  <2>5. NothingYet' /\ OneRunInv' /\ OneStopPerRun'
    BY <1>14 DEF NothingYet, OneRunInv, OneStopPerRun, Stopped, TakenBy,
       Nothing, StartOperation, GoStart, Operations
  <2>6. QED
    BY <2>1, <2>2, <2>3, <2>4, <2>5
<1>15. CASE StartShow(s)
  <2>0. /\ pipeline_lock = <<"start", s>>
        /\ \A p \in Tasks : pc[p] \notin {"disarm", "freeze", "selection"}
        /\ \A t \in Starts \ {s} : startPc[t] \in {"ready", "done"}
    BY <1>15, StartAlone DEF StartShow
  <2>1. LockInv'
    BY <1>15, HoldersTyped, <2>0, SMTT(20) DEF LockInv, StartShow, GoStart, SetState
  <2>2. StartInv'
    BY <1>15, <2>0 DEF StartInv, LockInv, Matches, Fresh, StartShow, GoStart, SetState
  <2>3. RecordingInv'
    BY <1>15, <2>0 DEF RecordingInv, LockInv, StartInv, Slots, Matches, Fresh, StartShow,
       GoStart, SetState
  <2>4. SelectionInv'
    BY <1>15, <2>0 DEF SelectionInv, LockInv, Slots, Fresh, StartShow, GoStart, SetState
  <2>5. NothingYet' /\ OneRunInv' /\ OneStopPerRun'
    BY <1>15 DEF NothingYet, OneRunInv, OneStopPerRun, Stopped, TakenBy,
       Nothing, StartShow, GoStart, SetState
  <2>6. QED
    BY <2>1, <2>2, <2>3, <2>4, <2>5
<1>11. CASE StartSpawn(s)
  <2>0. /\ pipeline_lock = <<"start", s>>
        /\ \A p \in Tasks : pc[p] \notin {"disarm", "freeze", "selection"}
        /\ \A t \in Starts \ {s} : startPc[t] \in {"ready", "done"}
    BY <1>11, StartAlone DEF StartSpawn
  <2>a. pc' = [pc EXCEPT ![s] = "armed"] /\ s \in Tasks /\ pipeline_lock' = None
    BY <1>11 DEF StartSpawn, Go, Tasks, Stoppers
  <2>b. startPc' = [startPc EXCEPT ![s] = "done"]
    BY <1>11 DEF StartSpawn, GoStart
  <2>1. LockInv'
    <3>1. /\ \A t \in Starts : pipeline_lock' # <<"start", t>>
          /\ \A p \in Stoppers : pipeline_lock' # <<"stop", p>>
      BY <2>a, NobodyHolds
    <3>2. \A t \in Starts : startPc'[t] \in {"ready", "done"}
      BY <2>0, <2>b
    <3>3. \A p \in Stoppers : pc'[p] \notin {"disarm", "freeze", "selection"}
      BY <2>0, <2>a DEF Tasks
    <3> QED BY <3>1, <3>2, <3>3 DEF LockInv
  <2>2. StartInv'
    BY <1>11, <2>0 DEF StartInv, LockInv, Matches, Fresh, StartSpawn, GoStart, Go, Tasks, Stoppers
  <2>3. RecordingInv'
    BY <1>11, <2>0 DEF RecordingInv, LockInv, StartInv, Slots, Matches, Fresh, StartSpawn,
       GoStart, Go, Tasks, Stoppers
  <2>4. SelectionInv'
    BY <1>11, <2>0 DEF SelectionInv, LockInv, Slots, Fresh, StartSpawn, GoStart, Go, Tasks, Stoppers
  <2>5. NothingYet' /\ OneRunInv' /\ OneStopPerRun'
    BY <1>11, <2>a DEF StartInv, NothingYet, OneRunInv, OneStopPerRun, Stopped, TakenBy,
       Nothing, StartSpawn, GoStart, Go, Tasks, Stoppers
  <2>6. QED
    BY <2>1, <2>2, <2>3, <2>4, <2>5
<1>12. QED
  BY <1>1, <1>2, <1>3, <1>4, <1>5, <1>6, <1>7, <1>8, <1>9, <1>10, <1>11, <1>13, <1>14, <1>15
  DEF StartStep

LEMMA HandoverStopClaim ==
    ASSUME HandoverInv, NEW p \in Tasks, StopClaim(p)
    PROVE  HandoverInv'
<1> USE CallsAssumption DEF HandoverInv, slots
<1>1. TypeInv'
  BY TypeStop
<1>2. /\ pc' = [pc EXCEPT ![p] = "disarm"]
      /\ pc \in [Tasks -> {"off", "armed", "ready", "disarm", "freeze", "selection", "wait", "check",
                           "read", "polish", "llm", "deliver", "output",
                           "finish", "clear", "done"}]
  BY DEF StopClaim, Go, TypeInv, TypeOK, CallsOK
<1>3. /\ p \in Stoppers /\ pc[p] = "ready" /\ taken[p] = Nothing
      /\ pipeline_lock = None /\ pipeline_lock' = <<"stop", p>>
      /\ state = "Recording" /\ state' = "Transcribing"
      /\ UNCHANGED <<audio_handle, stt_session, preloaded, startPc, taken,
                     active_translation_operation>>
  BY DEF StopClaim, LockFree, Exchange, NothingYet, starts
\* Nobody else holds the lock.
<1>4. /\ \A q \in Tasks : pc[q] \notin {"disarm", "freeze", "selection"}
      /\ \A s \in Starts : startPc[s] \in {"ready", "done"}
  BY <1>3, NobodyHolds DEF LockInv, TypeInv, WaitsForRun, Tasks
<1>5. PICK s \in Starts : stt_session = s /\ Slots(s) /\ Matches(s) /\ Fresh(s)
  BY <1>3, <1>4 DEF RecordingInv
<1>6. LockInv'
  BY <1>2, <1>3, <1>4 DEF LockInv, Tasks
<1>7. StartInv'
  BY <1>2, <1>3, <1>4 DEF StartInv, Fresh, Tasks, Stoppers
<1>8. RecordingInv'
  BY <1>3 DEF RecordingInv
<1>9. SelectionInv'
  BY <1>2, <1>3, <1>4, <1>5 DEF SelectionInv, Slots, Matches, Fresh, Nothing
<1>10. NothingYet'
  BY <1>2, <1>3 DEF NothingYet, Nothing, Tasks
<1>11. OneRunInv'
  BY <1>2, <1>3 DEF OneRunInv, Stopped, TakenBy, Nothing, Tasks
<1>12. OneStopPerRun'
  BY <1>3 DEF OneStopPerRun
<1>13. QED
  BY <1>1, <1>6, <1>7, <1>8, <1>9, <1>10, <1>11, <1>12

\* The two steps of a stop() from there to the selection.
LEMMA HandoverStopFreeze ==
    ASSUME HandoverInv, NEW p \in Tasks, StopDisarm(p) \/ StopFreeze(p)
    PROVE  HandoverInv'
<1> USE CallsAssumption DEF HandoverInv
<1>1. TypeInv'
  BY TypeStop DEF StopStep
<1>2. /\ pc[p] \in {"disarm", "freeze"}
      /\ pc' = [pc EXCEPT ![p] = IF pc[p] = "disarm" THEN "freeze" ELSE "selection"]
      /\ pc \in [Tasks -> {"off", "armed", "ready", "disarm", "freeze", "selection", "wait", "check",
                           "read", "polish", "llm", "deliver", "output",
                           "finish", "clear", "done"}]
  BY DEF StopDisarm, StopFreeze, Go, TypeInv, TypeOK, CallsOK
<1>3. UNCHANGED <<state, pipeline_lock, slots, startPc>>
  BY DEF StopDisarm, StopFreeze, starts, phase
<1>4. /\ p \in Stoppers /\ pipeline_lock = <<"stop", p>>
      /\ \A q \in Tasks \ {p} : pc[q] \notin {"disarm", "freeze", "selection"}
      /\ \A t \in Starts : startPc[t] \in {"ready", "done"}
  BY <1>2, StopAlone DEF TypeInv, WaitsForRun, Tasks
<1>5. PICK s \in Starts : /\ stt_session = s /\ Slots(s) /\ Matches(s) /\ Fresh(s)
                          /\ taken[p] = Nothing
  BY <1>2 DEF SelectionInv
<1>6. PICK t \in {TranslateTarget(s), None} :
        /\ taken' = [taken EXCEPT ![p] = [session |-> None, audio |-> None,
                                          preload |-> None, target |-> t]]
        /\ pc[p] = "disarm" => t = None
        /\ Matches(s)'
  <2>0. taken \in [Tasks -> [session : RunOrNone, audio : RunOrNone,
                             preload : RunOrNone, target : RunOrNone]]
    BY DEF TypeInv, TypeOK, CallsOK
  <2>1. CASE StopDisarm(p) \/ active_translation_operation = None
    <3>1. /\ UNCHANGED <<taken, active_translation_operation>>
          /\ None \in {TranslateTarget(s), None}
      BY <2>1 DEF StopDisarm, StopFreeze, phase
    <3> QED BY <1>5, <2>0, <3>1 DEF Nothing, Matches
  <2>2. CASE StopFreeze(p) /\ active_translation_operation # None
    <3>1. /\ s \in TranslateStarts /\ active_translation_operation.run = s
          /\ TranslateTarget(s) = s
      BY <1>5, <2>2 DEF Matches, TranslateTarget
    <3>2. /\ active_translation_operation' =
               [active_translation_operation EXCEPT !.phase = "Finalizing"]
          /\ taken' = [taken EXCEPT ![p].target = s]
          /\ pc[p] = "freeze"
      BY <2>2, <3>1 DEF StopFreeze
    <3>3. active_translation_operation \in Operations
      BY <2>2 DEF TypeInv, TypeOK, SharedOK
    <3>4. Matches(s)'
      BY <3>1, <3>2, <3>3 DEF Matches, Operations
    <3>5. taken' = [taken EXCEPT ![p] = [taken[p] EXCEPT !.target = s]]
      BY <3>2
    <3>6. [Nothing EXCEPT !.target = s] =
            [session |-> None, audio |-> None, preload |-> None, target |-> s]
      BY DEF Nothing
    <3>7. taken' = [taken EXCEPT ![p] = [session |-> None, audio |-> None,
                                         preload |-> None, target |-> s]]
      BY <1>5, <3>5, <3>6
    <3> QED BY <3>1, <3>2, <3>4, <3>7
  <2> QED BY <2>1, <2>2
<1>7. taken \in [Tasks -> [session : RunOrNone, audio : RunOrNone,
                           preload : RunOrNone, target : RunOrNone]]
  BY DEF TypeInv, TypeOK, CallsOK
<1>8. \A q \in Tasks : taken'[q].session = taken[q].session
  BY <1>5, <1>6, <1>7 DEF Nothing
<1>9. \A u \in Starts : Fresh(u)' <=> Fresh(u)
  BY <1>8 DEF Fresh
<1>10. LockInv'
  BY <1>2, <1>3, <1>4 DEF LockInv, Tasks
<1>11. StartInv'
  BY <1>2, <1>3, <1>4, <1>9 DEF StartInv, slots, Tasks, Stoppers
<1>12. state # "Recording"
  BY <1>2 DEF SelectionInv
<1>13. RecordingInv'
  BY <1>3, <1>12 DEF RecordingInv
<1>14. SelectionInv'
  <2>1. \A q \in Tasks \ {p} : pc'[q] \notin {"disarm", "freeze", "selection"}
    BY <1>2, <1>4
  <2>2. /\ taken'[p] = [session |-> None, audio |-> None, preload |-> None, target |-> t]
        /\ pc'[p] # "selection" => taken'[p] = Nothing
    BY <1>2, <1>6, <1>7 DEF Nothing
  <2>3. stt_session' = s /\ Slots(s)' /\ Matches(s)' /\ Fresh(s)'
    BY <1>3, <1>5, <1>6, <1>9 DEF slots, Slots
  <2>4. state' # "Recording" /\ t \in {TranslateTarget(s), None}
    BY <1>3, <1>12, <1>6
  <2> HIDE DEF HandoverInv
  <2> QED BY <2>1, <2>2, <2>3, <2>4 DEF SelectionInv
<1>15. NothingYet'
  BY <1>2, <1>4, <1>6, <1>7 DEF NothingYet, Nothing, Tasks
<1>16. OneRunInv'
  BY <1>2, <1>6, <1>7 DEF OneRunInv, Stopped, TakenBy, Nothing
<1>17. OneStopPerRun'
  BY <1>8, CallsAssumption DEF OneStopPerRun, Tasks
<1>18. QED
  BY <1>1, <1>10, <1>11, <1>13, <1>14, <1>15, <1>16, <1>17

LEMMA HandoverStopTake ==
    ASSUME HandoverInv, NEW p \in Tasks, StopTake(p)
    PROVE  HandoverInv'
<1> USE CallsAssumption DEF HandoverInv
<1>1. TypeInv'
  BY TypeStop DEF StopStep
<1>2. PICK l \in {"read", "wait"} : pc' = [pc EXCEPT ![p] = l]
  BY DEF StopTake, Go
<1>3. /\ pc \in [Tasks -> {"off", "armed", "ready", "disarm", "freeze", "selection", "wait", "check",
                           "read", "polish", "llm", "deliver", "output",
                           "finish", "clear", "done"}]
      /\ taken \in [Tasks -> [session : RunOrNone, audio : RunOrNone,
                              preload : RunOrNone, target : RunOrNone]]
  BY DEF TypeInv, TypeOK, CallsOK
<1>4. /\ pc[p] = "selection" /\ pipeline_lock' = None
      /\ UNCHANGED <<phase, stt_session, startPc>>
  BY DEF StopTake, starts
<1>5. /\ p \in Stoppers /\ pipeline_lock = <<"stop", p>>
      /\ \A q \in Tasks \ {p} : pc[q] \notin {"disarm", "freeze", "selection"}
      /\ \A t \in Starts : startPc[t] \in {"ready", "done"}
  BY <1>4, StopAlone DEF TypeInv, WaitsForRun, Tasks
<1>0. PICK s \in Starts :
        /\ stt_session = s
        /\ Slots(s)
        /\ Fresh(s)
        /\ \E u \in {TranslateTarget(s), None} :
             taken[p] = [session |-> None, audio |-> None, preload |-> None, target |-> u]
  BY <1>4 DEF SelectionInv
<1>6. PICK u \in {TranslateTarget(s), None} :
        taken[p] = [session |-> None, audio |-> None, preload |-> None, target |-> u]
  BY <1>0
<1>7. taken' = [taken EXCEPT ![p] = [session |-> s, audio |-> audio_handle,
                                     preload |-> s, target |-> u]]
  <2>1. taken' = [taken EXCEPT ![p] = [[[taken[p]
                    EXCEPT !.audio = audio_handle]
                    EXCEPT !.session = stt_session]
                    EXCEPT !.preload = preloaded]]
    BY <1>3 DEF StopTake
  <2>2. [[[taken[p] EXCEPT !.audio = audio_handle]
                    EXCEPT !.session = stt_session]
                    EXCEPT !.preload = preloaded] =
          [session |-> s, audio |-> audio_handle, preload |-> s,
           target |-> u]
    <3>1. [taken[p] EXCEPT !.audio = audio_handle] =
            [session |-> None, audio |-> audio_handle, preload |-> None,
             target |-> u]
      BY <1>0, <1>6
    <3>2. [[session |-> None, audio |-> audio_handle, preload |-> None,
            target |-> u] EXCEPT !.session = stt_session] =
            [session |-> s, audio |-> audio_handle, preload |-> None,
             target |-> u]
      BY <1>0, <1>6
    <3>3. [[session |-> s, audio |-> audio_handle, preload |-> None,
            target |-> u] EXCEPT !.preload = preloaded] =
            [session |-> s, audio |-> audio_handle, preload |-> s,
             target |-> u]
      BY <1>0, <1>6 DEF Slots
    <3>4. QED
      BY <3>1, <3>2, <3>3
  <2>3. QED
    BY <2>1, <2>2
<1>8. startPc[s] = "done"
  BY <1>0, <1>5 DEF StartInv
<1>9. LockInv'
  <2>1. /\ \A t \in Starts : pipeline_lock' # <<"start", t>>
        /\ \A q \in Stoppers : pipeline_lock' # <<"stop", q>>
    BY <1>4, NobodyHolds
  <2>2. \A t \in Starts : startPc'[t] \in {"ready", "done"}
    BY <1>4, <1>5
  <2>3. \A q \in Stoppers : pc'[q] \notin {"disarm", "freeze", "selection"}
    BY <1>2, <1>3, <1>5 DEF Tasks
  <2> QED BY <2>1, <2>2, <2>3 DEF LockInv
<1>10. \A t \in Starts \ {s} : Fresh(t) => Fresh(t)'
  BY <1>3, <1>7 DEF Fresh
<1>11. StartInv'
  BY <1>2, <1>3, <1>4, <1>5, <1>8, <1>10 DEF StartInv, Tasks, Stoppers
<1>12. state # "Recording"
  BY <1>4 DEF SelectionInv
<1>13. RecordingInv'
  BY <1>4, <1>12 DEF RecordingInv, phase
<1>14. SelectionInv'
  BY <1>2, <1>3, <1>4, <1>5 DEF SelectionInv
<1>15. NothingYet'
  BY <1>2, <1>3, <1>5, <1>7 DEF NothingYet, Nothing, Tasks
<1>16. OneRunInv'
  BY <1>0, <1>2, <1>3, <1>5, <1>7
  DEF OneRunInv, Stopped, TakenBy, Nothing, TranslateTarget, Slots
<1>17. OneStopPerRun'
  BY <1>0, <1>3, <1>7 DEF OneStopPerRun, Fresh, Tasks
<1>18. QED
  BY <1>1, <1>9, <1>11, <1>13, <1>14, <1>15, <1>16, <1>17

LEMMA HandoverStep == HandoverInv /\ [Next]_vars => HandoverInv'
<1> SUFFICES ASSUME HandoverInv, [Next]_vars PROVE HandoverInv'
  OBVIOUS
<1>1. TypeInv'
  BY TypeStep DEF HandoverInv
<1>2. CASE UNCHANGED vars
  BY <1>1, <1>2, HandoverElsewhere DEF vars, slots, starts, tasks, phase
<1>3. ASSUME NEW s \in Starts, StartClaim(s) \/ StartRefused(s) \/ StartStep(s)
      PROVE  HandoverInv'
  BY <1>3, HandoverStart
<1>4. ASSUME NEW s \in Starts, SttStep(s)
      PROVE  HandoverInv'
  BY <1>1, <1>4, HandoverElsewhere DEF SttStep, slots, starts, tasks, phase
<1>5. ASSUME NEW s \in Starts, DeadlineStep(s)
      PROVE  HandoverInv'
  <2>1. PICK l \in {"ready", "done"} : pc' = [pc EXCEPT ![s] = l]
    BY <1>5 DEF DeadlineStep, DeadlineReached, DeadlineStale, Go
  <2>2. pc[s] = "armed" /\ s \in Tasks /\ taken[s] = Nothing
    BY <1>5 DEF DeadlineStep, DeadlineReached, DeadlineStale, Tasks, Stoppers,
       HandoverInv, NothingYet
  <2>3. UNCHANGED <<phase, pipeline_lock, slots, startPc, taken>>
    BY <1>5 DEF DeadlineStep, starts
  <2>4. QED
    BY <1>1, <2>1, <2>2, <2>3, HandoverTask DEF slots, phase
<1>6. ASSUME NEW p \in Tasks, StopClaim(p) \/ StopRefused(p) \/ StopStep(p)
      PROVE  HandoverInv'
  <2>1. CASE StopClaim(p)
    BY <2>1, HandoverStopClaim
  <2>2. CASE StopTake(p)
    BY <2>2, HandoverStopTake
  <2>6. CASE StopDisarm(p) \/ StopFreeze(p)
    BY <2>6, HandoverStopFreeze
  <2>3. CASE StopRefused(p)
    <3>1. UNCHANGED <<phase, pipeline_lock, slots, startPc, taken>>
      BY <2>3 DEF StopRefused, starts
    <3>2. pc[p] = "ready" /\ pc' = [pc EXCEPT ![p] = "done"]
      BY <2>3 DEF StopRefused, Go
    <3>3. QED
      BY <1>1, <3>1, <3>2, HandoverTask DEF slots, phase
  <2>4. CASE \/ StopNotified(p) \/ StopTimeout(p) \/ StopCancelled(p)
             \/ StopFailed(p) \/ StopChecked(p) \/ StopRead(p) \/ StopNoSpeech(p)
             \/ StopClear(p)
    <3> USE DEF StopNotified, StopTimeout, StopCancelled, StopFailed,
        StopChecked, StopRead, StopNoSpeech, StopClear
    <3>1. PICK l \in {"check", "clear", "read", "polish", "done"} :
            pc' = [pc EXCEPT ![p] = l]
      BY <2>4 DEF Go
    <3>2. pc[p] \in {"wait", "check", "read", "clear"}
      BY <2>4
    <3>3. UNCHANGED <<pipeline_lock, audio_handle, preloaded, startPc, taken>>
      BY <2>4 DEF slots, starts
    <3>4. \/ UNCHANGED stt_session
          \/ stt_session = taken[p].session /\ stt_session' = None
      BY <2>4 DEF slots, ClearSttSession
    <3>5. state' # "Recording" \/ UNCHANGED phase
      BY <2>4 DEF ShowIdle, SetState
    <3>7. active_translation_operation' \in {active_translation_operation, None}
      BY <2>4 DEF ShowIdle, SetState, phase
    <3> HIDE DEF StopNotified, StopTimeout, StopCancelled, StopFailed,
        StopChecked, StopRead, StopNoSpeech, StopClear
    <3>6. QED
      BY <1>1, <3>1, <3>2, <3>3, <3>4, <3>5, <3>7, HandoverTask
  <2>5. QED
    BY <1>6, <2>1, <2>2, <2>3, <2>4, <2>6 DEF StopStep
<1>7. ASSUME NEW p \in Tasks, TailStep(p)
      PROVE  HandoverInv'
  <2> USE DEF TailStep, PolishStart, PolishAnswered, OutputStart, OutputDone,
      OutputSkipped, RunFinish
  <2>1. PICK l \in {"llm", "deliver", "output", "finish", "done"} :
          pc' = [pc EXCEPT ![p] = l]
    BY <1>7 DEF Go
  <2>2. pc[p] \in {"polish", "llm", "deliver", "output", "finish"}
    BY <1>7
  <2>3. UNCHANGED <<pipeline_lock, audio_handle, preloaded, startPc, taken>>
    BY <1>7 DEF slots, starts
  <2>4. \/ UNCHANGED stt_session
        \/ stt_session = taken[p].session /\ stt_session' = None
    BY <1>7 DEF slots, ClearSttSession
  <2>5. state' # "Recording" \/ UNCHANGED phase
    BY <1>7 DEF ShowIdle, SetState
  <2>7. active_translation_operation' \in {active_translation_operation, None}
    BY <1>7 DEF ShowIdle, SetState, phase
  <2> HIDE DEF TailStep
  <2>6. QED
    BY <1>1, <2>1, <2>2, <2>3, <2>4, <2>5, <2>7, HandoverTask
<1>8. ASSUME NEW d \in Drafts, DraftClaim(d) \/ DraftRefused(d)
      PROVE  HandoverInv'
  <2>1. PICK l \in {"polish", "done"} : pc' = [pc EXCEPT ![d] = l]
    BY <1>8 DEF DraftClaim, DraftRefused, Go
  <2>2. pc[d] = "ready" /\ d \in Tasks
    BY <1>8 DEF DraftClaim, DraftRefused, Tasks
  <2>3. UNCHANGED <<phase, pipeline_lock, slots, startPc, taken>>
    BY <1>8 DEF DraftClaim, DraftRefused, starts
  <2>4. QED
    BY <1>1, <2>1, <2>2, <2>3, HandoverTask DEF slots, phase
<1>9. ASSUME NEW a \in Aborts, AbortFlag(a) \/ AbortStep(a)
      PROVE  HandoverInv'
  <2> USE DEF AbortFlag, AbortStep, AbortSession, AbortDisarm, AbortClose, AbortNotify, AbortClear,
      AbortIdle
  <2>1. UNCHANGED <<pipeline_lock, stt_session, preloaded, startPc, pc, taken>>
    BY <1>9 DEF slots, starts, tasks
  <2>2. audio_handle' \in {audio_handle, None}
    BY <1>9 DEF slots
  <2>3. state' # "Recording" \/ UNCHANGED phase
    BY <1>9 DEF SetState
  <2>5. active_translation_operation' \in {active_translation_operation, None}
    BY <1>9 DEF SetState, phase
  <2> HIDE DEF AbortFlag, AbortStep, AbortSession, AbortDisarm, AbortClose, AbortNotify, AbortClear,
      AbortIdle
  <2>4. QED
    BY <1>1, <2>1, <2>2, <2>3, <2>5, HandoverElsewhere
<1>10. CASE AllDone
  BY <1>2, <1>10 DEF AllDone
<1>11. QED
  BY <1>2, <1>3, <1>4, <1>5, <1>6, <1>7, <1>8, <1>9, <1>10 DEF Next

\* No two calls of stop() ever get the same recording.
THEOREM OneStopPerRunAlways == Spec => []OneStopPerRun
<1>1. HandoverInv => OneStopPerRun
  BY DEF HandoverInv
<1>2. QED
  BY HandoverInit, HandoverStep, <1>1, PTL DEF Spec

-----------------------------------------------------------------------------
(* The microphone.                                                         *)

MicInv == TypeInv /\ MicOwned

LEMMA MicStart ==
    ASSUME MicInv, NEW s \in Starts,
           StartClaim(s) \/ StartRefused(s) \/ StartStep(s)
    PROVE  MicOwned'
<1> USE DEF MicInv, MicOwned, slots, starts, GoStart
<1>0. /\ startPc \in [Starts -> {"ready", "claimed", "connecting", "store",
                                 "stored", "record", "arm", "operation", "show", "spawn", "done"}]
      /\ capture \in [Starts -> {"none", "open", "closed"}]
      /\ audio_handle \in Starts \cup {None}
  BY DEF TypeInv, TypeOK, SharedOK, CallsOK, RunOrNone
<1>1. CASE \/ StartClaim(s) \/ StartRefused(s) \/ StartNotReady(s)
           \/ StartConnected(s) \/ StartKeep(s) \/ StartSession(s)
           \/ StartArm(s) \/ StartOperation(s) \/ StartShow(s) \/ StartSpawn(s)
  BY <1>0, <1>1 DEF StartClaim, StartRefused, StartNotReady, StartConnected,
     StartKeep, StartSession, StartArm, StartOperation, StartShow, StartSpawn
<1>2. CASE StartPrepare(s)
  BY <1>0, <1>2 DEF StartPrepare
<1>3. CASE StartFail(s)
  BY <1>0, <1>3 DEF StartFail, StartGiveUp
<1>4. CASE StartStoreHandle(s)
  BY <1>0, <1>4, CallsAssumption
  DEF StartStoreHandle, CloseStored, Tasks, Stoppers
<1>5. CASE StartUndo(s)
  BY <1>0, <1>5 DEF StartUndo, StartGiveUp, CloseStored
<1>6. QED
  BY <1>1, <1>2, <1>3, <1>4, <1>5 DEF StartStep

LEMMA MicStep == MicInv /\ [Next]_vars => MicInv'
<1> SUFFICES ASSUME MicInv, [Next]_vars PROVE MicInv'
  OBVIOUS
<1>1. TypeInv'
  BY TypeStep DEF MicInv
<1>2. CASE UNCHANGED <<capture, audio_handle, startPc>>
  BY <1>1, <1>2 DEF MicInv, MicOwned
<1>3. CASE capture' = CloseStored /\ audio_handle' = None /\ UNCHANGED startPc
  BY <1>1, <1>3
  DEF MicInv, MicOwned, CloseStored, TypeInv, TypeOK, SharedOK, CallsOK, RunOrNone
<1>4. CASE UNCHANGED vars
  BY <1>2, <1>4 DEF vars, slots, starts
<1>5. ASSUME NEW s \in Starts, SttStep(s) \/ DeadlineStep(s)
      PROVE  MicInv'
  BY <1>2, <1>5 DEF SttStep, DeadlineStep, slots, starts
<1>6. ASSUME NEW p \in Tasks, StopClaim(p) \/ StopRefused(p) \/ StopStep(p)
      PROVE  MicInv'
  <2>1. CASE StopTake(p)
    BY <1>3, <2>1 DEF StopTake, starts
  <2>2. CASE ~StopTake(p)
    <3>1. UNCHANGED <<capture, audio_handle, startPc>>
      BY <1>6, <2>2 DEF StopClaim, StopDisarm, StopFreeze, StopRefused, StopStep,
         StopNotified, StopTimeout, StopCancelled, StopFailed, StopChecked, StopRead,
         StopNoSpeech, StopClear, slots, starts
    <3>2. QED
      BY <1>2, <3>1
  <2>3. QED
    BY <2>1, <2>2
<1>7. ASSUME NEW p \in Tasks, TailStep(p)
      PROVE  MicInv'
  BY <1>2, <1>7 DEF TailStep, PolishStart, PolishAnswered, OutputStart, OutputDone,
     OutputSkipped, RunFinish, slots, starts
<1>8. ASSUME NEW d \in Drafts, DraftClaim(d) \/ DraftRefused(d)
      PROVE  MicInv'
  BY <1>2, <1>8 DEF DraftClaim, DraftRefused, slots, starts
<1>9. ASSUME NEW a \in Aborts, AbortFlag(a) \/ AbortStep(a)
      PROVE  MicInv'
  <2>1. CASE AbortClose(a)
    BY <1>3, <2>1 DEF AbortClose, starts
  <2>2. CASE ~AbortClose(a)
    BY <1>2, <1>9, <2>2 DEF AbortFlag, AbortStep, AbortSession, AbortDisarm, AbortNotify,
       AbortClear, AbortIdle, slots, starts
  <2>3. QED
    BY <1>9, <2>1, <2>2
<1>10. ASSUME NEW s \in Starts,
              StartClaim(s) \/ StartRefused(s) \/ StartStep(s)
       PROVE  MicInv'
  BY <1>1, <1>10, MicStart DEF MicInv
<1>11. CASE AllDone
  BY <1>4, <1>11 DEF AllDone
<1>12. QED
  BY <1>4, <1>5, <1>6, <1>7, <1>8, <1>9, <1>10, <1>11 DEF Next

\* A microphone that is on can always be turned off by stop() or abort().
THEOREM MicOwnedAlways == Spec => []MicOwned
<1>1. Init => MicInv
  BY TypeInit DEF Init, MicInv, MicOwned
<1>2. MicInv => MicOwned
  BY DEF MicInv
<1>3. QED
  BY MicStep, <1>1, <1>2, PTL DEF Spec

-----------------------------------------------------------------------------
(* Whom the shown state belongs to.                                        *)

\* A start() in the middle of its work holds the lock.
LEMMA StartHolds ==
    ASSUME HandoverInv, NEW s \in Starts, startPc[s] \notin {"ready", "done"}
    PROVE  pipeline_lock # None
  BY StartAlone, HoldersTyped, CallsAssumption

Busy(s)   == startPc[s] \notin {"ready", "done"}
AtWork(p) == pc[p] \in {"wait", "check", "read", "polish", "llm", "deliver", "output", "finish"}

\* Run s is being started or recorded, or a stop() has it.
Active(s) ==
    \/ Busy(s)
    \/ stt_session = s /\ Fresh(s)
    \/ \E p \in Stoppers : taken[p].session = s /\ AtWork(p)

\* Only a draft finds the pipeline Idle while a start() is at work.  The shown state is that of
\* an active run, unless somebody met the run.
OwnInv ==
    /\ \A s \in Starts : Busy(s) => owner \in {s} \cup Drafts
    /\ \A s \in Starts : Active(s) => s \in overtaken \/ (owner = s /\ state # "Idle")

\* A step that starts nothing, takes nothing, and shows Idle only for a run that is over or met.
LEMMA OwnTask ==
    ASSUME OwnInv, UNCHANGED <<startPc, owner>>, overtaken \subseteq overtaken',
           \A p \in Stoppers : AtWork(p)' => AtWork(p),
           \A p \in Tasks : taken'[p].session = taken[p].session,
           stt_session' \in {stt_session, None},
           \/ state # "Idle" => state' # "Idle"
           \/ owner \in Starts => owner \in overtaken' \/ ~Active(owner)'
    PROVE  OwnInv'
<1>1. ASSUME NEW s \in Starts, Active(s)' PROVE Active(s)
  BY <1>1, CallsAssumption DEF Active, Busy, Fresh, Tasks, Stoppers
<1> QED BY <1>1 DEF OwnInv, Busy

\* The end of task p: its own run is over, and a run it hides is met.
LEMMA OwnEnd ==
    ASSUME HandoverInv, OwnInv, NEW p \in Tasks, ShowIdle(p), AtWork(p),
           NEW l \in {"clear", "done"}, pc' = [pc EXCEPT ![p] = l],
           UNCHANGED <<startPc, taken>>, stt_session' \in {stt_session, None}
    PROVE  OwnInv'
<1>1. /\ pc \in [Tasks -> {"off", "armed", "ready", "disarm", "freeze", "selection", "wait", "check",
                           "read", "polish", "llm", "deliver", "output",
                           "finish", "clear", "done"}]
      /\ Stoppers \subseteq Tasks
  BY DEF HandoverInv, TypeInv, TypeOK, CallsOK, Tasks
<1>2. UNCHANGED owner /\ overtaken' = overtaken \cup (UnderWay \ {Run(p)})
  BY DEF ShowIdle
<1>3. \A q \in Stoppers : AtWork(q)' => AtWork(q) /\ q # p
  BY <1>1 DEF AtWork
<1>4. ASSUME owner \in Starts, state # "Idle", owner \notin overtaken' PROVE ~Active(owner)'
  <2>1. owner = Run(p)
    BY <1>2, <1>4 DEF UnderWay
  <2>2. p \in Stoppers /\ taken[p].session = owner
    BY <1>4, <2>1, CallsAssumption DEF Run, Tasks, Stoppers
  <2>3. ~Fresh(owner) /\ startPc[owner] = "done"
    BY <1>4, <2>2 DEF HandoverInv, StartInv, Fresh
  <2>4. \A q \in Stoppers : taken[q].session = owner => q = p
    BY <1>4, <2>2, CallsAssumption DEF HandoverInv, OneStopPerRun, Tasks, Stoppers
  <2> QED BY <1>3, <2>3, <2>4, <1>2 DEF Active, Busy, Fresh
<1> QED BY <1>2, <1>3, <1>4, OwnTask

LEMMA OwnStart ==
    ASSUME HandoverInv, OwnInv, NEW s \in Starts,
           StartClaim(s) \/ StartRefused(s) \/ StartStep(s)
    PROVE  OwnInv'
<1> USE DEF GoStart
<1>1. /\ startPc \in [Starts -> {"ready", "claimed", "connecting", "store",
                                 "stored", "record", "arm", "operation", "show", "spawn", "done"}]
      /\ pc \in [Tasks -> {"off", "armed", "ready", "disarm", "freeze", "selection", "wait", "check",
                           "read", "polish", "llm", "deliver", "output",
                           "finish", "clear", "done"}]
      /\ s \in Tasks /\ Stoppers \subseteq Tasks
  BY DEF HandoverInv, TypeInv, TypeOK, CallsOK, Tasks, Stoppers
<1>2. CASE StartClaim(s)
  <2>1. /\ startPc' = [startPc EXCEPT ![s] = "claimed"] /\ owner' = s
        /\ state = "Idle" /\ state' = "Preparing"
        /\ UNCHANGED <<stt_session, taken, pc, overtaken>>
    BY <1>2 DEF StartClaim, Exchange, slots, tasks
  <2>2. \A t \in Starts : ~Busy(t)
    BY <1>2, StartHolds DEF StartClaim, LockFree, Busy
  <2>3. \A t \in Starts \ {s} : Active(t)' => t \in overtaken
    BY <1>1, <2>1 DEF Active, Busy, AtWork, Fresh, OwnInv
  <2>4. \A t \in Starts \ {s} : ~Busy(t)'
    BY <1>1, <2>1, <2>2 DEF Busy
  <2> QED BY <2>1, <2>3, <2>4 DEF OwnInv
<1>3. CASE StartRefused(s)
  <2>1. /\ startPc' = [startPc EXCEPT ![s] = "done"]
        /\ UNCHANGED <<stt_session, taken, pc, overtaken, owner, state>>
    BY <1>3 DEF StartRefused, slots, tasks, phase, history
  <2>2. \A t \in Starts : (Active(t)' => Active(t)) /\ (Busy(t)' => Busy(t))
    BY <1>1, <2>1 DEF Active, Busy, AtWork, Fresh
  <2> QED BY <2>1, <2>2 DEF OwnInv
<1>4. CASE StartNotReady(s) \/ StartFail(s) \/ StartUndo(s)
  <2>1. /\ startPc[s] \notin {"ready", "done"} /\ startPc' = [startPc EXCEPT ![s] = "done"]
        /\ UNCHANGED <<stt_session, taken, pc, overtaken, owner>>
    BY <1>4 DEF StartNotReady, StartFail, StartUndo, StartGiveUp, slots, tasks, history
  <2>2. stt_session # s /\ Fresh(s)
    BY <2>1 DEF HandoverInv, StartInv
  <2>3. ~Active(s)'
    BY <1>1, <2>1, <2>2 DEF Active, Busy, Fresh
  <2>4. \A t \in Starts \ {s} : (Active(t)' => Active(t)) /\ ~Busy(t)'
    BY <1>1, <2>1, StartAlone DEF Active, Busy, AtWork, Fresh
  <2>5. ~Busy(s)'
    BY <1>1, <2>1 DEF Busy
  <2>6. owner \in {s} \cup Drafts
    BY <2>1 DEF OwnInv, Busy
  <2>7. Starts \cap Drafts = {}
    BY CallsAssumption DEF Stoppers
  <2> QED BY <2>1, <2>3, <2>4, <2>5, <2>6, <2>7 DEF OwnInv
<1>5. CASE StartPrepare(s) \/ StartConnected(s) \/ StartStoreHandle(s) \/ StartKeep(s)
           \/ StartSession(s) \/ StartArm(s) \/ StartOperation(s) \/ StartShow(s)
  <2>1. PICK l \in {"connecting", "store", "stored", "record", "arm", "operation", "show", "spawn"} :
          /\ startPc[s] \notin {"ready", "done"} /\ startPc' = [startPc EXCEPT ![s] = l]
          /\ UNCHANGED <<stt_session, taken, pc, overtaken, owner>>
          /\ state # "Idle" => state' # "Idle"
    BY <1>5 DEF StartPrepare, StartConnected, StartStoreHandle, StartKeep, StartSession,
       StartArm, StartOperation, StartShow, SetState, phase, slots, tasks, history
  <2>2. \A t \in Starts : (Active(t)' => Active(t)) /\ (Busy(t)' => Busy(t))
    BY <1>1, <2>1 DEF Active, Busy, AtWork, Fresh
  <2> QED BY <2>1, <2>2 DEF OwnInv
<1>6. CASE StartSpawn(s)
  <2>1. /\ startPc[s] = "spawn" /\ startPc' = [startPc EXCEPT ![s] = "done"]
        /\ stt_session' = s /\ pc' = [pc EXCEPT ![s] = "armed"]
        /\ UNCHANGED <<taken, overtaken, owner, state>>
    BY <1>6 DEF StartSpawn, Go, phase, history
  <2>2. \A t \in Starts : (Active(t)' => Active(t)) /\ (Busy(t)' => Busy(t))
    BY <1>1, <2>1 DEF Active, Busy, AtWork, Fresh
  <2> QED BY <2>1, <2>2 DEF OwnInv
<1> QED BY <1>2, <1>3, <1>4, <1>5, <1>6 DEF StartStep

LEMMA OwnStopTake ==
    ASSUME HandoverInv, OwnInv, NEW p \in Tasks, StopTake(p)
    PROVE  OwnInv'
<1>1. PICK s \in Starts : stt_session = s /\ Fresh(s)
  BY DEF StopTake, HandoverInv, SelectionInv
<1>2. /\ pc \in [Tasks -> {"off", "armed", "ready", "disarm", "freeze", "selection", "wait", "check",
                           "read", "polish", "llm", "deliver", "output",
                           "finish", "clear", "done"}]
      /\ taken \in [Tasks -> [session : RunOrNone, audio : RunOrNone,
                              preload : RunOrNone, target : RunOrNone]]
      /\ Stoppers \subseteq Tasks
  BY DEF HandoverInv, TypeInv, TypeOK, CallsOK, Tasks
<1>3. taken'[p].session = s
  BY <1>1, <1>2 DEF StopTake
<1>4. \A q \in Tasks \ {p} : taken'[q] = taken[q] /\ pc'[q] = pc[q]
  BY <1>2 DEF StopTake, Go
<1>5. UNCHANGED <<state, stt_session, startPc, owner, overtaken>>
  BY DEF StopTake, phase, starts, history
<1>6. \A t \in Starts : Active(t)' => Active(t)
  BY <1>1, <1>2, <1>3, <1>4, <1>5, CallsAssumption DEF Active, Busy, AtWork, Fresh, Tasks, Stoppers
<1> QED BY <1>5, <1>6 DEF OwnInv, Busy

LEMMA OwnStep == HandoverInv /\ OwnInv /\ [Next]_vars => OwnInv'
<1> SUFFICES ASSUME HandoverInv, OwnInv, [Next]_vars PROVE OwnInv'
  OBVIOUS
<1>0. /\ pc \in [Tasks -> {"off", "armed", "ready", "disarm", "freeze", "selection", "wait", "check",
                           "read", "polish", "llm", "deliver", "output",
                           "finish", "clear", "done"}]
      /\ taken \in [Tasks -> [session : RunOrNone, audio : RunOrNone,
                              preload : RunOrNone, target : RunOrNone]]
      /\ Stoppers \subseteq Tasks /\ Starts \subseteq Stoppers /\ Drafts \subseteq Tasks
      /\ Drafts \cap Stoppers = {}
  BY CallsAssumption DEF HandoverInv, TypeInv, TypeOK, CallsOK, Tasks, Stoppers
<1>1. CASE UNCHANGED <<state, startPc, stt_session, taken, pc, owner, overtaken>>
  BY <1>1, OwnTask DEF AtWork
<1>2. CASE UNCHANGED vars
  BY <1>1, <1>2 DEF vars, phase, slots, tasks, starts, history
<1>3. ASSUME NEW s \in Starts, StartClaim(s) \/ StartRefused(s) \/ StartStep(s)
      PROVE  OwnInv'
  BY <1>3, OwnStart
<1>4. ASSUME NEW s \in Starts, SttStep(s)
      PROVE  OwnInv'
  BY <1>1, <1>4 DEF SttStep, phase, slots, tasks, starts, history
<1>5. ASSUME NEW s \in Starts, DeadlineStep(s)
      PROVE  OwnInv'
  <2>1. PICK l \in {"ready", "done"} : pc' = [pc EXCEPT ![s] = l]
    BY <1>5 DEF DeadlineStep, DeadlineReached, DeadlineStale, Go
  <2>2. UNCHANGED <<state, startPc, stt_session, taken, owner, overtaken>>
    BY <1>5 DEF DeadlineStep, phase, slots, starts, history
  <2>3. \A q \in Stoppers : AtWork(q)' => AtWork(q)
    BY <1>0, <2>1 DEF AtWork
  <2> QED BY <2>2, <2>3, OwnTask
<1>6. ASSUME NEW p \in Tasks, StopClaim(p) \/ StopRefused(p) \/ StopStep(p)
      PROVE  OwnInv'
  <2>1. CASE StopClaim(p)
    <3>1. /\ pc' = [pc EXCEPT ![p] = "disarm"] /\ state' # "Idle"
          /\ UNCHANGED <<startPc, stt_session, taken, owner, overtaken>>
      BY <2>1 DEF StopClaim, Go, Exchange, slots, starts, history
    <3>2. \A q \in Stoppers : AtWork(q)' => AtWork(q)
      BY <1>0, <3>1 DEF AtWork
    <3> QED BY <3>1, <3>2, OwnTask
  <2>5. CASE StopDisarm(p) \/ StopFreeze(p)
    <3>1. PICK l \in {"freeze", "selection"} : pc' = [pc EXCEPT ![p] = l]
      BY <2>5 DEF StopDisarm, StopFreeze, Go
    <3>2. UNCHANGED <<state, startPc, stt_session, owner, overtaken>>
      BY <2>5 DEF StopDisarm, StopFreeze, phase, slots, starts, history
    <3>3. \A q \in Stoppers : AtWork(q)' => AtWork(q)
      BY <1>0, <3>1 DEF AtWork
    <3>4. \A q \in Tasks : taken'[q].session = taken[q].session
      BY <2>5, FreezesTarget DEF StopDisarm, HandoverInv
    <3> QED BY <3>2, <3>3, <3>4, OwnTask
  <2>2. CASE StopTake(p)
    BY <2>2, OwnStopTake
  <2>3. CASE StopTimeout(p) \/ StopFailed(p) \/ StopNoSpeech(p)
    <3>1. /\ ShowIdle(p) /\ AtWork(p) /\ pc' = [pc EXCEPT ![p] = "clear"]
          /\ UNCHANGED <<startPc, taken, stt_session>>
      BY <2>3 DEF StopTimeout, StopFailed, StopNoSpeech, AtWork, Go, slots, starts
    <3> QED BY <3>1, OwnEnd
  <2>4. CASE \/ StopRefused(p) \/ StopNotified(p) \/ StopCancelled(p)
             \/ StopChecked(p) \/ StopRead(p) \/ StopClear(p)
    <3> USE DEF StopRefused, StopNotified, StopCancelled, StopChecked, StopRead, StopClear
    <3>1. PICK l \in {"check", "clear", "read", "polish", "done"} :
            /\ pc' = [pc EXCEPT ![p] = l]
            /\ AtWork(p) \/ l \in {"clear", "done"}
      BY <2>4 DEF Go, AtWork
    <3>2. UNCHANGED <<state, startPc, taken, owner, overtaken>>
      BY <2>4 DEF phase, starts, history
    <3>3. stt_session' \in {stt_session, None}
      BY <2>4 DEF slots, ClearSttSession
    <3> HIDE DEF StopRefused, StopNotified, StopCancelled, StopChecked, StopRead, StopClear
    <3>4. \A q \in Stoppers : AtWork(q)' => AtWork(q)
      BY <1>0, <3>1 DEF AtWork
    <3> QED BY <3>2, <3>3, <3>4, OwnTask
  <2> QED BY <1>6, <2>1, <2>2, <2>3, <2>4, <2>5 DEF StopStep
<1>7. ASSUME NEW p \in Tasks, TailStep(p)
      PROVE  OwnInv'
  <2>1. CASE RunFinish(p)
    <3>1. /\ ShowIdle(p) /\ AtWork(p) /\ pc' = [pc EXCEPT ![p] = "done"]
          /\ UNCHANGED <<startPc, taken>> /\ stt_session' \in {stt_session, None}
      BY <2>1 DEF RunFinish, AtWork, Go, ClearSttSession, starts
    <3> QED BY <3>1, OwnEnd
  <2>2. CASE ~RunFinish(p)
    <3> USE DEF TailStep, PolishStart, PolishAnswered, OutputStart, OutputDone, OutputSkipped
    <3>1. PICK l : pc' = [pc EXCEPT ![p] = l] /\ AtWork(p)
      BY <1>7, <2>2 DEF Go, AtWork
    <3>2. /\ UNCHANGED <<startPc, taken, stt_session, owner, overtaken>>
          /\ state # "Idle" => state' # "Idle"
      BY <1>7, <2>2 DEF SetState, phase, slots, starts, history
    <3> HIDE DEF TailStep
    <3>3. \A q \in Stoppers : AtWork(q)' => AtWork(q)
      BY <1>0, <3>1 DEF AtWork
    <3> QED BY <3>2, <3>3, OwnTask
  <2> QED BY <2>1, <2>2
<1>8. ASSUME NEW d \in Drafts, DraftClaim(d) \/ DraftRefused(d)
      PROVE  OwnInv'
  <2>1. PICK l : pc' = [pc EXCEPT ![d] = l]
    BY <1>8 DEF DraftClaim, DraftRefused, Go
  <2>2. UNCHANGED <<state, startPc, taken, stt_session, overtaken>>
    BY <1>8 DEF DraftClaim, DraftRefused, starts, slots, phase, history
  <2>3. \A q \in Stoppers : pc'[q] = pc[q]
    BY <1>0, <2>1
  <2>4. \A s \in Starts : (Active(s)' <=> Active(s)) /\ (Busy(s)' <=> Busy(s))
    BY <2>2, <2>3 DEF Active, Busy, AtWork, Fresh
  <2>5. \/ UNCHANGED owner
        \/ state = "Idle" /\ owner' = d
    BY <1>8 DEF DraftClaim, DraftRefused, history
  <2> QED BY <2>2, <2>4, <2>5 DEF OwnInv
<1>9. ASSUME NEW a \in Aborts, AbortFlag(a) \/ AbortStep(a)
      PROVE  OwnInv'
  <2>1. UNCHANGED <<startPc, taken, pc, stt_session, owner>>
    BY <1>9 DEF AbortFlag, AbortStep, AbortSession, AbortDisarm,
       AbortClose, AbortNotify, AbortClear, AbortIdle, NowOvertaken,
       starts, tasks, slots
  <2>2. /\ overtaken \subseteq overtaken'
        /\ state' = state \/ overtaken' = overtaken \cup UnderWay
    BY <1>9 DEF AbortFlag, AbortStep, AbortSession, AbortDisarm,
       AbortClose, AbortNotify, AbortClear, AbortIdle, NowOvertaken, phase
  <2>3. \/ state # "Idle" => state' # "Idle"
        \/ owner \in overtaken'
    BY <2>2 DEF UnderWay
  <2>4. \A q \in Stoppers : AtWork(q)' => AtWork(q)
    BY <2>1 DEF AtWork
  <2> QED BY <2>1, <2>2, <2>3, <2>4, OwnTask
<1>10. CASE AllDone
  BY <1>2, <1>10 DEF AllDone
<1> QED BY <1>2, <1>3, <1>4, <1>5, <1>6, <1>7, <1>8, <1>9, <1>10 DEF Next

\* A task in the middle of its work is the only one whose step moves it on.
LEMMA OnlyItMoves ==
    ASSUME HandoverInv, NEW p \in Stoppers, Next, pc'[p] # pc[p], state' # state,
           taken[p].session # None
    PROVE  AtWork(p)
<1>0. /\ pc \in [Tasks -> {"off", "armed", "ready", "disarm", "freeze", "selection", "wait", "check",
                           "read", "polish", "llm", "deliver", "output",
                           "finish", "clear", "done"}]
      /\ p \in Tasks /\ Starts \subseteq Tasks /\ p \notin Drafts
  BY CallsAssumption DEF HandoverInv, TypeInv, TypeOK, CallsOK, Tasks, Stoppers
<1>1. pc[p] \notin {"off", "armed", "ready", "disarm", "freeze", "selection"}
  <2>1. pc[p] \notin {"off", "armed", "ready"}
    BY <1>0 DEF HandoverInv, NothingYet, Nothing
  <2>2. pc[p] \notin {"disarm", "freeze"}
    <3>1. ASSUME pc[p] \in {"disarm", "freeze"} PROVE taken[p] = Nothing
      BY <1>0, <3>1 DEF HandoverInv, SelectionInv
    <3> QED BY <3>1 DEF Nothing
  <2>3. pc[p] # "selection"
    <3>1. ASSUME pc[p] = "selection" PROVE taken[p].session = None
      <4>1. PICK t \in Starts \cup {None} :
              taken[p] = [session |-> None, audio |-> None, preload |-> None, target |-> t]
        BY <1>0, <3>1 DEF HandoverInv, SelectionInv, TranslateTarget
      <4> QED BY <4>1
    <3> QED BY <3>1
  <2> QED BY <2>1, <2>2, <2>3
<1>2. PICK q \in Tasks :
        \/ StopClaim(q) \/ StopRefused(q) \/ StopStep(q) \/ TailStep(q)
        \/ q \in Drafts /\ (DraftClaim(q) \/ DraftRefused(q))
        \/ q \in Starts /\ (StartSpawn(q) \/ DeadlineStep(q))
  <2>1. ~UNCHANGED pc /\ ~UNCHANGED state
    OBVIOUS
  <2>2. ASSUME NEW s \in Starts, StartClaim(s) \/ StartRefused(s) \/ StartStep(s) \/ SttStep(s)
        PROVE  StartSpawn(s)
    BY <2>1, <2>2 DEF StartClaim, StartRefused, StartStep, StartNotReady, StartPrepare, StartFail,
       StartConnected, StartStoreHandle, StartUndo, StartKeep, StartSession, StartArm,
       StartOperation, StartShow, StartGiveUp, SttStep, tasks
  <2>3. ~AllDone /\ \A a \in Aborts : ~AbortFlag(a) /\ ~AbortStep(a)
    BY <2>1 DEF AllDone, AbortFlag, AbortStep, AbortSession, AbortDisarm, AbortClose, AbortNotify,
       AbortClear, AbortIdle, vars, tasks
  <2>4. Starts \subseteq Tasks /\ Drafts \subseteq Tasks
    BY DEF Tasks, Stoppers
  <2> QED BY <2>2, <2>3, <2>4 DEF Next
<1>3. PICK l : pc' = [pc EXCEPT ![q] = l]
  BY <1>2 DEF StopClaim, StopDisarm, StopFreeze, StopRefused, StopStep, StopTake, StopNotified, StopTimeout,
     StopCancelled, StopFailed, StopChecked, StopRead, StopNoSpeech, StopClear, TailStep,
     PolishStart, PolishAnswered, OutputStart, OutputDone, OutputSkipped, RunFinish,
     DraftClaim, DraftRefused, StartSpawn, DeadlineStep, DeadlineReached, DeadlineStale, Go
<1>4. q = p
  BY <1>0, <1>3
<1>5. pc[p] \notin {"clear", "done"}
  BY <1>0, <1>2, <1>4
  DEF StopClaim, StopDisarm, StopFreeze, StopRefused, StopStep, StopTake, StopNotified, StopTimeout,
     StopCancelled, StopFailed, StopChecked, StopRead, StopNoSpeech, StopClear, TailStep,
     PolishStart, PolishAnswered, OutputStart, OutputDone, OutputSkipped, RunFinish,
     StartSpawn, DeadlineStep, phase
<1> QED BY <1>0, <1>1, <1>5 DEF AtWork

LEMMA OwnInit == Init => OwnInv
<1> SUFFICES ASSUME Init PROVE OwnInv
  OBVIOUS
<1>1. None \notin Starts /\ Stoppers \subseteq Tasks
  BY CallsAssumption DEF Tasks, Stoppers
<1>2. \A s \in Starts : ~Busy(s) /\ stt_session # s
  BY <1>1 DEF Init, Busy
<1>3. \A p \in Stoppers : ~AtWork(p)
  BY <1>1 DEF Init, AtWork
<1> QED BY <1>2, <1>3 DEF OwnInv, Active

\* A stop() changes the shown state only for the run it has, for any number of starts, stops,
\* aborts and drafts, unless an abort() met the run or the end of another call hid it.
THEOREM OnlyMetRunsInterfere == Spec => OnlyCancelledRunsInterfere
<1> DEFINE Interferes(p) == /\ pc'[p] # pc[p] /\ state' # state
                            /\ Run(p) # None
                            /\ Run(p) # owner /\ Undisturbed(p)
<1>1. HandoverInv /\ OwnInv /\ [Next]_vars => [\A p \in Stoppers : ~Interferes(p)]_vars
  <2> SUFFICES ASSUME HandoverInv, OwnInv, Next, NEW p \in Stoppers, Interferes(p)
               PROVE  FALSE
    OBVIOUS
  <2>1. Run(p) = taken[p].session /\ p \in Tasks
    BY CallsAssumption DEF Run, Tasks
  <2>2. AtWork(p)
    BY <2>1, OnlyItMoves
  <2>3. Run(p) \in Starts
    BY <2>1 DEF HandoverInv, TypeInv, TypeOK, CallsOK, RunOrNone
  <2>4. Active(Run(p))
    BY <2>1, <2>2 DEF Active
  <2> QED BY <2>3, <2>4 DEF OwnInv, Undisturbed
<1>2. [\A p \in Stoppers : ~Interferes(p)]_vars =>
        [\A p \in Stoppers :
           /\ pc'[p] # pc[p] /\ state' # state
           /\ Run(p) # None
           => Run(p) = owner \/ ~Undisturbed(p)]_vars
  OBVIOUS
<1> QED
  BY HandoverInit, HandoverStep, OwnInit, OwnStep, <1>1, <1>2, PTL
  DEF Spec, OnlyCancelledRunsInterfere

-----------------------------------------------------------------------------
(* What a stop() takes.  An abort() may close the capture of a recording, and *)
(* drop its Translate operation, before the stop() comes: it has met the run. *)

\* The handle of run s is stored, and its operation opened, unless somebody took them.
HandleSet(s) ==
    \/ startPc[s] \in {"stored", "record", "arm", "operation", "show", "spawn"}
    \/ stt_session = s /\ Fresh(s)
TargetSet(s) ==
    \/ startPc[s] \in {"show", "spawn"}
    \/ stt_session = s /\ Fresh(s)

MetInv ==
    /\ \A s \in Starts : HandleSet(s) /\ audio_handle # s => s \in overtaken
    /\ \A s \in TranslateStarts :
         TargetSet(s) /\ active_translation_operation = None => s \in overtaken
    /\ \A p \in Tasks :
         /\ pc[p] = "selection" /\ taken[p].target = None
         /\ stt_session \in TranslateStarts
         => stt_session \in overtaken
    /\ StopTakesOneRun

\* A step that takes nothing, and takes a handle or an operation away from met runs only.
LEMMA MetTask ==
    ASSUME HandoverInv, MetInv, overtaken \subseteq overtaken',
           UNCHANGED <<startPc, taken>>, stt_session' \in {stt_session, None},
           \A q \in Tasks : pc'[q] = "selection" => pc[q] = "selection",
           \A q \in Tasks : Stopped(q)' => Stopped(q) \/ taken[q] = Nothing,
           \/ UNCHANGED audio_handle
           \/ \A s \in Starts : HandleSet(s) => s \in overtaken',
           \/ UNCHANGED active_translation_operation
           \/ \A s \in Starts : TargetSet(s) => s \in overtaken'
    PROVE  MetInv'
<1>1. None \notin Starts /\ TranslateStarts \subseteq Starts
  BY CallsAssumption DEF Tasks, Stoppers
<1>2. \A s \in Starts : (HandleSet(s)' => HandleSet(s)) /\ (TargetSet(s)' => TargetSet(s))
  BY <1>1 DEF HandleSet, TargetSet, Fresh
<1>3. \A s \in Starts : HandleSet(s)' /\ audio_handle' # s => s \in overtaken'
  BY <1>2 DEF MetInv
<1>4. \A s \in TranslateStarts :
        TargetSet(s)' /\ active_translation_operation' = None => s \in overtaken'
  BY <1>1, <1>2 DEF MetInv
<1>5. \A p \in Tasks :
        /\ pc'[p] = "selection" /\ taken'[p].target = None
        /\ stt_session' \in TranslateStarts
        => stt_session' \in overtaken'
  BY <1>1 DEF MetInv
<1>6. StopTakesOneRun'
  <2>1. ASSUME NEW q \in Tasks, Stopped(q)'
        PROVE  taken[q] = Nothing \/ \E s \in Starts : TakenFrom(q, s)
    BY <2>1 DEF MetInv, StopTakesOneRun
  <2>2. \A q \in Tasks, s \in Starts : TakenFrom(q, s) => TakenFrom(q, s)'
    BY DEF TakenFrom, TranslateTarget
  <2> QED BY <2>1, <2>2 DEF StopTakesOneRun, Nothing
<1> QED BY <1>3, <1>4, <1>5, <1>6 DEF MetInv

\* The end of task p: a run that it hides is met.
LEMMA MetEnd ==
    ASSUME HandoverInv, OwnInv, NEW p \in Tasks, ShowIdle(p), pc[p] \notin {"off", "armed", "ready"},
           NEW s \in Starts, TargetSet(s)
    PROVE  s \in overtaken'
<1>1. Active(s)
  BY DEF Active, Busy, TargetSet
<1>2. s # Run(p)
  <2>1. Fresh(s)
    BY DEF TargetSet, HandoverInv, StartInv
  <2> QED BY <2>1, CallsAssumption DEF Run, Fresh, Tasks, Stoppers
<1> QED BY <1>1, <1>2 DEF OwnInv, ShowIdle, UnderWay

LEMMA MetStart ==
    ASSUME HandoverInv, OwnInv, MetInv, NEW s \in Starts,
           StartClaim(s) \/ StartRefused(s) \/ StartStep(s)
    PROVE  MetInv'
<1> USE DEF GoStart
<1>1. /\ startPc \in [Starts -> {"ready", "claimed", "connecting", "store",
                                 "stored", "record", "arm", "operation", "show", "spawn", "done"}]
      /\ pc \in [Tasks -> {"off", "armed", "ready", "disarm", "freeze", "selection", "wait", "check",
                           "read", "polish", "llm", "deliver", "output",
                           "finish", "clear", "done"}]
      /\ s \in Tasks /\ TranslateStarts \subseteq Starts
  BY CallsAssumption DEF HandoverInv, TypeInv, TypeOK, CallsOK, Tasks, Stoppers
<1>2. /\ UNCHANGED <<taken, overtaken>>
      /\ stt_session' \in {stt_session, s}
      /\ \A q \in Tasks : pc'[q] = pc[q] \/ (q = s /\ pc'[q] = "armed")
  BY <1>1 DEF StartClaim, StartRefused, StartStep, StartNotReady, StartPrepare, StartFail,
     StartConnected, StartStoreHandle, StartUndo, StartKeep, StartSession, StartArm,
     StartOperation, StartShow, StartSpawn, StartGiveUp, Go, slots, tasks, history
<1>3. StopTakesOneRun'
  <2>1. \A q \in Tasks : Stopped(q)' => Stopped(q)
    BY <1>2 DEF Stopped
  <2>2. \A q \in Tasks, t \in Starts : TakenFrom(q, t) => TakenFrom(q, t)'
    BY <1>2 DEF TakenFrom, TranslateTarget
  <2> QED BY <1>2, <2>1, <2>2 DEF MetInv, StopTakesOneRun, Nothing
\* A start() at work is alone: the run before it is met.
<1>4. ASSUME Busy(s), NEW t \in Starts \ {s}, TargetSet(t) \/ HandleSet(t)
      PROVE  t \in overtaken
  <2>1. Active(t) /\ owner # t
    BY <1>4, CallsAssumption DEF OwnInv, Active, Busy, TargetSet, HandleSet, Stoppers
  <2> QED BY <2>1 DEF OwnInv
<1>5. CASE \/ StartClaim(s) \/ StartRefused(s) \/ StartNotReady(s)
           \/ StartConnected(s) \/ StartPrepare(s)
  <2>1. /\ UNCHANGED <<stt_session, pc, audio_handle, active_translation_operation>>
        /\ \E l \in {"claimed", "done", "store", "connecting"} : startPc' = [startPc EXCEPT ![s] = l]
    BY <1>5 DEF StartClaim, StartRefused, StartNotReady, StartConnected, StartPrepare, SetState,
       phase, slots, tasks
  <2>2. \A t \in Starts : (HandleSet(t)' => HandleSet(t)) /\ (TargetSet(t)' => TargetSet(t))
    BY <1>1, <1>2, <2>1 DEF HandleSet, TargetSet, Fresh
  <2> QED BY <1>1, <1>2, <1>3, <2>1, <2>2 DEF MetInv
<1>6. CASE StartKeep(s) \/ StartSession(s) \/ StartArm(s)
  <2>1. /\ UNCHANGED <<stt_session, pc, audio_handle, active_translation_operation>>
        /\ startPc[s] \in {"stored", "record", "arm"}
        /\ \E l \in {"record", "arm", "operation"} : startPc' = [startPc EXCEPT ![s] = l]
    BY <1>6 DEF StartKeep, StartSession, StartArm, phase, slots, tasks
  <2>2. \A t \in Starts : (HandleSet(t)' => HandleSet(t)) /\ (TargetSet(t)' => TargetSet(t))
    BY <1>1, <1>2, <2>1 DEF HandleSet, TargetSet, Fresh
  <2> QED BY <1>1, <1>2, <1>3, <2>1, <2>2 DEF MetInv
<1>7. CASE StartFail(s) \/ StartUndo(s)
  <2>1. /\ Busy(s) /\ startPc' = [startPc EXCEPT ![s] = "done"]
        /\ UNCHANGED <<stt_session, pc>>
    BY <1>7 DEF StartFail, StartUndo, StartGiveUp, Busy, tasks
  <2>2. stt_session # s
    BY <2>1 DEF Busy, HandoverInv, StartInv
  <2>3. ~HandleSet(s)' /\ ~TargetSet(s)'
    BY <1>1, <2>1, <2>2 DEF HandleSet, TargetSet
  <2>4. \A t \in Starts \ {s} : HandleSet(t)' \/ TargetSet(t)' => HandleSet(t) \/ TargetSet(t)
    BY <1>1, <1>2, <2>1 DEF HandleSet, TargetSet, Fresh
  <2>5. \A t \in Starts : HandleSet(t)' \/ TargetSet(t)' => t \in overtaken
    BY <1>4, <2>1, <2>3, <2>4
  <2> QED BY <1>1, <1>2, <1>3, <2>1, <2>5 DEF MetInv
<1>8. CASE StartStoreHandle(s)
  <2>1. /\ Busy(s) /\ startPc' = [startPc EXCEPT ![s] = "stored"] /\ audio_handle' = s
        /\ UNCHANGED <<stt_session, pc, active_translation_operation>>
    BY <1>8 DEF StartStoreHandle, Busy, phase, tasks
  <2>2. \A t \in Starts \ {s} : HandleSet(t)' => HandleSet(t)
    BY <1>1, <1>2, <2>1 DEF HandleSet, Fresh
  <2>3. \A t \in Starts : TargetSet(t)' => TargetSet(t)
    BY <1>1, <1>2, <2>1 DEF TargetSet, Fresh
  <2>4. \A t \in Starts : HandleSet(t)' /\ audio_handle' # t => t \in overtaken
    BY <1>4, <2>1, <2>2
  <2> QED BY <1>1, <1>2, <1>3, <2>1, <2>3, <2>4 DEF MetInv
<1>9. CASE StartOperation(s)
  <2>1. /\ Busy(s) /\ startPc' = [startPc EXCEPT ![s] = "show"] /\ startPc[s] = "operation"
        /\ UNCHANGED <<stt_session, pc, audio_handle>>
        /\ s \in TranslateStarts => active_translation_operation' \in Operations
    BY <1>9 DEF StartOperation, Busy, slots, tasks, Operations
  <2>2. \A t \in Starts : HandleSet(t)' => HandleSet(t)
    BY <1>1, <1>2, <2>1 DEF HandleSet, Fresh
  <2>3. \A t \in Starts \ {s} : TargetSet(t)' => TargetSet(t)
    BY <1>1, <1>2, <2>1 DEF TargetSet, Fresh
  <2>4. \A t \in TranslateStarts :
          TargetSet(t)' /\ active_translation_operation' = None => t \in overtaken
    BY <1>1, <1>4, <2>1, <2>3, CallsAssumption
  <2> QED BY <1>1, <1>2, <1>3, <2>1, <2>2, <2>4 DEF MetInv
<1>10. CASE StartShow(s)
  <2>1. /\ startPc[s] = "show" /\ startPc' = [startPc EXCEPT ![s] = "spawn"]
        /\ UNCHANGED <<stt_session, pc, audio_handle, active_translation_operation>>
    BY <1>10 DEF StartShow, SetState, slots, tasks
  <2>2. \A t \in Starts : (HandleSet(t)' => HandleSet(t)) /\ (TargetSet(t)' => TargetSet(t))
    BY <1>1, <1>2, <2>1 DEF HandleSet, TargetSet, Fresh
  <2> QED BY <1>1, <1>2, <1>3, <2>1, <2>2 DEF MetInv
<1>11. CASE StartSpawn(s)
  <2>1. /\ startPc[s] = "spawn" /\ startPc' = [startPc EXCEPT ![s] = "done"]
        /\ stt_session' = s /\ UNCHANGED <<audio_handle, active_translation_operation>>
    BY <1>11 DEF StartSpawn, slots, phase
  <2>2. \A t \in Starts : (HandleSet(t)' => HandleSet(t)) /\ (TargetSet(t)' => TargetSet(t))
    BY <1>1, <1>2, <2>1 DEF HandleSet, TargetSet, Fresh
  <2>3. \A q \in Tasks : pc'[q] # "selection"
    BY <1>2, <2>1, StartAlone
  <2> QED BY <1>1, <1>2, <1>3, <2>1, <2>2, <2>3 DEF MetInv
<1> QED BY <1>5, <1>6, <1>7, <1>8, <1>9, <1>10, <1>11 DEF StartStep

LEMMA MetStopFreeze ==
    ASSUME HandoverInv, MetInv, NEW p \in Tasks, StopFreeze(p)
    PROVE  MetInv'
<1>1. /\ pc \in [Tasks -> {"off", "armed", "ready", "disarm", "freeze", "selection", "wait", "check",
                           "read", "polish", "llm", "deliver", "output",
                           "finish", "clear", "done"}]
      /\ taken \in [Tasks -> [session : RunOrNone, audio : RunOrNone,
                              preload : RunOrNone, target : RunOrNone]]
      /\ TranslateStarts \subseteq Starts /\ None \notin Starts
  BY CallsAssumption DEF HandoverInv, TypeInv, TypeOK, CallsOK, Tasks, Stoppers
<1>2. /\ pc[p] = "freeze" /\ pc' = [pc EXCEPT ![p] = "selection"]
      /\ UNCHANGED <<startPc, stt_session, audio_handle, overtaken>>
  BY DEF StopFreeze, Go, starts, slots, history
<1>3. /\ \A q \in Tasks : taken'[q].session = taken[q].session
      /\ \A q \in Tasks \ {p} : taken'[q] = taken[q]
  BY FreezesTarget DEF HandoverInv
<1>4. \A t \in Starts : (HandleSet(t)' <=> HandleSet(t)) /\ (TargetSet(t)' <=> TargetSet(t))
  BY <1>2, <1>3 DEF HandleSet, TargetSet, Fresh
<1>5. active_translation_operation' = None <=> active_translation_operation = None
  <2>1. CASE active_translation_operation = None
    BY <2>1 DEF StopFreeze
  <2>2. CASE active_translation_operation # None
    <3>1. active_translation_operation \in Operations
      BY <2>2 DEF HandoverInv, TypeInv, TypeOK, SharedOK
    <3>2. active_translation_operation' \in Operations
      BY <2>2, <3>1 DEF StopFreeze, Operations
    <3> QED BY <2>2, <3>2, CallsAssumption
  <2> QED BY <2>1, <2>2
<1>6. taken'[p].target = None => active_translation_operation = None
  <2>1. ASSUME active_translation_operation # None PROVE taken'[p].target # None
    <3>1. active_translation_operation.run \in Starts
      BY <2>1 DEF HandoverInv, TypeInv, TypeOK, SharedOK, Operations
    <3>2. taken' = [taken EXCEPT ![p] = [taken[p] EXCEPT !.target = active_translation_operation.run]]
      BY <2>1 DEF StopFreeze
    <3>3. taken'[p].target = active_translation_operation.run
      BY <1>1, <3>2
    <3> QED BY <1>1, <3>1, <3>3
  <2> QED BY <2>1
<1>7. PICK s \in Starts : stt_session = s /\ Fresh(s)
  BY <1>2 DEF HandoverInv, SelectionInv
<1>8. ASSUME taken'[p].target = None, s \in TranslateStarts PROVE s \in overtaken
  BY <1>6, <1>7, <1>8 DEF MetInv, TargetSet
<1>9. \A q \in Tasks :
        pc'[q] = "selection" /\ taken'[q].target = None /\ stt_session' \in TranslateStarts
          => stt_session' \in overtaken'
  BY <1>1, <1>2, <1>3, <1>7, <1>8 DEF MetInv
<1>10. StopTakesOneRun'
  <2>1. \A q \in Tasks : Stopped(q)' => Stopped(q) /\ q # p
    BY <1>1, <1>2 DEF Stopped
  <2>2. \A q \in Tasks \ {p}, t \in Starts : TakenFrom(q, t) => TakenFrom(q, t)'
    BY <1>2, <1>3 DEF TakenFrom, TranslateTarget
  <2> QED BY <1>3, <2>1, <2>2 DEF MetInv, StopTakesOneRun, Nothing
<1> QED BY <1>1, <1>2, <1>4, <1>5, <1>9, <1>10 DEF MetInv

LEMMA MetStopTake ==
    ASSUME HandoverInv, MetInv, NEW p \in Tasks, StopTake(p)
    PROVE  MetInv'
<1>1. /\ pc \in [Tasks -> {"off", "armed", "ready", "disarm", "freeze", "selection", "wait", "check",
                           "read", "polish", "llm", "deliver", "output",
                           "finish", "clear", "done"}]
      /\ taken \in [Tasks -> [session : RunOrNone, audio : RunOrNone,
                              preload : RunOrNone, target : RunOrNone]]
      /\ TranslateStarts \subseteq Starts /\ None \notin Starts
  BY CallsAssumption DEF HandoverInv, TypeInv, TypeOK, CallsOK, Tasks, Stoppers
<1>2. /\ pc[p] = "selection" /\ \A q \in Tasks \ {p} : pc'[q] = pc[q]
      /\ pc'[p] # "selection"
      /\ UNCHANGED <<startPc, stt_session, active_translation_operation, overtaken>>
  BY <1>1 DEF StopTake, Go, starts, phase, history
<1>3. /\ p \in Stoppers
      /\ \A q \in Tasks \ {p} : pc[q] # "selection"
      /\ \A t \in Starts : startPc[t] \in {"ready", "done"}
  BY <1>2, StopAlone DEF HandoverInv, TypeInv, WaitsForRun, Tasks
<1>4. PICK s \in Starts :
        /\ stt_session = s /\ Slots(s) /\ Fresh(s)
        /\ \E t \in {TranslateTarget(s), None} :
             taken[p] = [session |-> None, audio |-> None, preload |-> None, target |-> t]
  BY <1>2 DEF HandoverInv, SelectionInv
<1>5. /\ taken'[p].session = s /\ taken'[p].preload = s
      /\ taken'[p].audio = audio_handle /\ taken'[p].target = taken[p].target
      /\ \A q \in Tasks \ {p} : taken'[q] = taken[q]
  BY <1>1, <1>4 DEF StopTake, Slots
<1>6. \A t \in Starts : ~HandleSet(t)' /\ ~TargetSet(t)'
  BY <1>2, <1>3, <1>4, <1>5 DEF HandleSet, TargetSet, Fresh
<1>7. TakenFrom(p, s)'
  <2>1. audio_handle = s \/ (audio_handle = None /\ s \in overtaken)
    BY <1>1, <1>4 DEF MetInv, HandleSet, Slots
  <2>2. taken[p].target = TranslateTarget(s) \/ (taken[p].target = None /\ s \in overtaken)
    <3>1. taken[p].target \in {TranslateTarget(s), None}
      BY <1>4
    <3> QED BY <1>2, <1>4, <3>1 DEF MetInv, TranslateTarget
  <2> QED BY <1>2, <1>5, <2>1, <2>2 DEF TakenFrom, TranslateTarget
<1>8. StopTakesOneRun'
  <2>1. \A q \in Tasks \ {p} : Stopped(q)' => Stopped(q)
    BY <1>2 DEF Stopped
  <2>2. \A q \in Tasks \ {p}, t \in Starts : TakenFrom(q, t) => TakenFrom(q, t)'
    BY <1>2, <1>5 DEF TakenFrom, TranslateTarget
  <2> QED BY <1>5, <1>7, <2>1, <2>2 DEF MetInv, StopTakesOneRun, Nothing
<1> QED BY <1>1, <1>2, <1>3, <1>6, <1>8 DEF MetInv

LEMMA MetStep == HandoverInv /\ OwnInv /\ MetInv /\ [Next]_vars => MetInv'
<1> SUFFICES ASSUME HandoverInv, OwnInv, MetInv, [Next]_vars PROVE MetInv'
  OBVIOUS
<1>0. /\ pc \in [Tasks -> {"off", "armed", "ready", "disarm", "freeze", "selection", "wait", "check",
                           "read", "polish", "llm", "deliver", "output",
                           "finish", "clear", "done"}]
      /\ Stoppers \subseteq Tasks /\ Starts \subseteq Stoppers /\ Drafts \subseteq Tasks
      /\ Drafts \cap Stoppers = {}
  BY CallsAssumption DEF HandoverInv, TypeInv, TypeOK, CallsOK, Tasks, Stoppers
\* A step of task p that takes nothing.
<1>a. ASSUME NEW p \in Tasks, NEW l \in {"ready", "disarm", "freeze", "check", "read", "polish",
                                         "llm", "deliver", "output", "finish", "clear", "done"},
             pc' = [pc EXCEPT ![p] = l],
             \/ p \in Drafts \/ pc[p] \in {"armed", "ready"} \/ l = "freeze"
             \/ pc[p] \notin {"off", "disarm", "freeze", "selection"}
      PROVE  /\ \A q \in Tasks : pc'[q] = "selection" => pc[q] = "selection"
             /\ \A q \in Tasks : Stopped(q)' => Stopped(q) \/ taken[q] = Nothing
  <2>1. \A q \in Tasks \ {p} : pc'[q] = pc[q]
    BY <1>0, <1>a
  <2>2. pc'[p] = l
    BY <1>0, <1>a
  <2>3. Stopped(p)' => Stopped(p) \/ taken[p] = Nothing
    BY <1>0, <1>a, <2>2 DEF Stopped, HandoverInv, NothingYet
  <2> QED BY <1>a, <2>1, <2>2, <2>3 DEF Stopped
<1>1. CASE UNCHANGED <<startPc, taken, stt_session, pc, audio_handle,
                       active_translation_operation, overtaken>>
  BY <1>1, MetTask DEF Stopped
<1>2. CASE UNCHANGED vars
  BY <1>1, <1>2 DEF vars, phase, slots, tasks, starts, history
<1>3. ASSUME NEW s \in Starts, StartClaim(s) \/ StartRefused(s) \/ StartStep(s)
      PROVE  MetInv'
  BY <1>3, MetStart
<1>4. ASSUME NEW s \in Starts, SttStep(s)
      PROVE  MetInv'
  BY <1>1, <1>4 DEF SttStep, phase, slots, tasks, starts, history
<1>5. ASSUME NEW s \in Starts, DeadlineStep(s)
      PROVE  MetInv'
  <2>1. PICK l \in {"ready", "done"} : pc' = [pc EXCEPT ![s] = l] /\ pc[s] = "armed"
    BY <1>5 DEF DeadlineStep, DeadlineReached, DeadlineStale, Go
  <2>2. UNCHANGED <<startPc, taken, stt_session, audio_handle, active_translation_operation,
                    overtaken>>
    BY <1>5 DEF DeadlineStep, phase, slots, starts, history
  <2> QED BY <1>0, <1>a, <2>1, <2>2, MetTask
<1>6. ASSUME NEW p \in Tasks, StopClaim(p) \/ StopRefused(p) \/ StopStep(p)
      PROVE  MetInv'
  <2>1. CASE StopClaim(p) \/ StopRefused(p) \/ StopDisarm(p)
    <3>1. PICK l \in {"disarm", "freeze", "done"} :
            /\ pc' = [pc EXCEPT ![p] = l]
            /\ pc[p] = "ready" \/ l = "freeze"
      BY <2>1 DEF StopClaim, StopRefused, StopDisarm, Go
    <3>2. UNCHANGED <<startPc, taken, stt_session, audio_handle, active_translation_operation,
                      overtaken>>
      BY <2>1 DEF StopClaim, StopRefused, StopDisarm, phase, slots, starts, history
    <3> QED BY <1>a, <3>1, <3>2, MetTask
  <2>2. CASE StopFreeze(p)
    BY <2>2, MetStopFreeze
  <2>3. CASE StopTake(p)
    BY <2>3, MetStopTake
  <2>4. CASE StopTimeout(p) \/ StopFailed(p) \/ StopNoSpeech(p)
    <3>1. /\ ShowIdle(p) /\ pc' = [pc EXCEPT ![p] = "clear"]
          /\ pc[p] \in {"wait", "check", "read"}
          /\ UNCHANGED <<startPc, taken, stt_session, audio_handle>>
      BY <2>4 DEF StopTimeout, StopFailed, StopNoSpeech, Go, slots, starts
    <3>2. /\ overtaken \subseteq overtaken'
          /\ \A s \in Starts : TargetSet(s) => s \in overtaken'
      BY <3>1, MetEnd DEF ShowIdle
    <3> QED BY <1>a, <3>1, <3>2, MetTask
  <2>5. CASE StopNotified(p) \/ StopCancelled(p) \/ StopChecked(p) \/ StopRead(p) \/ StopClear(p)
    <3> USE DEF StopNotified, StopCancelled, StopChecked, StopRead, StopClear
    <3>1. PICK l \in {"check", "clear", "read", "polish", "done"} :
            /\ pc' = [pc EXCEPT ![p] = l]
            /\ pc[p] \in {"wait", "check", "read", "clear"}
      BY <2>5 DEF Go
    <3>2. UNCHANGED <<startPc, taken, audio_handle, active_translation_operation, overtaken>>
      BY <2>5 DEF phase, slots, starts, history
    <3>3. stt_session' \in {stt_session, None}
      BY <2>5 DEF slots, ClearSttSession
    <3> HIDE DEF StopNotified, StopCancelled, StopChecked, StopRead, StopClear
    <3> QED BY <1>a, <3>1, <3>2, <3>3, MetTask
  <2> QED BY <1>6, <2>1, <2>2, <2>3, <2>4, <2>5 DEF StopStep
<1>7. ASSUME NEW p \in Tasks, TailStep(p)
      PROVE  MetInv'
  <2>1. PICK l \in {"llm", "deliver", "output", "finish", "done"} :
          /\ pc' = [pc EXCEPT ![p] = l]
          /\ pc[p] \in {"polish", "llm", "deliver", "output", "finish"}
    BY <1>7 DEF TailStep, PolishStart, PolishAnswered, OutputStart, OutputDone, OutputSkipped,
       RunFinish, Go
  <2>2. UNCHANGED <<startPc, taken, audio_handle>> /\ stt_session' \in {stt_session, None}
    BY <1>7 DEF TailStep, PolishStart, PolishAnswered, OutputStart, OutputDone, OutputSkipped,
       RunFinish, ClearSttSession, slots, starts
  <2>3. /\ overtaken \subseteq overtaken'
        /\ \/ UNCHANGED active_translation_operation
           \/ \A s \in Starts : TargetSet(s) => s \in overtaken'
    <3>1. CASE RunFinish(p)
      BY <2>1, <3>1, MetEnd DEF RunFinish, ShowIdle
    <3>2. CASE ~RunFinish(p)
      BY <1>7, <3>2 DEF TailStep, PolishStart, PolishAnswered, OutputStart, OutputDone,
         OutputSkipped, SetState, phase, history
    <3> QED BY <3>1, <3>2
  <2> QED BY <1>a, <2>1, <2>2, <2>3, MetTask
<1>8. ASSUME NEW d \in Drafts, DraftClaim(d) \/ DraftRefused(d)
      PROVE  MetInv'
  <2>1. PICK l \in {"polish", "done"} : pc' = [pc EXCEPT ![d] = l]
    BY <1>8 DEF DraftClaim, DraftRefused, Go
  <2>2. UNCHANGED <<startPc, taken, stt_session, audio_handle, active_translation_operation,
                    overtaken>>
    BY <1>8 DEF DraftClaim, DraftRefused, starts, slots, phase, history
  <2> QED BY <1>0, <1>a, <2>1, <2>2, MetTask
<1>9. ASSUME NEW a \in Aborts, AbortFlag(a) \/ AbortStep(a)
      PROVE  MetInv'
  <2>1. UNCHANGED <<startPc, taken, pc, stt_session>>
    BY <1>9 DEF AbortFlag, AbortStep, AbortSession, AbortDisarm,
       AbortClose, AbortNotify, AbortClear, AbortIdle, starts, tasks, slots
  <2>2. CASE AbortFlag(a)
    BY <1>1, <2>1, <2>2 DEF AbortFlag, slots, phase
  <2>3. CASE AbortStep(a)
    <3>1. overtaken' = overtaken \cup UnderWay
      BY <2>3 DEF AbortStep, AbortSession, AbortDisarm, AbortClose, AbortNotify, AbortClear,
         AbortIdle, NowOvertaken
    <3>2. \A s \in Starts : HandleSet(s) \/ TargetSet(s) => s \in overtaken'
      BY <3>1 DEF OwnInv, Active, Busy, HandleSet, TargetSet, UnderWay
    <3>3. \A q \in Tasks : Stopped(q)' => Stopped(q)
      BY <2>1 DEF Stopped
    <3> QED BY <2>1, <3>1, <3>2, <3>3, MetTask
  <2> QED BY <1>9, <2>2, <2>3
<1>10. CASE AllDone
  BY <1>2, <1>10 DEF AllDone
<1> QED BY <1>2, <1>3, <1>4, <1>5, <1>6, <1>7, <1>8, <1>9, <1>10 DEF Next

\* What a stop() takes out of the shared fields belongs to one recording, and is complete unless
\* an abort() or the end of another call met the run: in any order of starts, stops, deadlines,
\* aborts and drafts.
THEOREM StopTakesOneRunAlways == Spec => []StopTakesOneRun
<1>1. Init => MetInv
  <2> SUFFICES ASSUME Init PROVE MetInv
    OBVIOUS
  <2>1. None \notin Starts /\ TranslateStarts \subseteq Starts
    BY CallsAssumption DEF Tasks, Stoppers
  <2> QED BY <2>1 DEF Init, MetInv, HandleSet, TargetSet, StopTakesOneRun, Stopped
<1>2. MetInv => StopTakesOneRun
  BY DEF MetInv
<1> QED BY HandoverInit, HandoverStep, OwnInit, OwnStep, MetStep, <1>1, <1>2, PTL DEF Spec

-----------------------------------------------------------------------------
(* Whose words are in the transcript.                                      *)

\* How far a start() has come: it has no session id before it shows Recording, nothing of a
\* speech task before the task is spawned, and a microphone from the time it prepares.
StageInv ==
    \A s \in Starts :
        /\ startPc[s] \notin {"arm", "operation", "show", "spawn", "done"} => id[s] = 0
        /\ startPc[s] # "done" => sttPc[s] = "off" /\ ~doneNotify[s] /\ stt_error # s
        /\ startPc[s] \in {"ready", "claimed"} => capture[s] = "none"
        /\ startPc[s] \notin {"ready", "claimed", "done"} => capture[s] # "none"
        /\ sttPc[s] # "off" \/ audio_handle = s => capture[s] # "none"
        /\ stt_session = s \/ ~Fresh(s) => sttPc[s] # "off"

\* A step of no start(), as far as the stages show it.
LEMMA StageKeep ==
    ASSUME StageInv, UNCHANGED <<startPc, id>>,
           stt_session' \in {stt_session, None}, audio_handle' \in {audio_handle, None},
           \A s \in Starts :
             /\ capture'[s] = "none" <=> capture[s] = "none"
             /\ sttPc'[s] = "off" <=> sttPc[s] = "off"
             /\ doneNotify'[s] => doneNotify[s] \/ startPc[s] = "done"
             /\ stt_error' = s => stt_error = s \/ startPc[s] = "done"
             /\ Fresh(s) => Fresh(s)' \/ sttPc[s] # "off"
    PROVE  StageInv'
  BY CallsAssumption DEF StageInv, Tasks, Stoppers

LEMMA ClosedStays ==
    ASSUME TypeInv, StageInv, NEW s \in Starts
    PROVE  CloseStored[s] = "none" <=> capture[s] = "none"
<1>1. /\ capture \in [Starts -> {"none", "open", "closed"}]
      /\ audio_handle \in Starts \cup {None}
  BY DEF TypeInv, TypeOK, SharedOK, CallsOK, RunOrNone
<1>2. CASE audio_handle = s
  BY <1>1, <1>2 DEF CloseStored, StageInv
<1>3. CASE audio_handle # s
  BY <1>1, <1>3 DEF CloseStored
<1> QED BY <1>2, <1>3

LEMMA StageStart ==
    ASSUME HandoverInv, StageInv, NEW s \in Starts,
           StartClaim(s) \/ StartRefused(s) \/ StartStep(s)
    PROVE  StageInv'
<1> USE DEF GoStart
<1>1. /\ startPc \in [Starts -> {"ready", "claimed", "connecting", "store",
                                 "stored", "record", "arm", "operation", "show", "spawn", "done"}]
      /\ capture \in [Starts -> {"none", "open", "closed"}]
      /\ id \in [Starts -> 0 .. active_stt_session_id]
      /\ sttPc \in [Starts -> {"off", "loop", "select", "sending", "closing", "ended"}]
      /\ None \notin Starts
  BY CallsAssumption DEF HandoverInv, TypeInv, TypeOK, CallsOK, Tasks, Stoppers
<1>2. \A t \in Starts : CloseStored[t] = "none" <=> capture[t] = "none"
  BY ClosedStays DEF HandoverInv
<1>3. CASE \/ StartClaim(s) \/ StartRefused(s) \/ StartNotReady(s) \/ StartConnected(s)
           \/ StartKeep(s)
  <2>1. PICK l \in {"claimed", "done", "store", "record"} :
          /\ startPc' = [startPc EXCEPT ![s] = l]
          /\ startPc[s] \notin {"arm", "operation", "show", "spawn", "done"}
          /\ l = "claimed" => startPc[s] = "ready"
          /\ l \in {"store", "record"} => startPc[s] \in {"connecting", "stored"}
    BY <1>3 DEF StartClaim, StartRefused, StartNotReady, StartConnected, StartKeep
  <2>2. UNCHANGED <<id, sttPc, doneNotify, stt_error, capture, audio_handle, stt_session, taken>>
    BY <1>3 DEF StartClaim, StartRefused, StartNotReady, StartConnected, StartKeep, stt, speech,
       slots, tasks, starts
  <2> QED BY <1>1, <2>1, <2>2 DEF StageInv, Fresh
<1>4. CASE StartPrepare(s)
  <2>1. /\ startPc[s] = "claimed" /\ startPc' = [startPc EXCEPT ![s] = "connecting"]
        /\ capture' = [capture EXCEPT ![s] = "open"] /\ stt_error' = None
        /\ UNCHANGED <<id, sttPc, doneNotify, audio_handle, stt_session, taken>>
    BY <1>4 DEF StartPrepare, stt, tasks
  <2> QED BY <1>1, <2>1 DEF StageInv, Fresh
<1>5. CASE StartFail(s)
  <2>1. /\ startPc[s] = "connecting" /\ startPc' = [startPc EXCEPT ![s] = "done"]
        /\ capture' = [capture EXCEPT ![s] = "closed"]
        /\ UNCHANGED <<id, sttPc, doneNotify, stt_error, audio_handle, stt_session, taken>>
    BY <1>5 DEF StartFail, StartGiveUp, stt, tasks, speech
  <2> QED BY <1>1, <2>1 DEF StageInv, Fresh
<1>6. CASE StartStoreHandle(s)
  <2>1. /\ startPc[s] = "store" /\ startPc' = [startPc EXCEPT ![s] = "stored"]
        /\ capture' = CloseStored /\ audio_handle' = s
        /\ UNCHANGED <<id, sttPc, doneNotify, stt_error, stt_session, taken>>
    BY <1>6 DEF StartStoreHandle, stt, tasks, speech
  <2> QED BY <1>1, <1>2, <2>1 DEF StageInv, Fresh
<1>7. CASE StartUndo(s)
  <2>1. /\ startPc[s] = "stored" /\ startPc' = [startPc EXCEPT ![s] = "done"]
        /\ capture' = CloseStored /\ audio_handle' = None
        /\ UNCHANGED <<id, sttPc, doneNotify, stt_error, stt_session, taken>>
    BY <1>7 DEF StartUndo, StartGiveUp, stt, tasks, speech
  <2> QED BY <1>1, <1>2, <2>1 DEF StageInv, Fresh
<1>8. CASE StartSession(s)
  <2>1. /\ startPc[s] = "record" /\ startPc' = [startPc EXCEPT ![s] = "arm"]
        /\ id' = [id EXCEPT ![s] = active_stt_session_id + 1]
        /\ UNCHANGED <<sttPc, doneNotify, stt_error, capture, audio_handle, stt_session, taken>>
    BY <1>8 DEF StartSession, stt, tasks, speech, slots
  <2> QED BY <1>1, <2>1 DEF StageInv, Fresh
<1>10. CASE StartArm(s) \/ StartOperation(s) \/ StartShow(s)
  <2>1. PICK l \in {"operation", "show", "spawn"} :
          /\ startPc[s] \in {"arm", "operation", "show"} /\ startPc' = [startPc EXCEPT ![s] = l]
    BY <1>10 DEF StartArm, StartOperation, StartShow
  <2>2. UNCHANGED <<id, sttPc, doneNotify, stt_error, capture, audio_handle, stt_session, taken>>
    BY <1>10 DEF StartArm, StartOperation, StartShow, stt, tasks, speech, slots
  <2> QED BY <1>1, <2>1, <2>2 DEF StageInv, Fresh
<1>9. CASE StartSpawn(s)
  <2>1. /\ startPc[s] = "spawn" /\ startPc' = [startPc EXCEPT ![s] = "done"]
        /\ sttPc' = [sttPc EXCEPT ![s] = "loop"] /\ stt_session' = s
        /\ UNCHANGED <<id, doneNotify, stt_error, capture, audio_handle, taken>>
    BY <1>9 DEF StartSpawn, speech
  <2> QED BY <1>1, <2>1 DEF StageInv, Fresh
<1> QED BY <1>3, <1>4, <1>5, <1>6, <1>7, <1>8, <1>9, <1>10 DEF StartStep

\* What a step of the speech task of s makes of it.
LEMMA SttMoves ==
    ASSUME TypeInv, NEW s \in Starts, SttStep(s)
    PROVE  /\ sttPc[s] \notin {"off", "ended"} /\ sttPc'[s] # "off"
           /\ doneNotify'[s] => doneNotify[s] \/ sttPc'[s] = "ended"
           /\ stt_error' = stt_error \/ (stt_error' = s /\ sttPc'[s] = "ended")
           /\ \A t \in Starts \ {s} : sttPc'[t] = sttPc[t] /\ doneNotify'[t] = doneNotify[t]
           /\ \/ accumulated_text' = accumulated_text
              \/ ShouldFinalize(s) /\ accumulated_text' = accumulated_text \cup {s}
<1>1. /\ sttPc \in [Starts -> {"off", "loop", "select", "sending", "closing", "ended"}]
      /\ doneNotify \in [Starts -> BOOLEAN]
  BY DEF TypeInv, TypeOK, CallsOK
<1>2. CASE SttAborted(s)
  BY <1>1, <1>2 DEF SttAborted, speech
<1>3. CASE ~SttAborted(s)
  <2>1. /\ sttPc[s] \notin {"off", "ended"}
        /\ stt_error' = stt_error \/ (stt_error' = s /\ SttGo(s, "ended"))
        /\ \/ accumulated_text' = accumulated_text
           \/ ShouldFinalize(s) /\ accumulated_text' = accumulated_text \cup {s}
    BY <1>3 DEF SttStep, SttBegin, SttChunk, SttSent, SttClosed, SttText, SttSilence,
       SttError,
       speech
  <2>2. PICK l : SttGo(s, l) /\ l # "off" /\ (stt_error' # stt_error => l = "ended")
    BY <1>3, <2>1 DEF SttStep, SttBegin, SttChunk, SttSent, SttClosed, SttText, SttSilence,
       SttError,
       speech, LoopTop
  <2>3. /\ sttPc' = [sttPc EXCEPT ![s] = l]
        /\ doneNotify' = [doneNotify EXCEPT ![s] = @ \/ l = "ended"]
    BY <2>2 DEF SttGo
  <2>4. sttPc'[s] = l /\ doneNotify'[s] = (doneNotify[s] \/ l = "ended")
    BY <1>1, <2>3
  <2>5. \A t \in Starts \ {s} : sttPc'[t] = sttPc[t] /\ doneNotify'[t] = doneNotify[t]
    BY <1>1, <2>3
  <2> QED BY <2>1, <2>2, <2>4, <2>5
<1> QED BY <1>2, <1>3

LEMMA StageStep == HandoverInv /\ StageInv /\ [Next]_vars => StageInv'
<1> SUFFICES ASSUME HandoverInv, StageInv, [Next]_vars PROVE StageInv'
  OBVIOUS
<1>0. /\ taken \in [Tasks -> [session : RunOrNone, audio : RunOrNone,
                              preload : RunOrNone, target : RunOrNone]]
      /\ doneNotify \in [Starts -> BOOLEAN]
      /\ \A s \in Starts : sttPc[s] # "off" => startPc[s] = "done"
      /\ None \notin Starts
  BY CallsAssumption DEF HandoverInv, TypeInv, TypeOK, CallsOK, StageInv, Tasks, Stoppers
<1>1. CASE /\ UNCHANGED <<startPc, id, audio_handle, capture, sttPc, doneNotify, taken>>
           /\ stt_session' \in {stt_session, None} /\ stt_error' \in {stt_error, None}
  BY <1>0, <1>1, StageKeep DEF Fresh
<1>2. CASE UNCHANGED vars
  BY <1>1, <1>2 DEF vars, slots, tasks, starts, stt, speech
<1>3. ASSUME NEW s \in Starts, StartClaim(s) \/ StartRefused(s) \/ StartStep(s)
      PROVE  StageInv'
  BY <1>3, StageStart
<1>4. ASSUME NEW s \in Starts, SttStep(s)
      PROVE  StageInv'
  <2>1. UNCHANGED <<startPc, id, audio_handle, capture, taken, stt_session>>
    BY <1>4 DEF SttStep, slots, tasks, starts
  <2>2. startPc[s] = "done"
    BY <1>0, <1>4, SttMoves DEF HandoverInv
  <2>3. \A t \in Starts : /\ sttPc'[t] = "off" <=> sttPc[t] = "off"
                          /\ doneNotify'[t] => doneNotify[t] \/ startPc[t] = "done"
                          /\ stt_error' = t => stt_error = t \/ startPc[t] = "done"
    BY <1>4, <2>2, SttMoves DEF HandoverInv
  <2>4. \A t \in Starts : Fresh(t)' <=> Fresh(t)
    BY <2>1 DEF Fresh
  <2> HIDE DEF Fresh
  <2> QED BY <2>1, <2>3, <2>4, StageKeep
<1>5. ASSUME NEW s \in Starts, DeadlineStep(s)
      PROVE  StageInv'
  BY <1>1, <1>5 DEF DeadlineStep, slots, starts, stt, speech
<1>6. ASSUME NEW p \in Tasks, StopClaim(p) \/ StopRefused(p) \/ StopStep(p)
      PROVE  StageInv'
  <2>1. CASE StopClaim(p) \/ StopDisarm(p) \/ StopFreeze(p)
    <3>1. /\ UNCHANGED <<startPc, id, audio_handle, capture, sttPc, doneNotify, stt_session,
                         stt_error>>
          /\ \A q \in Tasks : taken'[q].session = taken[q].session
      BY <2>1, FreezesTarget DEF HandoverInv, StopClaim, StopDisarm, StopFreeze, slots, starts,
         stt, speech
    <3>2. \A t \in Starts : Fresh(t)' <=> Fresh(t)
      BY <3>1 DEF Fresh
    <3> QED BY <3>1, <3>2, StageKeep
  <2>2. CASE StopTake(p)
    <3>1. /\ UNCHANGED <<startPc, id, sttPc, doneNotify, stt_session, stt_error>>
          /\ capture' = CloseStored /\ audio_handle' = None
      BY <2>2 DEF StopTake, starts, stt, speech
    <3>2. /\ taken'[p].session = stt_session
          /\ \A q \in Tasks \ {p} : taken'[q] = taken[q]
      BY <1>0, <2>2 DEF StopTake
    <3>3. \A t \in Starts : Fresh(t) => Fresh(t)' \/ sttPc[t] # "off"
      BY <3>2 DEF Fresh, StageInv
    <3>4. \A t \in Starts : capture'[t] = "none" <=> capture[t] = "none"
      BY <3>1, ClosedStays DEF HandoverInv
    <3> QED BY <3>1, <3>3, <3>4, StageKeep
  <2>3. CASE StopNotified(p)
    <3>1. /\ UNCHANGED <<startPc, id, sttPc, stt_session, stt_error, audio_handle, capture, taken>>
          /\ doneNotify' = [doneNotify EXCEPT ![Run(p)] = FALSE]
      BY <2>3 DEF StopNotified, starts, slots, speech
    <3>2. \A t \in Starts : doneNotify'[t] => doneNotify[t]
      BY <1>0, <3>1
    <3>3. \A t \in Starts : Fresh(t)' <=> Fresh(t)
      BY <3>1 DEF Fresh
    <3> QED BY <3>1, <3>2, <3>3, StageKeep
  <2>4. CASE \/ StopRefused(p) \/ StopTimeout(p) \/ StopCancelled(p) \/ StopFailed(p)
             \/ StopChecked(p) \/ StopRead(p) \/ StopNoSpeech(p) \/ StopClear(p)
    BY <1>1, <2>4 DEF StopRefused, StopTimeout, StopCancelled, StopFailed, StopChecked,
       StopRead, StopNoSpeech, StopClear, ClearSttSession, starts, slots, stt, speech
  <2> QED BY <1>6, <2>1, <2>2, <2>3, <2>4 DEF StopStep
<1>7. ASSUME NEW p \in Tasks, TailStep(p)
      PROVE  StageInv'
  BY <1>1, <1>7 DEF TailStep, PolishStart, PolishAnswered, OutputStart, OutputDone,
     OutputSkipped, RunFinish, ClearSttSession, starts, slots, stt, speech
<1>8. ASSUME NEW d \in Drafts, DraftClaim(d) \/ DraftRefused(d)
      PROVE  StageInv'
  BY <1>1, <1>8 DEF DraftClaim, DraftRefused, starts, slots, stt, speech
<1>9. ASSUME NEW a \in Aborts, AbortFlag(a) \/ AbortStep(a)
      PROVE  StageInv'
  <2>1. CASE AbortFlag(a) \/ AbortSession(a) \/ AbortDisarm(a) \/ AbortClear(a) \/ AbortIdle(a)
    BY <1>1, <2>1 DEF AbortFlag, AbortSession, AbortDisarm, AbortClear, AbortIdle, starts, slots,
       stt, speech, tasks
  <2>2. CASE AbortClose(a)
    <3>1. /\ UNCHANGED <<startPc, id, sttPc, doneNotify, stt_session, stt_error, taken>>
          /\ capture' = CloseStored /\ audio_handle' = None
      BY <2>2 DEF AbortClose, starts, stt, speech, tasks
    <3>2. \A t \in Starts : capture'[t] = "none" <=> capture[t] = "none"
      BY <3>1, ClosedStays DEF HandoverInv
    <3>3. \A t \in Starts : Fresh(t)' <=> Fresh(t)
      BY <3>1 DEF Fresh
    <3> QED BY <3>1, <3>2, <3>3, StageKeep
  <2>3. CASE AbortNotify(a)
    <3>1. /\ UNCHANGED <<startPc, id, capture, audio_handle, sttPc, stt_session, stt_error, taken>>
          /\ doneNotify' \in {doneNotify, [doneNotify EXCEPT ![stt_session] = TRUE]}
      BY <2>3 DEF AbortNotify, starts, slots, speech, tasks
    <3>2. \A t \in Starts : doneNotify'[t] => doneNotify[t] \/ startPc[t] = "done"
      BY <1>0, <3>1 DEF StageInv
    <3>3. \A t \in Starts : Fresh(t)' <=> Fresh(t)
      BY <3>1 DEF Fresh
    <3> QED BY <3>1, <3>2, <3>3, StageKeep
  <2> QED BY <1>9, <2>1, <2>2, <2>3 DEF AbortStep
<1>10. CASE AllDone
  BY <1>2, <1>10 DEF AllDone
<1> QED BY <1>2, <1>3, <1>4, <1>5, <1>6, <1>7, <1>8, <1>9, <1>10 DEF Next

\* What is remembered of the runs only grows.
LEMMA HistoryGrows ==
    ASSUME [Next]_vars
    PROVE  /\ cancelled \subseteq cancelled' /\ overtaken \subseteq overtaken'
           /\ timedOut \subseteq timedOut' /\ slipped \subseteq slipped'
<1>1. CASE UNCHANGED history
  BY <1>1 DEF history
<1>2. ASSUME NEW s \in Starts, StartClaim(s) \/ StartRefused(s) \/ StartStep(s)
      PROVE  UNCHANGED <<cancelled, overtaken, timedOut, slipped>>
  BY <1>2 DEF StartClaim, StartRefused, StartStep, StartNotReady, StartPrepare, StartFail,
     StartConnected, StartStoreHandle, StartUndo, StartKeep, StartSession, StartArm,
     StartOperation, StartShow, StartSpawn, StartGiveUp, history
<1>3. ASSUME NEW s \in Starts, SttStep(s) \/ DeadlineStep(s)
      PROVE  UNCHANGED history
  BY <1>3 DEF SttStep, DeadlineStep
<1>4. ASSUME NEW p \in Tasks, ShowIdle(p), timedOut \subseteq timedOut'
      PROVE  /\ cancelled \subseteq cancelled' /\ overtaken \subseteq overtaken'
             /\ slipped \subseteq slipped'
  BY <1>4 DEF ShowIdle
<1>5. ASSUME NEW p \in Tasks, StopClaim(p) \/ StopRefused(p) \/ StopStep(p) \/ TailStep(p)
      PROVE  \/ ShowIdle(p) /\ timedOut \subseteq timedOut'
             \/ UNCHANGED <<cancelled, overtaken, timedOut, slipped>>
  BY <1>5 DEF StopClaim, StopDisarm, StopFreeze, StopRefused, StopStep, StopTake, StopNotified, StopTimeout,
     StopCancelled, StopFailed, StopChecked, StopRead, StopNoSpeech, StopClear, TailStep,
     PolishStart, PolishAnswered, OutputStart, OutputDone, OutputSkipped, RunFinish, history
<1>6. ASSUME NEW d \in Drafts, DraftClaim(d) \/ DraftRefused(d)
      PROVE  UNCHANGED <<cancelled, overtaken, timedOut, slipped>>
  BY <1>6 DEF DraftClaim, DraftRefused, history
<1>7. ASSUME NEW a \in Aborts, AbortFlag(a) \/ AbortStep(a)
      PROVE  /\ cancelled \subseteq cancelled' /\ overtaken \subseteq overtaken'
             /\ timedOut \subseteq timedOut' /\ slipped \subseteq slipped'
  BY <1>7 DEF AbortFlag, AbortStep, AbortSession, AbortDisarm, AbortClose, AbortNotify, AbortClear,
     AbortIdle, NowOvertaken, NowSlipped, history
<1>8. CASE AllDone \/ UNCHANGED vars
  BY <1>1, <1>8 DEF AllDone, vars
<1> QED BY <1>1, <1>2, <1>3, <1>4, <1>5, <1>6, <1>7, <1>8 DEF Next

\* The speech task of s adds no more words: it has ended, or its session is not the active one.
Silent(s) == sttPc[s] = "ended" \/ id[s] < active_stt_session_id

\* done is notified, and an error latched, for a silent task, or by a late abort(); a stop() that
\* has waited for its task has such a one.
Past(s) == Silent(s) \/ s \in slipped
SilentInv ==
    /\ \A s \in Starts : doneNotify[s] \/ stt_error = s => Past(s)
    /\ \A p \in Stoppers : AtWork(p) => taken[p].session \in Starts
    /\ \A p \in Stoppers : AtWork(p) /\ pc[p] # "wait" => Past(taken[p].session)
    /\ \A d \in Drafts : pc[d] # "read"

\* Sessions are numbered upwards, and a task that has ended is not begun again.
LEMMA SilentStays ==
    ASSUME HandoverInv, StageInv, [Next]_vars, NEW s \in Starts, startPc[s] = "done"
    PROVE  /\ (Silent(s) => Silent(s)') /\ (Past(s) => Past(s)')
           /\ id'[s] = id[s] /\ active_stt_session_id' >= active_stt_session_id
<1>1. /\ startPc \in [Starts -> {"ready", "claimed", "connecting", "store",
                                 "stored", "record", "arm", "operation", "show", "spawn", "done"}]
      /\ id \in [Starts -> 0 .. active_stt_session_id] /\ active_stt_session_id \in Nat
      /\ sttPc \in [Starts -> {"off", "loop", "select", "sending", "closing", "ended"}]
  BY DEF HandoverInv, TypeInv, TypeOK, SharedOK, CallsOK
<1> DEFINE Stays == /\ id'[s] = id[s] /\ active_stt_session_id' \in Nat
                    /\ active_stt_session_id' >= active_stt_session_id
                    /\ sttPc[s] = "ended" => sttPc'[s] = "ended"
<1>2. SUFFICES Stays
  BY <1>1, HistoryGrows DEF Silent, Past
<1>3. CASE UNCHANGED <<id, sttPc, active_stt_session_id>>
  BY <1>1, <1>3
<1>4. ASSUME NEW t \in Starts, StartClaim(t) \/ StartRefused(t) \/ StartStep(t)
      PROVE  Stays
  <2>1. CASE StartSession(t)
    BY <1>1, <2>1 DEF StartSession, StageInv, stt
  <2>2. CASE StartSpawn(t)
    BY <1>1, <2>2 DEF StartSpawn, sessions
  <2>3. CASE ~StartSession(t) /\ ~StartSpawn(t)
    BY <1>3, <1>4, <2>3 DEF StartClaim, StartRefused, StartStep, StartNotReady, StartPrepare,
       StartFail, StartConnected, StartStoreHandle, StartUndo, StartKeep, StartArm,
       StartOperation, StartShow, StartGiveUp, stt, starts, sessions
  <2> QED BY <2>1, <2>2, <2>3
<1>5. ASSUME NEW t \in Starts, SttStep(t)
      PROVE  Stays
  <2>1. UNCHANGED <<id, active_stt_session_id>>
    BY <1>5 DEF SttStep, starts, sessions
  <2> QED BY <1>1, <1>5, <2>1, SttMoves DEF HandoverInv
<1>6. ASSUME NEW t \in Starts, DeadlineStep(t)
      PROVE  Stays
  BY <1>3, <1>6 DEF DeadlineStep, starts, stt, sessions
<1>7. ASSUME NEW p \in Tasks, StopClaim(p) \/ StopRefused(p) \/ StopStep(p) \/ TailStep(p)
      PROVE  Stays
  BY <1>3, <1>7 DEF StopClaim, StopDisarm, StopFreeze, StopRefused, StopStep, StopTake, StopNotified, StopTimeout,
     StopCancelled, StopFailed, StopChecked, StopRead, StopNoSpeech, StopClear, TailStep,
     PolishStart, PolishAnswered, OutputStart, OutputDone, OutputSkipped, RunFinish,
     starts, stt, sessions
<1>8. ASSUME NEW d \in Drafts, DraftClaim(d) \/ DraftRefused(d)
      PROVE  Stays
  BY <1>3, <1>8 DEF DraftClaim, DraftRefused, starts, stt, sessions
<1>9. ASSUME NEW a \in Aborts, AbortFlag(a) \/ AbortStep(a)
      PROVE  Stays
  BY <1>1, <1>3, <1>9 DEF AbortFlag, AbortStep, AbortSession, AbortDisarm, AbortClose, AbortNotify,
     AbortClear, AbortIdle, StaleSession, starts, stt, sessions
<1>10. CASE AllDone \/ UNCHANGED vars
  BY <1>3, <1>10 DEF AllDone, vars, starts, stt, sessions
<1> QED BY <1>4, <1>5, <1>6, <1>7, <1>8, <1>9, <1>10 DEF Next

\* A step that notifies and latches nothing and takes no stop() on past its wait.
LEMMA SilentKeep ==
    ASSUME HandoverInv, StageInv, SilentInv, [Next]_vars,
           \A s \in Starts : doneNotify'[s] => doneNotify[s] \/ Past(s)',
           \A s \in Starts : stt_error' = s => stt_error = s \/ Past(s)',
           \A p \in Stoppers :
             AtWork(p)' => /\ taken'[p].session \in Starts
                           /\ pc'[p] # "wait" => \/ Past(taken[p].session)'
                                                 \/ /\ AtWork(p) /\ pc[p] # "wait"
                                                    /\ taken'[p].session = taken[p].session,
           \A d \in Drafts : pc'[d] # "read"
    PROVE  SilentInv'
<1>1. \A s \in Starts : doneNotify[s] \/ stt_error = s => startPc[s] = "done"
  BY DEF StageInv
<1>2. \A p \in Stoppers : taken[p].session \in Starts => startPc[taken[p].session] = "done"
  BY DEF HandoverInv, StartInv, Fresh, Tasks
<1>3. \A s \in Starts : startPc[s] = "done" /\ Past(s) => Past(s)'
  BY SilentStays
<1>4. \A s \in Starts : doneNotify'[s] \/ stt_error' = s => Past(s)'
  BY <1>1, <1>3 DEF SilentInv
<1>5. ASSUME NEW p \in Stoppers, AtWork(p)', pc'[p] # "wait" PROVE Past(taken[p].session)'
  <2>1. CASE AtWork(p) /\ pc[p] # "wait" /\ taken'[p].session = taken[p].session
    <3>1. PICK s \in Starts : s = taken[p].session
      BY <2>1 DEF SilentInv
    <3>2. Past(s)'
      BY <1>2, <1>3, <2>1, <3>1 DEF SilentInv
    <3> QED BY <2>1, <3>1, <3>2
  <2> QED BY <1>5, <2>1
<1> QED BY <1>4, <1>5 DEF SilentInv

LEMMA SilentStep == HandoverInv /\ StageInv /\ SilentInv /\ [Next]_vars => SilentInv'
<1> SUFFICES ASSUME HandoverInv, StageInv, SilentInv, [Next]_vars PROVE SilentInv'
  OBVIOUS
<1>0. /\ pc \in [Tasks -> {"off", "armed", "ready", "disarm", "freeze", "selection", "wait", "check",
                           "read", "polish", "llm", "deliver", "output",
                           "finish", "clear", "done"}]
      /\ taken \in [Tasks -> [session : RunOrNone, audio : RunOrNone,
                              preload : RunOrNone, target : RunOrNone]]
      /\ doneNotify \in [Starts -> BOOLEAN]
      /\ Stoppers \subseteq Tasks /\ Starts \subseteq Stoppers /\ Drafts \subseteq Tasks
      /\ Drafts \cap Stoppers = {}
      /\ None \notin Starts
  BY CallsAssumption DEF HandoverInv, TypeInv, TypeOK, CallsOK, Tasks, Stoppers
<1>1. CASE /\ UNCHANGED <<doneNotify, pc, taken>>
           /\ stt_error' \in {stt_error, None}
  BY <1>0, <1>1, SilentKeep DEF AtWork, SilentInv
\* A step that moves one task on: no further than from where it was past its wait.
<1>2. ASSUME NEW p \in Tasks, NEW l, pc' = [pc EXCEPT ![p] = l], UNCHANGED <<doneNotify, taken>>,
             stt_error' \in {stt_error, None},
             \/ l \in {"armed", "ready", "disarm", "freeze", "selection", "clear", "done"}
             \/ p \in Drafts /\ l # "read"
             \/ AtWork(p) /\ pc[p] # "wait" /\ (l = "read" => pc[p] = "check")
      PROVE  SilentInv'
  <2>1. \A q \in Stoppers : AtWork(q)' => AtWork(q) /\ (pc'[q] # "wait" => pc[q] # "wait")
    BY <1>0, <1>2 DEF AtWork
  <2>2. \A d \in Drafts : pc'[d] # "read"
    BY <1>0, <1>2 DEF SilentInv, HandoverInv, TypeInv, WaitsForRun
  <2> QED BY <1>0, <1>2, <2>1, <2>2, SilentKeep DEF SilentInv
<1>3. CASE UNCHANGED vars
  BY <1>1, <1>3 DEF vars, tasks, stt, speech
<1>4. ASSUME NEW s \in Starts, StartClaim(s) \/ StartRefused(s) \/ StartStep(s)
      PROVE  SilentInv'
  <2>1. CASE StartSpawn(s)
    <3>1. /\ pc' = [pc EXCEPT ![s] = "armed"] /\ s \in Tasks
          /\ UNCHANGED <<doneNotify, taken, stt_error>>
      BY <1>0, <2>1 DEF StartSpawn, Go, speech
    <3> QED BY <1>2, <3>1
  <2>2. CASE ~StartSpawn(s)
    BY <1>1, <1>4, <2>2 DEF StartClaim, StartRefused, StartStep, StartNotReady, StartPrepare,
       StartFail, StartConnected, StartStoreHandle, StartUndo, StartKeep, StartSession,
       StartArm, StartOperation, StartShow, StartGiveUp, tasks, stt, speech
  <2> QED BY <2>1, <2>2
<1>5. ASSUME NEW s \in Starts, SttStep(s)
      PROVE  SilentInv'
  <2>1. UNCHANGED <<pc, taken>>
    BY <1>5 DEF SttStep, tasks
  <2>2. /\ \A t \in Starts : doneNotify'[t] => doneNotify[t] \/ Past(t)'
        /\ \A t \in Starts : stt_error' = t => stt_error = t \/ Past(t)'
    BY <1>5, SttMoves DEF HandoverInv, Past, Silent
  <2> QED BY <2>1, <2>2, SilentKeep DEF AtWork, SilentInv
<1>6. ASSUME NEW s \in Starts, DeadlineStep(s)
      PROVE  SilentInv'
  <2>1. PICK l \in {"ready", "done"} : pc' = [pc EXCEPT ![s] = l]
    BY <1>6 DEF DeadlineStep, DeadlineReached, DeadlineStale, Go
  <2>2. UNCHANGED <<doneNotify, taken, stt_error>> /\ s \in Tasks
    BY <1>0, <1>6 DEF DeadlineStep, stt, speech
  <2> QED BY <1>2, <2>1, <2>2
<1>7. ASSUME NEW p \in Tasks, StopClaim(p) \/ StopRefused(p) \/ StopStep(p)
      PROVE  SilentInv'
  <2>1. CASE StopClaim(p) \/ StopDisarm(p) \/ StopFreeze(p)
    <3>1. /\ \E l \in {"disarm", "freeze", "selection"} : pc' = [pc EXCEPT ![p] = l]
          /\ UNCHANGED <<doneNotify, stt_error>>
          /\ \A q \in Tasks : taken'[q].session = taken[q].session
      BY <2>1, FreezesTarget DEF HandoverInv, StopClaim, StopDisarm, StopFreeze, Go, stt, speech
    <3>2. \A q \in Tasks : AtWork(q)' => AtWork(q) /\ (pc'[q] # "wait" => pc[q] # "wait")
      BY <1>0, <3>1 DEF AtWork
    <3>3. \A d \in Drafts : pc'[d] # "read"
      BY <1>0, <3>1 DEF SilentInv
    <3> QED BY <1>0, <3>1, <3>2, <3>3, SilentKeep DEF SilentInv
  <2>2. CASE StopTake(p)
    <3>1. PICK s \in Starts : stt_session = s
      BY <2>2 DEF StopTake, HandoverInv, SelectionInv
    <3>2. pc' = [pc EXCEPT ![p] = "wait"] /\ UNCHANGED <<doneNotify, stt_error>>
      BY <1>0, <2>2, <3>1 DEF StopTake, Go, stt, speech
    <3>3. taken'[p].session = s /\ \A q \in Tasks \ {p} : taken'[q] = taken[q]
      BY <1>0, <2>2, <3>1 DEF StopTake
    <3>4. pc'[p] = "wait" /\ \A q \in Tasks \ {p} : pc'[q] = pc[q]
      BY <1>0, <3>2
    <3>5. ASSUME NEW q \in Stoppers, AtWork(q)'
          PROVE  /\ taken'[q].session \in Starts
                 /\ pc'[q] # "wait" => \/ Past(taken[q].session)'
                                       \/ /\ AtWork(q) /\ pc[q] # "wait"
                                          /\ taken'[q].session = taken[q].session
      BY <1>0, <3>3, <3>4, <3>5 DEF AtWork, SilentInv
    <3>6. \A d \in Drafts : pc'[d] # "read"
      BY <1>0, <3>2 DEF SilentInv
    <3> QED BY <3>2, <3>5, <3>6, SilentKeep
  <2>3. CASE StopNotified(p)
    <3>1. PICK s \in Starts : s = taken[p].session /\ Run(p) = s
      BY <2>3, CallsAssumption DEF StopNotified, Run, HandoverInv, TypeInv, WaitsForRun
    <3>2. /\ pc' = [pc EXCEPT ![p] = "check"] /\ UNCHANGED <<taken, stt_error>>
          /\ pc[p] = "wait" /\ doneNotify[s]
          /\ doneNotify' = [doneNotify EXCEPT ![s] = FALSE]
      BY <2>3, <3>1 DEF StopNotified, Go, speech
    <3>3. Past(s)'
      BY <3>2, SilentStays DEF SilentInv, StageInv
    <3>4. Past(taken[p].session)'
      BY <3>1, <3>2, <3>3
    <3>5. \A t \in Starts : doneNotify'[t] => doneNotify[t]
      BY <1>0, <3>2
    <3>6. pc'[p] = "check" /\ \A q \in Tasks \ {p} : pc'[q] = pc[q]
      BY <1>0, <3>2
    <3>7. ASSUME NEW q \in Stoppers, AtWork(q)'
          PROVE  /\ taken'[q].session \in Starts
                 /\ pc'[q] # "wait" => \/ Past(taken[q].session)'
                                       \/ /\ AtWork(q) /\ pc[q] # "wait"
                                          /\ taken'[q].session = taken[q].session
      <4>1. CASE q = p
        BY <3>1, <3>2, <3>4, <4>1
      <4>2. CASE q # p
        BY <1>0, <3>2, <3>6, <3>7, <4>2 DEF AtWork, SilentInv
      <4> QED BY <4>1, <4>2
    <3>8. \A d \in Drafts : pc'[d] # "read"
      BY <1>0, <3>2 DEF SilentInv
    <3> QED BY <3>2, <3>5, <3>7, <3>8, SilentKeep
  <2>4. CASE \/ StopRefused(p) \/ StopTimeout(p) \/ StopCancelled(p) \/ StopFailed(p)
             \/ StopChecked(p) \/ StopRead(p) \/ StopNoSpeech(p) \/ StopClear(p)
    <3> USE DEF StopRefused, StopTimeout, StopCancelled, StopFailed, StopChecked, StopRead,
        StopNoSpeech, StopClear
    <3>1. PICK l : /\ pc' = [pc EXCEPT ![p] = l]
                   /\ \/ l \in {"clear", "done"}
                      \/ AtWork(p) /\ pc[p] # "wait" /\ (l = "read" => pc[p] = "check")
      BY <2>4 DEF Go, AtWork
    <3>2. UNCHANGED <<doneNotify, taken>> /\ stt_error' \in {stt_error, None}
      BY <2>4 DEF stt, speech
    <3> HIDE DEF StopRefused, StopTimeout, StopCancelled, StopFailed, StopChecked, StopRead,
        StopNoSpeech, StopClear
    <3> QED BY <1>2, <3>1, <3>2
  <2> QED BY <1>7, <2>1, <2>2, <2>3, <2>4 DEF StopStep
<1>8. ASSUME NEW p \in Tasks, TailStep(p)
      PROVE  SilentInv'
  <2> USE DEF TailStep, PolishStart, PolishAnswered, OutputStart, OutputDone, OutputSkipped,
      RunFinish
  <2>1. PICK l : pc' = [pc EXCEPT ![p] = l] /\ AtWork(p) /\ pc[p] # "wait" /\ l # "read"
    BY <1>8 DEF Go, AtWork
  <2>2. UNCHANGED <<doneNotify, taken, stt_error>>
    BY <1>8 DEF stt, speech
  <2> HIDE DEF TailStep
  <2> QED BY <1>2, <2>1, <2>2
<1>9. ASSUME NEW d \in Drafts, DraftClaim(d) \/ DraftRefused(d)
      PROVE  SilentInv'
  <2>1. PICK l \in {"polish", "done"} : pc' = [pc EXCEPT ![d] = l]
    BY <1>9 DEF DraftClaim, DraftRefused, Go
  <2>2. UNCHANGED <<doneNotify, taken, stt_error>> /\ d \in Tasks
    BY <1>0, <1>9 DEF DraftClaim, DraftRefused, stt, speech
  <2> QED BY <1>2, <2>1, <2>2
<1>10. ASSUME NEW a \in Aborts, AbortFlag(a) \/ AbortStep(a)
      PROVE  SilentInv'
  <2>1. CASE AbortFlag(a) \/ AbortSession(a) \/ AbortDisarm(a) \/ AbortClose(a) \/ AbortClear(a)
             \/ AbortIdle(a)
    BY <1>1, <2>1 DEF AbortFlag, AbortSession, AbortDisarm, AbortClose, AbortClear, AbortIdle,
       tasks, stt, speech
  <2>2. CASE AbortNotify(a)
    <3>1. /\ UNCHANGED <<pc, taken, stt_error, id, active_stt_session_id>>
          /\ \/ UNCHANGED doneNotify
             \/ /\ stt_session \in Starts
                /\ doneNotify' = [doneNotify EXCEPT ![stt_session] = TRUE]
          /\ slipped' = slipped \cup
               {s \in Starts : s = stt_session /\ id[s] = active_stt_session_id}
      BY <2>2 DEF AbortNotify, HandoverInv, TypeInv, TypeOK, SharedOK, RunOrNone, tasks, speech,
         starts, sessions
    <3>2. /\ \A t \in Starts : id[t] \in 0 .. active_stt_session_id
          /\ active_stt_session_id \in Nat
      BY DEF HandoverInv, TypeInv, TypeOK, SharedOK, CallsOK
    <3>3. ASSUME NEW t \in Starts, doneNotify'[t], ~doneNotify[t] PROVE Past(t)'
      <4>1. t = stt_session
        BY <1>0, <3>1, <3>3
      <4>2. CASE id[t] = active_stt_session_id
        BY <3>1, <4>1, <4>2 DEF Past
      <4>3. CASE id[t] < active_stt_session_id
        BY <3>1, <4>3 DEF Past, Silent
      <4> QED BY <3>2, <4>2, <4>3
    <3> QED BY <3>1, <3>3, SilentKeep DEF AtWork, SilentInv
  <2> QED BY <1>10, <2>1, <2>2 DEF AbortStep
<1>11. CASE AllDone
  BY <1>3, <1>11 DEF AllDone
<1> QED BY <1>3, <1>4, <1>5, <1>6, <1>7, <1>8, <1>9, <1>10, <1>11 DEF Next

\* Runs that may add words when the app takes them for over.
Over == timedOut \cup slipped

\* The speech task of s adds words, or will once it is spawned.
Speaks(s) ==
    \/ startPc[s] \notin {"ready", "arm", "operation", "show", "spawn", "done"}
    \/ /\ startPc[s] \in {"arm", "operation", "show", "spawn"} \/ sttPc[s] \notin {"off", "ended"}
       /\ id[s] = active_stt_session_id

\* Only the run that the app shows speaks, and those that are exempt.
SpeaksInv == \A s \in Starts : Speaks(s) => s \in Over \/ (owner = s /\ state # "Idle")

LEMMA SpeaksKeep ==
    ASSUME SpeaksInv, UNCHANGED owner, timedOut \subseteq timedOut', slipped \subseteq slipped',
           \A s \in Starts : Speaks(s)' => Speaks(s),
           \/ state # "Idle" => state' # "Idle"
           \/ owner \in Starts /\ state # "Idle" => owner \in Over' \/ ~Speaks(owner)'
    PROVE  SpeaksInv'
  BY DEF SpeaksInv, Over

\* The end of task p: its run is silent or exempt, and one that it hides becomes exempt.
LEMMA SpeaksEnd ==
    ASSUME HandoverInv, SilentInv, SpeaksInv, NEW p \in Tasks, ShowIdle(p), AtWork(p),
           UNCHANGED <<startPc, id, sttPc, active_stt_session_id>>,
           timedOut \subseteq timedOut', pc[p] = "wait" => Run(p) \in timedOut'
    PROVE  SpeaksInv'
<1>1. /\ UNCHANGED owner
      /\ slipped' = slipped \cup ((UnderWay \cap Starts) \ {Run(p)})
  BY DEF ShowIdle
<1>2. \A s \in Starts : Speaks(s)' => Speaks(s)
  BY DEF Speaks
<1>3. ASSUME owner \in Starts, state # "Idle" PROVE owner \in Over' \/ ~Speaks(owner)'
  <2>1. CASE owner # Run(p)
    BY <1>1, <1>3, <2>1 DEF UnderWay, Over
  <2>2. CASE owner = Run(p) /\ pc[p] = "wait"
    BY <2>2 DEF Over
  <2>3. CASE owner = Run(p) /\ pc[p] # "wait"
    <3>1. p \in Stoppers /\ owner = taken[p].session
      BY <1>3, <2>3, CallsAssumption DEF Run, Tasks, Stoppers
    <3>2. Silent(owner) \/ owner \in Over'
      BY <1>1, <2>3, <3>1 DEF SilentInv, Past, Over
    <3>3. startPc[owner] = "done"
      BY <1>3, <3>1 DEF HandoverInv, StartInv, Fresh
    <3>4. id[owner] \in Nat /\ active_stt_session_id \in Nat
      BY <1>3 DEF HandoverInv, TypeInv, TypeOK, SharedOK, CallsOK
    <3> QED BY <1>1, <3>2, <3>3, <3>4 DEF Speaks, Silent
  <2> QED BY <2>1, <2>2, <2>3
<1> QED BY <1>1, <1>2, <1>3, SpeaksKeep

LEMMA SpeaksStart ==
    ASSUME HandoverInv, OwnInv, StageInv, SpeaksInv, NEW s \in Starts,
           StartClaim(s) \/ StartRefused(s) \/ StartStep(s)
    PROVE  SpeaksInv'
<1> USE DEF GoStart
<1>1. /\ startPc \in [Starts -> {"ready", "claimed", "connecting", "store",
                                 "stored", "record", "arm", "operation", "show", "spawn", "done"}]
      /\ id \in [Starts -> 0 .. active_stt_session_id] /\ active_stt_session_id \in Nat
      /\ sttPc \in [Starts -> {"off", "loop", "select", "sending", "closing", "ended"}]
  BY DEF HandoverInv, TypeInv, TypeOK, SharedOK, CallsOK
<1>2. startPc[s] # "done" => sttPc[s] = "off"
  BY DEF StageInv
<1>3. CASE StartClaim(s)
  <2>1. /\ startPc' = [startPc EXCEPT ![s] = "claimed"] /\ owner' = s
        /\ state = "Idle" /\ state' = "Preparing"
        /\ UNCHANGED <<id, sttPc, active_stt_session_id, timedOut, slipped>>
    BY <1>3 DEF StartClaim, Exchange, stt, sessions
  <2>2. \A t \in Starts \ {s} : Speaks(t)' => Speaks(t)
    BY <1>1, <2>1 DEF Speaks
  <2> QED BY <2>1, <2>2 DEF SpeaksInv, Over
<1>4. CASE StartRefused(s)
  <2>1. /\ startPc[s] = "ready" /\ startPc' = [startPc EXCEPT ![s] = "done"]
        /\ UNCHANGED <<owner, state, id, sttPc, active_stt_session_id, timedOut, slipped>>
    BY <1>4 DEF StartRefused, phase, stt, sessions, history
  <2>2. \A t \in Starts : Speaks(t)' => Speaks(t)
    BY <1>1, <1>2, <2>1 DEF Speaks
  <2> QED BY <2>1, <2>2, SpeaksKeep
<1>5. CASE StartNotReady(s) \/ StartFail(s) \/ StartUndo(s)
  <2>1. /\ startPc[s] \notin {"ready", "arm", "operation", "show", "spawn", "done"}
        /\ startPc' = [startPc EXCEPT ![s] = "done"]
        /\ UNCHANGED <<owner, id, sttPc, active_stt_session_id, timedOut, slipped>>
    BY <1>5 DEF StartNotReady, StartFail, StartUndo, StartGiveUp, stt, sessions, history
  <2>2. \A t \in Starts : Speaks(t)' => Speaks(t) /\ t # s
    BY <1>1, <1>2, <2>1 DEF Speaks
  <2>3. owner \in {s} \cup Drafts /\ Starts \cap Drafts = {}
    BY <2>1, CallsAssumption DEF OwnInv, Busy, Stoppers
  <2> QED BY <2>1, <2>2, <2>3, SpeaksKeep
<1>6. CASE StartPrepare(s) \/ StartConnected(s) \/ StartStoreHandle(s) \/ StartKeep(s)
  <2>1. PICK l : /\ startPc[s] \notin {"ready", "arm", "operation", "show", "spawn", "done"}
                 /\ startPc' = [startPc EXCEPT ![s] = l]
                 /\ UNCHANGED <<owner, id, sttPc, active_stt_session_id, timedOut, slipped>>
                 /\ state # "Idle" => state' # "Idle"
    BY <1>6 DEF StartPrepare, StartConnected, StartStoreHandle, StartKeep, SetState,
       phase, stt, sessions, history
  <2>2. \A t \in Starts : Speaks(t)' => Speaks(t)
    BY <1>1, <1>2, <2>1 DEF Speaks
  <2> QED BY <2>1, <2>2, SpeaksKeep
<1>7. CASE StartSession(s)
  <2>1. /\ startPc[s] = "record" /\ startPc' = [startPc EXCEPT ![s] = "arm"]
        /\ active_stt_session_id' = active_stt_session_id + 1
        /\ id' = [id EXCEPT ![s] = active_stt_session_id + 1]
        /\ UNCHANGED <<owner, state, sttPc, timedOut, slipped>>
    BY <1>7 DEF StartSession, phase, stt, history
  <2>2. \A t \in Starts \ {s} : startPc[t] \in {"ready", "done"}
    BY <2>1, StartAlone
  <2>3. \A t \in Starts \ {s} : ~Speaks(t)'
    BY <1>1, <2>1, <2>2 DEF Speaks
  <2>4. Speaks(s)
    BY <2>1 DEF Speaks
  <2> QED BY <2>1, <2>3, <2>4, SpeaksKeep
<1>8. CASE StartSpawn(s)
  <2>1. /\ startPc[s] = "spawn" /\ startPc' = [startPc EXCEPT ![s] = "done"]
        /\ sttPc' = [sttPc EXCEPT ![s] = "loop"]
        /\ UNCHANGED <<owner, state, id, active_stt_session_id, timedOut, slipped>>
    BY <1>8 DEF StartSpawn, phase, sessions, history
  <2>2. \A t \in Starts : Speaks(t)' => Speaks(t)
    BY <1>1, <2>1 DEF Speaks
  <2> QED BY <2>1, <2>2, SpeaksKeep
<1>9. CASE StartArm(s) \/ StartOperation(s) \/ StartShow(s)
  <2>1. PICK l \in {"operation", "show", "spawn"} :
          /\ startPc[s] \in {"arm", "operation", "show"}
          /\ startPc' = [startPc EXCEPT ![s] = l]
    BY <1>9 DEF StartArm, StartOperation, StartShow
  <2>2. /\ UNCHANGED <<owner, id, sttPc, active_stt_session_id, timedOut, slipped>>
        /\ state # "Idle" => state' # "Idle"
    BY <1>9 DEF StartArm, StartOperation, StartShow, SetState, phase, stt, sessions, history
  <2>3. \A t \in Starts : Speaks(t)' => Speaks(t)
    BY <1>1, <2>1, <2>2 DEF Speaks
  <2> QED BY <2>2, <2>3, SpeaksKeep
<1> QED BY <1>3, <1>4, <1>5, <1>6, <1>7, <1>8, <1>9 DEF StartStep

LEMMA SpeaksStep ==
    HandoverInv /\ OwnInv /\ StageInv /\ SilentInv /\ SpeaksInv /\ [Next]_vars => SpeaksInv'
<1> SUFFICES ASSUME HandoverInv, OwnInv, StageInv, SilentInv, SpeaksInv, [Next]_vars
             PROVE  SpeaksInv'
  OBVIOUS
<1>1. CASE /\ UNCHANGED <<owner, startPc, id, sttPc, active_stt_session_id>>
           /\ timedOut \subseteq timedOut' /\ slipped \subseteq slipped'
           /\ state # "Idle" => state' # "Idle"
  BY <1>1, SpeaksKeep DEF Speaks
<1>2. CASE UNCHANGED vars
  BY <1>1, <1>2 DEF vars, phase, starts, stt, sessions, history
<1>3. ASSUME NEW s \in Starts, StartClaim(s) \/ StartRefused(s) \/ StartStep(s)
      PROVE  SpeaksInv'
  BY <1>3, SpeaksStart
<1>4. ASSUME NEW s \in Starts, SttStep(s)
      PROVE  SpeaksInv'
  <2>1. UNCHANGED <<owner, state, startPc, id, active_stt_session_id, timedOut, slipped>>
    BY <1>4 DEF SttStep, phase, starts, sessions, history
  <2>2. \A t \in Starts : Speaks(t)' => Speaks(t)
    BY <1>4, <2>1, SttMoves DEF Speaks, HandoverInv
  <2> QED BY <2>1, <2>2, SpeaksKeep
<1>5. ASSUME NEW s \in Starts, DeadlineStep(s)
      PROVE  SpeaksInv'
  BY <1>1, <1>5 DEF DeadlineStep, phase, starts, stt, sessions, history
<1>6. ASSUME NEW p \in Tasks, StopClaim(p) \/ StopRefused(p) \/ StopStep(p) \/ TailStep(p)
      PROVE  SpeaksInv'
  <2>1. CASE StopClaim(p) \/ StopDisarm(p) \/ StopFreeze(p)
    BY <1>1, <2>1 DEF StopClaim, StopDisarm, StopFreeze, Exchange, phase, starts, stt, sessions,
       history
  <2>2. CASE StopNotified(p)
    BY <1>1, <2>2 DEF StopNotified, phase, starts, sessions, history
  <2>3. CASE StopTimeout(p)
    <3>1. /\ ShowIdle(p) /\ pc[p] = "wait" /\ timedOut' = timedOut \cup {Run(p)}
          /\ UNCHANGED <<startPc, id, sttPc, active_stt_session_id>>
      BY <2>3 DEF StopTimeout, starts, sessions
    <3> QED BY <3>1, SpeaksEnd DEF AtWork
  <2>4. CASE StopFailed(p) \/ StopNoSpeech(p) \/ RunFinish(p)
    <3>1. /\ ShowIdle(p) /\ pc[p] \in {"check", "read", "finish"}
          /\ UNCHANGED <<startPc, id, sttPc, active_stt_session_id, timedOut>>
      BY <2>4 DEF StopFailed, StopNoSpeech, RunFinish, starts, sessions, stt
    <3> QED BY <3>1, SpeaksEnd DEF AtWork
  <2>5. CASE \/ StopRefused(p) \/ StopTake(p) \/ StopCancelled(p) \/ StopChecked(p)
             \/ StopRead(p) \/ StopClear(p)
    BY <1>1, <2>5 DEF StopRefused, StopTake, StopCancelled, StopChecked, StopRead, StopClear,
       phase, starts, stt, sessions, history
  <2>6. CASE TailStep(p) /\ ~RunFinish(p)
    BY <1>1, <2>6 DEF TailStep, PolishStart, PolishAnswered, OutputStart, OutputDone,
       OutputSkipped, SetState, phase, starts, stt, sessions, history
  <2> QED BY <1>6, <2>1, <2>2, <2>3, <2>4, <2>5, <2>6 DEF StopStep
<1>7. ASSUME NEW d \in Drafts, DraftClaim(d) \/ DraftRefused(d)
      PROVE  SpeaksInv'
  <2>1. CASE DraftClaim(d)
    <3>1. /\ state = "Idle"
          /\ UNCHANGED <<startPc, id, sttPc, active_stt_session_id, timedOut, slipped>>
      BY <2>1 DEF DraftClaim, starts, stt, sessions
    <3> QED BY <3>1 DEF SpeaksInv, Speaks, Over
  <2>2. CASE DraftRefused(d)
    BY <1>1, <2>2 DEF DraftRefused, phase, starts, stt, sessions, history
  <2> QED BY <1>7, <2>1, <2>2
<1>8. ASSUME NEW a \in Aborts, AbortFlag(a) \/ AbortStep(a)
      PROVE  SpeaksInv'
  <2>1. CASE AbortFlag(a)
    BY <1>1, <2>1 DEF AbortFlag, phase, starts, stt, sessions
  <2>2. CASE AbortSession(a)
    <3>1. /\ UNCHANGED <<owner, state, startPc, id, sttPc, timedOut, slipped>>
          /\ active_stt_session_id' = active_stt_session_id + 1
      BY <2>2 DEF AbortSession, StaleSession, NowOvertaken, phase, starts, stt
    <3>2. /\ \A t \in Starts : id[t] \in 0 .. active_stt_session_id
          /\ active_stt_session_id \in Nat
      BY DEF HandoverInv, TypeInv, TypeOK, SharedOK, CallsOK
    <3>3. \A t \in Starts : Speaks(t)' => Speaks(t)
      BY <3>1, <3>2 DEF Speaks
    <3> QED BY <3>1, <3>3, SpeaksKeep
  <2>3. CASE AbortIdle(a)
    <3>1. /\ UNCHANGED <<owner, startPc, id, sttPc, active_stt_session_id, timedOut>>
          /\ slipped' = slipped \cup
               {s \in UnderWay \cap Starts : id[s] \in {0, active_stt_session_id}}
      BY <2>3 DEF AbortIdle, NowOvertaken, NowSlipped, starts, stt, sessions
    <3>2. \A t \in Starts : Speaks(t)' => Speaks(t)
      BY <3>1 DEF Speaks
    <3>3. \A t \in Starts : Speaks(t) => id[t] \in {0, active_stt_session_id}
      BY DEF Speaks, StageInv
    <3>4. ASSUME owner \in Starts, state # "Idle" PROVE owner \in Over' \/ ~Speaks(owner)'
      BY <3>1, <3>2, <3>3, <3>4 DEF UnderWay, Over
    <3> QED BY <3>1, <3>2, <3>4, SpeaksKeep
  <2>4. CASE AbortDisarm(a) \/ AbortClose(a) \/ AbortNotify(a) \/ AbortClear(a)
    <3>1. slipped \subseteq slipped' /\ UNCHANGED <<owner, timedOut>>
      BY <2>4 DEF AbortDisarm, AbortClose, AbortNotify, AbortClear, NowOvertaken
    <3>2. UNCHANGED <<state, startPc, id, sttPc, active_stt_session_id>>
      BY <2>4 DEF AbortDisarm, AbortClose, AbortNotify, AbortClear, phase, starts, stt, sessions
    <3> QED BY <1>1, <3>1, <3>2
  <2> QED BY <1>8, <2>1, <2>2, <2>3, <2>4 DEF AbortStep
<1>9. CASE AllDone
  BY <1>2, <1>9 DEF AllDone
<1> QED BY <1>2, <1>3, <1>4, <1>5, <1>6, <1>7, <1>8, <1>9 DEF Next

\* From the time the run that the app shows has its microphone, the transcript holds its
\* words and those of exempt runs.
WordsInv ==
    owner \in Starts /\ capture[owner] # "none" => accumulated_text \subseteq Over \cup {owner}

LEMMA WordsKeep ==
    ASSUME WordsInv, [Next]_vars, UNCHANGED owner,
           \A s \in Starts : capture'[s] = "none" <=> capture[s] = "none",
           accumulated_text' \subseteq accumulated_text \cup Over \cup {owner}
    PROVE  WordsInv'
<1>1. Over \subseteq Over'
  BY HistoryGrows DEF Over
<1> QED BY <1>1 DEF WordsInv

LEMMA WordsStep ==
    HandoverInv /\ StageInv /\ SpeaksInv /\ WordsInv /\ [Next]_vars => WordsInv'
<1> SUFFICES ASSUME HandoverInv, StageInv, SpeaksInv, WordsInv, [Next]_vars PROVE WordsInv'
  OBVIOUS
<1>0. /\ capture \in [Starts -> {"none", "open", "closed"}]
      /\ \A s \in Starts : CloseStored[s] = "none" <=> capture[s] = "none"
  BY ClosedStays DEF HandoverInv, TypeInv, TypeOK, CallsOK
<1>1. CASE UNCHANGED <<owner, accumulated_text>> /\ capture' \in {capture, CloseStored}
  BY <1>0, <1>1, WordsKeep
<1>2. CASE UNCHANGED vars
  BY <1>1, <1>2 DEF vars, speech, history
<1>3. ASSUME NEW s \in Starts, StartClaim(s) \/ StartRefused(s) \/ StartStep(s)
      PROVE  WordsInv'
  <2>1. CASE StartClaim(s)
    BY <2>1 DEF StartClaim, WordsInv, StageInv
  <2>2. CASE StartPrepare(s)
    BY <2>2 DEF StartPrepare, WordsInv
  <2>3. CASE StartFail(s)
    <3>1. /\ capture' = [capture EXCEPT ![s] = "closed"] /\ capture[s] # "none"
          /\ UNCHANGED <<owner, accumulated_text>>
      BY <2>3 DEF StartFail, StartGiveUp, StageInv, speech, history
    <3> QED BY <1>0, <3>1, WordsKeep
  <2>4. CASE ~StartClaim(s) /\ ~StartPrepare(s) /\ ~StartFail(s)
    BY <1>1, <1>3, <2>4 DEF StartRefused, StartStep, StartNotReady, StartConnected,
       StartStoreHandle, StartUndo, StartKeep, StartSession, StartArm, StartOperation,
       StartShow, StartSpawn, StartGiveUp, speech, history
  <2> QED BY <2>1, <2>2, <2>3, <2>4
<1>4. ASSUME NEW s \in Starts, SttStep(s)
      PROVE  WordsInv'
  <2>1. UNCHANGED <<owner, capture>>
    BY <1>4 DEF SttStep, history
  <2>2. /\ sttPc[s] \notin {"off", "ended"}
        /\ \/ accumulated_text' = accumulated_text
           \/ ShouldFinalize(s) /\ accumulated_text' = accumulated_text \cup {s}
    BY <1>4, SttMoves DEF HandoverInv
  <2>3. ShouldFinalize(s) => s \in Over \cup {owner}
    BY <2>2 DEF ShouldFinalize, SpeaksInv, Speaks
  <2> QED BY <2>1, <2>2, <2>3, WordsKeep
<1>5. ASSUME NEW s \in Starts, DeadlineStep(s)
      PROVE  WordsInv'
  BY <1>1, <1>5 DEF DeadlineStep, speech, history
<1>6. ASSUME NEW p \in Tasks, StopClaim(p) \/ StopRefused(p) \/ StopStep(p) \/ TailStep(p)
      PROVE  WordsInv'
  BY <1>1, <1>6 DEF StopClaim, StopDisarm, StopFreeze, StopRefused, StopStep, StopTake, StopNotified, StopTimeout,
     StopCancelled, StopFailed, StopChecked, StopRead, StopNoSpeech, StopClear, TailStep,
     PolishStart, PolishAnswered, OutputStart, OutputDone, OutputSkipped, RunFinish, ShowIdle,
     speech, history
<1>7. ASSUME NEW d \in Drafts, DraftClaim(d) \/ DraftRefused(d)
      PROVE  WordsInv'
  <2>1. CASE DraftClaim(d)
    BY <2>1, CallsAssumption DEF DraftClaim, WordsInv, Stoppers
  <2>2. CASE DraftRefused(d)
    BY <1>1, <2>2 DEF DraftRefused, speech, history
  <2> QED BY <1>7, <2>1, <2>2
<1>8. ASSUME NEW a \in Aborts, AbortFlag(a) \/ AbortStep(a)
      PROVE  WordsInv'
  <2>1. CASE ~AbortClear(a)
    BY <1>1, <1>8, <2>1 DEF AbortFlag, AbortStep, AbortSession, AbortDisarm, AbortClose, AbortNotify,
       AbortIdle, NowOvertaken, speech
  <2>2. CASE AbortClear(a)
    BY <2>2 DEF AbortClear, WordsInv
  <2> QED BY <2>1, <2>2
<1>9. CASE AllDone
  BY <1>2, <1>9 DEF AllDone
<1> QED BY <1>2, <1>3, <1>4, <1>5, <1>6, <1>7, <1>8, <1>9 DEF Next

\* Task p has not read the transcript.
Early(p) == pc[p] \in {"off", "armed", "ready", "disarm", "freeze", "selection", "wait", "check", "read"}

TextInv ==
    /\ \A p \in Stoppers : Early(p) => text[p] = {}
    /\ SpeechStaysInItsRun

LEMMA TextKeep ==
    ASSUME TextInv, [Next]_vars, UNCHANGED text,
           \A p \in Stoppers : Early(p)' => Early(p),
           \A p \in Tasks : Run(p)' = Run(p) \/ text[p] = {}
    PROVE  TextInv'
<1>1. \A p \in Stoppers : Early(p)' => text'[p] = {}
  BY DEF TextInv
<1>2. ASSUME NEW p \in Tasks, Undisturbed(p)'
      PROVE  text'[p] \subseteq {Run(p)'} \cup timedOut' \cup slipped'
  <2>1. CASE text[p] = {}
    BY <2>1
  <2>2. CASE Run(p)' = Run(p)
    <3>1. Undisturbed(p)
      BY <1>2, <2>2, HistoryGrows DEF Undisturbed
    <3>2. text[p] \subseteq {Run(p)} \cup timedOut \cup slipped
      BY <3>1 DEF TextInv, SpeechStaysInItsRun
    <3> QED BY <2>2, <3>2, HistoryGrows
  <2> QED BY <2>1, <2>2
<1> QED BY <1>1, <1>2 DEF TextInv, SpeechStaysInItsRun

\* The transcript is read for the run that the app shows, unless somebody met the run.
LEMMA TextRead ==
    ASSUME HandoverInv, OwnInv, StageInv, SilentInv, WordsInv, TextInv, [Next]_vars,
           NEW p \in Tasks, StopRead(p)
    PROVE  TextInv'
<1>1. /\ pc[p] = "read" /\ pc' = [pc EXCEPT ![p] = "polish"]
      /\ text' = [text EXCEPT ![p] = accumulated_text]
      /\ UNCHANGED <<taken, cancelled, overtaken, timedOut, slipped>>
  BY DEF StopRead, Go, history
<1>2. /\ pc \in [Tasks -> {"off", "armed", "ready", "disarm", "freeze", "selection", "wait", "check",
                           "read", "polish", "llm", "deliver", "output",
                           "finish", "clear", "done"}]
      /\ text \in [Tasks -> SUBSET (Starts \cup Drafts)]
      /\ Stoppers \subseteq Tasks
  BY DEF HandoverInv, TypeInv, TypeOK, CallsOK, Tasks
<1>3. p \in Stoppers /\ p \notin Drafts
  BY <1>1 DEF SilentInv, Tasks
<1>4. PICK s \in Starts : s = taken[p].session /\ Run(p) = s
  BY <1>1, <1>3 DEF SilentInv, AtWork, Run
<1>5. Active(s)
  BY <1>1, <1>3, <1>4 DEF Active, AtWork
<1>6. capture[s] # "none"
  BY <1>2, <1>3, <1>4 DEF StageInv, Fresh
<1>7. Undisturbed(p) => accumulated_text \subseteq {Run(p)} \cup timedOut \cup slipped
  BY <1>4, <1>5, <1>6 DEF Undisturbed, OwnInv, WordsInv, Over
<1>8. text'[p] = accumulated_text /\ \A q \in Tasks \ {p} : text'[q] = text[q]
  BY <1>1, <1>2
<1>9. \A q \in Tasks : (Undisturbed(q)' <=> Undisturbed(q)) /\ Run(q)' = Run(q)
  BY <1>1 DEF Undisturbed, Run
<1>10. \A q \in Tasks :
         Undisturbed(q)' => text'[q] \subseteq {Run(q)'} \cup timedOut' \cup slipped'
  BY <1>1, <1>7, <1>8, <1>9 DEF TextInv, SpeechStaysInItsRun
<1>11. \A q \in Stoppers : Early(q)' => text'[q] = {}
  BY <1>1, <1>2, <1>8 DEF Early, TextInv
<1> QED BY <1>10, <1>11 DEF TextInv, SpeechStaysInItsRun

LEMMA TextStep ==
    HandoverInv /\ OwnInv /\ StageInv /\ SilentInv /\ WordsInv /\ TextInv /\ [Next]_vars
    => TextInv'
<1> SUFFICES ASSUME HandoverInv, OwnInv, StageInv, SilentInv, WordsInv, TextInv, [Next]_vars
             PROVE  TextInv'
  OBVIOUS
<1>0. /\ pc \in [Tasks -> {"off", "armed", "ready", "disarm", "freeze", "selection", "wait", "check",
                           "read", "polish", "llm", "deliver", "output",
                           "finish", "clear", "done"}]
      /\ taken \in [Tasks -> [session : RunOrNone, audio : RunOrNone,
                              preload : RunOrNone, target : RunOrNone]]
      /\ text \in [Tasks -> SUBSET (Starts \cup Drafts)]
      /\ Stoppers \subseteq Tasks /\ Starts \subseteq Stoppers /\ Drafts \subseteq Tasks
      /\ Drafts \cap Stoppers = {}
  BY CallsAssumption DEF HandoverInv, TypeInv, TypeOK, CallsOK, Tasks, Stoppers
<1>1. CASE UNCHANGED <<pc, text, taken>>
  BY <1>1, TextKeep DEF Early, Run
\* A step that moves one task on: into its early places only from them.
<1>2. ASSUME NEW p \in Tasks, NEW l, pc' = [pc EXCEPT ![p] = l], UNCHANGED <<taken, text>>,
             Early(p) \/ l \in {"polish", "llm", "deliver", "output", "finish", "clear", "done"}
      PROVE  TextInv'
  <2>1. \A q \in Stoppers : Early(q)' => Early(q)
    BY <1>0, <1>2 DEF Early
  <2> QED BY <1>2, <2>1, TextKeep DEF Run
<1>3. CASE UNCHANGED vars
  BY <1>1, <1>3 DEF vars, tasks
<1>4. ASSUME NEW s \in Starts, StartClaim(s) \/ StartRefused(s) \/ StartStep(s)
      PROVE  TextInv'
  <2>1. CASE StartSpawn(s)
    <3>1. pc' = [pc EXCEPT ![s] = "armed"] /\ UNCHANGED <<taken, text>> /\ s \in Tasks
      BY <1>0, <2>1 DEF StartSpawn, Go
    <3>2. pc[s] = "off"
      BY <2>1 DEF StartSpawn, HandoverInv, StartInv
    <3> QED BY <1>2, <3>1, <3>2 DEF Early
  <2>2. CASE ~StartSpawn(s)
    BY <1>1, <1>4, <2>2 DEF StartClaim, StartRefused, StartStep, StartNotReady, StartPrepare,
       StartFail, StartConnected, StartStoreHandle, StartUndo, StartKeep, StartSession,
       StartArm, StartOperation, StartShow, StartGiveUp, tasks
  <2> QED BY <2>1, <2>2
<1>5. ASSUME NEW s \in Starts, SttStep(s)
      PROVE  TextInv'
  BY <1>1, <1>5 DEF SttStep, tasks
<1>6. ASSUME NEW s \in Starts, DeadlineStep(s)
      PROVE  TextInv'
  <2>1. PICK l \in {"ready", "done"} : pc' = [pc EXCEPT ![s] = l] /\ pc[s] = "armed"
    BY <1>6 DEF DeadlineStep, DeadlineReached, DeadlineStale, Go
  <2>2. UNCHANGED <<taken, text>> /\ s \in Tasks
    BY <1>0, <1>6 DEF DeadlineStep
  <2> QED BY <1>2, <2>1, <2>2 DEF Early
<1>7. ASSUME NEW p \in Tasks, StopClaim(p) \/ StopRefused(p) \/ StopStep(p)
      PROVE  TextInv'
  <2>1. CASE StopClaim(p) \/ StopDisarm(p) \/ StopFreeze(p)
    <3>1. /\ pc[p] \in {"ready", "disarm", "freeze"}
          /\ \E l \in {"disarm", "freeze", "selection"} : pc' = [pc EXCEPT ![p] = l]
          /\ UNCHANGED text
          /\ \A q \in Tasks : taken'[q].session = taken[q].session
      BY <2>1, FreezesTarget DEF HandoverInv, StopClaim, StopDisarm, StopFreeze, Go
    <3>2. \A q \in Stoppers : Early(q)' => Early(q)
      BY <1>0, <3>1 DEF Early
    <3>3. \A q \in Tasks : Run(q)' = Run(q)
      BY <3>1 DEF Run
    <3> QED BY <3>1, <3>2, <3>3, TextKeep
  <2>2. CASE StopTake(p)
    <3>1. /\ pc[p] = "selection" /\ UNCHANGED text
          /\ \A q \in Tasks \ {p} : taken'[q] = taken[q] /\ pc'[q] = pc[q]
      BY <1>0, <2>2 DEF StopTake, Go
    <3>2. \A q \in Stoppers : Early(q)' => Early(q)
      BY <1>0, <3>1 DEF Early
    <3>3. \A q \in Tasks : Run(q)' = Run(q) \/ text[q] = {}
      BY <1>0, <3>1 DEF Run, TextInv, Early, Tasks
    <3> QED BY <3>1, <3>2, <3>3, TextKeep
  <2>3. CASE StopRead(p)
    BY <2>3, TextRead
  <2>4. CASE \/ StopRefused(p) \/ StopNotified(p) \/ StopTimeout(p) \/ StopCancelled(p)
             \/ StopFailed(p) \/ StopChecked(p) \/ StopNoSpeech(p) \/ StopClear(p)
    <3> USE DEF StopRefused, StopNotified, StopTimeout, StopCancelled, StopFailed, StopChecked,
        StopNoSpeech, StopClear
    <3>1. PICK l \in {"check", "read", "clear", "done"} :
            /\ pc' = [pc EXCEPT ![p] = l]
            /\ Early(p) \/ l \in {"clear", "done"}
      BY <2>4 DEF Go, Early
    <3>2. UNCHANGED <<taken, text>>
      BY <2>4 DEF tasks
    <3> HIDE DEF StopRefused, StopNotified, StopTimeout, StopCancelled, StopFailed, StopChecked,
        StopNoSpeech, StopClear
    <3> QED BY <1>2, <3>1, <3>2
  <2> QED BY <1>7, <2>1, <2>2, <2>3, <2>4 DEF StopStep
<1>8. ASSUME NEW p \in Tasks, TailStep(p)
      PROVE  TextInv'
  <2> USE DEF TailStep, PolishStart, PolishAnswered, OutputStart, OutputDone, OutputSkipped,
      RunFinish
  <2>1. PICK l \in {"llm", "deliver", "output", "finish", "done"} : pc' = [pc EXCEPT ![p] = l]
    BY <1>8 DEF Go
  <2>2. UNCHANGED <<taken, text>>
    BY <1>8
  <2> HIDE DEF TailStep
  <2> QED BY <1>2, <2>1, <2>2
<1>9. ASSUME NEW d \in Drafts, DraftClaim(d) \/ DraftRefused(d)
      PROVE  TextInv'
  <2>1. CASE DraftClaim(d)
    <3>1. /\ pc' = [pc EXCEPT ![d] = "polish"] /\ text' = [text EXCEPT ![d] = {d}]
          /\ UNCHANGED taken
      BY <2>1 DEF DraftClaim, Go
    <3>2. \A q \in Stoppers : pc'[q] = pc[q] /\ text'[q] = text[q]
      BY <1>0, <3>1
    <3>3. \A q \in Tasks : Run(q)' = Run(q) /\ (Undisturbed(q)' => Undisturbed(q))
      BY <3>1, HistoryGrows DEF Run, Undisturbed
    <3>4. text'[d] = {d} /\ Run(d) = d /\ d \in Tasks
      BY <1>0, <3>1 DEF Run
    <3>5. ASSUME NEW q \in Tasks, Undisturbed(q)'
          PROVE  text'[q] \subseteq {Run(q)'} \cup timedOut' \cup slipped'
      <4>1. CASE q = d
        BY <3>3, <3>4, <4>1
      <4>2. CASE q # d
        <5>1. text'[q] = text[q]
          BY <1>0, <3>1, <4>2
        <5>2. text[q] \subseteq {Run(q)} \cup timedOut \cup slipped
          BY <3>3, <3>5 DEF TextInv, SpeechStaysInItsRun
        <5> QED BY <3>3, <5>1, <5>2, HistoryGrows
      <4> QED BY <4>1, <4>2
    <3>6. \A q \in Stoppers : Early(q)' => text'[q] = {}
      BY <3>2 DEF Early, TextInv
    <3> QED BY <3>5, <3>6 DEF TextInv, SpeechStaysInItsRun
  <2>2. CASE DraftRefused(d)
    <3>1. pc' = [pc EXCEPT ![d] = "done"] /\ UNCHANGED <<taken, text>>
      BY <2>2 DEF DraftRefused, Go
    <3> QED BY <1>0, <1>2, <3>1
  <2> QED BY <1>9, <2>1, <2>2
<1>10. ASSUME NEW a \in Aborts, AbortFlag(a) \/ AbortStep(a)
       PROVE  TextInv'
  BY <1>1, <1>10 DEF AbortFlag, AbortStep, AbortSession, AbortDisarm, AbortClose, AbortNotify,
     AbortClear, AbortIdle, tasks
<1>11. CASE AllDone
  BY <1>3, <1>11 DEF AllDone
<1> QED BY <1>3, <1>4, <1>5, <1>6, <1>7, <1>8, <1>9, <1>10, <1>11 DEF Next

LEMMA SpeechInit == Init => StageInv /\ SilentInv /\ SpeaksInv /\ WordsInv /\ TextInv
<1> SUFFICES ASSUME Init PROVE StageInv /\ SilentInv /\ SpeaksInv /\ WordsInv /\ TextInv
  OBVIOUS
<1>1. /\ None \notin Starts /\ Stoppers \subseteq Tasks /\ Starts \subseteq Tasks
      /\ Drafts \subseteq Tasks /\ Drafts \cap Starts = {}
  BY CallsAssumption DEF Tasks, Stoppers
<1>2. StageInv
  BY <1>1 DEF Init, StageInv, Fresh, Nothing
<1>3. \A p \in Tasks : pc[p] \in {"off", "ready"} /\ text[p] = {}
  BY DEF Init
<1>4. SilentInv
  <2>1. \A s \in Starts : ~doneNotify[s] /\ stt_error # s
    BY <1>1 DEF Init
  <2>2. \A p \in Tasks : ~AtWork(p) /\ pc[p] # "read"
    BY <1>3 DEF AtWork
  <2> QED BY <1>1, <2>1, <2>2 DEF SilentInv
<1>5. SpeaksInv
  BY DEF Init, SpeaksInv, Speaks
<1>6. WordsInv
  BY <1>1 DEF Init, WordsInv
<1>7. TextInv
  BY <1>1, <1>3 DEF TextInv, SpeechStaysInItsRun
<1> QED BY <1>2, <1>4, <1>5, <1>6, <1>7

\* What an undisturbed run polishes was said in it, or by a run that the app took for over
\* while its session was active, for any number of starts, stops, aborts and drafts.
THEOREM SpeechAlwaysInItsRun == Spec => []SpeechStaysInItsRun
<1> DEFINE SpeechInv == /\ HandoverInv /\ OwnInv /\ StageInv /\ SilentInv
                        /\ SpeaksInv /\ WordsInv /\ TextInv
<1>1. Init => SpeechInv
  BY HandoverInit, OwnInit, SpeechInit
<1>2. SpeechInv /\ [Next]_vars => SpeechInv'
  BY HandoverStep, OwnStep, StageStep, SilentStep, SpeaksStep, WordsStep, TextStep
<1>3. SpeechInv => SpeechStaysInItsRun
  BY DEF TextInv
<1> HIDE DEF SpeechInv
<1> QED BY <1>1, <1>2, <1>3, PTL DEF Spec

-----------------------------------------------------------------------------
(* A microphone that is on.                                                *)

\* A microphone is on for a start() under way, or for the stored recording, which no stop()
\* had yet.
OpenInv ==
    \A s \in Starts : capture[s] = "open" => Fresh(s) /\ (Busy(s) \/ stt_session = s)

\* A step that opens no microphone and starts and takes nothing.
LEMMA OpenKeep ==
    ASSUME OpenInv, UNCHANGED startPc,
           \A s \in Starts : capture'[s] = "open" => capture[s] = "open",
           \A p \in Tasks : taken'[p].session = taken[p].session,
           \A s \in Starts : stt_session = s /\ Fresh(s) => stt_session' = s
    PROVE  OpenInv'
<1>1. \A s \in Starts : Fresh(s)' <=> Fresh(s)
  BY DEF Fresh
<1> QED BY <1>1 DEF OpenInv, Busy

LEMMA ClosedOpensNone ==
    ASSUME TypeInv, NEW s \in Starts, CloseStored[s] = "open"
    PROVE  capture[s] = "open" /\ audio_handle # s
<1>1. capture \in [Starts -> {"none", "open", "closed"}]
  BY DEF TypeInv, TypeOK, CallsOK
<1>2. CASE audio_handle = None
  BY <1>2, CallsAssumption DEF CloseStored, Tasks, Stoppers
<1>3. CASE audio_handle # None
  <2>1. [capture EXCEPT ![audio_handle] = "closed"][s] = "open"
    BY <1>3 DEF CloseStored
  <2> QED BY <1>1, <2>1
<1> QED BY <1>2, <1>3

LEMMA OpenStart ==
    ASSUME HandoverInv, MicInv, StageInv, OpenInv, NEW s \in Starts,
           StartClaim(s) \/ StartRefused(s) \/ StartStep(s)
    PROVE  OpenInv'
<1> USE DEF GoStart
<1>1. /\ startPc \in [Starts -> {"ready", "claimed", "connecting", "store",
                                 "stored", "record", "arm", "operation", "show", "spawn", "done"}]
      /\ capture \in [Starts -> {"none", "open", "closed"}]
  BY DEF HandoverInv, TypeInv, TypeOK, CallsOK
<1>2. UNCHANGED taken
  BY DEF StartClaim, StartRefused, StartStep, StartNotReady, StartPrepare, StartFail,
     StartConnected, StartStoreHandle, StartUndo, StartKeep, StartSession, StartArm,
     StartOperation, StartShow, StartSpawn, StartGiveUp, tasks
<1>3. \A t \in Starts : Fresh(t)' <=> Fresh(t)
  BY <1>2 DEF Fresh
<1>4. startPc[s] # "done" => stt_session # s /\ Fresh(s)
  BY DEF HandoverInv, StartInv
<1>5. CASE StartSpawn(s)
  <2>1. /\ startPc[s] = "spawn" /\ stt_session' = s
        /\ startPc' = [startPc EXCEPT ![s] = "done"] /\ UNCHANGED capture
    BY <1>5 DEF StartSpawn
  <2>2. ASSUME NEW t \in Starts, capture[t] = "open" PROVE t = s
    <3>1. \A u \in Starts \ {s} : startPc[u] \in {"ready", "done"}
      BY <2>1, StartAlone
    <3>2. audio_handle \in {s, None} /\ None \notin Starts
      BY <2>1, CallsAssumption DEF HandoverInv, StartInv, Tasks, Stoppers
    <3> QED BY <2>1, <2>2, <3>1, <3>2 DEF MicInv, MicOwned
  <2> QED BY <1>3, <1>4, <2>1, <2>2 DEF OpenInv
<1>6. CASE StartNotReady(s) \/ StartFail(s) \/ StartUndo(s)
  <2>1. /\ startPc[s] \in {"claimed", "connecting", "stored"}
        /\ startPc' = [startPc EXCEPT ![s] = "done"] /\ UNCHANGED stt_session
    BY <1>6 DEF StartNotReady, StartFail, StartUndo, StartGiveUp, slots
  <2>2. capture'[s] # "open"
    <3>1. CASE StartNotReady(s)
      BY <2>1, <3>1 DEF StartNotReady, StageInv
    <3>2. CASE StartFail(s)
      BY <1>1, <3>2 DEF StartFail
    <3>3. CASE StartUndo(s)
      BY <3>3, ClosedOpensNone DEF StartUndo, MicInv, MicOwned
    <3> QED BY <1>6, <3>1, <3>2, <3>3
  <2>3. \A t \in Starts \ {s} : capture'[t] = "open" => capture[t] = "open"
    BY <1>1, <1>6, ClosedOpensNone DEF StartNotReady, StartFail, StartUndo, HandoverInv
  <2> QED BY <1>1, <1>3, <2>1, <2>2, <2>3 DEF OpenInv, Busy
<1>7. CASE StartPrepare(s)
  <2>1. /\ startPc[s] = "claimed" /\ startPc' = [startPc EXCEPT ![s] = "connecting"]
        /\ capture' = [capture EXCEPT ![s] = "open"] /\ UNCHANGED stt_session
    BY <1>7 DEF StartPrepare
  <2> QED BY <1>1, <1>3, <1>4, <2>1 DEF OpenInv, Busy
<1>8. CASE \/ StartClaim(s) \/ StartRefused(s) \/ StartConnected(s) \/ StartStoreHandle(s)
           \/ StartKeep(s) \/ StartSession(s) \/ StartArm(s) \/ StartOperation(s)
           \/ StartShow(s)
  <2>1. PICK l : /\ startPc[s] # "done" /\ startPc' = [startPc EXCEPT ![s] = l]
                 /\ \/ startPc[s] = "ready"
                    \/ l \in {"store", "stored", "record", "arm", "operation", "show", "spawn"}
                 /\ UNCHANGED stt_session /\ capture' \in {capture, CloseStored}
    BY <1>8 DEF StartClaim, StartRefused, StartConnected, StartStoreHandle, StartKeep,
       StartSession, StartArm, StartOperation, StartShow, slots
  <2>2. \A t \in Starts : capture'[t] = "open" => capture[t] = "open"
    BY <2>1, ClosedOpensNone DEF HandoverInv
  <2>3. startPc[s] = "ready" => capture[s] = "none"
    BY DEF StageInv
  <2> QED BY <1>1, <1>3, <2>1, <2>2, <2>3 DEF OpenInv, Busy
<1> QED BY <1>5, <1>6, <1>7, <1>8 DEF StartStep

LEMMA OpenStep == HandoverInv /\ MicInv /\ StageInv /\ OpenInv /\ [Next]_vars => OpenInv'
<1> SUFFICES ASSUME HandoverInv, MicInv, StageInv, OpenInv, [Next]_vars PROVE OpenInv'
  OBVIOUS
<1>0. taken \in [Tasks -> [session : RunOrNone, audio : RunOrNone,
                           preload : RunOrNone, target : RunOrNone]]
  BY DEF HandoverInv, TypeInv, TypeOK, CallsOK
<1>1. CASE UNCHANGED <<capture, startPc, taken, stt_session>>
  BY <1>1, OpenKeep
<1>2. CASE UNCHANGED vars
  BY <1>1, <1>2 DEF vars, slots, tasks, starts
<1>3. ASSUME NEW s \in Starts, StartClaim(s) \/ StartRefused(s) \/ StartStep(s)
      PROVE  OpenInv'
  BY <1>3, OpenStart
<1>4. ASSUME NEW s \in Starts, SttStep(s) \/ DeadlineStep(s)
      PROVE  OpenInv'
  BY <1>1, <1>4 DEF SttStep, DeadlineStep, slots, tasks, starts
<1>5. ASSUME NEW p \in Tasks, StopClaim(p) \/ StopRefused(p) \/ StopStep(p) \/ TailStep(p)
      PROVE  OpenInv'
  <2>1. CASE StopTake(p)
    <3>1. /\ pc[p] = "selection" /\ capture' = CloseStored
      BY <2>1 DEF StopTake
    <3>2. \A s \in Starts : startPc[s] \in {"ready", "done"}
      BY <3>1, StopAlone
    <3>3. ASSUME NEW s \in Starts PROVE capture'[s] # "open"
      BY <3>1, <3>2, ClosedOpensNone DEF MicInv, MicOwned
    <3> QED BY <3>3 DEF OpenInv
  <2>2. CASE StopClaim(p) \/ StopDisarm(p) \/ StopFreeze(p)
    <3>1. UNCHANGED <<capture, startPc, stt_session>>
      BY <2>2 DEF StopClaim, StopDisarm, StopFreeze, slots, starts
    <3>2. \A q \in Tasks : taken'[q].session = taken[q].session
      BY <2>2, FreezesTarget DEF StopClaim, StopDisarm, HandoverInv
    <3> QED BY <3>1, <3>2, OpenKeep
  <2>3. CASE ~StopTake(p) /\ ~StopClaim(p) /\ ~StopDisarm(p) /\ ~StopFreeze(p)
    <3>1. UNCHANGED <<capture, startPc, taken>>
      BY <1>5, <2>3 DEF StopRefused, StopStep, StopNotified, StopTimeout, StopCancelled,
         StopFailed, StopChecked, StopRead, StopNoSpeech, StopClear, TailStep, PolishStart,
         PolishAnswered, OutputStart, OutputDone, OutputSkipped, RunFinish, starts
    <3>2. stt_session' = stt_session \/ ClearSttSession(p)
      BY <1>5, <2>3 DEF StopRefused, StopStep, StopNotified, StopTimeout, StopCancelled,
         StopFailed, StopChecked, StopRead, StopNoSpeech, StopClear, TailStep, PolishStart,
         PolishAnswered, OutputStart, OutputDone, OutputSkipped, RunFinish, slots
    <3>3. \A s \in Starts : stt_session = s /\ Fresh(s) => stt_session' = s
      BY <3>2 DEF ClearSttSession, Fresh
    <3> QED BY <3>1, <3>3, OpenKeep
  <2> QED BY <2>1, <2>2, <2>3
<1>6. ASSUME NEW d \in Drafts, DraftClaim(d) \/ DraftRefused(d)
      PROVE  OpenInv'
  BY <1>1, <1>6 DEF DraftClaim, DraftRefused, slots, tasks, starts
<1>7. ASSUME NEW a \in Aborts, AbortFlag(a) \/ AbortStep(a)
      PROVE  OpenInv'
  <2>1. CASE AbortClose(a)
    <3>1. capture' = CloseStored /\ UNCHANGED <<startPc, taken, stt_session>>
      BY <2>1 DEF AbortClose, tasks, starts
    <3> QED BY <3>1, ClosedOpensNone, OpenKeep DEF HandoverInv
  <2>2. CASE ~AbortClose(a)
    BY <1>1, <1>7, <2>2 DEF AbortFlag, AbortStep, AbortSession, AbortDisarm, AbortNotify,
       AbortClear, AbortIdle, slots, tasks, starts
  <2> QED BY <1>7, <2>1, <2>2
<1>8. CASE AllDone
  BY <1>2, <1>8 DEF AllDone
<1> QED BY <1>2, <1>3, <1>4, <1>5, <1>6, <1>7, <1>8 DEF Next

-----------------------------------------------------------------------------
(* The recording limit.                                                    *)

\* A microphone that is on is a start()'s that has yet to arm the deadline, or has armed it; or
\* its deadline task will stop it, whenever the app shows Recording and no call is in the middle
\* of its work; or an abort() has disarmed the deadline and is about to close it.
Disarmed == \E a \in Aborts : abortPc[a] = "disarmed"
Shown    == state = "Recording" /\ pipeline_lock = None
BoundInv ==
    \A s \in Starts : capture[s] = "open" =>
        \/ Disarmed
        \/ startPc[s] \in {"ready", "claimed", "connecting", "store", "stored", "record", "arm"}
        \/ startPc[s] \in {"operation", "show", "spawn"} /\ active_deadline_session_id = id[s]
        \/ startPc[s] = "done" /\ (Shown => Limited(s))

\* A step that opens no microphone, arms nothing, and leaves the tasks that limit a recording.
LEMMA BoundKeep ==
    ASSUME BoundInv, UNCHANGED <<startPc, id, abortPc, active_deadline_session_id>>,
           \A s \in Starts : capture'[s] = "open" => capture[s] = "open",
           \A s \in Starts : Shown' /\ startPc[s] = "done" =>
             Shown /\ (pc[s] \in {"armed", "ready"} /\ Limited(s) => Limited(s)')
    PROVE  BoundInv'
  BY DEF BoundInv, Disarmed, Limited

LEMMA BoundStart ==
    ASSUME HandoverInv, MicInv, StageInv, BoundInv, NEW s \in Starts,
           StartClaim(s) \/ StartRefused(s) \/ StartStep(s)
    PROVE  BoundInv'
<1> USE DEF GoStart, Disarmed
<1>1. /\ startPc \in [Starts -> {"ready", "claimed", "connecting", "store",
                                 "stored", "record", "arm", "operation", "show", "spawn", "done"}]
      /\ id \in [Starts -> 0 .. active_stt_session_id]
      /\ capture \in [Starts -> {"none", "open", "closed"}]
      /\ pc \in [Tasks -> {"off", "armed", "ready", "disarm", "freeze", "selection", "wait",
                           "check", "read", "polish", "llm", "deliver", "output", "finish",
                           "clear", "done"}]
      /\ Starts \subseteq Tasks
  BY DEF HandoverInv, TypeInv, TypeOK, CallsOK, Tasks, Stoppers
<1>2. startPc[s] \notin {"ready", "done"} =>
        /\ pipeline_lock # None
        /\ \A t \in Starts \ {s} : startPc[t] \in {"ready", "done"}
  BY StartAlone, StartHolds
<1>3. startPc[s] \in {"stored", "record", "arm", "operation", "show", "spawn"} =>
        \A t \in Starts \ {s} : capture[t] # "open"
  <2>1. None \notin Starts
    BY CallsAssumption DEF Tasks, Stoppers
  <2> QED BY <1>2, <2>1 DEF HandoverInv, StartInv, MicInv, MicOwned
\* The shown state is not Recording with the lock free, or has not changed.
<1>4. CASE ~Shown' /\ capture' \in {capture, CloseStored, [capture EXCEPT ![s] = "closed"]}
           /\ UNCHANGED <<id, abortPc, active_deadline_session_id>>
           /\ \E l \in {"claimed", "store", "stored", "record", "done"} :
                startPc' = [startPc EXCEPT ![s] = l]
           /\ startPc[s] \in {"ready", "claimed", "connecting", "store", "stored"}
  <2>1. \A t \in Starts : capture'[t] = "open" => capture[t] = "open"
    BY <1>1, <1>4, ClosedOpensNone DEF HandoverInv
  <2> QED BY <1>1, <1>4, <2>1 DEF BoundInv
<1>5. CASE \/ StartClaim(s) \/ StartNotReady(s) \/ StartFail(s) \/ StartUndo(s)
           \/ StartConnected(s) \/ StartStoreHandle(s) \/ StartKeep(s)
  <2>1. ~Shown'
    BY <1>2, <1>5 DEF Shown, StartClaim, Exchange, StartNotReady, StartFail, StartUndo, StartGiveUp,
       SetState, StartConnected, StartStoreHandle, StartKeep
  <2>2. capture' \in {capture, CloseStored, [capture EXCEPT ![s] = "closed"]}
    BY <1>5 DEF StartClaim, StartNotReady, StartFail, StartUndo, StartConnected, StartStoreHandle,
       StartKeep
  <2>3. UNCHANGED <<id, abortPc, active_deadline_session_id>>
    BY <1>5 DEF StartClaim, StartNotReady, StartFail, StartUndo, StartGiveUp, StartConnected,
       StartStoreHandle, StartKeep, sessions
  <2>4. /\ \E l \in {"claimed", "store", "stored", "record", "done"} :
             startPc' = [startPc EXCEPT ![s] = l]
        /\ startPc[s] \in {"ready", "claimed", "connecting", "store", "stored"}
    BY <1>5 DEF StartClaim, StartNotReady, StartFail, StartUndo, StartGiveUp, StartConnected,
       StartStoreHandle, StartKeep
  <2> QED BY <1>4, <2>1, <2>2, <2>3, <2>4
<1>6. CASE StartRefused(s)
  <2>1. UNCHANGED <<state, pipeline_lock, capture, id, abortPc, active_deadline_session_id, pc>>
    BY <1>6 DEF StartRefused, phase, sessions, tasks
  <2>2. startPc[s] = "ready" /\ startPc' = [startPc EXCEPT ![s] = "done"]
    BY <1>6 DEF StartRefused
  <2>3. capture[s] = "none"
    BY <2>2 DEF StageInv
  <2> QED BY <1>1, <2>1, <2>2, <2>3 DEF BoundInv, Shown, Limited
<1>7. CASE StartPrepare(s)
  <2>1. /\ startPc[s] = "claimed" /\ startPc' = [startPc EXCEPT ![s] = "connecting"]
        /\ capture' = [capture EXCEPT ![s] = "open"] /\ state' = "Preparing"
        /\ UNCHANGED <<id, abortPc, active_deadline_session_id>>
    BY <1>7 DEF StartPrepare, SetState, sessions
  <2> QED BY <1>1, <2>1 DEF BoundInv, Shown
<1>8. CASE StartSession(s) \/ StartArm(s) \/ StartOperation(s) \/ StartShow(s)
  <2>1. UNCHANGED <<capture, abortPc>> /\ startPc[s] \in {"record", "arm", "operation", "show"}
    BY <1>8 DEF StartSession, StartArm, StartOperation, StartShow
  <2>2. ASSUME capture[s] = "open"
        PROVE  \/ Disarmed' \/ startPc'[s] = "arm"
               \/ /\ startPc'[s] \in {"operation", "show", "spawn"}
                  /\ active_deadline_session_id' = id'[s]
    <3>1. CASE StartSession(s)
      BY <1>1, <3>1 DEF StartSession
    <3>2. CASE StartArm(s)
      BY <1>1, <3>2 DEF StartArm
    <3>3. CASE StartOperation(s) \/ StartShow(s)
      <4>1. /\ startPc[s] \in {"operation", "show"} /\ startPc'[s] \in {"show", "spawn"}
            /\ UNCHANGED <<abortPc, id, active_deadline_session_id>>
        BY <1>1, <3>3 DEF StartOperation, StartShow, sessions
      <4> QED BY <2>2, <4>1 DEF BoundInv
    <3> QED BY <1>8, <3>1, <3>2, <3>3
  <2> QED BY <1>3, <2>1, <2>2 DEF BoundInv
<1>9. CASE StartSpawn(s)
  <2>1. /\ startPc[s] = "spawn" /\ startPc' = [startPc EXCEPT ![s] = "done"]
        /\ pc' = [pc EXCEPT ![s] = "armed"]
        /\ UNCHANGED <<capture, abortPc, id, active_deadline_session_id>>
    BY <1>9 DEF StartSpawn, Go, sessions
  <2>2. capture[s] = "open" => Disarmed \/ active_deadline_session_id = id[s]
    BY <2>1 DEF BoundInv
  <2>3. capture[s] = "open" => Disarmed' \/ (startPc'[s] = "done" /\ Limited(s)')
    BY <1>1, <2>1, <2>2 DEF Limited
  <2> QED BY <1>3, <2>1, <2>3 DEF BoundInv
<1> QED BY <1>5, <1>6, <1>7, <1>8, <1>9 DEF StartStep

\* A step of a task or of a draft that does not limit a recording.
LEMMA BoundTask ==
    ASSUME HandoverInv, BoundInv, NEW p \in Tasks, NEW l,
           pc' = [pc EXCEPT ![p] = l], pc[p] \notin {"armed"} /\ (pc[p] = "ready" => p \in Drafts),
           UNCHANGED <<abortPc, startPc, active_deadline_session_id, id, capture, pipeline_lock>>,
           state' = "Recording" => state = "Recording"
    PROVE  BoundInv'
<1>1. pc \in [Tasks -> {"off", "armed", "ready", "disarm", "freeze", "selection", "wait", "check",
                        "read", "polish", "llm", "deliver", "output", "finish", "clear", "done"}]
  BY DEF HandoverInv, TypeInv, TypeOK, CallsOK
<1>2. \A s \in Starts : Limited(s) => Limited(s)'
  BY <1>1, CallsAssumption DEF Limited, Tasks, Stoppers
<1> QED BY <1>2, BoundKeep DEF Shown

\* Only start() opens a microphone or arms the deadline, and a stop() that finds the lock free and
\* Recording shown keeps the lock until it has closed it.
LEMMA BoundStep ==
    HandoverInv /\ MicInv /\ StageInv /\ BoundInv /\ [Next]_vars => BoundInv'
<1> SUFFICES ASSUME HandoverInv, MicInv, StageInv, BoundInv, [Next]_vars PROVE BoundInv'
  OBVIOUS
<1>0. /\ pc \in [Tasks -> {"off", "armed", "ready", "disarm", "freeze", "selection", "wait",
                           "check", "read", "polish", "llm", "deliver", "output", "finish",
                           "clear", "done"}]
      /\ abortPc \in [Aborts -> {"ready", "flagged", "stale", "disarmed", "closed", "notified",
                                 "cleared", "done"}]
      /\ Starts \subseteq Tasks
  BY DEF HandoverInv, TypeInv, TypeOK, CallsOK, Tasks, Stoppers
<1>1. CASE UNCHANGED <<state, abortPc, starts, sessions, pipeline_lock, pc, capture>>
  BY <1>1, BoundKeep DEF Shown, Limited, starts, sessions
<1>2. CASE UNCHANGED vars
  BY <1>1, <1>2 DEF vars, phase, tasks
<1>3. ASSUME NEW s \in Starts, StartClaim(s) \/ StartRefused(s) \/ StartStep(s)
      PROVE  BoundInv'
  BY <1>3, BoundStart
<1>4. ASSUME NEW s \in Starts, SttStep(s)
      PROVE  BoundInv'
  BY <1>1, <1>4 DEF SttStep, phase, tasks
<1>5. ASSUME NEW s \in Starts, DeadlineStep(s)
      PROVE  BoundInv'
  <2>1. /\ pc[s] = "armed"
        /\ \/ active_deadline_session_id = id[s] /\ pc' = [pc EXCEPT ![s] = "ready"]
           \/ active_deadline_session_id # id[s] /\ pc' = [pc EXCEPT ![s] = "done"]
    BY <1>5 DEF DeadlineStep, DeadlineReached, DeadlineStale, Go
  <2>2. UNCHANGED <<state, abortPc, startPc, id, active_deadline_session_id, pipeline_lock,
                    capture>>
    BY <1>5 DEF DeadlineStep, phase, starts, sessions
  <2>3. \A t \in Starts : Limited(t) => Limited(t)'
    BY <1>0, <2>1, <2>2 DEF Limited
  <2> QED BY <2>2, <2>3, BoundKeep DEF Shown
<1>6. ASSUME NEW p \in Tasks, StopClaim(p) \/ StopRefused(p) \/ StopStep(p)
      PROVE  BoundInv'
  <2>1. CASE StopClaim(p) \/ StopRefused(p) \/ StopFreeze(p)
    <3>1. UNCHANGED <<abortPc, startPc, id, active_deadline_session_id, capture>>
      BY <2>1 DEF StopClaim, StopRefused, StopFreeze, starts, sessions
    <3>2. ~Shown'
      <4>1. CASE StopClaim(p)
        BY <4>1 DEF StopClaim, Exchange, Shown
      <4>2. CASE StopRefused(p)
        BY <4>2 DEF StopRefused, Shown, phase
      <4>3. CASE StopFreeze(p)
        BY <4>3 DEF StopFreeze, Shown, HandoverInv, SelectionInv
      <4> QED BY <2>1, <4>1, <4>2, <4>3
    <3> QED BY <3>1, <3>2, BoundKeep
  <2>2. CASE StopDisarm(p)
    <3>1. pc[p] = "disarm" /\ UNCHANGED <<state, startPc, capture, abortPc>>
      BY <2>2 DEF StopDisarm, phase, starts
    <3>2. \A s \in Starts : startPc[s] \in {"ready", "done"}
      BY <3>1, StopAlone
    <3>3. ~Shown'
      BY <3>1 DEF Shown, HandoverInv, SelectionInv
    <3> QED BY <3>1, <3>2, <3>3 DEF BoundInv
  <2>3. CASE StopTake(p)
    <3>1. /\ pc[p] = "selection" /\ capture' = CloseStored
      BY <2>3 DEF StopTake
    <3>2. \A s \in Starts : startPc[s] \in {"ready", "done"}
      BY <3>1, StopAlone
    <3>3. ASSUME NEW s \in Starts PROVE capture'[s] # "open"
      BY <3>1, <3>2, ClosedOpensNone DEF MicInv, MicOwned
    <3> QED BY <3>3 DEF BoundInv
  <2>4. CASE \/ StopNotified(p) \/ StopTimeout(p) \/ StopCancelled(p)
             \/ StopFailed(p) \/ StopChecked(p) \/ StopRead(p) \/ StopNoSpeech(p)
             \/ StopClear(p)
    <3> USE DEF StopNotified, StopTimeout, StopCancelled, StopFailed,
        StopChecked, StopRead, StopNoSpeech, StopClear
    <3>1. PICK l : pc' = [pc EXCEPT ![p] = l]
      BY <2>4 DEF Go
    <3>2. pc[p] \in {"wait", "check", "read", "clear"}
      BY <2>4
    <3>3. UNCHANGED <<abortPc, startPc, active_deadline_session_id, id, capture, pipeline_lock>>
      BY <2>4 DEF starts, sessions
    <3>4. state' = "Recording" => state = "Recording"
      BY <2>4 DEF ShowIdle, SetState, phase
    <3> HIDE DEF StopNotified, StopTimeout, StopCancelled, StopFailed,
        StopChecked, StopRead, StopNoSpeech, StopClear
    <3> QED BY <3>1, <3>2, <3>3, <3>4, BoundTask
  <2> QED BY <1>6, <2>1, <2>2, <2>3, <2>4 DEF StopStep
<1>7. ASSUME NEW p \in Tasks, TailStep(p)
      PROVE  BoundInv'
  <2> USE DEF TailStep, PolishStart, PolishAnswered, OutputStart, OutputDone,
      OutputSkipped, RunFinish
  <2>1. PICK l : pc' = [pc EXCEPT ![p] = l]
    BY <1>7 DEF Go
  <2>2. pc[p] \in {"polish", "llm", "deliver", "output", "finish"}
    BY <1>7
  <2>3. UNCHANGED <<abortPc, startPc, active_deadline_session_id, id, capture, pipeline_lock>>
    BY <1>7 DEF starts, sessions
  <2>4. state' = "Recording" => state = "Recording"
    BY <1>7 DEF ShowIdle, SetState, phase
  <2> HIDE DEF TailStep
  <2> QED BY <2>1, <2>2, <2>3, <2>4, BoundTask
<1>8. ASSUME NEW d \in Drafts, DraftClaim(d) \/ DraftRefused(d)
      PROVE  BoundInv'
  <2>1. PICK l : pc' = [pc EXCEPT ![d] = l] /\ pc[d] = "ready"
    BY <1>8 DEF DraftClaim, DraftRefused, Go
  <2>2. /\ d \in Tasks
        /\ UNCHANGED <<state, abortPc, startPc, active_deadline_session_id, id, capture,
                       pipeline_lock>>
    BY <1>8 DEF DraftClaim, DraftRefused, starts, sessions, phase, Tasks
  <2> QED BY <1>8, <2>1, <2>2, BoundTask
<1>9. ASSUME NEW a \in Aborts, AbortFlag(a) \/ AbortStep(a)
      PROVE  BoundInv'
  <2>1. CASE AbortDisarm(a)
    <3>1. abortPc'[a] = "disarmed"
      BY <1>0, <2>1 DEF AbortDisarm, GoAbort
    <3> QED BY <3>1 DEF BoundInv, Disarmed
  <2>2. CASE AbortClose(a)
    <3>1. capture' = CloseStored /\ UNCHANGED startPc
      BY <2>2 DEF AbortClose, starts
    <3>2. \A s \in Starts : capture'[s] = "open" =>
            capture[s] = "open" /\ startPc[s] \in {"connecting", "store"}
      BY <3>1, ClosedOpensNone DEF MicInv, MicOwned
    <3> QED BY <3>1, <3>2 DEF BoundInv
  <2>3. CASE \/ AbortFlag(a) \/ AbortSession(a) \/ AbortNotify(a) \/ AbortClear(a)
             \/ AbortIdle(a)
    <3>1. /\ abortPc[a] # "disarmed" /\ UNCHANGED <<startPc, id, active_deadline_session_id>>
          /\ UNCHANGED <<capture, pipeline_lock, pc>> /\ (state' = "Recording" => state = "Recording")
          /\ \E l : abortPc' = [abortPc EXCEPT ![a] = l]
      BY <2>3 DEF AbortFlag, AbortSession, AbortNotify, AbortClear, AbortIdle, GoAbort, SetState,
         phase, starts, sessions, tasks
    <3>2. Disarmed => Disarmed'
      BY <1>0, <3>1 DEF Disarmed
    <3> QED BY <3>1, <3>2 DEF BoundInv, Shown, Limited
  <2> QED BY <1>9, <2>1, <2>2, <2>3 DEF AbortStep
<1>10. CASE AllDone
  BY <1>2, <1>10 DEF AllDone
<1> QED BY <1>2, <1>3, <1>4, <1>5, <1>6, <1>7, <1>8, <1>9, <1>10 DEF Next

\* A microphone that is on while the app shows Recording, with no call in the middle of its work,
\* has a deadline task that will stop it: in any order of starts, stops, deadlines, aborts and
\* drafts, an abort() between any two fields that start() sets included.
THEOREM RecordingAlwaysBounded == Spec => []RecordingIsBounded
<1> DEFINE LimitInv == HandoverInv /\ MicInv /\ StageInv /\ OpenInv /\ BoundInv
<1>1. Init => LimitInv
  BY HandoverInit, SpeechInit DEF HandoverInv, Init, MicInv, MicOwned, OpenInv, BoundInv
<1>2. LimitInv /\ [Next]_vars => LimitInv'
  BY HandoverStep, MicStep, StageStep, OpenStep, BoundStep
<1>3. LimitInv => RecordingIsBounded
  <2> SUFFICES ASSUME LimitInv, Shown, \A a \in Aborts : abortPc[a] \in {"ready", "done"},
                      NEW s \in Starts, capture[s] = "open"
               PROVE  stt_session = s /\ Limited(s)
    BY DEF RecordingIsBounded, Shown
  <2>1. startPc[s] \in {"ready", "done"}
    BY StartHolds DEF Shown
  <2>2. stt_session = s /\ startPc[s] # "ready"
    BY <2>1 DEF OpenInv, Busy, StageInv
  <2> QED BY <2>1, <2>2 DEF BoundInv, Disarmed
<1> HIDE DEF LimitInv
<1> QED BY <1>1, <1>2, <1>3, PTL DEF Spec

-----------------------------------------------------------------------------
(* Without abort() and drafts the pipeline takes the steps of VoiceRun.    *)

\* Nobody meets a run, and a result is delivered at the end of its task.
QuietInv     == overtaken = {} /\ ~abort_flag
DeliveredInv == \A p \in delivered : pc[p] \in {"finish", "done"}

RunInv == /\ HandoverInv /\ MicInv /\ OwnInv /\ StageInv /\ SilentInv
          /\ OpenInv /\ QuietInv /\ DeliveredInv

\* The app shows the run of a stop() that is at work, and its microphone is off.
LEMMA RunAlone ==
    ASSUME RunInv, Drafts = {}, NEW p \in Tasks, AtWork(p)
    PROVE  /\ p \in Stoppers /\ Run(p) = taken[p].session /\ Run(p) \in Starts
           /\ owner = Run(p) /\ state # "Idle" /\ RunActive = Run(p)
           /\ \A s \in Starts : capture[s] # "open"
<1>1. p \in Stoppers /\ Run(p) = taken[p].session /\ Run(p) \in Starts
  BY DEF Tasks, Run, RunInv, SilentInv
<1>2. owner = Run(p) /\ state # "Idle"
  BY <1>1 DEF Active, RunInv, OwnInv, QuietInv
<1>3. ASSUME NEW s \in Starts, capture[s] = "open" PROVE FALSE
  <2>1. Fresh(s) /\ Active(s)
    BY <1>3 DEF RunInv, OpenInv, Active
  <2>2. owner = s
    BY <2>1 DEF RunInv, OwnInv, QuietInv
  <2> QED BY <1>1, <1>2, <2>1, <2>2 DEF Fresh
<1> QED BY <1>1, <1>2, <1>3 DEF RunActive

\* The app shows the run of a start() that is at work; no other microphone is on.
LEMMA StartShown ==
    ASSUME RunInv, NEW s \in Starts, Busy(s) \/ capture[s] = "open"
    PROVE  /\ owner = s /\ state # "Idle" /\ RunActive = s
           /\ \A t \in Starts : capture[t] = "open" => t = s
<1>1. \A t \in Starts : Busy(t) \/ capture[t] = "open" => Active(t)
  BY DEF RunInv, OpenInv, Active
<1>2. \A t \in Starts : Active(t) => owner = t /\ state # "Idle"
  BY DEF RunInv, OwnInv, QuietInv
<1> QED BY <1>1, <1>2 DEF RunActive

LEMMA QuietStep ==
    ASSUME Aborts = {}, Drafts = {}
    PROVE  RunInv /\ [Next]_vars => QuietInv' /\ DeliveredInv'
<1> SUFFICES ASSUME RunInv, [Next]_vars PROVE QuietInv' /\ DeliveredInv'
  OBVIOUS
<1>0. /\ pc \in [Tasks -> {"off", "armed", "ready", "disarm", "freeze", "selection", "wait", "check",
                           "read", "polish", "llm", "deliver", "output",
                           "finish", "clear", "done"}]
      /\ delivered \in SUBSET Tasks /\ Starts \subseteq Tasks
  BY DEF RunInv, HandoverInv, TypeInv, TypeOK, CallsOK, HistoryOK, Tasks, Stoppers
<1>1. CASE UNCHANGED <<overtaken, delivered, pc>> /\ (abort_flag' => abort_flag)
  BY <1>1 DEF RunInv, QuietInv, DeliveredInv
<1>2. CASE UNCHANGED vars
  BY <1>1, <1>2 DEF vars, tasks, history
\* A task goes on; if it is at its end already, to its return.
<1>3. ASSUME NEW p \in Tasks, NEW l, pc' = [pc EXCEPT ![p] = l],
             pc[p] \in {"finish", "done"} => l = "done",
             delivered' = delivered \/ (delivered' = delivered \cup {p} /\ l = "finish")
      PROVE  DeliveredInv'
  BY <1>0, <1>3 DEF RunInv, DeliveredInv
<1>4. ASSUME NEW s \in Starts, StartClaim(s) \/ StartRefused(s) \/ StartStep(s)
      PROVE  QuietInv' /\ DeliveredInv'
  <2>1. CASE StartSpawn(s)
    <3>1. /\ pc' = [pc EXCEPT ![s] = "armed"] /\ UNCHANGED <<overtaken, delivered, abort_flag>>
          /\ pc[s] = "off" /\ s \in Tasks
      BY <1>0, <2>1 DEF StartSpawn, Go, history, RunInv, HandoverInv, StartInv
    <3> QED BY <1>3, <3>1 DEF RunInv, QuietInv
  <2>2. CASE ~StartSpawn(s)
    BY <1>1, <1>4, <2>2 DEF StartClaim, StartRefused, StartStep, StartNotReady, StartPrepare,
       StartFail, StartConnected, StartStoreHandle, StartUndo, StartKeep, StartSession, StartArm,
       StartOperation, StartShow, StartGiveUp, tasks, history
  <2> QED BY <2>1, <2>2
<1>5. ASSUME NEW s \in Starts, SttStep(s)
      PROVE  QuietInv' /\ DeliveredInv'
  BY <1>1, <1>5 DEF SttStep, tasks, history
<1>6. ASSUME NEW s \in Starts, DeadlineStep(s)
      PROVE  QuietInv' /\ DeliveredInv'
  <2>1. PICK l : pc' = [pc EXCEPT ![s] = l] /\ pc[s] = "armed"
    BY <1>6 DEF DeadlineStep, DeadlineReached, DeadlineStale, Go
  <2>2. UNCHANGED <<overtaken, delivered, abort_flag>> /\ s \in Tasks
    BY <1>0, <1>6 DEF DeadlineStep, history
  <2> QED BY <1>3, <2>1, <2>2 DEF RunInv, QuietInv
<1>7. ASSUME NEW p \in Tasks, StopClaim(p) \/ StopRefused(p) \/ StopStep(p) \/ TailStep(p)
      PROVE  QuietInv' /\ DeliveredInv'
  <2>1. CASE StopTimeout(p) \/ StopFailed(p) \/ StopNoSpeech(p) \/ RunFinish(p)
    <3>1. PICK l \in {"clear", "done"} :
            /\ ShowIdle(p) /\ AtWork(p) /\ pc' = [pc EXCEPT ![p] = l]
            /\ pc[p] = "finish" => l = "done"
            /\ UNCHANGED abort_flag
      BY <2>1 DEF StopTimeout, StopFailed, StopNoSpeech, RunFinish, AtWork, Go
    <3>2. owner = Run(p)
      BY <3>1, RunAlone
    <3>3. overtaken' = {} /\ delivered' = delivered
      BY <3>1, <3>2 DEF ShowIdle, UnderWay, RunInv, QuietInv
    <3>4. pc[p] # "done"
      BY <3>1 DEF AtWork
    <3> QED BY <1>3, <3>1, <3>3, <3>4 DEF RunInv, QuietInv
  <2>2. CASE \/ StopClaim(p) \/ StopDisarm(p) \/ StopFreeze(p) \/ StopRefused(p)
             \/ StopTake(p) \/ StopNotified(p) \/ StopCancelled(p) \/ StopChecked(p)
             \/ StopRead(p) \/ StopClear(p)
    <3> USE DEF StopClaim, StopDisarm, StopFreeze, StopRefused, StopTake, StopNotified,
        StopCancelled, StopChecked, StopRead, StopClear
    <3>1. PICK l : pc' = [pc EXCEPT ![p] = l] /\ pc[p] \notin {"finish", "done"}
      BY <2>2 DEF Go
    <3>2. UNCHANGED <<overtaken, delivered, abort_flag>>
      BY <2>2 DEF history
    <3> HIDE DEF StopClaim, StopDisarm, StopFreeze, StopRefused, StopTake, StopNotified,
        StopCancelled, StopChecked, StopRead, StopClear
    <3> QED BY <1>3, <3>1, <3>2 DEF RunInv, QuietInv
  <2>3. CASE TailStep(p) /\ ~RunFinish(p)
    <3> USE DEF TailStep, PolishStart, PolishAnswered, OutputStart, OutputDone, OutputSkipped
    <3>1. PICK l : /\ pc' = [pc EXCEPT ![p] = l] /\ pc[p] \notin {"finish", "done"}
                   /\ \/ delivered' = delivered
                      \/ delivered' = delivered \cup {p} /\ l = "finish"
      BY <2>3 DEF Go, history
    <3>2. UNCHANGED <<overtaken, abort_flag>>
      BY <2>3 DEF history
    <3> HIDE DEF TailStep
    <3> QED BY <1>3, <3>1, <3>2 DEF RunInv, QuietInv
  <2> QED BY <1>7, <2>1, <2>2, <2>3 DEF StopStep
<1>8. CASE AllDone
  BY <1>2, <1>8 DEF AllDone
<1> QED BY <1>2, <1>4, <1>5, <1>6, <1>7, <1>8 DEF Next

\* Mic and Pastes, of the captures and of what was delivered.
MicOf(c)       == IF \E s \in Starts : c[s] = "open"
                    THEN CHOOSE s \in Starts : c[s] = "open" ELSE None
PastesOf(d, t) == [s \in Starts |-> Cardinality({p \in d : t[p].session = s})]

LEMMA MicIs ==
    ASSUME NEW c, NEW s \in Starts, \A t \in Starts : c[t] = "open" => t = s
    PROVE  MicOf(c) = IF c[s] = "open" THEN s ELSE None
<1>1. CASE c[s] = "open"
  <2>1. (CHOOSE t \in Starts : c[t] = "open") \in Starts
    BY <1>1
  <2>2. c[CHOOSE t \in Starts : c[t] = "open"] = "open"
    BY <1>1
  <2> QED BY <1>1, <2>1, <2>2 DEF MicOf
<1>2. CASE c[s] # "open"
  BY <1>2 DEF MicOf
<1> QED BY <1>1, <1>2

LEMMA MicOff ==
    ASSUME NEW c, \A t \in Starts : c[t] # "open"
    PROVE  MicOf(c) = None
  BY DEF MicOf

LEMMA MicSame ==
    ASSUME NEW c, NEW e, \A t \in Starts : c[t] = "open" <=> e[t] = "open"
    PROVE  MicOf(c) = MicOf(e)
<1>1. {t \in Starts : c[t] = "open"} = {t \in Starts : e[t] = "open"}
  OBVIOUS
<1>2. (CHOOSE t \in Starts : c[t] = "open") = CHOOSE t \in Starts : e[t] = "open"
  OBVIOUS
<1> QED BY <1>2 DEF MicOf

\* A task that has delivered nothing may take what it likes.
LEMMA PastesSame ==
    ASSUME NEW d, NEW t, NEW u, \A p \in d : t[p].session = u[p].session
    PROVE  PastesOf(d, t) = PastesOf(d, u)
<1>1. \A s \in Starts : {p \in d : t[p].session = s} = {p \in d : u[p].session = s}
  OBVIOUS
<1> QED BY <1>1 DEF PastesOf

LEMMA PastesNone ==
    ASSUME NEW d, NEW t, NEW s \in Starts, \A p \in d : t[p].session # s
    PROVE  PastesOf(d, t)[s] = 0
<1>1. {p \in d : t[p].session = s} = {}
  OBVIOUS
<1> QED BY <1>1, FS_EmptySet DEF PastesOf

LEMMA PastesOnce ==
    ASSUME NEW p \in Tasks, NEW s \in Starts, taken[p].session = s,
           \A q \in delivered : taken[q].session # s
    PROVE  PastesOf(delivered \cup {p}, taken) = [PastesOf(delivered, taken) EXCEPT ![s] = 1]
<1>1. {q \in delivered \cup {p} : taken[q].session = s} = {p}
  OBVIOUS
<1>2. Cardinality({p}) = 1
  BY FS_Singleton
<1>3. \A r \in Starts \ {s} :
        {q \in delivered \cup {p} : taken[q].session = r} =
          {q \in delivered : taken[q].session = r}
  OBVIOUS
<1> QED BY <1>1, <1>2, <1>3 DEF PastesOf

Promised == <<RunActive, Mic, Pastes>>

LEMMA PromiseStep ==
    ASSUME Aborts = {}, Drafts = {}
    PROVE  RunInv /\ [Next]_vars => [Promise!Next]_Promised
<1> SUFFICES ASSUME RunInv, [Next]_vars PROVE [Promise!Next]_Promised
  OBVIOUS
<1>0. /\ startPc \in [Starts -> {"ready", "claimed", "connecting", "store",
                                 "stored", "record", "arm", "operation", "show", "spawn", "done"}]
      /\ capture \in [Starts -> {"none", "open", "closed"}]
      /\ taken \in [Tasks -> [session : RunOrNone, audio : RunOrNone,
                              preload : RunOrNone, target : RunOrNone]]
      /\ delivered \in SUBSET Tasks /\ Tasks = Stoppers
      /\ None \notin Starts /\ TypeInv
  BY CallsAssumption
  DEF RunInv, HandoverInv, TypeInv, TypeOK, CallsOK, HistoryOK, Tasks, Stoppers
<1>a. Mic = MicOf(capture) /\ Pastes = PastesOf(delivered, taken)
  BY DEF Mic, MicOf, Pastes, PastesOf
<1>b. Mic' = MicOf(capture') /\ Pastes' = PastesOf(delivered', taken')
  BY DEF Mic, MicOf, Pastes, PastesOf
\* A step that VoiceRun does not see.
<1>1. ASSUME RunActive' = RunActive, UNCHANGED delivered,
             \A s \in Starts : capture'[s] = "open" <=> capture[s] = "open",
             \A p \in delivered : taken'[p].session = taken[p].session
      PROVE  [Promise!Next]_Promised
  <2>1. Mic' = Mic
    BY <1>1, <1>a, <1>b, MicSame
  <2>2. Pastes' = Pastes
    BY <1>1, <1>a, <1>b, PastesSame
  <2> QED BY <1>1, <2>1, <2>2 DEF Promised
<1>2. CASE UNCHANGED <<state, owner, capture, delivered, taken>>
  BY <1>1, <1>2 DEF RunActive
<1>3. CASE UNCHANGED vars
  BY <1>2, <1>3 DEF vars, phase, tasks, history
\* The stored microphone goes off, if it is on.
<1>4. ASSUME capture' = CloseStored, UNCHANGED <<state, owner, delivered>>,
             \A p \in delivered : taken'[p].session = taken[p].session
      PROVE  [Promise!Next]_Promised
  <2>1. RunActive' = RunActive
    BY <1>4 DEF RunActive
  <2>2. CASE audio_handle \in Starts /\ capture[audio_handle] = "open"
    <3>1. PICK s \in Starts : audio_handle = s /\ capture[s] = "open"
      BY <2>2
    <3>2. RunActive = s /\ \A t \in Starts : capture[t] = "open" => t = s
      BY <3>1, StartShown
    <3>3. Mic = s
      BY <1>a, <3>1, <3>2, MicIs
    <3>4. \A t \in Starts : capture'[t] # "open"
      BY <1>0, <1>4, <3>1, <3>2, ClosedOpensNone
    <3>5. Mic' = None
      BY <1>b, <3>4, MicOff
    <3>6. Pastes' = Pastes
      BY <1>4, <1>a, <1>b, PastesSame
    <3>7. Promise!Hush
      BY <2>1, <3>2, <3>3, <3>5, <3>6 DEF Promise!Hush
    <3> QED BY <3>7 DEF Promise!Next
  <2>3. CASE ~(audio_handle \in Starts /\ capture[audio_handle] = "open")
    <3>1. \A s \in Starts : capture'[s] = "open" <=> capture[s] = "open"
      BY <1>0, <1>4, <2>3 DEF CloseStored, TypeInv, TypeOK, SharedOK, RunOrNone
    <3> QED BY <1>1, <1>4, <2>1, <3>1
  <2> QED BY <2>2, <2>3
\* A run that the app shows ends, with its microphone off.
<1>5. ASSUME NEW s \in Starts, RunActive = s, state' = "Idle", UNCHANGED <<delivered, taken>>,
             \A t \in Starts : capture'[t] # "open"
      PROVE  [Promise!Next]_Promised
  <2>1. RunActive' = None
    BY <1>5 DEF RunActive
  <2>2. Mic' = None
    BY <1>5, <1>b, MicOff
  <2>3. Pastes' = Pastes
    BY <1>5, <1>a, <1>b
  <2>4. Promise!End
    BY <1>0, <1>5, <2>1, <2>2, <2>3 DEF Promise!End
  <2> QED BY <2>4 DEF Promise!Next
<1>6. ASSUME NEW s \in Starts, StartClaim(s) \/ StartRefused(s) \/ StartStep(s)
      PROVE  [Promise!Next]_Promised
  <2>1. CASE StartClaim(s)
    <3>1. /\ state = "Idle" /\ state' = "Preparing" /\ owner' = s
          /\ UNCHANGED <<capture, delivered, taken>>
      BY <2>1 DEF StartClaim, Exchange, tasks
    <3>2. Mic' = Mic /\ Pastes' = Pastes
      BY <1>a, <1>b, <3>1
    <3>3. RunActive = None /\ RunActive' = s
      BY <3>1 DEF RunActive
    <3>4. Promise!Begin(s)
      BY <3>2, <3>3 DEF Promise!Begin
    <3> QED BY <3>4 DEF Promise!Next
  <2>2. CASE StartNotReady(s) \/ StartFail(s) \/ StartUndo(s)
    <3>1. /\ state' = "Idle" /\ UNCHANGED <<delivered, taken>>
          /\ startPc[s] \in {"claimed", "connecting"}
      BY <2>2 DEF StartNotReady, StartFail, StartUndo, StartGiveUp, SetState, tasks, history,
         RunInv, QuietInv
    <3>2. RunActive = s /\ \A t \in Starts : capture[t] = "open" => t = s
      BY <3>1, StartShown DEF Busy
    <3>3. CASE StartNotReady(s)
      <4>1. capture[s] = "none" /\ UNCHANGED capture
        BY <3>3 DEF StartNotReady, RunInv, StageInv
      <4>2. \A t \in Starts : capture'[t] # "open"
        BY <3>2, <4>1
      <4> QED BY <1>5, <3>1, <3>2, <4>2
    <3>4. CASE StartFail(s)
      <4>1. capture' = [capture EXCEPT ![s] = "closed"]
        BY <3>4 DEF StartFail
      <4>2. \A t \in Starts : capture'[t] # "open"
        BY <1>0, <3>2, <4>1
      <4> QED BY <1>5, <3>1, <3>2, <4>2
    <3> QED BY <2>2, <3>3, <3>4 DEF StartUndo, RunInv, QuietInv
  <2>3. CASE StartPrepare(s)
    <3>1. /\ startPc[s] = "claimed" /\ state' = "Preparing"
          /\ capture' = [capture EXCEPT ![s] = "open"]
          /\ UNCHANGED <<owner, delivered, taken>>
      BY <2>3 DEF StartPrepare, SetState, tasks, history
    <3>2. /\ owner = s /\ state # "Idle" /\ RunActive = s
          /\ \A t \in Starts : capture[t] = "open" => t = s
      BY <3>1, StartShown DEF Busy
    <3>3. RunActive' = s
      BY <3>1, <3>2 DEF RunActive
    <3>4. capture[s] = "none"
      BY <3>1 DEF RunInv, StageInv
    <3>5. Mic = None
      BY <1>a, <3>2, <3>4, MicIs
    <3>6. capture'[s] = "open" /\ \A t \in Starts : capture'[t] = "open" => t = s
      BY <1>0, <3>1, <3>2
    <3>7. Mic' = s
      BY <1>b, <3>6, MicIs
    <3>8. Fresh(s)
      BY <3>1 DEF RunInv, HandoverInv, StartInv
    <3>9. Pastes[s] = 0
      BY <1>0, <1>a, <3>8, PastesNone DEF Fresh
    <3>10. Pastes' = Pastes
      BY <1>a, <1>b, <3>1
    <3>11. Promise!Listen
      BY <1>0, <3>2, <3>3, <3>5, <3>7, <3>9, <3>10 DEF Promise!Listen
    <3> QED BY <3>11 DEF Promise!Next
  <2>4. CASE StartStoreHandle(s)
    BY <1>4, <2>4 DEF StartStoreHandle, phase, tasks, history
  <2>5. CASE \/ StartRefused(s) \/ StartConnected(s) \/ StartKeep(s) \/ StartSession(s)
             \/ StartArm(s) \/ StartOperation(s) \/ StartSpawn(s)
    BY <1>2, <2>5 DEF StartRefused, StartConnected, StartKeep, StartSession, StartArm,
       StartOperation, StartSpawn, phase, tasks, history
  <2>6. CASE StartShow(s)
    <3>1. /\ startPc[s] = "show" /\ state' = "Recording"
          /\ UNCHANGED <<owner, capture, delivered, taken>>
      BY <2>6 DEF StartShow, SetState, tasks, history
    <3>2. state # "Idle"
      BY <3>1, StartShown DEF Busy
    <3> QED BY <1>1, <3>1, <3>2 DEF RunActive
  <2> QED BY <1>6, <2>1, <2>2, <2>3, <2>4, <2>5, <2>6 DEF StartStep
<1>7. ASSUME NEW s \in Starts, SttStep(s) \/ DeadlineStep(s)
      PROVE  [Promise!Next]_Promised
  BY <1>2, <1>7 DEF SttStep, DeadlineStep, phase, tasks, history
<1>8. ASSUME NEW p \in Tasks, StopClaim(p) \/ StopRefused(p) \/ StopStep(p)
      PROVE  [Promise!Next]_Promised
  <2>1. CASE StopClaim(p)
    <3>1. /\ state = "Recording" /\ state' = "Transcribing"
          /\ UNCHANGED <<owner, capture, delivered, taken>>
      BY <2>1 DEF StopClaim, Exchange, history
    <3> QED BY <1>1, <3>1 DEF RunActive
  <2>2. CASE StopTake(p)
    <3>1. /\ pc[p] = "selection" /\ capture' = CloseStored
          /\ UNCHANGED <<state, owner, delivered>>
      BY <2>2 DEF StopTake, phase, history
    <3>2. p \notin delivered
      BY <3>1 DEF RunInv, DeliveredInv
    <3>3. \A q \in delivered : taken'[q] = taken[q]
      BY <1>0, <2>2, <3>2 DEF StopTake
    <3> QED BY <1>4, <3>1, <3>3
  <2>3. CASE StopTimeout(p) \/ StopFailed(p) \/ StopNoSpeech(p)
    <3>1. AtWork(p) /\ state' = "Idle" /\ UNCHANGED <<capture, delivered, taken>>
      BY <2>3 DEF StopTimeout, StopFailed, StopNoSpeech, ShowIdle, SetState, AtWork
    <3> QED BY <1>5, <3>1, RunAlone
  <2>4. CASE \/ StopRefused(p) \/ StopNotified(p) \/ StopCancelled(p)
             \/ StopChecked(p) \/ StopRead(p) \/ StopClear(p)
    BY <1>2, <2>4 DEF StopRefused, StopNotified, StopCancelled, StopChecked, StopRead, StopClear,
       phase, tasks, history
  <2>5. CASE StopDisarm(p)
    BY <1>2, <2>5 DEF StopDisarm, phase, tasks, history
  <2>6. CASE StopFreeze(p)
    <3>1. UNCHANGED <<state, owner, capture, delivered>>
      BY <2>6 DEF StopFreeze, history
    <3>2. \A q \in Tasks : taken'[q].session = taken[q].session
      BY <1>0, <2>6, FreezesTarget
    <3> QED BY <1>0, <1>1, <3>1, <3>2 DEF RunActive
  <2> QED BY <1>8, <2>1, <2>2, <2>3, <2>4, <2>5, <2>6 DEF StopStep
<1>9. ASSUME NEW p \in Tasks, TailStep(p)
      PROVE  [Promise!Next]_Promised
  <2>0. AtWork(p)
    BY <1>9 DEF TailStep, PolishStart, PolishAnswered, OutputStart, OutputDone, OutputSkipped,
       RunFinish, AtWork
  <2>1. /\ p \in Stoppers /\ Run(p) = taken[p].session /\ Run(p) \in Starts
        /\ owner = Run(p) /\ state # "Idle" /\ RunActive = Run(p)
        /\ \A s \in Starts : capture[s] # "open"
    BY <2>0, RunAlone
  <2>2. CASE OutputDone(p)
    <3>1. /\ pc[p] = "output" /\ delivered' = delivered \cup {p}
          /\ UNCHANGED <<state, owner, capture, taken>>
      BY <2>2 DEF OutputDone, phase
    <3>2. RunActive' = RunActive /\ Mic = None /\ Mic' = None
      BY <1>a, <1>b, <2>1, <3>1, MicOff DEF RunActive
    <3>3. \A q \in delivered : taken[q].session # Run(p)
      BY <1>0, <2>1, <3>1 DEF RunInv, DeliveredInv, HandoverInv, OneStopPerRun
    <3>4. Pastes[RunActive] = 0
      BY <1>a, <2>1, <3>3, PastesNone
    <3>5. Pastes' = [Pastes EXCEPT ![RunActive] = 1]
      <4>1. PICK s \in Starts : s = Run(p) /\ taken[p].session = s
        BY <2>1
      <4>2. \A q \in delivered : taken[q].session # s
        BY <3>3, <4>1
      <4>3. PastesOf(delivered \cup {p}, taken) = [PastesOf(delivered, taken) EXCEPT ![s] = 1]
        BY <4>1, <4>2, PastesOnce
      <4> QED BY <1>a, <1>b, <2>1, <3>1, <4>1, <4>3
    <3>6. Promise!Paste
      BY <1>0, <2>1, <3>2, <3>4, <3>5 DEF Promise!Paste
    <3> QED BY <3>6 DEF Promise!Next
  <2>3. CASE RunFinish(p)
    <3>1. state' = "Idle" /\ UNCHANGED <<capture, delivered, taken>>
      BY <2>3 DEF RunFinish, ShowIdle, SetState
    <3> QED BY <1>5, <2>1, <3>1
  <2>4. CASE ~OutputDone(p) /\ ~RunFinish(p)
    <3>1. state' # "Idle" /\ UNCHANGED <<owner, capture, delivered, taken>>
      BY <1>9, <2>1, <2>4 DEF TailStep, PolishStart, PolishAnswered, OutputStart, OutputSkipped,
         SetState, phase, history
    <3> QED BY <1>1, <2>1, <3>1 DEF RunActive
  <2> QED BY <2>2, <2>3, <2>4
<1>10. CASE AllDone
  BY <1>3, <1>10 DEF AllDone
<1> QED BY <1>3, <1>6, <1>7, <1>8, <1>9, <1>10 DEF Next

\* Where nobody calls abort() and no draft borrows it, the pipeline implements VoiceRun, fairness
\* aside: runs come one after the other, each records only while it has the pipeline, and each is
\* pasted at most once, with the microphone off.
THEOREM PipelineImplementsVoiceRun ==
    ASSUME Aborts = {}, Drafts = {}
    PROVE  Spec => Promise!Spec
<1>1. Init => RunInv
  <2> SUFFICES ASSUME Init PROVE RunInv
    OBVIOUS
  <2>1. HandoverInv /\ OwnInv /\ StageInv /\ SilentInv
    BY HandoverInit, OwnInit, SpeechInit
  <2>2. MicInv /\ OpenInv
    BY <2>1 DEF Init, HandoverInv, MicInv, MicOwned, OpenInv
  <2>3. QuietInv /\ DeliveredInv
    BY DEF Init, QuietInv, DeliveredInv
  <2> QED BY <2>1, <2>2, <2>3 DEF RunInv
<1>2. RunInv /\ [Next]_vars => RunInv'
  <2> SUFFICES ASSUME RunInv, [Next]_vars PROVE RunInv'
    OBVIOUS
  <2>1. HandoverInv' /\ MicInv' /\ OwnInv'
    BY HandoverStep, MicStep, OwnStep DEF RunInv
  <2>2. StageInv' /\ SilentInv' /\ OpenInv'
    BY StageStep, SilentStep, OpenStep DEF RunInv
  <2>3. QuietInv' /\ DeliveredInv'
    BY QuietStep
  <2> QED BY <2>1, <2>2, <2>3 DEF RunInv
<1>3. Init => Promise!Init
  <2> SUFFICES ASSUME Init PROVE Promise!Init
    OBVIOUS
  <2>1. RunActive = None
    BY DEF Init, RunActive
  <2>2. Mic = None
    BY DEF Init, Mic
  <2>3. Pastes = [r \in Starts |-> 0]
    <3>1. \A s \in Starts : {p \in delivered : taken[p].session = s} = {}
      BY DEF Init
    <3> QED BY <3>1, FS_EmptySet DEF Pastes
  <2> QED BY <2>1, <2>2, <2>3 DEF Promise!Init
<1>4. RunInv /\ [Next]_vars => [Promise!Next]_<<RunActive, Mic, Pastes>>
  BY PromiseStep DEF Promised
<1> QED BY <1>1, <1>2, <1>3, <1>4, PTL DEF Spec, Promise!Spec, Promise!vars

=============================================================================
