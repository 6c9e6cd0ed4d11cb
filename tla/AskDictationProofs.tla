------------------------- MODULE AskDictationProofs -------------------------
(***************************************************************************)
(* What holds of Ask for every number of presses, wake phrases and Escapes. *)
(* AskInv is inductive: OnePhase, AskMicOwned, RevivedOnlyByNext and        *)
(* NoCancelLost need one another and say nothing of where each process is,  *)
(* which StartedInv, ReservedInv, TakenInv and NotifyInv add.               *)
(***************************************************************************)
EXTENDS AskDictation, TLAPS
\* Where a process may be.
Unreserved == {"ready", "look", "request", "begin"}
Unstarted  == Unreserved \cup {"begun", "opening"}
Working    == {"halt", "wait", "work", "draft", "polish", "ending", "dropped"}
Places     == Unstarted \cup Working
                \cup {"off", "armed", "return", "stop", "take", "tail", "dictate",
                      "may_start", "may_end", "start", "end", "transcribe", "abort",
                      "cancel", "notify", "done"}

AskTypes ==
    /\ starting \in BOOLEAN /\ stop_after_start \in BOOLEAN /\ processing \in BOOLEAN
    /\ session \in Starts \cup {None}
    /\ processing_cancel \in Stoppers \cup {None}
    /\ pc \in [Procs -> Places]
    /\ taken \in [Procs -> Starts \cup {None}]
    /\ mic \in [Starts -> BOOLEAN]
    /\ listening \subseteq Starts
    /\ permit \subseteq Stoppers
    /\ reserved \in Starts \cup {None}
    /\ cancelled \subseteq Starts

\* A run that is, or was, the session has passed its start; the deadline task of a
\* run waits for its start.
StartedInv ==
    \A s \in Starts :
        /\ session = s \/ (\E x \in Procs : taken[x] = s) => pc[s] \notin Unstarted
        /\ pc[s] \in Unstarted => pc[<<s>>] = "off"

\* Only starts that reserved Ask are reserved or cancelled, and the one that is
\* starting now has not been cancelled.
ReservedInv ==
    /\ \A s \in Starts : reserved = s \/ s \in cancelled => pc[s] \notin Unreserved
    /\ starting => reserved \in Starts \ cancelled

\* A stop() has a session from its take to its end, and turns its microphone off first.
TakenInv ==
    \A x \in Stoppers :
        /\ InWork(x) \/ pc[x] = "tail" => taken[x] \in Starts
        /\ InWork(x) /\ pc[x] \notin {"halt", "dropped"} => ~mic[taken[x]]

\* The Notify that is stored is that of the stop() at work.
NotifyInv == processing_cancel # None => InWork(processing_cancel)

AskInv ==
    /\ AskTypes
    /\ OnePhase
    /\ StartedInv
    /\ ReservedInv
    /\ TakenInv
    /\ NotifyInv
    /\ AskMicOwned
    /\ RevivedOnlyByNext
    /\ NoCancelLost

\* Who is who among the processes.
LEMMA Processes ==
  /\ \A s \in Starts : /\ s \in Stoppers /\ s \notin Timers
                       /\ <<s>> \in Timers /\ <<s>> \in Stoppers
  /\ \A s, t \in Starts : <<s>> = <<t>> => s = t
  /\ \A k \in AskKeys \cup Wakes \cup Flows : k \in Starts
  /\ \A k \in DictKeys \cup Toggles : k \in Stoppers /\ k \notin Starts \cup Timers
  /\ \A x \in Stoppers : x \in Procs /\ x \notin Escapes /\ x # None
  /\ \A e \in Escapes : e \in Procs /\ e \notin Stoppers /\ e # None
  /\ \A x \in Procs : x \in Stoppers \/ x \in Escapes
  /\ \A x \in Stoppers : x \in Starts \cup Timers \/ x \in DictKeys \cup Toggles
  /\ None \notin Starts
BY PressesAssumption DEF Procs, Stoppers, Presses, Timers, Starts

\* What a Dictate press does to its process; nothing of Ask changes.
LEMMA MovesDict ==
  ASSUME AskTypes, NEW k \in DictKeys \cup Toggles, DictLookAtAsk(k) \/ DictStop(k)
  PROVE  /\ pc[k] \in {"may_start", "may_end", "end"}
         /\ pc'[k] \in {"start", "end", "transcribe", "done"}
         /\ \A x \in Procs : x # k => pc'[x] = pc[x]
         /\ UNCHANGED <<inner, taken, mic, listening, permit, reserved, cancelled>>
<1> k \in Procs
  BY Processes
<1> pc \in [Procs -> Places]
  BY DEF AskTypes
<1>1. CASE DictLookAtAsk(k)
  <2>1. PICK a \in {"may_start", "may_end"}, b \in {"start", "end", "done"} :
           pc[k] = a /\ pc' = [pc EXCEPT ![k] = b]
    <3>1. CASE Go(k, "may_start", IF IsBusy THEN "done" ELSE "start")
      BY <3>1 DEF Go
    <3>2. CASE Go(k, "may_end", IF IsBusy THEN "done" ELSE "end")
      BY <3>2 DEF Go
    <3> QED
      BY <1>1, <3>1, <3>2 DEF DictLookAtAsk
  <2> QED
    BY <1>1, <2>1 DEF DictLookAtAsk
<1>2. CASE DictStop(k)
  <2>1. PICK b \in {"transcribe", "done"} :
           pc[k] = "end" /\ pc' = [pc EXCEPT ![k] = b]
    BY <1>2 DEF Go, DictStop
  <2> QED
    BY <1>2, <2>1 DEF DictStop
<1> QED
  BY <1>1, <1>2

\* What the end of the transcript does to its stop().
LEMMA MovesTranscribed ==
  ASSUME AskTypes, NEW x \in Stoppers, Transcribed(x)
  PROVE  /\ pc[x] = "wait"
         /\ pc'[x] \in {"work", "ending"}
         /\ \A y \in Procs : y # x => pc'[y] = pc[y]
         /\ UNCHANGED <<inner, taken, mic, listening, permit, dict, reserved, cancelled>>
<1> x \in Procs
  BY Processes
<1> pc \in [Procs -> Places]
  BY DEF AskTypes
<1> QED
  BY DEF Transcribed, Go

\* A start that opens its microphone owns it; the others keep theirs.
LEMMA MicOpenMic ==
  ASSUME AskTypes, AskMicOwned, NEW k \in Starts, OpenMic(k)
  PROVE  AskMicOwned'
<1>1. /\ \A x \in Procs : x # k => pc'[x] = pc[x]
      /\ pc[k] = "begun" /\ pc'[k] = "opening"
      /\ \A s \in Starts : s # k => mic'[s] = mic[s]
      /\ UNCHANGED <<session, taken>>
  BY Processes, ZenonT(40) DEF OpenMic, Go, AskTypes, inner
<1>2. SUFFICES ASSUME NEW s \in Starts, mic[s], s # k
               PROVE  \/ session = s
                      \/ pc'[s] = "opening"
                      \/ \E x \in Stoppers : taken[x] = s /\ (InWork(x)' \/ pc'[x] = "tail")
                      \/ \E e \in Escapes : taken[e] = s /\ pc'[e] = "halt"
  BY <1>1 DEF AskMicOwned
<1>3. \A x \in Procs : InWork(x) \/ pc[x] \in {"tail", "halt", "opening"} => pc'[x] = pc[x]
  BY <1>1 DEF InWork
<1>4. CASE \E x \in Stoppers : taken[x] = s /\ (InWork(x) \/ pc[x] = "tail")
  BY <1>3, <1>4, Processes DEF InWork
<1>5. CASE \E e \in Escapes : taken[e] = s /\ pc[e] = "halt"
  BY <1>3, <1>5, Processes
<1> QED
  BY <1>2, <1>3, <1>4, <1>5, Processes DEF AskMicOwned

\* A start that commits hands its microphone to the session; the others keep theirs.
LEMMA MicCommit ==
  ASSUME AskTypes, AskMicOwned, StartedInv, NEW k \in Starts, Commit(k)
  PROVE  AskMicOwned'
<1>1. /\ \A x \in Procs : x # k /\ x # <<k>> => pc'[x] = pc[x]
      /\ pc[k] = "opening" /\ pc[<<k>>] = "off"
      /\ UNCHANGED <<mic, taken>>
      /\ session = None /\ session' = k
  BY Processes, ZenonT(40) DEF Commit, Wanted, StartedInv, Unstarted, AskTypes
<1>2. SUFFICES ASSUME NEW s \in Starts, mic[s], s # k
               PROVE  \/ pc'[s] = "opening"
                      \/ \E x \in Stoppers : taken[x] = s /\ (InWork(x)' \/ pc'[x] = "tail")
                      \/ \E e \in Escapes : taken[e] = s /\ pc'[e] = "halt"
  BY <1>1 DEF AskMicOwned
<1>3. \A x \in Procs : InWork(x) \/ pc[x] \in {"tail", "halt"} => pc'[x] = pc[x]
  BY <1>1, Processes DEF InWork
<1>4. CASE \E x \in Stoppers : taken[x] = s /\ (InWork(x) \/ pc[x] = "tail")
  BY <1>3, <1>4, Processes DEF InWork
<1>5. CASE \E e \in Escapes : taken[e] = s /\ pc[e] = "halt"
  BY <1>3, <1>5, Processes
<1>6. pc[s] = "opening" => pc'[s] = pc[s]
  BY <1>1, <1>2, Processes
<1> QED
  BY <1>1, <1>2, <1>4, <1>5, <1>6, Processes DEF AskMicOwned

\* The values stay in their sets: a cancelled run was a session or had reserved Ask.
LEMMA AskTypesStep ==
  ASSUME AskInv, [Next]_vars
  PROVE  AskTypes'
<1> USE Processes DEF AskInv, AskTypes, Go, ClearStarting, IsBusy, inner, dict, Places,
            Unstarted, Unreserved, Working, ReservedInv
<1>1. ASSUME NEW k \in AskKeys \cup DictKeys, LookRecording(k)  PROVE AskTypes'
  BY <1>1 DEF LookRecording
<1>2. ASSUME NEW k \in AskKeys \cup DictKeys, LookStarting(k)  PROVE AskTypes'
  BY <1>2 DEF LookStarting
<1>3. ASSUME NEW k \in AskKeys \cup DictKeys, RequestStop(k)  PROVE AskTypes'
  BY <1>3 DEF RequestStop
<1>4. ASSUME NEW k \in Wakes \cup Flows \cup Toggles, PressUnseen(k)  PROVE AskTypes'
  BY <1>4 DEF PressUnseen
<1>5. ASSUME NEW k \in Starts, BeginStart(k)  PROVE AskTypes'
  BY <1>5 DEF BeginStart
<1>6. ASSUME NEW k \in Starts, BeginRefused(k)  PROVE AskTypes'
  BY <1>6 DEF BeginRefused
<1>7. ASSUME NEW k \in Starts, NotReady(k)  PROVE AskTypes'
  BY <1>7 DEF NotReady
<1>8. ASSUME NEW k \in Starts, OpenMic(k)  PROVE AskTypes'
  BY <1>8 DEF OpenMic
<1>9. ASSUME NEW k \in Starts, StartFails(k)  PROVE AskTypes'
  BY <1>9 DEF StartFails
<1>10. ASSUME NEW k \in Starts, Commit(k)  PROVE AskTypes'
  BY <1>10 DEF Commit
<1>11. ASSUME NEW k \in Starts, Discard(k)  PROVE AskTypes'
  BY <1>11 DEF Discard
<1>12. ASSUME NEW k \in Starts, Return(k)  PROVE AskTypes'
  BY <1>12 DEF Return
<1>13. ASSUME NEW k \in Starts, SpeechFails(k)  PROVE AskTypes'
  BY <1>13, ZenonT(40) DEF SpeechFails
<1>14. ASSUME NEW k \in Starts, Deadline(k)  PROVE AskTypes'
  BY <1>14 DEF Deadline
<1>15. ASSUME NEW k \in Stoppers, StopLook(k)  PROVE AskTypes'
  BY <1>15 DEF StopLook
<1>16. ASSUME NEW k \in Stoppers, StopRefused(k)  PROVE AskTypes'
  BY <1>16 DEF StopRefused
<1>17. ASSUME NEW k \in Stoppers, StopTake(k)  PROVE AskTypes'
  BY <1>17 DEF StopTake
<1>18. ASSUME NEW k \in Stoppers, HaltMic(k)  PROVE AskTypes'
  BY <1>18 DEF HaltMic
<1>19. ASSUME NEW k \in Stoppers, Transcribed(k)  PROVE AskTypes'
  BY <1>19 DEF Transcribed
<1>20. ASSUME NEW k \in Stoppers, Answer(k)  PROVE AskTypes'
  BY <1>20 DEF Answer
<1>21. ASSUME NEW k \in Stoppers, DraftLook(k)  PROVE AskTypes'
  BY <1>21 DEF DraftLook
<1>22. ASSUME NEW k \in Stoppers, DraftPolish(k)  PROVE AskTypes'
  BY <1>22 DEF DraftPolish
<1>23. ASSUME NEW k \in Stoppers, DraftEnd(k)  PROVE AskTypes'
  BY <1>23 DEF DraftEnd
<1>24. ASSUME NEW k \in Stoppers, EndProcessing(k)  PROVE AskTypes'
  BY <1>24 DEF EndProcessing
<1>25. ASSUME NEW k \in Stoppers, DropTail(k)  PROVE AskTypes'
  BY <1>25 DEF DropTail
<1>26. ASSUME NEW k \in Stoppers, Drop(k)  PROVE AskTypes'
  BY <1>26 DEF Drop
<1>27. ASSUME NEW k \in DictKeys \cup Toggles, DictDecide(k)  PROVE AskTypes'
  BY <1>27 DEF DictDecide
<1>28. ASSUME NEW k \in DictKeys \cup Toggles, DictLookAtAsk(k)  PROVE AskTypes'
  BY <1>28 DEF DictLookAtAsk
<1>29. ASSUME NEW k \in DictKeys \cup Toggles, DictStart(k)  PROVE AskTypes'
  BY <1>29 DEF DictStart
<1>30. ASSUME NEW k \in DictKeys \cup Toggles, DictStop(k)  PROVE AskTypes'
  BY <1>30 DEF DictStop
<1>31. ASSUME NEW k \in DictKeys \cup Toggles, DictEnd(k)  PROVE AskTypes'
  BY <1>31 DEF DictEnd
<1>32. ASSUME NEW k \in Escapes, EscapeLook(k)  PROVE AskTypes'
  BY <1>32 DEF EscapeLook
<1>33. ASSUME NEW k \in Escapes, AbortRun(k)  PROVE AskTypes'
  BY <1>33 DEF AbortRun
<1>34. ASSUME NEW k \in Escapes, CancelStartOrRecording(k)  PROVE AskTypes'
  BY <1>34 DEF CancelStartOrRecording
<1>35. ASSUME NEW k \in Escapes, CancelHaltMic(k)  PROVE AskTypes'
  BY <1>35 DEF CancelHaltMic
<1>36. ASSUME NEW k \in Escapes, CancelProcessing(k)  PROVE AskTypes'
  BY <1>36 DEF CancelProcessing
<1>37. CASE UNCHANGED vars
  BY <1>37 DEF vars
<1> QED
  BY <1>1, <1>2, <1>3, <1>4, <1>5, <1>6, <1>7, <1>8, <1>9, <1>10, <1>11, <1>12, <1>13,
     <1>14, <1>15, <1>16, <1>17, <1>18, <1>19, <1>20, <1>21, <1>22, <1>23, <1>24,
     <1>25, <1>26, <1>27, <1>28, <1>29, <1>30, <1>31, <1>32, <1>33, <1>34, <1>35,
     <1>36, <1>37
  DEF Next, StartStep, StopStep, DictStep, CancelStep, AllDone

\* A start begins only when nothing is at work, and a stop() takes only a session that
\* nobody thinks about.
LEMMA OnePhaseStep ==
  ASSUME AskInv, [Next]_vars
  PROVE  OnePhase'
<1> USE Processes DEF AskInv, AskTypes, Go, ClearStarting, IsBusy, inner, dict,
            OnePhase, InWork, MayBegin, Wanted
<1>1. ASSUME NEW k \in AskKeys \cup DictKeys,
             \/ LookRecording(k) \/ LookStarting(k) \/ RequestStop(k)
      PROVE  OnePhase'
  BY <1>1 DEF LookRecording, LookStarting, RequestStop
<1>2. ASSUME NEW k \in Wakes \cup Flows \cup Toggles, PressUnseen(k)  PROVE OnePhase'
  BY <1>2 DEF PressUnseen
<1>3. ASSUME NEW k \in Starts,
             \/ BeginStart(k) \/ BeginRefused(k) \/ NotReady(k) \/ OpenMic(k)
             \/ StartFails(k)
      PROVE  OnePhase'
  BY <1>3 DEF BeginStart, BeginRefused, NotReady, OpenMic, StartFails
<1>4. ASSUME NEW k \in Starts,
             \/ Commit(k) \/ Discard(k) \/ Return(k) \/ SpeechFails(k) \/ Deadline(k)
      PROVE  OnePhase'
  BY <1>4 DEF Commit, Discard, Return, SpeechFails, Deadline
<1>5. ASSUME NEW k \in Stoppers,
             \/ StopLook(k) \/ StopRefused(k) \/ StopTake(k) \/ HaltMic(k)
             \/ Transcribed(k)
      PROVE  OnePhase'
  BY <1>5 DEF StopLook, StopRefused, StopTake, HaltMic, Transcribed
<1>6. ASSUME NEW k \in Stoppers,
             \/ Answer(k) \/ DraftLook(k) \/ DraftPolish(k) \/ DraftEnd(k)
             \/ EndProcessing(k)
      PROVE  OnePhase'
  BY <1>6 DEF Answer, DraftLook, DraftPolish, DraftEnd, EndProcessing
<1>7. ASSUME NEW k \in Stoppers,
             \/ DropTail(k) \/ Drop(k)
      PROVE  OnePhase'
  BY <1>7 DEF DropTail, Drop
<1>8. ASSUME NEW k \in DictKeys \cup Toggles,
             \/ DictDecide(k) \/ DictLookAtAsk(k) \/ DictStart(k) \/ DictStop(k)
             \/ DictEnd(k)
      PROVE  OnePhase'
  BY <1>8 DEF DictDecide, DictLookAtAsk, DictStart, DictStop, DictEnd
<1>9. ASSUME NEW k \in Escapes,
             \/ EscapeLook(k) \/ AbortRun(k) \/ CancelStartOrRecording(k)
             \/ CancelHaltMic(k) \/ CancelProcessing(k)
      PROVE  OnePhase'
  BY <1>9 DEF EscapeLook, AbortRun, CancelStartOrRecording, CancelHaltMic,
     CancelProcessing
<1>10. CASE UNCHANGED vars
  BY <1>10 DEF vars
<1> QED
  BY <1>1, <1>2, <1>3, <1>4, <1>5, <1>6, <1>7, <1>8, <1>9, <1>10
  DEF Next, StartStep, StopStep, DictStep, CancelStep, AllDone

\* A session, and what was taken of one, is a start that has come to its commit.
LEMMA StartedStep ==
  ASSUME AskInv, [Next]_vars
  PROVE  StartedInv'
<1> USE Processes DEF AskInv, AskTypes, Go, ClearStarting, IsBusy, inner, dict,
            StartedInv, Unstarted, Unreserved
<1>1. ASSUME NEW k \in AskKeys \cup DictKeys, LookRecording(k)  PROVE StartedInv'
  BY <1>1 DEF LookRecording
<1>2. ASSUME NEW k \in AskKeys \cup DictKeys, LookStarting(k)  PROVE StartedInv'
  BY <1>2 DEF LookStarting
<1>3. ASSUME NEW k \in AskKeys \cup DictKeys, RequestStop(k)  PROVE StartedInv'
  BY <1>3 DEF RequestStop
<1>4. ASSUME NEW k \in Wakes \cup Flows \cup Toggles, PressUnseen(k)  PROVE StartedInv'
  BY <1>4 DEF PressUnseen
<1>5. ASSUME NEW k \in Starts, BeginStart(k)  PROVE StartedInv'
  BY <1>5 DEF BeginStart
<1>6. ASSUME NEW k \in Starts, BeginRefused(k)  PROVE StartedInv'
  BY <1>6 DEF BeginRefused
<1>7. ASSUME NEW k \in Starts, NotReady(k)  PROVE StartedInv'
  BY <1>7 DEF NotReady
<1>8. ASSUME NEW k \in Starts, OpenMic(k)  PROVE StartedInv'
  BY <1>8 DEF OpenMic
<1>9. ASSUME NEW k \in Starts, StartFails(k)  PROVE StartedInv'
  BY <1>9 DEF StartFails
<1>10. ASSUME NEW k \in Starts, Commit(k)  PROVE StartedInv'
  BY <1>10 DEF Commit
<1>11. ASSUME NEW k \in Starts, Discard(k)  PROVE StartedInv'
  BY <1>11 DEF Discard
<1>12. ASSUME NEW k \in Starts, Return(k)  PROVE StartedInv'
  BY <1>12 DEF Return
<1>13. ASSUME NEW k \in Starts, SpeechFails(k)  PROVE StartedInv'
  BY <1>13 DEF SpeechFails
<1>14. ASSUME NEW k \in Starts, Deadline(k)  PROVE StartedInv'
  BY <1>14 DEF Deadline
<1>15. ASSUME NEW k \in Stoppers, StopLook(k)  PROVE StartedInv'
  BY <1>15 DEF StopLook
<1>16. ASSUME NEW k \in Stoppers, StopRefused(k)  PROVE StartedInv'
  BY <1>16 DEF StopRefused
<1>17. ASSUME NEW k \in Stoppers, StopTake(k)  PROVE StartedInv'
  BY <1>17, ZenonT(40) DEF StopTake
<1>18. ASSUME NEW k \in Stoppers, HaltMic(k)  PROVE StartedInv'
  BY <1>18 DEF HaltMic
<1>19. ASSUME NEW k \in Stoppers, Transcribed(k)  PROVE StartedInv'
  <2>1. /\ \A x \in Procs : x # k => pc'[x] = pc[x]
        /\ pc[k] = "wait" /\ pc'[k] \in {"work", "ending"}
        /\ UNCHANGED <<session, taken>>
    BY <1>19, MovesTranscribed
  <2> QED
    BY <2>1
<1>20. ASSUME NEW k \in Stoppers, Answer(k)  PROVE StartedInv'
  BY <1>20 DEF Answer
<1>21. ASSUME NEW k \in Stoppers, DraftLook(k)  PROVE StartedInv'
  BY <1>21 DEF DraftLook
<1>22. ASSUME NEW k \in Stoppers, DraftPolish(k)  PROVE StartedInv'
  BY <1>22 DEF DraftPolish
<1>23. ASSUME NEW k \in Stoppers, DraftEnd(k)  PROVE StartedInv'
  BY <1>23 DEF DraftEnd
<1>24. ASSUME NEW k \in Stoppers, EndProcessing(k)  PROVE StartedInv'
  BY <1>24 DEF EndProcessing
<1>25. ASSUME NEW k \in Stoppers, DropTail(k)  PROVE StartedInv'
  BY <1>25 DEF DropTail
<1>26. ASSUME NEW k \in Stoppers, Drop(k)  PROVE StartedInv'
  BY <1>26 DEF Drop
<1>27. ASSUME NEW k \in DictKeys \cup Toggles, DictDecide(k)  PROVE StartedInv'
  BY <1>27 DEF DictDecide
<1>28. ASSUME NEW k \in DictKeys \cup Toggles, DictLookAtAsk(k)  PROVE StartedInv'
  <2>1. /\ k \notin Starts /\ \A s \in Starts : k # <<s>>
        /\ \A x \in Procs : x # k => pc'[x] = pc[x]
        /\ UNCHANGED <<session, taken>>
    BY <1>28, MovesDict DEF DictLookAtAsk
  <2> QED
    BY <2>1
<1>29. ASSUME NEW k \in DictKeys \cup Toggles, DictStart(k)  PROVE StartedInv'
  BY <1>29 DEF DictStart
<1>30. ASSUME NEW k \in DictKeys \cup Toggles, DictStop(k)  PROVE StartedInv'
  <2>1. /\ k \notin Starts /\ \A s \in Starts : k # <<s>>
        /\ \A x \in Procs : x # k => pc'[x] = pc[x]
        /\ UNCHANGED <<session, taken>>
    BY <1>30, MovesDict DEF DictLookAtAsk
  <2> QED
    BY <2>1
<1>31. ASSUME NEW k \in DictKeys \cup Toggles, DictEnd(k)  PROVE StartedInv'
  BY <1>31 DEF DictEnd
<1>32. ASSUME NEW k \in Escapes, EscapeLook(k)  PROVE StartedInv'
  BY <1>32 DEF EscapeLook
<1>33. ASSUME NEW k \in Escapes, AbortRun(k)  PROVE StartedInv'
  BY <1>33 DEF AbortRun
<1>34. ASSUME NEW k \in Escapes, CancelStartOrRecording(k)  PROVE StartedInv'
  BY <1>34 DEF CancelStartOrRecording
<1>35. ASSUME NEW k \in Escapes, CancelHaltMic(k)  PROVE StartedInv'
  BY <1>35 DEF CancelHaltMic
<1>36. ASSUME NEW k \in Escapes, CancelProcessing(k)  PROVE StartedInv'
  BY <1>36 DEF CancelProcessing
<1>37. CASE UNCHANGED vars
  BY <1>37 DEF vars
<1> QED
  BY <1>1, <1>2, <1>3, <1>4, <1>5, <1>6, <1>7, <1>8, <1>9, <1>10, <1>11, <1>12, <1>13,
     <1>14, <1>15, <1>16, <1>17, <1>18, <1>19, <1>20, <1>21, <1>22, <1>23, <1>24,
     <1>25, <1>26, <1>27, <1>28, <1>29, <1>30, <1>31, <1>32, <1>33, <1>34, <1>35,
     <1>36, <1>37
  DEF Next, StartStep, StopStep, DictStep, CancelStep, AllDone

\* Escape cancels the start that reserved Ask last, and clears "starting" with it.
LEMMA ReservedStep ==
  ASSUME AskInv, [Next]_vars
  PROVE  ReservedInv'
<1> USE Processes DEF AskInv, AskTypes, Go, ClearStarting, IsBusy, inner, dict,
            ReservedInv, Unreserved
<1>1. ASSUME NEW k \in AskKeys \cup DictKeys, LookRecording(k)  PROVE ReservedInv'
  BY <1>1 DEF LookRecording
<1>2. ASSUME NEW k \in AskKeys \cup DictKeys, LookStarting(k)  PROVE ReservedInv'
  BY <1>2 DEF LookStarting
<1>3. ASSUME NEW k \in AskKeys \cup DictKeys, RequestStop(k)  PROVE ReservedInv'
  BY <1>3 DEF RequestStop
<1>4. ASSUME NEW k \in Wakes \cup Flows \cup Toggles, PressUnseen(k)  PROVE ReservedInv'
  BY <1>4 DEF PressUnseen
<1>5. ASSUME NEW k \in Starts, BeginStart(k)  PROVE ReservedInv'
  BY <1>5 DEF BeginStart
<1>6. ASSUME NEW k \in Starts, BeginRefused(k)  PROVE ReservedInv'
  BY <1>6 DEF BeginRefused
<1>7. ASSUME NEW k \in Starts, NotReady(k)  PROVE ReservedInv'
  BY <1>7 DEF NotReady
<1>8. ASSUME NEW k \in Starts, OpenMic(k)  PROVE ReservedInv'
  BY <1>8 DEF OpenMic
<1>9. ASSUME NEW k \in Starts, StartFails(k)  PROVE ReservedInv'
  BY <1>9 DEF StartFails
<1>10. ASSUME NEW k \in Starts, Commit(k)  PROVE ReservedInv'
  BY <1>10 DEF Commit
<1>11. ASSUME NEW k \in Starts, Discard(k)  PROVE ReservedInv'
  BY <1>11 DEF Discard
<1>12. ASSUME NEW k \in Starts, Return(k)  PROVE ReservedInv'
  BY <1>12 DEF Return
<1>13. ASSUME NEW k \in Starts, SpeechFails(k)  PROVE ReservedInv'
  BY <1>13 DEF SpeechFails
<1>14. ASSUME NEW k \in Starts, Deadline(k)  PROVE ReservedInv'
  BY <1>14 DEF Deadline
<1>15. ASSUME NEW k \in Stoppers, StopLook(k)  PROVE ReservedInv'
  BY <1>15 DEF StopLook
<1>16. ASSUME NEW k \in Stoppers, StopRefused(k)  PROVE ReservedInv'
  BY <1>16 DEF StopRefused
<1>17. ASSUME NEW k \in Stoppers, StopTake(k)  PROVE ReservedInv'
  BY <1>17 DEF StopTake
<1>18. ASSUME NEW k \in Stoppers, HaltMic(k)  PROVE ReservedInv'
  BY <1>18 DEF HaltMic
<1>19. ASSUME NEW k \in Stoppers, Transcribed(k)  PROVE ReservedInv'
  <2>1. /\ \A x \in Procs : x # k => pc'[x] = pc[x]
        /\ pc[k] = "wait" /\ pc'[k] \in {"work", "ending"}
        /\ UNCHANGED <<starting, reserved, cancelled>>
    BY <1>19, MovesTranscribed
  <2> QED
    BY <2>1
<1>20. ASSUME NEW k \in Stoppers, Answer(k)  PROVE ReservedInv'
  BY <1>20 DEF Answer
<1>21. ASSUME NEW k \in Stoppers, DraftLook(k)  PROVE ReservedInv'
  BY <1>21 DEF DraftLook
<1>22. ASSUME NEW k \in Stoppers, DraftPolish(k)  PROVE ReservedInv'
  BY <1>22 DEF DraftPolish
<1>23. ASSUME NEW k \in Stoppers, DraftEnd(k)  PROVE ReservedInv'
  BY <1>23 DEF DraftEnd
<1>24. ASSUME NEW k \in Stoppers, EndProcessing(k)  PROVE ReservedInv'
  BY <1>24 DEF EndProcessing
<1>25. ASSUME NEW k \in Stoppers, DropTail(k)  PROVE ReservedInv'
  BY <1>25 DEF DropTail
<1>26. ASSUME NEW k \in Stoppers, Drop(k)  PROVE ReservedInv'
  BY <1>26 DEF Drop
<1>27. ASSUME NEW k \in DictKeys \cup Toggles, DictDecide(k)  PROVE ReservedInv'
  BY <1>27 DEF DictDecide
<1>28. ASSUME NEW k \in DictKeys \cup Toggles, DictLookAtAsk(k)  PROVE ReservedInv'
  <2>1. /\ \A s \in Starts : pc'[s] = pc[s]
        /\ UNCHANGED <<starting, reserved, cancelled>>
    BY <1>28, MovesDict
  <2> QED
    BY <2>1
<1>29. ASSUME NEW k \in DictKeys \cup Toggles, DictStart(k)  PROVE ReservedInv'
  BY <1>29 DEF DictStart
<1>30. ASSUME NEW k \in DictKeys \cup Toggles, DictStop(k)  PROVE ReservedInv'
  <2>1. /\ \A s \in Starts : pc'[s] = pc[s]
        /\ UNCHANGED <<starting, reserved, cancelled>>
    BY <1>30, MovesDict
  <2> QED
    BY <2>1
<1>31. ASSUME NEW k \in DictKeys \cup Toggles, DictEnd(k)  PROVE ReservedInv'
  BY <1>31 DEF DictEnd
<1>32. ASSUME NEW k \in Escapes, EscapeLook(k)  PROVE ReservedInv'
  BY <1>32 DEF EscapeLook
<1>33. ASSUME NEW k \in Escapes, AbortRun(k)  PROVE ReservedInv'
  BY <1>33 DEF AbortRun
<1>34. ASSUME NEW k \in Escapes, CancelStartOrRecording(k)  PROVE ReservedInv'
  <2>1. \A s \in cancelled' : s \in cancelled \/ s = session \/ (starting /\ s = reserved)
    BY <1>34 DEF CancelStartOrRecording
  <2>2. \A s \in Starts : pc'[s] = pc[s]
    BY <1>34 DEF CancelStartOrRecording
  <2>3. reserved' = reserved /\ ~starting'
    BY <1>34 DEF CancelStartOrRecording
  <2> QED
    BY <2>1, <2>2, <2>3 DEF StartedInv, Unstarted
<1>35. ASSUME NEW k \in Escapes, CancelHaltMic(k)  PROVE ReservedInv'
  BY <1>35 DEF CancelHaltMic
<1>36. ASSUME NEW k \in Escapes, CancelProcessing(k)  PROVE ReservedInv'
  BY <1>36 DEF CancelProcessing
<1>37. CASE UNCHANGED vars
  BY <1>37 DEF vars
<1> QED
  BY <1>1, <1>2, <1>3, <1>4, <1>5, <1>6, <1>7, <1>8, <1>9, <1>10, <1>11, <1>12, <1>13,
     <1>14, <1>15, <1>16, <1>17, <1>18, <1>19, <1>20, <1>21, <1>22, <1>23, <1>24,
     <1>25, <1>26, <1>27, <1>28, <1>29, <1>30, <1>31, <1>32, <1>33, <1>34, <1>35,
     <1>36, <1>37
  DEF Next, StartStep, StopStep, DictStep, CancelStep, AllDone

\* A stop() keeps the session it took until it has turned its microphone off.
LEMMA TakenStep ==
  ASSUME AskInv, [Next]_vars
  PROVE  TakenInv'
<1> USE Processes DEF AskInv, AskTypes, Go, ClearStarting, IsBusy, inner, dict,
            TakenInv, InWork, StartedInv, Unstarted, Unreserved
<1>1. ASSUME NEW k \in AskKeys \cup DictKeys,
             \/ LookRecording(k) \/ LookStarting(k) \/ RequestStop(k)
      PROVE  TakenInv'
  BY <1>1 DEF LookRecording, LookStarting, RequestStop
<1>2. ASSUME NEW k \in Wakes \cup Flows \cup Toggles, PressUnseen(k)  PROVE TakenInv'
  BY <1>2 DEF PressUnseen
<1>3. ASSUME NEW k \in Starts, BeginStart(k)  PROVE TakenInv'
  BY <1>3 DEF BeginStart
<1>4. ASSUME NEW k \in Starts, BeginRefused(k)  PROVE TakenInv'
  BY <1>4 DEF BeginRefused
<1>5. ASSUME NEW k \in Starts, NotReady(k)  PROVE TakenInv'
  BY <1>5 DEF NotReady
<1>6. ASSUME NEW k \in Starts, OpenMic(k)  PROVE TakenInv'
  BY <1>6 DEF OpenMic
<1>7. ASSUME NEW k \in Starts, StartFails(k)  PROVE TakenInv'
  BY <1>7 DEF StartFails
<1>8. ASSUME NEW k \in Starts, Commit(k)  PROVE TakenInv'
  BY <1>8 DEF Commit
<1>9. ASSUME NEW k \in Starts,
             \/ Discard(k) \/ Return(k) \/ SpeechFails(k) \/ Deadline(k)
      PROVE  TakenInv'
  BY <1>9 DEF Discard, Return, SpeechFails, Deadline
<1>10. ASSUME NEW k \in Stoppers,
             \/ StopLook(k) \/ StopRefused(k) \/ StopTake(k) \/ HaltMic(k)
      PROVE  TakenInv'
  BY <1>10 DEF StopLook, StopRefused, StopTake, HaltMic
<1>11. ASSUME NEW k \in Stoppers,
             \/ Transcribed(k) \/ Answer(k) \/ DraftLook(k) \/ DraftPolish(k)
      PROVE  TakenInv'
  BY <1>11 DEF Transcribed, Answer, DraftLook, DraftPolish
<1>12. ASSUME NEW k \in Stoppers,
             \/ DraftEnd(k) \/ EndProcessing(k) \/ DropTail(k) \/ Drop(k)
      PROVE  TakenInv'
  BY <1>12 DEF DraftEnd, EndProcessing, DropTail, Drop
<1>13. ASSUME NEW k \in DictKeys \cup Toggles,
             \/ DictDecide(k) \/ DictLookAtAsk(k) \/ DictStart(k) \/ DictStop(k)
      PROVE  TakenInv'
  BY <1>13 DEF DictDecide, DictLookAtAsk, DictStart, DictStop
<1>14. ASSUME NEW k \in DictKeys \cup Toggles, DictEnd(k)  PROVE TakenInv'
  BY <1>14 DEF DictEnd
<1>15. ASSUME NEW k \in Escapes,
             \/ EscapeLook(k) \/ AbortRun(k) \/ CancelStartOrRecording(k)
             \/ CancelHaltMic(k)
      PROVE  TakenInv'
  BY <1>15 DEF EscapeLook, AbortRun, CancelStartOrRecording, CancelHaltMic
<1>16. ASSUME NEW k \in Escapes, CancelProcessing(k)  PROVE TakenInv'
  BY <1>16 DEF CancelProcessing
<1>17. CASE UNCHANGED vars
  BY <1>17 DEF vars
<1> QED
  BY <1>1, <1>2, <1>3, <1>4, <1>5, <1>6, <1>7, <1>8, <1>9, <1>10, <1>11, <1>12, <1>13,
     <1>14, <1>15, <1>16, <1>17
  DEF Next, StartStep, StopStep, DictStep, CancelStep, AllDone

\* A Notify is stored when a stop() takes its session and leaves with it.
LEMMA NotifyStep ==
  ASSUME AskInv, [Next]_vars
  PROVE  NotifyInv'
<1> USE Processes DEF AskInv, AskTypes, Go, ClearStarting, IsBusy, inner, dict,
            NotifyInv, InWork, OnePhase
<1>1. ASSUME NEW k \in AskKeys \cup DictKeys,
             \/ LookRecording(k) \/ LookStarting(k) \/ RequestStop(k)
      PROVE  NotifyInv'
  BY <1>1 DEF LookRecording, LookStarting, RequestStop
<1>2. ASSUME NEW k \in Wakes \cup Flows \cup Toggles, PressUnseen(k)  PROVE NotifyInv'
  BY <1>2 DEF PressUnseen
<1>3. ASSUME NEW k \in Starts,
             \/ BeginStart(k) \/ BeginRefused(k) \/ NotReady(k) \/ OpenMic(k)
             \/ StartFails(k)
      PROVE  NotifyInv'
  BY <1>3 DEF BeginStart, BeginRefused, NotReady, OpenMic, StartFails
<1>4. ASSUME NEW k \in Starts, Commit(k)  PROVE NotifyInv'
  <2>1. processing_cancel = None
    BY <1>4 DEF Commit, Wanted
  <2> QED
    BY <2>1, <1>4 DEF Commit
<1>5. ASSUME NEW k \in Starts,
             \/ Discard(k) \/ Return(k) \/ SpeechFails(k) \/ Deadline(k)
      PROVE  NotifyInv'
  BY <1>5 DEF Discard, Return, SpeechFails, Deadline
<1>6. ASSUME NEW k \in Stoppers,
             \/ StopLook(k) \/ StopRefused(k) \/ StopTake(k) \/ HaltMic(k)
             \/ Transcribed(k)
      PROVE  NotifyInv'
  BY <1>6 DEF StopLook, StopRefused, StopTake, HaltMic, Transcribed
<1>7. ASSUME NEW k \in Stoppers,
             \/ Answer(k) \/ DraftLook(k) \/ DraftPolish(k) \/ DraftEnd(k)
             \/ EndProcessing(k)
      PROVE  NotifyInv'
  BY <1>7 DEF Answer, DraftLook, DraftPolish, DraftEnd, EndProcessing
<1>8. ASSUME NEW k \in Stoppers,
             \/ DropTail(k) \/ Drop(k)
      PROVE  NotifyInv'
  BY <1>8 DEF DropTail, Drop
<1>9. ASSUME NEW k \in DictKeys \cup Toggles,
             \/ DictDecide(k) \/ DictLookAtAsk(k) \/ DictStart(k) \/ DictStop(k)
             \/ DictEnd(k)
      PROVE  NotifyInv'
  BY <1>9 DEF DictDecide, DictLookAtAsk, DictStart, DictStop, DictEnd
<1>10. ASSUME NEW k \in Escapes,
             \/ EscapeLook(k) \/ AbortRun(k) \/ CancelStartOrRecording(k)
             \/ CancelHaltMic(k) \/ CancelProcessing(k)
      PROVE  NotifyInv'
  BY <1>10 DEF EscapeLook, AbortRun, CancelStartOrRecording, CancelHaltMic,
     CancelProcessing
<1>11. CASE UNCHANGED vars
  BY <1>11 DEF vars
<1> QED
  BY <1>1, <1>2, <1>3, <1>4, <1>5, <1>6, <1>7, <1>8, <1>9, <1>10, <1>11
  DEF Next, StartStep, StopStep, DictStep, CancelStep, AllDone

\* A microphone changes its owner in the step that takes it away from the other.
LEMMA AskMicOwnedStep ==
  ASSUME AskInv, [Next]_vars
  PROVE  AskMicOwned'
<1> USE Processes DEF AskInv, AskTypes, Go, ClearStarting, IsBusy, inner, dict,
            AskMicOwned, InWork, TakenInv, OnePhase, Wanted
<1>1. ASSUME NEW k \in AskKeys \cup DictKeys, LookRecording(k)  PROVE AskMicOwned'
  BY <1>1 DEF LookRecording
<1>2. ASSUME NEW k \in AskKeys \cup DictKeys, LookStarting(k)  PROVE AskMicOwned'
  BY <1>2 DEF LookStarting
<1>3. ASSUME NEW k \in AskKeys \cup DictKeys, RequestStop(k)  PROVE AskMicOwned'
  BY <1>3 DEF RequestStop
<1>4. ASSUME NEW k \in Wakes \cup Flows \cup Toggles, PressUnseen(k)  PROVE AskMicOwned'
  BY <1>4 DEF PressUnseen
<1>5. ASSUME NEW k \in Starts, BeginStart(k)  PROVE AskMicOwned'
  BY <1>5 DEF BeginStart
<1>6. ASSUME NEW k \in Starts, BeginRefused(k)  PROVE AskMicOwned'
  BY <1>6 DEF BeginRefused
<1>7. ASSUME NEW k \in Starts, NotReady(k)  PROVE AskMicOwned'
  BY <1>7 DEF NotReady
<1>8. ASSUME NEW k \in Starts, OpenMic(k)  PROVE AskMicOwned'
  BY <1>8, MicOpenMic
<1>9. ASSUME NEW k \in Starts, StartFails(k)  PROVE AskMicOwned'
  BY <1>9 DEF StartFails
<1>10. ASSUME NEW k \in Starts, Commit(k)  PROVE AskMicOwned'
  BY <1>10, MicCommit
<1>11. ASSUME NEW k \in Starts, Discard(k)  PROVE AskMicOwned'
  BY <1>11 DEF Discard
<1>12. ASSUME NEW k \in Starts, Return(k)  PROVE AskMicOwned'
  BY <1>12 DEF Return
<1>13. ASSUME NEW k \in Starts, SpeechFails(k)  PROVE AskMicOwned'
  BY <1>13 DEF SpeechFails
<1>14. ASSUME NEW k \in Starts, Deadline(k)  PROVE AskMicOwned'
  BY <1>14 DEF Deadline
<1>15. ASSUME NEW k \in Stoppers, StopLook(k)  PROVE AskMicOwned'
  BY <1>15 DEF StopLook
<1>16. ASSUME NEW k \in Stoppers, StopRefused(k)  PROVE AskMicOwned'
  BY <1>16 DEF StopRefused
<1>17. ASSUME NEW k \in Stoppers, StopTake(k)  PROVE AskMicOwned'
  BY <1>17 DEF StopTake
<1>18. ASSUME NEW k \in Stoppers, HaltMic(k)  PROVE AskMicOwned'
  BY <1>18 DEF HaltMic
<1>19. ASSUME NEW k \in Stoppers, Transcribed(k)  PROVE AskMicOwned'
  <2>1. /\ \A s \in Starts : pc[s] = "opening" => pc'[s] = "opening"
        /\ \A x \in Stoppers : InWork(x) => InWork(x)'
        /\ \A x \in Procs : pc[x] \in {"tail", "halt"} => pc'[x] = pc[x]
        /\ UNCHANGED <<session, taken, mic>>
    BY <1>19, MovesTranscribed, ZenonT(40)
  <2> QED
    BY <2>1
<1>20. ASSUME NEW k \in Stoppers, Answer(k)  PROVE AskMicOwned'
  BY <1>20 DEF Answer
<1>21. ASSUME NEW k \in Stoppers, DraftLook(k)  PROVE AskMicOwned'
  BY <1>21 DEF DraftLook
<1>22. ASSUME NEW k \in Stoppers, DraftPolish(k)  PROVE AskMicOwned'
  BY <1>22 DEF DraftPolish
<1>23. ASSUME NEW k \in Stoppers, DraftEnd(k)  PROVE AskMicOwned'
  BY <1>23 DEF DraftEnd
<1>24. ASSUME NEW k \in Stoppers, EndProcessing(k)  PROVE AskMicOwned'
  BY <1>24 DEF EndProcessing
<1>25. ASSUME NEW k \in Stoppers, DropTail(k)  PROVE AskMicOwned'
  BY <1>25 DEF DropTail
<1>26. ASSUME NEW k \in Stoppers, Drop(k)  PROVE AskMicOwned'
  BY <1>26 DEF Drop
<1>27. ASSUME NEW k \in DictKeys \cup Toggles, DictDecide(k)  PROVE AskMicOwned'
  BY <1>27 DEF DictDecide
<1>28. ASSUME NEW k \in DictKeys \cup Toggles, DictLookAtAsk(k)  PROVE AskMicOwned'
  <2>1. /\ \A s \in Starts : pc[s] = "opening" => pc'[s] = "opening"
        /\ \A x \in Stoppers : InWork(x) => InWork(x)'
        /\ \A x \in Procs : pc[x] \in {"tail", "halt"} => pc'[x] = pc[x]
        /\ UNCHANGED <<session, taken, mic>>
    BY <1>28, MovesDict
  <2> QED
    BY <2>1
<1>29. ASSUME NEW k \in DictKeys \cup Toggles, DictStart(k)  PROVE AskMicOwned'
  BY <1>29 DEF DictStart
<1>30. ASSUME NEW k \in DictKeys \cup Toggles, DictStop(k)  PROVE AskMicOwned'
  <2>1. /\ \A s \in Starts : pc[s] = "opening" => pc'[s] = "opening"
        /\ \A x \in Stoppers : InWork(x) => InWork(x)'
        /\ \A x \in Procs : pc[x] \in {"tail", "halt"} => pc'[x] = pc[x]
        /\ UNCHANGED <<session, taken, mic>>
    BY <1>30, MovesDict
  <2> QED
    BY <2>1
<1>31. ASSUME NEW k \in DictKeys \cup Toggles, DictEnd(k)  PROVE AskMicOwned'
  BY <1>31 DEF DictEnd
<1>32. ASSUME NEW k \in Escapes, EscapeLook(k)  PROVE AskMicOwned'
  BY <1>32 DEF EscapeLook
<1>33. ASSUME NEW k \in Escapes, AbortRun(k)  PROVE AskMicOwned'
  BY <1>33 DEF AbortRun
<1>34. ASSUME NEW k \in Escapes, CancelStartOrRecording(k)  PROVE AskMicOwned'
  BY <1>34 DEF CancelStartOrRecording
<1>35. ASSUME NEW k \in Escapes, CancelHaltMic(k)  PROVE AskMicOwned'
  BY <1>35 DEF CancelHaltMic
<1>36. ASSUME NEW k \in Escapes, CancelProcessing(k)  PROVE AskMicOwned'
  BY <1>36 DEF CancelProcessing
<1>37. CASE UNCHANGED vars
  BY <1>37 DEF vars
<1> QED
  BY <1>1, <1>2, <1>3, <1>4, <1>5, <1>6, <1>7, <1>8, <1>9, <1>10, <1>11, <1>12, <1>13,
     <1>14, <1>15, <1>16, <1>17, <1>18, <1>19, <1>20, <1>21, <1>22, <1>23, <1>24,
     <1>25, <1>26, <1>27, <1>28, <1>29, <1>30, <1>31, <1>32, <1>33, <1>34, <1>35,
     <1>36, <1>37
  DEF Next, StartStep, StopStep, DictStep, CancelStep, AllDone

\* A start that commits is not the cancelled one, unless it reserved Ask again.
LEMMA RevivedStep ==
  ASSUME AskInv, [Next]_vars
  PROVE  RevivedOnlyByNext'
<1> USE Processes DEF AskInv, AskTypes, Go, ClearStarting, IsBusy, inner, dict,
            RevivedOnlyByNext, ReservedInv, Unreserved, MayBegin, IsBusy, OnePhase
<1>1. ASSUME NEW k \in AskKeys \cup DictKeys,
             \/ LookRecording(k) \/ LookStarting(k) \/ RequestStop(k)
      PROVE  RevivedOnlyByNext'
  BY <1>1 DEF LookRecording, LookStarting, RequestStop
<1>2. ASSUME NEW k \in Wakes \cup Flows \cup Toggles, PressUnseen(k)  PROVE RevivedOnlyByNext'
  BY <1>2 DEF PressUnseen
<1>3. ASSUME NEW k \in Starts,
             \/ BeginStart(k) \/ BeginRefused(k) \/ NotReady(k) \/ OpenMic(k)
             \/ StartFails(k)
      PROVE  RevivedOnlyByNext'
  BY <1>3 DEF BeginStart, BeginRefused, NotReady, OpenMic, StartFails
<1>4. ASSUME NEW k \in Starts, Commit(k)  PROVE RevivedOnlyByNext'
  <2>1. session' = k /\ cancelled' = cancelled /\ reserved' = reserved /\ starting
    BY <1>4 DEF Commit, Wanted
  <2> QED
    BY <2>1
<1>5. ASSUME NEW k \in Starts,
             \/ Discard(k) \/ Return(k) \/ SpeechFails(k) \/ Deadline(k)
      PROVE  RevivedOnlyByNext'
  BY <1>5 DEF Discard, Return, SpeechFails, Deadline
<1>6. ASSUME NEW k \in Stoppers,
             \/ StopLook(k) \/ StopRefused(k) \/ StopTake(k) \/ HaltMic(k)
             \/ Transcribed(k)
      PROVE  RevivedOnlyByNext'
  BY <1>6 DEF StopLook, StopRefused, StopTake, HaltMic, Transcribed
<1>7. ASSUME NEW k \in Stoppers,
             \/ Answer(k) \/ DraftLook(k) \/ DraftPolish(k) \/ DraftEnd(k)
             \/ EndProcessing(k)
      PROVE  RevivedOnlyByNext'
  BY <1>7 DEF Answer, DraftLook, DraftPolish, DraftEnd, EndProcessing
<1>8. ASSUME NEW k \in Stoppers,
             \/ DropTail(k) \/ Drop(k)
      PROVE  RevivedOnlyByNext'
  BY <1>8 DEF DropTail, Drop
<1>9. ASSUME NEW k \in DictKeys \cup Toggles,
             \/ DictDecide(k) \/ DictLookAtAsk(k) \/ DictStart(k) \/ DictStop(k)
             \/ DictEnd(k)
      PROVE  RevivedOnlyByNext'
  BY <1>9 DEF DictDecide, DictLookAtAsk, DictStart, DictStop, DictEnd
<1>10. ASSUME NEW k \in Escapes,
             \/ EscapeLook(k) \/ AbortRun(k) \/ CancelStartOrRecording(k)
             \/ CancelHaltMic(k) \/ CancelProcessing(k)
      PROVE  RevivedOnlyByNext'
  BY <1>10 DEF EscapeLook, AbortRun, CancelStartOrRecording, CancelHaltMic,
     CancelProcessing
<1>11. CASE UNCHANGED vars
  BY <1>11 DEF vars
<1> QED
  BY <1>1, <1>2, <1>3, <1>4, <1>5, <1>6, <1>7, <1>8, <1>9, <1>10, <1>11
  DEF Next, StartStep, StopStep, DictStep, CancelStep, AllDone

\* cancel_processing() takes the Notify only to leave a permit for its stop().
LEMMA NoCancelLostStep ==
  ASSUME AskInv, [Next]_vars
  PROVE  NoCancelLost'
<1> USE Processes DEF AskInv, AskTypes, Go, ClearStarting, IsBusy, inner, dict,
            NoCancelLost, NotifyInv, InWork, OnePhase
<1>1. ASSUME NEW k \in AskKeys \cup DictKeys,
             \/ LookRecording(k) \/ LookStarting(k) \/ RequestStop(k)
      PROVE  NoCancelLost'
  BY <1>1 DEF LookRecording, LookStarting, RequestStop
<1>2. ASSUME NEW k \in Wakes \cup Flows \cup Toggles, PressUnseen(k)  PROVE NoCancelLost'
  BY <1>2 DEF PressUnseen
<1>3. ASSUME NEW k \in Starts,
             \/ BeginStart(k) \/ BeginRefused(k) \/ NotReady(k) \/ OpenMic(k)
             \/ StartFails(k)
      PROVE  NoCancelLost'
  BY <1>3 DEF BeginStart, BeginRefused, NotReady, OpenMic, StartFails
<1>4. ASSUME NEW k \in Starts,
             \/ Commit(k) \/ Discard(k) \/ Return(k) \/ SpeechFails(k) \/ Deadline(k)
      PROVE  NoCancelLost'
  BY <1>4 DEF Commit, Discard, Return, SpeechFails, Deadline
<1>5. ASSUME NEW k \in Stoppers,
             \/ StopLook(k) \/ StopRefused(k) \/ StopTake(k) \/ HaltMic(k)
             \/ Transcribed(k)
      PROVE  NoCancelLost'
  BY <1>5 DEF StopLook, StopRefused, StopTake, HaltMic, Transcribed
<1>6. ASSUME NEW k \in Stoppers,
             \/ Answer(k) \/ DraftLook(k) \/ DraftPolish(k) \/ DraftEnd(k)
             \/ EndProcessing(k)
      PROVE  NoCancelLost'
  BY <1>6 DEF Answer, DraftLook, DraftPolish, DraftEnd, EndProcessing
<1>7. ASSUME NEW k \in Stoppers,
             \/ DropTail(k) \/ Drop(k)
      PROVE  NoCancelLost'
  BY <1>7 DEF DropTail, Drop
<1>8. ASSUME NEW k \in DictKeys \cup Toggles,
             \/ DictDecide(k) \/ DictLookAtAsk(k) \/ DictStart(k) \/ DictStop(k)
             \/ DictEnd(k)
      PROVE  NoCancelLost'
  BY <1>8 DEF DictDecide, DictLookAtAsk, DictStart, DictStop, DictEnd
<1>9. ASSUME NEW k \in Escapes,
             \/ EscapeLook(k) \/ AbortRun(k) \/ CancelStartOrRecording(k)
             \/ CancelHaltMic(k) \/ CancelProcessing(k)
      PROVE  NoCancelLost'
  BY <1>9 DEF EscapeLook, AbortRun, CancelStartOrRecording, CancelHaltMic,
     CancelProcessing
<1>10. CASE UNCHANGED vars
  BY <1>10 DEF vars
<1> QED
  BY <1>1, <1>2, <1>3, <1>4, <1>5, <1>6, <1>7, <1>8, <1>9, <1>10
  DEF Next, StartStep, StopStep, DictStep, CancelStep, AllDone

\* Ask begins like that.
LEMMA AskInit == Init => AskInv
<1> SUFFICES ASSUME Init
             PROVE  AskInv
  OBVIOUS
<1> USE Processes DEF Init
<1>1. \A x \in Procs : pc[x] \in {"off", "ready"} /\ taken[x] = None
  OBVIOUS
<1>2. \A s \in Starts : pc[<<s>>] = "off"
  OBVIOUS
<1>3. AskTypes
  BY DEF AskTypes, Places, Unstarted, Unreserved
<1>4. OnePhase /\ TakenInv /\ NotifyInv /\ NoCancelLost
  BY <1>1 DEF OnePhase, TakenInv, NotifyInv, NoCancelLost, InWork
<1>5. StartedInv
  BY <1>1, <1>2 DEF StartedInv
<1>6. ReservedInv /\ AskMicOwned /\ RevivedOnlyByNext
  BY DEF ReservedInv, AskMicOwned, RevivedOnlyByNext
<1> QED
  BY <1>3, <1>4, <1>5, <1>6 DEF AskInv

\* ... and stays like that.
LEMMA AskInvAlways == Spec => []AskInv
<1>1. AskInv /\ [Next]_vars => AskInv'
  <2> SUFFICES ASSUME AskInv, [Next]_vars
               PROVE  AskInv'
    OBVIOUS
  <2> QED
    BY AskTypesStep, OnePhaseStep, StartedStep, ReservedStep, TakenStep, NotifyStep,
       AskMicOwnedStep, RevivedStep, NoCancelLostStep DEF AskInv
<1> QED
  BY AskInit, <1>1, PTL DEF Spec

\* Ask starts, records or thinks, never two of them, and at most one stop() is at
\* work, whatever presses, wake phrases and Escapes come in whatever order.
THEOREM AskInOnePhase == Spec => []OnePhase
<1>1. AskInv => OnePhase
  BY DEF AskInv
<1> QED
  BY <1>1, AskInvAlways, PTL

\* An open microphone of Ask always has somebody who will close it.
THEOREM AskMicAlwaysOwned == Spec => []AskMicOwned
<1>1. AskInv => AskMicOwned
  BY DEF AskInv
<1> QED
  BY <1>1, AskInvAlways, PTL

\* A run that Escape has cancelled records only when another start has reserved Ask
\* since.
THEOREM CancelledStaysCancelled == Spec => []RevivedOnlyByNext
<1>1. AskInv => RevivedOnlyByNext
  BY DEF AskInv
<1> QED
  BY <1>1, AskInvAlways, PTL

\* Escape while Ask thinks reaches the stop() that is at work.
THEOREM CancelNeverLost == Spec => []NoCancelLost
<1>1. AskInv => NoCancelLost
  BY DEF AskInv
<1> QED
  BY <1>1, AskInvAlways, PTL

-----------------------------------------------------------------------------
(* The stop that a press asks of a start.                                    *)

\* Where there is a start, or a stop was asked of one, a start is under way.
HeldInv ==
    /\ starting => \E s \in Starts : pc[s] \in {"begun", "opening"}
    /\ StopRequestHeld

\* A step that moves no start out of its way and asks nothing of one.
LEMMA HeldStutter ==
  ASSUME HeldInv,
         \A s \in Starts : pc[s] \in {"begun", "opening", "return"} => pc'[s] = pc[s],
         starting' => starting,
         stop_after_start' => stop_after_start \/ starting
  PROVE  HeldInv'
BY DEF HeldInv, StopRequestHeld

\* A stop() moves no start and asks nothing of one.
LEMMA StopKeepsStarts ==
  ASSUME AskTypes, NEW x \in Stoppers, StopStep(x) \/ Drop(x)
  PROVE  /\ \A s \in Starts : pc[s] \in {"begun", "opening", "return"} => pc'[s] = pc[s]
         /\ starting' => starting
         /\ stop_after_start' => stop_after_start
<1> USE Processes DEF AskTypes, Go, ClearStarting, inner
<1>1. CASE StopLook(x)
  BY <1>1 DEF StopLook
<1>2. CASE StopRefused(x)
  BY <1>2 DEF StopRefused
<1>3. CASE StopTake(x)
  BY <1>3 DEF StopTake
<1>4. CASE HaltMic(x)
  BY <1>4 DEF HaltMic
<1>5. CASE Transcribed(x)
  BY <1>5 DEF Transcribed
<1>6. CASE Answer(x)
  BY <1>6 DEF Answer
<1>7. CASE DraftLook(x)
  BY <1>7 DEF DraftLook
<1>8. CASE DraftPolish(x)
  BY <1>8 DEF DraftPolish
<1>9. CASE DraftEnd(x)
  BY <1>9 DEF DraftEnd
<1>10. CASE EndProcessing(x)
  BY <1>10 DEF EndProcessing
<1>11. CASE DropTail(x)
  BY <1>11 DEF DropTail
<1>12. CASE Drop(x)
  BY <1>12 DEF Drop
<1> QED
  BY <1>1, <1>2, <1>3, <1>4, <1>5, <1>6, <1>7, <1>8, <1>9, <1>10, <1>11, <1>12
  DEF StopStep

\* Nor does a press of Dictate.
LEMMA DictKeepsStarts ==
  ASSUME AskTypes, NEW k \in DictKeys \cup Toggles, DictStep(k)
  PROVE  /\ \A s \in Starts : pc[s] \in {"begun", "opening", "return"} => pc'[s] = pc[s]
         /\ starting' => starting
         /\ stop_after_start' => stop_after_start
<1> USE Processes DEF AskTypes, Go, ClearStarting, inner
<1>1. CASE DictDecide(k)
  BY <1>1 DEF DictDecide
<1>2. CASE DictLookAtAsk(k)
  BY <1>2, MovesDict
<1>3. CASE DictStart(k)
  BY <1>3 DEF DictStart
<1>4. CASE DictStop(k)
  BY <1>4, MovesDict
<1>5. CASE DictEnd(k)
  BY <1>5 DEF DictEnd
<1> QED
  BY <1>1, <1>2, <1>3, <1>4, <1>5 DEF DictStep

\* Nor does Escape, which can end what was asked.
LEMMA EscapeKeepsStarts ==
  ASSUME AskTypes, NEW e \in Escapes, EscapeLook(e) \/ CancelStep(e)
  PROVE  /\ \A s \in Starts : pc[s] \in {"begun", "opening", "return"} => pc'[s] = pc[s]
         /\ starting' => starting
         /\ stop_after_start' => stop_after_start
<1> USE Processes DEF AskTypes, Go, ClearStarting, inner
<1>1. CASE EscapeLook(e)
  BY <1>1 DEF EscapeLook
<1>2. CASE AbortRun(e)
  BY <1>2 DEF AbortRun
<1>3. CASE CancelStartOrRecording(e)
  BY <1>3 DEF CancelStartOrRecording
<1>4. CASE CancelHaltMic(e)
  BY <1>4 DEF CancelHaltMic
<1>5. CASE CancelProcessing(e)
  BY <1>5 DEF CancelProcessing
<1> QED
  BY <1>1, <1>2, <1>3, <1>4, <1>5 DEF CancelStep

\* Each step keeps HeldInv.
LEMMA HeldStep ==
  ASSUME Flows = {}, AskTypes, HeldInv, [Next]_vars
  PROVE  HeldInv'
<1> USE Processes DEF AskTypes, Go, ClearStarting, inner, dict
<1>1. ASSUME NEW k \in AskKeys \cup DictKeys,
             LookRecording(k) \/ LookStarting(k) \/ RequestStop(k)
      PROVE  HeldInv'
  <2>1. CASE LookRecording(k)
    BY <2>1, HeldStutter DEF LookRecording
  <2>2. CASE LookStarting(k)
    BY <2>2, HeldStutter DEF LookStarting
  <2>3. CASE RequestStop(k)
    <3>1. /\ starting' = starting
          /\ stop_after_start' => stop_after_start \/ starting
      BY <2>3 DEF RequestStop
    <3>2. \A s \in Starts : pc[s] \in {"begun", "opening", "return"} => pc'[s] = pc[s]
      BY <2>3 DEF RequestStop
    <3> QED
      BY <3>1, <3>2, HeldStutter
  <2> QED
    BY <1>1, <2>1, <2>2, <2>3
<1>2. ASSUME NEW k \in Wakes \cup Flows \cup Toggles, PressUnseen(k)
      PROVE  HeldInv'
  BY <1>2, HeldStutter DEF PressUnseen
<1>3. ASSUME NEW s \in Starts, StartStep(s) \/ SpeechFails(s) \/ Deadline(s)
      PROVE  HeldInv'
  <2>1. CASE BeginStart(s)
    BY <2>1 DEF BeginStart, HeldInv, StopRequestHeld
  <2>2. CASE BeginRefused(s)
    BY <2>2, HeldStutter DEF BeginRefused
  <2>3. CASE NotReady(s) \/ StartFails(s) \/ Discard(s)
    BY <2>3 DEF NotReady, StartFails, Discard, HeldInv, StopRequestHeld
  <2>4. CASE OpenMic(s)
    <3>1. /\ \A t \in Starts : t # s => pc'[t] = pc[t]
          /\ pc'[s] = "opening" /\ UNCHANGED <<starting, stop_after_start>>
      BY <2>4, ZenonT(40) DEF OpenMic
    <3> QED
      BY <3>1 DEF HeldInv, StopRequestHeld
  <2>5. CASE Commit(s)
    <3>1. /\ \A t \in Starts : t # s => pc'[t] = pc[t]
          /\ pc'[s] = "return" /\ ~starting' /\ stop_after_start' = stop_after_start
      BY <2>5, ZenonT(40) DEF Commit
    <3> QED
      BY <3>1 DEF HeldInv, StopRequestHeld
  <2>6. CASE Return(s)
    <3>1. /\ \A t \in Starts : t # s => pc'[t] = pc[t]
          /\ pc[s] = "return" /\ ~stop_after_start' /\ starting' = starting
      BY <1>3, <2>6, ZenonT(40) DEF Return
    <3> QED
      BY <3>1 DEF HeldInv, StopRequestHeld
  <2>7. CASE SpeechFails(s)
    BY <2>7, HeldStutter DEF SpeechFails
  <2>8. CASE Deadline(s)
    BY <2>8, HeldStutter DEF Deadline
  <2> QED
    BY <1>3, <2>1, <2>2, <2>3, <2>4, <2>5, <2>6, <2>7, <2>8 DEF StartStep
<1>4. ASSUME NEW x \in Stoppers, StopStep(x) \/ Drop(x)
      PROVE  HeldInv'
  BY <1>4, StopKeepsStarts, HeldStutter
<1>5. ASSUME NEW k \in DictKeys \cup Toggles, DictStep(k)
      PROVE  HeldInv'
  BY <1>5, DictKeepsStarts, HeldStutter
<1>6. ASSUME NEW e \in Escapes, EscapeLook(e) \/ CancelStep(e)
      PROVE  HeldInv'
  BY <1>6, EscapeKeepsStarts, HeldStutter
<1>7. CASE UNCHANGED vars
  BY <1>7, HeldStutter DEF vars
<1> QED
  BY <1>1, <1>2, <1>3, <1>4, <1>5, <1>6, <1>7 DEF Next, AllDone

\* Without a start by start_ask_flow(), which does not look for it, a stop that a
\* press asks of a start is kept by a start that will look for it.
THEOREM StopRequestAlwaysHeld ==
  ASSUME Flows = {}
  PROVE  Spec => []StopRequestHeld
<1>1. Init => HeldInv
  BY DEF Init, HeldInv, StopRequestHeld
<1>2. AskInv /\ HeldInv /\ [Next]_vars => HeldInv'
  BY HeldStep DEF AskInv
<1>3. HeldInv => StopRequestHeld
  BY DEF HeldInv
<1> QED
  BY <1>1, <1>2, <1>3, AskInvAlways, PTL DEF Spec

-----------------------------------------------------------------------------
(* Ask implements AskRun.                                                    *)

\* A step that leaves what Ask is at alone is none of AskRun.
LEMMA RunStutter ==
  ASSUME UNCHANGED <<starting, session, processing>>
  PROVE  [Abstract!Next]_Phase
BY DEF Phase

\* Each step of Ask is one of AskRun or none.
LEMMA RunStep ==
  ASSUME AskInv, [Next]_vars
  PROVE  [Abstract!Next]_Phase
<1> USE Processes DEF AskInv, AskTypes, OnePhase, ClearStarting, inner
<1>1. ASSUME NEW k \in AskKeys \cup DictKeys,
             LookRecording(k) \/ LookStarting(k) \/ RequestStop(k)
      PROVE  UNCHANGED <<starting, session, processing>>
  BY <1>1 DEF LookRecording, LookStarting, RequestStop
<1>2. ASSUME NEW k \in Wakes \cup Flows \cup Toggles, PressUnseen(k)
      PROVE  UNCHANGED <<starting, session, processing>>
  BY <1>2 DEF PressUnseen
<1>3. ASSUME NEW s \in Starts, StartStep(s) \/ SpeechFails(s) \/ Deadline(s)
      PROVE  [Abstract!Next]_Phase
  <2>1. CASE BeginStart(s)
    <3>1. Abstract!Begin
      BY <2>1 DEF BeginStart, MayBegin, IsBusy, Abstract!Begin, Phase
    <3> QED
      BY <3>1 DEF Abstract!Next
  <2>2. CASE NotReady(s) \/ StartFails(s) \/ Discard(s)
    <3>1. /\ ~starting'
          /\ UNCHANGED <<session, processing>>
      BY <2>2 DEF NotReady, StartFails, Discard
    <3>2. Abstract!GiveUp \/ UNCHANGED Phase
      BY <3>1 DEF Abstract!GiveUp, Phase
    <3> QED
      BY <3>2 DEF Abstract!Next
  <2>3. CASE Commit(s)
    <3>1. Abstract!Record
      BY <2>3 DEF Commit, Wanted, Abstract!Record, Phase
    <3> QED
      BY <3>1 DEF Abstract!Next
  <2>4. CASE SpeechFails(s)
    <3>1. Abstract!Lose \/ UNCHANGED Phase
      BY <2>4 DEF SpeechFails, OnItsRecording, Abstract!Lose, Phase
    <3> QED
      BY <3>1 DEF Abstract!Next
  <2>5. CASE BeginRefused(s) \/ OpenMic(s) \/ Return(s) \/ Deadline(s)
    BY <2>5, RunStutter DEF BeginRefused, OpenMic, Return, Deadline
  <2> QED
    BY <1>3, <2>1, <2>2, <2>3, <2>4, <2>5 DEF StartStep
<1>4. ASSUME NEW x \in Stoppers, StopStep(x) \/ Drop(x)
      PROVE  [Abstract!Next]_Phase
  <2>1. CASE StopTake(x)
    <3>1. Abstract!Think
      BY <2>1 DEF StopTake, Abstract!Think, Phase
    <3> QED
      BY <3>1 DEF Abstract!Next
  <2>2. CASE EndProcessing(x)
    <3>1. processing
      BY <2>2 DEF EndProcessing, InWork
    <3>2. Abstract!Finish
      BY <2>2, <3>1 DEF EndProcessing, Abstract!Finish, Phase
    <3> QED
      BY <3>2 DEF Abstract!Next
  <2>3. CASE \/ StopLook(x) \/ StopRefused(x) \/ HaltMic(x) \/ Transcribed(x)
             \/ Answer(x) \/ DraftLook(x) \/ DraftPolish(x) \/ DraftEnd(x)
             \/ DropTail(x) \/ Drop(x)
    BY <2>3, RunStutter DEF StopLook, StopRefused, HaltMic, Transcribed, Answer,
                            DraftLook, DraftPolish, DraftEnd, DropTail, Drop
  <2> QED
    BY <1>4, <2>1, <2>2, <2>3 DEF StopStep
<1>5. ASSUME NEW k \in DictKeys \cup Toggles, DictStep(k)
      PROVE  UNCHANGED <<starting, session, processing>>
  BY <1>5 DEF DictStep, DictDecide, DictLookAtAsk, DictStart, DictStop, DictEnd
<1>6. ASSUME NEW e \in Escapes, EscapeLook(e) \/ CancelStep(e)
      PROVE  [Abstract!Next]_Phase
  <2>1. CASE CancelStartOrRecording(e)
    <3>1. Abstract!GiveUp \/ Abstract!Lose \/ UNCHANGED Phase
      BY <2>1 DEF CancelStartOrRecording, Abstract!GiveUp, Abstract!Lose, Phase
    <3> QED
      BY <3>1 DEF Abstract!Next
  <2>2. CASE EscapeLook(e) \/ AbortRun(e) \/ CancelHaltMic(e) \/ CancelProcessing(e)
    BY <2>2, RunStutter DEF EscapeLook, AbortRun, CancelHaltMic, CancelProcessing
  <2> QED
    BY <1>6, <2>1, <2>2 DEF CancelStep
<1>7. CASE UNCHANGED vars
  BY <1>7, RunStutter DEF vars
<1> QED
  BY <1>1, <1>2, <1>3, <1>4, <1>5, <1>6, <1>7, RunStutter DEF Next, AllDone

\* Ask implements AskRun, fairness aside: it begins, records, thinks, finishes, gives up
\* and loses a recording only in that order.
THEOREM AskImplementsRun == Spec => Abstract!Spec
<1>1. Init => Abstract!Init
  BY DEF Init, Abstract!Init, Phase
<1>2. AskInv /\ [Next]_vars => [Abstract!Next]_Phase
  BY RunStep
<1> QED
  BY <1>1, <1>2, AskInvAlways, PTL DEF Spec, Abstract!Spec

=============================================================================
