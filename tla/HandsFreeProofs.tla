-------------------------- MODULE HandsFreeProofs --------------------------
(***************************************************************************)
(* Hands-free mode for any number of calls, listeners and wake names,      *)
(* checked by TLAPS: no microphone without an owner, and what listens is   *)
(* what was saved.                                                         *)
(***************************************************************************)
EXTENDS HandsFree, TLAPS

\* The calls that may be anywhere in their work, and what the others leave alone.
Calling(t) == ToggleFromTray(t) \/ UpdateConfig(t) \/ ApplySaved(t) \/ Quit(t) \/ TaskStep(t)
AppState == <<tasks, running, name, stop, mic>>

\* The threads, Ask and the dictations neither touch a setting nor open or close a microphone.
LEMMA OthersKeepTheApp ==
  [Next]_vars => (\E t \in Tasks : Calling(t)) \/ UNCHANGED AppState
BY DEF Next, Calling, AppState, vars, tasks, listeners, otherRuns, ThreadStep,
       Load, End, Pause, NoMatch, WakeRefused, Wake, RequestStops, RequestLost, ListenAgain,
       Candidate, StopAsk, UserAsks, AskMoves, AskEnds, Dictate

-----------------------------------------------------------------------------
(* Types.                                                                  *)

\* What the arguments below need of the types.
Typed ==
  /\ saved \in Settings /\ installed \in BOOLEAN
  /\ pc \in [Tasks -> {"new", "save", "apply", "stop", "join", "open", "store", "done"}]
  /\ config \in [Tasks -> Settings]
  /\ goal \in [Tasks -> {"off", "needsModel", "listening"}]
  /\ listener \in [Tasks -> Listeners \cup {None}]
  /\ overlapped \in BOOLEAN /\ unapplied \in BOOLEAN /\ quit \in BOOLEAN
  /\ running \in Listeners \cup {None}
  /\ name \in Names
  /\ mic \in [Listeners -> BOOLEAN]
  /\ \A t \in Tasks : pc[t] = "store" => listener[t] # None

LEMMA AnyNameIsOne == AnyName \in Names
BY HandsFreeAssumption DEF AnyName

LEMMA FreshIsOne == Fresh \in Settings
BY AnyNameIsOne DEF Fresh, Settings

LEMMA TypedInit == Init => Typed
<1> SUFFICES ASSUME Init PROVE Typed
  OBVIOUS
<1>1. saved \in Settings
  BY AnyNameIsOne DEF Init, Settings
<1> QED BY <1>1, FreshIsOne, AnyNameIsOne DEF Init, Typed

LEMMA TypedCall ==
  ASSUME Typed, NEW t \in Tasks, Calling(t)
  PROVE  Typed'
<1> USE DEF Typed, listeners
<1>1. CASE ToggleFromTray(t)
  BY <1>1 DEF ToggleFromTray, Begin, Go, Settings
<1>2. CASE UpdateConfig(t)
  BY <1>2 DEF UpdateConfig, Begin, Go
<1>3. CASE ApplySaved(t)
  BY <1>3 DEF ApplySaved, Begin, Go
<1>4. CASE Quit(t)
  BY <1>4 DEF Quit, Begin, Go, Settings
<1>5. CASE Save(t)
  BY <1>5 DEF Save, Go
<1>6. CASE ApplyKeeps(t)
  BY <1>6, FreshIsOne DEF ApplyKeeps, Return
<1>13. CASE SaveFails(t)
  BY <1>13, FreshIsOne DEF SaveFails, Return
<1>7. CASE ApplyChanges(t)
  BY <1>7 DEF ApplyChanges, Go, Decision
<1>8. CASE StopTake(t)
  BY <1>8, AnyNameIsOne DEF StopTake, Go, Closed
<1>9. CASE StopJoin(t)
  <2>1. CASE goal[t] = "listening"
    BY <1>9, <2>1 DEF StopJoin, Go
  <2>2. CASE goal[t] # "listening"
    BY <1>9, <2>2, FreshIsOne DEF StopJoin, Return
  <2> QED BY <2>1, <2>2
<1>10. CASE Open(t)
  <2>1. (CHOOSE u \in Unused : TRUE) \in Listeners
    BY <1>10 DEF Open, Unused
  <2>2. (CHOOSE u \in Unused : TRUE) # None
    BY <2>1, HandsFreeAssumption
  <2> QED BY <2>1, <2>2, <1>10 DEF Open, Go
<1>11. CASE OpenFails(t)
  BY <1>11, FreshIsOne DEF OpenFails, Return
<1>12. CASE Store(t)
  <2>1. config[t].name \in Names
    BY DEF Settings
  <2> QED BY <2>1, <1>12, FreshIsOne DEF Store, Return, Closed
<1> QED
  BY <1>1, <1>2, <1>3, <1>4, <1>5, <1>6, <1>7, <1>8, <1>9, <1>10, <1>11, <1>12, <1>13
  DEF Calling, TaskStep

LEMMA TypedStep == Typed /\ [Next]_vars => Typed'
<1>1. UNCHANGED AppState /\ Typed => Typed'
  BY DEF AppState, tasks, Typed
<1> QED BY <1>1, TypedCall, OthersKeepTheApp

LEMMA AlwaysTyped == Spec => []Typed
BY TypedInit, TypedStep, PTL DEF Spec

-----------------------------------------------------------------------------
(* The microphones.                                                        *)

\* However many calls overlap, each open microphone is the one in HandsFreeState or the one its
\* apply is about to store.
LEMMA MicOwnedCall ==
  ASSUME Typed, MicOwned, NEW t \in Tasks, Calling(t)
  PROVE  MicOwned'
<1> USE DEF Typed, MicOwned
<1>1. CASE ToggleFromTray(t) \/ UpdateConfig(t) \/ ApplySaved(t) \/ Quit(t)
  <2>1. /\ pc[t] = "new" /\ \E to \in {"save", "apply", "stop"} : pc' = [pc EXCEPT ![t] = to]
        /\ running' = running /\ mic' = mic /\ listener' = listener
    BY <1>1 DEF ToggleFromTray, UpdateConfig, ApplySaved, Quit, Begin, Go, listeners
  <2> QED BY <2>1
<1>2. CASE Save(t) \/ ApplyChanges(t)
  BY <1>2 DEF Save, ApplyChanges, Go, listeners
<1>3. CASE ApplyKeeps(t) \/ OpenFails(t) \/ SaveFails(t)
  BY <1>3 DEF ApplyKeeps, OpenFails, SaveFails, Return, listeners
<1>4. CASE StopTake(t)
  \* the microphone of the listener taken is closed in the same step
  BY <1>4 DEF StopTake, Go, Closed
<1>5. CASE StopJoin(t)
  BY <1>5 DEF StopJoin, Go, Return, listeners
<1>6. CASE Open(t)
  BY <1>6 DEF Open, Go
<1>7. CASE Store(t)
  \* the new listener takes the place of one whose microphone closes
  <2> SUFFICES ASSUME NEW l \in Listeners, mic'[l]
               PROVE  \/ running' = l
                      \/ \E u \in Tasks : pc'[u] = "store" /\ listener'[u] = l
    OBVIOUS
  <2>1. mic[l] /\ running # l
    BY <1>7, HandsFreeAssumption DEF Store, Closed
  <2>2. PICK u \in Tasks : pc[u] = "store" /\ listener[u] = l
    BY <2>1
  <2>3. CASE u = t
    BY <1>7, <2>2, <2>3 DEF Store
  <2>4. CASE u # t
    BY <1>7, <2>2, <2>4 DEF Store, Return
  <2> QED BY <2>3, <2>4
<1> QED BY <1>1, <1>2, <1>3, <1>4, <1>5, <1>6, <1>7 DEF Calling, TaskStep

\* MicOwned holds for every number of calls and listeners.
THEOREM MicAlwaysOwned == Spec => []MicOwned
<1>1. Init => MicOwned
  BY DEF Init, MicOwned
<1>2. Typed /\ MicOwned /\ [Next]_vars => MicOwned'
  <2>1. UNCHANGED AppState /\ MicOwned => MicOwned'
    BY DEF AppState, tasks, MicOwned
  <2> QED BY <2>1, MicOwnedCall, OthersKeepTheApp
<1> QED BY <1>1, <1>2, AlwaysTyped, PTL DEF Spec

-----------------------------------------------------------------------------
(* The settings.                                                           *)

\* Where a call that overlapped no other has got to: it is the only one, and it carries out what
\* is saved, or the exit.
Alone == \A t, u \in Tasks : UnderWay(t) /\ UnderWay(u) => t = u

Exiting(t) == quit /\ pc[t] \in {"stop", "join"} /\ goal[t] = "off"

Decided(t) ==
  /\ ~quit /\ config[t] = saved
  /\ pc[t] \in {"stop", "join", "open", "store"} => goal[t] = Decision(t)
  /\ pc[t] \in {"open", "store"} => goal[t] = "listening"

OnCourse(t) ==
  /\ Exiting(t) \/ (pc[t] = "save" /\ ~quit) \/ Decided(t)
  /\ pc[t] \in {"join", "open", "store"} => running = None

SettledInv ==
  /\ \A t \in Tasks : pc[t] = "new" => goal[t] = "off"
  /\ ~overlapped => Alone /\ \A t \in Tasks : UnderWay(t) => OnCourse(t)
  /\ SettledAsSaved

\* A call begins: if it overlaps no other, it is the only one.
LEMMA SettledBegin ==
  ASSUME Typed, SettledInv, NEW t \in Tasks,
         ToggleFromTray(t) \/ UpdateConfig(t) \/ ApplySaved(t) \/ Quit(t)
  PROVE  SettledInv'
<1> USE DEF Typed, listeners
<1>1. /\ pc[t] = "new" /\ goal[t] = "off" /\ ~quit
      /\ \E to \in {"save", "apply", "stop"} : pc' = [pc EXCEPT ![t] = to]
      /\ goal' = goal /\ saved' = saved /\ running' = running
      /\ overlapped' = \E u \in Tasks : UnderWay(u)
  BY DEF SettledInv, ToggleFromTray, UpdateConfig, ApplySaved, Quit, Begin, Go
<1>2. UnderWay(t)' /\ \A u \in Tasks \ {t} : UnderWay(u)' = UnderWay(u)
  BY <1>1 DEF UnderWay
<1>3. ~Quiet'
  BY <1>2 DEF Quiet
<1>4. OnCourse(t)'
  <2>1. CASE ToggleFromTray(t) \/ UpdateConfig(t)
    BY <1>1, <2>1 DEF ToggleFromTray, UpdateConfig, Begin, Go, OnCourse
  <2>2. CASE ApplySaved(t)
    BY <2>2, <1>1 DEF ApplySaved, Begin, Go, OnCourse, Decided
  <2>3. CASE Quit(t)
    BY <2>3, <1>1 DEF Quit, Begin, Go, OnCourse, Exiting
  <2> QED BY <2>1, <2>2, <2>3
<1>5. ~overlapped' => \A u \in Tasks : UnderWay(u)' => u = t
  BY <1>1, <1>2
<1>6. \A u \in Tasks : pc'[u] = "new" => goal'[u] = "off"
  BY <1>1 DEF SettledInv
<1> QED BY <1>3, <1>4, <1>5, <1>6 DEF SettledInv, Alone, SettledAsSaved

\* A call goes on: if it overlaps no other, it stays on its course.
LEMMA SettledGoesOn ==
  ASSUME Typed, SettledInv, NEW t \in Tasks,
         \/ Save(t) \/ ApplyChanges(t) \/ StopTake(t) \/ Open(t)
         \/ StopJoin(t) /\ goal[t] = "listening"
  PROVE  SettledInv'
<1> USE DEF Typed, listeners
<1>1. /\ UnderWay(t) /\ overlapped' = overlapped
      /\ \E to \in {"apply", "stop", "join", "open", "store"} : pc' = [pc EXCEPT ![t] = to]
      /\ \A u \in Tasks \ {t} : goal'[u] = goal[u]
  BY DEF Save, ApplyChanges, StopTake, Open, StopJoin, Go, UnderWay
<1>2. UnderWay(t)' /\ \A u \in Tasks \ {t} : UnderWay(u)' = UnderWay(u)
  BY <1>1 DEF UnderWay
<1>3. ~Quiet'
  BY <1>2 DEF Quiet
<1>4. ~overlapped => OnCourse(t)'
  <2> SUFFICES ASSUME OnCourse(t)
               PROVE  OnCourse(t)'
    BY <1>1 DEF SettledInv
  <2> USE DEF OnCourse, Exiting, Decided, Decision, Go
  <2>1. CASE Save(t)
    BY <2>1 DEF Save
  <2>2. CASE ApplyChanges(t)
    BY <2>2 DEF ApplyChanges
  <2>3. CASE StopTake(t)
    BY <2>3 DEF StopTake
  <2>4. CASE Open(t)
    BY <2>4 DEF Open
  <2>5. CASE StopJoin(t) /\ goal[t] = "listening"
    BY <2>5 DEF StopJoin
  <2> QED BY <2>1, <2>2, <2>3, <2>4, <2>5
<1>5. ~overlapped' => \A u \in Tasks : UnderWay(u)' => u = t
  BY <1>1, <1>2 DEF SettledInv, Alone
<1>6. \A u \in Tasks : pc'[u] = "new" => goal'[u] = "off"
  BY <1>1 DEF SettledInv
<1>7. overlapped' = overlapped
  BY <1>1
<1> QED BY <1>3, <1>4, <1>5, <1>6, <1>7 DEF SettledInv, Alone, SettledAsSaved

\* A call returns: what it leaves is what was saved, unless its save failed.
LEMMA SettledReturn ==
  ASSUME Typed, SettledInv, NEW t \in Tasks,
         \/ ApplyKeeps(t) \/ OpenFails(t) \/ Store(t) \/ SaveFails(t)
         \/ StopJoin(t) /\ goal[t] # "listening"
  PROVE  SettledInv'
<1> USE DEF Typed, listeners
<1>1. UnderWay(t) /\ overlapped' = overlapped /\ Return(t)
  BY DEF ApplyKeeps, OpenFails, Store, SaveFails, StopJoin, UnderWay
<1>2. \A u \in Tasks \ {t} : UnderWay(u)' = UnderWay(u)
  BY <1>1 DEF UnderWay, Return
<1>3. ~UnderWay(t)'
  BY <1>1 DEF UnderWay, Return
<1>4. ~overlapped => ListensAsSaved' \/ unapplied'
  <2> SUFFICES ASSUME OnCourse(t)
               PROVE  ListensAsSaved' \/ unapplied'
    BY <1>1 DEF SettledInv
  <2> USE DEF OnCourse, Exiting, Decided, Decision, ListensAsSaved
  <2>1. CASE ApplyKeeps(t)
    BY <2>1 DEF ApplyKeeps, SameSettings
  <2>2. CASE OpenFails(t)
    BY <2>2 DEF OpenFails
  <2>3. CASE Store(t)
    <3>1. /\ pc[t] = "store" /\ running' = listener[t] /\ name' = config[t].name
          /\ saved' = saved /\ quit' = quit
      BY <2>3 DEF Store
    <3>2. config[t] = saved /\ ~quit /\ Decision(t) = "listening"
      BY <3>1
    <3>3. saved.on
      BY <3>2
    <3>4. running' # None
      BY <3>1
    <3> QED BY <3>1, <3>2, <3>3, <3>4
  <2>4. CASE StopJoin(t) /\ goal[t] # "listening"
    <3>1. /\ pc[t] = "join" /\ running' = None
          /\ saved' = saved /\ quit' = quit /\ installed' = installed
      BY <2>4 DEF StopJoin
    <3>2. CASE quit
      BY <3>1, <3>2
    <3>3. CASE ~quit
      <4>1. Decision(t) # "listening" /\ config[t] = saved
        BY <2>4, <3>1, <3>3
      <4>2. ~saved.on \/ ~installed
        BY <4>1
      <4> QED BY <3>1, <4>2
    <3> QED BY <3>2, <3>3
  <2>5. CASE SaveFails(t)
    BY <2>5 DEF SaveFails
  <2> QED BY <2>1, <2>2, <2>3, <2>4, <2>5
<1>5. ~overlapped' => \A u \in Tasks : ~UnderWay(u)'
  BY <1>1, <1>2, <1>3 DEF SettledInv, Alone
<1>6. \A u \in Tasks : pc'[u] = "new" => goal'[u] = "off"
  BY <1>1 DEF SettledInv, Return
<1>7. overlapped' = overlapped
  BY <1>1
<1> QED BY <1>4, <1>5, <1>6, <1>7 DEF SettledInv, Alone, SettledAsSaved, ListensAsSaved

\* SettledAsSaved holds for every number of calls, listeners and wake names.
THEOREM AlwaysSettledAsSaved == Spec => []SettledAsSaved
<1>1. Init => SettledInv
  BY DEF Init, SettledInv, SettledAsSaved, Alone, UnderWay
<1>2. Typed /\ SettledInv /\ [Next]_vars => SettledInv'
  <2>1. UNCHANGED AppState /\ SettledInv => SettledInv'
    BY DEF AppState, tasks, SettledInv, SettledAsSaved, ListensAsSaved, Alone, UnderWay, Quiet,
           OnCourse, Exiting, Decided, Decision
  <2>2. ASSUME Typed, SettledInv, NEW t \in Tasks, Calling(t)
        PROVE  SettledInv'
    BY <2>2, SettledBegin, SettledGoesOn, SettledReturn DEF Calling, TaskStep
  <2> QED BY <2>1, <2>2, OthersKeepTheApp
<1>3. SettledInv => SettledAsSaved
  BY DEF SettledInv
<1> QED BY <1>1, <1>2, <1>3, AlwaysTyped, PTL DEF Spec

=============================================================================
