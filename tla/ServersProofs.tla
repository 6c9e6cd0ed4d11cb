--------------------------- MODULE ServersProofs ----------------------------
(***************************************************************************)
(* The safety of ServerManager and of SearchServer for any number of calls, *)
(* models, commits, quits and crashes, checked by TLAPS.                    *)
(***************************************************************************)
EXTENDS MCServers, TLAPS

-----------------------------------------------------------------------------
(* ServerManager: the inductive invariant.                                 *)

\* Only the holder of the gate is inside ensure_with(), and nobody is inside
\* anything before the app is up, when a launch has removed the pid file.
GateInv ==
    /\ \A c \in Calls : pc[c] \notin {"ready", "done"} => gate = c
    /\ \A p \in Stops : pc[p] \in {"ready", "take", "kill", "unfile", "done"}
    /\ app # "up" => /\ running = None
                     /\ \A p \in Processes : pc[p] \in {"ready", "done"}
    /\ app = "launch" => pid_file = None

\* From its own stop() on, a start finds no other server stored.
NoneStored ==
    \A c \in Calls :
        pc[c] \in {"kill", "unfile", "load", "spawn"} \cup Starting => running = None

\* A server is there from its start on.
SpawnedOnce == \A c \in alive : pc[c] \in Starting \cup {"done"}

\* A stop() that is about to kill a server has the only one there is, and no other
\* one is stored or starts beside it.
KillInv ==
    \A p \in Processes : pc[p] = "kill" =>
        /\ alive \ lost \subseteq {taken[p]}
        /\ taken[p] \in alive \ lost =>
             running = None /\ \A c \in Calls : pc[c] \notin Starting

\* Who is about to remove the pid file has killed the server it named.
UnfileInv == (\E p \in Processes : pc[p] = "unfile") => alive \subseteq lost

\* A start that a stop() met will find another generation.
MetInv ==
    \A c \in met :
        /\ pc[c] \in {"spawn", "file", "starting", "check", "done"}
        /\ pc[c] # "done" => seen[c] < generation

ServerInv ==
    /\ GateInv
    /\ NoneStored
    /\ SpawnedOnce
    /\ KillInv
    /\ UnfileInv
    /\ MetInv
    /\ EveryServerIsOwned
    /\ ServerIsRecoverable
    /\ StopReachesStarts

-----------------------------------------------------------------------------
(* Types.                                                                  *)

\* Who may call stop().
LEMMA StopsAndCalls ==
    \A p : p \in Processes <=> p \in Calls \/ p \in Stops
BY DEF Processes

\* TypeOK holds at first, and is inductive: generations only grow while the app
\* is up.
LEMMA TypeInit == Init => TypeOK
BY ManagerAssumption DEF Init, TypeOK, Processes, Starting

\* Each action keeps TypeOK.
LEMMA TypeStep == TypeOK /\ [Next]_vars => TypeOK'
<1> SUFFICES ASSUME TypeOK, [Next]_vars
             PROVE  TypeOK'
  OBVIOUS
<1> USE ManagerAssumption, StopsAndCalls DEF TypeOK, Starting, shared, local, history
<1>1. CASE \E c \in Calls : Enter(c)
  BY <1>1 DEF Enter, At, Go, Return, GateFree
<1>2. CASE \E c \in Calls : ModelMissing(c)
  BY <1>2 DEF ModelMissing, At, Go, Return
<1>3. CASE \E c \in Calls : Reuse(c)
  BY <1>3 DEF Reuse, At, Go, Return
<1>4. CASE \E c \in Calls : Replace(c)
  BY <1>4 DEF Replace, At, Go
<1>5. CASE \E c \in Calls : LoadGeneration(c)
  BY <1>5 DEF LoadGeneration, At, Go
<1>6. CASE \E c \in Calls : SpawnFails(c)
  BY <1>6 DEF SpawnFails, At, Go, Return
<1>7. CASE \E c \in Calls : Spawn(c)
  BY <1>7 DEF Spawn, HalfWay, At, Go
<1>8. CASE \E c \in Calls : WritePid(c)
  BY <1>8 DEF WritePid, At, Go
<1>9. CASE \E c \in Calls : Healthy(c)
  BY <1>9 DEF Healthy, At, Go
<1>10. CASE \E c \in Calls : Exited(c)
  BY <1>10 DEF Exited, At, Go, Return
<1>11. CASE \E c \in Calls : TimedOut(c)
  BY <1>11 DEF TimedOut, At, Go, Return
<1>12. CASE \E c \in Calls : Discard(c)
  BY <1>12 DEF Discard, At, Go, Return, StoppedMeanwhile
<1>13. CASE \E c \in Calls : Checked(c)
  BY <1>13 DEF Checked, At, Go, StoppedMeanwhile
<1>14. CASE \E c \in Calls : Store(c)
  BY <1>14 DEF Store, At, Go, Return
<1>15. CASE \E c \in Calls : Dropped(c)
  BY <1>15 DEF Dropped, At, Go, Return
<1>16. CASE \E p \in Processes : Bump(p)
  BY <1>16 DEF Bump, At, Go, NextGeneration
<1>17. CASE \E p \in Processes : Take(p)
  BY <1>17 DEF Take, At, Go, AfterStop
<1>18. CASE \E p \in Processes : Unfile(p)
  BY <1>18 DEF Unfile, At, Go, AfterStop
<1>19. CASE \E c \in Calls : ServerDies(c)
  BY <1>19 DEF ServerDies
<1>20. CASE Crash \/ Quit
  BY <1>20 DEF Crash, Quit, AppEnds
<1>21. CASE SetPaths \/ StopStale \/ LookFails
  BY <1>21 DEF SetPaths, StopStale, LookFails, Stale
<1>24. CASE \E p \in Processes : KillTaken(p)
  BY <1>24 DEF KillTaken, At, Go, Kill
<1>22. CASE UNCHANGED vars
  BY <1>22 DEF vars
<1>23. QED
  BY <1>1, <1>2, <1>3, <1>4, <1>5, <1>6, <1>7, <1>8, <1>9, <1>10, <1>11, <1>12,
     <1>13, <1>14, <1>15, <1>16, <1>17, <1>18, <1>19, <1>20, <1>21, <1>22, <1>24
  DEF Next, EnsureStep, OwnStep, StopStep, AllDone

\* Every variable has its shape, for any calls and any number of crashes.
THEOREM ServerTypeCorrect == Spec => []TypeOK
BY TypeInit, TypeStep, PTL DEF Spec

-----------------------------------------------------------------------------
(* Servers.                                                                *)

\* ServerInv holds at first, before the first launch.
LEMMA ServerInvInit == Init => ServerInv
BY DEF Init, ServerInv, GateInv, NoneStored, SpawnedOnce, KillInv, UnfileInv, MetInv,
       EveryServerIsOwned, InHand, ServerIsRecoverable, StopReachesStarts, Starting,
       Processes

\* ServerInv is inductive.  The steps that need it most: Spawn puts a server
\* under the gate, and into lost if a pid file is about to go; KillTaken empties
\* alive but for lost servers, which is what Unfile relies on; a launch has in its
\* hand the one server the pid file named; Checked lets no start pass that a stop()
\* met.
LEMMA ServerInvStep == TypeOK /\ ServerInv /\ [Next]_vars => ServerInv'
<1> SUFFICES ASSUME TypeOK, ServerInv, [Next]_vars
             PROVE  ServerInv'
  OBVIOUS
<1> USE ManagerAssumption, StopsAndCalls
    DEF TypeOK, Starting, shared, local, history, ServerInv
<1> USE DEF GateInv, NoneStored, SpawnedOnce, KillInv, UnfileInv, MetInv,
            EveryServerIsOwned, InHand, ServerIsRecoverable, StopReachesStarts
<1>1. CASE \E c \in Calls : Enter(c)
  BY <1>1 DEF Enter, At, Go, Return, GateFree
<1>2. CASE \E c \in Calls : ModelMissing(c)
  BY <1>2 DEF ModelMissing, At, Go, Return
<1>3. CASE \E c \in Calls : Reuse(c)
  BY <1>3 DEF Reuse, At, Go, Return
<1>4. CASE \E c \in Calls : Replace(c)
  BY <1>4 DEF Replace, At, Go
<1>5. CASE \E c \in Calls : LoadGeneration(c)
  BY <1>5 DEF LoadGeneration, At, Go
<1>6. CASE \E c \in Calls : SpawnFails(c)
  BY <1>6 DEF SpawnFails, At, Go, Return
<1>7. CASE \E c \in Calls : Spawn(c)
  BY <1>7 DEF Spawn, HalfWay, At, Go
<1>8. CASE \E c \in Calls : WritePid(c)
  BY <1>8 DEF WritePid, At, Go
<1>9. CASE \E c \in Calls : Healthy(c)
  BY <1>9 DEF Healthy, At, Go
<1>10. CASE \E c \in Calls : Exited(c)
  BY <1>10 DEF Exited, At, Go, Return
<1>11. CASE \E c \in Calls : TimedOut(c)
  BY <1>11 DEF TimedOut, At, Go, Return
<1>12. CASE \E c \in Calls : Discard(c)
  BY <1>12 DEF Discard, At, Go, Return, StoppedMeanwhile
<1>13. CASE \E c \in Calls : Checked(c)
  BY <1>13 DEF Checked, At, Go, StoppedMeanwhile
<1>14. CASE \E c \in Calls : Store(c)
  BY <1>14 DEF Store, At, Go, Return
<1>15. CASE \E c \in Calls : Dropped(c)
  BY <1>15 DEF Dropped, At, Go, Return
<1>16. CASE \E p \in Processes : Bump(p)
  BY <1>16 DEF Bump, At, Go, NextGeneration
<1>17. CASE \E p \in Processes : Take(p)
  BY <1>17 DEF Take, At, Go, AfterStop
<1>18. CASE \E p \in Processes : Unfile(p)
  BY <1>18 DEF Unfile, At, Go, AfterStop
<1>19. CASE \E c \in Calls : ServerDies(c)
  BY <1>19 DEF ServerDies
<1>20. CASE Crash \/ Quit
  BY <1>20 DEF Crash, Quit, AppEnds
<1>21. CASE SetPaths \/ StopStale \/ LookFails
  BY <1>21 DEF SetPaths, StopStale, LookFails, Stale
<1>24. CASE \E p \in Processes : KillTaken(p)
  BY <1>24 DEF KillTaken, At, Go, Kill
<1>22. CASE UNCHANGED vars
  BY <1>22 DEF vars
<1>23. QED
  BY <1>1, <1>2, <1>3, <1>4, <1>5, <1>6, <1>7, <1>8, <1>9, <1>10, <1>11, <1>12,
     <1>13, <1>14, <1>15, <1>16, <1>17, <1>18, <1>19, <1>20, <1>21, <1>22, <1>24
  DEF Next, EnsureStep, OwnStep, StopStep, AllDone

\* ... so it always holds.
LEMMA ServerInvAlways == Spec => [](TypeOK /\ ServerInv)
<1>1. Init => TypeOK /\ ServerInv
  BY TypeInit, ServerInvInit
<1>2. TypeOK /\ ServerInv /\ [Next]_vars => (TypeOK /\ ServerInv)'
  BY TypeStep, ServerInvStep
<1>3. QED
  BY <1>1, <1>2, PTL DEF Spec

\* Every server is stored for stop() to find, or local to the start that holds the
\* gate or to the stop() that kills it next.
THEOREM ServersAlwaysOwned == Spec => []EveryServerIsOwned
<1>1. ServerInv => EveryServerIsOwned
  BY DEF ServerInv
<1>2. QED
  BY <1>1, ServerInvAlways, PTL

\* Whenever the app dies, the pid file names the server it leaves, but in a launch
\* between the removal of the file and the look.
THEOREM ServersAlwaysRecoverable == Spec => []ServerIsRecoverable
<1>1. ServerInv => ServerIsRecoverable
  BY DEF ServerInv
<1>2. QED
  BY <1>1, ServerInvAlways, PTL

\* A start that a stop() met leaves no server.
THEOREM StopsReachStarts == Spec => []StopReachesStarts
<1>1. ServerInv => StopReachesStarts
  BY DEF ServerInv
<1>2. QED
  BY <1>1, ServerInvAlways, PTL

\* There are never two servers: while the app is up the owner is one, while it is
\* down the pid file names one.
THEOREM NeverTwoServers == Spec => []OneServer
<1>1. TypeOK /\ ServerInv => OneServer
  <2> SUFFICES ASSUME TypeOK, ServerInv,
                      NEW s \in alive \ lost, NEW t \in alive \ lost
               PROVE  s = t
    BY DEF OneServer
  <2>1. CASE app = "up"
    BY <2>1, ManagerAssumption
    DEF ServerInv, EveryServerIsOwned, InHand, NoneStored, KillInv, TypeOK, Starting
  <2>2. CASE app # "up"
    BY <2>2, ManagerAssumption DEF ServerInv, ServerIsRecoverable, GateInv, TypeOK
  <2>3. QED
    BY <2>1, <2>2
<1>2. QED
  BY <1>1, ServerInvAlways, PTL

-----------------------------------------------------------------------------
(* SearchServer: the inductive invariant.                                  *)

SearchProcesses == Search!SearchCalls \cup Exits
Makers          == Installs \cup Updates

\* Where a call may be, and what may follow its stop().
Outside      == {"ready", "queued", "done"}
StopPlaces   == {"take", "unfile"}
StartPlaces  == {"spawn", "file", "store"}
SearchPlaces == Outside \cup StopPlaces \cup StartPlaces \cup {"look", "wait"}
RemovePlaces == Outside \cup StopPlaces \cup {"delete", "rest"}
MakerPlaces  ==
  Outside \cup StopPlaces \cup StartPlaces
    \cup {"fetch", "unpack", "venv", "libraries", "built", "wait", "end", "discard",
          "truncate", "write", "clean"}
ExitPlaces   == {"ready", "unfile", "exit", "done"}
Places       == SearchPlaces \cup RemovePlaces \cup MakerPlaces \cup ExitPlaces
Afters       == {"spawn", "end", "discard", "delete", "exit"}

CommitOrNone == Commits \cup {None}
Servers      == [server : Search!SearchCalls \X CommitOrNone, ready : BOOLEAN]
Locals       == [at : Places, old : CommitOrNone, commit : CommitOrNone,
                 after : Afters, was_running : BOOLEAN, back : BOOLEAN]

SearchTypes ==
  /\ call \in [SearchProcesses -> Locals]
  /\ search \in Servers \cup {None}
  /\ folder \in [Commits -> {"none", "source", "venv", "whole"}]
  /\ installed_json \in CommitOrNone
  /\ torn \in BOOLEAN

\* Each kind of call keeps to its places; an update that goes back to the old
\* version does no more than start it.
PlaceInv ==
  /\ \A p \in Searches :
       /\ call[p].at \in SearchPlaces
       /\ call[p].at \in StopPlaces => call[p].after = "spawn"
  /\ \A p \in Removes :
       /\ call[p].at \in RemovePlaces
       /\ call[p].at \in StopPlaces => call[p].after = "delete"
  /\ \A p \in Makers :
       /\ call[p].at \in MakerPlaces
       /\ call[p].at \in StopPlaces => call[p].after \in {"spawn", "end", "discard"}
       /\ call[p].back => /\ call[p].at \in StopPlaces \cup StartPlaces \cup {"done"}
                          /\ call[p].at \in StopPlaces => call[p].after = "spawn"
  /\ \A e \in Exits :
       /\ call[e].at \in ExitPlaces
       /\ call[e].at = "unfile" => call[e].after = "exit"

\* Only the holder of start_lock is inside, and nobody before the app is up, when a
\* launch has in its hand the one server it may find.
SearchLock ==
  /\ \A p \in Search!SearchCalls : call[p].at \notin Outside => start_lock = p
  /\ app # "up" => /\ search = None
                   /\ \A p \in SearchProcesses : call[p].at \in {"ready", "done"}
  /\ app = "launch" => searxngs \ orphans \subseteq {search_stale}

\* Between a stop() and the store of the next server nothing is stored, and who is
\* about to remove the pid file has killed the server it named; no start is under
\* way then.
SearchStopped ==
  /\ \A p \in SearchProcesses :
       call[p].at \in StartPlaces \cup {"unfile", "end", "discard", "delete", "rest"}
         => search = None
  /\ \A p \in SearchProcesses : call[p].at = "unfile" =>
       /\ searxngs \subseteq orphans
       /\ \A q \in SearchProcesses :
            /\ call[q].at = "unfile" => p = q
            /\ call[q].at \notin StartPlaces

\* What a set-up or update has made so far.  Only over itself does it touch the
\* installed folder (torn); from its libraries on the folder it will install is
\* whole, and stays so until it is named.
WholePlaces  == StopPlaces \cup StartPlaces \cup {"built", "wait", "truncate", "write"}
MakingPlaces == WholePlaces \cup {"venv", "libraries", "discard"}

BuildInv ==
  \A p \in Makers : ~call[p].back =>
    /\ call[p].at \in MakingPlaces \cup {"unpack", "clean"} => call[p].commit \in Commits
    /\ call[p].at \in MakingPlaces /\ call[p].commit = installed_json => torn
    /\ call[p].at \in WholePlaces \cup {"clean"} => folder[call[p].commit] = "whole"
    /\ call[p].at = "write" => installed_json = None
    /\ call[p].at = "clean" => installed_json = call[p].commit

SearchInv ==
  /\ SearchTypes
  /\ PlaceInv
  /\ SearchLock
  /\ SearchStopped
  /\ BuildInv
  /\ Search!InstalledRuns
  /\ Search!SearchServerFound

-----------------------------------------------------------------------------
(* SearchServer: what a step makes of a call.                              *)

\* Who makes which calls, and that None is none of them.
LEMMA SearchConstants ==
  /\ Search!SearchCalls = Searches \cup Removes \cup Makers
  /\ \A p \in Search!SearchCalls : p \in SearchProcesses /\ p \notin Exits
  /\ \A e \in Exits : e \in SearchProcesses
  /\ \A p \in Removes : p \notin Searches /\ p \notin Makers
  /\ \A p \in Makers : p \notin Searches
  /\ None \notin Commits /\ None \notin Servers /\ None \notin SearchProcesses
BY ServersAssumption
DEF Search!SearchAssumption, Search!SearchCalls, SearchProcesses, Makers, Servers,
    CommitOrNone

\* What a step makes of its call it makes of no other.
LEMMA Becoming ==
  ASSUME SearchTypes, NEW p \in SearchProcesses, NEW new \in Locals, Search!Becomes(p, new)
  PROVE  /\ call' \in [SearchProcesses -> Locals]
         /\ call'[p] = new
         /\ \A q \in SearchProcesses \ {p} : call'[q] = call[q]
BY DEF SearchTypes, Search!Becomes

\* Each step of a call leaves it locals of their shape.
LEMMA StepBecomes ==
  ASSUME SearchTypes, NEW p \in Search!SearchCalls, Search!CallStep(p)
  PROVE  \E new \in Locals : Search!Becomes(p, new)
<1>1. p \in SearchProcesses /\ call[p] \in Locals
  BY SearchConstants DEF SearchTypes
<1>2. ASSUME NEW place \in Places, Search!Go(p, place)
      PROVE  \E new \in Locals : Search!Becomes(p, new)
  <2>1. [call[p] EXCEPT !.at = place] \in Locals
    BY <1>1 DEF Locals
  <2> QED
    BY <1>2, <2>1 DEF Search!Go
<1>3. ASSUME NEW after \in Afters
      PROVE  Search!Stop(p, after) \in Locals
  <2>1. "take" \in Places
    BY DEF Places, SearchPlaces, StopPlaces
  <2> QED
    BY <1>1, <2>1 DEF Search!Stop, Locals
<1>4. Search!Installed \in CommitOrNone
  BY DEF Search!Installed, SearchTypes, CommitOrNone
<1>5. CASE Search!ReadOld(p)
  <2>1. [call[p] EXCEPT !.old = Search!Installed, !.at = "queued"] \in Locals
    BY <1>1, <1>4 DEF Locals, Places, SearchPlaces, Outside
  <2> QED
    BY <1>5, <2>1 DEF Search!ReadOld
<1>6. CASE Search!Enter(p)
  <2>1. \A place \in {"look", "fetch"} : [call[p] EXCEPT !.at = place] \in Locals
    BY <1>1 DEF Locals, Places, SearchPlaces, MakerPlaces
  <2>2. Search!Stop(p, "delete") \in Locals
    BY <1>3 DEF Afters
  <2> QED
    BY <1>6, <2>1, <2>2 DEF Search!Enter
<1>7. CASE Search!StartInstalled(p)
  <2>1. Search!Stop(p, "spawn") \in Locals
    BY <1>3 DEF Afters
  <2>2. [Search!Stop(p, "spawn") EXCEPT !.commit = Search!Installed] \in Locals
    BY <2>1, <1>4 DEF Locals
  <2> QED
    BY <1>7, <2>2 DEF Search!StartInstalled
<1>8. CASE Search!Latest(p)
  <2>1. PICK c \in Commits :
          IF c = call[p].old THEN Search!Return(p)
          ELSE Search!Becomes(p, [call[p] EXCEPT !.commit = c, !.at = "unpack"])
    BY <1>8 DEF Search!Latest
  <2>2. [call[p] EXCEPT !.commit = c, !.at = "unpack"] \in Locals
    BY <1>1 DEF CommitOrNone, Locals, Places, MakerPlaces
  <2>3. "done" \in Places
    BY DEF Places, SearchPlaces, Outside
  <2> QED
    BY <1>2, <2>1, <2>2, <2>3 DEF Search!Return
<1>9. CASE Search!StartNew(p)
  <2>1. Search!Stop(p, "spawn") \in Locals
    BY <1>3 DEF Afters
  <2>2. [Search!Stop(p, "spawn") EXCEPT !.was_running = Search!Running] \in Locals
    BY <2>1 DEF Search!Running, Locals
  <2> QED
    BY <1>9, <2>2 DEF Search!StartNew
<1>10. CASE Search!TimesOut(p)
  <2>1. \A after \in {"end", "discard"} : Search!Stop(p, after) \in Locals
    BY <1>3 DEF Afters
  <2>2. "done" \in Places
    BY DEF Places, SearchPlaces, Outside
  <2> QED
    BY <1>2, <1>10, <2>1, <2>2 DEF Search!TimesOut, Search!Return
<1>11. CASE Search!Discard(p)
  <2>1. Search!Stop(p, "spawn") \in Locals
    BY <1>3 DEF Afters
  <2>2. [Search!Stop(p, "spawn") EXCEPT !.commit = call[p].old, !.back = TRUE] \in Locals
    BY <1>1, <2>1 DEF Locals
  <2>3. "done" \in Places
    BY DEF Places, SearchPlaces, Outside
  <2> QED
    BY <1>2, <1>11, <2>2, <2>3 DEF Search!Discard, Search!Return
<1>12. CASE Search!Take(p) \/ Search!Unfile(p)
  <2>1. call[p].after \in Afters /\ p \notin Exits
    BY <1>1, SearchConstants DEF Locals
  <2>2. Afters \subseteq Places
    BY DEF Afters, Places, StartPlaces, SearchPlaces, MakerPlaces, RemovePlaces,
       ExitPlaces
  <2>3. [call[p] EXCEPT !.at = "unfile", !.after = call[p].after] \in Locals
    BY <1>1, <2>1 DEF Locals, Places, SearchPlaces, StopPlaces
  <2> QED
    BY <1>2, <1>12, <2>1, <2>2, <2>3 DEF Search!Take, Search!Unfile
<1>13. CASE \/ Search!Serves(p) \/ Search!WaitAgain(p) \/ Search!NotSetUp(p)
            \/ Search!Dropped(p)
            \/ Search!FetchFails(p) \/ Search!Unpack(p) \/ Search!MakeVenv(p)
            \/ Search!Libraries(p) \/ Search!BuildFails(p) \/ Search!StartStep(p)
            \/ Search!Answers(p) \/ Search!End(p) \/ Search!Truncate(p) \/ Search!Write(p)
            \/ Search!WriteFails(p) \/ Search!Clean(p) \/ Search!RemoveStep(p)
  <2>1. \E place \in Places : Search!Go(p, place)
    BY <1>13
    DEF Search!Serves, Search!WaitAgain, Search!NotSetUp, Search!Dropped,
        Search!FetchFails,
        Search!Unpack, Search!MakeVenv, Search!Libraries, Search!BuildFails,
        Search!StartStep, Search!SpawnFails, Search!Spawn, Search!WritePid, Search!Store,
        Search!Answers, Search!End, Search!Truncate, Search!Write, Search!WriteFails,
        Search!Clean, Search!RemoveStep, Search!DeleteSome, Search!DeleteRest,
        Search!DeleteFails, Search!Return, Places, SearchPlaces, RemovePlaces,
        MakerPlaces, Outside, StartPlaces
  <2> QED
    BY <1>2, <2>1
<1> QED
  BY <1>5, <1>6, <1>7, <1>8, <1>9, <1>10, <1>11, <1>12, <1>13
  DEF Search!CallStep, Search!SearchStep, Search!BuildStep, Search!WaitStep,
      Search!StopStep

\* A call that is about to stop the server.
LEMMA StopLocals ==
  ASSUME SearchTypes, NEW p \in SearchProcesses, NEW after \in Afters
  PROVE  /\ Search!Stop(p, after) \in Locals
         /\ Search!Stop(p, after).at = "take"
         /\ Search!Stop(p, after).after = after
         /\ Search!Stop(p, after).commit = call[p].commit
         /\ Search!Stop(p, after).back = call[p].back
<1>1. call[p] \in Locals
  BY DEF SearchTypes
<1>2. "take" \in Places
  BY DEF Places, SearchPlaces, StopPlaces
<1> QED
  BY <1>1, <1>2 DEF Search!Stop, Locals

\* A call that only moves on keeps its other locals.
LEMMA GoLocals ==
  ASSUME SearchTypes, NEW p \in SearchProcesses, NEW place, Search!Go(p, place)
  PROVE  /\ call'[p].at = place
         /\ call'[p].old = call[p].old /\ call'[p].commit = call[p].commit
         /\ call'[p].after = call[p].after /\ call'[p].back = call[p].back
BY DEF SearchTypes, Locals, Search!Go, Search!Becomes

\* ... and so does one that is over.
LEMMA ReturnLocals ==
  ASSUME SearchTypes, NEW p \in SearchProcesses, Search!Return(p)
  PROVE  /\ call'[p].at = "done"
         /\ call'[p].commit = call[p].commit /\ call'[p].back = call[p].back
BY GoLocals DEF Search!Return

\* read_installed() names a commit, or none.
LEMMA InstalledIsCommit == SearchTypes => Search!Installed \in CommitOrNone
BY DEF Search!Installed, SearchTypes, CommitOrNone

\* What running may hold.
LEMMA StoredServers ==
  /\ \A x \in Search!SearchCalls \X CommitOrNone :
       /\ [server |-> x, ready |-> FALSE] \in Servers
       /\ [server |-> x, ready |-> FALSE].server = x
  /\ \A s \in Servers : [s EXCEPT !.ready = TRUE] \in Servers
                      /\ [s EXCEPT !.ready = TRUE].server = s.server
BY DEF Servers

\* What the steps that change more of a call than its place make of it.
FirstPlace(p) ==
  IF p \in Searches THEN "look" ELSE IF p \in Removes THEN "take" ELSE "fetch"

LatestTold(new) ==
  new.at = "unpack" /\ new.commit \in Commits /\ UNCHANGED start_lock

Changed(p, new) ==
  /\ Search!ReadOld(p) =>
       /\ new.at = "queued" /\ new.after = call[p].after
       /\ new.commit = call[p].commit /\ new.back = call[p].back
  /\ Search!Enter(p) =>
       /\ new.at = FirstPlace(p)
       /\ p \in Removes /\ p \notin Searches => new.after = "delete"
       /\ new.commit = call[p].commit /\ new.back = call[p].back
  /\ Search!StartInstalled(p) =>
       new.at = "take" /\ new.after = "spawn" /\ new.back = call[p].back
  /\ Search!Latest(p) =>
       /\ new.back = call[p].back
       /\ new.at = "done" \/ LatestTold(new)
  /\ Search!StartNew(p) =>
       /\ new.at = "take" /\ new.after = "spawn"
       /\ new.commit = call[p].commit /\ new.back = call[p].back
  /\ Search!TimesOut(p) =>
       /\ IF p \in Searches THEN new.at = "done"
          ELSE new.at = "take" /\ new.after \in {"end", "discard"}
       /\ new.commit = call[p].commit /\ new.back = call[p].back
  /\ Search!Discard(p) =>
       IF call[p].was_running THEN new.at = "take" /\ new.after = "spawn" /\ new.back
       ELSE new.at = "done" /\ new.back = call[p].back
  /\ Search!Take(p) =>
       /\ new.at = IF search = None THEN call[p].after ELSE "unfile"
       /\ new.after = call[p].after
       /\ new.commit = call[p].commit /\ new.back = call[p].back

\* Changed is what those steps do.
LEMMA NewLocals ==
  ASSUME SearchTypes, NEW p \in Search!SearchCalls, NEW new \in Locals, Search!Becomes(p, new)
  PROVE  Changed(p, new)
<1>1. p \in SearchProcesses /\ p \notin Exits /\ call[p] \in Locals /\ call'[p] = new
  BY SearchConstants, Becoming DEF SearchTypes
<1>2. \A after \in {"spawn", "end", "discard", "delete"} :
        /\ Search!Stop(p, after) \in Locals
        /\ Search!Stop(p, after).at = "take" /\ Search!Stop(p, after).after = after
        /\ Search!Stop(p, after).commit = call[p].commit
        /\ Search!Stop(p, after).back = call[p].back
  BY <1>1, StopLocals DEF Afters
<1>3. ASSUME Search!ReadOld(p)
      PROVE  /\ new.at = "queued" /\ new.after = call[p].after
             /\ new.commit = call[p].commit /\ new.back = call[p].back
  <2> DEFINE read == [call[p] EXCEPT !.old = Search!Installed, !.at = "queued"]
  <2>1. /\ read \in Locals
        /\ read.at = "queued" /\ read.after = call[p].after
        /\ read.commit = call[p].commit /\ read.back = call[p].back
    BY <1>1, InstalledIsCommit DEF Locals, Places, SearchPlaces, Outside
  <2> HIDE DEF read
  <2>2. Search!Becomes(p, read)
    BY <1>3 DEF Search!ReadOld, read
  <2> QED
    BY <1>1, <2>1, <2>2, Becoming
<1>4. ASSUME Search!Enter(p)
      PROVE  /\ new.at = FirstPlace(p)
             /\ p \in Removes /\ p \notin Searches => new.after = "delete"
             /\ new.commit = call[p].commit /\ new.back = call[p].back
    <2>1. \A place \in {"look", "fetch"} :
          Search!Go(p, place) => /\ new.at = place
                                 /\ new.commit = call[p].commit /\ new.back = call[p].back
    BY <1>1, GoLocals
  <2>2. Search!Becomes(p, Search!Stop(p, "delete")) => new = Search!Stop(p, "delete")
    BY <1>1, <1>2, Becoming
  <2> QED
    BY <1>2, <1>4, <2>1, <2>2 DEF Search!Enter, Search!Go, FirstPlace
<1>5. ASSUME Search!StartInstalled(p)
      PROVE  new.at = "take" /\ new.after = "spawn" /\ new.back = call[p].back
    <2>1. [Search!Stop(p, "spawn") EXCEPT !.commit = Search!Installed] \in Locals
    BY <1>2, InstalledIsCommit DEF Locals
  <2>2. new = [Search!Stop(p, "spawn") EXCEPT !.commit = Search!Installed]
    BY <1>1, <1>5, <2>1, Becoming DEF Search!StartInstalled
  <2> QED
    BY <1>2, <2>2 DEF Locals
<1>6. ASSUME Search!Latest(p)
      PROVE  /\ new.back = call[p].back
             /\ new.at = "done" \/ LatestTold(new)
  <2>1. PICK c \in Commits :
          IF c = call[p].old THEN Search!Return(p)
          ELSE /\ Search!Becomes(p, [call[p] EXCEPT !.commit = c, !.at = "unpack"])
               /\ UNCHANGED start_lock
    BY <1>6 DEF Search!Latest
  <2> DEFINE latest == [call[p] EXCEPT !.commit = c, !.at = "unpack"]
  <2>2. /\ latest \in Locals
        /\ latest.at = "unpack" /\ latest.commit = c /\ latest.back = call[p].back
    BY <1>1 DEF Locals, CommitOrNone, Places, MakerPlaces
  <2>3. Search!Return(p) \/ (Search!Becomes(p, latest) /\ UNCHANGED start_lock)
    BY <2>1
  <2> HIDE DEF latest
  <2>4. CASE Search!Becomes(p, latest) /\ UNCHANGED start_lock
    BY <1>1, <2>2, <2>4, Becoming DEF LatestTold
  <2>5. CASE Search!Return(p)
    <3>1. call'[p].at = "done" /\ call'[p].back = call[p].back
      BY <1>1, <2>5, ReturnLocals
    <3> QED
      BY <1>1, <3>1
  <2> QED
    BY <2>3, <2>4, <2>5
<1>7. ASSUME Search!StartNew(p)
      PROVE  /\ new.at = "take" /\ new.after = "spawn"
             /\ new.commit = call[p].commit /\ new.back = call[p].back
    <2>1. [Search!Stop(p, "spawn") EXCEPT !.was_running = Search!Running] \in Locals
    BY <1>2 DEF Locals, Search!Running
  <2>2. new = [Search!Stop(p, "spawn") EXCEPT !.was_running = Search!Running]
    BY <1>1, <1>7, <2>1, Becoming DEF Search!StartNew
  <2> QED
    BY <1>2, <2>2 DEF Locals
<1>8. ASSUME Search!TimesOut(p)
      PROVE  /\ IF p \in Searches THEN new.at = "done"
                ELSE new.at = "take" /\ new.after \in {"end", "discard"}
             /\ new.commit = call[p].commit /\ new.back = call[p].back
    <2>1. \A after \in {"end", "discard"} :
          Search!Becomes(p, Search!Stop(p, after)) => new = Search!Stop(p, after)
    BY <1>1, <1>2, Becoming
  <2> QED
    BY <1>1, <1>2, <1>8, <2>1, ReturnLocals DEF Search!TimesOut
<1>9. ASSUME Search!Discard(p)
      PROVE  IF call[p].was_running THEN new.at = "take" /\ new.after = "spawn" /\ new.back
             ELSE new.at = "done" /\ new.back = call[p].back
  <2> DEFINE again == [Search!Stop(p, "spawn") EXCEPT !.commit = call[p].old, !.back = TRUE]
  <2>1. /\ again \in Locals
        /\ again.at = "take" /\ again.after = "spawn" /\ again.back
    BY <1>1, <1>2 DEF Locals
  <2> HIDE DEF again
  <2>2. CASE call[p].was_running
    <3>1. Search!Becomes(p, again)
      BY <1>9, <2>2 DEF Search!Discard, again
    <3> QED
      BY <1>1, <2>1, <2>2, <3>1, Becoming
  <2>3. CASE ~call[p].was_running
    <3>1. Search!Return(p)
      BY <1>9, <2>3 DEF Search!Discard
    <3> QED
      BY <1>1, <2>3, <3>1, ReturnLocals
  <2> QED
    BY <2>2, <2>3
<1>10. ASSUME Search!Take(p)
       PROVE  /\ new.at = IF search = None THEN call[p].after ELSE "unfile"
              /\ new.after = call[p].after
              /\ new.commit = call[p].commit /\ new.back = call[p].back
  <2> DEFINE emptied == [call[p] EXCEPT !.at = "unfile", !.after = call[p].after]
  <2>1. /\ emptied \in Locals
        /\ emptied.at = "unfile" /\ emptied.after = call[p].after
        /\ emptied.commit = call[p].commit /\ emptied.back = call[p].back
    BY <1>1 DEF Locals, Places, SearchPlaces, StopPlaces
  <2> HIDE DEF emptied
  <2>2. CASE search = None
    <3>1. Search!Go(p, call[p].after)
      BY <1>1, <1>10, <2>2 DEF Search!Take
    <3> QED
      BY <1>1, <2>2, <3>1, GoLocals
  <2>3. CASE search # None
    <3>1. Search!Becomes(p, emptied)
      BY <1>1, <1>10, <2>3 DEF Search!Take, emptied
    <3> QED
      BY <1>1, <2>1, <2>3, <3>1, Becoming
  <2> QED
    BY <2>2, <2>3
<1> QED
  BY <1>3, <1>4, <1>5, <1>6, <1>7, <1>8, <1>9, <1>10
  DEF Changed
\* Each step of a call keeps SearchLock: who enters finds start_lock free, and
\* who leaves was its holder.
LEMMA SearchLockStep ==
  ASSUME SearchInv, NEW p \in Search!SearchCalls, Search!CallStep(p)
  PROVE  SearchLock'
<1> USE ServersAssumption DEF SearchInv, SearchProcesses, Makers,
                              Search!SearchAssumption, Search!SearchCalls,
                              Search!server, Search!disk, Search!history
<1>1. PICK new \in Locals : Search!Becomes(p, new)
  BY StepBecomes
<1>2. /\ call'[p] = new
      /\ \A q \in SearchProcesses \ {p} : call'[q] = call[q]
      /\ Search!Becomes(p, new) /\ call[p] \in Locals
  BY <1>1, Becoming, SearchConstants DEF SearchTypes
<1>3. Changed(p, new)
  BY <1>1, NewLocals
<1> USE DEF Locals, SearchTypes, Search!At, Search!LockFree, SearchLock, Outside
<1>4. CASE Search!ReadOld(p)
  BY <1>2, <1>3, <1>4, SearchConstants DEF Changed, Search!ReadOld
<1>5. CASE Search!Enter(p)
  BY <1>2, <1>3, <1>5, SearchConstants DEF Changed, FirstPlace, Search!Enter
<1>6. CASE Search!StartInstalled(p)
  BY <1>2, <1>3, <1>6, SearchConstants DEF Changed, Search!StartInstalled
<1>7. CASE Search!Latest(p)
  <2>1. /\ new.back = call[p].back
        /\ new.at = "done" \/ LatestTold(new)
    BY <1>3, <1>7 DEF Changed
  <2> QED
    BY <1>2, <1>7, <2>1, SearchConstants DEF Search!Latest, LatestTold
<1>8. CASE Search!StartNew(p)
  BY <1>2, <1>3, <1>8, SearchConstants DEF Changed, Search!StartNew
<1>9. CASE Search!TimesOut(p)
  BY <1>2, <1>3, <1>9, SearchConstants DEF Changed, Search!TimesOut
<1>10. CASE Search!Discard(p)
  BY <1>2, <1>3, <1>10, SearchConstants DEF Changed, Search!Discard
<1>11. CASE Search!Take(p)
  BY <1>2, <1>3, <1>11, SearchConstants DEF Changed, Search!Take
<1>12. CASE \/ Search!Serves(p) \/ Search!WaitAgain(p) \/ Search!NotSetUp(p)
            \/ Search!Dropped(p)
  BY <1>2, <1>12
  DEF Search!Serves, Search!WaitAgain, Search!NotSetUp, Search!Dropped, Search!Becomes,
      Search!Go, Search!Return
<1>13. CASE \/ Search!FetchFails(p) \/ Search!Unpack(p) \/ Search!MakeVenv(p)
            \/ Search!Libraries(p) \/ Search!BuildFails(p)
  BY <1>2, <1>13
  DEF Search!FetchFails, Search!Unpack, Search!MakeVenv, Search!Libraries,
      Search!BuildFails, Search!Becomes, Search!Go, Search!Return
<1>14. CASE \/ Search!SpawnFails(p) \/ Search!Spawn(p) \/ Search!WritePid(p)
            \/ Search!Store(p)
  BY <1>2, <1>14
  DEF Search!SpawnFails, Search!Spawn, Search!WritePid, Search!Store, Search!Becomes,
      Search!Go, Search!Return
<1>15. CASE \/ Search!Answers(p) \/ Search!End(p) \/ Search!Truncate(p)
            \/ Search!Write(p) \/ Search!WriteFails(p) \/ Search!Clean(p)
  BY <1>2, <1>15
  DEF Search!Answers, Search!End, Search!Truncate, Search!Write, Search!WriteFails,
      Search!Clean, Search!Becomes, Search!Go, Search!Return
<1>16. CASE Search!DeleteSome(p) \/ Search!DeleteRest(p) \/ Search!DeleteFails(p)
  BY <1>2, <1>16
  DEF Search!DeleteSome, Search!DeleteRest, Search!DeleteFails, Search!Becomes,
      Search!Go, Search!Return
<1>17. CASE Search!Unfile(p)
  BY <1>2, <1>17 DEF Search!Unfile, Search!Becomes, Search!Go, Search!Return
<1> QED
  BY <1>4, <1>5, <1>6, <1>7, <1>8, <1>9, <1>10, <1>11, <1>12, <1>13, <1>14, <1>15,
     <1>16, <1>17
  DEF Search!CallStep, Search!SearchStep, Search!BuildStep, Search!StartStep,
      Search!WaitStep, Search!RemoveStep, Search!StopStep

\* ... PlaceInv: each step leads from places of a kind of call to such places.
LEMMA PlaceStep ==
  ASSUME SearchInv, NEW p \in Search!SearchCalls, Search!CallStep(p)
  PROVE  PlaceInv'
<1> USE ServersAssumption DEF SearchInv, SearchProcesses, Makers,
                              Search!SearchAssumption, Search!SearchCalls,
                              Search!server, Search!disk, Search!history
<1>1. PICK new \in Locals : Search!Becomes(p, new)
  BY StepBecomes
<1>2. /\ call'[p] = new
      /\ \A q \in SearchProcesses \ {p} : call'[q] = call[q]
      /\ Search!Becomes(p, new) /\ call[p] \in Locals
  BY <1>1, Becoming, SearchConstants DEF SearchTypes
<1>3. Changed(p, new)
  BY <1>1, NewLocals
<1> USE DEF Locals, SearchTypes, Search!At, PlaceInv, Outside, StopPlaces, StartPlaces,
            SearchPlaces, RemovePlaces, MakerPlaces, ExitPlaces
<1>4. CASE Search!ReadOld(p)
  BY <1>2, <1>3, <1>4, SearchConstants DEF Changed, Search!ReadOld
<1>5. CASE Search!Enter(p)
  BY <1>2, <1>3, <1>5, SearchConstants DEF Changed, FirstPlace, Search!Enter
<1>6. CASE Search!StartInstalled(p)
  BY <1>2, <1>3, <1>6, SearchConstants DEF Changed, Search!StartInstalled
<1>7. CASE Search!Latest(p)
  <2>1. /\ new.back = call[p].back
        /\ new.at = "done" \/ LatestTold(new)
    BY <1>3, <1>7 DEF Changed
  <2> QED
    BY <1>2, <1>7, <2>1, SearchConstants DEF Search!Latest, LatestTold
<1>8. CASE Search!StartNew(p)
  BY <1>2, <1>3, <1>8, SearchConstants DEF Changed, Search!StartNew
<1>9. CASE Search!TimesOut(p)
  BY <1>2, <1>3, <1>9, SearchConstants DEF Changed, Search!TimesOut
<1>10. CASE Search!Discard(p)
  BY <1>2, <1>3, <1>10, SearchConstants DEF Changed, Search!Discard
<1>11. CASE Search!Take(p)
  BY <1>2, <1>3, <1>11, SearchConstants DEF Changed, Search!Take
<1>12. CASE \/ Search!Serves(p) \/ Search!WaitAgain(p) \/ Search!NotSetUp(p)
            \/ Search!Dropped(p)
  BY <1>2, <1>12
  DEF Search!Serves, Search!WaitAgain, Search!NotSetUp, Search!Dropped, Search!Becomes,
      Search!Go, Search!Return
<1>13. CASE \/ Search!FetchFails(p) \/ Search!Unpack(p) \/ Search!MakeVenv(p)
            \/ Search!Libraries(p) \/ Search!BuildFails(p)
  BY <1>2, <1>13
  DEF Search!FetchFails, Search!Unpack, Search!MakeVenv, Search!Libraries,
      Search!BuildFails, Search!Becomes, Search!Go, Search!Return
<1>14. CASE \/ Search!SpawnFails(p) \/ Search!Spawn(p) \/ Search!WritePid(p)
            \/ Search!Store(p)
  BY <1>2, <1>14
  DEF Search!SpawnFails, Search!Spawn, Search!WritePid, Search!Store, Search!Becomes,
      Search!Go, Search!Return
<1>15. CASE \/ Search!Answers(p) \/ Search!End(p) \/ Search!Truncate(p)
            \/ Search!Write(p) \/ Search!WriteFails(p) \/ Search!Clean(p)
  BY <1>2, <1>15
  DEF Search!Answers, Search!End, Search!Truncate, Search!Write, Search!WriteFails,
      Search!Clean, Search!Becomes, Search!Go, Search!Return
<1>16. CASE Search!DeleteSome(p) \/ Search!DeleteRest(p) \/ Search!DeleteFails(p)
  BY <1>2, <1>16
  DEF Search!DeleteSome, Search!DeleteRest, Search!DeleteFails, Search!Becomes,
      Search!Go, Search!Return
<1>17. CASE Search!Unfile(p)
  BY <1>2, <1>17 DEF Search!Unfile, Search!Becomes, Search!Go, Search!Return
<1> QED
  BY <1>4, <1>5, <1>6, <1>7, <1>8, <1>9, <1>10, <1>11, <1>12, <1>13, <1>14, <1>15,
     <1>16, <1>17
  DEF Search!CallStep, Search!SearchStep, Search!BuildStep, Search!StartStep,
      Search!WaitStep, Search!RemoveStep, Search!StopStep

\* ... SearchStopped: what was stored is killed before the pid file goes, and a
\* server is stored only by the call that spawned it, in which no stop() can be.
LEMMA SearchStoppedStep ==
  ASSUME SearchInv, NEW p \in Search!SearchCalls, Search!CallStep(p)
  PROVE  SearchStopped'
<1> USE ServersAssumption DEF SearchInv, SearchProcesses, Makers,
                              Search!SearchAssumption, Search!SearchCalls,
                              Search!server, Search!disk, Search!history
<1>1. PICK new \in Locals : Search!Becomes(p, new)
  BY StepBecomes
<1>2. /\ call'[p] = new
      /\ \A q \in SearchProcesses \ {p} : call'[q] = call[q]
      /\ Search!Becomes(p, new) /\ call[p] \in Locals
  BY <1>1, Becoming, SearchConstants DEF SearchTypes
<1>3. Changed(p, new)
  BY <1>1, NewLocals
<1> USE DEF Locals, SearchTypes, Search!At, SearchLock, Outside, PlaceInv, StopPlaces,
            StartPlaces, SearchPlaces, RemovePlaces, MakerPlaces, SearchStopped,
            Search!SearchServerFound, Search!Starting, Search!Running, Search!Unlocked,
            Search!Status, Search!Kill, Search!Server
<1>4. CASE Search!ReadOld(p)
  BY <1>2, <1>3, <1>4, SearchConstants DEF Changed, Search!ReadOld
<1>5. CASE Search!Enter(p)
  BY <1>2, <1>3, <1>5, SearchConstants DEF Changed, FirstPlace, Search!Enter
<1>6. CASE Search!StartInstalled(p)
  BY <1>2, <1>3, <1>6, SearchConstants DEF Changed, Search!StartInstalled
<1>7. CASE Search!Latest(p)
  <2>1. /\ new.back = call[p].back
        /\ new.at = "done" \/ LatestTold(new)
    BY <1>3, <1>7 DEF Changed
  <2> QED
    BY <1>2, <1>7, <2>1, SearchConstants DEF Search!Latest, LatestTold
<1>8. CASE Search!StartNew(p)
  BY <1>2, <1>3, <1>8, SearchConstants DEF Changed, Search!StartNew
<1>9. CASE Search!TimesOut(p)
  BY <1>2, <1>3, <1>9, SearchConstants DEF Changed, Search!TimesOut
<1>10. CASE Search!Discard(p)
  BY <1>2, <1>3, <1>10, SearchConstants DEF Changed, Search!Discard
<1>11. CASE Search!Take(p)
  BY <1>2, <1>3, <1>11, SearchConstants DEF Changed, Search!Take
<1>12. CASE \/ Search!Serves(p) \/ Search!WaitAgain(p) \/ Search!NotSetUp(p)
            \/ Search!Dropped(p)
  BY <1>2, <1>12
  DEF Search!Serves, Search!WaitAgain, Search!NotSetUp, Search!Dropped, Search!Becomes,
      Search!Go, Search!Return
<1>13. CASE \/ Search!FetchFails(p) \/ Search!Unpack(p) \/ Search!MakeVenv(p)
            \/ Search!Libraries(p) \/ Search!BuildFails(p)
  BY <1>2, <1>13
  DEF Search!FetchFails, Search!Unpack, Search!MakeVenv, Search!Libraries,
      Search!BuildFails, Search!Becomes, Search!Go, Search!Return
<1>14. CASE Search!Store(p)
  <2>1. new.at \in {"wait", "done"}
    BY <1>2, <1>14, GoLocals, SearchConstants DEF Search!Store, Search!Return
  <2>2. \A q \in Search!SearchCalls \ {p} : call[q].at \in Outside
    BY <1>14 DEF Search!Store
  <2>3. \A e \in Exits : call[e].at \in {"ready", "exit", "done"}
    BY <1>2, <1>14, SearchConstants DEF Search!Store, ExitPlaces
  <2> QED
    BY <1>2, <2>1, <2>2, <2>3
<1>15. CASE Search!SpawnFails(p) \/ Search!Spawn(p) \/ Search!WritePid(p)
  BY <1>2, <1>15
  DEF Search!SpawnFails, Search!Spawn, Search!WritePid, Search!Becomes, Search!Go,
      Search!Return
<1>16. CASE \/ Search!Answers(p) \/ Search!End(p) \/ Search!Truncate(p)
            \/ Search!Write(p) \/ Search!WriteFails(p) \/ Search!Clean(p)
  BY <1>2, <1>16
  DEF Search!Answers, Search!End, Search!Truncate, Search!Write, Search!WriteFails,
      Search!Clean, Search!Becomes, Search!Go, Search!Return
<1>17. CASE Search!DeleteSome(p) \/ Search!DeleteRest(p) \/ Search!DeleteFails(p)
  BY <1>2, <1>17
  DEF Search!DeleteSome, Search!DeleteRest, Search!DeleteFails, Search!Becomes,
      Search!Go, Search!Return
<1>18. CASE Search!Unfile(p)
  BY <1>2, <1>18 DEF Search!Unfile, Search!Becomes, Search!Go, Search!Return
<1> QED
  BY <1>4, <1>5, <1>6, <1>7, <1>8, <1>9, <1>10, <1>11, <1>12, <1>13, <1>14, <1>15,
     <1>16, <1>17, <1>18
  DEF Search!CallStep, Search!SearchStep, Search!BuildStep, Search!StartStep,
      Search!WaitStep, Search!RemoveStep, Search!StopStep

\* ... BuildInv: the one step that cuts a folder a set-up or update counts on is its
\* own, since nobody else has the lock.
LEMMA BuildStep ==
  ASSUME SearchInv, NEW p \in Search!SearchCalls, Search!CallStep(p)
  PROVE  BuildInv'
<1> USE ServersAssumption DEF SearchInv, SearchProcesses, Makers,
                              Search!SearchAssumption, Search!SearchCalls,
                              Search!server, Search!disk, Search!history
<1>1. PICK new \in Locals : Search!Becomes(p, new)
  BY StepBecomes
<1>2. /\ call'[p] = new
      /\ \A q \in SearchProcesses \ {p} : call'[q] = call[q]
      /\ Search!Becomes(p, new) /\ call[p] \in Locals
  BY <1>1, Becoming, SearchConstants DEF SearchTypes
<1>3. Changed(p, new)
  BY <1>1, NewLocals
<1> USE DEF Locals, SearchTypes, Search!At, SearchLock, Outside, PlaceInv, StopPlaces,
            StartPlaces, SearchPlaces, RemovePlaces, MakerPlaces, BuildInv,
            MakingPlaces, WholePlaces, Search!Failed, Search!Kept
<1>4. CASE Search!ReadOld(p)
  BY <1>2, <1>3, <1>4, SearchConstants DEF Changed, Search!ReadOld
<1>5. CASE Search!Enter(p)
  BY <1>2, <1>3, <1>5, SearchConstants DEF Changed, FirstPlace, Search!Enter
<1>6. CASE Search!StartInstalled(p)
  BY <1>2, <1>3, <1>6, SearchConstants DEF Changed, Search!StartInstalled
<1>7. CASE Search!Latest(p)
  <2>1. /\ new.back = call[p].back
        /\ new.at = "done" \/ LatestTold(new)
    BY <1>3, <1>7 DEF Changed
  <2> QED
    BY <1>2, <1>7, <2>1, SearchConstants DEF Search!Latest, LatestTold
<1>8. CASE Search!StartNew(p)
  BY <1>2, <1>3, <1>8, SearchConstants DEF Changed, Search!StartNew
<1>9. CASE Search!TimesOut(p)
  BY <1>2, <1>3, <1>9, SearchConstants DEF Changed, Search!TimesOut
<1>10. CASE Search!Discard(p)
  BY <1>2, <1>3, <1>10, SearchConstants DEF Changed, Search!Discard
<1>11. CASE Search!Take(p)
  BY <1>2, <1>3, <1>11, SearchConstants DEF Changed, Search!Take
<1>12. CASE \/ Search!Serves(p) \/ Search!WaitAgain(p) \/ Search!NotSetUp(p)
            \/ Search!Dropped(p)
  BY <1>2, <1>12
  DEF Search!Serves, Search!WaitAgain, Search!NotSetUp, Search!Dropped, Search!Becomes,
      Search!Go, Search!Return
<1>13. CASE Search!Unpack(p)
  <2>1. p \in Makers /\ ~call[p].back /\ call[p].commit \in Commits
    BY <1>13 DEF Search!Unpack
  <2>2. /\ new.at = "venv" /\ new.commit = call[p].commit /\ new.back = call[p].back
    BY <1>2, <1>13, GoLocals, SearchConstants DEF Search!Unpack
  <2>3. \A q \in Makers \ {p} : call[q].at \in Outside
    BY <1>13 DEF Search!Unpack
  <2>4. /\ folder'[call[p].commit] = "source"
        /\ \A c \in Commits \ {call[p].commit} : folder'[c] = folder[c]
    <3>1. /\ folder' = [folder EXCEPT ![call[p].commit] = "source"]
          /\ folder \in [Commits -> {"none", "source", "venv", "whole"}]
      BY <1>13 DEF Search!Unpack
    <3> QED
      BY <2>1, <3>1
  <2>5. installed_json' = installed_json /\ (torn \/ call[p].commit = installed_json => torn')
    BY <1>13 DEF Search!Unpack
  <2> QED
    BY <1>2, <2>1, <2>2, <2>3, <2>4, <2>5, SearchConstants DEF CommitOrNone
<1>14. CASE \/ Search!FetchFails(p) \/ Search!MakeVenv(p) \/ Search!Libraries(p)
            \/ Search!BuildFails(p)
  BY <1>2, <1>14
  DEF Search!FetchFails, Search!MakeVenv, Search!Libraries, Search!BuildFails,
      Search!Becomes, Search!Go, Search!Return
<1>15. CASE \/ Search!SpawnFails(p) \/ Search!Spawn(p) \/ Search!WritePid(p)
            \/ Search!Store(p)
  BY <1>2, <1>15
  DEF Search!SpawnFails, Search!Spawn, Search!WritePid, Search!Store, Search!Becomes,
      Search!Go, Search!Return
<1>16. CASE \/ Search!Answers(p) \/ Search!End(p) \/ Search!Truncate(p)
            \/ Search!Write(p) \/ Search!WriteFails(p) \/ Search!Clean(p)
  BY <1>2, <1>16
  DEF Search!Answers, Search!End, Search!Truncate, Search!Write, Search!WriteFails,
      Search!Clean, Search!Becomes, Search!Go, Search!Return
<1>17. CASE Search!DeleteSome(p) \/ Search!DeleteRest(p) \/ Search!DeleteFails(p)
  BY <1>2, <1>17
  DEF Search!DeleteSome, Search!DeleteRest, Search!DeleteFails, Search!Becomes,
      Search!Go, Search!Return
<1>18. CASE Search!Unfile(p)
  BY <1>2, <1>18 DEF Search!Unfile, Search!Becomes, Search!Go, Search!Return
<1> QED
  BY <1>4, <1>5, <1>6, <1>7, <1>8, <1>9, <1>10, <1>11, <1>12, <1>13, <1>14, <1>15,
     <1>16, <1>17, <1>18
  DEF Search!CallStep, Search!SearchStep, Search!BuildStep, Search!StartStep,
      Search!WaitStep, Search!RemoveStep, Search!StopStep

\* ... InstalledRuns: installed.json is written by a call whose folder is whole.
LEMMA InstalledRunsStep ==
  ASSUME SearchInv, NEW p \in Search!SearchCalls, Search!CallStep(p)
  PROVE  Search!InstalledRuns'
<1> USE ServersAssumption DEF SearchInv, SearchProcesses, Makers,
                              Search!SearchAssumption, Search!SearchCalls,
                              Search!server, Search!disk, Search!history
<1>1. PICK new \in Locals : Search!Becomes(p, new)
  BY StepBecomes
<1>2. /\ call'[p] = new
      /\ \A q \in SearchProcesses \ {p} : call'[q] = call[q]
      /\ Search!Becomes(p, new) /\ call[p] \in Locals
  BY <1>1, Becoming, SearchConstants DEF SearchTypes
<1>3. Changed(p, new)
  BY <1>1, NewLocals
<1> USE DEF Locals, SearchTypes, Search!At, BuildInv, SearchLock, PlaceInv,Outside,
            StopPlaces, StartPlaces, SearchPlaces, RemovePlaces, MakerPlaces,
            MakingPlaces, WholePlaces, Search!InstalledRuns, Search!Failed, Search!Kept
<1>4. CASE Search!ReadOld(p)
  BY <1>2, <1>3, <1>4, SearchConstants DEF Changed, Search!ReadOld
<1>5. CASE Search!Enter(p)
  BY <1>2, <1>3, <1>5, SearchConstants DEF Changed, FirstPlace, Search!Enter
<1>6. CASE Search!StartInstalled(p)
  BY <1>2, <1>3, <1>6, SearchConstants DEF Changed, Search!StartInstalled
<1>7. CASE Search!Latest(p)
  <2>1. /\ new.back = call[p].back
        /\ new.at = "done" \/ LatestTold(new)
    BY <1>3, <1>7 DEF Changed
  <2> QED
    BY <1>2, <1>7, <2>1, SearchConstants DEF Search!Latest, LatestTold
<1>8. CASE Search!StartNew(p)
  BY <1>2, <1>3, <1>8, SearchConstants DEF Changed, Search!StartNew
<1>9. CASE Search!TimesOut(p)
  BY <1>2, <1>3, <1>9, SearchConstants DEF Changed, Search!TimesOut
<1>10. CASE Search!Discard(p)
  BY <1>2, <1>3, <1>10, SearchConstants DEF Changed, Search!Discard
<1>11. CASE Search!Take(p)
  BY <1>2, <1>3, <1>11, SearchConstants DEF Changed, Search!Take
<1>12. CASE \/ Search!Serves(p) \/ Search!WaitAgain(p) \/ Search!NotSetUp(p)
            \/ Search!Dropped(p)
  BY <1>2, <1>12
  DEF Search!Serves, Search!WaitAgain, Search!NotSetUp, Search!Dropped, Search!Becomes,
      Search!Go, Search!Return
<1>13. CASE Search!Unpack(p)
  <2>1. p \in Makers /\ ~call[p].back /\ call[p].commit \in Commits
    BY <1>13 DEF Search!Unpack
  <2>2. /\ new.at = "venv" /\ new.commit = call[p].commit /\ new.back = call[p].back
    BY <1>2, <1>13, GoLocals, SearchConstants DEF Search!Unpack
  <2>3. \A q \in Makers \ {p} : call[q].at \in Outside
    BY <1>13 DEF Search!Unpack
  <2>4. /\ folder'[call[p].commit] = "source"
        /\ \A c \in Commits \ {call[p].commit} : folder'[c] = folder[c]
    <3>1. /\ folder' = [folder EXCEPT ![call[p].commit] = "source"]
          /\ folder \in [Commits -> {"none", "source", "venv", "whole"}]
      BY <1>13 DEF Search!Unpack
    <3> QED
      BY <2>1, <3>1
  <2>5. installed_json' = installed_json /\ (torn \/ call[p].commit = installed_json => torn')
    BY <1>13 DEF Search!Unpack
  <2> QED
    BY <1>2, <2>1, <2>2, <2>3, <2>4, <2>5, SearchConstants DEF CommitOrNone
<1>14. CASE Search!FetchFails(p)
  BY <1>2, <1>14 DEF Search!FetchFails, Search!Becomes, Search!Go, Search!Return
<1>15. CASE Search!MakeVenv(p)
  BY <1>2, <1>15 DEF Search!MakeVenv, Search!Becomes, Search!Go, Search!Return
<1>16. CASE Search!Libraries(p)
  BY <1>2, <1>16 DEF Search!Libraries, Search!Becomes, Search!Go, Search!Return
<1>17. CASE Search!BuildFails(p)
  BY <1>2, <1>17 DEF Search!BuildFails, Search!Becomes, Search!Go, Search!Return
<1>18. CASE \/ Search!SpawnFails(p) \/ Search!Spawn(p) \/ Search!WritePid(p)
            \/ Search!Store(p)
  BY <1>2, <1>18
  DEF Search!SpawnFails, Search!Spawn, Search!WritePid, Search!Store, Search!Becomes,
      Search!Go, Search!Return
<1>19. CASE \/ Search!Answers(p) \/ Search!End(p) \/ Search!Truncate(p)
            \/ Search!Write(p) \/ Search!WriteFails(p) \/ Search!Clean(p)
  BY <1>2, <1>19
  DEF Search!Answers, Search!End, Search!Truncate, Search!Write, Search!WriteFails,
      Search!Clean, Search!Becomes, Search!Go, Search!Return
<1>20. CASE Search!DeleteSome(p) \/ Search!DeleteRest(p) \/ Search!DeleteFails(p)
  BY <1>2, <1>20
  DEF Search!DeleteSome, Search!DeleteRest, Search!DeleteFails, Search!Becomes,
      Search!Go, Search!Return
<1>21. CASE Search!Unfile(p)
  BY <1>2, <1>21 DEF Search!Unfile, Search!Becomes, Search!Go, Search!Return
<1> QED
  BY <1>4, <1>5, <1>6, <1>7, <1>8, <1>9, <1>10, <1>11, <1>12, <1>13, <1>14, <1>15,
     <1>16, <1>17, <1>18, <1>19, <1>20, <1>21
  DEF Search!CallStep, Search!SearchStep, Search!BuildStep, Search!StartStep,
      Search!WaitStep, Search!RemoveStep, Search!StopStep

\* ... SearchServerFound: a server is spawned when there is no other one, and its
\* id is written before it is stored.
LEMMA ServerFoundStep ==
  ASSUME SearchInv, NEW p \in Search!SearchCalls, Search!CallStep(p)
  PROVE  Search!SearchServerFound'
<1> USE ServersAssumption DEF SearchInv, SearchProcesses, Makers,
                              Search!SearchAssumption, Search!SearchCalls,
                              Search!server, Search!disk, Search!history
<1>1. PICK new \in Locals : Search!Becomes(p, new)
  BY StepBecomes
<1>2. /\ call'[p] = new
      /\ \A q \in SearchProcesses \ {p} : call'[q] = call[q]
      /\ Search!Becomes(p, new) /\ call[p] \in Locals
  BY <1>1, Becoming, SearchConstants DEF SearchTypes
<1>3. Changed(p, new)
  BY <1>1, NewLocals
<1> USE DEF Locals, SearchTypes, Search!At, SearchStopped, SearchLock, PlaceInv,
            Outside, SearchPlaces, RemovePlaces, MakerPlaces, StopPlaces, StartPlaces,
            Search!SearchServerFound, Search!Starting, Search!Running, Search!Unlocked,
            Search!Status, Search!Kill, Search!Server
<1>4. CASE Search!ReadOld(p)
  BY <1>2, <1>3, <1>4, SearchConstants DEF Changed, Search!ReadOld
<1>5. CASE Search!Enter(p)
  BY <1>2, <1>3, <1>5, SearchConstants DEF Changed, FirstPlace, Search!Enter
<1>6. CASE Search!StartInstalled(p)
  BY <1>2, <1>3, <1>6, SearchConstants DEF Changed, Search!StartInstalled
<1>7. CASE Search!Latest(p)
  <2>1. /\ new.back = call[p].back
        /\ new.at = "done" \/ LatestTold(new)
    BY <1>3, <1>7 DEF Changed
  <2> QED
    BY <1>2, <1>7, <2>1, SearchConstants DEF Search!Latest, LatestTold
<1>8. CASE Search!StartNew(p)
  BY <1>2, <1>3, <1>8, SearchConstants DEF Changed, Search!StartNew
<1>9. CASE Search!TimesOut(p)
  BY <1>2, <1>3, <1>9, SearchConstants DEF Changed, Search!TimesOut
<1>10. CASE Search!Discard(p)
  BY <1>2, <1>3, <1>10, SearchConstants DEF Changed, Search!Discard
<1>11. CASE Search!Take(p)
  BY <1>2, <1>3, <1>11, SearchConstants DEF Changed, Search!Take
<1>12. CASE \/ Search!Serves(p) \/ Search!WaitAgain(p) \/ Search!NotSetUp(p)
            \/ Search!Dropped(p)
  BY <1>2, <1>12
  DEF Search!Serves, Search!WaitAgain, Search!NotSetUp, Search!Dropped, Search!Becomes,
      Search!Go, Search!Return
<1>13. CASE \/ Search!FetchFails(p) \/ Search!Unpack(p) \/ Search!MakeVenv(p)
            \/ Search!Libraries(p) \/ Search!BuildFails(p)
  BY <1>2, <1>13
  DEF Search!FetchFails, Search!Unpack, Search!MakeVenv, Search!Libraries,
      Search!BuildFails, Search!Becomes, Search!Go, Search!Return
<1>14. CASE Search!Store(p)
  <2>1. \A x \in searxngs \ orphans : Search!Server(p) = x /\ search_pid = x
    BY <1>2, <1>14 DEF Search!Store
  <2>2. search' # None /\ search'.server = Search!Server(p)
    <3>1. Search!Server(p) \in Search!SearchCalls \X CommitOrNone
      BY <1>2 DEF Search!Server
    <3> DEFINE stored == [server |-> Search!Server(p), ready |-> FALSE]
    <3>2. stored \in Servers /\ stored.server = Search!Server(p)
      BY <3>1, StoredServers
    <3>3. search' = stored
      BY <1>14 DEF Search!Store
    <3> HIDE DEF stored
    <3> QED
      BY <3>2, <3>3, SearchConstants
  <2> QED
    BY <1>14, <2>1, <2>2 DEF Search!Store
<1>15. CASE Search!SpawnFails(p) \/ Search!Spawn(p) \/ Search!WritePid(p)
  BY <1>2, <1>15
  DEF Search!SpawnFails, Search!Spawn, Search!WritePid, Search!Becomes, Search!Go,
      Search!Return
<1>16. CASE Search!Answers(p)
  <2>1. search # None /\ search' # None /\ search'.server = search.server
    <3> DEFINE readied == [search EXCEPT !.ready = TRUE]
    <3>1. search \in Servers
      BY <1>16 DEF Search!Answers
    <3>2. readied \in Servers /\ readied.server = search.server
      BY <3>1, StoredServers
    <3>3. search' = search \/ search' = readied
      BY <1>16, Zenon DEF Search!Answers
    <3> HIDE DEF readied
    <3> QED
      BY <3>1, <3>2, <3>3, SearchConstants
  <2>2. \A q \in SearchProcesses :
          call'[q].at \in {"file", "store"} <=> call[q].at \in {"file", "store"}
    BY <1>2, <1>16 DEF Search!Answers, Search!Becomes, Search!Go, Search!Return
  <2>3. UNCHANGED <<searxngs, orphans, search_pid, app>>
    BY <1>16 DEF Search!Answers
  <2>4. \A q \in Search!SearchCalls : call[q].at \notin {"file", "store"}
    BY <1>2, <1>16 DEF Search!Answers
  <2> QED
    BY <2>1, <2>2, <2>3, <2>4
<1>17. CASE \/ Search!End(p) \/ Search!Truncate(p) \/ Search!Write(p)
            \/ Search!WriteFails(p) \/ Search!Clean(p)
  BY <1>2, <1>17
  DEF Search!End, Search!Truncate, Search!Write, Search!WriteFails, Search!Clean,
      Search!Becomes, Search!Go, Search!Return
<1>18. CASE Search!DeleteSome(p) \/ Search!DeleteRest(p) \/ Search!DeleteFails(p)
  BY <1>2, <1>18
  DEF Search!DeleteSome, Search!DeleteRest, Search!DeleteFails, Search!Becomes,
      Search!Go, Search!Return
<1>19. CASE Search!Unfile(p)
  BY <1>2, <1>19 DEF Search!Unfile, Search!Becomes, Search!Go, Search!Return
<1> QED
  BY <1>4, <1>5, <1>6, <1>7, <1>8, <1>9, <1>10, <1>11, <1>12, <1>13, <1>14, <1>15,
     <1>16, <1>17, <1>18, <1>19
  DEF Search!CallStep, Search!SearchStep, Search!BuildStep, Search!StartStep,
      Search!WaitStep, Search!RemoveStep, Search!StopStep

\* The other variables of a call's step keep their shape.
LEMMA SearchTypesStep ==
  ASSUME SearchInv, NEW p \in Search!SearchCalls, Search!CallStep(p)
  PROVE  SearchTypes'
<1>1. SearchTypes /\ PlaceInv /\ call[p] \in Locals /\ p \in SearchProcesses
  BY SearchConstants DEF SearchInv, SearchTypes
<1>2. call' \in [SearchProcesses -> Locals]
  BY <1>1, StepBecomes, Becoming
<1>3. search' \in Servers \cup {None}
  <2>1. CASE Search!Store(p)
    <3>1. Search!Server(p) \in Search!SearchCalls \X CommitOrNone
      BY <1>1 DEF Search!Server, Locals
    <3> QED
      BY <2>1, <3>1, StoredServers DEF Search!Store
  <2>2. CASE Search!Answers(p)
    <3> DEFINE readied == [search EXCEPT !.ready = TRUE]
    <3>1. search \in Servers
      BY <1>1, <2>2 DEF Search!Answers, Search!Running, SearchTypes
    <3>2. readied \in Servers
      BY <3>1, StoredServers
    <3>3. search' = search \/ search' = readied
      BY <2>2, Zenon DEF Search!Answers
    <3> HIDE DEF readied
    <3> QED
      BY <3>1, <3>2, <3>3
  <2>3. CASE search' \in {search, None}
    BY <1>1, <2>3 DEF SearchTypes
  <2> QED
    BY <2>1, <2>2, <2>3
    DEF Search!CallStep, Search!SearchStep, Search!BuildStep, Search!StartStep,
        Search!WaitStep, Search!RemoveStep, Search!StopStep, Search!server, Search!ReadOld,
        Search!Enter, Search!Serves, Search!WaitAgain, Search!NotSetUp,
        Search!StartInstalled, Search!Dropped, Search!Latest, Search!FetchFails,
        Search!Unpack, Search!MakeVenv, Search!Libraries, Search!BuildFails,
        Search!StartNew, Search!SpawnFails, Search!Spawn, Search!WritePid,
        Search!TimesOut, Search!End, Search!Discard, Search!Truncate, Search!Write,
        Search!WriteFails, Search!Clean, Search!DeleteSome, Search!DeleteRest,
        Search!DeleteFails, Search!Take, Search!Unfile, Search!Status
<1>4. folder' \in [Commits -> {"none", "source", "venv", "whole"}]
  <2>1. CASE UNCHANGED folder
    BY <1>1, <2>1 DEF SearchTypes
  <2>2. CASE \E c \in CommitOrNone, state \in {"none", "source", "venv", "whole"} :
               folder' = [folder EXCEPT ![c] = state]
    BY <1>1, <2>2 DEF SearchTypes
  <2>3. CASE Search!Clean(p) \/ Search!DeleteSome(p) \/ Search!DeleteRest(p)
    BY <1>1, <2>3 DEF SearchTypes, Search!Clean, Search!DeleteSome, Search!DeleteRest
  <2>4. call[p].commit \in CommitOrNone
    BY <1>1 DEF Locals
  <2>5. CASE \/ Search!Unpack(p) \/ Search!MakeVenv(p) \/ Search!Libraries(p)
             \/ Search!BuildFails(p) \/ Search!Discard(p)
    BY <2>2, <2>4, <2>5
    DEF Search!Unpack, Search!MakeVenv, Search!Libraries, Search!BuildFails,
        Search!Discard, Search!Failed
  <2> QED
    BY <2>1, <2>3, <2>5
    DEF Search!CallStep, Search!SearchStep, Search!BuildStep, Search!StartStep,
        Search!WaitStep, Search!RemoveStep, Search!StopStep, Search!disk, Search!ReadOld,
        Search!Enter, Search!Serves, Search!WaitAgain, Search!NotSetUp,
        Search!StartInstalled, Search!Dropped, Search!Latest, Search!FetchFails,
        Search!StartNew, Search!SpawnFails, Search!Spawn, Search!WritePid, Search!Store,
        Search!Answers, Search!TimesOut, Search!End, Search!Truncate,
        Search!Write, Search!WriteFails, Search!DeleteFails, Search!Take, Search!Unfile
<1>5. installed_json' \in CommitOrNone /\ torn' \in BOOLEAN
  <2>1. CASE UNCHANGED <<installed_json, torn>>
    BY <1>1, <2>1 DEF SearchTypes
  <2>2. CASE \/ Search!Unpack(p) \/ Search!Truncate(p) \/ Search!DeleteSome(p)
             \/ Search!DeleteRest(p)
    BY <1>1, <2>2
    DEF SearchTypes, Search!Unpack, Search!Truncate, Search!DeleteSome,
        Search!DeleteRest,
        Search!history, CommitOrNone
  <2>3. CASE Search!Write(p)
    BY <1>1, <2>3 DEF Search!Write, Locals
  <2> QED
    BY <2>1, <2>2, <2>3
    DEF Search!CallStep, Search!SearchStep, Search!BuildStep, Search!StartStep,
        Search!WaitStep, Search!RemoveStep, Search!StopStep, Search!disk, Search!history,
        Search!ReadOld, Search!Enter, Search!Serves, Search!WaitAgain, Search!NotSetUp,
        Search!StartInstalled, Search!Dropped, Search!Latest, Search!FetchFails,
        Search!MakeVenv, Search!Libraries, Search!BuildFails, Search!StartNew,
        Search!SpawnFails, Search!Spawn, Search!WritePid, Search!Store, Search!Answers,
        Search!TimesOut, Search!End, Search!Discard, Search!WriteFails, Search!Clean,
        Search!DeleteFails, Search!Take, Search!Unfile
<1> QED
  BY <1>2, <1>3, <1>4, <1>5 DEF SearchTypes

\* The steps of the exit handler's stop().
LEMMA ExitStep ==
  ASSUME SearchInv, NEW e \in Exits, Search!StopStep(e)
  PROVE  SearchInv'
<1>1. e \in SearchProcesses /\ e \notin Search!SearchCalls /\ call[e] \in Locals /\ SearchTypes
  BY SearchConstants DEF SearchInv, SearchTypes
<1>2. PICK new \in Locals :
        /\ Search!Becomes(e, new)
        /\ new.at \in {"unfile", "exit"} /\ (new.at = "unfile" => new.after = "exit")
        /\ Search!Take(e) => new.at = IF search = None THEN "exit" ELSE "unfile"
        /\ Search!Unfile(e) => new.at = "exit"
  <2>1. \A place \in {"unfile", "exit"} :
          /\ [call[e] EXCEPT !.at = place] \in Locals
          /\ [call[e] EXCEPT !.at = place].at = place
    BY <1>1 DEF Locals, Places, SearchPlaces, StopPlaces, ExitPlaces
  <2>2. /\ [call[e] EXCEPT !.at = "unfile", !.after = "exit"] \in Locals
        /\ [call[e] EXCEPT !.at = "unfile", !.after = "exit"].at = "unfile"
        /\ [call[e] EXCEPT !.at = "unfile", !.after = "exit"].after = "exit"
    BY <1>1 DEF Locals, Places, SearchPlaces, StopPlaces, ExitPlaces, Afters
  <2>3. CASE Search!Take(e)
    <3>1. CASE search = None
      <4>1. Search!Go(e, "exit") /\ ~Search!Unfile(e)
        BY <1>1, <2>3, <3>1 DEF Search!Take, Search!Unfile, Search!At
      <4> QED
        BY <2>1, <3>1, <4>1 DEF Search!Go
    <3>2. CASE search # None
      <4>1. /\ Search!Becomes(e, [call[e] EXCEPT !.at = "unfile", !.after = "exit"])
            /\ ~Search!Unfile(e)
        BY <1>1, <2>3, <3>2 DEF Search!Take, Search!Unfile, Search!At
      <4> QED
        BY <2>2, <3>2, <4>1
    <3> QED
      BY <3>1, <3>2
  <2>4. CASE Search!Unfile(e)
    <3>1. Search!Go(e, "exit") /\ ~Search!Take(e)
      BY <1>1, <2>4 DEF SearchInv, PlaceInv, Search!Take, Search!Unfile, Search!At
    <3> QED
      BY <2>1, <3>1 DEF Search!Go
  <2> QED
    BY <2>3, <2>4 DEF Search!StopStep
<1>3. /\ call' \in [SearchProcesses -> Locals] /\ call'[e] = new
      /\ \A q \in SearchProcesses \ {e} : call'[q] = call[q]
  BY <1>1, <1>2, Becoming
<1>4. /\ app = "up" /\ UNCHANGED <<app, start_lock, folder, installed_json, orphans, torn>>
      /\ search' = None
  BY <1>1
  DEF SearchInv, SearchStopped, Search!StopStep, Search!Take, Search!Unfile, Search!At,
     Search!disk, Search!history
<1>5. SearchTypes'
  BY <1>1, <1>3, <1>4 DEF SearchTypes
<1>6. PlaceInv'
  BY <1>1, <1>2, <1>3, SearchConstants
  DEF SearchInv, PlaceInv, ExitPlaces, SearchProcesses
<1>7. SearchLock'
  BY <1>1, <1>3, <1>4, SearchConstants DEF SearchInv, SearchLock, SearchProcesses
<1>8. BuildInv' /\ Search!InstalledRuns'
  BY <1>1, <1>3, <1>4, SearchConstants
  DEF SearchInv, BuildInv, Search!InstalledRuns, SearchProcesses
<1>9. SearchStopped' /\ Search!SearchServerFound'
  <2> USE <1>1, <1>2, <1>3, <1>4, SearchConstants
      DEF SearchInv, SearchStopped, Search!SearchServerFound, SearchProcesses,
          StartPlaces,
          Search!Starting, Search!Server, Search!At
  <2>1. CASE Search!Take(e) /\ search = None
    BY <2>1 DEF Search!Take, Search!Unlocked
  <2>2. CASE Search!Take(e) /\ search # None
    <3>1. searxngs' = searxngs \ {search.server} /\ search_pid' = search_pid
      BY <2>2 DEF Search!Take, Search!Kill
    <3>2. \A q \in Search!SearchCalls : call[q].at \notin StartPlaces
      BY <2>2
    <3>3. searxngs' \subseteq orphans
      BY <3>1, <3>2
    <3>4. \A q \in SearchProcesses : q # e => call[q].at # "unfile"
      BY <2>2 DEF Search!Take, Search!Unlocked
    <3>5. \A q \in SearchProcesses : call[q].at \notin StartPlaces
      BY <2>2
    <3> QED
      BY <3>1, <3>2, <3>3, <3>4, <3>5
  <2>3. CASE Search!Unfile(e)
    BY <2>3 DEF Search!Unfile
  <2> QED
    BY <2>1, <2>2, <2>3 DEF Search!StopStep
<1> QED
  BY <1>5, <1>6, <1>7, <1>8, <1>9 DEF SearchInv

LEMMA ServerDeath ==
  ASSUME SearchInv, searxngs' \subseteq searxngs,
         UNCHANGED <<app, start_lock, search, search_pid, search_stale, folder,
                     installed_json, call, orphans, torn>>
  PROVE  SearchInv'
<1>1. SearchTypes' /\ PlaceInv' /\ SearchLock' /\ BuildInv' /\ Search!InstalledRuns'
  BY DEF SearchInv, SearchTypes, PlaceInv, SearchLock, BuildInv, Search!InstalledRuns
<1>2. SearchStopped'
  BY DEF SearchInv, SearchStopped
<1>3. Search!SearchServerFound'
  BY DEF SearchInv, Search!SearchServerFound, Search!At, Search!Server
<1> QED
  BY <1>1, <1>2, <1>3 DEF SearchInv

\* The end of the app cuts all calls off, and the next launch removes the pid file and
\* stops what it named.
LEMMA AppStepKeeps ==
  ASSUME SearchInv,
         \/ \E how \in {"down", "quit"} : Search!AppEnds(how)
         \/ Search!SetRoot \/ Search!StopStale \/ Search!LookFails
  PROVE  SearchInv'
<1> USE SearchConstants DEF SearchInv, SearchTypes, SearchProcesses
<1>2. ASSUME NEW how \in {"down", "quit"}, Search!AppEnds(how)
      PROVE  SearchInv'
  <2>1. /\ call' \in [SearchProcesses -> Locals]
        /\ \A q \in SearchProcesses :
             /\ call'[q].at \in {"ready", "done"}
             /\ call'[q].at = "ready" <=> call[q].at = "ready"
             /\ call'[q].back = call[q].back
    <3>1. ASSUME NEW r \in Locals, NEW place \in {"ready", "done"}
          PROVE  /\ [r EXCEPT !.at = place] \in Locals
                 /\ [r EXCEPT !.at = place].at = place /\ [r EXCEPT !.at = place].back = r.back
      BY DEF Locals, Places, SearchPlaces, Outside
    <3>2. ASSUME NEW q \in SearchProcesses
          PROVE  /\ call'[q] \in Locals /\ call'[q].at \in {"ready", "done"}
                 /\ call'[q].at = "ready" <=> call[q].at = "ready"
                 /\ call'[q].back = call[q].back
      <4>1. call[q] \in Locals
        OBVIOUS
      <4>2. CASE call[q].at = "ready"
        <5>1. call'[q] = [call[q] EXCEPT !.at = "ready"]
          BY <1>2, <4>2 DEF Search!AppEnds
        <5> DEFINE kept == [call[q] EXCEPT !.at = "ready"]
        <5>2. kept \in Locals /\ kept.at = "ready" /\ kept.back = call[q].back
          BY <3>1, <4>1
        <5> HIDE DEF kept
        <5> QED
          BY <4>2, <5>1, <5>2 DEF kept
      <4>3. CASE call[q].at # "ready"
        <5>1. call'[q] = [call[q] EXCEPT !.at = "done"]
          BY <1>2, <4>3 DEF Search!AppEnds
        <5> DEFINE over == [call[q] EXCEPT !.at = "done"]
        <5>2. over \in Locals /\ over.at = "done" /\ over.back = call[q].back
          BY <3>1, <4>1
        <5> HIDE DEF over
        <5> QED
          BY <4>3, <5>1, <5>2 DEF over
      <4> QED
        BY <4>2, <4>3
    <3>3. /\ DOMAIN call' = SearchProcesses
          /\ call' = [q \in SearchProcesses |-> call'[q]]
      BY <1>2 DEF Search!AppEnds
    <3> QED
      BY <3>2, <3>3
  <2>2. /\ app' \notin {"up", "launch"} /\ search' = None
        /\ UNCHANGED <<search_pid, searxngs, folder, installed_json, torn>>
    BY <1>2 DEF Search!AppEnds, Search!disk
  <2>3. SearchTypes' /\ SearchLock' /\ Search!InstalledRuns'
    BY <2>1, <2>2 DEF SearchLock, Search!InstalledRuns, Outside
  <2>5. PlaceInv'
    BY <2>1
    DEF PlaceInv, Outside, StopPlaces, StartPlaces, SearchPlaces, RemovePlaces,
        MakerPlaces, ExitPlaces
  <2>6. SearchStopped' /\ BuildInv'
    BY <2>1, <2>2 DEF SearchStopped, BuildInv, StopPlaces, StartPlaces, MakingPlaces, WholePlaces
  <2>4. Search!SearchServerFound'
    BY <1>2, <2>2 DEF Search!AppEnds, Search!SearchServerFound, Search!At
  <2> QED
    BY <2>3, <2>4, <2>5, <2>6
<1>3. CASE Search!SetRoot \/ Search!StopStale \/ Search!LookFails
  <2>1. \A q \in SearchProcesses : call[q].at \in {"ready", "done"}
    BY <1>3 DEF Search!SetRoot, Search!StopStale, Search!LookFails, SearchLock
  <2>2. CASE Search!SetRoot
    <3>1. searxngs \ orphans \subseteq {search_pid}
      BY <2>2 DEF Search!SetRoot, Search!SearchServerFound, Search!At
    <3>2. Search!SearchServerFound'
      BY <2>2, <3>1 DEF Search!SetRoot, Search!history, Search!SearchServerFound
    <3> QED
      BY <2>1, <2>2, <3>1, <3>2
      DEF Search!SetRoot, Search!disk, Search!history, PlaceInv, SearchLock,
          SearchStopped, BuildInv, Search!InstalledRuns
  <2>3. CASE Search!StopStale \/ Search!LookFails
    <3>1. searxngs \ orphans \subseteq {search_stale}
      BY <2>3 DEF Search!StopStale, Search!LookFails, SearchLock
    <3>2. searxngs' \subseteq orphans'
      BY <2>3, <3>1 DEF Search!StopStale, Search!LookFails, Search!history
    <3> QED
      BY <2>1, <2>3, <3>2
      DEF Search!StopStale, Search!LookFails, Search!SearchServerFound, Search!disk,
          Search!history, PlaceInv, SearchLock, SearchStopped, BuildInv,
          Search!InstalledRuns
  <2> QED
    BY <1>3, <2>2, <2>3
<1> QED
  BY <1>2, <1>3

\* SearchInv holds before the first launch.
LEMMA SearchInvInit == Search!Init => SearchInv
<1> SUFFICES ASSUME Search!Init PROVE SearchInv
  OBVIOUS
<1>1. Search!Local \in Locals /\ Search!Local.at = "ready" /\ ~Search!Local.back
  BY DEF Search!Local, Locals, Places, SearchPlaces, Outside, Afters, CommitOrNone
<1>2. /\ call \in [SearchProcesses -> Locals]
      /\ \A p \in SearchProcesses : call[p].at = "ready" /\ ~call[p].back
  BY <1>1 DEF Search!Init, SearchProcesses
<1>3. SearchTypes /\ SearchLock /\ PlaceInv
  BY <1>2, SearchConstants
  DEF Search!Init, SearchTypes, SearchLock, PlaceInv, CommitOrNone, Outside, StopPlaces,
      SearchPlaces, RemovePlaces, MakerPlaces, ExitPlaces
<1>4. SearchStopped /\ BuildInv /\ Search!InstalledRuns /\ Search!SearchServerFound
  BY <1>2, SearchConstants
  DEF Search!Init, SearchStopped, BuildInv, Search!InstalledRuns,
      Search!SearchServerFound,
      MakingPlaces, WholePlaces, StopPlaces, StartPlaces
<1> QED
  BY <1>3, <1>4 DEF SearchInv

\* So each step of a call keeps the whole invariant.
LEMMA SearchCallStep ==
  ASSUME SearchInv, NEW p \in Search!SearchCalls, Search!CallStep(p)
  PROVE  SearchInv'
BY SearchTypesStep, SearchLockStep, PlaceStep, SearchStoppedStep, BuildStep,
   InstalledRunsStep, ServerFoundStep DEF SearchInv

\* Nothing of the search server changes.
LEMMA SearchStutter ==
  ASSUME SearchInv, UNCHANGED <<app, searchOwn>>
  PROVE  SearchInv'
BY DEF SearchInv, SearchTypes, PlaceInv, SearchLock, SearchStopped, BuildInv,
       Search!InstalledRuns, Search!SearchServerFound, Search!At, Search!Server, searchOwn

\* Each step of the servers keeps SearchInv.
LEMMA SearchInvStep == SearchInv /\ [ServersNext]_<<vars, searchOwn>> => SearchInv'
<1> SUFFICES ASSUME SearchInv, [ServersNext]_<<vars, searchOwn>>
             PROVE  SearchInv'
  OBVIOUS
<1>1. CASE AIStep
  <2>1. UNCHANGED <<app, searchOwn>>
    BY <1>1
    DEF AIStep, Enter, EnsureStep, OwnStep, ModelMissing, Reuse, Replace,
        LoadGeneration,
        SpawnFails, Spawn, WritePid, Exited, TimedOut, Discard, Checked, Store, Healthy,
        Dropped, ServerDies, StopStep, Bump, Take, KillTaken, Unfile, shared
  <2> QED
    BY <2>1, SearchStutter
<1>2. CASE SearchStep
  <2>1. CASE \E x \in searxngs : Search!ServerDies(x)
    BY <2>1, ServerDeath DEF Search!ServerDies, Search!disk, Search!history
  <2> QED
    BY <1>2, <2>1, SearchCallStep, ExitStep DEF SearchStep
<1>3. CASE AppStep
  <2>1. \/ Search!AppEnds("down") \/ Search!AppEnds("quit")
        \/ Search!SetRoot \/ Search!StopStale \/ Search!LookFails
    BY <1>3 DEF AppStep, Search!Crash, Search!Quit
  <2> QED
    BY <2>1, AppStepKeeps
<1>4. CASE Over \/ UNCHANGED <<vars, searchOwn>>
  BY <1>4, SearchStutter DEF Over, vars, shared
<1> QED
  BY <1>1, <1>2, <1>3, <1>4 DEF ServersNext

\* ... so it always holds.
LEMMA SearchInvAlways == ServersSpec => []SearchInv
<1>1. ServersInit => SearchInv
  BY SearchInvInit DEF ServersInit
<1> QED
  BY <1>1, SearchInvStep, PTL DEF ServersSpec

\* What installed.json names is whole, whatever set-ups, updates and removals fail or
\* are cut off: the version that Ask starts is one that can run.
THEOREM InstalledAlwaysRuns == ServersSpec => []InstalledRuns
<1>1. SearchInv => InstalledRuns
  BY DEF SearchInv, InstalledRuns
<1> QED
  BY <1>1, SearchInvAlways, PTL

\* A SearXNG is stored, or a local of the start under way, and whenever the app dies
\* the pid file names it, but in a launch between the removal of the file and the look.
THEOREM SearchServerAlwaysFound == ServersSpec => []SearchServerFound
<1>1. SearchInv => SearchServerFound
  BY DEF SearchInv, SearchServerFound
<1> QED
  BY <1>1, SearchInvAlways, PTL

=============================================================================
