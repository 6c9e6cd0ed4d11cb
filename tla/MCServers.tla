------------------------------ MODULE MCServers -------------------------------
(***************************************************************************)
(* The servers of one app for TLC: a ServerManager and the SearchServer,   *)
(* which share nothing but the app's life: its launch, its crash and its   *)
(* exit.  A behaviour uses one of the two; the other one is there and has  *)
(* nothing to stop.                                                        *)
(***************************************************************************)
EXTENDS MCServerManager, FiniteSets

CONSTANTS
  Searches, Escaped, Installs, Updates, Removes, Exits, Commits,
  MaxSearchCalls  \* bound: search calls made, and crashes, of a behaviour

VARIABLES start_lock, search, search_pid, search_stale, searxngs, folder,
          installed_json, newest, call, orphans, torn

Search == INSTANCE SearchServer

ASSUME ServersAssumption == Search!SearchAssumption

aiOwn     == <<gate, running, generation, pid_file, alive, pc, local, history>>
searchOwn == <<start_lock, search, search_pid, search_stale, searxngs, folder,
               installed_json, newest, call, orphans, torn>>

AIIdle     == \A p \in Processes : pc[p] = "ready"
SearchIdle == \A p \in DOMAIN call : call[p].at = "ready"

AIStep ==
  /\ SearchIdle
  /\ \/ \E c \in Calls : Enter(c) \/ EnsureStep(c) \/ ServerDies(c)
     \/ \E p \in Processes : StopStep(p)
  /\ UNCHANGED searchOwn

Made == {p \in Search!SearchCalls : call[p].at # "ready"}

SearchStep ==
  /\ AIIdle
  /\ \/ \E p \in Search!SearchCalls : Search!CallStep(p)
     \/ \E e \in Exits : Search!StopStep(e)
     \/ \E x \in searxngs : Search!ServerDies(x)
  /\ UNCHANGED aiOwn
  /\ Cardinality(Made') + crashes <= MaxSearchCalls

AppStep ==
  \/ /\ SearchIdle \/ Cardinality(Made) + crashes < MaxSearchCalls
     /\ Crash /\ Search!Crash
  \/ SearchIdle /\ Quit /\ Search!AppEnds("quit")
  \/ AIIdle /\ AppEnds("quit") /\ Search!Quit
  \/ SetPaths /\ Search!SetRoot
  \/ StopStale /\ Search!StopStale
  \/ LookFails /\ Search!LookFails

\* Nothing is under way any more.
Over ==
  /\ \/ \A p \in Processes : pc[p] = "done"
     \/ /\ Made # {}
        /\ \A p \in DOMAIN call : call[p].at \in {"ready", "done", "exit"}
  /\ UNCHANGED <<vars, searchOwn>>

ServersInit == Init /\ Search!Init

ServersNext == AIStep \/ SearchStep \/ AppStep \/ Over

ServersSpec ==
  /\ ServersInit
  /\ [][ServersNext]_<<vars, searchOwn>>
  /\ Fairness

\* As in SearchServer.
InstalledRuns     == Search!InstalledRuns
SearchServerFound == Search!SearchServerFound

=============================================================================
