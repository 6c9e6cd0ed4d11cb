----------------------------- MODULE SearchServer -----------------------------
(***************************************************************************)
(* SearchServer of src-tauri/src/search_server.rs: the SearXNG that OraType *)
(* sets up, updates, removes, and runs for the web searches of Ask.        *)
(*                                                                         *)
(* All but the exit handler's stop() come one at a time, behind start_lock. *)
(* On disk there is a folder for each commit and a file that names the one *)
(* in use; an update builds the new folder beside the old one, and crashes *)
(* and failures leave folders and files as they are at that moment.        *)
(***************************************************************************)
EXTENDS Naturals

CONSTANTS
  Searches,    \* calls of ensure_running(), by Ask and at launch
  Escaped,     \* searches whose future Escape may drop
  Installs, Updates, Removes,
  Exits,       \* stop() by the exit handler
  Commits,     \* SearXNG's, numbered in their order
  MaxCrashes,  \* bound: crashes of the app
  None

SearchCalls == Searches \cup Installs \cup Updates \cup Removes

SearchAssumption ==
  /\ Escaped \subseteq Searches /\ Exits \cap SearchCalls = {}
  /\ Searches \cap (Installs \cup Updates \cup Removes) = {}
  /\ Removes \cap (Installs \cup Updates) = {} /\ Installs \cap Updates = {}
  /\ Commits \subseteq Nat /\ None \notin Commits \cup SearchCalls \cup Exits
  /\ None \notin [server : SearchCalls \X (Commits \cup {None}), ready : BOOLEAN]

VARIABLES
  app,            \* "down", "launch" in set_root(), "up", or "quit" after a quit
  start_lock,     \* the call that holds it, or None
  search,         \* `running`: the server stored in it, or None
  search_pid,     \* the server the pid file names, or None
  search_stale,   \* the server that a launch read from the pid file, or None
  searxngs,       \* the SearXNG processes there are
  folder,         \* each commit's folder: "none", "source", "venv" once it has
                  \*   its Python, "whole" with its libraries
  installed_json, \* the commit it names, or None
  newest,         \* the newest commit GitHub has told
  call,           \* where each call is, and its locals
  crashes,

  orphans,        \* history: servers no pid file names, by an end or a failure of the app
  torn            \* history: the installed folder was unpacked anew, or cut

server  == <<search, search_pid, searxngs, search_stale>>
disk    == <<folder, installed_json>>
history == <<orphans, torn>>
vars == <<app, start_lock, server, disk, newest, call, crashes, history>>

Local == [at |-> "ready", old |-> None, commit |-> None, after |-> "spawn",
          was_running |-> FALSE, back |-> FALSE]

Init ==
  /\ app = "down" /\ start_lock = None
  /\ search = None /\ search_pid = None /\ searxngs = {} /\ search_stale = None
  /\ folder = [c \in Commits |-> "none"] /\ installed_json = None
  /\ newest = 0
  /\ call = [p \in SearchCalls \cup Exits |-> Local]
  /\ crashes = 0
  /\ orphans = {} /\ torn = FALSE

-----------------------------------------------------------------------------
(* Helpers.                                                                *)

At(p, place)   == app = "up" /\ call[p].at = place
Becomes(p, new) == call' = [call EXCEPT ![p] = new]
Go(p, place)   == Becomes(p, [call[p] EXCEPT !.at = place])
Return(p)      == Go(p, "done") /\ start_lock' = None
Stop(p, after) == [call[p] EXCEPT !.at = "take", !.after = after]

\* read_installed(): a folder counts once it has its Python.
Installed ==
  IF installed_json # None /\ folder[installed_json] \in {"venv", "whole"}
    THEN installed_json ELSE None

\* stop() keeps `running` locked until it has removed the pid file.
Unlocked(p) == \A q \in SearchCalls \cup Exits : q = p \/ call[q].at # "unfile"

\* status() also forgets a server that has died.
Running   == search # None /\ search.server \in searxngs
Status(p) == Unlocked(p) /\ search' = IF Running THEN search ELSE None

-----------------------------------------------------------------------------
(* Who may go on.                                                          *)

\* update() looks at what is installed before it waits for the lock.
ReadOld(u) ==
  /\ u \in Updates /\ At(u, "ready")
  /\ Becomes(u, [call[u] EXCEPT !.old = Installed, !.at = "queued"])
  /\ UNCHANGED <<app, start_lock, server, disk, newest, crashes, history>>

\* begin() would refuse a second set-up, which waits here before it gets there.
\* The mutant does not wait.
LockFree_Ignored == TRUE
LockFree         == start_lock = None
Enter(p) ==
  /\ At(p, IF p \in Updates THEN "queued" ELSE "ready")
  /\ LockFree /\ start_lock' = p
  /\ Becomes(p, IF p \in Searches THEN [call[p] EXCEPT !.at = "look"]
                ELSE IF p \in Removes THEN Stop(p, "delete")
                ELSE [call[p] EXCEPT !.at = "fetch"])
  /\ UNCHANGED <<app, server, disk, newest, crashes, history>>

-----------------------------------------------------------------------------
(* ensure_running().                                                       *)

\* A server that takes searches.
Serves(s) ==
  /\ At(s, "look") /\ Unlocked(s)
  /\ Running /\ search.ready
  /\ Return(s)
  /\ UNCHANGED <<app, server, disk, newest, crashes, history>>

\* One that an earlier call started, and did not wait for.
WaitAgain(s) ==
  /\ At(s, "look") /\ Unlocked(s)
  /\ Running /\ ~search.ready
  /\ Go(s, "wait")
  /\ UNCHANGED <<app, start_lock, server, disk, newest, crashes, history>>

NotSetUp(s) ==
  /\ At(s, "look")
  /\ ~Running /\ Installed = None
  /\ Status(s)
  /\ Return(s)
  /\ UNCHANGED <<app, search_pid, searxngs, search_stale, disk, newest, crashes, history>>

StartInstalled(s) ==
  /\ At(s, "look")
  /\ ~Running /\ Installed # None
  /\ Status(s)
  /\ Becomes(s, [Stop(s, "spawn") EXCEPT !.commit = Installed])
  /\ UNCHANGED <<app, start_lock, search_pid, searxngs, search_stale, disk, newest, crashes, history>>

-----------------------------------------------------------------------------
(* install() and update() up to the start of what they made.               *)

\* uv, Python, the latest commit.  An update that has it already is done.
Latest(p) ==
  /\ At(p, "fetch")
  /\ \E c \in Commits :
       /\ c >= newest /\ newest' = c
       /\ IF c = call[p].old THEN Return(p)
          ELSE /\ Becomes(p, [call[p] EXCEPT !.commit = c, !.at = "unpack"])
               /\ UNCHANGED start_lock
  /\ UNCHANGED <<app, server, disk, crashes, history>>

\* No network, a wrong checksum, uv that does not run, an archive that does not
\* come: nothing was changed.
FetchFails(p) ==
  /\ At(p, "fetch") \/ At(p, "unpack")
  /\ Return(p)
  /\ UNCHANGED <<app, server, disk, newest, crashes, history>>

\* install_searxng(): what the folder held is removed first.
Unpack(p) ==
  /\ At(p, "unpack")
  /\ folder' = [folder EXCEPT ![call[p].commit] = "source"]
  /\ torn' = (torn \/ call[p].commit = installed_json)
  /\ Go(p, "venv")
  /\ UNCHANGED <<app, start_lock, server, installed_json, newest, crashes, orphans>>

MakeVenv(p) ==
  /\ At(p, "venv")
  /\ folder' = [folder EXCEPT ![call[p].commit] = "venv"]
  /\ Go(p, "libraries")
  /\ UNCHANGED <<app, start_lock, server, installed_json, newest, crashes, history>>

Libraries(p) ==
  /\ At(p, "libraries")
  /\ folder' = [folder EXCEPT ![call[p].commit] = "whole"]
  /\ Go(p, "built")
  /\ UNCHANGED <<app, start_lock, server, installed_json, newest, crashes, history>>

BuildFails(p) ==
  /\ At(p, "venv") \/ At(p, "libraries")
  /\ folder' = [folder EXCEPT ![call[p].commit] = "none"]
  /\ Return(p)
  /\ UNCHANGED <<app, server, installed_json, newest, crashes, history>>

StartNew(p) ==
  /\ At(p, "built")
  /\ Status(p)
  /\ Becomes(p, [Stop(p, "spawn") EXCEPT !.was_running = Running])
  /\ UNCHANGED <<app, start_lock, search_pid, searxngs, search_stale, disk, newest, crashes, history>>

-----------------------------------------------------------------------------
(* stop(), by a call that has the lock or by the exit handler, and start(). *)

\* The mutant forgets what it takes out.
Kill_Forgets(x) == searxngs
Kill(x)         == searxngs \ {x}

Take(p) ==
  /\ At(p, IF p \in Exits THEN "ready" ELSE "take") /\ Unlocked(p)
  /\ LET after == IF p \in Exits THEN "exit" ELSE call[p].after
     IN  IF search = None
           THEN Go(p, after) /\ UNCHANGED searxngs
           ELSE Becomes(p, [call[p] EXCEPT !.at = "unfile", !.after = after])
                  /\ searxngs' = Kill(search.server)
  /\ search' = None
  /\ UNCHANGED <<app, start_lock, search_pid, search_stale, disk, newest, crashes, history>>

Unfile(p) ==
  /\ At(p, "unfile")
  /\ search_pid' = None
  /\ Go(p, call[p].after)
  /\ UNCHANGED <<app, start_lock, search, searxngs, search_stale, disk, newest, crashes, history>>

\* settings.yml cannot be written, or there is no Python to start.
SpawnFails(p) ==
  /\ At(p, "spawn")
  /\ Return(p)
  /\ UNCHANGED <<app, server, disk, newest, crashes, history>>

Server(p) == <<p, call[p].commit>>

Spawn(p) ==
  /\ At(p, "spawn")
  /\ folder[call[p].commit] \in {"venv", "whole"}
  /\ searxngs' = searxngs \cup {Server(p)}
  /\ Go(p, "file")
  /\ UNCHANGED <<app, start_lock, search, search_pid, search_stale, disk, newest, crashes, history>>

WritePid(p) ==
  /\ At(p, "file")
  /\ search_pid' = Server(p)
  /\ Go(p, "store")
  /\ UNCHANGED <<app, start_lock, search, searxngs, search_stale, disk, newest, crashes, history>>

\* The old version, started again after a failed update, is not waited for.
Store(p) ==
  /\ At(p, "store") /\ Unlocked(p)
  /\ search' = [server |-> Server(p), ready |-> FALSE]
  /\ IF call[p].back THEN Return(p) ELSE Go(p, "wait") /\ UNCHANGED start_lock
  /\ UNCHANGED <<app, search_pid, searxngs, search_stale, disk, newest, crashes, history>>

-----------------------------------------------------------------------------
(* wait_until_ready() and what follows.                                    *)

Answers(p) ==
  /\ At(p, "wait") /\ Unlocked(p)
  /\ Running /\ folder[search.server[2]] = "whole"
  /\ IF p \in Searches THEN search' = [search EXCEPT !.ready = TRUE] /\ Return(p)
                       ELSE Go(p, "truncate") /\ UNCHANGED <<search, start_lock>>
  /\ UNCHANGED <<app, search_pid, searxngs, search_stale, disk, newest, crashes, history>>

\* A search leaves the server to load; a set-up stops it, and an update goes back.
TimesOut(p) ==
  /\ At(p, "wait")
  /\ IF p \in Searches THEN Return(p)
     ELSE /\ Becomes(p, Stop(p, IF call[p].old = None THEN "end" ELSE "discard"))
          /\ UNCHANGED start_lock
  /\ UNCHANGED <<app, server, disk, newest, crashes, history>>

Dropped(s) ==
  /\ s \in Escaped /\ At(s, "wait")
  /\ Return(s)
  /\ UNCHANGED <<app, server, disk, newest, crashes, history>>

End(p) ==
  /\ At(p, "end")
  /\ Return(p)
  /\ UNCHANGED <<app, server, disk, newest, crashes, history>>

\* An update whose SearXNG does not answer removes it; the mutant removes the one
\* it was to replace.
Failed_Old(p) == call[p].old
Failed(p)     == call[p].commit

Discard(p) ==
  /\ At(p, "discard")
  /\ folder' = [folder EXCEPT ![Failed(p)] = "none"]
  /\ IF call[p].was_running
       THEN /\ Becomes(p, [Stop(p, "spawn") EXCEPT !.commit = call[p].old, !.back = TRUE])
            /\ UNCHANGED start_lock
       ELSE Return(p)
  /\ UNCHANGED <<app, server, installed_json, newest, crashes, history>>

\* write_installed(): the file is emptied, then written.
Truncate(p) ==
  /\ At(p, "truncate")
  /\ installed_json' = None
  /\ Go(p, "write")
  /\ UNCHANGED <<app, start_lock, server, folder, newest, crashes, history>>

Write(p) ==
  /\ At(p, "write")
  /\ installed_json' = call[p].commit
  /\ torn' = FALSE
  /\ Go(p, "clean")
  /\ UNCHANGED <<app, start_lock, server, folder, newest, crashes, orphans>>

\* It cannot be opened, or not be written.
WriteFails(p) ==
  /\ At(p, "truncate") \/ At(p, "write")
  /\ Return(p)
  /\ UNCHANGED <<app, server, disk, newest, crashes, history>>

\* remove_old_installs().  The mutant keeps the folder of the version replaced.
Kept_Old(p) == IF call[p].old = None THEN call[p].commit ELSE call[p].old
Kept(p)     == call[p].commit
Clean(p) ==
  /\ At(p, "clean")
  /\ folder' = [c \in Commits |-> IF c = Kept(p) THEN folder[c] ELSE "none"]
  /\ Return(p)
  /\ UNCHANGED <<app, server, installed_json, newest, crashes, history>>

-----------------------------------------------------------------------------
(* remove(), once it has stopped the server.                               *)

DeleteSome(r) ==
  /\ At(r, "delete")
  /\ \E rest \in {"venv", "source", "none"} :
       folder' = [c \in Commits |-> IF folder[c] = "none" THEN "none" ELSE rest]
  /\ installed_json' \in {installed_json, None}
  /\ torn' = TRUE
  /\ Go(r, "rest")
  /\ UNCHANGED <<app, start_lock, server, newest, crashes, orphans>>

DeleteRest(r) ==
  /\ At(r, "rest")
  /\ folder' = [c \in Commits |-> "none"] /\ installed_json' = None
  /\ search_pid' = None
  /\ torn' = FALSE
  /\ Return(r)
  /\ UNCHANGED <<app, search, searxngs, search_stale, newest, crashes, orphans>>

DeleteFails(r) ==
  /\ At(r, "rest")
  /\ Return(r)
  /\ UNCHANGED <<app, server, disk, newest, crashes, history>>

-----------------------------------------------------------------------------
(* SearXNG and the app.                                                    *)

ServerDies(x) ==
  /\ x \in searxngs /\ searxngs' = searxngs \ {x}
  /\ UNCHANGED <<app, start_lock, search, search_pid, search_stale, disk, newest, call,
                 crashes, history>>

\* The app's process ends.  The calls under way end with it, SearXNG does not.
AppEnds(how) ==
  /\ app \in {"launch", "up"} /\ app' = how
  /\ start_lock' = None /\ search' = None /\ search_stale' = None
  /\ call' = [p \in SearchCalls \cup Exits |->
                [call[p] EXCEPT !.at = IF @ = "ready" THEN "ready" ELSE "done"]]
  /\ orphans' = orphans \cup {Server(p) : p \in {q \in SearchCalls : call[q].at = "file"}}
                        \cup {search_stale}
  /\ UNCHANGED <<search_pid, searxngs, disk, newest, torn>>

Crash ==
  /\ crashes < MaxCrashes /\ crashes' = crashes + 1
  /\ AppEnds("down")

\* The exit handler's stop() has returned.
Quit ==
  /\ app = "up" /\ \E e \in Exits : call[e].at = "exit"
  /\ AppEnds("quit")
  /\ UNCHANGED crashes

\* set_root() at launch: stop_stale_server() reads the file and removes it, then looks
\* at the process and stops a SearXNG.
SetRoot ==
  /\ app \in {"down", "quit"} /\ app' = "launch"
  /\ search_stale' = search_pid /\ search_pid' = None
  /\ UNCHANGED <<start_lock, search, searxngs, disk, newest, call, crashes, history>>

StopStale ==
  /\ app = "launch" /\ app' = "up"
  /\ searxngs' = searxngs \ {search_stale} /\ search_stale' = None
  /\ UNCHANGED <<start_lock, search, search_pid, disk, newest, call, crashes, history>>

\* ps or kill cannot be run: nothing names the server any more.
LookFails ==
  /\ app = "launch" /\ app' = "up"
  /\ search_stale' = None /\ orphans' = orphans \cup {search_stale}
  /\ UNCHANGED <<start_lock, search, search_pid, searxngs, disk, newest, call, crashes,
                 torn>>

-----------------------------------------------------------------------------

SearchStep(s) ==
  Serves(s) \/ WaitAgain(s) \/ NotSetUp(s) \/ StartInstalled(s) \/ Dropped(s)

BuildStep(p) ==
  Latest(p) \/ FetchFails(p) \/ Unpack(p) \/ MakeVenv(p) \/ Libraries(p)
    \/ BuildFails(p) \/ StartNew(p)

StartStep(p) == SpawnFails(p) \/ Spawn(p) \/ WritePid(p) \/ Store(p)

WaitStep(p) ==
  Answers(p) \/ TimesOut(p) \/ End(p) \/ Discard(p) \/ Truncate(p) \/ Write(p)
    \/ WriteFails(p) \/ Clean(p)

RemoveStep(r) == DeleteSome(r) \/ DeleteRest(r) \/ DeleteFails(r)

StopStep(p) == Take(p) \/ Unfile(p)

CallStep(p) ==
  ReadOld(p) \/ Enter(p) \/ SearchStep(p) \/ BuildStep(p) \/ StartStep(p)
    \/ WaitStep(p) \/ RemoveStep(p) \/ StopStep(p)

Next ==
  \/ \E p \in SearchCalls : CallStep(p)
  \/ \E e \in Exits : StopStep(e)
  \/ \E x \in searxngs : ServerDies(x)
  \/ Crash \/ Quit \/ SetRoot \/ StopStale \/ LookFails

Spec == Init /\ [][Next]_vars

-----------------------------------------------------------------------------
(* Properties.                                                             *)

Starting == {"file", "store"}

\* What installed.json names can be started: its folder is whole, through set-ups
\* and updates that fail or are cut off at any step.  Left out are a version that
\* is set up again over itself, and a removal that was not finished (torn).
InstalledRuns ==
  installed_json = None \/ folder[installed_json] = "whole" \/ torn

\* "Stops a SearXNG a crashed OraType left behind": while the app is up a server is
\* stored, or is a local of the call that has the lock; and whenever the app dies
\* the pid file names it, or the launch that removed the file has yet to look.  Not
\* counted (orphans) are servers cut off before their id was written, and those of
\* launches that removed the file and then died or could not run ps or kill.
SearchServerFound ==
  \A x \in searxngs \ orphans :
    /\ \/ search_pid = x
       \/ app = "launch" /\ search_stale = x
       \/ \E p \in SearchCalls : At(p, "file") /\ Server(p) = x
    /\ app = "up" =>
         \/ search # None /\ search.server = x
         \/ \E p \in SearchCalls : call[p].at \in Starting /\ Server(p) = x

(* What the code does not keep.                                            *)

\* The error of an update says "(kept the installed version)": what it removes is not
\* that version.
KeptTheInstalled ==
  [][\A u \in Updates :
       At(u, "discard") /\ folder' # folder => call[u].commit # installed_json]_vars

\* A set-up that another one came before does not begin again: begin()'s error
\* "A setup or update is already running".
NotSetUpTwice ==
  [][\A p \in Installs \cup Updates :
       At(p, "unpack") /\ folder' # folder => call[p].commit # Installed]_vars

\* A search starts a version that is whole.
SearchesStartWhole ==
  \A s \in Searches : At(s, "spawn") => folder[call[s].commit] = "whole"

\* "Stops a SearXNG a crashed OraType left behind", whatever the launch meets.
LeftSearchIsStopped ==
  [][app = "launch" /\ app' # "launch" => search_stale \notin searxngs']_vars

\* "The Built-in search server runs only while OraType runs."
SearchEndsWithApp == app = "quit" => searxngs = {}

=============================================================================
