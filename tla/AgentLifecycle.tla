--------------------------- MODULE AgentLifecycle ---------------------------
(***************************************************************************)
(* Who watches the environments, and when: agent_init, add_env and         *)
(* delete_env commands, the gitops listener each of them starts, the       *)
(* goroutines the listener starts per environment (Repo.Start under the    *)
(* concurrency slots, syncLoop, SyncInterval), the disconnect branch of    *)
(* the websocket Loop that stops all of them, and the shutdown of the      *)
(* process.  The globals of pkg/agent/model/global.go that these           *)
(* goroutines share are not synchronised, except InitLock.                 *)
(*                                                                         *)
(* A listener is named by the command that started it, and a channel or    *)
(* goroutine it makes for key k by the pair <<k, listener>>.               *)
(***************************************************************************)
EXTENDS Naturals, FiniteSets

CONSTANTS
  Envs,         \* environments (namespaces with a configuration repository)
  InitEnvs,     \* those the DevOps service names in agent_init
  Broken,       \* those whose Repo.Start returns early: no URL, no temp dir
  Inits,        \* agent_init commands
  Adds,         \* add_env commands
  Deletes,      \* environments the service may delete
  SlotSize,     \* RepoConcurrencySyncSize, 1 by default
  MaxDrops,     \* bound on lost connections
  MaxInFlight,  \* bound on agent_init commands handled at the same time
  MayFail,      \* whether the body of InitAgent may return an error
  MayShutdown,  \* whether the process may be told to stop
  Interval,     \* the key SyncIntervalStopChanName
  None

Listeners == Inits \cup Adds
Keys == Envs \cup {Interval}
Watches == Envs \X Listeners

ASSUME LifecycleAssumption ==
  /\ InitEnvs \subseteq Envs /\ Broken \subseteq Envs /\ Deletes \subseteq Envs
  /\ Interval \notin Envs /\ None \notin Listeners \cup Keys
  /\ Inits \cap Adds = {}
  /\ SlotSize \in Nat \ {0} /\ MaxDrops \in Nat /\ MaxInFlight \in Nat \ {0}
  /\ MayFail \in BOOLEAN /\ MayShutdown \in BOOLEAN

VARIABLES
  initialized,  \* model.Initialized
  gitRunning,   \* model.GitRunning
  initLock,     \* who holds model.InitLock
  stopMap,      \* model.GitStopChanMap: the maker of the channel per key
  closed,       \* stop channels that have been closed
  slotChan,     \* the channel in model.GitRepoConcurrencySyncChan
  tokens,       \* tokens buffered in each such channel
  gitRepos,     \* opts.GitRepos: the maker of the current Repo per environment
  init,         \* progress of each agent_init handler
  del,          \* progress of delete_env per environment
  present,      \* namespaces that exist in the cluster
  listener,     \* progress of each GitOps.WithStop goroutine
  todo,         \* the environments it has not visited
  cur,          \* the environment it is visiting
  waits,        \* the slot channel it sends to
  repo,         \* progress of each Repo.Start goroutine
  releaseOn,    \* the slot channel it receives from when it is ready
  refreshTok,   \* Repos whose RefreshChan holds a token
  syncLoop,     \* progress of each syncLoop goroutine
  syncTok,      \* Repos whose SyncChan holds a token
  interval,     \* progress of each SyncInterval goroutine
  loop,         \* the websocket Loop
  toClose,      \* the keys its range has still to visit
  drops,        \* connections lost so far
  worker,       \* runWorker
  process,      \* the process: up, shutting down, exited or crashed
  bodies,       \* history: initialisations begun since the flag was cleared
  succeeded     \* history: one of them has succeeded

flagVars   == <<initialized, gitRunning, bodies, succeeded>>
mapVars    == <<stopMap, closed, gitRepos>>
slotVars   == <<slotChan, tokens>>
cmdVars    == <<init, initLock, del, present>>
listenVars == <<listener, todo, cur, waits>>
repoVars   == <<repo, releaseOn, refreshTok>>
syncVars   == <<syncLoop, syncTok, interval>>
connVars   == <<loop, toClose, drops>>
procVars   == <<worker, process>>
vars == <<flagVars, mapVars, slotVars, cmdVars, listenVars, repoVars,
          syncVars, connVars, procVars>>

InitStates == {"idle", "lock", "check", "body", "unlock", "flag", "done"}
ListenStates == {"none", "start", "interval", "range", "put", "slot", "done"}
RepoStates == {"none", "new", "cloned", "waitNew", "waitCloned", "ready",
               "release", "exited"}

Init ==
  /\ initialized = FALSE /\ gitRunning = FALSE
  /\ initLock = None
  /\ stopMap = [k \in Keys |-> None] /\ closed = {}
  /\ slotChan = None /\ tokens = [c \in Inits |-> 0]
  /\ gitRepos = [e \in Envs |-> None]
  /\ init = [c \in Inits |-> "idle"]
  /\ del = [e \in Envs |-> "idle"]
  /\ present = {}
  /\ listener = [l \in Listeners |-> "none"]
  /\ todo = [l \in Listeners |-> {}]
  /\ cur = [l \in Listeners |-> None]
  /\ waits = [l \in Listeners |-> None]
  /\ repo = [w \in Watches |-> "none"]
  /\ releaseOn = [w \in Watches |-> None]
  /\ refreshTok = {} /\ syncTok = {}
  /\ syncLoop = [w \in Watches |-> "none"]
  /\ interval = [l \in Listeners |-> "none"]
  /\ loop = "up" /\ toClose = {} /\ drops = 0
  /\ worker = "up" /\ process = "up"
  /\ bodies = 0 /\ succeeded = FALSE

Goes(pc, x, from, to) == pc[x] = from /\ pc' = [pc EXCEPT ![x] = to]

\* The worker dispatches a command that came over the connection.
Dispatches == loop = "up" /\ worker = "up"

-----------------------------------------------------------------------------
\* InitAgent.

InFlight == {c \in Inits : init[c] \notin {"idle", "done"}}

\* The service names the environments it knows: its first ones, those it has
\* added since, without those it has deleted.
Named == {e \in InitEnvs : del[e] = "idle"}
           \cup {e \in present : del[e] \notin {"signal", "forget"}}

InitArrives(c) ==
  /\ Dispatches
  /\ Cardinality(InFlight) < MaxInFlight
  /\ Goes(init, c, "idle", "lock")
  /\ todo' = [todo EXCEPT ![c] = Named]
  /\ UNCHANGED <<flagVars, mapVars, slotVars, initLock, del, present,
                 listener, cur, waits, repoVars, syncVars, connVars, procVars>>

InitLocks(c) ==
  /\ initLock = None
  /\ initLock' = c
  /\ Goes(init, c, "lock", "check")
  /\ UNCHANGED <<flagVars, mapVars, slotVars, del, present, listenVars,
                 repoVars, syncVars, connVars, procVars>>

\* "agent already initialized": only the cluster information is returned.
InitSkips(c) ==
  /\ initialized
  /\ Goes(init, c, "check", "unlock")
  /\ UNCHANGED <<flagVars, mapVars, slotVars, initLock, del, present,
                 listenVars, repoVars, syncVars, connVars, procVars>>

\* Mutant: a slot channel that is there is kept.
InitBegins_KeepsSlot(c) ==
  /\ ~initialized
  /\ Goes(init, c, "check", "body")
  /\ slotChan' = IF slotChan = None THEN c ELSE slotChan
  /\ bodies' = bodies + 1
  /\ UNCHANGED <<initialized, gitRunning, succeeded, mapVars, tokens,
                 initLock, del, present, listenVars, repoVars, syncVars,
                 connVars, procVars>>

\* The payload is parsed and a new slot channel replaces the old one.
InitBegins(c) ==
  /\ ~initialized
  /\ Goes(init, c, "check", "body")
  /\ slotChan' = c
  /\ bodies' = bodies + 1
  /\ UNCHANGED <<initialized, gitRunning, succeeded, mapVars, tokens,
                 initLock, del, present, listenVars, repoVars, syncVars,
                 connVars, procVars>>

\* An error is returned: the payload does not parse (before the slot channel
\* is made), or a later step fails.  The deferred function runs all the same.
InitFails(c) ==
  /\ MayFail
  /\ \/ ~initialized /\ Goes(init, c, "check", "unlock")
     \/ Goes(init, c, "body", "unlock")
  /\ UNCHANGED <<flagVars, mapVars, slotVars, initLock, del, present,
                 listenVars, repoVars, syncVars, connVars, procVars>>

\* Everything succeeds; "go g.WithStop()" starts the listener.
InitSucceeds(c) ==
  /\ Goes(init, c, "body", "unlock")
  /\ succeeded' = TRUE
  /\ present' = present \cup todo[c]
  /\ listener' = [listener EXCEPT ![c] = "start"]
  /\ UNCHANGED <<initialized, gitRunning, bodies, mapVars, slotVars,
                 initLock, del, todo, cur, waits, repoVars, syncVars, connVars,
                 procVars>>

\* The deferred function: InitLock is released first ...
InitUnlocks(c) ==
  /\ Goes(init, c, "unlock", "flag")
  /\ initLock' = None
  /\ UNCHANGED <<flagVars, mapVars, slotVars, del, present, listenVars,
                 repoVars, syncVars, connVars, procVars>>

\* ... and the flag is set after that, on every path.
InitFlags(c) ==
  /\ Goes(init, c, "flag", "done")
  /\ initialized' = TRUE
  /\ UNCHANGED <<gitRunning, bodies, succeeded, mapVars, slotVars, initLock,
                 del, present, listenVars, repoVars, syncVars, connVars,
                 procVars>>

-----------------------------------------------------------------------------
\* AddEnv and DeleteEnv.

\* AddEnv refuses a namespace that exists; otherwise it starts a listener of
\* its own for the one environment.  The service opens with agent_init, and
\* sends no add_env for an environment that an agent_init on its way names.
AddArrives(a, e) ==
  /\ Dispatches
  /\ \E c \in Inits : init[c] # "idle"
  /\ \A c \in InFlight : e \notin todo[c]
  /\ e \notin present
  /\ Goes(listener, a, "none", "start")
  /\ todo' = [todo EXCEPT ![a] = {e}]
  /\ present' = present \cup {e}
  /\ UNCHANGED <<flagVars, mapVars, slotVars, init, initLock, del, cur, waits,
                 repoVars, syncVars, connVars, procVars>>

DeleteArrives(e) ==
  /\ Dispatches
  /\ e \in Deletes \cap present
  /\ Goes(del, e, "idle", "signal")
  /\ UNCHANGED <<flagVars, mapVars, slotVars, init, initLock, present,
                 listenVars, repoVars, syncVars, connVars, procVars>>

Crash == process' = "crashed"

\* Mutant: only Repo.Start is told.
DeleteSignals_OnlyRefresh(e) ==
  /\ Goes(del, e, "signal", "forget")
  /\ gitRepos[e] # None
  /\ refreshTok' = refreshTok \cup {<<e, gitRepos[e]>>}
  /\ UNCHANGED <<flagVars, mapVars, slotVars, init, initLock, present,
                 listenVars, repo, releaseOn, syncVars, connVars, procVars>>

\* A token into SyncChan and one into RefreshChan of the environment's Repo;
\* with no Repo in the map the nil pointer ends the process.
DeleteSignals(e) ==
  /\ Goes(del, e, "signal", "forget")
  /\ IF gitRepos[e] = None
     THEN Crash /\ UNCHANGED <<syncTok, refreshTok>>
     ELSE /\ syncTok' = syncTok \cup {<<e, gitRepos[e]>>}
          /\ refreshTok' = refreshTok \cup {<<e, gitRepos[e]>>}
          /\ UNCHANGED process
  /\ UNCHANGED <<flagVars, mapVars, slotVars, init, initLock, present,
                 listenVars, repo, releaseOn, syncLoop, interval, connVars,
                 worker>>

\* The two map entries are deleted, the stop channel without being closed,
\* and the namespace goes.
DeleteForgets(e) ==
  /\ Goes(del, e, "forget", "done")
  /\ gitRepos' = [gitRepos EXCEPT ![e] = None]
  /\ stopMap' = [stopMap EXCEPT ![e] = None]
  /\ present' = present \ {e}
  /\ UNCHANGED <<flagVars, closed, slotVars, init, initLock, listenVars,
                 repoVars, syncVars, connVars, procVars>>

-----------------------------------------------------------------------------
\* GitOps.listenEnvs, run by GitOps.WithStop.  The map is read and written
\* without a lock, so another goroutine may come between test and insertion.

ListenStarts(l) ==
  /\ Goes(listener, l, "start",
          IF stopMap[Interval] = None THEN "interval" ELSE "range")
  /\ UNCHANGED <<flagVars, mapVars, slotVars, cmdVars, todo, cur, waits,
                 repoVars, syncVars, connVars, procVars>>

ListenStartsInterval(l) ==
  /\ Goes(listener, l, "interval", "range")
  /\ stopMap' = [stopMap EXCEPT ![Interval] = l]
  /\ interval' = [interval EXCEPT ![l] = "run"]
  /\ UNCHANGED <<flagVars, closed, gitRepos, slotVars, cmdVars, todo, cur,
                 waits, repoVars, syncLoop, syncTok, connVars, procVars>>

\* Is the environment watched already?
ListenChecks(l, e) ==
  /\ listener[l] = "range" /\ e \in todo[l]
  /\ todo' = [todo EXCEPT ![l] = @ \ {e}]
  /\ IF stopMap[e] = None
     THEN /\ listener' = [listener EXCEPT ![l] = "put"]
          /\ cur' = [cur EXCEPT ![l] = e]
     ELSE UNCHANGED <<listener, cur>>
  /\ UNCHANGED <<flagVars, mapVars, slotVars, cmdVars, waits, repoVars,
                 syncVars, connVars, procVars>>

\* Its stop channel is made; the slot is asked for on the channel that the
\* global variable holds now.
ListenPuts(l) ==
  /\ Goes(listener, l, "put", "slot")
  /\ stopMap' = [stopMap EXCEPT ![cur[l]] = l]
  /\ waits' = [waits EXCEPT ![l] = slotChan]
  /\ UNCHANGED <<flagVars, closed, gitRepos, slotVars, cmdVars, todo, cur,
                 repoVars, syncVars, connVars, procVars>>

\* Mutant: the slot channel does not bound.
ListenAcquires_NoSlot(l) ==
  /\ waits[l] # None
  /\ Goes(listener, l, "slot", "range")
  /\ tokens' = [tokens EXCEPT ![waits[l]] = @ + 1]
  /\ repo' = [repo EXCEPT ![<<cur[l], l>>] = "new"]
  /\ gitRepos' = [gitRepos EXCEPT ![cur[l]] = l]
  /\ syncLoop' = [syncLoop EXCEPT ![<<cur[l], l>>] = "eval"]
  /\ cur' = [cur EXCEPT ![l] = None]
  /\ waits' = [waits EXCEPT ![l] = None]
  /\ UNCHANGED <<flagVars, stopMap, closed, slotChan, cmdVars, todo,
                 releaseOn, refreshTok, syncTok, interval, connVars, procVars>>

\* Mutant: a Repo that is in the map is kept.
ListenAcquires_KeepsRepo(l) ==
  /\ waits[l] # None /\ tokens[waits[l]] < SlotSize
  /\ Goes(listener, l, "slot", "range")
  /\ tokens' = [tokens EXCEPT ![waits[l]] = @ + 1]
  /\ repo' = [repo EXCEPT ![<<cur[l], l>>] = "new"]
  /\ gitRepos' = [gitRepos EXCEPT ![cur[l]] = IF @ = None THEN l ELSE @]
  /\ syncLoop' = [syncLoop EXCEPT ![<<cur[l], l>>] = "eval"]
  /\ cur' = [cur EXCEPT ![l] = None]
  /\ waits' = [waits EXCEPT ![l] = None]
  /\ UNCHANGED <<flagVars, stopMap, closed, slotChan, cmdVars, todo,
                 releaseOn, refreshTok, syncTok, interval, connVars, procVars>>

\* The send completes (never on a nil channel), and the goroutines start.
ListenAcquires(l) ==
  /\ waits[l] # None /\ tokens[waits[l]] < SlotSize
  /\ Goes(listener, l, "slot", "range")
  /\ tokens' = [tokens EXCEPT ![waits[l]] = @ + 1]
  /\ repo' = [repo EXCEPT ![<<cur[l], l>>] = "new"]
  /\ gitRepos' = [gitRepos EXCEPT ![cur[l]] = l]
  /\ syncLoop' = [syncLoop EXCEPT ![<<cur[l], l>>] = "eval"]
  /\ cur' = [cur EXCEPT ![l] = None]
  /\ waits' = [waits EXCEPT ![l] = None]
  /\ UNCHANGED <<flagVars, stopMap, closed, slotChan, cmdVars, todo,
                 releaseOn, refreshTok, syncTok, interval, connVars, procVars>>

\* listenEnvs returns; WithStop sets the flag.
ListenFinishes(l) ==
  /\ todo[l] = {}
  /\ Goes(listener, l, "range", "done")
  /\ gitRunning' = TRUE
  /\ UNCHANGED <<initialized, bodies, succeeded, mapVars, slotVars, cmdVars,
                 todo, cur, waits, repoVars, syncVars, connVars, procVars>>

-----------------------------------------------------------------------------
\* Repo.Start.

\* The mirror is cloned; then pushing is found to work.
RepoAdvances(w) ==
  /\ w[1] \notin Broken
  /\ \/ Goes(repo, w, "new", "cloned")
     \/ Goes(repo, w, "cloned", "ready")
  /\ UNCHANGED <<flagVars, mapVars, slotVars, cmdVars, listenVars, releaseOn,
                 refreshTok, syncVars, connVars, procVars>>

\* Either step fails, and Start waits for its timer.
RepoFails(w) ==
  /\ w[1] \notin Broken
  /\ \/ Goes(repo, w, "new", "waitNew")
     \/ Goes(repo, w, "cloned", "waitCloned")
  /\ UNCHANGED <<flagVars, mapVars, slotVars, cmdVars, listenVars, releaseOn,
                 refreshTok, syncVars, connVars, procVars>>

RepoRetries(w) ==
  /\ \/ Goes(repo, w, "waitNew", "new")
     \/ Goes(repo, w, "waitCloned", "cloned")
  /\ UNCHANGED <<flagVars, mapVars, slotVars, cmdVars, listenVars, releaseOn,
                 refreshTok, syncVars, connVars, procVars>>

\* It is stopped while it waits, or returns early: the slot is not released.
RepoReturns(w) ==
  /\ \/ w[1] \in Broken /\ repo[w] = "new" /\ UNCHANGED refreshTok
     \/ repo[w] \in {"waitNew", "waitCloned"} /\ w \in closed
        /\ UNCHANGED refreshTok
     \/ repo[w] \in {"waitNew", "waitCloned"} /\ w \in refreshTok
        /\ refreshTok' = refreshTok \ {w}
  /\ repo' = [repo EXCEPT ![w] = "exited"]
  /\ UNCHANGED <<flagVars, mapVars, slotVars, cmdVars, listenVars, releaseOn,
                 syncVars, connVars, procVars>>

\* Ready: Start receives from the channel the global variable holds now.
RepoReady(w) ==
  /\ Goes(repo, w, "ready", "release")
  /\ releaseOn' = [releaseOn EXCEPT ![w] = slotChan]
  /\ UNCHANGED <<flagVars, mapVars, slotVars, cmdVars, listenVars, refreshTok,
                 syncVars, connVars, procVars>>

\* The token is received.
RepoReleases(w) ==
  /\ Goes(repo, w, "release", "exited")
  /\ tokens[releaseOn[w]] > 0
  /\ tokens' = [tokens EXCEPT ![releaseOn[w]] = @ - 1]
  /\ releaseOn' = [releaseOn EXCEPT ![w] = None]
  /\ UNCHANGED <<flagVars, mapVars, slotChan, cmdVars, listenVars, refreshTok,
                 syncVars, connVars, procVars>>

-----------------------------------------------------------------------------
\* syncLoop and SyncInterval; what they do between two selects is in GitSync.

\* The operands of the select are evaluated, g.gitRepos[namespace].C too.
SyncLoopSelects(w) ==
  /\ Goes(syncLoop, w, "eval", "select")
  /\ IF gitRepos[w[1]] = None THEN Crash ELSE UNCHANGED process
  /\ UNCHANGED <<flagVars, mapVars, slotVars, cmdVars, listenVars, repoVars,
                 syncTok, interval, connVars, worker>>

\* The timer, a refresh or a request for a sync is handled.
SyncLoopWorks(w) ==
  /\ Goes(syncLoop, w, "select", "eval")
  /\ UNCHANGED <<flagVars, mapVars, slotVars, cmdVars, listenVars, repoVars,
                 syncTok, interval, connVars, procVars>>


\* It is told to stop, by Loop or by DeleteEnv.
SyncLoopEnds(w) ==
  /\ Goes(syncLoop, w, "select", "exited")
  /\ \/ w \in closed /\ UNCHANGED syncTok
     \/ w \in syncTok /\ syncTok' = syncTok \ {w}
  /\ UNCHANGED <<flagVars, mapVars, slotVars, cmdVars, listenVars, repoVars,
                 interval, connVars, procVars>>

IntervalEnds(l) ==
  /\ <<Interval, l>> \in closed
  /\ Goes(interval, l, "run", "exited")
  /\ UNCHANGED <<flagVars, mapVars, slotVars, cmdVars, listenVars, repoVars,
                 syncLoop, syncTok, connVars, procVars>>

-----------------------------------------------------------------------------
\* The error branch of the websocket Loop.

LinkDrops ==
  /\ loop = "up" /\ drops < MaxDrops
  /\ loop' = "drop"
  /\ drops' = drops + 1
  /\ UNCHANGED <<flagVars, mapVars, slotVars, cmdVars, listenVars, repoVars,
                 syncVars, toClose, procVars>>

\* Only a running and initialised gitops is stopped.
LoopTests ==
  /\ loop = "drop"
  /\ IF gitRunning /\ initialized
     THEN /\ loop' = "close"
          /\ toClose' = {k \in Keys : stopMap[k] # None}
     ELSE loop' = "sleep" /\ UNCHANGED toClose
  /\ UNCHANGED <<flagVars, mapVars, slotVars, cmdVars, listenVars, repoVars,
                 syncVars, drops, procVars>>

\* Mutant: the entry is deleted and its channel not closed.
LoopCloses_Forgets(k) ==
  /\ loop = "close" /\ stopMap[k] # None
  /\ stopMap' = [stopMap EXCEPT ![k] = None]
  /\ toClose' = toClose \ {k}
  /\ UNCHANGED <<flagVars, closed, gitRepos, slotVars, cmdVars, listenVars, repoVars,
                 syncVars, loop, drops, procVars>>

\* One turn of the range over GitStopChanMap; an entry inserted meanwhile may
\* be visited or not.
LoopCloses(k) ==
  /\ loop = "close" /\ stopMap[k] # None
  /\ closed' = closed \cup {<<k, stopMap[k]>>}
  /\ stopMap' = [stopMap EXCEPT ![k] = None]
  /\ toClose' = toClose \ {k}
  /\ UNCHANGED <<flagVars, gitRepos, slotVars, cmdVars, listenVars, repoVars,
                 syncVars, loop, drops, procVars>>

LoopClearsRunning ==
  /\ loop = "close" /\ \A k \in toClose : stopMap[k] = None
  /\ loop' = "unflag"
  /\ toClose' = {}
  /\ gitRunning' = FALSE
  /\ UNCHANGED <<initialized, bodies, succeeded, mapVars, slotVars, cmdVars,
                 listenVars, repoVars, syncVars, drops, procVars>>

LoopClearsInitialized ==
  /\ loop = "unflag"
  /\ loop' = "sleep"
  /\ initialized' = FALSE
  /\ bodies' = 0 /\ succeeded' = FALSE
  /\ UNCHANGED <<gitRunning, mapVars, slotVars, cmdVars, listenVars, repoVars,
                 syncVars, toClose, drops, procVars>>

LoopReconnects ==
  /\ loop = "sleep"
  /\ loop' = "up"
  /\ UNCHANGED <<flagVars, mapVars, slotVars, cmdVars, listenVars, repoVars,
                 syncVars, toClose, drops, procVars>>

-----------------------------------------------------------------------------
\* Shutdown: options.Run closes the shutdown channel and waits for shutdownWg.

ShutdownBegins ==
  /\ MayShutdown
  /\ process = "up"
  /\ process' = "stopping"
  /\ UNCHANGED <<flagVars, mapVars, slotVars, cmdVars, listenVars, repoVars,
                 syncVars, connVars, worker>>

LoopStops ==
  /\ process = "stopping" /\ loop = "up"
  /\ loop' = "stopped"
  /\ UNCHANGED <<flagVars, mapVars, slotVars, cmdVars, listenVars, repoVars,
                 syncVars, toClose, drops, procVars>>

WorkerStops ==
  /\ process = "stopping" /\ worker = "up"
  /\ worker' = "stopped"
  /\ UNCHANGED <<flagVars, mapVars, slotVars, cmdVars, listenVars, repoVars,
                 syncVars, connVars, process>>

\* shutdownWg counts Loop, the worker and, per watch, Repo.Start (from the
\* moment its slot is asked for) and syncLoop.
WaitGroupIsZero ==
  /\ loop = "stopped" /\ worker = "stopped"
  /\ \A l \in Listeners : listener[l] # "slot"
  /\ \A w \in Watches : /\ repo[w] \in {"none", "exited"}
                        /\ syncLoop[w] \in {"none", "exited"}

ProcessExits ==
  /\ process = "stopping" /\ WaitGroupIsZero
  /\ process' = "exited"
  /\ UNCHANGED <<flagVars, mapVars, slotVars, cmdVars, listenVars, repoVars,
                 syncVars, connVars, worker>>

-----------------------------------------------------------------------------
InitStep(c) ==
  \/ InitLocks(c) \/ InitSkips(c) \/ InitBegins(c) \/ InitSucceeds(c)
  \/ InitUnlocks(c) \/ InitFlags(c)

ListenStep(l) ==
  \/ ListenStarts(l) \/ ListenStartsInterval(l)
  \/ \E e \in Envs : ListenChecks(l, e)
  \/ ListenPuts(l) \/ ListenAcquires(l) \/ ListenFinishes(l)

RepoStep(w) == RepoRetries(w) \/ RepoReturns(w) \/ RepoReady(w) \/ RepoReleases(w)

LoopStep ==
  \/ LoopTests \/ (\E k \in Keys : LoopCloses(k)) \/ LoopClearsRunning
  \/ LoopClearsInitialized \/ LoopReconnects \/ LoopStops

Running == process \in {"up", "stopping"}

Next ==
  /\ Running
  /\ \/ \E c \in Inits : InitArrives(c) \/ InitStep(c) \/ InitFails(c)
     \/ \E a \in Adds, e \in Envs : AddArrives(a, e)
     \/ \E e \in Envs : DeleteArrives(e) \/ DeleteSignals(e) \/ DeleteForgets(e)
     \/ \E l \in Listeners : ListenStep(l) \/ IntervalEnds(l)
     \/ \E w \in Watches : \/ RepoAdvances(w) \/ RepoFails(w) \/ RepoStep(w)
                           \/ SyncLoopSelects(w) \/ SyncLoopWorks(w)
                           \/ SyncLoopEnds(w)
     \/ LinkDrops \/ LoopStep
     \/ ShutdownBegins \/ WorkerStops \/ ProcessExits

Spec == Init /\ [][Next]_vars

\* Every goroutine that can go on does.  A select with several ready cases
\* picks one at random, so a stop that stays ready is taken in the end (SF);
\* git eventually works for a repository that is configured (SF).
Fairness ==
  /\ \A c \in Inits : WF_vars(Running /\ InitStep(c))
  /\ \A e \in Envs : WF_vars(Running /\ (DeleteSignals(e) \/ DeleteForgets(e)))
  /\ \A l \in Listeners : /\ WF_vars(Running /\ ListenStep(l))
                          /\ WF_vars(Running /\ IntervalEnds(l))
  /\ \A w \in Watches : /\ WF_vars(Running /\ RepoStep(w))
                        /\ SF_vars(Running /\ RepoAdvances(w))
                        /\ WF_vars(Running /\ SyncLoopSelects(w))
                        /\ SF_vars(Running /\ SyncLoopEnds(w))
  /\ WF_vars(Running /\ LoopStep)
  /\ WF_vars(Running /\ WorkerStops)
  /\ WF_vars(Running /\ ProcessExits)

FairSpec == Spec /\ Fairness

-----------------------------------------------------------------------------
TypeOK ==
  /\ initialized \in BOOLEAN /\ gitRunning \in BOOLEAN
  /\ initLock \in Inits \cup {None}
  /\ stopMap \in [Keys -> Listeners \cup {None}]
  /\ closed \in SUBSET (Keys \X Listeners)
  /\ slotChan \in Inits \cup {None}
  /\ tokens \in [Inits -> 0 .. SlotSize]
  /\ gitRepos \in [Envs -> Listeners \cup {None}]
  /\ init \in [Inits -> InitStates]
  /\ del \in [Envs -> {"idle", "signal", "forget", "done"}]
  /\ present \in SUBSET Envs
  /\ listener \in [Listeners -> ListenStates]
  /\ todo \in [Listeners -> SUBSET Envs]
  /\ cur \in [Listeners -> Envs \cup {None}]
  /\ waits \in [Listeners -> Inits \cup {None}]
  /\ repo \in [Watches -> RepoStates]
  /\ releaseOn \in [Watches -> Inits \cup {None}]
  /\ refreshTok \in SUBSET Watches /\ syncTok \in SUBSET Watches
  /\ syncLoop \in [Watches -> {"none", "eval", "select", "exited"}]
  /\ interval \in [Listeners -> {"none", "run", "exited"}]
  /\ loop \in {"up", "drop", "close", "unflag", "sleep", "stopped"}
  /\ toClose \in SUBSET Keys
  /\ drops \in 0 .. MaxDrops
  /\ worker \in {"up", "stopped"}
  /\ process \in {"up", "stopping", "exited", "crashed"}
  /\ bodies \in Nat /\ succeeded \in BOOLEAN

LiveLoops == {w \in Watches : syncLoop[w] \in {"eval", "select"}}
LiveRepos == {w \in Watches : repo[w] \notin {"none", "exited"}}

\* A goroutine that watches an environment can always be told to stop: its
\* stop channel is still the one in GitStopChanMap, or is closed, or its Repo
\* has been signalled by DeleteEnv.  In particular no environment is ever
\* watched twice.  The same for the goroutine that serves the timers of all
\* environments.
NoOrphans ==
  /\ \A w \in LiveLoops :
       stopMap[w[1]] = w[2] \/ w \in closed \/ w \in syncTok
  /\ \A l \in Listeners : interval[l] = "run" =>
       stopMap[Interval] = l \/ <<Interval, l>> \in closed

\* Told to stop: by its channel, or by DeleteEnv.
Told == {w \in LiveLoops : w \in closed \/ w \in syncTok}

\* The listeners implement the abstract watches: an environment is taken over
\* only while nobody follows it, and given up only by who was told to.
WatchesRef == INSTANCE Watches WITH
  following <- LiveLoops \ Told,
  leaving <- Told,
  left <- {w \in Watches : syncLoop[w] = "exited"}
ImplementsWatches == WatchesRef!WatchesSpec

\* A loop that has not been told to stop refreshes and clones the mirror its
\* own listener made, not one of an earlier or later generation.
LoopUsesItsRepo ==
  \A w \in LiveLoops : w \notin closed /\ w \notin syncTok => gitRepos[w[1]] = w[2]

\* InitLock "prevents several agent_init commands from initialising repeatedly"
\* (global.go): between two clearings of Initialized the body of InitAgent runs
\* at most once.  Refuted with two agent_init commands at a time.
NoRepeatedInit == bodies <= 1

\* Initialized is set "if agent.InitAgent succeeds" (global.go).  Refuted: one
\* that fails sets it too.
InitializedMeansSuccess == initialized => succeeded

\* The slot channel "controls the concurrency of git repo initialisation"
\* (global.go): at most SlotSize Repo.Start goroutines are at work.
InitConcurrencyBounded == Cardinality(LiveRepos) <= SlotSize

\* A listener is never stuck: every environment of an agent_init gets its
\* slot and its goroutines, although a Repo of the generation before may still
\* be at work or may have returned with its slot taken.
ListenersFinish ==
  \A l \in Listeners : listener[l] = "start" ~> listener[l] = "done" \/ ~Running

\* DeleteEnv ends the environment's loop although it does not close its stop
\* channel, unless the nil Repo ends the process first.
DeletedEnvStops ==
  \A e \in Envs, l \in Listeners :
    del[e] = "done" /\ gitRepos[e] # l ~> <<e, l>> \notin LiveLoops \/ ~Running


\* "graceful shutdown" (options/agent.go): a process told to stop exits.
ShutdownCompletes == process = "stopping" ~> process = "exited"
=============================================================================
