----------------------------- MODULE EnvRegistry -----------------------------
(***************************************************************************)
(* What the agent keeps per environment, and how agent_init, add_env and   *)
(* delete_env change it: the list AgentInitOps.Envs, the ssh_config that   *)
(* git reads, Namespaces, Mgrs, GitRepos and GitStopChanMap.  Every        *)
(* command runs in a goroutine of its own; only Namespaces has a lock.     *)
(*                                                                         *)
(* The list is a slice: append writes into the array behind it while there *)
(* is room, a deletion shifts the array in place, and the listener that    *)
(* agent_init started ranges over the same array.  AgentLifecycle, where   *)
(* the list is a set, has the goroutines that a listener starts.           *)
(***************************************************************************)
EXTENDS Naturals, SequencesExt, FiniteSets

CONSTANTS
  Envs,         \* environments
  Named,        \* those the first agent_init names, in its order
  Adds,         \* those the service may add
  Deletes,      \* those it may delete
  MaxInits,     \* bound on connections, each of which opens with agent_init
  MaxAdds,      \* bound on add_env commands for each environment
  MaxInFlight,  \* bound on commands handled at the same time
  InitAlone,    \* whether agent_init is one of them only by itself
  None

Inits == 1 .. MaxInits

\* The JSON decoder allocates four entries for a list of up to four.
JsonRoom == 4

ASSUME RegistryAssumption ==
  /\ Named \in Seq(Envs) /\ IsInjective(Named) /\ Len(Named) <= JsonRoom
  /\ Adds \subseteq Envs \ ToSet(Named) /\ Deletes \subseteq Envs
  /\ MaxInits \in Nat \ {0} /\ MaxAdds \in Nat /\ MaxInFlight \in Nat \ {0}
  /\ InitAlone \in BOOLEAN /\ None \notin Envs

VARIABLES
  arrays,      \* the arrays behind slices, each of its capacity
  envs,        \* opts.AgentInitOps.Envs: an array and a length
  config,      \* the hosts of /etc/ssh/ssh_config
  namespaces,  \* opts.Namespaces
  mgrs,        \* the keys of opts.Mgrs
  repos,       \* the keys of opts.GitRepos
  stops,       \* the keys of model.GitStopChanMap
  loops,       \* the syncLoop of each environment
  cluster,     \* namespaces that exist
  conn,        \* the current connection
  running,     \* model.GitRunning
  init,        \* progress of each InitAgent
  listen,      \* the listener it starts
  add, adds,   \* progress of AddEnv and commands so far, per environment
  del,         \* progress of DeleteEnv per environment
  process,
  known,       \* the environments the service would name
  failed,      \* history: environments whose command failed
  met          \* history: whether two commands were ever handled at once

heapVars == <<arrays, envs>>
setVars  == <<config, namespaces, mgrs, cluster>>
gitVars  == <<repos, stops, loops, running>>
srvVars  == <<conn, known, adds>>
histVars == <<failed, met>>
vars == <<heapVars, setVars, gitVars, srvVars, histVars, init, listen, add, del, process>>

Empty == [arr |-> 1, len |-> 0]
Elements(s) == {arrays[s.arr][j] : j \in 1 .. s.len}

Init ==
  /\ arrays = << <<>> >> /\ envs = Empty
  /\ config = {} /\ namespaces = {} /\ mgrs = {} /\ cluster = {}
  /\ repos = {} /\ stops = {} /\ running = FALSE
  /\ loops = [e \in Envs |-> "none"]
  /\ conn = 1 /\ known = Named /\ adds = [e \in Envs |-> 0]
  /\ init = [i \in Inits |-> [pc |-> "idle", list |-> <<>>]]
  /\ listen = [i \in Inits |-> [pc |-> "none", slice |-> Empty, pos |-> 0, cur |-> None, cut |-> FALSE]]
  /\ add = [e \in Envs |-> [pc |-> "idle", held |-> Empty, content |-> {}, cut |-> FALSE]]
  /\ del = [e \in Envs |-> [pc |-> "idle", left |-> Empty]]
  /\ process = "up"
  /\ failed = {} /\ met = FALSE

InitsInFlight == {i \in Inits : init[i].pc \notin {"idle", "done"}}
EnvsInFlight ==
  {e \in Envs : add[e].pc \in {"check", "append", "create", "keys", "write", "mgr"}}
    \cup {e \in Envs : del[e].pc \notin {"idle", "done"}}

Arrives ==
  /\ Cardinality(InitsInFlight) + Cardinality(EnvsInFlight) < MaxInFlight
  /\ met' = (met \/ InitsInFlight # {} \/ EnvsInFlight # {})

-----------------------------------------------------------------------------
\* InitAgent, once for each connection: Initialized keeps others out.

InitGoes(i, from, to) == init[i].pc = from /\ init' = [init EXCEPT ![i].pc = to]

InitArrives(i) ==
  /\ conn = i /\ init[i].pc = "idle"
  /\ Arrives /\ (InitAlone => EnvsInFlight = {})
  /\ init' = [init EXCEPT ![i] = [pc |-> "keys", list |-> known]]
  /\ UNCHANGED <<heapVars, setVars, gitVars, srvVars, failed, listen, add, del, process>>

\* PrepareSSHKeys writes the configuration anew, from the list of the command.
InitWrites(i) ==
  /\ InitGoes(i, "keys", "create")
  /\ config' = ToSet(init[i].list)
  /\ UNCHANGED <<heapVars, namespaces, mgrs, cluster, gitVars, srvVars, histVars, listen, add, del, process>>

\* createNamespace for each of them; then Namespaces.Set.
InitCreates(i) ==
  /\ InitGoes(i, "create", "mgrs")
  /\ cluster' = cluster \cup ToSet(init[i].list)
  /\ namespaces' = ToSet(init[i].list)
  /\ UNCHANGED <<heapVars, config, mgrs, gitVars, srvVars, histVars, listen, add, del, process>>

\* A manager for each namespace that has none.
InitManages(i) ==
  /\ InitGoes(i, "mgrs", "store")
  /\ mgrs' = mgrs \cup ToSet(init[i].list)
  /\ UNCHANGED <<heapVars, config, namespaces, cluster, gitVars, srvVars, histVars, listen, add, del, process>>

\* Only now the list is stored, and the listener ranges over its array.
InitStores(i) ==
  /\ InitGoes(i, "store", "done")
  /\ LET list == init[i].list
         s    == [arr |-> Len(arrays) + 1, len |-> Len(list)]
     IN  /\ arrays' = Append(arrays, [j \in 1 .. Max({JsonRoom, Len(list)}) |-> IF j <= Len(list) THEN list[j] ELSE None])
         /\ envs' = s
         /\ listen' = [listen EXCEPT ![i].pc = "range", ![i].slice = s]
  /\ UNCHANGED <<setVars, gitVars, srvVars, histVars, add, del, process>>

\* An error ends it after some of the namespaces or managers; the agent counts
\* as initialised all the same.
InitFails(i) ==
  /\ \E n \in 0 .. Len(init[i].list) :
       LET some == ToSet(SubSeq(init[i].list, 1, n)) IN
       \/ init[i].pc = "keys" /\ n = 0 /\ UNCHANGED <<cluster, mgrs>>
       \/ init[i].pc = "create" /\ cluster' = cluster \cup some /\ UNCHANGED mgrs
       \/ init[i].pc = "mgrs" /\ mgrs' = mgrs \cup some /\ UNCHANGED cluster
  /\ init' = [init EXCEPT ![i].pc = "done"]
  /\ failed' = failed \cup ToSet(init[i].list)
  /\ UNCHANGED <<met, heapVars, config, namespaces, gitVars, srvVars, listen, add, del, process>>

-----------------------------------------------------------------------------
\* AddEnv.

AddGoes(e, from, to) == add[e].pc = from /\ add' = [add EXCEPT ![e].pc = to]

AddArrives(e) ==
  /\ e \in Adds /\ adds[e] < MaxAdds
  /\ add[e].pc \in {"idle", "failed"} /\ del[e].pc = "idle"
  /\ init[1].pc # "idle" /\ \A i \in InitsInFlight : e \notin ToSet(init[i].list)
  /\ Arrives /\ (InitAlone => InitsInFlight = {})
  /\ add' = [add EXCEPT ![e].pc = "check"]
  /\ adds' = [adds EXCEPT ![e] = @ + 1]
  /\ known' = IF Contains(known, e) THEN known ELSE Append(known, e)
  /\ UNCHANGED <<heapVars, setVars, gitVars, conn, failed, init, listen, del, process>>

\* A namespace that exists is refused; the header of the slice is read.
AddChecks(e) ==
  /\ add[e].pc = "check" /\ e \notin cluster
  /\ add' = [add EXCEPT ![e].pc = "append", ![e].held = envs]
  /\ UNCHANGED <<heapVars, setVars, gitVars, srvVars, histVars, init, listen, del, process>>

\* Mutant: the test for room is off by one.
AddAppends_NoRoom(e) ==
  /\ AddGoes(e, "append", "create")
  /\ LET s == add[e].held
         a == arrays[s.arr]
         bigger == [j \in 1 .. Max({1, 2 * s.len}) |-> IF j <= s.len THEN a[j] ELSE None]
     IN  IF s.len <= Len(a)
         THEN /\ arrays' = [arrays EXCEPT ![s.arr] = [j \in DOMAIN a |-> IF j = s.len + 1 THEN e ELSE a[j]]]
              /\ envs' = [s EXCEPT !.len = @ + 1]
         ELSE /\ arrays' = Append(arrays, [bigger EXCEPT ![s.len + 1] = e])
              /\ envs' = [arr |-> Len(arrays) + 1, len |-> s.len + 1]
  /\ namespaces' = namespaces \cup {e}
  /\ UNCHANGED <<config, mgrs, cluster, gitVars, srvVars, histVars, init, listen, del, process>>

\* append: in place while the array has room, else into one of twice the size.
AddAppends(e) ==
  /\ AddGoes(e, "append", "create")
  /\ LET s == add[e].held
         a == arrays[s.arr]
         bigger == [j \in 1 .. Max({1, 2 * s.len}) |-> IF j <= s.len THEN a[j] ELSE None]
     IN  IF s.len < Len(a)
         THEN /\ arrays' = [arrays EXCEPT ![s.arr][s.len + 1] = e]
              /\ envs' = [s EXCEPT !.len = @ + 1]
         ELSE /\ arrays' = Append(arrays, [bigger EXCEPT ![s.len + 1] = e])
              /\ envs' = [arr |-> Len(arrays) + 1, len |-> s.len + 1]
  /\ namespaces' = namespaces \cup {e}
  /\ UNCHANGED <<config, mgrs, cluster, gitVars, srvVars, histVars, init, listen, del, process>>

AddCreates(e) ==
  /\ AddGoes(e, "create", "keys")
  /\ cluster' = cluster \cup {e}
  /\ UNCHANGED <<heapVars, config, namespaces, mgrs, gitVars, srvVars, histVars, init, listen, del, process>>

\* Mutant: only the new environment is written.
AddReads_OnlyNew(e) ==
  /\ add[e].pc = "keys"
  /\ add' = [add EXCEPT ![e].pc = "write", ![e].content = {e}]
  /\ UNCHANGED <<heapVars, setVars, gitVars, srvVars, histVars, init, listen, del, process>>

\* PrepareSSHKeys goes through the list as it is now ...
AddReads(e) ==
  /\ add[e].pc = "keys"
  /\ add' = [add EXCEPT ![e].pc = "write", ![e].content = Elements(envs)]
  /\ UNCHANGED <<heapVars, setVars, gitVars, srvVars, histVars, init, listen, del, process>>

\* Mutant: the listener is started without a manager.
AddWrites_NoManager(e) ==
  /\ AddGoes(e, "write", "listen")
  /\ config' = add[e].content
  /\ UNCHANGED <<heapVars, namespaces, mgrs, cluster, gitVars, srvVars, histVars, init, listen, del, process>>

\* ... and writes the configuration when it has written all the keys.
AddWrites(e) ==
  /\ AddGoes(e, "write", "mgr")
  /\ config' = add[e].content
  /\ UNCHANGED <<heapVars, namespaces, mgrs, cluster, gitVars, srvVars, histVars, init, listen, del, process>>

\* A manager; the command ends with a listener for the one environment.
AddManages(e) ==
  /\ AddGoes(e, "mgr", "listen")
  /\ mgrs' = mgrs \cup {e}
  /\ UNCHANGED <<heapVars, config, namespaces, cluster, gitVars, srvVars, histVars, init, listen, del, process>>

\* Refused, or no namespace, no keys or no manager can be made.
AddFails(e) ==
  /\ \/ add[e].pc = "check" /\ e \in cluster
     \/ add[e].pc \in {"create", "keys", "write", "mgr"}
  /\ add' = [add EXCEPT ![e].pc = "failed"]
  /\ failed' = failed \cup {e}
  /\ UNCHANGED <<met, heapVars, setVars, gitVars, srvVars, init, listen, del, process>>

-----------------------------------------------------------------------------
\* DeleteEnv.

DeleteGoes(e, from, to) == del[e].pc = from /\ del' = [del EXCEPT ![e].pc = to]

DeleteArrives(e) ==
  /\ e \in Deletes \cap cluster /\ Contains(known, e)
  /\ init[1].pc # "idle" /\ del[e].pc = "idle"
  /\ Arrives /\ (InitAlone => InitsInFlight = {})
  /\ del' = [del EXCEPT ![e].pc = "list"]
  /\ known' = RemoveAt(known, CHOOSE n \in DOMAIN known : known[n] = e)
  /\ UNCHANGED <<heapVars, setVars, gitVars, conn, adds, failed, init, listen, add, process>>

\* Mutant: the entry itself is kept, the one after it goes.
Shift_Next(a, n, i) == [j \in DOMAIN a |-> IF j \in i + 1 .. n - 1 THEN a[j + 1] ELSE a[j]]

\* append(a[0:i], a[i+1:]...) within an array of which n entries are used.
Shift(a, n, i) == [j \in DOMAIN a |-> IF j \in i .. n - 1 THEN a[j + 1] ELSE a[j]]

\* The range goes on over the array it has shifted.
Scan(a, n, e) ==
  LET s[i \in 0 .. n] == IF i = 0 THEN a
                         ELSE IF s[i - 1][i] = e THEN Shift(s[i - 1], n, i) ELSE s[i - 1]
  IN  s[n]

\* Namespaces.Remove; the entry is shifted out of the array.  What is not in
\* the list leaves an empty one.
DeleteShifts(e) ==
  /\ del[e].pc = "list"
  /\ namespaces' = namespaces \ {e}
  /\ arrays' = [arrays EXCEPT ![envs.arr] = Scan(@, envs.len, e)]
  /\ del' = [del EXCEPT ![e].pc = "store",
                        ![e].left = IF e \in Elements(envs) THEN [envs EXCEPT !.len = @ - 1] ELSE Empty]
  /\ UNCHANGED <<envs, config, mgrs, cluster, gitVars, srvVars, histVars, init, listen, add, process>>

\* Mgrs.Remove, which stops the manager, and the new list.
DeleteStores(e) ==
  /\ DeleteGoes(e, "store", "signal")
  /\ mgrs' = mgrs \ {e}
  /\ envs' = del[e].left
  /\ UNCHANGED <<arrays, config, namespaces, cluster, gitVars, srvVars, histVars, init, listen, add, process>>

\* The Repo is told and the map entries go; without a Repo it is the end of
\* the process.
DeleteSignals(e) ==
  /\ DeleteGoes(e, "signal", "namespace")
  /\ IF e \in repos
     THEN /\ loops' = [loops EXCEPT ![e] = IF @ = "none" THEN @ ELSE "told"]
          /\ repos' = repos \ {e} /\ stops' = stops \ {e}
          /\ UNCHANGED process
     ELSE process' = "crashed" /\ UNCHANGED <<loops, repos, stops>>
  /\ UNCHANGED <<heapVars, setVars, running, srvVars, histVars, init, listen, add>>

\* The namespace is deleted, or the error logged.
DeleteFinishes(e) ==
  /\ DeleteGoes(e, "namespace", "done")
  /\ cluster' \in {cluster, cluster \ {e}}
  /\ UNCHANGED <<heapVars, config, namespaces, mgrs, gitVars, srvVars, histVars, init, listen, add, process>>

-----------------------------------------------------------------------------
\* listenEnvs.  Waiting for a slot is AgentLifecycle's; here it ends some time.

\* The range reads the array as it is now.
ListenVisits(i) ==
  /\ listen[i].pc = "range" /\ listen[i].pos < listen[i].slice.len
  /\ LET n == listen[i].pos + 1
         e == arrays[listen[i].slice.arr][n]
     IN  /\ listen' = [listen EXCEPT ![i].pos = n, ![i].cur = e, ![i].cut = FALSE,
                                     ![i].pc = IF e \in stops THEN @ ELSE "slot"]
         /\ stops' = stops \cup {e}
  /\ UNCHANGED <<heapVars, setVars, repos, loops, running, srvVars, histVars, init, add, del, process>>

\* The Repo is stored and the loop starts, with a stop channel that may have
\* been closed meanwhile; which of two Repos is kept is AgentLifecycle's.
Starts(e, cut) ==
  /\ repos' = repos \cup {e}
  /\ loops' = [loops EXCEPT ![e] = IF cut /\ @ # "on" THEN "told" ELSE "on"]

ListenAcquires(i) ==
  /\ listen[i].pc = "slot"
  /\ listen' = [listen EXCEPT ![i].pc = "range"]
  /\ Starts(listen[i].cur, listen[i].cut)
  /\ UNCHANGED <<heapVars, setVars, stops, running, srvVars, histVars, init, add, del, process>>

ListenFinishes(i) ==
  /\ listen[i].pc = "range" /\ listen[i].pos = listen[i].slice.len
  /\ listen' = [listen EXCEPT ![i].pc = "done"]
  /\ running' = TRUE
  /\ UNCHANGED <<heapVars, setVars, repos, stops, loops, srvVars, histVars, init, add, del, process>>

\* The listener of AddEnv.
AddListens(e) ==
  /\ AddGoes(e, "listen", IF e \in stops THEN "watched" ELSE "slot")
  /\ stops' = stops \cup {e}
  /\ UNCHANGED <<heapVars, setVars, repos, loops, running, srvVars, histVars, init, listen, del, process>>

AddAcquires(e) ==
  /\ AddGoes(e, "slot", "watched")
  /\ Starts(e, add[e].cut)
  /\ UNCHANGED <<heapVars, setVars, stops, running, srvVars, histVars, init, listen, del, process>>

AddFinishes(e) ==
  /\ AddGoes(e, "watched", "done")
  /\ running' = TRUE
  /\ UNCHANGED <<heapVars, setVars, repos, stops, loops, srvVars, histVars, init, listen, del, process>>

\* A sync lists the releases with the client of the environment's manager,
\* Mgrs.Get(namespace).GetClient(): without one it is the end of the process.
ExportPanics(e) ==
  /\ loops[e] # "none" /\ e \notin mgrs
  /\ process' = "crashed"
  /\ UNCHANGED <<heapVars, setVars, gitVars, srvVars, histVars, init, listen, add, del>>

LoopEnds(e) ==
  /\ loops[e] = "told"
  /\ loops' = [loops EXCEPT ![e] = "none"]
  /\ UNCHANGED <<heapVars, setVars, repos, stops, running, srvVars, histVars, init, listen, add, del, process>>

\* Mutant: the stop channels are closed and their entries stay.
Reconnects_KeepsStops ==
  /\ running /\ conn < MaxInits /\ init[conn].pc = "done"
  /\ conn' = conn + 1 /\ running' = FALSE
  /\ loops' = [e \in Envs |-> IF loops[e] = "on" /\ e \in stops THEN "told" ELSE loops[e]]
  /\ listen' = [i \in Inits |-> [listen[i] EXCEPT !.cut = @ \/ (listen[i].pc = "slot" /\ listen[i].cur \in stops)]]
  /\ add' = [e \in Envs |-> [add[e] EXCEPT !.cut = @ \/ (add[e].pc = "slot" /\ e \in stops)]]
  /\ UNCHANGED <<heapVars, setVars, repos, stops, known, adds, histVars, init, del, process>>

\* The connection is lost: Loop closes every stop channel, if gitops runs and
\* the agent is initialised.  Repos, managers and the list stay, and commands
\* in flight go on.
Reconnects ==
  /\ running /\ conn < MaxInits /\ init[conn].pc = "done"
  /\ conn' = conn + 1 /\ running' = FALSE /\ stops' = {}
  /\ loops' = [e \in Envs |-> IF loops[e] = "on" /\ e \in stops THEN "told" ELSE loops[e]]
  /\ listen' = [i \in Inits |-> [listen[i] EXCEPT !.cut = @ \/ (listen[i].pc = "slot" /\ listen[i].cur \in stops)]]
  /\ add' = [e \in Envs |-> [add[e] EXCEPT !.cut = @ \/ (add[e].pc = "slot" /\ e \in stops)]]
  /\ UNCHANGED <<heapVars, setVars, repos, known, adds, histVars, init, del, process>>

InitStep(i) ==
  \/ InitArrives(i) \/ InitWrites(i) \/ InitCreates(i) \/ InitManages(i) \/ InitStores(i) \/ InitFails(i)

AddStep(e) ==
  \/ AddArrives(e) \/ AddChecks(e) \/ AddAppends(e) \/ AddCreates(e) \/ AddReads(e)
  \/ AddWrites(e) \/ AddManages(e) \/ AddFails(e) \/ AddListens(e) \/ AddAcquires(e) \/ AddFinishes(e)

DeleteStep(e) ==
  \/ DeleteArrives(e) \/ DeleteShifts(e) \/ DeleteStores(e) \/ DeleteSignals(e) \/ DeleteFinishes(e)

Next ==
  /\ process = "up"
  /\ \/ \E i \in Inits : InitStep(i) \/ ListenVisits(i) \/ ListenAcquires(i) \/ ListenFinishes(i)
     \/ \E e \in Envs : AddStep(e) \/ DeleteStep(e) \/ ExportPanics(e) \/ LoopEnds(e)
     \/ Reconnects

Spec == Init /\ [][Next]_vars

-----------------------------------------------------------------------------
Slices == [arr : DOMAIN arrays, len : Nat]

\* No slice is longer than its array, and what it holds are environments.
TypeOK ==
  /\ arrays \in Seq(Seq(Envs \cup {None})) /\ envs \in Slices
  /\ config \subseteq Envs /\ namespaces \subseteq Envs /\ mgrs \subseteq Envs
  /\ cluster \subseteq Envs /\ repos \subseteq Envs /\ stops \subseteq Envs
  /\ loops \in [Envs -> {"none", "on", "told"}]
  /\ conn \in Inits /\ known \in Seq(Envs) /\ running \in BOOLEAN
  /\ \A s \in {envs} \cup {listen[i].slice : i \in Inits} \cup {del[e].left : e \in Envs} :
       s.len <= Len(arrays[s.arr]) /\ Elements(s) \subseteq Envs
  /\ failed \subseteq Envs /\ met \in BOOLEAN
  /\ process \in {"up", "crashed"}

Quiet == process = "up" /\ InitsInFlight = {} /\ EnvsInFlight = {}

\* The environments with a loop, or with a listener that waits to start one.
Watched ==
  {e \in Envs : loops[e] = "on" \/ (add[e].pc = "slot" /\ ~add[e].cut)}
    \cup {listen[j].cur : j \in {j \in Inits : listen[j].pc = "slot" /\ ~listen[j].cut}}

\* A listener of agent_init reaches the environments of its list, although
\* deletions shift the array under its range and add_env then writes over its
\* end: each deletion costs one environment at the most.
NoneSkipped ==
  \A i \in Inits : listen[i].pc = "done" /\ conn = i =>
    LET gone == {e \in Envs : del[e].pc # "idle"}
    IN  Cardinality(ToSet(init[i].list) \ (Watched \cup gone)) <= Cardinality(gone)

\* An environment that was added again, after a failure, is in the list more
\* than once.
Repeated == {e \in Envs : adds[e] > 1}

\* While commands are handled one at a time, the list and Namespaces are what
\* they said: the environments named and added, without those deleted.  The
\* deletion of one that is in the list several times may leave a later entry
\* there twice.
ListFollowsCommands ==
  Quiet /\ ~met /\ (\A e \in Repeated : del[e].pc = "idle") =>
    /\ Elements(envs) \ failed = namespaces \ failed
    /\ envs.len # Cardinality(Elements(envs)) => failed # {}
    /\ \A e \in Envs : add[e].pc = "done" /\ del[e].pc = "idle" => e \in namespaces
    /\ \A e \in Envs : del[e].pc = "done" => e \notin namespaces

\* While commands are handled one at a time, git finds the host of every
\* environment that is synchronised.
ConfigNamesWatched ==
  Quiet /\ ~met =>
    \A e \in Envs \ failed : loops[e] = "on" /\ del[e].pc = "idle" => e \in config

\* An environment that is synchronised has a manager, which Export needs, and
\* is one of the namespaces that resources are reported for; but for one that
\* the listener of agent_init finds in its array while AddEnv is still at it.
WatchedIsManaged ==
  \A e \in Envs \ (failed \cup EnvsInFlight) :
    loops[e] = "on" /\ del[e].pc = "idle" => e \in mgrs /\ e \in namespaces

\* Refuted with one deletion: no environment of agent_init is passed over.
EveryEnvIsReached ==
  \A i \in Inits : listen[i].pc = "done" /\ conn = i =>
    \A e \in ToSet(init[i].list) : del[e].pc = "idle" => e \in Watched
=============================================================================
