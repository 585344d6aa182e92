------------------------------ MODULE GitSync ------------------------------
(***************************************************************************)
(* How one environment follows its configuration repository                *)
(* (pkg/gitops/gitops_sync.go, pkg/git/repo.go).  The DevOps service moves *)
(* the tag devops-sync; syncLoop notices through a mirror, applies what    *)
(* changed since the tag agent-sync to the cluster, reports an event and   *)
(* moves agent-sync.  SyncInterval fetches for the loop's timer, DoSync    *)
(* for a command of the service.                                           *)
(*                                                                         *)
(* A reconnection stops a generation (AgentLifecycle) and starts the next  *)
(* with a Repo and a syncLoop of its own; the stopped loop finishes the    *)
(* sync it is in, and looks the Repo up in the map that by then holds the  *)
(* new one.  A restart of the process kills the loop wherever it is.       *)
(*                                                                         *)
(* A file of the repository holds one resource; a revision is the function *)
(* from resources to versions it defines.                                  *)
(***************************************************************************)
EXTENDS Naturals, Sequences

CONSTANTS
  Resources,     \* resources of the environment
  Versions,      \* versions a resource can have
  Absent,        \* ... or none
  MaxRevs,       \* bound on the revisions the service tags
  MaxGens,       \* bound on reconnections and restarts: generations
  FaultKinds,    \* what may go wrong
  MaxFaults,     \* bound on how often
  ResponseCap,   \* capacity of ResponseChan
  MayReconnect,  \* whether a new generation may overlap its predecessor
  MayRestart,    \* whether the process may crash
  MayCommand,    \* whether the service may send a sync command
  MayTick        \* whether the sync interval may run out

AllFaultKinds == {"fetch", "head", "sync", "apply", "push", "link"}

ASSUME GitSyncAssumption ==
  /\ Absent \notin Versions
  /\ MaxRevs \in Nat \ {0} /\ MaxGens \in Nat \ {0} /\ MaxFaults \in Nat
  /\ ResponseCap \in Nat \ {0}
  /\ FaultKinds \subseteq AllFaultKinds
  /\ MayReconnect \in BOOLEAN /\ MayRestart \in BOOLEAN /\ MayCommand \in BOOLEAN
  /\ MayTick \in BOOLEAN

Contents == [Resources -> Versions \cup {Absent}]
Gens == 1 .. MaxGens
NoTags == [devops |-> 0, agent |-> 0]
NoCheckout == [old |-> 0, new |-> 0, stale |-> {}, tried |-> {}, errors |-> {}]

VARIABLES
  history,     \* the revisions; devops-sync is on the last one
  agentTag,    \* the revision agent-sync is on in the remote, 0 for none
  cluster,     \* the managed resources of the namespace
  gen,         \* the generation whose Repo is in GitOps.gitRepos
  stopped,     \* generations whose stop channel is closed
  status,      \* Repo.status per generation
  mirror,      \* the two tags in its mirror
  refreshTok,  \* Repos whose C holds a token
  pc,          \* syncLoop per generation
  watch,       \* the Repo whose C its select waits for
  syncSoon,    \* loops whose syncSoon holds a token
  timer,       \* its syncTimer: running, fired (a tick to be received) or off
  head,        \* its syncHead
  checkout,    \* its doSync: old and new revision, stale, tried and failed
  syncChan,    \* loops whose timer waits in the channel SyncChan
  faults,      \* what has gone wrong so far, counted
  queue,       \* ResponseChan: the revisions whose sync event waits in it
  told,        \* those whose event has reached the service
  swallowed,   \* history: those whose event was written to a dead link
  reported     \* history: resources whose last attempt failed, by its event

repoVars == <<gen, stopped, status, mirror, refreshTok>>
loopVars == <<pc, watch, syncSoon, timer, head, checkout>>
logVars  == <<queue, told, swallowed, reported>>
vars == <<history, agentTag, cluster, repoVars, loopVars, syncChan, faults, logVars>>

LoopStates == {"none", "select", "clone", "export", "delete", "apply", "report", "push",
               "refresh", "stopped", "dead"}
Syncing == {"clone", "export", "delete", "apply", "report", "push", "refresh"}

Init ==
  /\ \E c \in Contents : history = <<c>>
  /\ agentTag = 0
  /\ cluster = [r \in Resources |-> Absent]
  /\ gen = 1 /\ stopped = {}
  /\ status = [g \in Gens |-> "new"]
  /\ mirror = [g \in Gens |-> NoTags]
  /\ refreshTok = {}
  /\ pc = [g \in Gens |-> IF g = 1 THEN "select" ELSE "none"]
  /\ watch = [g \in Gens |-> g]
  /\ syncSoon = {1}
  /\ timer = [g \in Gens |-> "running"]
  /\ head = [g \in Gens |-> 0]
  /\ checkout = [g \in Gens |-> NoCheckout]
  /\ syncChan = {} /\ faults = 0
  /\ queue = <<>> /\ told = {} /\ swallowed = {} /\ reported = {}

Fault(kind) ==
  /\ kind \in FaultKinds /\ faults < MaxFaults
  /\ faults' = faults + 1

\* The service commits a revision and moves devops-sync to it.
Commits(c) ==
  /\ Len(history) < MaxRevs
  /\ history' = Append(history, c)
  /\ UNCHANGED <<agentTag, cluster, repoVars, loopVars, syncChan, faults, logVars>>

-----------------------------------------------------------------------------
\* Repo.

Fetched == [devops |-> Len(history), agent |-> agentTag]

\* Repo.Start of the current generation: the mirror is made, then found fit
\* for pushing, which counts as a refresh.
StartClones ==
  /\ status[gen] = "new"
  /\ status' = [status EXCEPT ![gen] = "cloned"]
  /\ mirror' = [mirror EXCEPT ![gen] = Fetched]
  /\ UNCHANGED <<history, agentTag, cluster, gen, stopped, refreshTok, loopVars,
                 syncChan, faults, logVars>>

StartGetsReady ==
  /\ status[gen] = "cloned"
  /\ status' = [status EXCEPT ![gen] = "ready"]
  /\ refreshTok' = refreshTok \cup {gen}
  /\ UNCHANGED <<history, agentTag, cluster, gen, stopped, mirror, loopVars,
                 syncChan, faults, logVars>>

Ready == status[gen] = "ready"

\* Repo.Refresh on the Repo in the map: fetch, and a token into C unless one
\* is there.
RefreshSucceeds ==
  /\ Ready
  /\ mirror' = [mirror EXCEPT ![gen] = Fetched]
  /\ refreshTok' = refreshTok \cup {gen}
  /\ UNCHANGED faults

RefreshFails ==
  /\ \/ ~Ready /\ UNCHANGED faults
     \/ Ready /\ Fault("fetch")
  /\ UNCHANGED <<mirror, refreshTok>>

\* The command git_ops_sync of the service.
DoSync ==
  /\ MayCommand
  /\ RefreshSucceeds \/ RefreshFails
  /\ UNCHANGED <<history, agentTag, cluster, gen, stopped, status, loopVars,
                 syncChan, logVars>>

-----------------------------------------------------------------------------
\* SyncInterval.

IntervalRefreshes(g) ==
  /\ g \in syncChan
  /\ syncChan' = syncChan \ {g}
  /\ RefreshSucceeds
  /\ UNCHANGED <<history, agentTag, cluster, gen, stopped, status, loopVars, logVars>>

\* On an error a timer that is not running is reset; one that is running is
\* stopped by the test.
IntervalFails(g) ==
  /\ g \in syncChan
  /\ syncChan' = syncChan \ {g}
  /\ RefreshFails
  /\ timer' = [timer EXCEPT ![g] = IF @ = "running" THEN "off" ELSE "running"]
  /\ UNCHANGED <<history, agentTag, cluster, gen, stopped, status, pc, watch,
                 syncSoon, head, checkout, logVars>>

-----------------------------------------------------------------------------
\* syncLoop: one action per case of its select.

TimerFires(g) ==
  /\ MayTick
  /\ pc[g] \notin {"none", "stopped", "dead"} /\ timer[g] = "running"
  /\ timer' = [timer EXCEPT ![g] = "fired"]
  /\ UNCHANGED <<history, agentTag, cluster, repoVars, pc, watch, syncSoon,
                 head, checkout, syncChan, faults, logVars>>

\* Back in the select, whose operand is the C of the Repo in the map.
Selects(g) ==
  /\ pc' = [pc EXCEPT ![g] = "select"]
  /\ watch' = [watch EXCEPT ![g] = gen]

TakesStop(g) ==
  /\ pc[g] = "select" /\ g \in stopped
  /\ pc' = [pc EXCEPT ![g] = "stopped"]
  /\ UNCHANGED <<history, agentTag, cluster, repoVars, watch, syncSoon, timer,
                 head, checkout, syncChan, faults, logVars>>

TakesTimer(g) ==
  /\ pc[g] = "select" /\ timer[g] = "fired"
  /\ timer' = [timer EXCEPT ![g] = "off"]
  /\ syncChan' = syncChan \cup {g}
  /\ Selects(g)
  /\ UNCHANGED <<history, agentTag, cluster, repoVars, syncSoon, head, checkout,
                 faults, logVars>>

TakesRefreshed(g) ==
  /\ pc[g] = "select" /\ watch[g] \in refreshTok
  /\ refreshTok' = refreshTok \ {watch[g]}
  /\ Selects(g)
  /\ UNCHANGED <<history, agentTag, cluster, gen, stopped, status, mirror,
                 checkout, syncChan, logVars>>

\* Mutant: nobody is asked for a sync.
HeadMoved_Silent(g) ==
  /\ Ready /\ mirror[gen].devops # head[g]
  /\ head' = [head EXCEPT ![g] = mirror[gen].devops]
  /\ UNCHANGED <<syncSoon, timer, faults>>

\* The tag devops-sync is on another revision than the last one seen.
HeadMoved(g) ==
  /\ Ready /\ mirror[gen].devops # head[g]
  /\ head' = [head EXCEPT ![g] = mirror[gen].devops]
  /\ syncSoon' = syncSoon \cup {g}
  /\ UNCHANGED <<timer, faults>>

HeadUnchanged(g) ==
  /\ Ready /\ mirror[gen].devops = head[g]
  /\ timer' = [timer EXCEPT ![g] = "running"]
  /\ UNCHANGED <<syncSoon, head, faults>>

\* Revision returns an error: the loop continues, the timer is left alone.
HeadFails(g) ==
  /\ \/ ~Ready /\ UNCHANGED faults
     \/ Ready /\ Fault("head")
  /\ UNCHANGED <<syncSoon, head, timer>>

SeesRefresh(g) ==
  TakesRefreshed(g) /\ (HeadMoved(g) \/ HeadUnchanged(g) \/ HeadFails(g))

TakesSyncSoon(g) ==
  /\ pc[g] = "select" /\ g \in syncSoon
  /\ syncSoon' = syncSoon \ {g}
  /\ timer' = [timer EXCEPT ![g] = "off"]
  /\ pc' = [pc EXCEPT ![g] = "clone"]
  /\ UNCHANGED <<history, agentTag, cluster, repoVars, watch, head, checkout,
                 syncChan, faults, logVars>>

-----------------------------------------------------------------------------
\* doSync.

\* Mutant: the timer is not started again.
Returns_NoTimer(g) ==
  /\ Selects(g)
  /\ checkout' = [checkout EXCEPT ![g] = NoCheckout]
  /\ UNCHANGED timer

\* Mutant: the working clone is not removed.
Returns_NoClean(g) ==
  /\ Selects(g)
  /\ timer' = [timer EXCEPT ![g] = "running"]
  /\ UNCHANGED checkout

\* It returns, with or without an error: the working clone is
\* removed and the timer started again.
Returns(g) ==
  /\ Selects(g)
  /\ timer' = [timer EXCEPT ![g] = "running"]
  /\ checkout' = [checkout EXCEPT ![g] = NoCheckout]

\* A working clone of the mirror; both tags are read in it.
Clones(g) ==
  /\ pc[g] = "clone" /\ Ready
  /\ checkout' = [checkout EXCEPT ![g] = [@ EXCEPT !.old = mirror[gen].agent,
                                                   !.new = mirror[gen].devops]]
  /\ pc' = [pc EXCEPT ![g] = "export"]
  /\ UNCHANGED <<history, agentTag, cluster, repoVars, watch, syncSoon, timer,
                 head, syncChan, faults, logVars>>

\* No clone, a tag that cannot be read, manifests that do not load, a cluster
\* that cannot be exported: nothing has been changed yet.
SyncFails(g) ==
  /\ \/ pc[g] = "clone" /\ ~Ready /\ UNCHANGED faults
     \/ pc[g] \in {"clone", "export"} /\ Ready /\ Fault("sync")
  /\ Returns(g)
  /\ UNCHANGED <<history, agentTag, cluster, repoVars, syncSoon, head, syncChan,
                 logVars>>

\* Mutant: nothing is to be deleted.
Stale_None(g) == {}

\* What the cluster has and the revision has not.
Stale(g) == {r \in Resources : /\ cluster[r] # Absent
                               /\ history[checkout[g].new][r] = Absent}

\* The export of the cluster is compared with the revision.
Exports(g) ==
  /\ pc[g] = "export"
  /\ checkout' = [checkout EXCEPT ![g].stale = Stale(g)]
  /\ pc' = [pc EXCEPT ![g] = "delete"]
  /\ UNCHANGED <<history, agentTag, cluster, repoVars, watch, syncSoon, timer,
                 head, syncChan, faults, logVars>>

\* kubectl is asked for a set of operations; each may fail by itself.
Failures(ops) == {{}} \cup (IF "apply" \in FaultKinds THEN SUBSET ops ELSE {})

Attempts(g, ops, bad) ==
  checkout' = [checkout EXCEPT ![g] = [@ EXCEPT !.tried = checkout[g].tried \cup ops,
                                                !.errors = checkout[g].errors \cup bad]]

\* The cluster is locked from here until the last apply.
Deletes(g) ==
  /\ pc[g] = "delete" /\ \A h \in Gens : pc[h] # "apply"
  /\ LET stale == checkout[g].stale IN
       \E bad \in Failures(stale) :
         /\ cluster' = [r \in Resources |-> IF r \in stale \ bad THEN Absent
                                            ELSE cluster[r]]
         /\ Attempts(g, stale, bad)
  /\ pc' = [pc EXCEPT ![g] = "apply"]
  /\ UNCHANGED <<history, agentTag, repoVars, watch, syncSoon, timer, head,
                 syncChan, faults, logVars>>

\* What the revision has and the diff against agent-sync names; everything on
\* the first sync.
Changed(g) ==
  {r \in Resources :
     /\ history[checkout[g].new][r] # Absent
     /\ \/ checkout[g].old = 0
        \/ history[checkout[g].old][r] # history[checkout[g].new][r]}

\* Mutant: the tag is moved without an event.
Applies_Unreported(g) ==
  /\ pc[g] = "apply"
  /\ \E bad \in Failures(Changed(g)) :
       /\ cluster' = [r \in Resources |->
                        IF r \in Changed(g) \ bad THEN history[checkout[g].new][r]
                        ELSE cluster[r]]
       /\ Attempts(g, Changed(g), bad)
  /\ pc' = [pc EXCEPT ![g] = "push"]
  /\ UNCHANGED <<history, agentTag, repoVars, watch, syncSoon, timer, head,
                 syncChan, faults, logVars>>

\* The ranked objects are applied.
Applies(g) ==
  /\ pc[g] = "apply"
  /\ \E bad \in Failures(Changed(g)) :
       /\ cluster' = [r \in Resources |->
                        IF r \in Changed(g) \ bad THEN history[checkout[g].new][r]
                        ELSE cluster[r]]
       /\ Attempts(g, Changed(g), bad)
  /\ pc' = [pc EXCEPT ![g] = "report"]
  /\ UNCHANGED <<history, agentTag, repoVars, watch, syncSoon, timer, head,
                 syncChan, faults, logVars>>

\* Mutant: an event for which there is no room is dropped.
Reports_NoRoom(g) ==
  /\ pc[g] = "report"
  /\ queue' = IF Len(queue) < ResponseCap THEN Append(queue, checkout[g].new) ELSE queue
  /\ reported' = (reported \ checkout[g].tried) \cup checkout[g].errors
  /\ IF checkout[g].old = checkout[g].new
     THEN Returns(g)
     ELSE pc' = [pc EXCEPT ![g] = "push"] /\ UNCHANGED <<watch, timer, checkout>>
  /\ UNCHANGED <<history, agentTag, cluster, repoVars, syncSoon, head, syncChan,
                 faults, told, swallowed>>

\* LogEvent puts the sync event with the errors into ResponseChan, and waits
\* while that is full; if the tag is where it should be, that is all.
Reports(g) ==
  /\ pc[g] = "report" /\ Len(queue) < ResponseCap
  /\ queue' = Append(queue, checkout[g].new)
  /\ reported' = (reported \ checkout[g].tried) \cup checkout[g].errors
  /\ IF checkout[g].old = checkout[g].new
     THEN Returns(g)
     ELSE pc' = [pc EXCEPT ![g] = "push"] /\ UNCHANGED <<watch, timer, checkout>>
  /\ UNCHANGED <<history, agentTag, cluster, repoVars, syncSoon, head, syncChan,
                 faults, told, swallowed>>

Pushes(g) ==
  /\ pc[g] = "push"
  /\ agentTag' = checkout[g].new
  /\ pc' = [pc EXCEPT ![g] = "refresh"]
  /\ UNCHANGED <<history, cluster, repoVars, watch, syncSoon, timer, head,
                 checkout, syncChan, faults, logVars>>

PushFails(g) ==
  /\ pc[g] = "push" /\ Fault("push")
  /\ Returns(g)
  /\ UNCHANGED <<history, agentTag, cluster, repoVars, syncSoon, head, syncChan,
                 logVars>>

Refreshes(g) ==
  /\ pc[g] = "refresh"
  /\ RefreshSucceeds \/ RefreshFails
  /\ Returns(g)
  /\ UNCHANGED <<history, agentTag, cluster, gen, stopped, status, syncSoon,
                 head, syncChan, logVars>>

-----------------------------------------------------------------------------
\* The websocket client (Uplink) writes what waits; a write to a link that is
\* dead succeeds as well, and the event is lost.
Delivers ==
  /\ queue # <<>>
  /\ queue' = Tail(queue)
  /\ \/ told' = told \cup {Head(queue)} /\ UNCHANGED <<faults, swallowed>>
     \/ Fault("link") /\ swallowed' = swallowed \cup {Head(queue)} /\ UNCHANGED told
  /\ UNCHANGED <<history, agentTag, cluster, repoVars, loopVars, syncChan, reported>>

\* The results on record: with the service, on the way or in a dead link.
Sent == told \cup swallowed \cup {queue[i] : i \in DOMAIN queue}

-----------------------------------------------------------------------------
\* The next generation has a new Repo in the map, and a new loop that asks for
\* a sync.
NextGeneration ==
  /\ gen < MaxGens
  /\ gen' = gen + 1
  /\ UNCHANGED <<history, agentTag, cluster, faults, told, swallowed, reported>>

\* After a reconnection; its predecessor has been told to stop.
Reconnects ==
  /\ MayReconnect
  /\ NextGeneration
  /\ stopped' = stopped \cup {gen}
  /\ pc' = [pc EXCEPT ![gen + 1] = "select"]
  /\ syncSoon' = syncSoon \cup {gen + 1}
  /\ UNCHANGED <<status, mirror, refreshTok, watch, timer, head, checkout, syncChan,
                 queue>>

\* A process has its memory and its clones to itself; they start anew.
Fresh ==
  /\ status' = [g \in Gens |-> "new"]
  /\ mirror' = [g \in Gens |-> NoTags]
  /\ refreshTok' = {} /\ syncChan' = {} /\ queue' = <<>>
  /\ watch' = [g \in Gens |-> g]
  /\ syncSoon' = {gen + 1}
  /\ timer' = [g \in Gens |-> "running"]
  /\ head' = [g \in Gens |-> 0]
  /\ checkout' = [g \in Gens |-> NoCheckout]

\* Mutant: it starts while its predecessor is still there.
Restarts_NoLeader ==
  /\ MayRestart
  /\ NextGeneration
  /\ pc' = [pc EXCEPT ![gen + 1] = "select"]
  /\ syncSoon' = syncSoon \cup {gen + 1}
  /\ UNCHANGED <<stopped, status, mirror, refreshTok, watch, timer, head, checkout,
                 syncChan, queue>>

\* After a crash; the process becomes the leader when nothing of its
\* predecessor is left, the events in its ResponseChan included.
Restarts ==
  /\ MayRestart
  /\ NextGeneration
  /\ Fresh
  /\ pc' = [g \in Gens |-> IF g = gen + 1 THEN "select"
                           ELSE IF g <= gen THEN "dead" ELSE "none"]
  /\ UNCHANGED stopped

-----------------------------------------------------------------------------
LoopStep(g) ==
  \/ TakesStop(g) \/ TakesTimer(g) \/ SeesRefresh(g) \/ TakesSyncSoon(g)
  \/ Clones(g) \/ SyncFails(g) \/ Exports(g) \/ Deletes(g) \/ Applies(g) \/ Reports(g)
  \/ Pushes(g) \/ PushFails(g) \/ Refreshes(g)

StartStep == StartClones \/ StartGetsReady
IntervalStep(g) == IntervalRefreshes(g) \/ IntervalFails(g)

Next ==
  \/ \E c \in Contents : Commits(c)
  \/ StartStep \/ DoSync
  \/ \E g \in Gens : TimerFires(g) \/ IntervalStep(g) \/ LoopStep(g)
  \/ Delivers \/ Reconnects \/ Restarts

Spec == Init /\ [][Next]_vars

\* Goroutines are scheduled, timers fire, the client writes what waits for it
\* (EventuallyDisposed of Uplink), and git works in the end.  A select
\* picks one of its ready cases at random, so none that stays ready is passed
\* over for ever (SF).  Nothing obliges the service to commit or to send a
\* command.
Fairness ==
  /\ WF_vars(StartStep) /\ WF_vars(Delivers)
  /\ \A g \in Gens : /\ WF_vars(TimerFires(g))
                     /\ WF_vars(IntervalStep(g))
                     /\ WF_vars(LoopStep(g))
                     /\ SF_vars(TakesSyncSoon(g))
                     /\ SF_vars(TakesStop(g))

FairSpec == Spec /\ Fairness

-----------------------------------------------------------------------------
Revs == 0 .. MaxRevs

TypeOK ==
  /\ history \in Seq(Contents) /\ Len(history) \in 1 .. MaxRevs
  /\ agentTag \in 0 .. Len(history)
  /\ cluster \in Contents
  /\ gen \in Gens /\ stopped \subseteq Gens
  /\ status \in [Gens -> {"new", "cloned", "ready"}]
  /\ mirror \in [Gens -> [devops : Revs, agent : Revs]]
  /\ refreshTok \subseteq Gens
  /\ pc \in [Gens -> LoopStates]
  /\ watch \in [Gens -> Gens]
  /\ syncSoon \subseteq Gens
  /\ timer \in [Gens -> {"running", "fired", "off"}]
  /\ head \in [Gens -> Revs]
  /\ checkout \in [Gens -> [old : Revs, new : Revs, stale : SUBSET Resources,
                            tried : SUBSET Resources, errors : SUBSET Resources]]
  /\ \A g \in Gens : pc[g] \in {"none", "select", "clone", "stopped"}
                    => checkout[g] = NoCheckout
  /\ syncChan \subseteq Gens
  /\ faults \in 0 .. MaxFaults
  /\ queue \in Seq(Revs) /\ Len(queue) <= ResponseCap
  /\ told \subseteq Revs /\ swallowed \subseteq Revs /\ reported \subseteq Resources

\* When doSync moves agent-sync, the result of the revision is with the
\* service, waits in the ResponseChan of the process that moves it, or has
\* gone into a link that was dead: a process that died with a result in its
\* channel leaves no result behind, and its successor reports again first.
ReportedBeforeTagged == [][agentTag' # agentTag => agentTag' \in Sent]_vars

\* "so we know how far we've gotten" (gitops_sync.go): whatever fails and
\* whenever the process crashes, agent-sync never goes back to an older
\* revision, unless a reconnection has made two loops sync at the same time.
TagNeverGoesBack == [][stopped = {} => agentTag' >= agentTag]_vars

\* What the service is told and the tag it can read tell one story, across
\* restarts, commands and faults: results come in the order of the revisions,
\* those that died with a process are given again before agent-sync is moved.
\* Refuted when a reconnection lets two loops overlap: the stopped one may
\* report an older revision after the newer.
ReportRef == INSTANCE ReportLog WITH
  revs <- Len(history),
  waiting <- queue,
  told <- told,
  swallowed <- swallowed,
  tag <- agentTag
ImplementsReportLog == ReportRef!ReportSpec

\* Revision n of h gives r a content that an earlier one had, with another in
\* between.
RevertedBy(h, n, r) ==
  /\ h[n][r] # Absent
  /\ \E i, j \in 1 .. n : i < j /\ h[i][r] = h[n][r] /\ h[j][r] # h[n][r]

\* When agent-sync has caught up and no sync is under way, the cluster is what
\* the revision says, save the resources whose failure an event names, and
\* those it takes back to an earlier content: what a process that crashed
\* before its push applied in between is not in the difference.  As long as
\* no reconnection lets two loops overlap.
SyncedMeansApplied ==
  /\ stopped = {}
  /\ agentTag = Len(history)
  /\ \A g \in Gens : pc[g] \notin Syncing
  => \A r \in Resources \ reported : \/ cluster[r] = history[agentTag][r]
                                     \/ RevertedBy(history, agentTag, r)

\* "We want to sync at least every SyncInterval" (gitops_sync.go): a loop that
\* waits, its mirror being ready, has a timer that runs, or something on its
\* way that will start it.
NeverStranded ==
  pc[gen] = "select" /\ Ready =>
    \/ timer[gen] # "off"
    \/ gen \in syncSoon \cup syncChan \cup refreshTok

\* Once the service stops committing, agent-sync reaches its last revision
\* and stays, and the service has been told of it, across restarts, commands
\* and failing resources: unless a sync failed as a whole, which is not tried
\* again until devops-sync moves.
Converges == <>[](faults > 0 \/ (agentTag = Len(history) /\ Len(history) \in told))
=============================================================================
