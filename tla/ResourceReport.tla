--------------------------- MODULE ResourceReport ---------------------------
(***************************************************************************)
(* What the platform knows of the cluster: the controllers of              *)
(* pkg/controller report one resource at a time from the controllers'      *)
(* cache, the resync of pkg/agent/sync lists whole kinds, and all of it    *)
(* goes through ResponseChan.  A ReSync follows every (re)initialisation;  *)
(* it replaces the stop channel of the loop that asks for status.          *)
(*                                                                         *)
(* There is one resource of each kind; its version grows with each change, *)
(* 0 is absent, and one label stands for what the controllers look at.     *)
(* The platform is external: it keeps the last report of a resource, and   *)
(* of the resources of a Helm release those that the last list names.      *)
(***************************************************************************)
EXTENDS Naturals, Sequences, FiniteSets

CONSTANTS
  Kinds,      \* the kinds watched
  Labels,     \* the labels a resource may have
  MaxChanges, \* bound: changes to the cluster
  MaxErrors,  \* bound: failing calls of the API server, and shutdowns
  MaxReSyncs, \* bound: calls of ReSync
  MaxStarts,  \* bound: restarts of the agent
  ChanSize    \* capacity of ResponseChan

-----------------------------------------------------------------------------
\* The controllers: the labels a resource is reported with, and whether its
\* disappearance is.

Deployment == [reports |-> {"release", "workload"}, gone |-> TRUE]
StatefulSet == [reports |-> {"release", "workload"}, gone |-> TRUE]
DaemonSet == [reports |-> {"release", "workload"}, gone |-> TRUE]
ReplicaSet == [reports |-> {"release"}, gone |-> TRUE]
Job == [reports |-> {"release", "workload"}, gone |-> TRUE]
CronJob == [reports |-> {"workload"}, gone |-> TRUE]
Pod == [reports |-> {"release", "parent", "test"}, gone |-> TRUE]
Service == [reports |-> {"network"}, gone |-> TRUE]
Ingress == [reports |-> {"network"}, gone |-> TRUE]
PersistentVolume == [reports |-> {"agent"}, gone |-> TRUE]
PersistentVolumeClaim == [reports |-> {"agent"}, gone |-> TRUE]

\* The annotation is looked at before the error of the read: of a resource that
\* is gone there is none.
ConfigMap == [reports |-> {"release", "config", "agent"}, gone |-> FALSE]
Secret == [reports |-> {"release", "tls", "agent"}, gone |-> FALSE]

Controller ==
  [Deployment |-> Deployment, StatefulSet |-> StatefulSet, DaemonSet |-> DaemonSet,
   ReplicaSet |-> ReplicaSet, Job |-> Job, CronJob |-> CronJob, Pod |-> Pod,
   Service |-> Service, Ingress |-> Ingress, PersistentVolume |-> PersistentVolume,
   PersistentVolumeClaim |-> PersistentVolumeClaim, ConfigMap |-> ConfigMap, Secret |-> Secret]

\* syncStatefulSet, syncReplicaSet, syncService, syncPod.
Listed == Kinds \cap {"StatefulSet", "ReplicaSet", "Service", "Pod"}

ASSUME ReportAssumption ==
  /\ Kinds \subseteq DOMAIN Controller
  /\ MaxChanges \in Nat /\ MaxErrors \in Nat /\ MaxReSyncs \in Nat /\ MaxStarts \in Nat
  /\ ChanSize \in Nat \ {0}

VARIABLES
  cluster, \* kind -> version and label of its resource
  cache,   \* the controllers' copy
  queue,   \* kinds whose resource is to be reconciled
  chan,    \* ResponseChan
  view,    \* what the platform knows
  forgotten, \* ghost: kinds whose failed read was forgotten, not reconciled since
  gens,    \* one record for each ReSync: its lists, status loop, watcher of StopCh
  stopCh,  \* ctx.stopCh: the number of the current channel (0 is nil), the closed
           \* ones, and the calls of ReSync between close and make
  life,    \* running, stopping (StopCh is closed), dead (a panic or glog.Fatal)
  ghost,   \* missed: gone while the agent was down; pruned: by a list, yet there;
           \* named: by a list of this process, and not reported since;
           \* overlap: a ReSync came between close and make of another
  used     \* changes, errors, calls of ReSync, starts so far

vars == <<cluster, cache, queue, chan, view, forgotten, gens, stopCh, life, ghost, used>>

Nothing == [v |-> 0, label |-> "none"]
NoChannel == [current |-> 0, closed |-> {}, making |-> 0]
Room == Len(chan) < ChanSize
Send(msg) == chan' = Append(chan, msg)

Init ==
  /\ cluster = [k \in Kinds |-> Nothing]
  /\ cache = cluster /\ view = cluster
  /\ queue = {} /\ chan = << >> /\ forgotten = {} /\ gens = << >>
  /\ stopCh = NoChannel
  /\ life = "running"
  /\ ghost = [missed |-> {}, pruned |-> {}, named |-> {}, overlap |-> FALSE]
  /\ used = [changes |-> 0, errors |-> 0, resyncs |-> 0, starts |-> 0]

-----------------------------------------------------------------------------
\* The cluster and the controllers.

Changes ==
  \E k \in Kinds, label \in Labels, gone \in BOOLEAN :
    /\ used.changes < MaxChanges
    /\ gone => cluster[k] # Nothing
    /\ cluster' = [cluster EXCEPT ![k] = IF gone THEN Nothing ELSE [v |-> used.changes + 1, label |-> label]]
    /\ used' = [used EXCEPT !.changes = @ + 1]
    /\ UNCHANGED <<cache, queue, chan, view, forgotten, gens, stopCh, life, ghost>>

Notices ==
  \E k \in Kinds :
    /\ cache[k] # cluster[k]
    /\ cache' = [cache EXCEPT ![k] = cluster[k]]
    /\ queue' = queue \cup {k}
    /\ UNCHANGED <<cluster, chan, view, forgotten, gens, stopCh, life, ghost, used>>

Reports(k) ==
  IF cache[k] = Nothing THEN Controller[k].gone ELSE cache[k].label \in Controller[k].reports

Reconciles ==
  \E k \in queue :
    /\ IF Reports(k) THEN Room /\ Send([type |-> "resource", kind |-> k, obj |-> cache[k]])
       ELSE UNCHANGED chan
    /\ queue' = queue \ {k}
    /\ forgotten' = forgotten \ {k}
    /\ UNCHANGED <<cluster, cache, view, gens, stopCh, life, ghost, used>>

\* Slip: the key of a failed read is forgotten.
ReadFails_Forgets ==
  \E k \in queue :
    /\ used.errors < MaxErrors
    /\ queue' = queue \ {k}
    /\ used' = [used EXCEPT !.errors = @ + 1]
    /\ UNCHANGED <<cluster, cache, chan, view, forgotten, gens, stopCh, life, ghost>>

\* A returned error queues the key again; of a ConfigMap or Secret it is not
\* returned, because the empty instance has no annotation.
ReadFails ==
  \E k \in queue :
    /\ used.errors < MaxErrors
    /\ used' = [used EXCEPT !.errors = @ + 1]
    /\ IF Controller[k].gone THEN UNCHANGED <<queue, forgotten>>
       ELSE queue' = queue \ {k} /\ forgotten' = forgotten \cup {k}
    /\ UNCHANGED <<cluster, cache, chan, view, gens, stopCh, life, ghost>>

\* A finished Job of a release is reported, with its log unless that cannot be
\* read, and deleted unless that fails.
JobFinishes ==
  /\ "Job" \in queue
  /\ cache["Job"].label = "release"
  /\ Room
  /\ Send([type |-> "resource", kind |-> "Job", obj |-> cache["Job"]])
  /\ queue' = queue \ {"Job"}
  /\ \/ cluster' = [cluster EXCEPT !["Job"] = Nothing] /\ UNCHANGED used
     \/ used.errors < MaxErrors /\ used' = [used EXCEPT !.errors = @ + 1] /\ UNCHANGED cluster
  /\ UNCHANGED <<cache, view, forgotten, gens, stopCh, life, ghost>>

-----------------------------------------------------------------------------
\* ReSync.

Gens == 1..Len(gens)
NewGen == [todo |-> Listed, found |-> {}, absent |-> {}, skipped |-> {}, loop |-> "top",
           on |-> 0, watcher |-> "on"]

\* The end of the old channel: nothing if there is none; to close one twice panics.
ClosesChannel(closed) ==
  /\ used.resyncs < MaxReSyncs
  /\ used' = [used EXCEPT !.resyncs = @ + 1]
  /\ IF stopCh.current \in stopCh.closed
     THEN life' = "dead" /\ UNCHANGED <<stopCh, ghost>>
     ELSE /\ stopCh' = [stopCh EXCEPT !.closed = @ \cup closed, !.making = @ + 1]
          /\ ghost' = [ghost EXCEPT !.overlap = @ \/ stopCh.making > 0]
          /\ UNCHANGED life
  /\ UNCHANGED <<cluster, cache, queue, chan, view, forgotten, gens>>

\* Slip: the channel is closed although there is none yet.
ReSyncCloses_NoNilCheck == ClosesChannel({stopCh.current})

\* Slip: the channel is only replaced.
ReSyncCloses_KeepsOpen == ClosesChannel({})

\* After the sleep.  add_env and agent_init call it, each in a goroutine of its own.
ReSyncCloses == ClosesChannel({stopCh.current} \ {0})

\* The channel is replaced, and Run starts the listers, the status loop and a watcher.
ReSyncMakes ==
  /\ stopCh.making > 0
  /\ stopCh' = [stopCh EXCEPT !.current = @ + 1, !.making = @ - 1]
  /\ gens' = Append(gens, NewGen)
  /\ UNCHANGED <<cluster, cache, queue, chan, view, forgotten, life, ghost, used>>

\* A list is read from the API server, not from the cache.
Lists ==
  \E g \in Gens :
    \E k \in gens[g].todo :
      LET there == cluster[k] # Nothing /\ cluster[k].label = "release"
      IN  /\ gens' = [gens EXCEPT ![g] = [gens[g] EXCEPT !.todo = gens[g].todo \ {k},
                        !.found = gens[g].found \cup {h \in {k} : there},
                        !.absent = gens[g].absent \cup {h \in {k} : ~there}]]
          /\ UNCHANGED <<cluster, cache, queue, chan, view, forgotten, stopCh, life, ghost, used>>

\* A list that fails ends the process; one of StatefulSets is skipped.
ListFails ==
  \E g \in Gens :
    \E k \in gens[g].todo :
      /\ used.errors < MaxErrors /\ used' = [used EXCEPT !.errors = @ + 1]
      /\ IF k = "StatefulSet"
         THEN /\ gens' = [gens EXCEPT ![g] = [gens[g] EXCEPT !.todo = gens[g].todo \ {k},
                                                    !.skipped = gens[g].skipped \cup {k}]]
              /\ UNCHANGED life
         ELSE life' = "dead" /\ UNCHANGED gens
      /\ UNCHANGED <<cluster, cache, queue, chan, view, forgotten, stopCh, ghost>>

SendsList ==
  \E g \in Gens :
    \E k \in gens[g].found \cup gens[g].absent :
      /\ Room
      /\ Send([type |-> "list", kind |-> k, there |-> k \in gens[g].found])
      /\ gens' = [gens EXCEPT ![g] = [gens[g] EXCEPT !.found = gens[g].found \ {k},
                                                        !.absent = gens[g].absent \ {k}]]
      /\ UNCHANGED <<cluster, cache, queue, view, forgotten, stopCh, life, ghost, used>>

\* syncStatus evaluates ctx.stopCh each time round, and may be sending while
\* ReSync replaces it.
StatusWaits ==
  \E g \in Gens :
    /\ gens[g].loop = "top"
    /\ gens' = [gens EXCEPT ![g] = [@ EXCEPT !.loop = "wait", !.on = stopCh.current]]
    /\ UNCHANGED <<cluster, cache, queue, chan, view, forgotten, stopCh, life, ghost, used>>

StatusTicks ==
  \E g \in Gens :
    /\ gens[g].loop = "wait"
    /\ gens' = [gens EXCEPT ![g] = [@ EXCEPT !.loop = "send", !.on = 0]]
    /\ UNCHANGED <<cluster, cache, queue, chan, view, forgotten, stopCh, life, ghost, used>>

StatusSends ==
  \E g \in Gens :
    /\ gens[g].loop = "send" /\ Room
    /\ Send([type |-> "status"])
    /\ gens' = [gens EXCEPT ![g] = [@ EXCEPT !.loop = "wait", !.on = stopCh.current]]
    /\ UNCHANGED <<cluster, cache, queue, view, forgotten, stopCh, life, ghost, used>>

StatusEnds ==
  \E g \in Gens :
    /\ gens[g].loop = "wait" /\ gens[g].on \in stopCh.closed
    /\ gens' = [gens EXCEPT ![g] = [@ EXCEPT !.loop = "ended", !.on = 0]]
    /\ UNCHANGED <<cluster, cache, queue, chan, view, forgotten, stopCh, life, ghost, used>>

\* StopCh is closed: every watcher closes the channel that is current now.
WatcherCloses ==
  \E g \in Gens :
    /\ life = "stopping" /\ gens[g].watcher = "on"
    /\ gens' = [gens EXCEPT ![g] = [@ EXCEPT !.watcher = "off"]]
    /\ IF stopCh.current \in stopCh.closed
       THEN life' = "dead" /\ UNCHANGED stopCh
       ELSE stopCh' = [stopCh EXCEPT !.closed = @ \cup {stopCh.current}] /\ UNCHANGED life
    /\ UNCHANGED <<cluster, cache, queue, chan, view, forgotten, ghost, used>>

Stops ==
  /\ life = "running" /\ used.errors < MaxErrors
  /\ life' = "stopping"
  /\ used' = [used EXCEPT !.errors = @ + 1]
  /\ UNCHANGED <<cluster, cache, queue, chan, view, forgotten, gens, stopCh, ghost>>

\* A new process: its controllers list what there is, nothing tells what was.
Restarts ==
  /\ used.starts < MaxStarts
  /\ used' = [used EXCEPT !.starts = @ + 1]
  /\ cache' = cluster
  /\ queue' = {k \in Kinds : cluster[k] # Nothing}
  /\ chan' = << >> /\ forgotten' = {} /\ gens' = << >>
  /\ stopCh' = NoChannel
  /\ life' = "running"
  /\ ghost' = [ghost EXCEPT !.missed = @ \cup {k \in Kinds : cluster[k] = Nothing /\ view[k] # Nothing},
                            !.named = {}, !.overlap = FALSE]
  /\ UNCHANGED <<cluster, view>>

-----------------------------------------------------------------------------
\* The platform takes what the agent sends.

\* What the list of a kind does not name, and the platform has.
Unlisted(msg) == {k \in {msg.kind} : ~msg.there /\ view[k].label = "release"}

Delivers ==
  /\ chan # << >>
  /\ chan' = Tail(chan)
  /\ LET msg == Head(chan) IN
     \/ /\ msg.type = "resource"
        /\ view' = [view EXCEPT ![msg.kind] = msg.obj]
        /\ ghost' = [ghost EXCEPT !.missed = @ \ {msg.kind}, !.pruned = @ \ {msg.kind},
                                  !.named = @ \ {msg.kind}]
     \/ /\ msg.type = "list"
        /\ view' = [k \in Kinds |-> IF k \in Unlisted(msg) THEN Nothing ELSE view[k]]
        /\ ghost' = [ghost EXCEPT !.missed = @ \ Unlisted(msg),
                       !.pruned = @ \cup {k \in Unlisted(msg) : cluster[k] # Nothing},
                       !.named = @ \cup {k \in {msg.kind} : msg.there}]
     \/ msg.type = "status" /\ UNCHANGED <<view, ghost>>
  /\ UNCHANGED <<cluster, cache, queue, forgotten, gens, stopCh, life, used>>

Agent ==
  \/ Notices \/ Reconciles \/ ReadFails \/ JobFinishes
  \/ Lists \/ ListFails \/ SendsList \/ StatusWaits \/ StatusTicks \/ StatusSends \/ WatcherCloses
  \/ StatusEnds

Next ==
  \/ Changes \/ Restarts
  \/ life # "dead" /\ (Agent \/ ReSyncCloses \/ ReSyncMakes \/ Stops \/ Delivers)

Spec == Init /\ [][Next]_vars

-----------------------------------------------------------------------------
\* The properties.

Objects == [v : 0..MaxChanges, label : Labels \cup {"none"}]

Messages ==
  [type : {"resource"}, kind : Kinds, obj : Objects]
    \cup [type : {"list"}, kind : Listed, there : BOOLEAN] \cup [type : {"status"}]
Generations ==
  [todo : SUBSET Listed, found : SUBSET Listed, absent : SUBSET Listed, skipped : SUBSET Listed,
   loop : {"top", "wait", "send", "ended"}, on : Nat, watcher : {"on", "off"}]
Channels == [current : Nat, closed : SUBSET Nat, making : Nat]
Ghosts == [missed : SUBSET Kinds, pruned : SUBSET Kinds, named : SUBSET Kinds, overlap : BOOLEAN]

Counters == [changes : 0..MaxChanges, errors : 0..MaxErrors, resyncs : 0..MaxReSyncs,
             starts : 0..MaxStarts]

\* The channels closed are some that were made, one by each ReSync, and the one a
\* status loop waits for is one of them.
TypeOK ==
  /\ cluster \in [Kinds -> Objects] /\ cache \in [Kinds -> Objects] /\ view \in [Kinds -> Objects]
  /\ queue \subseteq Kinds /\ forgotten \subseteq Kinds
  /\ chan \in Seq(Messages) /\ Len(chan) <= ChanSize
  /\ gens \in Seq(Generations)
  /\ \A g \in Gens : gens[g].on <= stopCh.current
  /\ stopCh \in Channels
  /\ stopCh.closed \subseteq 1..stopCh.current
  /\ stopCh.current = Len(gens)
  /\ life \in {"running", "stopping", "dead"}
  /\ ghost \in Ghosts
  /\ used \in Counters

AtRest ==
  /\ queue = {} /\ chan = << >> /\ cache = cluster
  /\ \A g \in Gens : gens[g].todo \cup gens[g].found \cup gens[g].absent = {}

\* When nothing is under way the platform knows the last version of every
\* resource that is reported, unless a list read before it appeared came after
\* its report, or the error of its read was forgotten; and knows nothing that is
\* gone: what went while the agent was down is found by the lists that were read,
\* unless it was there again for just the time of the list (Reconcile, Run).
ViewIsCurrent ==
  AtRest =>
    \A k \in Kinds :
      /\ cluster[k] # Nothing /\ Reports(k) => view[k] = cluster[k] \/ k \in ghost.pruned \cup forgotten
      /\ cluster[k] = Nothing /\ Controller[k].gone =>
           \/ view[k] = Nothing
           \/ /\ k \in ghost.missed
              /\ (\E g \in Gens : k \in Listed \ gens[g].skipped) =>
                   view[k].label # "release" \/ k \in ghost.named

\* A status loop never waits on a channel that has been replaced and that nobody
\* will close: whenever a loop of an earlier ReSync waits on another channel than
\* the current one, this one is closed (ReSync, syncStatus).  Not so when two calls
\* of ReSync meet, both before they make the channel.
OldLoopsAreTold ==
  ~ghost.overlap =>
    \A g \in Gens : gens[g].loop = "wait" => gens[g].on \in stopCh.closed \cup {stopCh.current}

\* sync_resource.go:255: after a ReSync the loops of the one before are gone.
\* Refuted: a loop that is sending finds the new channel and goes on.
OneStatusLoop ==
  (life = "running" /\ \A g \in Gens : gens[g].loop = "wait" => gens[g].on \notin stopCh.closed) =>
    Cardinality({g \in Gens : gens[g].loop = "wait"}) <= 1
=============================================================================
