-------------------------- MODULE InstancedService ---------------------------
(***************************************************************************)
(* A service without selector, whose Endpoints the agent keeps itself      *)
(* (pkg/controller/service): the service controller and the pod controller *)
(* each list the pods of the service's releases and write one Endpoints.   *)
(* Both read from caches; the API server refuses an update that was made   *)
(* from an older version.                                                  *)
(***************************************************************************)
EXTENDS Naturals

CONSTANTS
  Pods,       \* pods that carry the label of a release of the service
  Tolerate,   \* the annotation tolerate-unready-endpoints
  MaxChanges, \* bound: changes to pods and to the service
  MaxErrors   \* bound: writes that fail although nobody wrote meanwhile

ASSUME InstancedAssumption == Tolerate \in BOOLEAN /\ MaxChanges \in Nat /\ MaxErrors \in Nat

\* pending: without address; ended: finished, and not to be started again;
\* leaving: with a deletion timestamp.  rv is the ResourceVersion, which the
\* address of a pod in the Endpoints names too.
Status == {"absent", "pending", "ready", "unready", "ended", "leaving"}
NoPod == [is |-> "absent", rv |-> 0]
Workers == {"service", "pod"}

VARIABLES
  pods, service, endpoints,          \* the cluster; a service is a number, 0 is none
  podCache, svcCache, epCache,       \* the agent's caches of it
  svcQueue, podQueue,                \* keys to be reconciled
  work,                              \* worker -> the recomputation under way
  orphan,                            \* the cluster is to remove the Endpoints of a deleted service
  stale,                             \* ghost: see EndpointsSettle
  used                               \* changes, errors and versions so far

cacheVars == <<podCache, svcCache, epCache>>
vars == <<pods, service, endpoints, cacheVars, svcQueue, podQueue, work, orphan, stale, used>>

NoEndpoints == [rv |-> 0, ready |-> {}, notReady |-> {}]
Idle == [pc |-> "idle", ready |-> {}, notReady |-> {}, rv |-> 0, fresh |-> TRUE]

\* The agent starts beside pods that are about to start.
Init ==
  /\ pods = [p \in Pods |-> [is |-> "pending", rv |-> 0]] /\ podCache = pods
  /\ service = 0 /\ svcCache = 0
  /\ endpoints = NoEndpoints /\ epCache = NoEndpoints
  /\ svcQueue = FALSE /\ podQueue = Pods
  /\ work = [w \in Workers |-> Idle]
  /\ orphan = FALSE /\ stale = FALSE
  /\ used = [changes |-> 0, errors |-> 0, rv |-> 0]

-----------------------------------------------------------------------------
\* Which pods are listed, and under what.

Listed(ps) == {p \in Pods : ps[p].is \notin {"absent", "pending"} /\ (ps[p].is = "leaving" => Tolerate)}
Addresses(ps, listed) == {[pod |-> p, rv |-> ps[p].rv] : p \in listed}
IsReady(pod) == Tolerate \/ pod.is = "ready"
Ready(ps) == Addresses(ps, {p \in Listed(ps) : IsReady(ps[p])})

\* shouldPodBeInEndpoints.
NotReady(ps) == Addresses(ps, {p \in Listed(ps) : ~IsReady(ps[p]) /\ ps[p].is # "ended"})

-----------------------------------------------------------------------------
\* The cluster and the caches.

Change == used.changes < MaxChanges /\ used' = [used EXCEPT !.changes = @ + 1]

PodChanges ==
  \E p \in Pods, s \in Status :
    /\ Change
    /\ s # pods[p].is
    /\ pods[p].is = "absent" => s = "pending"
    /\ pods[p].is = "leaving" => s = "absent"
    /\ pods' = [pods EXCEPT ![p] = IF s = "absent" THEN NoPod ELSE [is |-> s, rv |-> used.changes + 1]]
    /\ UNCHANGED <<service, endpoints, cacheVars, svcQueue, podQueue, work, orphan, stale>>

ServiceChanges ==
  /\ Change
  /\ service' = IF service = 0 THEN used.changes + 1 ELSE 0
  /\ orphan' = (service' = 0)
  /\ UNCHANGED <<pods, endpoints, cacheVars, svcQueue, podQueue, work, stale>>

\* The Endpoints of a deleted service go with it, unless it is there again.
ClusterCleans ==
  /\ orphan
  /\ orphan' = FALSE
  /\ endpoints' = NoEndpoints
  /\ UNCHANGED <<pods, service, cacheVars, svcQueue, podQueue, work, stale, used>>

NoticesPod ==
  \E p \in Pods :
    /\ podCache[p] # pods[p]
    /\ podCache' = [podCache EXCEPT ![p] = pods[p]]
    /\ podQueue' = podQueue \cup {p}
    /\ UNCHANGED <<pods, service, endpoints, svcCache, epCache, svcQueue, work, orphan, stale, used>>

NoticesService ==
  /\ svcCache # service
  /\ svcCache' = service
  /\ svcQueue' = TRUE
  /\ UNCHANGED <<pods, service, endpoints, podCache, epCache, podQueue, work, orphan, stale, used>>

\* The Endpoints are cached too, and nobody is told.
NoticesEndpoints ==
  /\ epCache # endpoints
  /\ epCache' = endpoints
  /\ UNCHANGED <<pods, service, endpoints, podCache, svcCache, svcQueue, podQueue, work, orphan, stale, used>>

-----------------------------------------------------------------------------
\* The controllers, one worker each.

Lists(w) ==
  work' = [work EXCEPT ![w] = [Idle EXCEPT !.pc = "listed", !.ready = Ready(podCache),
                                            !.notReady = NotReady(podCache)]]

\* A service that is gone is no instanced service: nothing to do.
ServiceReconciles ==
  /\ svcQueue /\ work["service"].pc = "idle"
  /\ svcQueue' = FALSE
  /\ IF svcCache # 0 THEN Lists("service") ELSE UNCHANGED work
  /\ UNCHANGED <<pods, service, endpoints, cacheVars, podQueue, orphan, stale, used>>

\* A pod that is gone is looked up with the empty instance, which no service
\* selects: nothing is recomputed.
PodReconciles ==
  \E p \in podQueue :
    /\ work["pod"].pc = "idle"
    /\ podQueue' = podQueue \ {p}
    /\ IF podCache[p] # NoPod /\ svcCache # 0 THEN Lists("pod") ELSE UNCHANGED work
    /\ UNCHANGED <<pods, service, endpoints, cacheVars, svcQueue, orphan, stale, used>>

\* What a recomputation that ends leaves of the ghost.
Ends(w, current) ==
  stale' = IF current /\ work[w].ready = Ready(podCache) /\ work[w].notReady = NotReady(podCache)
           THEN stale /\ ~work[w].fresh ELSE TRUE

\* Equal to the cached Endpoints: nothing is written.
FindsEqual ==
  \E w \in Workers :
    /\ work[w].pc = "listed"
    /\ epCache.rv # 0 /\ epCache.ready = work[w].ready /\ epCache.notReady = work[w].notReady
    /\ Ends(w, epCache = endpoints)
    /\ work' = [work EXCEPT ![w] = Idle]
    /\ UNCHANGED <<pods, service, endpoints, cacheVars, svcQueue, podQueue, orphan, used>>

FindsDifferent ==
  \E w \in Workers :
    /\ work[w].pc = "listed"
    /\ ~(epCache.rv # 0 /\ epCache.ready = work[w].ready /\ epCache.notReady = work[w].notReady)
    /\ work' = [work EXCEPT ![w].pc = "write", ![w].rv = epCache.rv]
    /\ UNCHANGED <<pods, service, endpoints, cacheVars, svcQueue, podQueue, orphan, stale, used>>

\* Create, or Update of the version that was read.
Writes ==
  \E w \in Workers :
    /\ work[w].pc = "write" /\ work[w].rv = endpoints.rv
    /\ endpoints' = [rv |-> used.rv + 1, ready |-> work[w].ready, notReady |-> work[w].notReady]
    /\ used' = [used EXCEPT !.rv = @ + 1]
    /\ Ends(w, TRUE)
    /\ work' = [work EXCEPT ![w] = Idle]
    /\ UNCHANGED <<pods, service, cacheVars, svcQueue, podQueue, orphan>>

\* Slip: the service controller too drops the error.
WriteFails_Dropped ==
  \E w \in Workers :
    /\ work[w].pc = "write"
    /\ \/ work[w].rv # endpoints.rv /\ UNCHANGED used
       \/ used.errors < MaxErrors /\ used' = [used EXCEPT !.errors = @ + 1]
    /\ UNCHANGED svcQueue
    /\ IF w = "pod" THEN stale' = TRUE ELSE UNCHANGED stale
    /\ work' = [[v \in Workers |-> [work[v] EXCEPT !.fresh = @ /\ w # "pod"]] EXCEPT ![w] = Idle]
    /\ UNCHANGED <<pods, service, endpoints, cacheVars, podQueue, orphan>>

\* The service controller returns the error and is called again; the pod
\* controller returns nil instead.
WriteFails ==
  \E w \in Workers :
    /\ work[w].pc = "write"
    /\ \/ work[w].rv # endpoints.rv /\ UNCHANGED used
       \/ used.errors < MaxErrors /\ used' = [used EXCEPT !.errors = @ + 1]
    /\ svcQueue' = (svcQueue \/ w = "service")
    /\ IF w = "pod" THEN stale' = TRUE ELSE UNCHANGED stale
    /\ work' = [[v \in Workers |-> [work[v] EXCEPT !.fresh = @ /\ w # "pod"]] EXCEPT ![w] = Idle]
    /\ UNCHANGED <<pods, service, endpoints, cacheVars, podQueue, orphan>>

Agent ==
  \/ NoticesPod \/ NoticesService \/ NoticesEndpoints
  \/ ServiceReconciles \/ PodReconciles \/ FindsEqual \/ FindsDifferent \/ Writes \/ WriteFails

Next == Agent \/ PodChanges \/ ServiceChanges \/ ClusterCleans

Spec == Init /\ [][Next]_vars

\* Watches, workers and the cluster's own controllers go on; a retry is delayed
\* until the cache has caught up.
FairSpec ==
  /\ Spec
  /\ WF_vars(NoticesPod) /\ WF_vars(NoticesService) /\ WF_vars(NoticesEndpoints)
  /\ WF_vars(ServiceReconciles) /\ WF_vars(PodReconciles)
  /\ WF_vars(FindsEqual \/ FindsDifferent) /\ WF_vars(Writes \/ WriteFails)
  /\ WF_vars(ClusterCleans)

-----------------------------------------------------------------------------
\* Of the pods that exist, the ready ones end up served and the others not, or
\* as the rules of addEndpointSubset say.  Three things may spoil it for good
\* (stale): a failed write of the pod controller, whose error is not returned; a
\* comparison with a cached Endpoints that is no longer the one in the cluster;
\* and a list that is older than the one another worker has written since.
EndpointsSettle ==
  <>[](service # 0 /\ ~stale =>
         /\ {a \in endpoints.ready : pods[a.pod] # NoPod} = Ready(pods)
         /\ {a \in endpoints.notReady : pods[a.pod] # NoPod} = NotReady(pods))
=============================================================================
