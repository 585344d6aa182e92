----------------------------- MODULE RepoApply ------------------------------
(***************************************************************************)
(* What one sync does to the cluster (the middle of GitOps.doSync, Sync,   *)
(* Cluster.Export and Kubectl.apply): load the repository, compare it with *)
(* the revision of the agent-sync tag and with what the cluster holds,     *)
(* delete and apply with kubectl, report the errors and move the tag.      *)
(* GitSync models when a sync runs and where its tags go; here a sync is   *)
(* taken apart, with commits, other users of the cluster, failing commands *)
(* and restarts between any two of its steps.  A sync reads the tag in a   *)
(* clone of the local mirror, which may not have the last one.             *)
(*                                                                         *)
(* A resource is identified by its kind and name.  The empty repository    *)
(* stands for the absent tag: everything differs from it.                  *)
(***************************************************************************)
EXTENDS Naturals, FiniteSets

CONSTANTS
  Kinds,       \* kinds of the resources in the repository
  Names,       \* their names
  Files,       \* the yaml files of the repository
  Versions,    \* contents of a resource; ExistCert is one of a Certificate
  ExistCert,   \* a Certificate that carries its key and certificate
  CertManager, \* model.CertManagerVersion: "", "0.1.0" or "1.1.1"
  MaxCommits,  \* bound: changes to the repository
  MaxFaults,   \* bound: commands that fail, and syncs that end early
  MaxOthers    \* bound: changes to the cluster made by others

Absent == "absent"
Other == "other"   \* a content written by another user

RepoKeys == Kinds \X Names
Keys == RepoKeys \cup ({"Secret"} \X Names)

\* A repository that names a Secret and a Certificate alike asks for two
\* contents of one object.
ASSUME RepoApplyAssumption ==
  /\ ~({"Secret", "Certificate"} \subseteq Kinds)
  /\ Absent \notin Versions /\ Other \notin Versions
  /\ ExistCert \in Versions
  /\ MaxCommits \in Nat /\ MaxFaults \in Nat /\ MaxOthers \in Nat

Contents(k) == IF k[1] = "Certificate" THEN Versions ELSE Versions \ {ExistCert}

VARIABLES
  repo,     \* the branch in the mirror: file -> resource -> content
  synced,   \* the repository at the agent-sync tag
  mirror,   \* the repository at the agent-sync tag of the mirror
  cluster,  \* resource -> content, label, whether it is being deleted
  pc,       \* idle, loaded, delete, apply
  job,      \* what the running sync has read and has left to do
  told,     \* the resources whose errors the platform was told of last
  ghost,    \* unrecorded, outside, raced, reverted, misread: see the properties
  used      \* commits, faults and changes of others so far

vars == <<repo, synced, mirror, cluster, pc, job, told, ghost, used>>

EmptyRepo == [f \in Files |-> [k \in RepoKeys |-> Absent]]
Gone == [content |-> Absent, label |-> "none", dying |-> FALSE]
NoJob == [base |-> EmptyRepo, rev |-> EmptyRepo, keep |-> {}, want |-> << >>, deletes |-> {},
          misread |-> {}, todo |-> {}, single |-> FALSE, failed |-> FALSE, errors |-> {}]

Init ==
  /\ repo = EmptyRepo
  /\ synced = EmptyRepo
  /\ mirror = EmptyRepo
  /\ cluster = [k \in Keys |-> Gone]
  /\ pc = "idle"
  /\ job = NoJob
  /\ told = {}
  /\ ghost = [unrecorded |-> {}, outside |-> {}, raced |-> {}, reverted |-> {}, misread |-> {}]
  /\ used = [commits |-> 0, faults |-> 0, others |-> 0]

-----------------------------------------------------------------------------
\* The repository.

InFile(rev, f) == {k \in RepoKeys : rev[f][k] # Absent}
Loaded(rev) == UNION {InFile(rev, f) : f \in Files}
Content(rev, k) == LET holds == {f \in Files : k \in InFile(rev, f)}
                   IN  IF holds = {} THEN Absent ELSE rev[CHOOSE f \in holds : TRUE][k]

\* Load refuses one resource in two files.
Loads(rev) == \A f, g \in Files : f # g => InFile(rev, f) \cap InFile(rev, g) = {}

\* Slip: only files added since the tag are taken.
ChangedResources_Added(old, new) ==
  UNION {InFile(new, f) : f \in {g \in Files : InFile(old, g) = {}}}

\* The resources of the files that differ from the tag and still exist.
ChangedResources(old, new) ==
  UNION {InFile(new, f) : f \in {g \in Files : new[g] # old[g]}}

-----------------------------------------------------------------------------
\* Labels, certificates and ranks.

Labelled == {"Service", "Ingress", "ConfigMap", "Secret", "C7NHelmRelease", "Certificate",
             "PersistentVolumeClaim", "PersistentVolume",
             "Deployment", "StatefulSet", "DaemonSet", "Job", "CronJob"}

\* A Certificate of version 1.1.1 that carries its key is applied as a Secret.
Converts(k, c) == CertManager = "1.1.1" /\ k[1] = "Certificate" /\ c = ExistCert
Target(k, c) == IF Converts(k, c) THEN <<"Secret", k[2]>> ELSE k

\* What Export lists: by the labels of the agent, but Certificates and releases
\* whoever made them, PersistentVolumes never, and not a Service or an Ingress that
\* somebody gave the label no_delete ("spared").  Here a namespace is one of an
\* environment; in the agent's own, releases have a label too.
ExportedNetwork == {"Service", "Ingress"}
ExportedConfig == {"ConfigMap", "Secret"}
ExportedStorage == {"PersistentVolumeClaim"}
ExportedWorkloads == {"Deployment", "StatefulSet", "Job", "CronJob", "DaemonSet"}
ExportedCertificates == IF CertManager = "" THEN {} ELSE {"Certificate"}
ExportedReleases == {"C7NHelmRelease"}

\* Slip: whatever is there is listed, labelled or not.
Exported_Unlabelled(k) ==
  /\ cluster[k].content # Absent
  /\ k[1] \in ExportedNetwork \cup ExportedConfig \cup ExportedStorage \cup ExportedWorkloads
              \cup ExportedCertificates \cup ExportedReleases

Exported(k) ==
  /\ cluster[k].content # Absent
  /\ \/ k[1] \in ExportedCertificates \cup ExportedReleases
     \/ /\ k[1] \in ExportedNetwork \cup ExportedConfig \cup ExportedStorage \cup ExportedWorkloads
        /\ cluster[k].label = "agent"

rankOfKind(kind) ==
  CASE kind \in {"ServiceAccount", "Role", "PersistentVolume", "Service"} -> 1
    [] kind \in {"Secret", "ConfigMap", "PersistentVolumeClaim", "Ingress"} -> 2
    [] kind \in {"DaemonSet", "Deployment", "Job", "CronJob", "StatefulSet"} -> 3
    [] OTHER -> 4

\* kubectl is given the deletions in the reverse order of ranks.
First(cmd, todo) ==
  {k \in todo : \A j \in todo : IF cmd = "delete" THEN rankOfKind(k[1]) >= rankOfKind(j[1])
                                                  ELSE rankOfKind(k[1]) <= rankOfKind(j[1])}

-----------------------------------------------------------------------------
\* A sync.

Budget(n) == used.faults + n <= MaxFaults
Faults(n) == used' = [used EXCEPT !.faults = @ + n]

KeptResources(rev, misread) ==
  {Target(k, IF k \in misread THEN Absent ELSE Content(rev, k)) : k \in Loaded(rev)}

\* Loads the head and labels what changed since the tag of the mirror; a head that
\* cannot be loaded ends the sync before it has done anything.  A resource that
\* cannot be read with the API server's help (bad) is left without label, a
\* Certificate (misread) is left as it is; both are logged and the sync goes on.
BeginSync ==
  \E bad \in SUBSET ChangedResources(mirror, repo) :
  \E misread \in SUBSET {k \in Loaded(repo) : Converts(k, Content(repo, k))} :
    LET changed == ChangedResources(mirror, repo)
        TargetOf(k) == Target(k, IF k \in misread THEN Absent ELSE Content(repo, k))
        LabelOf(k) == IF TargetOf(k) # k THEN "tls"
                      ELSE IF k[1] \in Labelled /\ k \notin bad THEN "agent" ELSE "none"
        From(t) == CHOOSE k \in changed : TargetOf(k) = t
    IN /\ pc = "idle"
       /\ Loads(repo)
       /\ Budget(Cardinality(bad \cup misread))
       /\ Faults(Cardinality(bad \cup misread))
       /\ job' = [NoJob EXCEPT !.base = mirror, !.rev = repo, !.misread = misread,
                    !.keep = KeptResources(repo, misread),
                    !.want = [t \in {TargetOf(k) : k \in changed} |->
                                [content |-> Content(repo, From(t)), label |-> LabelOf(From(t))]]]
       /\ pc' = "loaded"
       /\ UNCHANGED <<repo, synced, mirror, cluster, told, ghost>>

\* Slip: nothing is deleted when the repository is empty.
PrepareSync_NotWhenEmpty ==
  /\ pc = "loaded"
  /\ LET gone == {k \in Keys : Exported(k) /\ k \notin job.keep /\ job.keep # {}}
     IN job' = [job EXCEPT !.deletes = gone, !.todo = gone]
  /\ pc' = "delete"
  /\ ghost' = [ghost EXCEPT !.raced = {}]
  /\ UNCHANGED <<repo, synced, mirror, cluster, told, used>>

\* Exports the cluster and stages what is not in the repository for deletion.
PrepareSync ==
  /\ pc = "loaded"
  /\ LET gone == {k \in Keys : Exported(k) /\ k \notin job.keep}
     IN job' = [job EXCEPT !.deletes = gone, !.todo = gone]
  /\ pc' = "delete"
  /\ ghost' = [ghost EXCEPT !.raced = {}]
  /\ UNCHANGED <<repo, synced, mirror, cluster, told, used>>

\* A failed command is repeated one resource at a time; only the errors of the
\* repetition are kept.
Fails(k) ==
  /\ job' = [job EXCEPT !.todo = @ \ {k}, !.failed = TRUE,
                        !.errors = IF job.single THEN @ \cup {k} ELSE @]
  /\ UNCHANGED <<repo, synced, mirror, cluster, pc, told, ghost>>

Does(k, obj) ==
  /\ cluster' = [cluster EXCEPT ![k] = obj]
  /\ job' = [job EXCEPT !.todo = @ \ {k}]
  /\ ghost' = [ghost EXCEPT !.unrecorded = @ \cup {k}, !.outside = @ \ {k}]
  /\ UNCHANGED <<repo, synced, mirror, pc, told, used>>

\* --wait=false: a resource with a finalizer stays, being deleted.
KubectlDelete ==
  \E k \in First("delete", job.todo) :
    /\ pc = "delete"
    /\ \/ cluster[k].content = Absent /\ Fails(k) /\ UNCHANGED used
       \/ cluster[k].content # Absent /\ Budget(1) /\ Fails(k) /\ Faults(1)
       \/ /\ cluster[k].content # Absent
          /\ Does(k, IF k[1] = "PersistentVolumeClaim" THEN [cluster[k] EXCEPT !.dying = TRUE] ELSE Gone)

\* A label of somebody else stays, as it is not in what the agent applied last.
Merged(k) == IF cluster[k].label = "spared" THEN "spared" ELSE job.want[k].label

KubectlApply ==
  \E k \in First("apply", job.todo) :
    /\ pc = "apply"
    /\ \/ Budget(1) /\ Fails(k) /\ Faults(1)
       \/ Does(k, [content |-> job.want[k].content, label |-> Merged(k), dying |-> cluster[k].dying])

\* Slip: a failed deletion is repeated with the resources to apply.
CommandEnds_Swapped ==
  /\ pc \in {"delete", "apply"}
  /\ job.todo = {}
  /\ \/ /\ job.failed /\ ~job.single
        /\ job' = [job EXCEPT !.single = TRUE, !.todo = DOMAIN job.want]
        /\ UNCHANGED pc
     \/ /\ ~job.failed \/ job.single
        /\ pc = "delete"
        /\ pc' = "apply"
        /\ job' = [job EXCEPT !.todo = DOMAIN job.want, !.single = FALSE, !.failed = FALSE]
  /\ UNCHANGED <<repo, synced, mirror, cluster, told, ghost, used>>

\* A command is over: again one by one, or the next command.
CommandEnds ==
  /\ pc \in {"delete", "apply"}
  /\ job.todo = {}
  /\ \/ /\ job.failed /\ ~job.single
        /\ job' = [job EXCEPT !.single = TRUE,
                     !.todo = IF pc = "delete" THEN job.deletes ELSE DOMAIN job.want]
        /\ UNCHANGED pc
     \/ /\ ~job.failed \/ job.single
        /\ pc = "delete"
        /\ pc' = "apply"
        /\ job' = [job EXCEPT !.todo = DOMAIN job.want, !.single = FALSE, !.failed = FALSE]
  /\ UNCHANGED <<repo, synced, mirror, cluster, told, ghost, used>>

Touched == job.deletes \cup DOMAIN job.want

\* In the files that are as at the mirror's tag, but not as at the last one.
PassedOver ==
  UNION {{k \in InFile(job.rev, f) : Content(synced, k) # Content(job.rev, k)} :
           f \in {g \in Files : job.rev[g] = job.base[g]}}

\* The event tells the errors; the tag moves whether or not there were any, and
\* the mirror has it unless the refresh behind the push fails.
SyncEnds ==
  /\ pc = "apply" /\ job.todo = {}
  /\ ~job.failed \/ job.single
  /\ told' = (told \ Touched) \cup job.errors
  /\ synced' = job.rev
  /\ \/ mirror' = job.rev /\ UNCHANGED used
     \/ Budget(1) /\ Faults(1) /\ UNCHANGED mirror
  /\ ghost' = [ghost EXCEPT !.unrecorded = @ \ Touched, !.misread = @ \cup job.misread,
                  !.reverted = (@ \ Touched) \cup {Target(k, Content(job.rev, k)) : k \in PassedOver}]
  /\ pc' = "idle"
  /\ job' = NoJob
  /\ UNCHANGED <<repo, cluster>>

\* The export fails, the agent restarts, or the tag cannot be pushed, then
\* after the event.
SyncAborts ==
  /\ pc # "idle"
  /\ \/ UNCHANGED told
     \/ /\ pc = "apply" /\ job.todo = {} /\ (~job.failed \/ job.single)
        /\ told' = (told \ Touched) \cup job.errors
  /\ Budget(1)
  /\ Faults(1)
  /\ pc' = "idle"
  /\ job' = NoJob
  /\ UNCHANGED <<repo, synced, mirror, cluster, ghost>>

-----------------------------------------------------------------------------
\* The rest of the world.

\* The mirror fetches a new commit, and the tags with it.
Commits ==
  \E f \in Files, k \in RepoKeys : \E c \in Contents(k) \cup {Absent} :
    /\ used.commits < MaxCommits
    /\ repo[f][k] # c
    /\ repo' = [repo EXCEPT ![f][k] = c]
    /\ mirror' = synced
    /\ used' = [used EXCEPT !.commits = @ + 1]
    /\ UNCHANGED <<synced, cluster, pc, job, told, ghost>>

\* The mirror fetches the tag alone, or is cloned again after a restart.
Refreshes ==
  /\ mirror # synced
  /\ mirror' = synced
  /\ UNCHANGED <<repo, synced, cluster, pc, job, told, ghost, used>>

\* Another user deletes, creates or edits a resource, its labels included.
OthersChange ==
  \E k \in Keys : \E obj \in {Gone, [content |-> Other, label |-> "none", dying |-> FALSE],
                              [cluster[k] EXCEPT !.content = IF @ = Absent THEN @ ELSE Other],
                              [cluster[k] EXCEPT !.label = IF @ = "agent" /\ k[1] \in ExportedNetwork
                                                           THEN "spared" ELSE @]} :
    /\ used.others < MaxOthers
    /\ obj # cluster[k]
    /\ cluster' = [cluster EXCEPT ![k] = obj]
    /\ ghost' = [ghost EXCEPT !.outside = @ \cup {k}, !.raced = @ \cup {k}]
    /\ used' = [used EXCEPT !.others = @ + 1]
    /\ UNCHANGED <<repo, synced, mirror, pc, job, told>>

\* The finalizers of a deleted resource are done, whatever was applied since.
Vanishes ==
  \E k \in Keys :
    /\ cluster[k].dying
    /\ cluster' = [cluster EXCEPT ![k] = Gone]
    /\ ghost' = [ghost EXCEPT !.outside = @ \cup {k}, !.raced = @ \cup {k}]
    /\ UNCHANGED <<repo, synced, mirror, pc, job, told, used>>

Next ==
  \/ BeginSync \/ PrepareSync \/ KubectlDelete \/ KubectlApply
  \/ CommandEnds \/ SyncEnds \/ SyncAborts
  \/ Commits \/ Refreshes \/ OthersChange \/ Vanishes

Spec == Init /\ [][Next]_vars

-----------------------------------------------------------------------------
\* The properties.  Four kinds of resource may differ from the tag unreported:
\*   unrecorded  touched by a sync whose tag was not moved, and not since
\*   outside     last changed by another user, or by a finalizer
\*   reverted    changed up to one tag and back up to the next, whose sync
\*               compared with an older tag and passed over it
\*   misread     a Certificate that some sync failed to convert
\* raced: changed by others since the last sync listed the cluster.

Revisions == [Files -> [RepoKeys -> Versions \cup {Absent}]]
ClusterObjects == [content : Versions \cup {Absent, Other}, label : {"none", "agent", "tls", "spared"},
                   dying : BOOLEAN]
Wanted == [content : Versions \cup {Absent}, label : {"none", "agent", "tls"}]
Wants == UNION {[ks -> Wanted] : ks \in SUBSET Keys}
Jobs == [base : Revisions, rev : Revisions, keep : SUBSET Keys, want : Wants,
         deletes : SUBSET Keys, misread : SUBSET RepoKeys, todo : SUBSET Keys,
         single : BOOLEAN, failed : BOOLEAN, errors : SUBSET Keys]
Ghosts == [unrecorded : SUBSET Keys, outside : SUBSET Keys, raced : SUBSET Keys,
           reverted : SUBSET Keys, misread : SUBSET RepoKeys]

\* What a sync has read stays within the repository and the cluster, and a
\* resource is staged for deletion or kept, never both.
TypeOK ==
  /\ repo \in Revisions /\ synced \in Revisions /\ mirror \in Revisions
  /\ cluster \in [Keys -> ClusterObjects]
  /\ pc \in {"idle", "loaded", "delete", "apply"}
  /\ job \in Jobs
  /\ job.deletes \cap job.keep = {} /\ DOMAIN job.want \subseteq job.keep
  /\ job.todo \subseteq (IF pc = "delete" THEN job.deletes ELSE DOMAIN job.want)
  /\ job.errors \subseteq Touched
  /\ told \subseteq Keys /\ ghost \in Ghosts

Excused(k) == k \in told \/ k \in ghost.unrecorded \/ k \in ghost.outside

\* Between syncs a resource of the tagged revision has that content in the
\* cluster, or its error was told: the files that changed since the tag of the
\* mirror (doSync, ChangedFiles) are all that had to be applied.
DriftIsTold ==
  pc = "idle" =>
    \A k \in Loaded(synced) \ ghost.misread :
      LET t == Target(k, Content(synced, k))
      IN  cluster[t].content = Content(synced, k) \/ Excused(t) \/ t \in ghost.reverted

\* Between syncs nothing the agent labelled is in the cluster and not in the
\* tagged revision, unless its deletion failed and was told (prepareSyncDelete).
PrunesRemoved ==
  pc = "idle" =>
    \A k \in Keys :
      (Exported(k) /\ cluster[k].label = "agent" /\ ~cluster[k].dying /\ k \notin ghost.misread) =>
        \/ k \in Loaded(synced) /\ ~Converts(k, Content(synced, k))
        \/ Excused(k)

\* The running command deletes k, or starts its deletion.
Deletes(k) ==
  /\ pc = "delete" /\ job' # job
  /\ cluster[k].content # Absent /\ ~cluster[k].dying
  /\ cluster'[k].content = Absent \/ cluster'[k].dying

\* A sync deletes only what its revision does not contain, or contains in
\* another form, and of the others only what had the agent's label, without
\* no_delete, when the sync listed the cluster: what somebody else made stays,
\* but for Certificates and releases, which Export lists whoever made them.
DeletesOnlyRemoved ==
  [][\A k \in Keys :
       Deletes(k) =>
         /\ k \in Loaded(job.rev) => Converts(k, Content(job.rev, k))
         /\ cluster[k].label = "agent" \/ k[1] \in {"Certificate", "C7NHelmRelease"} \/ k \in ghost.raced]_vars

\* gitops_sync.go:329: what is in the repository is applied.  Refuted: a change
\* applied by a sync that could not move the tag and then reverted is not
\* applied again, because the head does not differ from the tag.
RepoIsApplied ==
  (pc = "idle" /\ repo = synced) =>
    \A k \in Loaded(synced) \ ghost.misread :
      LET t == Target(k, Content(synced, k))
      IN  cluster[t].content = Content(synced, k) \/ t \in told \/ t \in ghost.outside
=============================================================================
