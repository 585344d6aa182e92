--------------------------- MODULE RepoApplyProofs ---------------------------
(***************************************************************************)
(* Proofs about RepoApply, for every set of kinds, names, files and        *)
(* contents and every number of commits, failing commands, early ends and  *)
(* changes by others: its type invariant, that a sync reports what it      *)
(* could not apply or prune, and that it deletes only what was removed.    *)
(***************************************************************************)
EXTENDS RepoApply, TLAPS

-----------------------------------------------------------------------------
\* The inductive invariant.

\* A revision that is synced, or being synced, names no resource twice.
LoadsInv == Loads(synced) /\ (pc # "idle" => Loads(job.rev))

\* DriftIsTold and PrunesRemoved hold during a sync too, of the last tag: what
\* the running sync touches is unrecorded.
DriftInv ==
  \A k \in Loaded(synced) \ ghost.misread :
    \/ cluster[Target(k, Content(synced, k))].content = Content(synced, k)
    \/ Excused(Target(k, Content(synced, k)))
    \/ Target(k, Content(synced, k)) \in ghost.reverted

Ours(k) == Exported(k) /\ cluster[k].label = "agent" /\ ~cluster[k].dying

PruneInv ==
  \A k \in Keys \ ghost.misread :
    Ours(k) => (k \in Loaded(synced) /\ ~Converts(k, Content(synced, k))) \/ Excused(k)

\* What the running sync applies a resource of its revision as.
JobTarget(k) == Target(k, IF k \in job.misread THEN Absent ELSE Content(job.rev, k))

\* The sync keeps the resources of its revision and no others, and wants those
\* of the changed files.
KeepInv ==
  pc # "idle" =>
    /\ \A k \in Loaded(job.rev) : JobTarget(k) \in job.keep
    /\ \A t \in job.keep : \E k \in Loaded(job.rev) : t = JobTarget(k)

WantInv ==
  pc # "idle" =>
    /\ \A t \in DOMAIN job.want : \E k \in ChangedResources(job.base, job.rev) : t = JobTarget(k)
    /\ \A k \in ChangedResources(job.base, job.rev) :
         /\ JobTarget(k) \in DOMAIN job.want
         /\ job.want[JobTarget(k)].content = Content(job.rev, k)
         /\ job.want[JobTarget(k)].label = "agent" => JobTarget(k) = k

\* What the sync found in the cluster and does not keep is staged for deletion.
StageInv ==
  pc \in {"delete", "apply"} => \A k \in Keys : Ours(k) => k \in job.keep \cup job.deletes \cup ghost.outside

\* What is staged was the agent's, or of a kind that is exported whoever made it.
OwnerInv ==
  pc \in {"delete", "apply"} =>
    \A k \in job.deletes :
      \/ cluster[k].content = Absent
      \/ cluster[k].label = "agent"
      \/ k[1] \in {"Certificate", "C7NHelmRelease"}
      \/ k \in ghost.raced

\* Errors are of commands.
FreshInv == pc = "loaded" => job.errors = {}

\* The commands of the sync: each resource is an error, done, or still to be done.
Again == job.failed /\ ~job.single

DeleteInv ==
  pc \in {"delete", "apply"} =>
    \A k \in job.deletes :
      \/ k \in job.errors
      \/ k \in ghost.unrecorded /\ (k \in ghost.outside \/ cluster[k].content = Absent \/ cluster[k].dying)
      \/ pc = "delete" /\ (k \in job.todo \/ Again)

ApplyInv ==
  pc = "apply" =>
    \A k \in DOMAIN job.want :
      \/ k \in job.errors
      \/ /\ k \in ghost.unrecorded
         /\ \/ k \in ghost.outside
            \/ cluster[k].content = job.want[k].content /\ cluster[k].label \in {job.want[k].label, "spared"}
      \/ k \in job.todo \/ Again

IInv ==
  /\ TypeOK /\ LoadsInv /\ DriftInv /\ PruneInv
  /\ KeepInv /\ WantInv /\ FreshInv /\ StageInv /\ OwnerInv /\ DeleteInv /\ ApplyInv

-----------------------------------------------------------------------------
\* Revisions and targets.

\* Only a converted certificate is applied as another resource.
LEMMA TargetFacts ==
  ASSUME NEW k \in RepoKeys, NEW c
  PROVE  /\ Target(k, c) \in Keys
         /\ Target(k, c) = k <=> ~Converts(k, c)
         /\ Converts(k, c) => k[1] = "Certificate" /\ Target(k, c)[1] = "Secret"
<1>1. k = <<k[1], k[2]>> /\ k[1] \in Kinds /\ k[2] \in Names
  BY DEF RepoKeys
<1>2. <<"Secret", k[2]>> \in Keys /\ k \in Keys
  BY <1>1 DEF Keys
<1>3. Converts(k, c) => k[1] = "Certificate" /\ <<"Secret", k[2]>> # k
  BY <1>1 DEF Converts
<1>4. QED
  BY <1>2, <1>3 DEF Target

LEMMA TargetAbsent ==
  ASSUME NEW k
  PROVE  Target(k, Absent) = k
  BY RepoApplyAssumption DEF Target, Converts

\* Secrets and certificates are never in one repository.
LEMMA NoClash ==
  ASSUME NEW k \in RepoKeys, NEW j \in RepoKeys, k[1] = "Secret"
  PROVE  j[1] # "Certificate"
  BY RepoApplyAssumption DEF RepoKeys

LEMMA TargetInjective ==
  ASSUME NEW k \in RepoKeys, NEW j \in RepoKeys, NEW c, NEW d, Target(k, c) = Target(j, d)
  PROVE  k = j
<1>1. k = <<k[1], k[2]>> /\ j = <<j[1], j[2]>>
  BY DEF RepoKeys
<1>2. CASE Converts(k, c) /\ Converts(j, d)
  <2>1. k[1] = "Certificate" /\ j[1] = "Certificate" /\ k[2] = j[2]
    BY <1>2 DEF Target, Converts
  <2>2. QED
    BY <1>1, <2>1
<1>3. CASE Converts(k, c) /\ ~Converts(j, d)
  BY <1>3, TargetFacts, NoClash
<1>4. CASE ~Converts(k, c) /\ Converts(j, d)
  BY <1>4, TargetFacts, NoClash
<1>5. CASE ~Converts(k, c) /\ ~Converts(j, d)
  BY <1>5 DEF Target
<1>6. QED
  BY <1>2, <1>3, <1>4, <1>5

\* A resource is looked up in the only file that has it.
LEMMA ContentOf ==
  ASSUME NEW rev, Loads(rev), NEW f \in Files, NEW k \in InFile(rev, f)
  PROVE  Content(rev, k) = rev[f][k]
<1> DEFINE holds == {g \in Files : k \in InFile(rev, g)}
<1>1. holds = {f}
  BY DEF Loads
<1>2. (CHOOSE g \in holds : TRUE) = f
  BY <1>1
<1>3. QED
  BY <1>1, <1>2 DEF Content

LEMMA ContentType ==
  ASSUME NEW rev \in Revisions, NEW k \in RepoKeys
  PROVE  Content(rev, k) \in Versions \cup {Absent}
<1> DEFINE holds == {f \in Files : k \in InFile(rev, f)}
<1>1. holds # {} => (CHOOSE f \in holds : TRUE) \in Files
  OBVIOUS
<1>2. QED
  BY <1>1 DEF Content, Revisions

LEMMA LoadedKeys ==
  ASSUME NEW rev, NEW old
  PROVE  Loaded(rev) \subseteq RepoKeys /\ ChangedResources(old, rev) \subseteq Loaded(rev)
  BY DEF Loaded, InFile, ChangedResources

\* A resource that is not in a changed file was passed over, or is as at the tag.
LEMMA Unchanged ==
  ASSUME Loads(job.rev), NEW k \in Loaded(job.rev) \ ChangedResources(job.base, job.rev)
  PROVE  k \in PassedOver \/ (k \in Loaded(synced) /\ Content(synced, k) = Content(job.rev, k))
<1>1. PICK f \in Files : k \in InFile(job.rev, f)
  BY DEF Loaded
<1>2. job.rev[f] = job.base[f]
  BY <1>1 DEF ChangedResources
<1>3. CASE Content(synced, k) # Content(job.rev, k)
  BY <1>1, <1>2, <1>3 DEF PassedOver
<1>4. CASE Content(synced, k) = Content(job.rev, k)
  <2>1. Content(synced, k) # Absent
    BY <1>1, <1>4, ContentOf DEF InFile
  <2>2. PICK g \in Files : k \in InFile(synced, g)
    BY <2>1 DEF Content
  <2>3. QED
    BY <1>4, <2>2 DEF Loaded
<1>5. QED
  BY <1>3, <1>4

\* Nothing is passed over by a sync that knows the last tag.
LEMMA NothingPassedOver ==
  ASSUME Loads(synced), Loads(job.rev), job.base = synced
  PROVE  PassedOver = {}
<1> SUFFICES ASSUME NEW f \in Files, job.rev[f] = synced[f], NEW k \in InFile(job.rev, f)
             PROVE  Content(synced, k) = Content(job.rev, k)
  BY DEF PassedOver
<1>1. k \in InFile(synced, f)
  BY DEF InFile
<1>2. QED
  BY <1>1, ContentOf

-----------------------------------------------------------------------------
\* Steps of one kind.

\* The fields of the variables, and that what is wanted can be applied.
LEMMA Fields ==
  ASSUME TypeOK
  PROVE  /\ job.base \in Revisions /\ job.rev \in Revisions /\ job.keep \subseteq Keys /\ job.want \in Wants
         /\ job.deletes \subseteq Keys /\ job.misread \subseteq RepoKeys /\ job.todo \subseteq Keys
         /\ job.errors \subseteq Keys
         /\ ghost.unrecorded \subseteq Keys /\ ghost.outside \subseteq Keys /\ ghost.misread \subseteq RepoKeys
         /\ ghost.raced \subseteq Keys /\ ghost.reverted \subseteq Keys
         /\ \A k \in Keys : cluster[k] \in ClusterObjects
  BY DEF TypeOK, Jobs, Ghosts

LEMMA WantFields ==
  ASSUME NEW want \in Wants
  PROVE  /\ DOMAIN want \subseteq Keys
         /\ \A k \in DOMAIN want : want[k] \in Wanted
  BY DEF Wants

LEMMA GoneType == Gone \in ClusterObjects /\ Gone.content = Absent
  BY DEF Gone, ClusterObjects

\* What was so of the last tag stays so where the cluster stays, or is excused.
LEMMA ExcusedStep ==
  ASSUME IInv, synced' = synced, ghost'.misread = ghost.misread, ghost'.reverted = ghost.reverted,
         \A k \in Keys : Excused(k)' \/ (cluster'[k] = cluster[k] /\ ~Excused(k))
  PROVE  DriftInv' /\ PruneInv'
<1>1. \A k \in Loaded(synced) : Target(k, Content(synced, k)) \in Keys
  BY TargetFacts, LoadedKeys
<1>2. DriftInv'
  BY <1>1 DEF DriftInv, IInv
<1>3. PruneInv'
  BY DEF PruneInv, IInv, Ours, Exported
<1>4. QED
  BY <1>2, <1>3

\* A command of the sync changes neither what was read nor what was staged.
LEMMA ReadStep ==
  ASSUME IInv, pc # "idle", pc' # "idle", job'.base = job.base, job'.rev = job.rev, job'.keep = job.keep,
         synced' = synced, job'.want = job.want, job'.misread = job.misread
  PROVE  LoadsInv' /\ KeepInv' /\ WantInv'
<1>1. LoadsInv'
  BY DEF IInv, LoadsInv
<1>2. KeepInv'
  BY DEF IInv, KeepInv, JobTarget
<1>3. WantInv'
  BY DEF IInv, WantInv, JobTarget
<1>4. QED
  BY <1>1, <1>2, <1>3

\* No sync runs: nothing is required of one.
LEMMA IdleStep ==
  ASSUME IInv, pc' = "idle", Loads(synced)'
  PROVE  /\ LoadsInv' /\ KeepInv' /\ WantInv' /\ FreshInv'
         /\ StageInv' /\ OwnerInv' /\ DeleteInv' /\ ApplyInv'
  BY DEF LoadsInv, KeepInv, WantInv, FreshInv, StageInv, OwnerInv, DeleteInv, ApplyInv

\* The initial states satisfy the invariant.
LEMMA InitInv == Init => IInv
<1> SUFFICES ASSUME Init PROVE IInv
  OBVIOUS
<1>1. EmptyRepo \in Revisions /\ Loads(EmptyRepo) /\ Loaded(EmptyRepo) = {}
  BY DEF EmptyRepo, Revisions, Loads, Loaded, InFile
<1>2. << >> \in Wants /\ DOMAIN << >> = {}
  <2>1. << >> \in [{} -> Wanted]
    OBVIOUS
  <2>2. QED
    BY <2>1 DEF Wants
<1>3. NoJob \in Jobs
  BY <1>1, <1>2 DEF NoJob, Jobs
<1>4. cluster \in [Keys -> ClusterObjects] /\ \A k \in Keys : cluster[k] = Gone
  BY GoneType DEF Init
<1>5. ghost \in Ghosts
  BY DEF Init, Ghosts
<1>6. job = NoJob /\ job.deletes = {} /\ job.keep = {} /\ job.todo = {} /\ job.errors = {} /\ job.want = << >>
  BY DEF Init, NoJob
<1>7. TypeOK
  BY <1>1, <1>2, <1>3, <1>4, <1>5, <1>6 DEF Init, TypeOK
<1>8. DriftInv /\ PruneInv
  BY <1>1, <1>4, GoneType DEF Init, DriftInv, PruneInv, Ours, Exported
<1>9. /\ LoadsInv /\ KeepInv /\ WantInv /\ FreshInv
      /\ StageInv /\ OwnerInv /\ DeleteInv /\ ApplyInv
  BY <1>1 DEF Init, LoadsInv, KeepInv, WantInv, FreshInv, StageInv, OwnerInv, DeleteInv, ApplyInv
<1>10. QED
  BY <1>7, <1>8, <1>9 DEF IInv

-----------------------------------------------------------------------------
\* The beginning of a sync.

LEMMA BeginSyncInv ==
  ASSUME IInv, BeginSync
  PROVE  IInv'
<1> DEFINE changed == ChangedResources(mirror, repo)
<1>1. PICK bad \in SUBSET changed,
           misread \in SUBSET {k \in Loaded(repo) : Converts(k, Content(repo, k))} :
        LET TargetOf(k) == Target(k, IF k \in misread THEN Absent ELSE Content(repo, k))
            LabelOf(k) == IF TargetOf(k) # k THEN "tls"
                          ELSE IF k[1] \in Labelled /\ k \notin bad THEN "agent" ELSE "none"
            From(t) == CHOOSE k \in changed : TargetOf(k) = t
        IN job' = [NoJob EXCEPT !.base = mirror, !.rev = repo, !.misread = misread,
                    !.keep = KeptResources(repo, misread),
                    !.want = [t \in {TargetOf(k) : k \in changed} |->
                                [content |-> Content(repo, From(t)), label |-> LabelOf(From(t))]]]
  BY DEF BeginSync
<1> DEFINE TargetOf(k) == Target(k, IF k \in misread THEN Absent ELSE Content(repo, k))
           LabelOf(k) == IF TargetOf(k) # k THEN "tls"
                         ELSE IF k[1] \in Labelled /\ k \notin bad THEN "agent" ELSE "none"
           From(t) == CHOOSE k \in changed : TargetOf(k) = t
           want == [t \in {TargetOf(k) : k \in changed} |->
                      [content |-> Content(repo, From(t)), label |-> LabelOf(From(t))]]
           keep == KeptResources(repo, misread)
<1>2. /\ job' = [NoJob EXCEPT !.base = mirror, !.rev = repo, !.misread = misread, !.keep = keep, !.want = want]
      /\ Loads(repo) /\ pc = "idle" /\ pc' = "loaded"
      /\ UNCHANGED <<repo, synced, mirror, cluster, told, ghost>>
  BY <1>1 DEF BeginSync
<1>3. changed \subseteq Loaded(repo) /\ Loaded(repo) \subseteq RepoKeys /\ misread \subseteq RepoKeys
  BY <1>1, LoadedKeys
<1>4. \A k \in RepoKeys : TargetOf(k) \in Keys
  BY TargetFacts
<1>5. \A k \in changed : From(TargetOf(k)) = k
  <2> SUFFICES ASSUME NEW k \in changed PROVE From(TargetOf(k)) = k
    OBVIOUS
  <2>1. \A j \in changed : TargetOf(j) = TargetOf(k) => j = k
    BY <1>3, TargetInjective
  <2>2. QED
    BY <2>1
<1>6. keep = {TargetOf(k) : k \in Loaded(repo)}
  BY DEF KeptResources
<1>7. \A k \in changed : TargetOf(k) \in DOMAIN want
                         /\ want[TargetOf(k)] = [content |-> Content(repo, k), label |-> LabelOf(k)]
  <2> SUFFICES ASSUME NEW k \in changed
               PROVE  /\ TargetOf(k) \in DOMAIN want
                      /\ want[TargetOf(k)] = [content |-> Content(repo, k), label |-> LabelOf(k)]
    OBVIOUS
  <2>1. From(TargetOf(k)) = k
    BY <1>5
  <2> HIDE DEF From, LabelOf, TargetOf
  <2>2. QED
    BY <2>1
<1>8. DOMAIN want = {TargetOf(k) : k \in changed} /\ DOMAIN want \subseteq keep /\ keep \subseteq Keys
  BY <1>3, <1>4, <1>6
<1>9. \A k \in changed : LabelOf(k) \in {"none", "agent", "tls"} /\ (LabelOf(k) = "agent" => TargetOf(k) = k)
  OBVIOUS
<1>10. \A k \in changed : Content(repo, k) \in Versions \cup {Absent}
  BY <1>3, ContentType DEF IInv, TypeOK
<1>11. want \in Wants
  <2>1. \A t \in DOMAIN want : want[t] \in Wanted
    BY <1>7, <1>8, <1>9, <1>10 DEF Wanted
  <2>2. want \in [DOMAIN want -> Wanted] /\ DOMAIN want \in SUBSET Keys
    BY <1>8, <2>1
  <2>3. QED
    BY <2>2 DEF Wants
<1> HIDE DEF want, keep
<1>12. job' = [base |-> mirror, rev |-> repo, keep |-> keep, want |-> want, deletes |-> {}, misread |-> misread,
               todo |-> {}, single |-> FALSE, failed |-> FALSE, errors |-> {}]
  BY <1>2 DEF NoJob
<1>13. job' \in Jobs
  BY <1>3, <1>8, <1>11, <1>12 DEF IInv, TypeOK, Jobs
<1>14. TypeOK'
  <2>1. /\ job'.deletes = {} /\ job'.keep = keep /\ job'.want = want /\ job'.todo = {}
        /\ job'.errors = {}
    BY <1>12
  <2>2. QED
    BY <1>2, <1>8, <1>13, <2>1 DEF IInv, TypeOK, Touched
<1>15. DriftInv' /\ PruneInv'
  BY <1>2, ExcusedStep DEF Excused
<1>16. LoadsInv'
  BY <1>2, <1>12 DEF IInv, LoadsInv
<1>17. \A k : JobTarget(k)' = TargetOf(k)
  BY <1>12 DEF JobTarget
<1>18. KeepInv'
  BY <1>6, <1>12, <1>17 DEF KeepInv
<1>19. WantInv'
  <2>1. changed = ChangedResources(job.base, job.rev)' /\ job'.want = want /\ job'.rev = repo
    BY <1>2, <1>12
  <2>2. /\ \A t \in DOMAIN want : \E k \in changed : t = TargetOf(k)
        /\ \A k \in changed : /\ TargetOf(k) \in DOMAIN want
                              /\ want[TargetOf(k)].content = Content(repo, k)
                              /\ want[TargetOf(k)].label = "agent" => TargetOf(k) = k
    <3>1. \A t \in DOMAIN want : \E k \in changed : t = TargetOf(k)
      BY <1>8
    <3>2. ASSUME NEW k \in changed
          PROVE  /\ TargetOf(k) \in DOMAIN want
                 /\ want[TargetOf(k)].content = Content(repo, k)
                 /\ want[TargetOf(k)].label = "agent" => TargetOf(k) = k
      <4>1. want[TargetOf(k)] = [content |-> Content(repo, k), label |-> LabelOf(k)]
            /\ TargetOf(k) \in DOMAIN want
        BY <1>7
      <4>2. LabelOf(k) = "agent" => TargetOf(k) = k
        BY <1>9
      <4> HIDE DEF TargetOf, LabelOf
      <4>3. QED
        BY <4>1, <4>2
    <3>3. QED
      BY <3>1, <3>2
  <2>3. QED
    BY <1>17, <2>1, <2>2 DEF WantInv
<1>20. FreshInv' /\ StageInv' /\ OwnerInv' /\ DeleteInv' /\ ApplyInv'
  <2>1. job'.errors = {}
    BY <1>12
  <2>2. QED
    BY <1>2, <2>1 DEF FreshInv, StageInv, OwnerInv, DeleteInv, ApplyInv
<1>21. QED
  BY <1>14, <1>15, <1>16, <1>18, <1>19, <1>20 DEF IInv

LEMMA PrepareSyncInv ==
  ASSUME IInv, PrepareSync
  PROVE  IInv'
<1> DEFINE gone == {k \in Keys : Exported(k) /\ k \notin job.keep}
<1>1. /\ pc = "loaded" /\ pc' = "delete" /\ UNCHANGED <<repo, synced, mirror, cluster, told>>
      /\ ghost' = [ghost EXCEPT !.raced = {}]
      /\ job' = [job EXCEPT !.deletes = gone, !.todo = gone]
  BY DEF PrepareSync
<1>2. job \in Jobs /\ gone \subseteq Keys
  BY DEF IInv, TypeOK
<1>3. /\ job' \in Jobs /\ job'.deletes = gone /\ job'.todo = gone
      /\ job'.base = job.base /\ job'.rev = job.rev /\ job'.keep = job.keep /\ job'.want = job.want
      /\ job'.misread = job.misread /\ job'.errors = job.errors
  BY <1>1, <1>2 DEF Jobs
<1>4. job.errors = {}
  BY <1>1 DEF IInv, FreshInv
<1>g. /\ ghost' \in Ghosts /\ ghost'.unrecorded = ghost.unrecorded /\ ghost'.outside = ghost.outside
      /\ ghost'.reverted = ghost.reverted /\ ghost'.misread = ghost.misread
  BY <1>1 DEF IInv, TypeOK, Ghosts
<1>5. TypeOK'
  BY <1>1, <1>3, <1>4, <1>g DEF IInv, TypeOK, Touched
<1>6. DriftInv' /\ PruneInv'
  BY <1>1, <1>g, ExcusedStep DEF Excused
<1>7. LoadsInv' /\ KeepInv' /\ WantInv'
  BY <1>1, <1>3, ReadStep
<1>8. FreshInv' /\ DeleteInv' /\ ApplyInv'
  BY <1>1, <1>3 DEF FreshInv, DeleteInv, ApplyInv
<1>9. StageInv'
  BY <1>1, <1>3 DEF StageInv, Ours, Exported
<1>10. OwnerInv'
  BY <1>1, <1>3 DEF OwnerInv, Exported, ExportedCertificates, ExportedReleases
<1>11. QED
  BY <1>5, <1>6, <1>7, <1>8, <1>9, <1>10 DEF IInv

-----------------------------------------------------------------------------
\* The commands.

\* A command fails: in a bulk the resource will be tried again, alone it is an error.
LEMMA FailsInv ==
  ASSUME IInv, NEW k \in job.todo, Fails(k), pc \in {"delete", "apply"}
  PROVE  IInv'
<1>1. UNCHANGED <<repo, synced, mirror, cluster, pc, told, ghost>>
  BY DEF Fails
<1>2. job \in Jobs /\ k \in Keys
  BY Fields DEF IInv, TypeOK
<1>3. job' = [job EXCEPT !.todo = @ \ {k}, !.failed = TRUE,
                        !.errors = IF job.single THEN @ \cup {k} ELSE @]
  BY DEF Fails
<1>4. /\ job' \in Jobs /\ job'.deletes = job.deletes /\ job'.todo = job.todo \ {k}
      /\ job'.base = job.base /\ job'.rev = job.rev /\ job'.keep = job.keep /\ job'.want = job.want
      /\ job'.misread = job.misread
      /\ job'.errors = IF job.single THEN job.errors \cup {k} ELSE job.errors
      /\ job'.failed = TRUE /\ job'.single = job.single
  BY <1>2, <1>3 DEF Jobs
<1>5. k \in Touched
  BY DEF IInv, TypeOK, Touched
<1>6. TypeOK'
  BY <1>1, <1>4, <1>5 DEF IInv, TypeOK, Touched
<1>7. DriftInv' /\ PruneInv'
  BY <1>1, ExcusedStep DEF Excused
<1>8. LoadsInv' /\ KeepInv' /\ WantInv'
  BY <1>1, <1>4, ReadStep
<1>9. FreshInv' /\ StageInv' /\ OwnerInv'
  BY <1>1, <1>4 DEF IInv, FreshInv, StageInv, OwnerInv, Ours, Exported
<1>10. DeleteInv'
  BY <1>1, <1>4 DEF IInv, DeleteInv, Again
<1>11. ApplyInv'
  BY <1>1, <1>4 DEF IInv, ApplyInv, Again
<1>12. QED
  BY <1>6, <1>7, <1>8, <1>9, <1>10, <1>11 DEF IInv

\* What every command that succeeds has in common.
LEMMA DoesFacts ==
  ASSUME IInv, NEW k \in job.todo, NEW obj \in ClusterObjects, Does(k, obj), pc \in {"delete", "apply"}
  PROVE  /\ UNCHANGED <<repo, synced, mirror, pc, told>>
         /\ TypeOK' /\ DriftInv' /\ PruneInv' /\ LoadsInv' /\ KeepInv' /\ WantInv' /\ FreshInv'
         /\ cluster'[k] = obj /\ \A j \in Keys \ {k} : cluster'[j] = cluster[j]
         /\ job'.deletes = job.deletes /\ job'.todo = job.todo \ {k}
         /\ job'.keep = job.keep /\ job'.want = job.want /\ job'.errors = job.errors
         /\ job'.failed = job.failed /\ job'.single = job.single
         /\ ghost'.unrecorded = ghost.unrecorded \cup {k} /\ ghost'.outside = ghost.outside \ {k}
         /\ ghost'.raced = ghost.raced
<1>1. UNCHANGED <<repo, synced, mirror, pc, told>>
  BY DEF Does
<1>2. job \in Jobs /\ ghost \in Ghosts /\ k \in Keys
  BY Fields DEF IInv, TypeOK
<1>3. job' = [job EXCEPT !.todo = @ \ {k}]
  BY DEF Does
<1>4. /\ job' \in Jobs /\ job'.deletes = job.deletes /\ job'.todo = job.todo \ {k}
      /\ job'.base = job.base /\ job'.rev = job.rev /\ job'.keep = job.keep /\ job'.want = job.want
      /\ job'.misread = job.misread /\ job'.errors = job.errors
      /\ job'.failed = job.failed /\ job'.single = job.single
  BY <1>2, <1>3 DEF Jobs
<1>5. ghost' = [ghost EXCEPT !.unrecorded = @ \cup {k}, !.outside = @ \ {k}]
  BY DEF Does
<1>6. /\ ghost' \in Ghosts /\ ghost'.unrecorded = ghost.unrecorded \cup {k}
      /\ ghost'.outside = ghost.outside \ {k} /\ ghost'.misread = ghost.misread
      /\ ghost'.raced = ghost.raced /\ ghost'.reverted = ghost.reverted
  BY <1>2, <1>5 DEF Ghosts
<1>7. cluster' = [cluster EXCEPT ![k] = obj] /\ cluster \in [Keys -> ClusterObjects]
  BY DEF Does, IInv, TypeOK
<1>8. /\ cluster' \in [Keys -> ClusterObjects] /\ cluster'[k] = obj
      /\ \A j \in Keys \ {k} : cluster'[j] = cluster[j]
  BY <1>2, <1>7
<1>9. TypeOK'
  BY <1>1, <1>4, <1>6, <1>8 DEF IInv, TypeOK, Touched
<1>10. DriftInv' /\ PruneInv'
  BY <1>1, <1>6, <1>8, ExcusedStep DEF Excused
<1>11. LoadsInv' /\ KeepInv' /\ WantInv'
  BY <1>1, <1>4, ReadStep
<1>12. FreshInv'
  BY <1>1 DEF FreshInv
<1>13. QED
  BY <1>1, <1>4, <1>6, <1>8, <1>9, <1>10, <1>11, <1>12

LEMMA KubectlDeleteInv ==
  ASSUME IInv, KubectlDelete
  PROVE  IInv'
<1>1. PICK k \in First("delete", job.todo) :
        /\ pc = "delete"
        /\ \/ Fails(k)
           \/ /\ cluster[k].content # Absent
              /\ Does(k, IF k[1] = "PersistentVolumeClaim" THEN [cluster[k] EXCEPT !.dying = TRUE] ELSE Gone)
  BY DEF KubectlDelete
<1>2. k \in job.todo /\ k \in job.deletes /\ k \in Keys /\ k \notin job.keep
  BY <1>1, Fields DEF First, IInv, TypeOK
<1>3. CASE Fails(k)
  BY <1>1, <1>2, <1>3, FailsInv
<1>4. ASSUME NEW obj \in ClusterObjects, Does(k, obj), obj = Gone \/ obj.dying,
             obj = Gone \/ (obj.label = cluster[k].label /\ cluster[k].content # Absent)
      PROVE  IInv'
  <2>1. /\ pc' = pc
        /\ TypeOK' /\ DriftInv' /\ PruneInv' /\ LoadsInv' /\ KeepInv' /\ WantInv' /\ FreshInv'
        /\ cluster'[k] = obj /\ \A j \in Keys \ {k} : cluster'[j] = cluster[j]
        /\ job'.deletes = job.deletes /\ job'.todo = job.todo \ {k}
        /\ job'.keep = job.keep /\ job'.want = job.want /\ job'.errors = job.errors
        /\ job'.failed = job.failed /\ job'.single = job.single
        /\ ghost'.unrecorded = ghost.unrecorded \cup {k} /\ ghost'.outside = ghost.outside \ {k}
        /\ ghost'.raced = ghost.raced
    BY <1>1, <1>2, <1>4, DoesFacts
  <2>2. job.deletes \subseteq Keys
    BY Fields DEF IInv
  <2>3. StageInv'
    BY <1>2, <2>1 DEF IInv, StageInv, Ours, Exported
  <2>4. OwnerInv'
    BY <1>1, <1>2, <1>4, <2>1, <2>2, GoneType DEF IInv, OwnerInv
  <2>5. DeleteInv'
    BY <1>1, <1>2, <1>4, <2>1, <2>2, GoneType DEF IInv, DeleteInv, Again
  <2>6. ApplyInv'
    BY <1>1, <2>1 DEF ApplyInv
  <2>7. QED
    BY <2>1, <2>3, <2>4, <2>5, <2>6 DEF IInv
<1>5. cluster[k] \in ClusterObjects
  BY <1>2, Fields DEF IInv
<1>6. /\ [cluster[k] EXCEPT !.dying = TRUE] \in ClusterObjects /\ [cluster[k] EXCEPT !.dying = TRUE].dying
      /\ [cluster[k] EXCEPT !.dying = TRUE].label = cluster[k].label
  BY <1>5 DEF ClusterObjects
<1>7. CASE Does(k, Gone)
  BY <1>4, <1>7, GoneType
<1>8. CASE cluster[k].content # Absent /\ Does(k, [cluster[k] EXCEPT !.dying = TRUE])
  BY <1>4, <1>6, <1>8
<1>9. QED
  BY <1>1, <1>3, <1>7, <1>8

LEMMA KubectlApplyInv ==
  ASSUME IInv, KubectlApply
  PROVE  IInv'
<1>1. PICK k \in First("apply", job.todo) :
        /\ pc = "apply"
        /\ \/ Fails(k)
           \/ Does(k, [content |-> job.want[k].content, label |-> Merged(k), dying |-> cluster[k].dying])
  BY DEF KubectlApply
<1>2. k \in job.todo /\ k \in DOMAIN job.want /\ k \in Keys /\ k \in job.keep /\ k \notin job.deletes
  BY <1>1, Fields DEF First, IInv, TypeOK
<1>3. CASE Fails(k)
  BY <1>1, <1>2, <1>3, FailsInv
<1>4. CASE Does(k, [content |-> job.want[k].content, label |-> Merged(k), dying |-> cluster[k].dying])
  <2> DEFINE obj == [content |-> job.want[k].content, label |-> Merged(k), dying |-> cluster[k].dying]
  <2>1. job.want[k] \in Wanted /\ cluster[k] \in ClusterObjects
    BY <1>2, Fields, WantFields DEF IInv
  <2>2. /\ obj \in ClusterObjects /\ obj.content = job.want[k].content
        /\ obj.label \in {job.want[k].label, "spared"}
    BY <2>1 DEF Wanted, ClusterObjects, Merged
  <2> HIDE DEF obj
  <2>3. Does(k, obj)
    BY <1>4 DEF obj
  <2>4. /\ pc' = pc
        /\ TypeOK' /\ DriftInv' /\ PruneInv' /\ LoadsInv' /\ KeepInv' /\ WantInv' /\ FreshInv'
        /\ cluster'[k] = obj /\ \A j \in Keys \ {k} : cluster'[j] = cluster[j]
        /\ job'.deletes = job.deletes /\ job'.todo = job.todo \ {k}
        /\ job'.keep = job.keep /\ job'.want = job.want /\ job'.errors = job.errors
        /\ job'.failed = job.failed /\ job'.single = job.single
        /\ ghost'.unrecorded = ghost.unrecorded \cup {k} /\ ghost'.outside = ghost.outside \ {k}
        /\ ghost'.raced = ghost.raced
    BY <1>1, <1>2, <2>2, <2>3, DoesFacts
  <2>5. job.deletes \subseteq Keys /\ DOMAIN job.want \subseteq Keys
    BY Fields, WantFields DEF IInv
  <2>6. StageInv'
    BY <1>2, <2>4 DEF IInv, StageInv, Ours, Exported
  <2>7. OwnerInv'
    BY <1>2, <2>4, <2>5 DEF IInv, OwnerInv
  <2>8. DeleteInv'
    BY <1>2, <2>4, <2>5 DEF IInv, DeleteInv, Again
  <2>9. ApplyInv'
    BY <1>2, <2>2, <2>4, <2>5 DEF IInv, ApplyInv, Again
  <2>10. QED
    BY <2>4, <2>6, <2>7, <2>8, <2>9 DEF IInv
<1>5. QED
  BY <1>1, <1>3, <1>4

LEMMA CommandEndsInv ==
  ASSUME IInv, CommandEnds
  PROVE  IInv'
<1>1. UNCHANGED <<repo, synced, mirror, cluster, told, ghost>> /\ pc \in {"delete", "apply"} /\ job.todo = {}
  BY DEF CommandEnds
<1>2. job \in Jobs
  BY DEF IInv, TypeOK
<1>3. DriftInv' /\ PruneInv'
  BY <1>1, ExcusedStep DEF Excused
<1>4. CASE /\ job.failed /\ ~job.single /\ pc' = pc
           /\ job' = [job EXCEPT !.single = TRUE,
                        !.todo = IF pc = "delete" THEN job.deletes ELSE DOMAIN job.want]
  <2>1. DOMAIN job.want \subseteq Keys /\ job.deletes \subseteq Keys
    BY Fields, WantFields DEF IInv
  <2>2. /\ job' \in Jobs /\ job'.deletes = job.deletes
        /\ job'.todo = IF pc = "delete" THEN job.deletes ELSE DOMAIN job.want
        /\ job'.base = job.base /\ job'.rev = job.rev /\ job'.keep = job.keep /\ job'.want = job.want
        /\ job'.misread = job.misread /\ job'.errors = job.errors
    BY <1>2, <1>4, <2>1 DEF Jobs
  <2>3. TypeOK'
    BY <1>1, <1>4, <2>2 DEF IInv, TypeOK, Touched
  <2>4. LoadsInv' /\ KeepInv' /\ WantInv'
    BY <1>1, <1>4, <2>2, ReadStep
  <2>5. FreshInv' /\ StageInv' /\ OwnerInv'
    BY <1>1, <1>4, <2>2 DEF IInv, FreshInv, StageInv, OwnerInv, Ours, Exported
  <2>6. DeleteInv'
    BY <1>1, <1>4, <2>2 DEF IInv, DeleteInv
  <2>7. ApplyInv'
    BY <1>1, <1>4, <2>2 DEF ApplyInv
  <2>8. QED
    BY <1>3, <2>3, <2>4, <2>5, <2>6, <2>7 DEF IInv
<1>5. CASE /\ ~job.failed \/ job.single
           /\ pc = "delete" /\ pc' = "apply"
           /\ job' = [job EXCEPT !.todo = DOMAIN job.want, !.single = FALSE, !.failed = FALSE]
  <2>1. DOMAIN job.want \subseteq Keys
    BY Fields, WantFields DEF IInv
  <2>2. /\ job' \in Jobs /\ job'.deletes = job.deletes /\ job'.todo = DOMAIN job.want
        /\ job'.base = job.base /\ job'.rev = job.rev /\ job'.keep = job.keep /\ job'.want = job.want
        /\ job'.misread = job.misread /\ job'.errors = job.errors
    BY <1>2, <1>5, <2>1 DEF Jobs
  <2>3. TypeOK'
    BY <1>1, <1>5, <2>2 DEF IInv, TypeOK, Touched
  <2>4. LoadsInv' /\ KeepInv' /\ WantInv'
    BY <1>1, <1>5, <2>2, ReadStep
  <2>5. FreshInv' /\ StageInv' /\ OwnerInv'
    BY <1>1, <1>5, <2>2 DEF IInv, FreshInv, StageInv, OwnerInv, Ours, Exported
  <2>6. DeleteInv'
    BY <1>1, <1>5, <2>2 DEF IInv, DeleteInv, Again
  <2>7. ApplyInv'
    BY <1>1, <1>5, <2>2 DEF ApplyInv
  <2>8. QED
    BY <1>3, <2>3, <2>4, <2>5, <2>6, <2>7 DEF IInv
<1>6. QED
  BY <1>4, <1>5 DEF CommandEnds

-----------------------------------------------------------------------------
\* The end of a sync.

\* A resource that the sync touched without an error is done.
LEMMA TouchedIsDone ==
  ASSUME IInv, pc = "apply", job.todo = {}, ~job.failed \/ job.single, NEW k \in Touched \ job.errors
  PROVE  k \in ghost.unrecorded
  BY DEF IInv, DeleteInv, ApplyInv, Again, Touched

\* The tag moves: what was applied and pruned is so of the new tag.
LEMMA SyncEndsInv ==
  ASSUME IInv, SyncEnds
  PROVE  IInv'
<1>1. /\ pc = "apply" /\ job.todo = {} /\ (~job.failed \/ job.single)
      /\ told' = (told \ Touched) \cup job.errors /\ synced' = job.rev
      /\ pc' = "idle" /\ job' = NoJob /\ UNCHANGED <<repo, cluster>>
      /\ (mirror' = job.rev \/ mirror' = mirror)
  BY DEF SyncEnds
<1> DEFINE passed == {Target(k, Content(job.rev, k)) : k \in PassedOver}
           reverted == (ghost.reverted \ Touched) \cup passed
<1>2. /\ ghost' = [ghost EXCEPT !.unrecorded = @ \ Touched, !.misread = @ \cup job.misread,
                                 !.reverted = (@ \ Touched) \cup passed]
      /\ ghost \in Ghosts
  BY DEF SyncEnds, IInv, TypeOK
<1>3. job \in Jobs /\ job.misread \subseteq RepoKeys /\ passed \subseteq Keys /\ ghost.reverted \subseteq Keys
  <2>1. PassedOver \subseteq RepoKeys
    BY DEF PassedOver, InFile
  <2>2. passed \subseteq Keys
    BY <2>1, TargetFacts
  <2>3. QED
    BY <2>2, Fields DEF IInv, TypeOK
<1> HIDE DEF passed
<1>4. /\ ghost' \in Ghosts /\ ghost'.unrecorded = ghost.unrecorded \ Touched
      /\ ghost'.outside = ghost.outside /\ ghost'.misread = ghost.misread \cup job.misread
      /\ ghost'.reverted = reverted
  <2>1. reverted \subseteq Keys
    BY <1>3
  <2>2. ghost' = [ghost EXCEPT !.unrecorded = ghost.unrecorded \ Touched,
                               !.misread = ghost.misread \cup job.misread, !.reverted = reverted]
    BY <1>2
  <2> HIDE DEF reverted
  <2>3. QED
    BY <1>2, <1>3, <2>1, <2>2 DEF Ghosts
<1>5. TypeOK'
  <2>1. told' \subseteq Keys /\ synced' \in Revisions /\ mirror' \in Revisions
    BY <1>1, Fields DEF IInv, TypeOK
  <2>2. << >> \in [{} -> Wanted] /\ DOMAIN << >> = {}
    OBVIOUS
  <2>3. << >> \in Wants
    BY <2>2 DEF Wants
  <2>4. EmptyRepo \in Revisions
    BY DEF EmptyRepo, Revisions
  <2>5. NoJob \in Jobs
    BY <2>3, <2>4 DEF NoJob, Jobs
  <2>6. NoJob.deletes = {} /\ NoJob.keep = {} /\ NoJob.todo = {} /\ NoJob.errors = {} /\ NoJob.want = << >>
    BY DEF NoJob
  <2>7. QED
    BY <1>1, <1>4, <2>1, <2>2, <2>5, <2>6 DEF IInv, TypeOK
<1>6. Loads(synced)' /\ Loads(synced) /\ Loads(job.rev)
  BY <1>1 DEF IInv, LoadsInv
<1> DEFINE excused == told' \cup ghost'.unrecorded \cup ghost'.outside
<1>e. \A k : Excused(k)' <=> k \in excused
  BY DEF Excused
<1>7. \A k \in Keys \ Touched : Excused(k) => k \in excused
  BY <1>1, <1>4 DEF Excused
<1>8. \A k \in Keys : k \in job.errors \/ k \in ghost.outside => k \in excused
  BY <1>1, <1>4
<1> HIDE DEF excused
<1>9. /\ \A k \in Loaded(job.rev) : JobTarget(k) \in job.keep
      /\ \A t \in job.keep : \E k \in Loaded(job.rev) : t = JobTarget(k)
      /\ \A t \in DOMAIN job.want : \E k \in ChangedResources(job.base, job.rev) : t = JobTarget(k)
      /\ \A k \in ChangedResources(job.base, job.rev) :
           /\ JobTarget(k) \in DOMAIN job.want
           /\ job.want[JobTarget(k)].content = Content(job.rev, k)
           /\ job.want[JobTarget(k)].label = "agent" => JobTarget(k) = k
  BY <1>1 DEF IInv, KeepInv, WantInv
<1>10. \A k \in DOMAIN job.want :
         \/ k \in job.errors \/ k \in ghost.outside
         \/ cluster[k].content = job.want[k].content /\ cluster[k].label \in {job.want[k].label, "spared"}
  BY <1>1 DEF IInv, ApplyInv, Again
<1>11. \A k \in job.deletes :
         k \in job.errors \/ k \in ghost.outside \/ cluster[k].content = Absent \/ cluster[k].dying
  BY <1>1 DEF IInv, DeleteInv, Again
<1>12. DriftInv'
  <2> SUFFICES ASSUME NEW k \in Loaded(job.rev) \ (ghost.misread \cup job.misread)
               PROVE  \/ cluster[Target(k, Content(job.rev, k))].content = Content(job.rev, k)
                      \/ Target(k, Content(job.rev, k)) \in excused \cup reverted
    BY <1>1, <1>4, <1>e DEF DriftInv
  <2> DEFINE t == Target(k, Content(job.rev, k))
  <2>1. t = JobTarget(k) /\ k \in RepoKeys /\ t \in Keys
    BY LoadedKeys, TargetFacts DEF JobTarget
  <2>2. CASE k \in ChangedResources(job.base, job.rev)
    BY <1>8, <1>9, <1>10, <2>1, <2>2
  <2>3. CASE k \notin ChangedResources(job.base, job.rev)
    <3>1. k \in PassedOver \/ (k \in Loaded(synced) /\ Content(synced, k) = Content(job.rev, k))
      BY <1>6, <2>3, Unchanged
    <3>2. t \in passed \/ cluster[t].content = Content(job.rev, k) \/ Excused(t) \/ t \in ghost.reverted
      BY <3>1 DEF IInv, DriftInv, passed
    <3>3. t \notin DOMAIN job.want
      <4> SUFFICES ASSUME NEW j \in ChangedResources(job.base, job.rev), t = JobTarget(j) PROVE FALSE
        BY <1>9
      <4>1. j \in RepoKeys
        BY LoadedKeys
      <4>2. j = k
        BY <2>1, <4>1, TargetInjective DEF JobTarget
      <4>3. QED
        BY <2>3, <4>2
    <3>4. t \notin job.deletes
      BY <1>9, <2>1 DEF IInv, TypeOK
    <3>5. QED
      BY <1>7, <2>1, <3>2, <3>3, <3>4 DEF Touched
  <2>4. QED
    BY <2>2, <2>3
<1>13. PruneInv'
  <2> SUFFICES ASSUME NEW k \in Keys \ (ghost.misread \cup job.misread), Ours(k)
               PROVE  (k \in Loaded(job.rev) /\ ~Converts(k, Content(job.rev, k))) \/ k \in excused
    BY <1>1, <1>4, <1>e DEF PruneInv, Ours, Exported
  <2>1. ASSUME NEW j \in Loaded(job.rev), k = JobTarget(j), JobTarget(j) = j
        PROVE  k \in Loaded(job.rev) /\ ~Converts(k, Content(job.rev, k))
    <3>1. k = j /\ j \in RepoKeys /\ j = Target(j, Content(job.rev, j))
      BY <2>1, LoadedKeys DEF JobTarget
    <3>2. QED
      BY <2>1, <3>1, TargetFacts
  <2>2. CASE k \in job.deletes
    BY <1>8, <1>11, <2>2 DEF Ours, Exported
  <2>3. CASE k \in DOMAIN job.want
    <3>1. PICK j \in ChangedResources(job.base, job.rev) : k = JobTarget(j)
      BY <1>9, <2>3
    <3>2. j \in Loaded(job.rev)
      BY LoadedKeys
    <3>3. CASE job.want[k].label = "agent"
      BY <1>9, <2>1, <3>1, <3>2, <3>3
    <3>4. CASE job.want[k].label # "agent"
      BY <1>8, <1>10, <2>3, <3>4 DEF Ours
    <3>5. QED
      BY <3>3, <3>4
  <2>4. CASE k \notin Touched /\ k \in job.keep
    <3>1. PICK j \in Loaded(job.rev) : k = JobTarget(j)
      BY <1>9, <2>4
    <3>2. CASE JobTarget(j) = j
      BY <2>1, <3>1, <3>2
    <3>3. CASE JobTarget(j) # j
      <4>1. j \in RepoKeys /\ k[1] = "Secret" /\ j[1] = "Certificate"
        BY <3>1, <3>3, LoadedKeys, TargetFacts DEF JobTarget
      <4>2. k \notin Loaded(synced)
        BY <4>1, LoadedKeys, NoClash
      <4>3. Excused(k)
        BY <4>2 DEF IInv, PruneInv
      <4>4. QED
        BY <1>7, <2>4, <4>3
    <3>4. QED
      BY <3>2, <3>3
  <2>5. CASE k \notin Touched /\ k \notin job.keep
    <3>1. k \in job.deletes \cup ghost.outside
      BY <1>1, <2>5 DEF IInv, StageInv
    <3>2. QED
      BY <1>8, <2>5, <3>1 DEF Touched
  <2>6. QED
    BY <2>2, <2>3, <2>4, <2>5 DEF Touched
<1>14. QED
  BY <1>1, <1>5, <1>6, <1>12, <1>13, IdleStep DEF IInv

\* The tag does not move: what was done is unrecorded.
LEMMA SyncAbortsInv ==
  ASSUME IInv, SyncAborts
  PROVE  IInv'
<1>1. pc' = "idle" /\ job' = NoJob /\ UNCHANGED <<repo, synced, mirror, cluster, ghost>>
  BY DEF SyncAborts
<1>2. \/ told' = told
      \/ /\ pc = "apply" /\ job.todo = {} /\ (~job.failed \/ job.single)
         /\ told' = (told \ Touched) \cup job.errors
  BY DEF SyncAborts
<1>3. \A k \in Keys : Excused(k) => Excused(k)'
  <2>1. CASE told' = told
    BY <1>1, <2>1 DEF Excused
  <2>2. CASE /\ pc = "apply" /\ job.todo = {} /\ (~job.failed \/ job.single)
             /\ told' = (told \ Touched) \cup job.errors
    BY <1>1, <2>2, TouchedIsDone DEF Excused
  <2>3. QED
    BY <1>2, <2>1, <2>2
<1>4. DriftInv' /\ PruneInv'
  BY <1>1, <1>3, ExcusedStep
<1>5. TypeOK'
  <2>1. told' \subseteq Keys
    BY <1>2, Fields DEF IInv, TypeOK
  <2>2. << >> \in [{} -> Wanted] /\ DOMAIN << >> = {}
    OBVIOUS
  <2>3. << >> \in Wants
    BY <2>2 DEF Wants
  <2>4. EmptyRepo \in Revisions
    BY DEF EmptyRepo, Revisions
  <2>5. NoJob \in Jobs
    BY <2>3, <2>4 DEF NoJob, Jobs
  <2>6. NoJob.deletes = {} /\ NoJob.keep = {} /\ NoJob.todo = {} /\ NoJob.errors = {} /\ NoJob.want = << >>
    BY DEF NoJob
  <2>7. QED
    BY <1>1, <2>1, <2>2, <2>5, <2>6 DEF IInv, TypeOK
<1>6. Loads(synced)'
  BY <1>1 DEF IInv, LoadsInv
<1>7. QED
  BY <1>1, <1>4, <1>5, <1>6, IdleStep DEF IInv

-----------------------------------------------------------------------------
\* The rest of the world.

LEMMA CommitsInv ==
  ASSUME IInv, Commits
  PROVE  IInv'
<1>1. UNCHANGED <<synced, cluster, pc, job, told, ghost>> /\ mirror' = synced
  BY DEF Commits
<1>2. repo' \in Revisions
  <2>1. PICK f \in Files, k \in RepoKeys : \E c \in Contents(k) \cup {Absent} :
          repo' = [repo EXCEPT ![f][k] = c]
    BY DEF Commits
  <2>2. PICK c \in Versions \cup {Absent} : repo' = [repo EXCEPT ![f][k] = c]
    BY <2>1 DEF Contents
  <2>3. [repo[f] EXCEPT ![k] = c] \in [RepoKeys -> Versions \cup {Absent}]
    BY <2>2 DEF IInv, TypeOK, Revisions
  <2>4. QED
    BY <2>2, <2>3 DEF IInv, TypeOK, Revisions
<1>3. TypeOK'
  BY <1>1, <1>2 DEF IInv, TypeOK, Touched
<1>4. DriftInv' /\ PruneInv'
  BY <1>1, ExcusedStep DEF Excused
<1>5. LoadsInv' /\ KeepInv' /\ WantInv' /\ FreshInv'
  BY <1>1 DEF IInv, LoadsInv, KeepInv, WantInv, FreshInv, JobTarget
<1>6. StageInv' /\ OwnerInv' /\ DeleteInv' /\ ApplyInv'
  BY <1>1 DEF IInv, StageInv, OwnerInv, DeleteInv, ApplyInv, Ours, Exported, Again
<1>7. QED
  BY <1>3, <1>4, <1>5, <1>6 DEF IInv

LEMMA RefreshesInv ==
  ASSUME IInv, Refreshes
  PROVE  IInv'
<1>1. UNCHANGED <<repo, synced, cluster, pc, job, told, ghost>> /\ mirror' = synced
  BY DEF Refreshes
<1>2. TypeOK'
  BY <1>1 DEF IInv, TypeOK, Touched
<1>3. DriftInv' /\ PruneInv'
  BY <1>1, ExcusedStep DEF Excused
<1>4. LoadsInv' /\ KeepInv' /\ WantInv' /\ FreshInv'
  BY <1>1 DEF IInv, LoadsInv, KeepInv, WantInv, FreshInv, JobTarget
<1>5. StageInv' /\ OwnerInv' /\ DeleteInv' /\ ApplyInv'
  BY <1>1 DEF IInv, StageInv, OwnerInv, DeleteInv, ApplyInv, Ours, Exported, Again
<1>6. QED
  BY <1>2, <1>3, <1>4, <1>5 DEF IInv

\* Another user, or a finalizer, changes a resource.
LEMMA OutsideInv ==
  ASSUME IInv, OthersChange \/ Vanishes
  PROVE  IInv'
<1>1. UNCHANGED <<repo, synced, mirror, pc, job, told>>
  BY DEF OthersChange, Vanishes
<1>2. PICK k \in Keys, obj \in ClusterObjects :
        cluster' = [cluster EXCEPT ![k] = obj]
        /\ ghost' = [ghost EXCEPT !.outside = @ \cup {k}, !.raced = @ \cup {k}]
  <2>1. CASE Vanishes
    BY <2>1, GoneType DEF Vanishes
  <2>2. CASE OthersChange
    <3>1. PICK k \in Keys : \E obj \in {Gone, [content |-> Other, label |-> "none", dying |-> FALSE],
                                        [cluster[k] EXCEPT !.content = IF @ = Absent THEN @ ELSE Other],
                                        [cluster[k] EXCEPT !.label = IF @ = "agent" /\ k[1] \in ExportedNetwork
                                                                     THEN "spared" ELSE @]} :
            cluster' = [cluster EXCEPT ![k] = obj]
            /\ ghost' = [ghost EXCEPT !.outside = @ \cup {k}, !.raced = @ \cup {k}]
      BY <2>2 DEF OthersChange
    <3>2. cluster[k] \in ClusterObjects
      BY Fields DEF IInv
    <3>3. /\ [content |-> Other, label |-> "none", dying |-> FALSE] \in ClusterObjects
          /\ [cluster[k] EXCEPT !.content = IF @ = Absent THEN @ ELSE Other] \in ClusterObjects
          /\ [cluster[k] EXCEPT !.label = IF @ = "agent" /\ k[1] \in ExportedNetwork
                                          THEN "spared" ELSE @] \in ClusterObjects
      BY <3>2 DEF ClusterObjects
    <3>4. QED
      BY <3>1, <3>3, GoneType
  <2>3. QED
    BY <2>1, <2>2
<1>3. ghost \in Ghosts /\ cluster \in [Keys -> ClusterObjects]
  BY DEF IInv, TypeOK
<1>4. /\ ghost' \in Ghosts /\ ghost'.outside = ghost.outside \cup {k} /\ ghost'.raced = ghost.raced \cup {k}
      /\ ghost'.unrecorded = ghost.unrecorded /\ ghost'.misread = ghost.misread
      /\ ghost'.reverted = ghost.reverted
  BY <1>2, <1>3 DEF Ghosts
<1>5. cluster' \in [Keys -> ClusterObjects] /\ \A j \in Keys \ {k} : cluster'[j] = cluster[j]
  BY <1>2, <1>3
<1>6. TypeOK'
  BY <1>1, <1>4, <1>5 DEF IInv, TypeOK, Touched
<1>7. DriftInv' /\ PruneInv'
  BY <1>1, <1>4, <1>5, ExcusedStep DEF Excused
<1>8. LoadsInv' /\ KeepInv' /\ WantInv' /\ FreshInv'
  BY <1>1 DEF IInv, LoadsInv, KeepInv, WantInv, FreshInv, JobTarget
<1>9. job.deletes \subseteq Keys /\ DOMAIN job.want \subseteq Keys
  BY Fields, WantFields DEF IInv
<1>10. StageInv'
  BY <1>1, <1>4, <1>5 DEF IInv, StageInv, Ours, Exported
<1>11. OwnerInv'
  BY <1>1, <1>4, <1>5, <1>9 DEF IInv, OwnerInv
<1>12. DeleteInv'
  BY <1>1, <1>4, <1>5, <1>9 DEF IInv, DeleteInv, Again
<1>13. ApplyInv'
  BY <1>1, <1>4, <1>5, <1>9 DEF IInv, ApplyInv, Again
<1>14. QED
  BY <1>6, <1>7, <1>8, <1>10, <1>11, <1>12, <1>13 DEF IInv

-----------------------------------------------------------------------------
\* The theorems.

LEMMA NextInv == IInv /\ [Next]_vars => IInv'
<1> SUFFICES ASSUME IInv, [Next]_vars PROVE IInv'
  OBVIOUS
<1>1. CASE BeginSync \/ PrepareSync
  BY <1>1, BeginSyncInv, PrepareSyncInv
<1>2. CASE KubectlDelete \/ KubectlApply
  BY <1>2, KubectlDeleteInv, KubectlApplyInv
<1>3. CASE CommandEnds \/ SyncEnds \/ SyncAborts
  BY <1>3, CommandEndsInv, SyncEndsInv, SyncAbortsInv
<1>4. CASE Commits \/ Refreshes \/ OthersChange \/ Vanishes
  BY <1>4, CommitsInv, RefreshesInv, OutsideInv
<1>5. CASE UNCHANGED vars
  <2>1. TypeOK'
    BY <1>5 DEF vars, IInv, TypeOK, Touched
  <2>2. DriftInv' /\ PruneInv'
    BY <1>5, ExcusedStep DEF vars, Excused
  <2>3. LoadsInv' /\ KeepInv' /\ WantInv' /\ FreshInv'
    BY <1>5 DEF vars, IInv, LoadsInv, KeepInv, WantInv, FreshInv, JobTarget
  <2>4. StageInv' /\ OwnerInv' /\ DeleteInv' /\ ApplyInv'
    BY <1>5 DEF vars, IInv, StageInv, OwnerInv, DeleteInv, ApplyInv, Ours, Exported, Again
  <2>5. QED
    BY <2>1, <2>2, <2>3, <2>4 DEF IInv
<1>6. QED
  BY <1>1, <1>2, <1>3, <1>4, <1>5 DEF Next

LEMMA SpecInv == Spec => []IInv
  BY InitInv, NextInv, PTL DEF Spec

\* The type invariant: no resource is both kept and staged for deletion
\* (prepareSyncDelete), and errors are of resources the sync touched.
THEOREM ApplyTypeOK == Spec => []TypeOK
<1>1. IInv => TypeOK
  BY DEF IInv
<1>2. QED
  BY <1>1, SpecInv, PTL

\* It is enough to apply the files that changed since the tag (doSync): what is
\* in the tagged revision and not in the cluster was reported, or changed since,
\* or passed over by a sync that compared with an older tag in the mirror.
THEOREM SpecDriftIsTold == Spec => []DriftIsTold
<1>1. IInv => DriftIsTold
  BY DEF IInv, DriftInv, DriftIsTold
<1>2. QED
  BY <1>1, SpecInv, PTL

\* A sync that compared with the last tag passes nothing over (doSync): what
\* excuses a resource in DriftIsTold comes from a tag the mirror had not fetched.
THEOREM SpecPassesOverWhenStale ==
  Spec => [][job.base = synced => ghost'.reverted \subseteq ghost.reverted]_vars
<1>1. ASSUME IInv, Next, job.base = synced PROVE ghost'.reverted \subseteq ghost.reverted
  <2>1. CASE SyncEnds
    <3>1. PassedOver = {}
      BY <1>1, <2>1, NothingPassedOver DEF IInv, LoadsInv, SyncEnds
    <3>2. ghost \in Ghosts
      BY <1>1 DEF IInv, TypeOK
    <3>3. ghost'.reverted = (ghost.reverted \ Touched) \cup {Target(k, Content(job.rev, k)) : k \in PassedOver}
      BY <2>1, <3>2 DEF SyncEnds, Ghosts
    <3>4. QED
      BY <3>1, <3>3
  <2>2. CASE ~SyncEnds
    <3>1. ghost \in Ghosts
      BY <1>1 DEF IInv, TypeOK
    <3>2. ghost'.reverted = ghost.reverted
      BY <1>1, <2>2, <3>1 DEF Next, BeginSync, PrepareSync, KubectlDelete, KubectlApply, Fails, Does, CommandEnds,
         SyncAborts, Commits, Refreshes, OthersChange, Vanishes, Ghosts
    <3>3. QED
      BY <3>2
  <2>3. QED
    BY <2>1, <2>2
<1>2. ASSUME UNCHANGED vars PROVE ghost'.reverted \subseteq ghost.reverted
  BY <1>2 DEF vars
<1>3. IInv /\ [Next]_vars => [job.base = synced => ghost'.reverted \subseteq ghost.reverted]_vars
  BY <1>1, <1>2
<1>4. QED
  BY <1>3, SpecInv, PTL DEF Spec

\* What the agent labelled and the tagged revision no longer has is gone, or its
\* deletion was reported (prepareSyncDelete).
THEOREM SpecPrunesRemoved == Spec => []PrunesRemoved
<1>1. IInv => PrunesRemoved
  BY DEF IInv, PruneInv, PrunesRemoved, Ours
<1>2. QED
  BY <1>1, SpecInv, PTL

\* A sync never deletes what its revision has, nor what was not the agent's, or
\* was to be spared, when the sync listed the cluster (prepareSyncDelete, Export).
THEOREM SpecDeletesOnlyRemoved == Spec => DeletesOnlyRemoved
<1> DEFINE Removed(k) ==
      Deletes(k) =>
         /\ k \in Loaded(job.rev) => Converts(k, Content(job.rev, k))
         /\ cluster[k].label = "agent" \/ k[1] \in {"Certificate", "C7NHelmRelease"} \/ k \in ghost.raced
<1>1. ASSUME IInv, Next, NEW k \in Keys PROVE Removed(k)
  <2> SUFFICES ASSUME Deletes(k)
               PROVE  /\ k \in Loaded(job.rev) => Converts(k, Content(job.rev, k))
                      /\ cluster[k].label = "agent" \/ k[1] \in {"Certificate", "C7NHelmRelease"}
                           \/ k \in ghost.raced
    OBVIOUS
  <2>1. pc = "delete" /\ job' # job /\ cluster[k].content # Absent /\ cluster'[k] # cluster[k]
    BY DEF Deletes
  <2>2. KubectlDelete
    BY <1>1, <2>1 DEF Next, BeginSync, PrepareSync, KubectlApply, CommandEnds, SyncEnds, SyncAborts,
             Commits, Refreshes, OthersChange, Vanishes
  <2>3. PICK j \in job.todo : cluster' = cluster \/ \E obj : cluster' = [cluster EXCEPT ![j] = obj]
    BY <2>2 DEF KubectlDelete, Fails, Does, First
  <2>4. cluster \in [Keys -> ClusterObjects]
    BY <1>1 DEF IInv, TypeOK
  <2>5. k = j
    BY <2>1, <2>3, <2>4
  <2>6. k \in job.deletes /\ k \notin job.keep
    BY <1>1, <2>1, <2>5 DEF IInv, TypeOK
  <2>7. k \in Loaded(job.rev) => Converts(k, Content(job.rev, k))
    <3> SUFFICES ASSUME k \in Loaded(job.rev) PROVE Converts(k, Content(job.rev, k))
      OBVIOUS
    <3>1. JobTarget(k) # k /\ k \in RepoKeys
      BY <1>1, <2>1, <2>6, LoadedKeys DEF IInv, KeepInv
    <3>2. QED
      BY <3>1, TargetFacts, TargetAbsent DEF JobTarget
  <2>8. QED
    BY <1>1, <2>1, <2>6, <2>7 DEF IInv, OwnerInv
<1>2. ASSUME UNCHANGED vars, NEW k \in Keys PROVE Removed(k)
  BY <1>2 DEF vars, Deletes
<1>3. IInv /\ [Next]_vars => [\A k \in Keys : Removed(k)]_vars
  BY <1>1, <1>2
<1>4. QED
  BY <1>3, SpecInv, PTL DEF Spec, DeletesOnlyRemoved
=============================================================================
