---------------------------- MODULE HelmRelease -----------------------------
(***************************************************************************)
(* One C7NHelmRelease resource and its Helm release.  A sync of the git    *)
(* repository applies the resource with an annotation that names the       *)
(* operation (labelAndAnnotationsRepoObj); the controller turns the        *)
(* annotation into a command (Reconcile); commands run in goroutines of    *)
(* their own, drive Helm, remove the annotation and answer the platform    *)
(* (pkg/command/helm, pkg/helm).  An answer lies in memory, in ResponseChan *)
(* or a goroutine that waits for it, until the websocket client takes it.  *)
(*                                                                         *)
(* A specification carries the id of the platform's command, so one is     *)
(* never written twice: here it is a number and the chart it names.        *)
(***************************************************************************)
EXTENDS Naturals

CONSTANTS
  Charts,      \* names of charts
  MaxEof,      \* FailedCount at which an install is given up (5)
  MaxSpecs,    \* bound: specifications written to the repository
  MaxSyncs,    \* bound: syncs that touch the resource's file
  MaxCopies,   \* bound: equal commands under way
  MaxTroubles  \* bound: reads of a chart cut short, failures of Helm and of the API
               \* server, restarts

ASSUME HelmAssumption ==
  /\ MaxEof \in Nat /\ MaxSpecs \in Nat /\ MaxSyncs \in Nat
  /\ MaxCopies \in Nat \ {0} /\ MaxTroubles \in Nat

NoSpec == [id |-> 0, chart |-> "none"]
Specs == [id : 1..MaxSpecs, chart : Charts]
Ops == {"none", "INSTALL", "UPGRADE", "CROSS_UPGRADE"}
NoCr == [spec |-> NoSpec, op |-> "none"]
NoRelease == [spec |-> NoSpec, status |-> "none"]

VARIABLES
  cr,       \* the resource in the cluster
  seen,     \* the controller's cached copy of it
  queued,   \* its key is in the controller's queue
  staged,   \* labelled by a sync, not yet applied
  cmds,     \* the commands under way
  helm,     \* the release: specification and status
  outbox,   \* specifications whose final answer is in the agent's memory
  answered, \* specifications whose final answer was taken from there
  early,    \* ghost: specifications whose annotation went before their answer
  lost,     \* ghost: specifications whose answer died with the process after their
            \* annotation was gone
  used      \* specifications, syncs and troubles so far

vars == <<cr, seen, queued, staged, cmds, helm, outbox, answered, early, lost, used>>

JobTypes == {"InstallJob", "UpgradeJob", "CrossUpgradeJob"}
Commands == [type : JobTypes \cup {"Install", "Upgrade", "Delete"}, spec : Specs \cup {NoSpec},
             eof : 0..MaxEof, pc : {"new", "running", "erase", "erase_resent"}, copy : 1..MaxCopies]

Init ==
  /\ cr = NoCr /\ seen = NoCr /\ queued = FALSE /\ staged = NoCr
  /\ cmds = {} /\ helm = NoRelease /\ outbox = {} /\ answered = {}
  /\ early = {} /\ lost = {}
  /\ used = [specs |-> 0, syncs |-> 0, troubles |-> 0]

Exists == helm # NoRelease

\* cs and one more command, told from equal ones by its number.
Plus(cs, type, spec, eof) ==
  LET free == {n \in 1..MaxCopies : \A c \in cs : <<c.type, c.spec, c.eof, c.copy>> # <<type, spec, eof, n>>}
  IN  cs \cup {[type |-> type, spec |-> spec, eof |-> eof, pc |-> "new",
                copy |-> IF free = {} THEN MaxCopies ELSE CHOOSE n \in free : TRUE]}

\* The annotation of the resource goes, the specification stays.
Early(new) ==
  IF cr # NoCr /\ new.spec = cr.spec /\ cr.op # "none" /\ new.op = "none" THEN early \cup {cr.spec} ELSE early

Trouble == used.troubles < MaxTroubles /\ used' = [used EXCEPT !.troubles = @ + 1]

-----------------------------------------------------------------------------
\* The sync of the repository.

\* A read that fails for another reason than absence returns an empty resource,
\* and so another chart.
OperationOf(spec, misread) ==
  IF misread THEN "CROSS_UPGRADE"
  ELSE IF cr = NoCr THEN "INSTALL"
  ELSE IF cr.spec.chart # spec.chart THEN "CROSS_UPGRADE"
  ELSE IF cr.spec # spec THEN "UPGRADE" ELSE "none"

\* The file of the resource changed, with a new specification or the old one.
Stages ==
  \E misread \in BOOLEAN, spec \in Specs \cup {cr.spec} :
    LET new == spec # cr.spec
    IN  /\ staged = NoCr
        /\ used.syncs < MaxSyncs
        /\ spec # NoSpec /\ (new => spec.id = used.specs + 1)
        /\ misread => used.troubles < MaxTroubles
        /\ staged' = [spec |-> spec, op |-> OperationOf(spec, misread)]
        /\ used' = [specs |-> IF new THEN used.specs + 1 ELSE used.specs, syncs |-> used.syncs + 1,
                    troubles |-> IF misread THEN used.troubles + 1 ELSE used.troubles]
        /\ UNCHANGED <<cr, seen, queued, cmds, helm, outbox, answered, early, lost>>

\* kubectl apply: an annotation of the last sync is removed with the rest.
Applies ==
  /\ staged # NoCr
  /\ cr' = staged
  /\ staged' = NoCr
  /\ early' = Early(staged)
  /\ UNCHANGED <<seen, queued, cmds, helm, outbox, answered, lost, used>>

Removes ==
  /\ staged = NoCr /\ cr # NoCr
  /\ used.syncs < MaxSyncs
  /\ cr' = NoCr
  /\ used' = [used EXCEPT !.syncs = @ + 1]
  /\ UNCHANGED <<seen, queued, staged, cmds, helm, outbox, answered, early, lost>>

-----------------------------------------------------------------------------
\* The controller.

\* The watch updates the cache and queues the key.
Notices ==
  /\ seen # cr
  /\ seen' = cr
  /\ queued' = TRUE
  /\ UNCHANGED <<cr, staged, cmds, helm, outbox, answered, used, early, lost>>

Sends(type) ==
  /\ queued' = FALSE
  /\ cmds' = Plus(cmds, type, seen.spec, 0)
  /\ UNCHANGED <<cr, outbox>>

\* INSTALL of a release that exists is done: it is answered, and the annotation
\* removed; the update of a stale copy is refused and the key queued again.
ReportsInstalled ==
  /\ outbox' = outbox \cup {seen.spec}
  /\ IF seen = cr THEN cr' = [cr EXCEPT !.op = "none"] /\ queued' = FALSE
     ELSE UNCHANGED <<cr, queued>>
  /\ UNCHANGED cmds

\* Slip: the annotation of an install is removed when its command is sent.
Reconcile_EraseFirst ==
  /\ queued
  /\ \/ seen = NoCr /\ Sends("Delete")
     \/ /\ seen.op = "INSTALL" /\ ~Exists
        /\ queued' = FALSE
        /\ cmds' = Plus(cmds, "InstallJob", seen.spec, 0)
        /\ cr' = IF seen = cr THEN [cr EXCEPT !.op = "none"] ELSE cr
        /\ UNCHANGED outbox
     \/ seen.op = "INSTALL" /\ Exists /\ ReportsInstalled
     \/ seen.op = "UPGRADE" /\ Sends("UpgradeJob")
     \/ seen.op = "CROSS_UPGRADE" /\ Sends("CrossUpgradeJob")
     \/ seen # NoCr /\ seen.op = "none" /\ queued' = FALSE /\ UNCHANGED <<cr, cmds, outbox>>
  /\ UNCHANGED <<seen, staged, helm, answered, used, early, lost>>

Reconcile ==
  /\ queued
  /\ \/ seen = NoCr /\ Sends("Delete")
     \/ seen.op = "INSTALL" /\ ~Exists /\ Sends("InstallJob")
     \/ seen.op = "INSTALL" /\ Exists /\ ReportsInstalled
     \/ seen.op = "UPGRADE" /\ Sends("UpgradeJob")
     \/ seen.op = "CROSS_UPGRADE" /\ Sends("CrossUpgradeJob")
     \/ seen # NoCr /\ seen.op = "none" /\ queued' = FALSE /\ UNCHANGED <<cr, cmds, outbox>>
  /\ UNCHANGED <<seen, staged, helm, answered, used, early, lost>>

-----------------------------------------------------------------------------
\* The commands.

Answers(c) == outbox' = outbox \cup {c.spec}
Moves(c, pc) == cmds' = (cmds \ {c}) \cup {[c EXCEPT !.pc = pc]}

\* Slip: an install whose chart cannot be read is dropped, not sent again.
InstallJobFails_Dropped(c) ==
  /\ c.pc = "new" /\ c.type = "InstallJob"
  /\ \/ Exists /\ cmds' = cmds \ {c} /\ Answers(c) /\ UNCHANGED used
     \/ /\ ~Exists /\ Trouble
        /\ \/ cmds' = cmds \ {c} /\ UNCHANGED outbox
           \/ cmds' = cmds \ {c} /\ Answers(c)
  /\ UNCHANGED <<cr, seen, queued, staged, helm, answered, early, lost>>

\* PreInstallRelease refuses a release that exists; a chart cut short is read
\* again, at most MaxEof times.  The annotation stays.
InstallJobFails(c) ==
  /\ c.pc = "new" /\ c.type = "InstallJob"
  /\ \/ Exists /\ cmds' = cmds \ {c} /\ Answers(c) /\ UNCHANGED used
     \/ /\ ~Exists /\ Trouble
        /\ \/ c.eof < MaxEof /\ cmds' = Plus(cmds \ {c}, c.type, c.spec, c.eof + 1) /\ UNCHANGED outbox
           \/ cmds' = cmds \ {c} /\ Answers(c)
  /\ UNCHANGED <<cr, seen, queued, staged, helm, answered, early, lost>>

\* PreUpgradeRelease gathers hooks of a release that may not exist.
UpgradeJobFails(c) ==
  /\ c.pc = "new" /\ c.type = "UpgradeJob"
  /\ Trouble
  /\ cmds' = cmds \ {c} /\ Answers(c)
  /\ UNCHANGED <<cr, seen, queued, staged, helm, answered, early, lost>>

\* A job that succeeds sends the command that does the work.
InstallJobSucceeds(c) ==
  /\ c.pc = "new" /\ c.type = "InstallJob"
  /\ ~Exists
  /\ cmds' = Plus(cmds \ {c}, "Install", c.spec, c.eof)
  /\ UNCHANGED <<cr, seen, queued, staged, helm, outbox, answered, used, early, lost>>

\* Whether or not there is a release.
UpgradeJobSucceeds(c) ==
  /\ c.pc = "new" /\ c.type = "UpgradeJob"
  /\ cmds' = Plus(cmds \ {c}, "Upgrade", c.spec, c.eof)
  /\ UNCHANGED <<cr, seen, queued, staged, helm, outbox, answered, used, early, lost>>

\* CROSS_UPGRADE deletes the old release first; that fails if there is none.
CrossUpgrades(c) ==
  /\ c.pc = "new" /\ c.type = "CrossUpgradeJob"
  /\ \/ /\ Exists
        /\ helm' = NoRelease
        /\ cmds' = Plus(cmds \ {c}, "InstallJob", c.spec, 0)
        /\ UNCHANGED <<outbox, used>>
     \/ /\ IF Exists THEN Trouble ELSE UNCHANGED used
        /\ cmds' = cmds \ {c} /\ Answers(c)
        /\ UNCHANGED helm
  /\ UNCHANGED <<cr, seen, queued, staged, answered, early, lost>>

InstallStarts(c) ==
  /\ c.pc = "new" /\ c.type = "Install"
  /\ ~Exists
  /\ helm' = [spec |-> c.spec, status |-> "pending"]
  /\ Moves(c, "running")
  /\ UNCHANGED <<cr, seen, queued, staged, outbox, answered, used, early, lost>>

\* Upgrade installs if there is no release.
UpgradeStarts(c) ==
  /\ c.pc = "new" /\ c.type = "Upgrade"
  /\ helm' = [spec |-> c.spec, status |-> "pending"]
  /\ Moves(c, "running")
  /\ UNCHANGED <<cr, seen, queued, staged, outbox, answered, used, early, lost>>

\* Install refuses a name in use; upgrade may refuse a release that another
\* operation holds.
HelmRefuses(c) ==
  /\ c.pc = "new"
  /\ \/ c.type = "Install" /\ Exists /\ UNCHANGED used
     \/ c.type = "Upgrade" /\ helm.status = "pending" /\ UNCHANGED used
     \/ c.type \in {"Install", "Upgrade"} /\ Trouble
  /\ Moves(c, "erase")
  /\ UNCHANGED <<cr, seen, queued, staged, helm, outbox, answered, early, lost>>

\* Slip: the command is sent again without limit.
InstallResends_NoLimit(c) ==
  /\ c.pc = "new" /\ c.type = "Install"
  /\ Trouble
  /\ cmds' = Plus((cmds \ {c}) \cup {[c EXCEPT !.pc = "erase_resent"]}, c.type, c.spec, c.eof + 1)
  /\ UNCHANGED <<cr, seen, queued, staged, helm, outbox, answered, early, lost>>

\* The chart is cut short: the command is sent again, and this one still ends
\* by removing the annotation.
InstallResends(c) ==
  /\ c.pc = "new" /\ c.type = "Install" /\ c.eof < MaxEof
  /\ Trouble
  /\ cmds' = Plus((cmds \ {c}) \cup {[c EXCEPT !.pc = "erase_resent"]}, c.type, c.spec, c.eof + 1)
  /\ UNCHANGED <<cr, seen, queued, staged, helm, outbox, answered, early, lost>>

\* The release is deployed or failed, or was deleted meanwhile.
HelmEnds(c) ==
  /\ c.pc = "running"
  /\ \/ helm.spec = c.spec /\ helm' = [helm EXCEPT !.status = "deployed"] /\ UNCHANGED used
     \/ helm.spec = c.spec /\ Trouble /\ helm' = [helm EXCEPT !.status = "failed"]
     \/ helm.spec # c.spec /\ UNCHANGED <<helm, used>>
  /\ Moves(c, "erase")
  /\ UNCHANGED <<cr, seen, queued, staged, outbox, answered, early, lost>>

\* deleteC7NHelmReleaseOperateAnnotation, deferred: whatever operation the
\* annotation names by now; a failure is logged.  Then the function returns the
\* answer, unless the command was sent again.
Erases(c) ==
  /\ c.pc \in {"erase", "erase_resent"}
  /\ \/ cr' = [cr EXCEPT !.op = "none"] /\ UNCHANGED used
     \/ Trouble /\ UNCHANGED cr
  /\ cmds' = cmds \ {c}
  /\ IF c.pc = "erase" THEN Answers(c) ELSE UNCHANGED outbox
  /\ early' = IF c.pc = "erase" /\ c.spec = cr.spec THEN early ELSE Early(cr')
  /\ UNCHANGED <<seen, queued, staged, helm, answered, lost>>

Deletes(c) ==
  /\ c.type = "Delete"
  /\ cmds' = cmds \ {c}
  /\ \/ helm' = NoRelease /\ UNCHANGED used
     \/ Trouble /\ UNCHANGED helm
  /\ UNCHANGED <<cr, seen, queued, staged, outbox, answered, early, lost>>

\* The websocket client takes an answer and sends it.
Delivers ==
  \E spec \in outbox :
    /\ outbox' = outbox \ {spec}
    /\ answered' = answered \cup {spec}
    /\ UNCHANGED <<cr, seen, queued, staged, cmds, helm, early, lost, used>>

\* The commands and the answers in memory are lost; the new controller lists the
\* resource.
Restarts ==
  /\ Trouble
  /\ cmds' = {} /\ outbox' = {}
  /\ staged' = NoCr /\ seen' = cr /\ queued' = (cr # NoCr)
  /\ lost' = IF cr.op = "none" THEN lost \cup (outbox \cap {cr.spec}) ELSE lost
  /\ UNCHANGED <<cr, helm, answered, early>>

CommandSteps ==
  \E c \in cmds : \/ InstallJobFails(c) \/ InstallJobSucceeds(c)
                  \/ UpgradeJobFails(c) \/ UpgradeJobSucceeds(c) \/ CrossUpgrades(c)
                  \/ InstallStarts(c) \/ UpgradeStarts(c) \/ HelmRefuses(c) \/ InstallResends(c) \/ HelmEnds(c)
                  \/ Erases(c) \/ Deletes(c)

Next ==
  \/ Applies \/ Notices \/ Reconcile \/ CommandSteps \/ Delivers
  \/ Stages \/ Removes \/ Restarts

Spec == Init /\ [][Next]_vars

\* Goroutines, the watch, the queue and the websocket client go on; nobody has to
\* commit.
FairSpec ==
  /\ Spec
  /\ WF_vars(Applies) /\ WF_vars(Notices) /\ WF_vars(Reconcile)
  /\ WF_vars(CommandSteps) /\ WF_vars(Delivers)

-----------------------------------------------------------------------------
\* The properties.

TypeOK ==
  /\ cr \in [spec : Specs \cup {NoSpec}, op : Ops]
  /\ seen \in [spec : Specs \cup {NoSpec}, op : Ops]
  /\ staged \in [spec : Specs \cup {NoSpec}, op : Ops]
  /\ queued \in BOOLEAN
  /\ cmds \subseteq Commands
  /\ helm \in [spec : Specs \cup {NoSpec}, status : {"none", "pending", "deployed", "failed"}]
  /\ (helm.status = "none") = (helm.spec = NoSpec)
  /\ outbox \subseteq Specs /\ answered \subseteq Specs
  /\ early \subseteq Specs /\ lost \subseteq Specs

\* A specification in the cluster is answered, its answer lies in memory, or its
\* operation is still known by the annotation, which outlives a restart (Reconcile).
\* The exceptions are the specifications that lost the annotation early: to another
\* sync of the same file, to the end of another command, or to an install that is
\* sent again (to these only a command under way can answer); and those whose answer
\* died with the process between the removal of the annotation and the websocket.
SpecIsPursued ==
  cr # NoCr => cr.spec \in answered \cup outbox \cup early \cup lost \/ cr.op # "none"

\* A specification that stays in the cluster with its annotation is answered at
\* last: installed, upgraded or failed (InstallHelmRelease, UpgradeHelmRelease);
\* the exceptions are those of SpecIsPursued.
SpecIsAnswered ==
  \A id \in 1..MaxSpecs :
    cr.spec.id = id ~>
      (cr.spec.id # id \/ \E s \in answered \cup early \cup lost : s.id = id)
=============================================================================
