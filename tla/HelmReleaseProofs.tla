-------------------------- MODULE HelmReleaseProofs --------------------------
(***************************************************************************)
(* Proofs about HelmRelease, for every set of charts, number of            *)
(* specifications, syncs and failures and limit of resends: its type       *)
(* invariant, and that an annotation goes with the answer, for one of the  *)
(* three reasons that "early" counts, or for the one that "lost" counts.   *)
(***************************************************************************)
EXTENDS HelmRelease, TLAPS

-----------------------------------------------------------------------------
\* The inductive invariant.

\* Only an absent resource has no specification.
ResourceInv ==
  \A r \in {cr, seen, staged} : r.spec = NoSpec => r = NoCr

\* A resource is staged without an operation only if it is applied again.
StagedInv ==
  (staged # NoCr /\ staged.op = "none") => cr # NoCr /\ staged.spec = cr.spec

\* Only the deletion of a release does without a specification, and only
\* installations and upgrades run.
Sound(c) ==
  /\ c.type # "Delete" => c.spec \in Specs
  /\ c.pc # "new" => c.type \in {"Install", "Upgrade"}

CommandInv == \A c \in cmds : Sound(c)

IInv == TypeOK /\ ResourceInv /\ StagedInv /\ CommandInv /\ SpecIsPursued

-----------------------------------------------------------------------------
\* Facts about records.

LEMMA NoSpecIsNone == NoSpec \notin Specs
  BY DEF NoSpec, Specs

\* A resource with an operation, or with a specification, is there.
LEMMA ResourceSpec ==
  ASSUME IInv, NEW r \in {cr, seen, staged}, r # NoCr
  PROVE  r.spec \in Specs /\ r.op \in Ops /\ r = [spec |-> r.spec, op |-> r.op]
  BY DEF IInv, TypeOK, ResourceInv

\* One more command is a command.
LEMMA PlusType ==
  ASSUME NEW cs \in SUBSET Commands, NEW type \in JobTypes \cup {"Install", "Upgrade", "Delete"},
         NEW spec \in Specs \cup {NoSpec}, NEW eof \in 0..MaxEof
  PROVE  \E c \in Commands :
           /\ Plus(cs, type, spec, eof) = cs \cup {c}
           /\ c.type = type /\ c.spec = spec /\ c.pc = "new"
<1> DEFINE free == {n \in 1..MaxCopies : \A c \in cs : <<c.type, c.spec, c.eof, c.copy>> # <<type, spec, eof, n>>}
           n == IF free = {} THEN MaxCopies ELSE CHOOSE m \in free : TRUE
           new == [type |-> type, spec |-> spec, eof |-> eof, pc |-> "new", copy |-> n]
<1>1. n \in 1..MaxCopies
  <2>1. MaxCopies \in 1..MaxCopies
    BY HelmAssumption
  <2>2. free # {} => (CHOOSE m \in free : TRUE) \in free
    OBVIOUS
  <2>3. QED
    BY <2>1, <2>2
<1> HIDE DEF n
<1>2. new \in Commands /\ new.type = type /\ new.spec = spec /\ new.pc = "new"
  BY <1>1 DEF Commands
<1>3. Plus(cs, type, spec, eof) = cs \cup {new}
  BY DEF Plus, n
<1>4. QED
  BY <1>2, <1>3

\* The commands stay sound when one is added.
LEMMA PlusSound ==
  ASSUME NEW cs \in SUBSET Commands, \A c \in cs : Sound(c),
         NEW type \in JobTypes \cup {"Install", "Upgrade", "Delete"},
         NEW spec \in Specs \cup {NoSpec}, NEW eof \in 0..MaxEof,
         type # "Delete" => spec \in Specs
  PROVE  Plus(cs, type, spec, eof) \subseteq Commands /\ \A c \in Plus(cs, type, spec, eof) : Sound(c)
<1>1. PICK new \in Commands : /\ Plus(cs, type, spec, eof) = cs \cup {new}
                              /\ new.type = type /\ new.spec = spec /\ new.pc = "new"
  BY PlusType
<1>2. Sound(new)
  BY <1>1 DEF Sound
<1>3. QED
  BY <1>1, <1>2, Zenon

\* What is known of a command under way.
LEMMA CommandFacts ==
  ASSUME IInv, NEW c \in cmds
  PROVE  /\ c \in Commands /\ Sound(c)
         /\ c.type \in JobTypes \cup {"Install", "Upgrade", "Delete"}
         /\ c.spec \in Specs \cup {NoSpec} /\ c.eof \in 0..MaxEof
         /\ cmds \ {c} \in SUBSET Commands /\ \A d \in cmds \ {c} : Sound(d)
<1>1. c \in Commands /\ Sound(c) /\ cmds \ {c} \in SUBSET Commands /\ \A d \in cmds \ {c} : Sound(d)
  BY DEF IInv, TypeOK, CommandInv
<1>2. QED
  BY <1>1 DEF Commands

\* An installation or upgrade that moves on stays sound.
LEMMA MovesSound ==
  ASSUME IInv, NEW c \in cmds, c.type \in {"Install", "Upgrade"},
         NEW pc \in {"running", "erase", "erase_resent"}
  PROVE  [c EXCEPT !.pc = pc] \in Commands /\ Sound([c EXCEPT !.pc = pc])
<1>1. c \in Commands /\ Sound(c)
  BY CommandFacts
<1>2. [c EXCEPT !.pc = pc] \in Commands
  BY <1>1 DEF Commands
<1>3. [c EXCEPT !.pc = pc].type = c.type /\ [c EXCEPT !.pc = pc].spec = c.spec
  BY <1>1 DEF Commands
<1>4. QED
  BY <1>1, <1>2, <1>3 DEF Sound

\* A step of a command that leaves the resource alone.
LEMMA CommandStep ==
  ASSUME IInv, UNCHANGED <<cr, seen, queued, staged, answered, early, lost>>,
         cmds' \subseteq Commands, CommandInv',
         outbox \subseteq outbox', outbox' \subseteq Specs,
         helm' \in [spec : Specs \cup {NoSpec}, status : {"none", "pending", "deployed", "failed"}],
         (helm'.status = "none") = (helm'.spec = NoSpec)
  PROVE  IInv'
<1>1. TypeOK'
  BY DEF IInv, TypeOK
<1>2. ResourceInv' /\ StagedInv'
  BY DEF IInv, ResourceInv, StagedInv
<1>3. SpecIsPursued'
  BY DEF IInv, SpecIsPursued
<1>4. QED
  BY <1>1, <1>2, <1>3 DEF IInv

\* The initial states satisfy the invariant.
LEMMA InitInv == Init => IInv
<1> SUFFICES ASSUME Init PROVE IInv
  OBVIOUS
<1> USE DEF Init
<1>1. NoCr \in [spec : Specs \cup {NoSpec}, op : Ops]
  BY DEF NoCr, Ops
<1>2. /\ NoRelease \in [spec : Specs \cup {NoSpec}, status : {"none", "pending", "deployed", "failed"}]
      /\ NoRelease.status = "none" /\ NoRelease.spec = NoSpec
  BY DEF NoRelease
<1>3. TypeOK
  BY <1>1, <1>2 DEF TypeOK
<1>4. ResourceInv /\ StagedInv /\ CommandInv /\ SpecIsPursued
  BY DEF ResourceInv, StagedInv, CommandInv, SpecIsPursued
<1>5. QED
  BY <1>3, <1>4 DEF IInv

-----------------------------------------------------------------------------
\* The sync of the repository and the controller.

LEMMA StagesInv ==
  ASSUME IInv, Stages
  PROVE  IInv'
<1>1. PICK misread \in BOOLEAN, spec \in Specs \cup {cr.spec} :
        /\ spec # NoSpec
        /\ staged' = [spec |-> spec, op |-> OperationOf(spec, misread)]
  BY DEF Stages
<1>2. UNCHANGED <<cr, seen, queued, cmds, helm, outbox, answered, early, lost>>
  BY DEF Stages
<1>3. spec \in Specs
  BY <1>1 DEF IInv, TypeOK
<1>4. OperationOf(spec, misread) \in Ops
  BY DEF OperationOf, Ops
<1>5. OperationOf(spec, misread) = "none" => cr # NoCr /\ spec = cr.spec
  BY DEF OperationOf
<1>6. /\ staged' \in [spec : Specs \cup {NoSpec}, op : Ops]
      /\ staged'.spec = spec /\ staged'.op = OperationOf(spec, misread)
  BY <1>1, <1>3, <1>4
<1>7. TypeOK'
  BY <1>2, <1>6 DEF IInv, TypeOK
<1>8. ResourceInv' /\ StagedInv'
  BY <1>1, <1>2, <1>5, <1>6 DEF IInv, ResourceInv, StagedInv
<1>9. CommandInv' /\ SpecIsPursued'
  BY <1>2 DEF IInv, CommandInv, SpecIsPursued, Sound
<1>10. QED
  BY <1>7, <1>8, <1>9 DEF IInv

\* An annotation that an apply removes is counted.
LEMMA AppliesInv ==
  ASSUME IInv, Applies
  PROVE  IInv'
<1>1. /\ staged # NoCr /\ cr' = staged /\ staged' = NoCr /\ early' = Early(staged)
      /\ UNCHANGED <<seen, queued, cmds, helm, outbox, answered, lost>>
  BY DEF Applies
<1>2. early \subseteq Early(staged) /\ Early(staged) \subseteq Specs
  BY ResourceSpec DEF Early, IInv, TypeOK
<1>3. NoCr \in [spec : Specs \cup {NoSpec}, op : Ops]
  BY DEF NoCr, Ops
<1>4. TypeOK'
  BY <1>1, <1>2, <1>3 DEF IInv, TypeOK
<1>5. ResourceInv' /\ StagedInv'
  BY <1>1 DEF IInv, ResourceInv, StagedInv
<1>6. CommandInv'
  BY <1>1 DEF IInv, CommandInv, Sound
<1>7. SpecIsPursued'
  <2>1. CASE staged.op # "none"
    BY <1>1, <2>1 DEF SpecIsPursued
  <2>2. CASE staged.op = "none"
    <3>1. cr # NoCr /\ staged.spec = cr.spec
      BY <1>1, <2>2 DEF IInv, StagedInv
    <3>2. cr.spec \in answered \cup outbox \cup early \cup lost \/ cr.op # "none"
      BY <3>1 DEF IInv, SpecIsPursued
    <3>3. cr.op # "none" => cr.spec \in Early(staged)
      BY <2>2, <3>1 DEF Early
    <3>4. QED
      BY <1>1, <1>2, <3>1, <3>2, <3>3 DEF SpecIsPursued
  <2>3. QED
    BY <2>1, <2>2
<1>8. QED
  BY <1>4, <1>5, <1>6, <1>7 DEF IInv

LEMMA RemovesInv ==
  ASSUME IInv, Removes
  PROVE  IInv'
<1>1. staged = NoCr /\ cr' = NoCr /\ UNCHANGED <<seen, queued, staged, cmds, helm, outbox, answered, early, lost>>
  BY DEF Removes
<1>2. NoCr \in [spec : Specs \cup {NoSpec}, op : Ops]
  BY DEF NoCr, Ops
<1>3. TypeOK'
  BY <1>1, <1>2 DEF IInv, TypeOK
<1>4. ResourceInv' /\ StagedInv' /\ SpecIsPursued'
  BY <1>1 DEF IInv, ResourceInv, StagedInv, SpecIsPursued
<1>5. CommandInv'
  BY <1>1 DEF IInv, CommandInv, Sound
<1>6. QED
  BY <1>3, <1>4, <1>5 DEF IInv

\* The watch changes no resource and no answer.
LEMMA NoticesInv ==
  ASSUME IInv, Notices
  PROVE  IInv'
<1>1. /\ seen' = cr
      /\ UNCHANGED <<cr, staged, cmds, helm, outbox, answered, early, lost>>
  BY DEF Notices
<1>2. queued' \in BOOLEAN
  BY DEF Notices
<1>3. TypeOK'
  BY <1>1, <1>2 DEF IInv, TypeOK
<1>4. ResourceInv' /\ StagedInv' /\ SpecIsPursued'
  BY <1>1 DEF IInv, ResourceInv, StagedInv, SpecIsPursued
<1>5. CommandInv'
  BY <1>1 DEF IInv, CommandInv, Sound
<1>6. QED
  BY <1>3, <1>4, <1>5 DEF IInv

\* A restart loses the answers in memory, and counts the one whose annotation is
\* gone.
LEMMA RestartsInv ==
  ASSUME IInv, Restarts
  PROVE  IInv'
<1>1. /\ cr' = cr /\ seen' = cr /\ staged' = NoCr /\ cmds' = {} /\ outbox' = {}
      /\ UNCHANGED <<helm, answered, early>>
      /\ lost' = IF cr.op = "none" THEN lost \cup (outbox \cap {cr.spec}) ELSE lost
  BY DEF Restarts
<1>2. queued' \in BOOLEAN
  BY DEF Restarts
<1>3. NoCr \in [spec : Specs \cup {NoSpec}, op : Ops]
  BY DEF NoCr, Ops
<1>4. lost' \subseteq Specs /\ lost \subseteq lost'
  BY <1>1 DEF IInv, TypeOK
<1>5. TypeOK'
  BY <1>1, <1>2, <1>3, <1>4 DEF IInv, TypeOK
<1>6. ResourceInv' /\ StagedInv' /\ CommandInv'
  BY <1>1 DEF IInv, ResourceInv, StagedInv, CommandInv
<1>7. SpecIsPursued'
  <2> SUFFICES ASSUME cr # NoCr, cr.op = "none"
               PROVE  cr.spec \in answered \cup early \cup lost'
    BY <1>1 DEF SpecIsPursued
  <2>1. cr.spec \in answered \cup outbox \cup early \cup lost
    BY DEF IInv, SpecIsPursued
  <2>2. cr.spec \in outbox => cr.spec \in lost'
    BY <1>1
  <2>3. QED
    BY <1>4, <2>1, <2>2
<1>8. QED
  BY <1>5, <1>6, <1>7 DEF IInv

\* What the websocket client takes is answered.
LEMMA DeliversInv ==
  ASSUME IInv, Delivers
  PROVE  IInv'
<1>1. PICK spec \in outbox : outbox' = outbox \ {spec} /\ answered' = answered \cup {spec}
  BY DEF Delivers
<1>2. UNCHANGED <<cr, seen, queued, staged, cmds, helm, early, lost>>
  BY DEF Delivers
<1>3. outbox' \subseteq Specs /\ answered' \subseteq Specs /\ answered' \cup outbox' = answered \cup outbox
  BY <1>1 DEF IInv, TypeOK
<1>4. TypeOK'
  BY <1>2, <1>3 DEF IInv, TypeOK
<1>5. ResourceInv' /\ StagedInv'
  BY <1>2 DEF IInv, ResourceInv, StagedInv
<1>6. SpecIsPursued'
  BY <1>2, <1>3 DEF IInv, SpecIsPursued
<1>7. CommandInv'
  BY <1>2 DEF IInv, CommandInv, Sound
<1>8. QED
  BY <1>4, <1>5, <1>6, <1>7 DEF IInv

\* A resource that loses its annotation stays one.
LEMMA Cleared ==
  ASSUME IInv
  PROVE  /\ [cr EXCEPT !.op = "none"] \in [spec : Specs \cup {NoSpec}, op : Ops]
         /\ [cr EXCEPT !.op = "none"].spec = cr.spec
         /\ [cr EXCEPT !.op = "none"].op = "none"
         /\ cr = NoCr <=> [cr EXCEPT !.op = "none"] = NoCr
<1>1. cr \in [spec : Specs \cup {NoSpec}, op : Ops] /\ (cr.spec = NoSpec => cr = NoCr)
  BY DEF IInv, TypeOK, ResourceInv
<1>2. NoCr.spec = NoSpec /\ NoCr.op = "none" /\ NoCr \in [spec : Specs \cup {NoSpec}, op : Ops]
  BY DEF NoCr, Ops
<1>3. "none" \in Ops
  BY DEF Ops
<1>4. /\ [cr EXCEPT !.op = "none"] \in [spec : Specs \cup {NoSpec}, op : Ops]
      /\ [cr EXCEPT !.op = "none"].spec = cr.spec
      /\ [cr EXCEPT !.op = "none"].op = "none"
  BY <1>1, <1>3
<1>5. cr = NoCr => [cr EXCEPT !.op = "none"] = NoCr
  BY DEF NoCr
<1>6. [cr EXCEPT !.op = "none"] = NoCr => cr = NoCr
  BY <1>1, <1>2, <1>4
<1>7. QED
  BY <1>4, <1>5, <1>6

LEMMA ReconcileInv ==
  ASSUME IInv, Reconcile
  PROVE  IInv'
<1>0. UNCHANGED <<seen, staged, helm, answered, early, lost>>
  BY DEF Reconcile
<1>t. /\ seen \in [spec : Specs \cup {NoSpec}, op : Ops] /\ cmds \in SUBSET Commands
      /\ \A c \in cmds : Sound(c)
      /\ outbox \subseteq Specs
  BY DEF IInv, TypeOK, CommandInv
<1>n. NoCr.op = "none"
  BY DEF NoCr
<1>s. ASSUME NEW type \in {"InstallJob", "UpgradeJob", "CrossUpgradeJob", "Delete"}, Sends(type),
             type # "Delete" => seen # NoCr
      PROVE  IInv'
  <2>1. /\ queued' = FALSE /\ cmds' = Plus(cmds, type, seen.spec, 0) /\ cr' = cr /\ outbox' = outbox
    BY <1>s DEF Sends
  <2>2. type # "Delete" => seen.spec \in Specs
    BY <1>s, ResourceSpec
  <2>3. 0 \in 0..MaxEof /\ type \in JobTypes \cup {"Install", "Upgrade", "Delete"} /\ seen.spec \in Specs \cup {NoSpec}
    BY <1>t, HelmAssumption DEF JobTypes
  <2>4. cmds' \subseteq Commands /\ \A c \in cmds' : Sound(c)
    BY <1>t, <2>1, <2>2, <2>3, PlusSound, Zenon
  <2>5. CommandInv'
    BY <2>4 DEF CommandInv, Sound
  <2>6. queued' \in BOOLEAN
    BY <2>1
  <2>7. TypeOK'
    BY <1>0, <2>1, <2>4, <2>6 DEF IInv, TypeOK
  <2>8. ResourceInv' /\ StagedInv' /\ SpecIsPursued'
    BY <1>0, <2>1 DEF IInv, ResourceInv, StagedInv, SpecIsPursued
  <2>9. QED
    BY <2>5, <2>7, <2>8 DEF IInv
<1>1. CASE seen = NoCr /\ Sends("Delete")
  BY <1>1, <1>s
<1>2. CASE seen.op = "INSTALL" /\ Sends("InstallJob")
  BY <1>2, <1>n, <1>s
<1>3. CASE seen.op = "INSTALL" /\ ReportsInstalled
  <2>1. outbox' = outbox \cup {seen.spec} /\ cmds' = cmds
    BY <1>3 DEF ReportsInstalled
  <2>2. queued' \in BOOLEAN
    BY <1>3 DEF ReportsInstalled, IInv, TypeOK
  <2>3. cr' = cr \/ (seen = cr /\ cr' = [cr EXCEPT !.op = "none"])
    BY <1>3 DEF ReportsInstalled
  <2>4. cr' \in [spec : Specs \cup {NoSpec}, op : Ops] /\ cr'.spec = cr.spec /\ (cr = NoCr <=> cr' = NoCr)
    BY <2>3, Cleared DEF IInv, TypeOK
  <2>5. outbox' \subseteq Specs
    BY <1>3, <1>n, <1>t, <2>1, ResourceSpec
  <2>6. TypeOK'
    BY <1>0, <2>1, <2>2, <2>4, <2>5 DEF IInv, TypeOK
  <2>7. ResourceInv' /\ StagedInv'
    BY <1>0, <2>4 DEF IInv, ResourceInv, StagedInv
  <2>8. SpecIsPursued'
    BY <1>0, <2>1, <2>3, <2>4 DEF IInv, SpecIsPursued
  <2>9. CommandInv'
    BY <2>1 DEF IInv, CommandInv, Sound
  <2>10. QED
    BY <2>6, <2>7, <2>8, <2>9 DEF IInv
<1>4. CASE seen.op = "UPGRADE" /\ Sends("UpgradeJob")
  BY <1>4, <1>n, <1>s
<1>5. CASE seen.op = "CROSS_UPGRADE" /\ Sends("CrossUpgradeJob")
  BY <1>5, <1>n, <1>s
<1>6. CASE queued' = FALSE /\ UNCHANGED <<cr, cmds, outbox>>
  <2>1. queued' \in BOOLEAN
    BY <1>6
  <2>2. TypeOK'
    BY <1>0, <1>6, <2>1 DEF IInv, TypeOK
  <2>3. ResourceInv' /\ StagedInv' /\ SpecIsPursued'
    BY <1>0, <1>6 DEF IInv, ResourceInv, StagedInv, SpecIsPursued
  <2>4. CommandInv'
    BY <1>6 DEF IInv, CommandInv, Sound
  <2>5. QED
    BY <2>2, <2>3, <2>4 DEF IInv
<1>7. QED
  BY <1>1, <1>2, <1>3, <1>4, <1>5, <1>6 DEF Reconcile

-----------------------------------------------------------------------------
\* The commands.

\* A command ends, with or without an answer; the release may change.
LEMMA EndsInv ==
  ASSUME IInv, NEW c \in cmds, cmds' = cmds \ {c},
         UNCHANGED <<cr, seen, queued, staged, answered, early, lost>>,
         outbox' = outbox \/ (c.type # "Delete" /\ Answers(c)),
         helm' = helm \/ helm' = NoRelease
  PROVE  IInv'
<1>1. cmds' \subseteq Commands /\ CommandInv'
  BY DEF IInv, TypeOK, CommandInv, Sound
<1>2. outbox \subseteq outbox' /\ outbox' \subseteq Specs
  BY CommandFacts DEF Answers, IInv, TypeOK, Sound
<1>3. /\ helm' \in [spec : Specs \cup {NoSpec}, status : {"none", "pending", "deployed", "failed"}]
      /\ (helm'.status = "none") = (helm'.spec = NoSpec)
  BY DEF NoRelease, IInv, TypeOK
<1>4. QED
  BY <1>1, <1>2, <1>3, CommandStep

\* A command sends another one in its place.
LEMMA ReplacesInv ==
  ASSUME IInv, NEW c \in cmds, c.type # "Delete",
         NEW type \in JobTypes \cup {"Install", "Upgrade"}, NEW eof \in 0..MaxEof,
         cmds' = Plus(cmds \ {c}, type, c.spec, eof),
         UNCHANGED <<cr, seen, queued, staged, outbox, answered, early, lost>>,
         helm' = helm \/ helm' = NoRelease
  PROVE  IInv'
<1>1. c.spec \in Specs
  BY CommandFacts DEF Sound
<1>2. cmds' \subseteq Commands /\ \A d \in cmds' : Sound(d)
  BY <1>1, CommandFacts, PlusSound, Zenon
<1>3. CommandInv'
  BY <1>2 DEF CommandInv, Sound
<1>4. outbox \subseteq outbox' /\ outbox' \subseteq Specs
  BY DEF IInv, TypeOK
<1>5. /\ helm' \in [spec : Specs \cup {NoSpec}, status : {"none", "pending", "deployed", "failed"}]
      /\ (helm'.status = "none") = (helm'.spec = NoSpec)
  BY DEF NoRelease, IInv, TypeOK
<1>6. QED
  BY <1>2, <1>3, <1>4, <1>5, CommandStep

\* The jobs that prepare an installation or an upgrade.
LEMMA JobsInv ==
  ASSUME IInv, NEW c \in cmds,
         \/ InstallJobFails(c) \/ InstallJobSucceeds(c) \/ UpgradeJobFails(c) \/ UpgradeJobSucceeds(c)
         \/ CrossUpgrades(c)
  PROVE  IInv'
<1>1. UNCHANGED <<cr, seen, queued, staged, answered, early, lost>>
  BY DEF InstallJobFails, InstallJobSucceeds, UpgradeJobFails, UpgradeJobSucceeds, CrossUpgrades
<1>2. c.type # "Delete" /\ c.type \in JobTypes \cup {"Install", "Upgrade"}
  BY DEF InstallJobFails, InstallJobSucceeds, UpgradeJobFails, UpgradeJobSucceeds, CrossUpgrades, JobTypes
<1>3. c.eof \in 0..MaxEof /\ 0 \in 0..MaxEof /\ (c.eof < MaxEof => c.eof + 1 \in 0..MaxEof)
  BY CommandFacts, HelmAssumption
<1>4. CASE InstallJobFails(c)
  <2>1. CASE cmds' = cmds \ {c} /\ Answers(c)
    BY <1>1, <1>2, <1>4, <2>1, EndsInv DEF InstallJobFails
  <2>2. CASE c.eof < MaxEof /\ cmds' = Plus(cmds \ {c}, c.type, c.spec, c.eof + 1) /\ UNCHANGED outbox
    <3>1. helm' = helm /\ outbox' = outbox /\ c.eof + 1 \in 0..MaxEof
      BY <1>3, <1>4, <2>2 DEF InstallJobFails
    <3>2. QED
      BY <1>1, <1>2, <2>2, <3>1, ReplacesInv
  <2>3. QED
    BY <1>4, <2>1, <2>2 DEF InstallJobFails
<1>5. CASE InstallJobSucceeds(c)
  <2>1. cmds' = Plus(cmds \ {c}, "Install", c.spec, c.eof) /\ helm' = helm /\ outbox' = outbox
    BY <1>5 DEF InstallJobSucceeds
  <2>2. QED
    BY <1>1, <1>2, <1>3, <2>1, ReplacesInv
<1>6. CASE UpgradeJobFails(c)
  <2>1. cmds' = cmds \ {c} /\ Answers(c) /\ helm' = helm
    BY <1>6 DEF UpgradeJobFails
  <2>2. QED
    BY <1>1, <1>2, <2>1, EndsInv
<1>7. CASE UpgradeJobSucceeds(c)
  <2>1. cmds' = Plus(cmds \ {c}, "Upgrade", c.spec, c.eof) /\ helm' = helm /\ outbox' = outbox
    BY <1>7 DEF UpgradeJobSucceeds
  <2>2. QED
    BY <1>1, <1>2, <1>3, <2>1, ReplacesInv
<1>8. CASE CrossUpgrades(c)
  <2>1. CASE /\ helm' = NoRelease /\ cmds' = Plus(cmds \ {c}, "InstallJob", c.spec, 0)
             /\ outbox' = outbox
    <3>1. "InstallJob" \in JobTypes \cup {"Install", "Upgrade"}
      BY DEF JobTypes
    <3>2. QED
      BY <1>1, <1>2, <1>3, <2>1, <3>1, ReplacesInv
  <2>2. CASE cmds' = cmds \ {c} /\ Answers(c) /\ helm' = helm
    BY <1>1, <1>2, <2>2, EndsInv
  <2>3. QED
    BY <1>8, <2>1, <2>2 DEF CrossUpgrades
<1>9. QED
  BY <1>4, <1>5, <1>6, <1>7, <1>8

\* A command of Helm starts, is refused or ends.
LEMMA HelmInv ==
  ASSUME IInv, NEW c \in cmds, InstallStarts(c) \/ UpgradeStarts(c) \/ HelmRefuses(c) \/ HelmEnds(c)
  PROVE  IInv'
<1>1. UNCHANGED <<cr, seen, queued, staged, outbox, answered, early, lost>>
  BY DEF InstallStarts, UpgradeStarts, HelmRefuses, HelmEnds
<1>2. c.type \in {"Install", "Upgrade"}
  BY CommandFacts DEF InstallStarts, UpgradeStarts, HelmRefuses, HelmEnds, Sound
<1>3. PICK pc \in {"running", "erase", "erase_resent"} : cmds' = (cmds \ {c}) \cup {[c EXCEPT !.pc = pc]}
  BY DEF InstallStarts, UpgradeStarts, HelmRefuses, HelmEnds, Moves
<1>4. cmds' \subseteq Commands /\ CommandInv'
  <2>1. [c EXCEPT !.pc = pc] \in Commands /\ Sound([c EXCEPT !.pc = pc])
    BY <1>2, MovesSound
  <2>2. cmds' \subseteq Commands /\ \A d \in cmds' : Sound(d)
    BY <1>3, <2>1, CommandFacts
  <2>3. QED
    BY <2>2 DEF CommandInv, Sound
<1>5. c.spec \in Specs /\ c.spec # NoSpec
  BY <1>2, CommandFacts, NoSpecIsNone DEF Sound
<1>6. /\ helm' \in [spec : Specs \cup {NoSpec}, status : {"none", "pending", "deployed", "failed"}]
      /\ (helm'.status = "none") = (helm'.spec = NoSpec)
  <2>1. CASE helm' = helm
    BY <2>1 DEF IInv, TypeOK
  <2>2. CASE helm' = [spec |-> c.spec, status |-> "pending"]
    BY <1>5, <2>2
  <2>3. CASE helm.spec = c.spec /\ \E st \in {"deployed", "failed"} : helm' = [helm EXCEPT !.status = st]
    BY <1>5, <2>3 DEF IInv, TypeOK
  <2>4. QED
    BY <2>1, <2>2, <2>3 DEF InstallStarts, UpgradeStarts, HelmRefuses, HelmEnds
<1>7. outbox \subseteq outbox' /\ outbox' \subseteq Specs
  BY <1>1 DEF IInv, TypeOK
<1>8. QED
  BY <1>1, <1>4, <1>6, <1>7, CommandStep

LEMMA ResendsInv ==
  ASSUME IInv, NEW c \in cmds, InstallResends(c)
  PROVE  IInv'
<1>1. /\ c.type = "Install" /\ c.eof < MaxEof
      /\ cmds' = Plus((cmds \ {c}) \cup {[c EXCEPT !.pc = "erase_resent"]}, c.type, c.spec, c.eof + 1)
      /\ UNCHANGED <<cr, seen, queued, staged, helm, outbox, answered, early, lost>>
  BY DEF InstallResends
<1> DEFINE cs == (cmds \ {c}) \cup {[c EXCEPT !.pc = "erase_resent"]}
<1>2. [c EXCEPT !.pc = "erase_resent"] \in Commands /\ Sound([c EXCEPT !.pc = "erase_resent"])
  BY <1>1, MovesSound
<1>3. cs \in SUBSET Commands /\ \A d \in cs : Sound(d)
  BY <1>2, CommandFacts
<1>4. c.spec \in Specs
  BY <1>1, CommandFacts DEF Sound
<1>5. c.eof + 1 \in 0..MaxEof
  BY <1>1, CommandFacts, HelmAssumption
<1>6. cmds' = Plus(cs, "Install", c.spec, c.eof + 1)
  BY <1>1
<1> HIDE DEF cs
<1>7. cmds' \subseteq Commands /\ \A d \in cmds' : Sound(d)
  BY <1>3, <1>4, <1>5, <1>6, PlusSound, Zenon
<1>8. CommandInv'
  BY <1>7 DEF CommandInv, Sound
<1>9. /\ outbox \subseteq outbox' /\ outbox' \subseteq Specs
      /\ helm' \in [spec : Specs \cup {NoSpec}, status : {"none", "pending", "deployed", "failed"}]
      /\ (helm'.status = "none") = (helm'.spec = NoSpec)
  BY <1>1 DEF IInv, TypeOK
<1>10. QED
  BY <1>1, <1>7, <1>8, <1>9, CommandStep

\* A command removes the annotation and answers for its own specification; the
\* specification that loses the annotation is counted if it is another one.
LEMMA ErasesInv ==
  ASSUME IInv, NEW c \in cmds, Erases(c)
  PROVE  IInv'
<1>1. UNCHANGED <<seen, queued, staged, helm, answered, lost>> /\ cmds' = cmds \ {c}
  BY DEF Erases
<1>2. cr' = cr \/ cr' = [cr EXCEPT !.op = "none"]
  BY DEF Erases
<1>3. IF c.pc = "erase" THEN outbox' = outbox \cup {c.spec} ELSE outbox' = outbox
  BY DEF Erases, Answers
<1>4. early' = IF c.pc = "erase" /\ c.spec = cr.spec THEN early ELSE Early(cr')
  BY DEF Erases
<1>5. cr' \in [spec : Specs \cup {NoSpec}, op : Ops] /\ cr'.spec = cr.spec /\ (cr = NoCr <=> cr' = NoCr)
  BY <1>2, Cleared DEF IInv, TypeOK
<1>6. early \subseteq early' /\ early' \subseteq Specs
  BY <1>4, ResourceSpec DEF Early, IInv, TypeOK
<1>7. outbox \subseteq outbox' /\ outbox' \subseteq Specs
  <2>1. c.pc = "erase" => c.spec \in Specs
    BY CommandFacts DEF Sound
  <2>2. QED
    BY <1>3, <2>1 DEF IInv, TypeOK
<1>8. cmds' \subseteq Commands /\ CommandInv'
  BY <1>1 DEF IInv, TypeOK, CommandInv, Sound
<1>9. TypeOK'
  BY <1>1, <1>5, <1>6, <1>7, <1>8 DEF IInv, TypeOK
<1>10. ResourceInv' /\ StagedInv'
  BY <1>1, <1>5 DEF IInv, ResourceInv, StagedInv
<1>11. SpecIsPursued'
  <2> SUFFICES ASSUME cr' # NoCr, cr'.op = "none"
               PROVE  cr.spec \in answered \cup outbox' \cup early' \cup lost
    BY <1>1, <1>5 DEF SpecIsPursued
  <2>1. cr # NoCr /\ (cr.spec \in answered \cup outbox \cup early \cup lost \/ cr.op # "none")
    BY <1>5 DEF IInv, SpecIsPursued
  <2>2. CASE c.pc = "erase" /\ c.spec = cr.spec
    BY <1>3, <2>2
  <2>3. CASE ~(c.pc = "erase" /\ c.spec = cr.spec)
    <3>1. early' = Early(cr')
      BY <1>4, <2>3
    <3>2. cr.op # "none" => cr.spec \in Early(cr')
      BY <1>5, <2>1 DEF Early
    <3>3. QED
      BY <1>6, <1>7, <2>1, <3>1, <3>2
  <2>4. QED
    BY <2>2, <2>3
<1>12. QED
  BY <1>8, <1>9, <1>10, <1>11 DEF IInv

LEMMA DeletesInv ==
  ASSUME IInv, NEW c \in cmds, Deletes(c)
  PROVE  IInv'
<1>1. /\ cmds' = cmds \ {c} /\ UNCHANGED <<cr, seen, queued, staged, outbox, answered, early, lost>>
      /\ helm' = helm \/ helm' = NoRelease
  BY DEF Deletes
<1>2. QED
  BY <1>1, EndsInv

-----------------------------------------------------------------------------
\* The theorems.

LEMMA NextInv == IInv /\ [Next]_vars => IInv'
<1> SUFFICES ASSUME IInv, [Next]_vars PROVE IInv'
  OBVIOUS
<1>1. CASE Stages
  BY <1>1, StagesInv
<1>2. CASE Removes
  BY <1>2, RemovesInv
<1>3. CASE Notices \/ Restarts \/ Delivers
  BY <1>3, NoticesInv, RestartsInv, DeliversInv
<1>4. CASE Applies
  BY <1>4, AppliesInv
<1>5. CASE Reconcile
  BY <1>5, ReconcileInv
<1>6. ASSUME NEW c \in cmds,
             \/ InstallJobFails(c) \/ InstallJobSucceeds(c)
             \/ UpgradeJobFails(c) \/ UpgradeJobSucceeds(c) \/ CrossUpgrades(c)
      PROVE  IInv'
  BY <1>6, JobsInv
<1>7. ASSUME NEW c \in cmds, InstallStarts(c) \/ UpgradeStarts(c) \/ HelmRefuses(c) \/ HelmEnds(c)
      PROVE  IInv'
  BY <1>7, HelmInv
<1>8. ASSUME NEW c \in cmds, InstallResends(c) \/ Erases(c) \/ Deletes(c)
      PROVE  IInv'
  BY <1>8, ResendsInv, ErasesInv, DeletesInv
<1>9. CASE UNCHANGED vars
  <2>1. TypeOK'
    BY <1>9 DEF vars, IInv, TypeOK
  <2>2. ResourceInv' /\ StagedInv' /\ SpecIsPursued'
    BY <1>9 DEF vars, IInv, ResourceInv, StagedInv, SpecIsPursued
  <2>3. CommandInv'
    BY <1>9 DEF vars, IInv, CommandInv, Sound
  <2>4. QED
    BY <2>1, <2>2, <2>3 DEF IInv
<1>10. QED
  BY <1>1, <1>2, <1>3, <1>4, <1>5, <1>6, <1>7, <1>8, <1>9 DEF Next, CommandSteps

LEMMA SpecInv == Spec => []IInv
  BY InitInv, NextInv, PTL DEF Spec

\* The type invariant: no command carries a count of resends above MaxEof
\* (FailedCount, helm.go:42), a release has a status exactly when it has a
\* specification, and only specifications of the repository lose an annotation.
THEOREM HelmTypeOK == Spec => []TypeOK
<1>1. IInv => TypeOK
  BY DEF IInv
<1>2. QED
  BY <1>1, SpecInv, PTL

\* A specification in the cluster that has no answer, sent or in memory, still
\* carries its annotation, so that Reconcile starts over after a restart; the
\* exceptions are those that lost it to another sync of the file, to the end of
\* another command or to an install that is sent again, and those whose answer was
\* in memory when the process ended, with the annotation gone.
THEOREM SpecKeepsItsOperation == Spec => []SpecIsPursued
<1>1. IInv => SpecIsPursued
  BY DEF IInv
<1>2. QED
  BY <1>1, SpecInv, PTL
=============================================================================
