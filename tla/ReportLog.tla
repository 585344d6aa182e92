----------------------------- MODULE ReportLog -----------------------------
(***************************************************************************)
(* What the DevOps service may conclude about one environment from what    *)
(* reaches it: the results it is told and the tag agent-sync.  Results     *)
(* come in the order of the revisions, never one of an older revision      *)
(* after one of a newer, and agent-sync only moves to the revision whose   *)
(* result came last.  A result may get lost, in a dead link or with the    *)
(* process it waits in; agent-sync does not move to a revision whose       *)
(* result died with a process before it is given again.                    *)
(***************************************************************************)
EXTENDS Naturals, Sequences

VARIABLES
  revs,       \* the number of revisions devops-sync has been on
  waiting,    \* the revisions whose result waits in the process
  told,       \* those whose result the service has been told
  swallowed,  \* those whose result was sent into a dead link
  tag         \* the one agent-sync is on, 0 for none

reportVars == <<revs, waiting, told, swallowed, tag>>

ReportInit == revs = 1 /\ waiting = <<>> /\ told = {} /\ swallowed = {} /\ tag = 0

\* The service moves devops-sync to a new revision.
Commit ==
  /\ revs' = revs + 1
  /\ UNCHANGED <<waiting, told, swallowed, tag>>

\* The results given, but for those that died with a process.
Given == told \cup swallowed \cup {waiting[i] : i \in DOMAIN waiting}

\* r is as new as every one of them.
UpToDate(r) == \A t \in Given : t <= r

\* The process has a result for r, for the first time or again.
Give(r) ==
  /\ r \in 1 .. revs /\ UpToDate(r)
  /\ waiting' = Append(waiting, r)
  /\ UNCHANGED <<revs, told, swallowed, tag>>

\* The service is told the one that has waited longest, or a link swallows it.
Tell ==
  /\ waiting # <<>>
  /\ waiting' = Tail(waiting)
  /\ \/ told' = told \cup {Head(waiting)} /\ UNCHANGED swallowed
     \/ swallowed' = swallowed \cup {Head(waiting)} /\ UNCHANGED told
  /\ UNCHANGED <<revs, tag>>

\* The process dies, and with it what waits.
Die ==
  /\ waiting' = <<>>
  /\ UNCHANGED <<revs, told, swallowed, tag>>

Advance(r) ==
  /\ r \in Given /\ UpToDate(r)
  /\ tag' = r
  /\ UNCHANGED <<revs, waiting, told, swallowed>>

ReportNext == \/ Commit \/ Tell \/ Die
              \/ \E r \in 1 .. revs : Give(r) \/ Advance(r)

ReportSpec == ReportInit /\ [][ReportNext]_reportVars
=============================================================================
