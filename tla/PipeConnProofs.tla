--------------------------- MODULE PipeConnProofs ---------------------------
(***************************************************************************)
(* Proofs about PipeConn, for every set of terminals and logs, limit of    *)
(* retries and length of a log: its type invariant and the three safety    *)
(* invariants its run checks.                                              *)
(***************************************************************************)
EXTENDS PipeConn, TLAPS

-----------------------------------------------------------------------------
\* The inductive invariant.

Retained == {"dial", "dialled", "copy", "backoff", "close"}

\* A session whose command has not come has no goroutine.  A goroutine is counted from retainGoroutine to releaseGoroutine, only a
\* counted one has a websocket registered, and stop() returns when none is left.
RetainInv ==
  /\ \A s \in Sessions : handler[s] = "idle" => conn[s] = "none"
  /\ \A s \in Sessions : s \in background <=> conn[s] \in Retained
  /\ registered \subseteq background
  /\ app = "stopped" => background = {}

\* Whoever exceeds the limit is gone.
RetryInv ==
  \A s \in Sessions : conn[s] # "done" => retries[s] <= MaxRetries

\* The wait group of a terminal counts its copier.
WaitGroupInv ==
  \A s \in ExecSessions : pipe[s].wg = IF conn[s] = "copy" THEN 1 ELSE 0

\* Every attempt but the current one has cost a chunk or left a reader that may;
\* what vanished comes on top.
LossInv ==
  \A s \in ExecSessions :
    shell[s].lost + shell[s].stale <=
      retries[s] + shell[s].vanished + (IF conn[s] \in {"backoff", "close", "done"} THEN 1 ELSE 0)

\* Nothing waits between two copies, and nothing is read from a stream that has
\* ended; no time passes before what was queued is taken; the timer that writes
\* it is due before the wait is over.
FlushInv ==
  \A s \in LogSessions :
    LET c == copier[s]
    IN  /\ conn[s] # "copy" => c.wait = Never
        /\ c.message > 0 => c.looping
        /\ c.wait # Never => /\ c.reader # "open"
                             /\ c.queued > 0 => c.wait = CloseWaitTime
                             /\ c.message > 0 => c.timer < c.wait

IInv == TypeOK /\ RetainInv /\ RetryInv /\ WaitGroupInv /\ LossInv /\ FlushInv

-----------------------------------------------------------------------------
\* The records of pipe.

\* The updates of pipe that the actions make keep its type.
LEMMA PipeUpdates ==
  ASSUME NEW f \in [Sessions -> Pipes], NEW s \in Sessions, NEW b \in BOOLEAN
  PROVE  /\ [f EXCEPT ![s].closed = @ \/ b] \in [Sessions -> Pipes]
         /\ [f EXCEPT ![s].wg = @ + 1] \in [Sessions -> Pipes]
         /\ f[s].wg = 1 => [f EXCEPT ![s].wg = @ - 1] \in [Sessions -> Pipes]
         /\ f[s].wg = 1 => [f EXCEPT ![s].wg = @ - 1, ![s].closed = @ \/ b] \in [Sessions -> Pipes]
<1>1. [f EXCEPT ![s].closed = @ \/ b] \in [Sessions -> Pipes]
  BY DEF Pipes
<1>2. [f EXCEPT ![s].wg = @ + 1] \in [Sessions -> Pipes]
  BY DEF Pipes
<1>3. ASSUME f[s].wg = 1
      PROVE  [f EXCEPT ![s].wg = @ - 1] \in [Sessions -> Pipes]
  BY <1>3 DEF Pipes
<1>4. ASSUME f[s].wg = 1
      PROVE  [f EXCEPT ![s].wg = @ - 1, ![s].closed = @ \/ b] \in [Sessions -> Pipes]
  <2>1. [f[s] EXCEPT !.wg = 0, !.closed = @ \/ b] \in Pipes
    BY DEF Pipes
  <2>2. [f EXCEPT ![s] = [f[s] EXCEPT !.wg = 0, !.closed = @ \/ b]] \in [Sessions -> Pipes]
    BY <2>1
  <2>3. QED
    BY <1>4, <2>2
<1>5. QED
  BY <1>1, <1>2, <1>3, <1>4

\* So do the updates of a copier.
LEMMA CopierUpdates ==
  ASSUME NEW c \in Copiers
  PROVE  /\ [c EXCEPT !.timer = Later(@), !.wait = Later(@)] \in Copiers
         /\ [c EXCEPT !.wait = CloseWaitTime, !.reader = IF @ = "open" THEN "eof" ELSE @] \in Copiers
         /\ [NewCopier EXCEPT !.reader = "closed"] \in Copiers
<1>1. [c EXCEPT !.timer = Later(@), !.wait = Later(@)] \in Copiers
  <2>1. /\ Later(c.timer) \in 0 .. IntervalTime
        /\ Later(c.wait) \in 0 .. CloseWaitTime \cup {Never}
    BY DEF Later, Copiers, IntervalTime, CloseWaitTime, Never
  <2>2. QED
    BY <2>1 DEF Copiers
<1>2. [c EXCEPT !.wait = CloseWaitTime, !.reader = IF @ = "open" THEN "eof" ELSE @] \in Copiers
  <2>1. (IF c.reader = "open" THEN "eof" ELSE c.reader) \in {"open", "eof", "closed"}
    BY DEF Copiers
  <2>2. CloseWaitTime \in 0 .. CloseWaitTime \cup {Never}
    BY DEF CloseWaitTime
  <2>3. QED
    BY <2>1, <2>2 DEF Copiers
<1>3. [NewCopier EXCEPT !.reader = "closed"] \in Copiers
  <2>1. NewCopier \in Copiers
    BY PipeAssumption DEF Copiers, NewCopier, FirstInterval, IntervalTime, CloseWaitTime, Never
  <2>2. QED
    BY <2>1 DEF Copiers
<1>4. QED
  BY <1>1, <1>2, <1>3

\* What a tick leaves and what it changes.
LEMMA LaterCopier ==
  ASSUME NEW c \in Copiers
  PROVE  LET d == [c EXCEPT !.timer = Later(@), !.wait = Later(@)]
         IN  /\ d.message = c.message /\ d.queued = c.queued
             /\ d.looping = c.looping /\ d.reader = c.reader
             /\ d.timer = Later(c.timer) /\ d.wait = Later(c.wait)
  BY DEF Copiers

-----------------------------------------------------------------------------

\* The initial states satisfy the invariant.
LEMMA InitInv == Init => IInv
<1> SUFFICES ASSUME Init PROVE IInv
  OBVIOUS
<1> USE PipeAssumption DEF Init, Sessions
<1>1. TypeOK
  <2>1. handler \in [Sessions -> HandlerStates] /\ conn \in [Sessions -> ConnStates]
    BY DEF HandlerStates, ConnStates
  <2>2. pipe \in [Sessions -> Pipes]
    BY DEF Pipes
  <2>3. shell \in [ExecSessions -> Shells] /\ download \in DownloadStates
    BY DEF Shells, DownloadStates
  <2>4. copier \in [LogSessions -> Copiers]
    BY DEF Copiers, NewCopier, FirstInterval, IntervalTime, CloseWaitTime, Never
  <2>5. retries \in [Sessions -> 0 .. MaxRetries + 1]
    OBVIOUS
  <2>9. crashed \in BOOLEAN
    OBVIOUS
  <2>6. registered \subseteq Sessions /\ background \subseteq Sessions
    OBVIOUS
  <2>7. app \in {"running", "waiting", "stopped"}
    OBVIOUS
  <2>8. QED
    BY <2>1, <2>2, <2>3, <2>4, <2>5, <2>6, <2>7, <2>9, Zenon DEF TypeOK
<1>2. RetainInv
  BY DEF RetainInv, Retained
<1>3. RetryInv
  BY DEF RetryInv
<1>4. WaitGroupInv
  BY DEF WaitGroupInv
<1>5. LossInv
  BY DEF LossInv
<1>6. FlushInv
  BY DEF FlushInv, NewCopier, Never
<1>7. QED
  BY <1>1, <1>2, <1>3, <1>4, <1>5, <1>6 DEF IInv

\* A goroutine of doWithBackOff keeps the invariant.
LEMMA GoroutineInv ==
  ASSUME IInv, NEW s \in Sessions, Goroutine(s)
  PROVE  IInv'
<1> USE PipeAssumption DEF Sessions, Goes, Leaves
<1>1. CASE Retains(s)
  <2> USE <1>1 DEF Retains, Quit
  <2>1. TypeOK'
    BY DEF IInv, TypeOK, ConnStates
  <2>2. RetainInv'
    BY DEF IInv, TypeOK, RetainInv, Retained
  <2>3. RetryInv'
    BY DEF IInv, TypeOK, RetryInv
  <2>4. WaitGroupInv'
    BY DEF IInv, TypeOK, WaitGroupInv, Pipes
  <2>5. LossInv'
    BY DEF IInv, TypeOK, LossInv, Shells
  <2>6. FlushInv'
    BY DEF IInv, TypeOK, FlushInv
  <2>7. QED
    BY <2>1, <2>2, <2>3, <2>4, <2>5, <2>6 DEF IInv
<1>2. CASE Dials(s)
  <2> USE <1>2 DEF Dials
  <2>1. TypeOK'
    <3>1. conn' \in [Sessions -> ConnStates]
      BY DEF IInv, TypeOK, ConnStates
    <3>2. pipe' \in [Sessions -> Pipes]
      <4>1. PICK pc : pipe' = [pipe EXCEPT ![s].closed = @ \/ pc = "close"]
        OBVIOUS
      <4>2. (pc = "close") \in BOOLEAN
        OBVIOUS
      <4>3. QED
        BY <4>1, <4>2, PipeUpdates DEF IInv, TypeOK
    <3>3. QED
      BY <3>1, <3>2 DEF IInv, TypeOK
  <2>2. RetainInv'
    BY DEF IInv, TypeOK, RetainInv, Retained
  <2>3. RetryInv'
    BY DEF IInv, TypeOK, RetryInv
  <2>4. WaitGroupInv'
    BY DEF IInv, TypeOK, WaitGroupInv, Pipes
  <2>5. LossInv'
    BY DEF IInv, TypeOK, LossInv, Shells
  <2>6. FlushInv'
    BY DEF IInv, TypeOK, FlushInv
  <2>7. QED
    BY <2>1, <2>2, <2>3, <2>4, <2>5, <2>6 DEF IInv
<1>3. CASE Registers(s)
  <2> USE <1>3 DEF Registers, Quit
  <2>1. TypeOK'
    <3>1. conn' \in [Sessions -> ConnStates]
      BY DEF IInv, TypeOK, ConnStates
    <3>2. pipe' \in [Sessions -> Pipes]
      <4>1. pipe' = pipe \/ pipe' = [pipe EXCEPT ![s].wg = @ + 1]
        OBVIOUS
      <4>2. [pipe EXCEPT ![s].wg = @ + 1] \in [Sessions -> Pipes]
        BY PipeUpdates DEF IInv, TypeOK
      <4>3. QED
        BY <4>1, <4>2 DEF IInv, TypeOK
    <3>3. registered' \subseteq Sessions /\ background' \subseteq Sessions
      BY DEF IInv, TypeOK
    <3>4. QED
      BY <3>1, <3>2, <3>3 DEF IInv, TypeOK
  <2>2. RetainInv'
    BY DEF IInv, TypeOK, RetainInv, Retained
  <2>3. RetryInv'
    BY DEF IInv, TypeOK, RetryInv
  <2>4. WaitGroupInv'
    BY DEF IInv, TypeOK, WaitGroupInv, Pipes
  <2>5. LossInv'
    BY DEF IInv, TypeOK, LossInv, Shells
  <2>6. FlushInv'
    BY DEF IInv, TypeOK, FlushInv
  <2>7. QED
    BY <2>1, <2>2, <2>3, <2>4, <2>5, <2>6 DEF IInv
<1>4. CASE BacksOff(s)
  <2> USE <1>4 DEF BacksOff, Quit
  <2>1. TypeOK'
    BY DEF IInv, TypeOK, ConnStates, RetryInv
  <2>2. RetainInv'
    BY DEF IInv, TypeOK, RetainInv, Retained
  <2>3. RetryInv'
    BY DEF IInv, TypeOK, RetryInv
  <2>4. WaitGroupInv'
    BY DEF IInv, TypeOK, WaitGroupInv, Pipes
  <2>5. LossInv'
    BY DEF IInv, TypeOK, LossInv, Shells
  <2>6. FlushInv'
    BY DEF IInv, TypeOK, FlushInv
  <2>7. QED
    BY <2>1, <2>2, <2>3, <2>4, <2>5, <2>6 DEF IInv
<1>5. CASE Closes(s)
  <2> USE <1>5 DEF Closes
  <2>1. TypeOK'
    <3>1. conn' \in [Sessions -> ConnStates]
      BY DEF IInv, TypeOK, ConnStates
    <3>2. copier' \in [LogSessions -> Copiers]
      BY DEF IInv, TypeOK, Copiers
    <3>3. QED
      BY <3>1, <3>2 DEF IInv, TypeOK
  <2>2. RetainInv'
    BY DEF IInv, TypeOK, RetainInv, Retained
  <2>3. RetryInv'
    BY DEF IInv, TypeOK, RetryInv
  <2>4. WaitGroupInv'
    BY DEF IInv, TypeOK, WaitGroupInv, Pipes
  <2>5. LossInv'
    BY DEF IInv, TypeOK, LossInv, Shells
  <2>6. FlushInv'
    BY DEF IInv, TypeOK, FlushInv
  <2>7. QED
    BY <2>1, <2>2, <2>3, <2>4, <2>5, <2>6 DEF IInv
<1>6. QED
  BY <1>1, <1>2, <1>3, <1>4, <1>5 DEF Goroutine

\* A step of a log copier changes its timers and buffers and nothing else.
LEMMA CopierStep ==
  ASSUME IInv, copier' \in [LogSessions -> Copiers], FlushInv',
         UNCHANGED <<handler, conn, retries, pipe, shell, registered, background, app, download, crashed>>
  PROVE  IInv'
<1>1. TypeOK'
  BY DEF IInv, TypeOK
<1>2. RetainInv' /\ RetryInv' /\ WaitGroupInv' /\ LossInv'
  BY DEF IInv, RetainInv, RetryInv, WaitGroupInv, LossInv
<1>3. QED
  BY <1>1, <1>2 DEF IInv

\* What the two copiers do with conn and registered at their end.
LEMMA AfterCopyType ==
  ASSUME TypeOK, NEW s \in Sessions, NEW expected \in BOOLEAN, AfterCopy(s, expected)
  PROVE  /\ conn' \in [Sessions -> ConnStates]
         /\ registered' \subseteq Sessions
  BY DEF AfterCopy, Goes, TypeOK, ConnStates

\* The steps of a terminal keep the invariant.
LEMMA ExecInv ==
  ASSUME IInv, NEW s \in ExecSessions,
         ExecReturns(s) \/ ExecCopyEnds(s) \/ StaleReads(s) \/ ExecWriteFails(s)
           \/ ExecWriteVanishes(s)
  PROVE  IInv'
<1> USE PipeAssumption DEF Sessions, Goes, AfterCopy
<1>1. CASE ExecReturns(s)
  <2> USE <1>1 DEF ExecReturns
  <2>1. TypeOK'
    BY DEF IInv, TypeOK, HandlerStates
  <2>2. RetainInv'
    BY DEF IInv, TypeOK, RetainInv, Retained
  <2>3. RetryInv'
    BY DEF IInv, TypeOK, RetryInv
  <2>4. WaitGroupInv'
    BY DEF IInv, TypeOK, WaitGroupInv, Pipes
  <2>5. LossInv'
    BY DEF IInv, TypeOK, LossInv, Shells
  <2>6. FlushInv'
    BY DEF IInv, TypeOK, FlushInv, Copiers
  <2>7. QED
    BY <2>1, <2>2, <2>3, <2>4, <2>5, <2>6 DEF IInv
<1>2. CASE ExecCopyEnds(s)
  <2>1. PICK expected \in BOOLEAN :
          /\ AfterCopy(s, expected)
          /\ pipe' = [pipe EXCEPT ![s].wg = @ - 1, ![s].closed = @ \/ expected]
          /\ shell' = [shell EXCEPT ![s].stale = IF expected THEN 0 ELSE @ + 1]
    BY <1>2 DEF ExecCopyEnds
  <2>2. /\ conn[s] = "copy"
        /\ UNCHANGED <<handler, retries, copier, background, app, download, crashed>>
    BY <1>2 DEF ExecCopyEnds
  <2>3. /\ shell[s] \in Shells /\ pipe[s] \in Pipes /\ pipe[s].wg = 1
        /\ shell[s].lost + shell[s].stale <= retries[s] + shell[s].vanished
        /\ retries[s] \in Nat
    <3>1. /\ shell[s] \in Shells /\ pipe[s] \in Pipes /\ pipe[s].wg = 1
          /\ retries[s] \in Nat
      BY <2>2 DEF IInv, TypeOK, WaitGroupInv
    <3>2. shell[s].lost + shell[s].stale <= retries[s] + shell[s].vanished + 0
      BY <2>2 DEF IInv, LossInv
    <3>3. QED
      BY <3>1, <3>2 DEF Shells
  <2>4. /\ shell'[s] \in Shells
        /\ shell'[s].lost + shell'[s].stale <= retries[s] + shell'[s].vanished + 1
        /\ \A t \in ExecSessions \ {s} : shell'[t] = shell[t]
    <3> DEFINE n == IF expected THEN 0 ELSE shell[s].stale + 1
    <3>1. shell' = [shell EXCEPT ![s].stale = n]
      BY <2>1
    <3>2. /\ shell'[s].stale = n /\ shell'[s].lost = shell[s].lost
          /\ shell'[s].vanished = shell[s].vanished
          /\ shell'[s] = [shell[s] EXCEPT !.stale = n]
          /\ \A t \in ExecSessions \ {s} : shell'[t] = shell[t]
      BY <3>1, <2>3 DEF IInv, TypeOK, Shells
    <3>3. n \in Nat /\ n <= shell[s].stale + 1
      BY <2>3 DEF Shells
    <3>4. QED
      BY <2>3, <3>2, <3>3 DEF Shells
  <2>5. /\ pipe'[s].wg = 0
        /\ \A t \in Sessions \ {s} : pipe'[t] = pipe[t]
    BY <2>1, <2>3 DEF IInv, TypeOK, Pipes
  <2>6. /\ conn'[s] \in {"backoff", "close"}
        /\ \A t \in Sessions \ {s} : conn'[t] = conn[t]
    BY <2>1 DEF IInv, TypeOK
  <2>7. TypeOK'
    <3>1. pipe' \in [Sessions -> Pipes]
      BY <2>1, <2>3, PipeUpdates DEF IInv, TypeOK
    <3>2. shell' \in [ExecSessions -> Shells]
      BY <2>1, <2>4 DEF IInv, TypeOK
    <3>3. QED
      BY <2>1, <2>2, <3>1, <3>2, AfterCopyType DEF IInv, TypeOK
  <2>8. RetainInv'
    BY <2>1, <2>2, <2>6 DEF IInv, TypeOK, RetainInv, Retained
  <2>9. RetryInv'
    BY <2>2, <2>6 DEF IInv, RetryInv
  <2>10. WaitGroupInv'
    BY <2>5, <2>6 DEF IInv, WaitGroupInv
  <2>11. LossInv'
    BY <2>2, <2>4, <2>6 DEF IInv, LossInv
  <2>12. FlushInv'
    BY <2>2, <2>6, PipeAssumption DEF IInv, FlushInv
  <2>13. QED
    BY <2>7, <2>8, <2>9, <2>10, <2>11, <2>12 DEF IInv
<1>3. CASE StaleReads(s)
  <2> USE <1>3 DEF StaleReads
  <2>1. TypeOK'
    BY DEF IInv, TypeOK, Shells
  <2>2. RetainInv'
    BY DEF IInv, TypeOK, RetainInv, Retained
  <2>3. RetryInv'
    BY DEF IInv, TypeOK, RetryInv
  <2>4. WaitGroupInv'
    BY DEF IInv, TypeOK, WaitGroupInv, Pipes
  <2>5. LossInv'
    BY DEF IInv, TypeOK, LossInv, Shells
  <2>6. FlushInv'
    BY DEF IInv, TypeOK, FlushInv, Copiers
  <2>7. QED
    BY <2>1, <2>2, <2>3, <2>4, <2>5, <2>6 DEF IInv
<1>4. CASE ExecWriteFails(s)
  <2> USE <1>4 DEF ExecWriteFails
  <2>1. TypeOK'
    <3>1. pipe' \in [Sessions -> Pipes]
      BY PipeUpdates DEF IInv, TypeOK, WaitGroupInv
    <3>2. shell' \in [ExecSessions -> Shells]
      BY DEF IInv, TypeOK, Shells
    <3>3. QED
      BY <3>1, <3>2, AfterCopyType DEF IInv, TypeOK
  <2>2. RetainInv'
    BY DEF IInv, TypeOK, RetainInv, Retained
  <2>3. RetryInv'
    BY DEF IInv, TypeOK, RetryInv
  <2>4. WaitGroupInv'
    BY DEF IInv, TypeOK, WaitGroupInv, Pipes
  <2>5. LossInv'
    BY DEF IInv, TypeOK, LossInv, Shells
  <2>6. FlushInv'
    BY DEF IInv, TypeOK, FlushInv, Copiers
  <2>7. QED
    BY <2>1, <2>2, <2>3, <2>4, <2>5, <2>6 DEF IInv
<1>5. CASE ExecWriteVanishes(s)
  <2> USE <1>5 DEF ExecWriteVanishes
  <2>1. shell' \in [ExecSessions -> Shells]
    BY DEF IInv, TypeOK, Shells
  <2>2. TypeOK'
    BY <2>1 DEF IInv, TypeOK
  <2>3. RetainInv' /\ RetryInv' /\ WaitGroupInv' /\ FlushInv'
    BY DEF IInv, RetainInv, RetryInv, WaitGroupInv, FlushInv
  <2>4. LossInv'
    BY DEF IInv, TypeOK, LossInv, Shells
  <2>5. QED
    BY <2>2, <2>3, <2>4 DEF IInv
<1>6. QED
  BY <1>1, <1>2, <1>3, <1>4, <1>5

\* The steps of a log keep the invariant.
LEMMA LogInv ==
  ASSUME IInv, NEW s \in LogSessions,
         LogGoroutines(s) \/ LineRead(s) \/ ReadFails(s) \/ LogConnEnds(s)
  PROVE  IInv'
<1> USE PipeAssumption DEF Sessions, Copying
<1>1. CASE SetsOnClose(s)
  <2> USE <1>1 DEF SetsOnClose
  <2>1. TypeOK'
    <3>1. pipe' \in [Sessions -> Pipes]
      BY DEF IInv, TypeOK, Pipes
    <3>2. QED
      BY <3>1 DEF IInv, TypeOK, HandlerStates
  <2>2. RetainInv'
    BY DEF IInv, TypeOK, RetainInv, Retained
  <2>3. RetryInv'
    BY DEF IInv, TypeOK, RetryInv
  <2>4. WaitGroupInv'
    BY DEF IInv, TypeOK, WaitGroupInv, Pipes
  <2>5. LossInv'
    BY DEF IInv, TypeOK, LossInv, Shells
  <2>6. FlushInv'
    BY DEF IInv, TypeOK, FlushInv, Copiers
  <2>7. QED
    BY <2>1, <2>2, <2>3, <2>4, <2>5, <2>6 DEF IInv
<1>2. CASE TakesMessage(s)
  <2>1. copier' \in [LogSessions -> Copiers]
    <3>1. copier[s] \in Copiers /\ copier[s].queued > 0
      BY <1>2 DEF TakesMessage, IInv, TypeOK
    <3>2. copier[s].queued - 1 \in Nat
      BY <3>1 DEF Copiers
    <3>3. [copier[s] EXCEPT !.queued = @ - 1, !.message = 1, !.looping = TRUE] \in Copiers
      BY <3>1, <3>2 DEF Copiers
    <3>4. copier' = [copier EXCEPT ![s] = [copier[s] EXCEPT !.queued = @ - 1, !.message = 1, !.looping = TRUE]]
      BY <1>2 DEF TakesMessage, IInv, TypeOK
    <3>5. QED
      BY <3>3, <3>4 DEF IInv, TypeOK
  <2>2. FlushInv'
    BY <1>2 DEF TakesMessage, IInv, TypeOK, FlushInv, Copiers, IntervalTime, CloseWaitTime, Never
  <2>3. QED
    BY <1>2, <2>1, <2>2, CopierStep DEF TakesMessage
<1>3. CASE TimerFires(s)
  <2>1. copier' \in [LogSessions -> Copiers]
    BY <1>3 DEF TimerFires, IInv, TypeOK, FlushInv, Copiers, IntervalTime, CloseWaitTime, Never
  <2>2. FlushInv'
    BY <1>3 DEF TimerFires, IInv, TypeOK, FlushInv, Copiers, IntervalTime, CloseWaitTime, Never
  <2>3. QED
    BY <1>3, <2>1, <2>2, CopierStep DEF TimerFires
<1>4. CASE LineRead(s)
  <2>1. copier' \in [LogSessions -> Copiers]
    BY <1>4 DEF LineRead, IInv, TypeOK, FlushInv, Copiers, IntervalTime, CloseWaitTime, Never
  <2>2. FlushInv'
    BY <1>4 DEF LineRead, IInv, TypeOK, FlushInv, Copiers, IntervalTime, CloseWaitTime, Never
  <2>3. QED
    BY <1>4, <2>1, <2>2, CopierStep DEF LineRead
<1>5. CASE ReadFails(s)
  <2>1. copier' \in [LogSessions -> Copiers]
    BY <1>5, CopierUpdates DEF ReadFails, IInv, TypeOK
  <2>2. FlushInv'
    BY <1>5 DEF ReadFails, IInv, TypeOK, FlushInv, Copiers, IntervalTime, CloseWaitTime, Never
  <2>3. QED
    BY <1>5, <2>1, <2>2, CopierStep DEF ReadFails
<1>6. ASSUME NEW expected \in BOOLEAN, conn[s] = "copy", LogCopyEnds(s, expected)
      PROVE  IInv'
  <2> USE <1>6 DEF LogCopyEnds, AfterCopy, Goes
  <2>1. TypeOK'
    <3>1. pipe' \in [Sessions -> Pipes]
      BY PipeUpdates DEF IInv, TypeOK
    <3>2. copier' \in [LogSessions -> Copiers]
      BY CopierUpdates DEF IInv, TypeOK
    <3>3. crashed' \in BOOLEAN
      BY DEF IInv, TypeOK, Pipes
    <3>4. QED
      BY <3>1, <3>2, <3>3, AfterCopyType DEF IInv, TypeOK
  <2>2. RetainInv'
    BY DEF IInv, TypeOK, RetainInv, Retained
  <2>3. RetryInv'
    BY DEF IInv, TypeOK, RetryInv
  <2>4. WaitGroupInv'
    BY DEF IInv, TypeOK, WaitGroupInv, Pipes
  <2>5. LossInv'
    BY DEF IInv, TypeOK, LossInv, Shells
  <2>6. FlushInv'
    BY DEF IInv, TypeOK, FlushInv, Copiers, NewCopier, Never
  <2>7. QED
    BY <2>1, <2>2, <2>3, <2>4, <2>5, <2>6 DEF IInv
<1>7. CASE WaitOver(s)
  BY <1>6, <1>7 DEF WaitOver
<1>8. CASE LogConnEnds(s)
  BY <1>6, <1>8 DEF LogConnEnds
<1>9. QED
  BY <1>1, <1>2, <1>3, <1>4, <1>5, <1>7, <1>8 DEF LogGoroutines

\* Time passes for all copiers; it does not while one of them has a message to
\* take or a timer that is due.
LEMMA TickInv ==
  ASSUME IInv, Tick
  PROVE  IInv'
<1>1. ASSUME NEW s \in LogSessions
      PROVE  /\ copier[s] \in Copiers
             /\ copier'[s] = [copier[s] EXCEPT !.timer = Later(@), !.wait = Later(@)]
  BY DEF Tick, IInv, TypeOK
<1>2. copier' \in [LogSessions -> Copiers]
  BY <1>1, CopierUpdates DEF Tick
<1>3. FlushInv'
  <2> SUFFICES ASSUME NEW s \in LogSessions
               PROVE  LET c == copier'[s]
                      IN  /\ conn[s] # "copy" => c.wait = Never
                          /\ c.message > 0 => c.looping
                          /\ c.wait # Never => /\ c.reader # "open"
                                               /\ c.queued > 0 => c.wait = CloseWaitTime
                                               /\ c.message > 0 => c.timer < c.wait
    BY DEF FlushInv, Tick
  <2>1. copier[s] \in Copiers
    BY <1>1
  <2>2. /\ copier'[s].message = copier[s].message
        /\ copier'[s].queued = copier[s].queued
        /\ copier'[s].looping = copier[s].looping
        /\ copier'[s].reader = copier[s].reader
        /\ copier'[s].timer = Later(copier[s].timer)
        /\ copier'[s].wait = Later(copier[s].wait)
    BY <1>1, <2>1, LaterCopier
  <2>3. CASE conn[s] # "copy"
    BY <2>2, <2>3 DEF IInv, FlushInv, Later, Never
  <2>4. CASE conn[s] = "copy"
    <3>1. /\ ~(copier[s].queued > 0)
          /\ ~(copier[s].looping /\ copier[s].timer = 0)
          /\ copier[s].wait # 0
      BY <2>4 DEF Tick, Urgent, Copying
    <3>2. /\ copier[s].queued = 0
          /\ copier[s].wait \in 1 .. CloseWaitTime \cup {Never}
          /\ copier[s].timer \in 0 .. IntervalTime
          /\ copier[s].message \in Nat
      BY <2>1, <3>1 DEF Copiers, CloseWaitTime, Never
    <3>3. QED
      BY <2>2, <2>4, <3>1, <3>2 DEF IInv, FlushInv, Later, IntervalTime, CloseWaitTime, Never
  <2>5. QED
    BY <2>3, <2>4
<1>4. QED
  BY <1>2, <1>3, CopierStep DEF Tick

\* A command starts: the goroutine of its connection is not counted yet.
LEMMA CommandInv ==
  ASSUME IInv, NEW s \in Sessions, Command(s)
  PROVE  IInv'
<1> USE PipeAssumption DEF Command, Sessions, Goes
<1>1. TypeOK'
  BY DEF IInv, TypeOK, HandlerStates, ConnStates
<1>2. \/ UNCHANGED conn
      \/ conn[s] = "none" /\ conn' = [conn EXCEPT ![s] = "start"]
  BY DEF IInv, RetainInv
<1>3. RetainInv'
  BY <1>2 DEF IInv, TypeOK, RetainInv, Retained
<1>4. RetryInv' /\ WaitGroupInv'
  BY <1>2 DEF IInv, TypeOK, RetryInv, WaitGroupInv
<1>5. LossInv'
  BY <1>2 DEF IInv, TypeOK, LossInv
<1>6. FlushInv'
  BY <1>2 DEF IInv, TypeOK, FlushInv
<1>7. QED
  BY <1>1, <1>3, <1>4, <1>5, <1>6 DEF IInv

\* The download of a log and the shutdown touch nothing that the sessions have.
LEMMA AppInv ==
  ASSUME IInv, Downloads \/ DownloadDials \/ DownloadGivesUp \/ Stops \/ StopReturns
  PROVE  IInv'
<1> USE PipeAssumption DEF Downloads, DownloadDials, DownloadGivesUp, Stops, StopReturns
<1>1. UNCHANGED <<handler, conn, retries, pipe, shell, copier, registered, background>>
  OBVIOUS
<1>2. download' \in DownloadStates
  BY DEF IInv, TypeOK, DownloadStates
<1>3. crashed' \in BOOLEAN
  BY DEF IInv, TypeOK
<1>4. TypeOK'
  BY <1>1, <1>2, <1>3 DEF IInv, TypeOK
<1>5. RetainInv'
  BY <1>1 DEF IInv, RetainInv
<1>6. RetryInv' /\ WaitGroupInv' /\ LossInv' /\ FlushInv'
  BY <1>1 DEF IInv, RetryInv, WaitGroupInv, LossInv, FlushInv
<1>7. QED
  BY <1>4, <1>5, <1>6 DEF IInv

\* Every step keeps the invariant.
LEMMA NextInv == IInv /\ [Next]_vars => IInv'
<1> SUFFICES ASSUME IInv, [Next]_vars
             PROVE  IInv'
  OBVIOUS
<1>1. ASSUME NEW s \in Sessions, Command(s) \/ Goroutine(s)
      PROVE  IInv'
  BY <1>1, CommandInv, GoroutineInv
<1>2. ASSUME NEW s \in ExecSessions, ExecReturns(s) \/ ExecCopyEnds(s) \/ StaleReads(s) \/ ExecWriteFails(s)
           \/ ExecWriteVanishes(s)
      PROVE  IInv'
  BY <1>2, ExecInv
<1>3. ASSUME NEW s \in LogSessions, LogGoroutines(s) \/ LineRead(s) \/ ReadFails(s) \/ LogConnEnds(s)
      PROVE  IInv'
  BY <1>3, LogInv
<1>4. CASE Tick
  BY <1>4, TickInv
<1>5. CASE Downloads \/ DownloadDials \/ DownloadGivesUp \/ Stops \/ StopReturns
  BY <1>5, AppInv
<1>6. CASE UNCHANGED vars
  BY <1>6 DEF vars, IInv, TypeOK, RetainInv, RetryInv, WaitGroupInv, LossInv, FlushInv
<1>7. QED
  BY <1>1, <1>2, <1>3, <1>4, <1>5, <1>6 DEF Next

\* The invariant holds in every reachable state.
LEMMA SpecInv == Spec => []IInv
<1>1. QED
  BY InitInv, NextInv, PTL DEF Spec

-----------------------------------------------------------------------------
\* The theorems.

\* Every variable has its type, and no session dials more often than
\* doWithBackOff allows.
THEOREM PipeTypeOK == Spec => []TypeOK
<1>1. IInv => TypeOK
  BY DEF IInv
<1>2. QED
  BY <1>1, SpecInv, PTL

\* When stop() has returned, no goroutine of PipeConnection is under way and no
\* websocket is registered.
THEOREM SpecStopIsQuiet == Spec => []StopIsQuiet
<1>1. IInv => StopIsQuiet
  BY DEF IInv, TypeOK, RetainInv, Retained, ConnStates, StopIsQuiet
<1>2. QED
  BY <1>1, SpecInv, PTL

\* CopyToWebsocketForExec: besides what vanishes in the buffer of a dead link, an
\* attempt that fails costs a terminal one chunk of its output at most.
THEOREM SpecLossPerAttempt == Spec => []LossPerAttempt
<1>1. IInv => LossPerAttempt
  <2> SUFFICES ASSUME IInv, NEW s \in ExecSessions
               PROVE  shell[s].lost <= retries[s] + 1 + shell[s].vanished
    BY DEF LossPerAttempt
  <2>1. shell[s] \in Shells /\ retries[s] \in Nat
    BY DEF IInv, TypeOK, Sessions
  <2>2. shell[s].lost + shell[s].stale <= retries[s] + 1 + shell[s].vanished
    BY <2>1 DEF IInv, LossInv, Shells
  <2>3. QED
    BY <2>1, <2>2 DEF Shells
<1>2. QED
  BY <1>1, SpecInv, PTL

\* CopyToWebsocketForLog: what was read before the end of the stream is written
\* before the end is reported.
THEOREM SpecLogFlushed == Spec => []LogFlushed
<1>1. IInv => LogFlushed
  <2> SUFFICES ASSUME IInv, NEW s \in LogSessions, copier[s].wait = 0
               PROVE  copier[s].queued = 0 /\ copier[s].message = 0
    BY DEF LogFlushed
  <2>1. copier[s] \in Copiers
    BY DEF IInv, TypeOK
  <2>2. /\ copier[s].queued \in Nat /\ copier[s].message \in Nat
        /\ copier[s].timer \in Nat
    BY <2>1 DEF Copiers
  <2>3. /\ ~(copier[s].queued > 0)
        /\ ~(copier[s].message > 0)
    BY <2>2 DEF IInv, FlushInv, CloseWaitTime, Never
  <2>4. QED
    BY <2>2, <2>3
<1>2. QED
  BY <1>1, SpecInv, PTL
=============================================================================
