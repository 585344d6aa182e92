------------------------------ MODULE PipeConn ------------------------------
(***************************************************************************)
(* Terminal and log sessions (pkg/util/pipe, the pipe half of              *)
(* pkg/websocket/client.go, the exec and log commands).  A command makes a *)
(* pipe and starts a goroutine that dials a websocket of its own, copies   *)
(* between the two until one of them ends, and dials again after an        *)
(* unexpected error.  appClient.stop closes quit and waits for those       *)
(* goroutines.                                                             *)
(*                                                                         *)
(* Time is counted in half seconds, and only for the log copier, whose     *)
(* last write depends on it: a tick does not pass a timer that is due, nor *)
(* a message that can be taken.  Back-off delays may take any time.        *)
(***************************************************************************)
EXTENDS Naturals, FiniteSets

CONSTANTS
  ExecSessions, \* pipes of type agent_exec
  LogSessions,  \* pipes of type agent_log
  MaxRetries,   \* doWithBackOff gives up when retryCount exceeds it (5)
  MaxDials,     \* HandleDownloadLog gives up when dialCount exceeds it (20)
  MaxLines,     \* bound: lines a log stream yields
  MaxVanished   \* bound: chunks a terminal writes into the buffer of a dead link

Sessions == ExecSessions \cup LogSessions

ASSUME PipeAssumption ==
  /\ ExecSessions \cap LogSessions = {}
  /\ MaxRetries \in Nat
  /\ MaxDials \in Nat
  /\ MaxLines \in Nat
  /\ MaxVanished \in Nat

FirstInterval == 1  \* 500 ms
IntervalTime == 6   \* 3 s
CloseWaitTime == 10 \* 5 s
Never == 99         \* the producer is not waiting

VARIABLES
  handler,    \* the worker goroutine that runs the command
  conn,       \* the goroutine of PipeConnection
  retries,    \* its retryCount
  pipe,       \* closed, wg, and whether onClose is set
  shell,      \* exec: readers left by earlier attempts; ghosts: chunks lost, and
              \* those of them that vanished in the buffer of a dead link
  copier,     \* log: lines read, queued in msgChan, joined in message (0 or 1: none or
              \* some); the timers
  registered, \* appClient.pipeConns
  background, \* the goroutines counted by backgroundWait
  app,        \* running, waiting in stop() with quit closed, stopped
  download,   \* HandleDownloadLog: idle, or dialling with this count
  crashed     \* a goroutine has panicked

vars == <<handler, conn, retries, pipe, shell, copier, registered, background,
          app, download, crashed>>

HandlerStates == {"idle", "piped", "streaming", "ended"}
ConnStates == {"none", "start", "dial", "dialled", "copy", "backoff", "close", "done"}

NewCopier == [lines |-> 0, queued |-> 0, message |-> 0, timer |-> FirstInterval,
              wait |-> Never, looping |-> FALSE, reader |-> "open"]

Init ==
  /\ handler = [s \in Sessions |-> "idle"]
  /\ conn = [s \in Sessions |-> "none"]
  /\ retries = [s \in Sessions |-> 0]
  /\ pipe = [s \in Sessions |-> [closed |-> FALSE, wg |-> 0, onClose |-> FALSE]]
  /\ shell = [s \in ExecSessions |-> [stale |-> 0, lost |-> 0, vanished |-> 0]]
  /\ copier = [s \in LogSessions |-> NewCopier]
  /\ registered = {}
  /\ background = {}
  /\ app = "running"
  /\ download = [state |-> "idle", dials |-> 0]
  /\ crashed = FALSE

Quit == app # "running"

Goes(s, pc) == conn' = [conn EXCEPT ![s] = pc]

-----------------------------------------------------------------------------
\* The commands.

\* The pipe is made and its connection goroutine started.  For a log, OnClose
\* is set only afterwards; if the stream cannot be opened there is no pipe.
Command(s) ==
  /\ handler[s] = "idle"
  /\ \/ /\ handler' = [handler EXCEPT ![s] = IF s \in LogSessions THEN "piped" ELSE "streaming"]
        /\ Goes(s, "start")
     \/ /\ s \in LogSessions
        /\ handler' = [handler EXCEPT ![s] = "ended"]
        /\ UNCHANGED conn
  /\ UNCHANGED <<retries, pipe, shell, copier, registered, background, app, download, crashed>>

SetsOnClose(s) ==
  /\ handler[s] = "piped"
  /\ handler' = [handler EXCEPT ![s] = "ended"]
  /\ pipe' = [pipe EXCEPT ![s].onClose = TRUE]
  /\ UNCHANGED <<conn, retries, shell, copier, registered, background, app, download, crashed>>

\* The shell exits, no shell starts, or the pipe is closed under it.  Nobody
\* closes the pipe for that, and the command is not answered.
ExecReturns(s) ==
  /\ handler[s] = "streaming"
  /\ handler' = [handler EXCEPT ![s] = "ended"]
  /\ UNCHANGED <<conn, retries, pipe, shell, copier, registered, background, app, download, crashed>>

-----------------------------------------------------------------------------
\* doWithBackOff around pipeConnection.

\* Slip: the goroutine is retained although quit is closed.
Retains_Always(s) ==
  /\ conn[s] = "start"
  /\ Goes(s, "dial")
  /\ background' = background \cup {s}
  /\ UNCHANGED <<handler, retries, pipe, shell, copier, registered, app, download, crashed>>

\* retainGoroutine: the test of quit and the Add are one step, under the mutex.
Retains(s) ==
  /\ conn[s] = "start"
  /\ Goes(s, IF Quit THEN "done" ELSE "dial")
  /\ background' = IF Quit THEN background ELSE background \cup {s}
  /\ UNCHANGED <<handler, retries, pipe, shell, copier, registered, app, download, crashed>>

\* The deferred closePipeConn and releaseGoroutine.
Leaves(s) ==
  /\ Goes(s, "done")
  /\ background' = background \ {s}
  /\ registered' = registered \ {s}

\* The service answers 404 and the pipe is closed, the dial fails, or it succeeds.
Dials(s) ==
  /\ conn[s] = "dial"
  /\ \E pc \in {"close", "backoff", "dialled"} :
       /\ Goes(s, pc)
       /\ pipe' = [pipe EXCEPT ![s].closed = @ \/ pc = "close"]
  /\ UNCHANGED <<handler, retries, shell, copier, registered, background, app, download, crashed>>

\* registerPipeConn, then the entry of the copy.
Registers(s) ==
  /\ conn[s] = "dialled"
  /\ \/ /\ Quit
        /\ Leaves(s)
        /\ UNCHANGED pipe
     \/ /\ ~Quit
        /\ Goes(s, "copy")
        /\ registered' = registered \cup {s}
        /\ pipe' = [pipe EXCEPT ![s].wg = @ + 1]
        /\ UNCHANGED background
  /\ UNCHANGED <<handler, retries, shell, copier, app, download, crashed>>

\* Slip: the number of retries is not limited.
BacksOff_NoLimit(s) ==
  /\ conn[s] = "backoff"
  /\ \/ Quit /\ Leaves(s) /\ UNCHANGED retries
     \/ /\ retries' = [retries EXCEPT ![s] = @ + 1]
        /\ Goes(s, "dial")
        /\ UNCHANGED <<registered, background>>
  /\ UNCHANGED <<handler, pipe, shell, copier, app, download, crashed>>

\* The delay is over or quit is closed; both may be ready.  Giving up leaves the
\* pipe, and with it a log stream, open.
BacksOff(s) ==
  /\ conn[s] = "backoff"
  /\ \/ Quit /\ Leaves(s) /\ UNCHANGED retries
     \/ /\ retries' = [retries EXCEPT ![s] = @ + 1]
        /\ \/ retries[s] + 1 > MaxRetries /\ Leaves(s)
           \/ retries[s] + 1 <= MaxRetries /\ Goes(s, "dial") /\ UNCHANGED <<registered, background>>
  /\ UNCHANGED <<handler, pipe, shell, copier, app, download, crashed>>

\* pipe.Close after it has closed quit and the ends: wait for wg, then onClose.
Closes(s) ==
  /\ conn[s] = "close"
  /\ pipe[s].wg = 0
  /\ Leaves(s)
  /\ copier' = [l \in LogSessions |->
                  IF l = s /\ pipe[s].onClose THEN [copier[l] EXCEPT !.reader = "closed"]
                  ELSE copier[l]]
  /\ UNCHANGED <<handler, retries, pipe, shell, app, download, crashed>>

\* What pipeConnection does with the result of a copy: an expected error closes
\* the pipe, any other is an error of the attempt.
AfterCopy(s, expected) ==
  /\ Goes(s, IF expected THEN "close" ELSE "backoff")
  /\ registered' = IF expected THEN registered ELSE registered \ {s}

-----------------------------------------------------------------------------
\* CopyToWebsocketForExec.

\* Slip: as in the log copier, wg is not decremented.
ExecCopyEnds_NoDone(s) ==
  /\ s \in ExecSessions
  /\ conn[s] = "copy"
  /\ \E expected \in BOOLEAN : AfterCopy(s, expected) /\ pipe' = [pipe EXCEPT ![s].closed = @ \/ expected]
  /\ UNCHANGED <<handler, retries, shell, copier, background, app, download, crashed>>

\* Reading from the websocket fails: the peer closed it or it broke.  After an
\* unexpected error the goroutine in end.Read stays behind.
ExecCopyEnds(s) ==
  /\ s \in ExecSessions
  /\ conn[s] = "copy"
  /\ \E expected \in BOOLEAN :
       /\ AfterCopy(s, expected)
       /\ pipe' = [pipe EXCEPT ![s].wg = @ - 1, ![s].closed = @ \/ expected]
       /\ shell' = [shell EXCEPT ![s].stale = IF expected THEN 0 ELSE @ + 1]
  /\ UNCHANGED <<handler, retries, copier, background, app, download, crashed>>

\* Slip: a reader whose websocket is closed goes on reading.
StaleReads_Again(s) ==
  /\ handler[s] = "streaming"
  /\ shell[s].stale > 0
  /\ shell[s].lost <= MaxRetries + 1 + MaxVanished
  /\ shell' = [shell EXCEPT ![s].lost = @ + 1]
  /\ UNCHANGED <<handler, conn, retries, pipe, copier, registered, background, app, download, crashed>>

\* The shell prints and a reader of an earlier attempt gets the chunk: its
\* websocket is closed, so the write fails and the reader ends.
StaleReads(s) ==
  /\ handler[s] = "streaming"
  /\ shell[s].stale > 0
  /\ shell' = [shell EXCEPT ![s].stale = @ - 1, ![s].lost = @ + 1]
  /\ UNCHANGED <<handler, conn, retries, pipe, copier, registered, background, app, download, crashed>>

\* The current reader gets a chunk and fails to write it.
ExecWriteFails(s) ==
  /\ s \in ExecSessions
  /\ handler[s] = "streaming"
  /\ conn[s] = "copy"
  /\ AfterCopy(s, FALSE)
  /\ pipe' = [pipe EXCEPT ![s].wg = @ - 1]
  /\ shell' = [shell EXCEPT ![s].lost = @ + 1]
  /\ UNCHANGED <<handler, retries, copier, background, app, download, crashed>>

\* The link is dead and nobody knows: the write returns nil, the chunk is in the
\* buffer of the socket, and the reader goes on.
ExecWriteVanishes(s) ==
  /\ s \in ExecSessions
  /\ handler[s] = "streaming"
  /\ conn[s] = "copy"
  /\ shell[s].vanished < MaxVanished
  /\ shell' = [shell EXCEPT ![s].lost = @ + 1, ![s].vanished = @ + 1]
  /\ UNCHANGED <<handler, conn, retries, pipe, copier, registered, background, app, download, crashed>>

-----------------------------------------------------------------------------
\* CopyToWebsocketForLog: the producer reads lines into msgChan, trafficAntiShake
\* joins them and writes when its timer fires.

Copying(s) == s \in LogSessions /\ conn[s] = "copy"

LineRead(s) ==
  /\ Copying(s)
  /\ copier[s].reader = "open"
  /\ copier[s].lines < MaxLines
  /\ copier' = [copier EXCEPT ![s].lines = @ + 1, ![s].queued = @ + 1]
  /\ UNCHANGED <<handler, conn, retries, pipe, shell, registered, background, app, download, crashed>>

\* Slip: the error is reported at once.
ReadFails_NoWait(s) ==
  /\ Copying(s)
  /\ copier[s].wait = Never
  /\ copier' = [copier EXCEPT ![s].wait = 0, ![s].reader = IF @ = "open" THEN "eof" ELSE @]
  /\ UNCHANGED <<handler, conn, retries, pipe, shell, registered, background, app, download, crashed>>

\* The stream ends, or was closed by an earlier attempt: the producer waits for
\* the writer before it reports the error.
ReadFails(s) ==
  /\ Copying(s)
  /\ copier[s].wait = Never
  /\ copier' = [copier EXCEPT ![s].wait = CloseWaitTime,
                              ![s].reader = IF @ = "open" THEN "eof" ELSE @]
  /\ UNCHANGED <<handler, conn, retries, pipe, shell, registered, background, app, download, crashed>>

\* The first receive is outside the loop of trafficAntiShake.
TakesMessage(s) ==
  /\ Copying(s)
  /\ copier[s].queued > 0
  /\ copier' = [copier EXCEPT ![s].queued = @ - 1, ![s].message = 1, ![s].looping = TRUE]
  /\ UNCHANGED <<handler, conn, retries, pipe, shell, registered, background, app, download, crashed>>

\* The message, if there is one, is written.
TimerFires(s) ==
  /\ Copying(s)
  /\ copier[s].looping
  /\ copier[s].timer = 0
  /\ copier' = [copier EXCEPT ![s].message = 0, ![s].timer = IntervalTime]
  /\ UNCHANGED <<handler, conn, retries, pipe, shell, registered, background, app, download, crashed>>

Urgent(s) ==
  /\ Copying(s)
  /\ \/ copier[s].queued > 0
     \/ copier[s].looping /\ copier[s].timer = 0
     \/ copier[s].wait = 0

Later(t) == IF t \in {0, Never} THEN t ELSE t - 1

Tick ==
  /\ \E s \in LogSessions : Copying(s)
  /\ \A s \in LogSessions : ~Urgent(s)
  /\ copier' = [s \in LogSessions |->
                  [copier[s] EXCEPT !.timer = Later(@), !.wait = Later(@)]]
  /\ UNCHANGED <<handler, conn, retries, pipe, shell, registered, background, app, download, crashed>>

\* The deferred function closes the websocket and calls onClose without testing
\* it; wg is not decremented.  The next attempt has timers and buffers of its own,
\* but reads the same closed stream.
LogCopyEnds(s, expected) ==
  /\ AfterCopy(s, expected)
  /\ pipe' = [pipe EXCEPT ![s].closed = @ \/ expected]
  /\ copier' = [copier EXCEPT ![s] = [NewCopier EXCEPT !.reader = "closed"]]
  /\ crashed' = ~pipe[s].onClose
  /\ UNCHANGED <<handler, retries, shell, background, app, download>>

\* End of file is an expected error, reading a closed stream is not.
WaitOver(s) ==
  /\ Copying(s)
  /\ copier[s].wait = 0
  /\ LogCopyEnds(s, copier[s].reader = "eof")

\* The websocket is closed by the peer or breaks.
LogConnEnds(s) ==
  /\ Copying(s)
  /\ \E expected \in BOOLEAN : LogCopyEnds(s, expected)

-----------------------------------------------------------------------------
\* HandleDownloadLog, in the goroutine of its command (one at a time here): dials
\* again at once, and after the last failure prints an error that is nil.

Downloads ==
  /\ download.state = "idle"
  /\ download' = [download EXCEPT !.state = "dialling"]
  /\ UNCHANGED <<handler, conn, retries, pipe, shell, copier, registered, background, app, crashed>>

DownloadDials ==
  /\ download.state = "dialling"
  /\ download.dials <= MaxDials
  /\ \/ download' = [download EXCEPT !.dials = @ + 1]
     \/ download' = [state |-> "idle", dials |-> 0]
  /\ UNCHANGED <<handler, conn, retries, pipe, shell, copier, registered, background, app, crashed>>

DownloadGivesUp ==
  /\ download.state = "dialling"
  /\ download.dials > MaxDials
  /\ crashed' = TRUE
  /\ UNCHANGED <<handler, conn, retries, pipe, shell, copier, registered, background, app, download>>

-----------------------------------------------------------------------------
\* appClient.stop.

Stops ==
  /\ app = "running"
  /\ app' = "waiting"
  /\ UNCHANGED <<handler, conn, retries, pipe, shell, copier, registered, background, download, crashed>>

StopReturns ==
  /\ app = "waiting"
  /\ background = {}
  /\ app' = "stopped"
  /\ UNCHANGED <<handler, conn, retries, pipe, shell, copier, registered, background, download, crashed>>

-----------------------------------------------------------------------------

Goroutine(s) ==
  Retains(s) \/ Dials(s) \/ Registers(s) \/ BacksOff(s) \/ Closes(s)

LogGoroutines(s) ==
  SetsOnClose(s) \/ TakesMessage(s) \/ TimerFires(s) \/ WaitOver(s)

Next ==
  /\ ~crashed
  /\ \/ \E s \in Sessions : Command(s) \/ Goroutine(s)
     \/ \E s \in ExecSessions : ExecReturns(s) \/ ExecCopyEnds(s) \/ StaleReads(s) \/ ExecWriteFails(s)
                               \/ ExecWriteVanishes(s)
     \/ \E s \in LogSessions : LogGoroutines(s) \/ LineRead(s) \/ ReadFails(s) \/ LogConnEnds(s)
     \/ Tick
     \/ Downloads \/ DownloadDials \/ DownloadGivesUp
     \/ Stops \/ StopReturns

Spec == Init /\ [][Next]_vars

\* The goroutines run, and time passes.
FairSpec ==
  /\ Spec
  /\ \A s \in Sessions : WF_vars(~crashed /\ Goroutine(s))
  /\ \A s \in LogSessions : WF_vars(~crashed /\ LogGoroutines(s))
  /\ WF_vars(~crashed /\ Tick)
  /\ WF_vars(~crashed /\ StopReturns)

\* In addition every user closes the terminal or the log in the end, in the way
\* that pipeConnection expects.
PeersLeave(s) ==
  /\ ~crashed
  /\ ExecCopyEnds(s) \/ LogConnEnds(s)
  /\ conn'[s] = "close"

PatientSpec == FairSpec /\ \A s \in Sessions : WF_vars(PeersLeave(s))

-----------------------------------------------------------------------------
\* Properties.

Pipes == [closed : BOOLEAN, wg : Nat, onClose : BOOLEAN]
Shells == [stale : Nat, lost : Nat, vanished : 0 .. MaxVanished]
Copiers == [lines : 0 .. MaxLines, queued : Nat, message : Nat, timer : 0 .. IntervalTime,
            wait : 0 .. CloseWaitTime \cup {Never}, looping : BOOLEAN,
            reader : {"open", "eof", "closed"}]
DownloadStates == [state : {"idle", "dialling"}, dials : 0 .. MaxDials + 1]

\* Every variable has its type; retryCount stays within the limit of doWithBackOff.
TypeOK ==
  /\ handler \in [Sessions -> HandlerStates]
  /\ conn \in [Sessions -> ConnStates]
  /\ retries \in [Sessions -> 0 .. MaxRetries + 1]
  /\ pipe \in [Sessions -> Pipes]
  /\ shell \in [ExecSessions -> Shells]
  /\ copier \in [LogSessions -> Copiers]
  /\ registered \subseteq Sessions
  /\ background \subseteq Sessions
  /\ app \in {"running", "waiting", "stopped"}
  /\ download \in DownloadStates
  /\ crashed \in BOOLEAN

\* When stop() has returned, no goroutine of a session dials, copies or waits to
\* dial again, none will, and no websocket of a session is registered.
StopIsQuiet ==
  app = "stopped" =>
    /\ \A s \in Sessions : conn[s] \in {"none", "start", "done"}
    /\ registered = {}

\* Besides what vanishes in the buffer of a dead link (WriteMessage returns nil for
\* it, and there may be any number of such chunks), a terminal loses at most one chunk
\* of output per failed attempt, although CopyToWebsocketForExec leaves a reader behind
\* that competes with the next one: the chunk this reader swallows, or the one whose
\* write returned the error.
LossPerAttempt ==
  \A s \in ExecSessions : shell[s].lost <= retries[s] + 1 + shell[s].vanished

\* When a log stream has ended, everything read from it is written before the
\* copier reports the end: CloseWaitTime is long enough for IntervalTime.
LogFlushed ==
  \A s \in LogSessions :
    Copying(s) /\ copier[s].wait = 0 => copier[s].queued = 0 /\ copier[s].message = 0

\* Closing the pipe of a terminal comes to an end, and its goroutine with it.
TerminalCloses ==
  \A s \in ExecSessions : conn[s] = "close" ~> (conn[s] = "done" \/ crashed)

\* The shutdown completes once all users have left their sessions
\* (options/agent.go calls it graceful).
ShutdownCompletes ==
  app = "waiting" ~> (app = "stopped" \/ crashed)
=============================================================================
