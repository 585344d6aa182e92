------------------------------- MODULE Uplink -------------------------------
(***************************************************************************)
(* The websocket client (pkg/websocket/client.go): responses are produced  *)
(* by many goroutines into CRChan.ResponseChan and written, one after the  *)
(* other, to whichever connection to the DevOps service exists at the      *)
(* time.  Loop starts one connect goroutine at a time, waits for its       *)
(* error, sleeps and starts the next; respQueue carries a response whose   *)
(* write failed over to the next connection.                               *)
(*                                                                         *)
(* The network is the environment: a dial may fail, an established link    *)
(* may die, and a write on a dead link may report an error or succeed into *)
(* a buffer nobody will read.  The gitops side of Loop's error branch      *)
(* (closing the stop channels) is in AgentLifecycle.                       *)
(***************************************************************************)
EXTENDS Naturals, Sequences, FiniteSets

CONSTANTS
  Packets,     \* the responses the agent will ever produce
  Oversized,   \* those not shorter than MaxWebsocketMessageLength
  ChanCap,     \* capacity of ResponseChan (1000 in options.Run)
  MaxFaults    \* bound: dial failures plus links that die

ASSUME UplinkAssumption ==
  /\ Oversized \subseteq Packets
  /\ ChanCap \in Nat \ {0}
  /\ MaxFaults \in Nat

VARIABLES
  accepted,      \* history: everything sent to ResponseChan, in order
  responseChan,  \* CRChan.ResponseChan
  respQueue,     \* appClient.respQueue
  loop,          \* Loop: waiting for errCh, in its back-off sleep, or returned
  pc,            \* the connect goroutine
  end,           \* its local index into respQueue while it flushes
  current,       \* << >> or the response received in its select
  link,          \* the TCP connection behind appClient.conn
  reconnectFlag, \* model.ReconnectFlag
  dials,         \* number of the current connection
  resynced,      \* history: the connections that queued a re_sync command
  faults,        \* dial failures plus dead links so far
  out            \* history: responses disposed of (written or discarded), in order

vars == <<accepted, responseChan, respQueue, loop, pc, end, current, link,
          reconnectFlag, dials, resynced, faults, out>>

LoopStates == {"wait", "sleep", "stopped"}
ConnectStates == {"none", "dial", "announce", "flush", "serve", "failed"}

Init ==
  /\ accepted = << >>
  /\ responseChan = << >>
  /\ respQueue = << >>
  /\ loop = "wait"
  /\ pc = "dial"
  /\ end = 0
  /\ current = << >>
  /\ link = "none"
  /\ reconnectFlag = FALSE
  /\ dials = 0
  /\ resynced = {}
  /\ faults = 0
  /\ out = << >>

-----------------------------------------------------------------------------
\* The environment.

\* The peer or the network goes away; the agent does not know yet.
LinkDies ==
  /\ link = "up"
  /\ faults < MaxFaults
  /\ link' = "dead"
  /\ faults' = faults + 1
  /\ UNCHANGED <<accepted, responseChan, respQueue, loop, pc, end, current,
                 reconnectFlag, dials, resynced, out>>

\* Slip: a select with a default branch, the capacity is not respected.
Produce_Unbounded(p) ==
  /\ \A i \in 1 .. Len(accepted) : accepted[i] # p
  /\ accepted' = Append(accepted, p)
  /\ responseChan' = Append(responseChan, p)
  /\ UNCHANGED <<respQueue, loop, pc, end, current, link, reconnectFlag,
                 dials, resynced, faults, out>>

\* A goroutine of the worker, of a controller or of gitops sends a response;
\* it blocks while the channel is full.
Produce(p) ==
  /\ \A i \in 1 .. Len(accepted) : accepted[i] # p
  /\ Len(responseChan) < ChanCap
  /\ accepted' = Append(accepted, p)
  /\ responseChan' = Append(responseChan, p)
  /\ UNCHANGED <<respQueue, loop, pc, end, current, link, reconnectFlag,
                 dials, resynced, faults, out>>

-----------------------------------------------------------------------------
\* sendResponse, as a pair of outcomes.

\* It returns nil: too long and discarded, or written, be it into the buffer
\* of a dead link.
SendReturnsNil(p) == out' = Append(out, p)

SendReturnsErr(p) ==
  /\ p \notin Oversized
  /\ link = "dead"
  /\ UNCHANGED out

-----------------------------------------------------------------------------
\* connect.

\* Slip: the error of a failed dial never reaches errCh.
DialFails_Silent ==
  /\ pc = "dial"
  /\ faults < MaxFaults
  /\ faults' = faults + 1
  /\ pc' = "none"
  /\ UNCHANGED <<accepted, responseChan, respQueue, loop, end, current, link,
                 reconnectFlag, dials, resynced, out>>

DialFails ==
  /\ pc = "dial"
  /\ faults < MaxFaults
  /\ faults' = faults + 1
  /\ pc' = "failed"
  /\ UNCHANGED <<accepted, responseChan, respQueue, loop, end, current, link,
                 reconnectFlag, dials, resynced, out>>

DialSucceeds ==
  /\ pc = "dial"
  /\ link' = "up"
  /\ dials' = dials + 1
  /\ pc' = "announce"
  /\ UNCHANGED <<accepted, responseChan, respQueue, loop, end, current,
                 reconnectFlag, resynced, faults, out>>

\* After a failure the first thing queued is a re_sync command (the worker
\* always drains CommandChan).  Setting the read deadline, on a dead link
\* only, may return the connection's error.
Announce ==
  /\ pc = "announce"
  /\ resynced' = IF reconnectFlag THEN resynced \cup {dials} ELSE resynced
  /\ reconnectFlag' = FALSE
  /\ \/ pc' = "flush" /\ UNCHANGED link
     \/ link = "dead" /\ pc' = "failed" /\ link' = "none"
  /\ end' = 0
  /\ UNCHANGED <<accepted, responseChan, respQueue, loop, current, dials,
                 faults, out>>

\* One turn of the flush loop; on an error the unsent rest is kept.
FlushOne ==
  /\ pc = "flush" /\ end < Len(respQueue)
  /\ SendReturnsNil(respQueue[end + 1])
  /\ end' = end + 1
  /\ UNCHANGED <<accepted, responseChan, respQueue, loop, pc, current, link,
                 reconnectFlag, dials, resynced, faults>>

\* What "c.respQueue = c.respQueue[end:]" keeps: the entries not sent yet.
Unsent == SubSeq(respQueue, end + 1, Len(respQueue))

FlushFails ==
  /\ pc = "flush" /\ end < Len(respQueue)
  /\ SendReturnsErr(respQueue[end + 1])
  /\ respQueue' = Unsent
  /\ end' = 0
  /\ pc' = "failed"
  /\ link' = "none"
  /\ UNCHANGED <<accepted, responseChan, loop, current, reconnectFlag, dials,
                 resynced, faults>>

\* Slip: respQueue is not cut back after the flush.
FlushDone_KeepsQueue ==
  /\ pc = "flush" /\ end = Len(respQueue)
  /\ end' = 0
  /\ pc' = "serve"
  /\ UNCHANGED <<accepted, responseChan, respQueue, loop, current, link,
                 reconnectFlag, dials, resynced, faults, out>>

FlushDone ==
  /\ pc = "flush" /\ end = Len(respQueue)
  /\ respQueue' = Unsent
  /\ end' = 0
  /\ pc' = "serve"
  /\ UNCHANGED <<accepted, responseChan, loop, current, link, reconnectFlag,
                 dials, resynced, faults, out>>

\* The serving select: a response is received from the channel ...
Receive ==
  /\ pc = "serve" /\ current = << >> /\ responseChan # << >>
  /\ current' = <<Head(responseChan)>>
  /\ responseChan' = Tail(responseChan)
  /\ UNCHANGED <<accepted, respQueue, loop, pc, end, link, reconnectFlag,
                 dials, resynced, faults, out>>

\* ... and sent,
ServeOne ==
  /\ pc = "serve" /\ current # << >>
  /\ SendReturnsNil(Head(current))
  /\ current' = << >>
  /\ UNCHANGED <<accepted, responseChan, respQueue, loop, pc, end, link,
                 reconnectFlag, dials, resynced, faults>>

\* Slip: the response in hand is forgotten when its write fails.
ServeFails_Forgets ==
  /\ pc = "serve" /\ current # << >>
  /\ SendReturnsErr(Head(current))
  /\ current' = << >>
  /\ pc' = "failed"
  /\ link' = "none"
  /\ UNCHANGED <<accepted, responseChan, respQueue, loop, end, reconnectFlag,
                 dials, resynced, faults>>

\* ... or kept in respQueue for the next connection;
ServeFails ==
  /\ pc = "serve" /\ current # << >>
  /\ SendReturnsErr(Head(current))
  /\ respQueue' = Append(respQueue, Head(current))
  /\ current' = << >>
  /\ pc' = "failed"
  /\ link' = "none"
  /\ UNCHANGED <<accepted, responseChan, loop, end, reconnectFlag, dials,
                 resynced, faults>>

\* or the reader goroutine reports its error on wsErrorChan.
ReadFails ==
  /\ pc = "serve" /\ current = << >> /\ link = "dead"
  /\ pc' = "failed"
  /\ link' = "none"
  /\ UNCHANGED <<accepted, responseChan, respQueue, loop, end, current,
                 reconnectFlag, dials, resynced, faults, out>>

-----------------------------------------------------------------------------
\* Loop.

\* Slip: Loop does not remember that it is reconnecting.
LoopGetsError_NoFlag ==
  /\ loop = "wait" /\ pc = "failed"
  /\ loop' = "sleep"
  /\ pc' = "none"
  /\ UNCHANGED <<accepted, responseChan, respQueue, end, current, link,
                 reconnectFlag, dials, resynced, faults, out>>

\* "case err := <-errCh": connect has returned.
LoopGetsError ==
  /\ loop = "wait" /\ pc = "failed"
  /\ reconnectFlag' = TRUE
  /\ loop' = "sleep"
  /\ pc' = "none"
  /\ UNCHANGED <<accepted, responseChan, respQueue, end, current, link, dials,
                 resynced, faults, out>>

\* The back-off is over: a new connect goroutine.
LoopRetries ==
  /\ loop = "sleep"
  /\ loop' = "wait"
  /\ pc' = "dial"
  /\ UNCHANGED <<accepted, responseChan, respQueue, end, current, link,
                 reconnectFlag, dials, resynced, faults, out>>

\* "case <-stop": Loop returns; a connect goroutine that is running goes on.
LoopStops ==
  /\ loop = "wait"
  /\ loop' = "stopped"
  /\ UNCHANGED <<accepted, responseChan, respQueue, pc, end, current, link,
                 reconnectFlag, dials, resynced, faults, out>>

-----------------------------------------------------------------------------
Connect ==
  \/ DialFails \/ DialSucceeds \/ Announce
  \/ FlushOne \/ FlushFails \/ FlushDone
  \/ Receive \/ ServeOne \/ ServeFails \/ ReadFails

Next ==
  \/ \E p \in Packets : Produce(p)
  \/ LinkDies
  \/ Connect
  \/ LoopGetsError \/ LoopRetries \/ LoopStops

Spec == Init /\ [][Next]_vars

\* The connect goroutine and Loop are scheduled.  Faults are the
\* environment's and bounded by MaxFaults: afterwards a dial succeeds and the
\* link stays up.
Fairness ==
  /\ WF_vars(Connect)
  /\ WF_vars(LoopGetsError)
  /\ WF_vars(LoopRetries)

FairSpec == Spec /\ Fairness

-----------------------------------------------------------------------------
TypeOK ==
  /\ accepted \in Seq(Packets)
  /\ responseChan \in Seq(Packets) /\ Len(responseChan) <= ChanCap
  /\ respQueue \in Seq(Packets)
  /\ loop \in LoopStates
  /\ pc \in ConnectStates
  /\ end \in 0 .. Len(respQueue)
  /\ current \in Seq(Packets) /\ Len(current) <= 1
  /\ link \in {"none", "up", "dead"}
  /\ reconnectFlag \in BOOLEAN
  /\ dials \in Nat
  /\ resynced \in SUBSET Nat
  /\ faults \in 0 .. MaxFaults
  /\ out \in Seq(Packets)

\* Everything the client still owes, oldest first.
Undelivered == Unsent \o current \o responseChan

\* No response is lost inside the agent, sent twice or overtaken, across any
\* number of reconnections: what was accepted is what was disposed of
\* followed by what is still held.
FifoDelivery == accepted = out \o Undelivered

\* A retained response goes out before anything newer: connect receives from
\* ResponseChan only with an empty respQueue, so respQueue never holds more
\* than the one response whose write failed.
OneRetained ==
  /\ Len(respQueue) <= 1
  /\ pc = "serve" => respQueue = << >>
  /\ current # << >> => pc = "serve"

\* After a failure, no response goes out on a new connection before that
\* connection has queued the re_sync command that refreshes the service.
ResyncBeforeResponses ==
  pc \in {"flush", "serve"} /\ dials > 1 => dials \in resynced

\* Every response that was accepted is eventually disposed of, unless the
\* agent is shutting down.
EventuallyDisposed ==
  \A p \in Packets :
    (\E i \in 1 .. Len(accepted) : accepted[i] = p)
      ~> (loop = "stopped" \/ \E i \in 1 .. Len(out) : out[i] = p)

\* The client implements the abstract outbox.
OutboxRef == INSTANCE Outbox WITH queue <- Undelivered
ImplementsOutbox == OutboxRef!OutboxSpec
=============================================================================
