------------------------------- MODULE Outbox -------------------------------
(***************************************************************************)
(* What the websocket client promises about the responses of the agent:    *)
(* they form one queue.  A response is accepted once, at the back, and it  *)
(* leaves once, from the front; nothing is dropped from the middle,        *)
(* duplicated or overtaken, however often the connection is replaced.      *)
(***************************************************************************)
EXTENDS Naturals, Sequences

CONSTANT Packets

VARIABLES
  accepted,   \* history: every response handed to the client, in order
  queue,      \* accepted and not yet disposed of
  out         \* history: every response disposed of, in order

outboxVars == <<accepted, queue, out>>

OutboxInit ==
  /\ accepted = << >>
  /\ queue = << >>
  /\ out = << >>

\* A handler hands over p, at most once per packet.
Accept(p) ==
  /\ \A i \in 1 .. Len(accepted) : accepted[i] # p
  /\ accepted' = Append(accepted, p)
  /\ queue' = Append(queue, p)
  /\ UNCHANGED out

\* The oldest response is written to a connection, or discarded for its size.
Dispose ==
  /\ queue # << >>
  /\ out' = Append(out, Head(queue))
  /\ queue' = Tail(queue)
  /\ UNCHANGED accepted

OutboxNext == (\E p \in Packets : Accept(p)) \/ Dispose

OutboxSpec == OutboxInit /\ [][OutboxNext]_outboxVars
=============================================================================
