---------------------------- MODULE UplinkProofs ----------------------------
(***************************************************************************)
(* Proofs about Uplink, for every set of responses, channel capacity and   *)
(* number of faults: the invariants its runs check, and that it implements *)
(* the abstract Outbox step by step.                                       *)
(***************************************************************************)
EXTENDS Uplink, SequenceTheorems, TLAPS

-----------------------------------------------------------------------------
\* Facts about sequences.

\* Appending to a concatenation is appending to its second part.
LEMMA AppendConcat ==
  ASSUME NEW s \in Seq(Packets), NEW t \in Seq(Packets), NEW e \in Packets
  PROVE  Append(s \o t, e) = s \o Append(t, e)
<1>1. <<e>> \in Seq(Packets)
  OBVIOUS
<1>2. s \o t \in Seq(Packets)
  BY ConcatProperties
<1>3. Append(s \o t, e) = (s \o t) \o <<e>>
  BY <1>2, AppendIsConcat
<1>4. Append(t, e) = t \o <<e>>
  BY AppendIsConcat
<1>5. QED
  BY <1>1, <1>3, <1>4, ConcatAssociative

\* The head of a concatenation is taken from its first part.
LEMMA HeadTailConcat ==
  ASSUME NEW S, NEW s \in Seq(S), NEW t \in Seq(S), s # << >>
  PROVE  /\ s \o t # << >>
         /\ Head(s \o t) = Head(s)
         /\ Tail(s \o t) = Tail(s) \o t
<1>1. /\ Head(s) \in S /\ Tail(s) \in Seq(S)
      /\ Len(s) \in Nat \ {0}
      /\ Len(Tail(s)) = Len(s) - 1
      /\ \A i \in 1 .. Len(Tail(s)) : Tail(s)[i] = s[i + 1]
  BY HeadTailProperties, EmptySeq
<1>2. /\ s \o t \in Seq(S)
      /\ Len(s \o t) = Len(s) + Len(t)
      /\ \A i \in 1 .. Len(s) + Len(t) :
           (s \o t)[i] = IF i <= Len(s) THEN s[i] ELSE t[i - Len(s)]
  BY ConcatProperties
<1>3. Len(t) \in Nat
  BY LenProperties
<1>4. s \o t # << >>
  BY ConcatEqualIffEmpty
<1>5. /\ Tail(s \o t) \in Seq(S)
      /\ Len(Tail(s \o t)) = Len(s) + Len(t) - 1
      /\ \A i \in 1 .. Len(Tail(s \o t)) : Tail(s \o t)[i] = (s \o t)[i + 1]
  BY <1>2, <1>4, HeadTailProperties
<1>6. /\ Tail(s) \o t \in Seq(S)
      /\ Len(Tail(s) \o t) = Len(s) - 1 + Len(t)
      /\ \A i \in 1 .. Len(Tail(s)) + Len(t) :
           (Tail(s) \o t)[i] = IF i <= Len(Tail(s)) THEN Tail(s)[i]
                               ELSE t[i - Len(Tail(s))]
  BY <1>1, ConcatProperties
<1>7. ASSUME NEW i \in 1 .. Len(Tail(s \o t))
      PROVE  Tail(s \o t)[i] = (Tail(s) \o t)[i]
  BY <1>1, <1>2, <1>3, <1>5, <1>6
<1>8. Tail(s \o t) = Tail(s) \o t
  BY <1>1, <1>3, <1>5, <1>6, <1>7, SeqEqual
<1>9. Head(s \o t) = Head(s)
  BY <1>1, <1>2, <1>3, <1>4
<1>10. QED
  BY <1>4, <1>8, <1>9

\* A non-empty sequence is its head followed by its tail.
LEMMA HeadThenTail ==
  ASSUME NEW S, NEW s \in Seq(S), s # << >>
  PROVE  s = <<Head(s)>> \o Tail(s)
<1>1. /\ Head(s) \in S /\ Tail(s) \in Seq(S)
      /\ Len(s) \in Nat \ {0}
      /\ Len(Tail(s)) = Len(s) - 1
      /\ \A i \in 1 .. Len(Tail(s)) : Tail(s)[i] = s[i + 1]
  BY HeadTailProperties, EmptySeq
<1>2. /\ <<Head(s)>> \in Seq(S) /\ Len(<<Head(s)>>) = 1
      /\ <<Head(s)>>[1] = s[1]
  BY <1>1
<1>3. /\ <<Head(s)>> \o Tail(s) \in Seq(S)
      /\ Len(<<Head(s)>> \o Tail(s)) = Len(s)
      /\ \A i \in 1 .. Len(s) :
           (<<Head(s)>> \o Tail(s))[i] = IF i <= 1 THEN <<Head(s)>>[i]
                                         ELSE Tail(s)[i - 1]
  BY <1>1, <1>2, ConcatProperties
<1>4. ASSUME NEW i \in 1 .. Len(s)
      PROVE  s[i] = (<<Head(s)>> \o Tail(s))[i]
  BY <1>1, <1>2, <1>3
<1>5. QED
  BY <1>3, <1>4, SeqEqual

-----------------------------------------------------------------------------
\* Where the re_sync obligation is carried between two connections, and where
\* the local variables of connect are live.
ControlInv ==
  /\ loop = "sleep" => pc = "none" /\ reconnectFlag
  /\ pc = "none" => loop # "wait"
  /\ pc = "dial" /\ dials > 0 => reconnectFlag
  /\ pc = "announce" /\ dials > 1 => reconnectFlag
  /\ pc \in {"flush", "serve"} /\ dials > 1 => dials \in resynced
  /\ end # 0 => pc = "flush"

IInv == TypeOK /\ ControlInv /\ OneRetained

\* What the flush has not sent yet is a sequence of responses.
LEMMA UnsentIsSeq ==
  ASSUME TypeOK
  PROVE  Unsent \in Seq(Packets)
<1>1. \A i \in end + 1 .. Len(respQueue) : respQueue[i] \in Packets
  BY DEF TypeOK
<1>2. end + 1 \in Int /\ Len(respQueue) \in Int
  BY DEF TypeOK
<1>3. QED
  BY <1>1, <1>2, SubSeqProperties DEF Unsent

\* The strengthened invariant holds initially and is kept by every step.
LEMMA InitIInv == Init => IInv
<1> SUFFICES ASSUME Init PROVE IInv
  OBVIOUS
<1>1. << >> \in Seq(Packets) /\ Len(<< >>) = 0
  BY EmptySeq
<1>2. TypeOK
  <2>1. 0 <= ChanCap /\ 0 \in 0 .. MaxFaults /\ 0 \in 0 .. Len(<< >>)
    BY <1>1, UplinkAssumption DEF UplinkAssumption
  <2>2. /\ accepted \in Seq(Packets) /\ responseChan \in Seq(Packets)
        /\ respQueue \in Seq(Packets) /\ current \in Seq(Packets)
        /\ out \in Seq(Packets)
    BY <1>1 DEF Init
  <2>3. /\ Len(responseChan) = 0 /\ Len(current) = 0 /\ end \in 0 .. Len(respQueue)
    BY <1>1 DEF Init
  <2>4. /\ loop \in LoopStates /\ pc \in ConnectStates
        /\ link \in {"none", "up", "dead"} /\ reconnectFlag \in BOOLEAN
        /\ dials \in Nat /\ resynced \in SUBSET Nat /\ faults \in 0 .. MaxFaults
    BY <2>1 DEF Init, LoopStates, ConnectStates
  <2>5. QED
    BY <2>1, <2>2, <2>3, <2>4 DEF TypeOK
<1>3. ControlInv /\ OneRetained
  BY <1>1 DEF Init, ControlInv, OneRetained
<1>4. QED
  BY <1>2, <1>3 DEF IInv

\* Every step of producers, network, connect and Loop keeps the strengthened
\* invariant.
LEMMA NextIInv == IInv /\ [Next]_vars => IInv'
<1> SUFFICES ASSUME IInv, [Next]_vars PROVE IInv'
  OBVIOUS
<1>t. TypeOK /\ ControlInv /\ OneRetained
  BY DEF IInv
<1>e. << >> \in Seq(Packets) /\ Len(<< >>) = 0
  BY EmptySeq
<1> USE UplinkAssumption DEF UplinkAssumption, LoopStates, ConnectStates
<1>1. ASSUME NEW p \in Packets, Produce(p) PROVE IInv'
  <2>1. accepted' \in Seq(Packets) /\ responseChan' \in Seq(Packets)
        /\ Len(responseChan') = Len(responseChan) + 1
    BY <1>t, <1>1, AppendProperties DEF Produce, TypeOK
  <2>2. Len(responseChan) \in Nat
    BY <1>t, LenProperties DEF TypeOK
  <2>3. TypeOK'
    BY <1>t, <1>1, <2>1, <2>2 DEF Produce, TypeOK
  <2>4. ControlInv' /\ OneRetained'
    BY <1>t, <1>1 DEF Produce, ControlInv, OneRetained
  <2>5. QED
    BY <2>3, <2>4 DEF IInv
<1>2. CASE LinkDies
  BY <1>t, <1>2 DEF LinkDies, IInv, TypeOK, ControlInv, OneRetained
<1>3. CASE DialFails
  BY <1>t, <1>3 DEF DialFails, IInv, TypeOK, ControlInv, OneRetained
<1>4. CASE DialSucceeds
  BY <1>t, <1>4 DEF DialSucceeds, IInv, TypeOK, ControlInv, OneRetained
<1>5. CASE Announce
  BY <1>t, <1>5 DEF Announce, IInv, TypeOK, ControlInv, OneRetained
<1>6. CASE FlushOne
  <2>1. respQueue[end + 1] \in Packets
    BY <1>t, <1>6 DEF FlushOne, TypeOK
  <2>2. out' \in Seq(Packets)
    BY <1>t, <1>6, <2>1, AppendProperties DEF FlushOne, SendReturnsNil, TypeOK
  <2>3. QED
    BY <1>t, <1>6, <2>2 DEF FlushOne, IInv, TypeOK, ControlInv, OneRetained
<1>7. CASE FlushFails \/ FlushDone
  <2>1. Unsent \in Seq(Packets)
    BY <1>t, UnsentIsSeq
  <2>2. Len(Unsent) <= Len(respQueue) /\ (FlushDone => Unsent = << >>)
    <3>1. end \in Nat /\ Len(respQueue) \in Nat
      BY <1>t DEF TypeOK
    <3>2. Len(Unsent) = IF end + 1 <= Len(respQueue)
                        THEN Len(respQueue) - (end + 1) + 1 ELSE 0
      BY <1>t, <3>1, SubSeqProperties DEF Unsent, TypeOK
    <3>3. FlushDone => Unsent = << >>
      BY <3>1, SubSeqEmpty DEF FlushDone, Unsent
    <3>4. QED
      BY <3>1, <3>2, <3>3
  <2>3. respQueue' = Unsent /\ end' = 0 /\ UNCHANGED out
    BY <1>7 DEF FlushFails, FlushDone, SendReturnsErr
  <2>4. TypeOK'
    <3>1. 0 \in 0 .. Len(Unsent)
      BY <2>1, LenProperties
    <3>2. QED
      BY <1>t, <1>7, <2>1, <2>3, <3>1 DEF FlushFails, FlushDone, TypeOK
  <2>5. ControlInv'
    BY <1>t, <1>7 DEF FlushFails, FlushDone, ControlInv
  <2>6. OneRetained'
    <3>1. Len(Unsent) \in Nat /\ Len(respQueue) \in Nat
      BY <1>t, <2>1 DEF TypeOK
    <3>2. QED
      BY <1>t, <1>7, <2>2, <2>3, <3>1 DEF FlushFails, FlushDone, OneRetained
  <2>7. QED
    BY <2>4, <2>5, <2>6 DEF IInv
<1>8. CASE Receive
  <2>1. Head(responseChan) \in Packets /\ Tail(responseChan) \in Seq(Packets)
        /\ Len(Tail(responseChan)) = Len(responseChan) - 1
    BY <1>t, <1>8, HeadTailProperties DEF Receive, TypeOK
  <2>2. current' \in Seq(Packets) /\ Len(current') = 1
    BY <1>8, <2>1 DEF Receive
  <2>3. Len(responseChan) \in Nat
    BY <1>t, LenProperties DEF TypeOK
  <2>4. TypeOK'
    BY <1>t, <1>8, <2>1, <2>2, <2>3 DEF Receive, TypeOK
  <2>5. ControlInv' /\ OneRetained'
    BY <1>t, <1>8 DEF Receive, ControlInv, OneRetained
  <2>6. QED
    BY <2>4, <2>5 DEF IInv
<1>9. CASE ServeOne
  <2>1. Head(current) \in Packets
    BY <1>t, <1>9, HeadTailProperties DEF ServeOne, TypeOK
  <2>2. out' \in Seq(Packets)
    BY <1>t, <1>9, <2>1, AppendProperties DEF ServeOne, SendReturnsNil, TypeOK
  <2>3. TypeOK'
    BY <1>t, <1>e, <1>9, <2>2 DEF ServeOne, TypeOK
  <2>4. ControlInv' /\ OneRetained'
    BY <1>t, <1>9 DEF ServeOne, ControlInv, OneRetained
  <2>5. QED
    BY <2>3, <2>4 DEF IInv
<1>10. CASE ServeFails
  <2>1. Head(current) \in Packets /\ respQueue = << >>
    BY <1>t, <1>10, HeadTailProperties DEF ServeFails, TypeOK, OneRetained
  <2>2. respQueue' \in Seq(Packets) /\ Len(respQueue') = 1
    BY <1>t, <1>e, <1>10, <2>1, AppendProperties DEF ServeFails, TypeOK
  <2>3. TypeOK'
    BY <1>t, <1>e, <1>10, <2>1, <2>2 DEF ServeFails, SendReturnsErr, TypeOK
  <2>4. ControlInv'
    BY <1>t, <1>10 DEF ServeFails, ControlInv
  <2>5. OneRetained'
    BY <1>t, <1>10, <2>2 DEF ServeFails, OneRetained
  <2>6. QED
    BY <2>3, <2>4, <2>5 DEF IInv
<1>11. CASE ReadFails
  BY <1>t, <1>11 DEF ReadFails, IInv, TypeOK, ControlInv, OneRetained
<1>12. CASE LoopGetsError
  BY <1>t, <1>12 DEF LoopGetsError, IInv, TypeOK, ControlInv, OneRetained
<1>13. CASE LoopRetries
  BY <1>t, <1>13 DEF LoopRetries, IInv, TypeOK, ControlInv, OneRetained
<1>14. CASE LoopStops
  BY <1>t, <1>14 DEF LoopStops, IInv, TypeOK, ControlInv, OneRetained
<1>15. CASE UNCHANGED vars
  BY <1>t, <1>15 DEF vars, IInv, TypeOK, ControlInv, OneRetained
<1>16. QED
  BY <1>1, <1>2, <1>3, <1>4, <1>5, <1>6, <1>7, <1>8, <1>9, <1>10, <1>11,
     <1>12, <1>13, <1>14, <1>15 DEF Next, Connect

\* The strengthened invariant holds in every reachable state of the client.
THEOREM SpecIInv == Spec => []IInv
  BY InitIInv, NextIInv, PTL DEF Spec

\* The state of connect, Loop and the queues is always well typed; ResponseChan
\* never holds more than its capacity, whatever the producers do.
THEOREM SpecTypeOK == Spec => []TypeOK
<1>1. IInv => TypeOK
  BY DEF IInv
<1>2. QED
  BY <1>1, SpecIInv, PTL

\* connect keeps at most one response over to the next connection, and none
\* is in hand outside its serving select.
THEOREM SpecOneRetained == Spec => []OneRetained
<1>1. IInv => OneRetained
  BY DEF IInv
<1>2. QED
  BY <1>1, SpecIInv, PTL

\* No response goes out on a new connection before connect has queued the
\* re_sync command of the reconnection.
THEOREM SpecResyncBeforeResponses == Spec => []ResyncBeforeResponses
<1>1. IInv => ResyncBeforeResponses
  BY DEF IInv, ControlInv, ResyncBeforeResponses
<1>2. QED
  BY <1>1, SpecIInv, PTL

-----------------------------------------------------------------------------
\* The queue still owed is a sequence of responses.
LEMMA UndeliveredIsSeq ==
  ASSUME TypeOK
  PROVE  /\ Unsent \o current \in Seq(Packets)
         /\ Undelivered \in Seq(Packets)
<1>1. Unsent \in Seq(Packets)
  BY UnsentIsSeq
<1>2. current \in Seq(Packets) /\ responseChan \in Seq(Packets)
  BY DEF TypeOK
<1>3. Unsent \o current \in Seq(Packets)
  BY <1>1, <1>2, ConcatProperties
<1>4. QED
  BY <1>2, <1>3, ConcatProperties DEF Undelivered

\* Sending the first unsent entry, or the response in hand, disposes of the
\* head of the queue.
LEMMA SendIsDispose ==
  ASSUME TypeOK, OneRetained, FlushOne \/ ServeOne
  PROVE  OutboxRef!Dispose
<1> USE DEF OutboxRef!Dispose
<1>1. Unsent \in Seq(Packets) /\ current \in Seq(Packets)
      /\ responseChan \in Seq(Packets) /\ Unsent \o current \in Seq(Packets)
  BY UnsentIsSeq, UndeliveredIsSeq DEF TypeOK
<1>2. CASE FlushOne
  <2>1. end \in Nat /\ end + 1 \in 1 .. Len(respQueue)
        /\ Len(respQueue) \in end + 1 .. Len(respQueue)
    BY <1>2 DEF FlushOne, TypeOK
  <2>2. Head(Unsent) = respQueue[end + 1]
        /\ Tail(Unsent) = SubSeq(respQueue, end + 1 + 1, Len(respQueue))
    BY <2>1, HeadTailOfSubSeq DEF Unsent, TypeOK
  <2>3. Unsent # << >>
    <3>1. Len(Unsent) = Len(respQueue) - (end + 1) + 1
      BY <2>1, SubSeqProperties DEF Unsent, TypeOK
    <3>2. Len(Unsent) # 0
      BY <2>1, <3>1
    <3>3. QED
      BY <3>2, EmptySeq
  <2>4. Unsent' = Tail(Unsent)
    BY <1>2, <2>1, <2>2 DEF FlushOne, Unsent
  <2>5. /\ Unsent \o current # << >>
        /\ Head(Unsent \o current) = Head(Unsent)
        /\ Tail(Unsent \o current) = Tail(Unsent) \o current
    BY <1>1, <2>3, HeadTailConcat
  <2>6. /\ Undelivered # << >>
        /\ Head(Undelivered) = respQueue[end + 1]
        /\ Tail(Undelivered) = Tail(Unsent) \o current \o responseChan
    <3>1. /\ (Unsent \o current) \o responseChan # << >>
          /\ Head((Unsent \o current) \o responseChan) = Head(Unsent \o current)
          /\ Tail((Unsent \o current) \o responseChan)
               = Tail(Unsent \o current) \o responseChan
      BY <1>1, <2>5, HeadTailConcat
    <3>2. QED
      BY <2>2, <2>5, <3>1 DEF Undelivered
  <2>7. Undelivered' = Tail(Undelivered)
    BY <1>2, <2>4, <2>6 DEF FlushOne, Undelivered
  <2>8. QED
    BY <1>2, <2>6, <2>7 DEF FlushOne, SendReturnsNil
<1>3. CASE ServeOne
  <2>1. Unsent = << >> /\ Unsent' = << >>
    <3>1. respQueue = << >> /\ UNCHANGED <<respQueue, end>> /\ end \in Nat
      BY <1>3 DEF ServeOne, OneRetained, TypeOK
    <3>2. Len(respQueue) = 0
      BY <3>1, EmptySeq
    <3>3. QED
      BY <3>1, <3>2, SubSeqEmpty DEF Unsent
  <2>2. current # << >> /\ current' = << >> /\ Tail(current) = << >>
    <3>1. current # << >> /\ current' = << >>
      BY <1>3 DEF ServeOne
    <3>2. Tail(current) \in Seq(Packets) /\ Len(Tail(current)) = Len(current) - 1
      BY <1>1, <3>1, HeadTailProperties
    <3>3. Len(current) \in Nat \ {0} /\ Len(current) <= 1
      BY <1>1, <3>1, EmptySeq DEF TypeOK
    <3>4. QED
      BY <3>1, <3>2, <3>3, EmptySeq
  <2>3. Unsent \o current = current /\ Unsent' \o current' = << >>
    BY <1>1, <2>1, <2>2, ConcatEmptySeq
  <2>4. /\ Undelivered # << >>
        /\ Head(Undelivered) = Head(current)
        /\ Tail(Undelivered) = << >> \o responseChan
    <3>1. Undelivered = current \o responseChan
      BY <2>3 DEF Undelivered
    <3>2. /\ current \o responseChan # << >>
          /\ Head(current \o responseChan) = Head(current)
          /\ Tail(current \o responseChan) = Tail(current) \o responseChan
      BY <1>1, <2>2, HeadTailConcat
    <3>3. QED
      BY <2>2, <3>1, <3>2
  <2>5. Undelivered' = << >> \o responseChan
    BY <1>3, <2>3 DEF ServeOne, Undelivered
  <2>6. QED
    BY <1>3, <2>4, <2>5 DEF ServeOne, SendReturnsNil
<1>4. QED
  BY <1>2, <1>3

\* Every other step of the connect goroutine, of Loop and of the network
\* leaves the queue as it is: a response only changes the place it waits in.
LEMMA RetainIsStutter ==
  ASSUME TypeOK, OneRetained,
         \/ LinkDies \/ DialFails \/ DialSucceeds \/ Announce
         \/ FlushFails \/ FlushDone \/ Receive \/ ServeFails \/ ReadFails
         \/ LoopGetsError \/ LoopRetries \/ LoopStops \/ UNCHANGED vars,
         ControlInv
  PROVE  /\ UNCHANGED <<accepted, out>>
         /\ Undelivered' = Undelivered
<1>1. /\ Unsent \in Seq(Packets) /\ respQueue \in Seq(Packets)
      /\ current \in Seq(Packets) /\ responseChan \in Seq(Packets)
      /\ end \in Nat /\ Len(respQueue) \in Nat
  BY UnsentIsSeq DEF TypeOK
<1>2. UNCHANGED <<accepted, out>>
  BY DEF LinkDies, DialFails, DialSucceeds, Announce, FlushFails, FlushDone,
         Receive, ServeFails, ReadFails, LoopGetsError, LoopRetries, LoopStops,
         SendReturnsErr, vars
<1>3. CASE LinkDies \/ DialFails \/ DialSucceeds \/ ReadFails
           \/ LoopGetsError \/ LoopRetries \/ LoopStops \/ UNCHANGED vars
  <2>1. UNCHANGED <<respQueue, end, current, responseChan>>
    BY <1>3 DEF LinkDies, DialFails, DialSucceeds, ReadFails, LoopGetsError,
                LoopRetries, LoopStops, vars
  <2>2. QED
    BY <1>2, <2>1 DEF Undelivered, Unsent
<1>4. CASE Announce
  <2>1. UNCHANGED <<respQueue, end, current, responseChan>>
    BY <1>4 DEF Announce, ControlInv
  <2>2. QED
    BY <1>2, <2>1 DEF Undelivered, Unsent
<1>5. CASE FlushFails \/ FlushDone
  <2>1. respQueue' = Unsent /\ end' = 0 /\ UNCHANGED <<current, responseChan>>
    BY <1>5 DEF FlushFails, FlushDone
  <2>2. Unsent' = SubSeq(Unsent, 1, Len(Unsent))
    BY <2>1 DEF Unsent
  <2>3. Unsent' = Unsent
    BY <1>1, <2>2, SubSeqFull
  <2>4. QED
    BY <1>2, <2>1, <2>3 DEF Undelivered
<1>6. CASE Receive
  <2>1. Unsent' = Unsent /\ current = << >>
        /\ current' = <<Head(responseChan)>>
        /\ responseChan' = Tail(responseChan) /\ responseChan # << >>
    BY <1>6 DEF Receive, Unsent
  <2>2. Head(responseChan) \in Packets /\ Tail(responseChan) \in Seq(Packets)
    BY <1>1, <2>1, HeadTailProperties
  <2>3. <<Head(responseChan)>> \in Seq(Packets)
    BY <2>2
  <2>4. responseChan = <<Head(responseChan)>> \o Tail(responseChan)
    BY <1>1, <2>1, HeadThenTail
  <2>5. Undelivered' = Unsent \o (<<Head(responseChan)>> \o Tail(responseChan))
    BY <1>1, <2>1, <2>2, <2>3, ConcatAssociative DEF Undelivered
  <2>6. Undelivered = Unsent \o responseChan
    <3>1. Unsent \o current = Unsent
      BY <1>1, <2>1, ConcatEmptySeq
    <3>2. QED
      BY <3>1 DEF Undelivered
  <2>7. QED
    BY <1>2, <2>4, <2>5, <2>6
<1>7. CASE ServeFails
  <2>1. /\ respQueue = << >> /\ end = 0 /\ end' = 0 /\ current # << >>
        /\ respQueue' = Append(respQueue, Head(current))
        /\ current' = << >> /\ responseChan' = responseChan
    BY <1>7 DEF ServeFails, OneRetained, ControlInv
  <2>2. Head(current) \in Packets /\ Tail(current) \in Seq(Packets)
        /\ Len(Tail(current)) = Len(current) - 1
    BY <1>1, <2>1, HeadTailProperties
  <2>3. current = <<Head(current)>>
    <3>1. Len(current) \in Nat \ {0} /\ Len(current) <= 1
      BY <1>1, <2>1, EmptySeq DEF TypeOK
    <3>2. Tail(current) = << >>
      BY <2>2, <3>1, EmptySeq
    <3>3. current = <<Head(current)>> \o << >>
      BY <1>1, <2>1, <3>2, HeadThenTail
    <3>4. <<Head(current)>> \in Seq(Packets)
      BY <2>2
    <3>5. QED
      BY <3>3, <3>4, ConcatEmptySeq
  <2>4. respQueue' = current
    <3>1. << >> \in Seq(Packets) /\ <<Head(current)>> \in Seq(Packets)
      BY <2>2, EmptySeq
    <3>2. respQueue' = << >> \o <<Head(current)>>
      BY <2>1, <2>2, <3>1, AppendIsConcat
    <3>3. QED
      BY <2>3, <3>1, <3>2, ConcatEmptySeq
  <2>5. Unsent' = current
    BY <1>1, <2>1, <2>4, SubSeqFull DEF Unsent
  <2>6. Unsent = << >>
    <3>1. Len(respQueue) = 0
      BY <2>1, EmptySeq
    <3>2. QED
      BY <2>1, <3>1, SubSeqEmpty DEF Unsent
  <2>7. Unsent' \o current' = Unsent \o current
    BY <1>1, <2>1, <2>5, <2>6, ConcatEmptySeq
  <2>8. QED
    BY <1>2, <2>1, <2>7 DEF Undelivered
<1>8. QED
  BY <1>3, <1>4, <1>5, <1>6, <1>7

\* A response handed over joins the queue at the back.
LEMMA ProduceIsAccept ==
  ASSUME TypeOK, NEW p \in Packets, Produce(p)
  PROVE  OutboxRef!Accept(p)
<1>1. Unsent \o current \in Seq(Packets) /\ responseChan \in Seq(Packets)
  BY UndeliveredIsSeq DEF TypeOK
<1>2. Append((Unsent \o current) \o responseChan, p)
        = (Unsent \o current) \o Append(responseChan, p)
  BY <1>1, AppendConcat
<1>3. Undelivered' = Append(Undelivered, p)
  BY <1>2 DEF Produce, Undelivered, Unsent
<1>4. QED
  BY <1>3 DEF Produce, OutboxRef!Accept

\* Every step of the client is a step of the abstract outbox, or a stutter.
LEMMA StepImplementsOutbox ==
  IInv /\ [Next]_vars => [OutboxRef!OutboxNext]_(OutboxRef!outboxVars)
<1> SUFFICES ASSUME IInv, [Next]_vars
             PROVE  [OutboxRef!OutboxNext]_(OutboxRef!outboxVars)
  OBVIOUS
<1>t. TypeOK /\ OneRetained /\ ControlInv
  BY DEF IInv
<1>1. ASSUME NEW p \in Packets, Produce(p)
      PROVE  OutboxRef!OutboxNext
  BY <1>t, <1>1, ProduceIsAccept DEF OutboxRef!OutboxNext
<1>2. CASE FlushOne \/ ServeOne
  BY <1>t, <1>2, SendIsDispose DEF OutboxRef!OutboxNext
<1>3. CASE \/ LinkDies \/ DialFails \/ DialSucceeds \/ Announce
           \/ FlushFails \/ FlushDone \/ Receive \/ ServeFails \/ ReadFails
           \/ LoopGetsError \/ LoopRetries \/ LoopStops \/ UNCHANGED vars
  BY <1>t, <1>3, RetainIsStutter DEF OutboxRef!outboxVars
<1>4. QED
  BY <1>1, <1>2, <1>3 DEF Next, Connect

\* A client that NewClient made, before its first dial, is an empty outbox.
LEMMA InitImplementsOutbox == Init => OutboxRef!OutboxInit
<1> SUFFICES ASSUME Init PROVE OutboxRef!OutboxInit
  OBVIOUS
<1>1. << >> \in Seq(Packets) /\ Len(<< >>) = 0
  BY EmptySeq
<1>2. Unsent = << >>
  BY <1>1, SubSeqEmpty DEF Init, Unsent
<1>3. Undelivered = << >>
  BY <1>1, <1>2, ConcatEmptySeq DEF Init, Undelivered
<1>4. QED
  BY <1>3 DEF Init, OutboxRef!OutboxInit

\* The client implements the abstract outbox.
THEOREM SpecImplementsOutbox == Spec => ImplementsOutbox
<1>1. Init => OutboxRef!OutboxInit
  BY InitImplementsOutbox
<1>2. IInv /\ [Next]_vars => [OutboxRef!OutboxNext]_(OutboxRef!outboxVars)
  BY StepImplementsOutbox
<1>3. QED
  BY <1>1, <1>2, SpecIInv, PTL DEF Spec, ImplementsOutbox, OutboxRef!OutboxSpec

\* No response is lost, duplicated or overtaken inside the agent.
THEOREM SpecFifoDelivery == Spec => []FifoDelivery
<1>1. Init => FifoDelivery
  <2> SUFFICES ASSUME Init PROVE FifoDelivery
    OBVIOUS
  <2>1. Undelivered = << >> /\ out = << >> /\ accepted = << >>
    BY InitImplementsOutbox DEF OutboxRef!OutboxInit
  <2>2. << >> \in Seq(Packets)
    BY EmptySeq
  <2>3. QED
    BY <2>1, <2>2, ConcatEmptySeq DEF FifoDelivery
<1>2. IInv /\ FifoDelivery /\ [Next]_vars => FifoDelivery'
  <2> SUFFICES ASSUME IInv, FifoDelivery, [Next]_vars PROVE FifoDelivery'
    OBVIOUS
  <2>1. out \in Seq(Packets) /\ Undelivered \in Seq(Packets)
    BY UndeliveredIsSeq DEF IInv, TypeOK
  <2>2. [OutboxRef!OutboxNext]_(OutboxRef!outboxVars)
    BY StepImplementsOutbox
  <2>3. ASSUME NEW p \in Packets, OutboxRef!Accept(p) PROVE FifoDelivery'
    <3>1. Append(out \o Undelivered, p) = out \o Append(Undelivered, p)
      BY <2>1, AppendConcat
    <3>2. QED
      BY <2>3, <3>1 DEF OutboxRef!Accept, FifoDelivery
  <2>4. CASE OutboxRef!Dispose
    <3>1. Head(Undelivered) \in Packets /\ Tail(Undelivered) \in Seq(Packets)
          /\ <<Head(Undelivered)>> \in Seq(Packets)
      BY <2>1, <2>4, HeadTailProperties DEF OutboxRef!Dispose
    <3>2. Append(out, Head(Undelivered)) = out \o <<Head(Undelivered)>>
      BY <2>1, <3>1, AppendIsConcat
    <3>3. Undelivered = <<Head(Undelivered)>> \o Tail(Undelivered)
      BY <2>1, <2>4, HeadThenTail DEF OutboxRef!Dispose
    <3>4. (out \o <<Head(Undelivered)>>) \o Tail(Undelivered)
            = out \o (<<Head(Undelivered)>> \o Tail(Undelivered))
      BY <2>1, <3>1, ConcatAssociative
    <3>5. QED
      BY <2>4, <3>2, <3>3, <3>4 DEF OutboxRef!Dispose, FifoDelivery
  <2>5. CASE UNCHANGED OutboxRef!outboxVars
    BY <2>5 DEF OutboxRef!outboxVars, FifoDelivery
  <2>6. QED
    BY <2>2, <2>3, <2>4, <2>5 DEF OutboxRef!OutboxNext
<1>3. QED
  BY <1>1, <1>2, SpecIInv, PTL DEF Spec
=============================================================================
