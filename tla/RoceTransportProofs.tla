-------------------------- MODULE RoceTransportProofs --------------------------
(***************************************************************************)
(* Proofs about RoceTransport for every flow length, window, chunk size,   *)
(* acknowledgement interval and combination of modes.                      *)
(*                                                                         *)
(* The argument: what the receiver expects next is a prefix it has been    *)
(* given, and nothing the sender can still learn from the network exceeds  *)
(* that prefix.  With L2BackToZero the receiver's expectation may fall     *)
(* back to its chunk, so the bound is on the number the sender will read   *)
(* out of an acknowledgement (Cleared), not on the number it carries.      *)
(***************************************************************************)
EXTENDS RoceTransport, TLAPS

\* Everything before the expectation was handed to the receiver.
PrefixDelivered ==
    /\ \A s \in Pkts : s < expected => s \in delivered
    /\ AR => \A s \in Pkts : s < expected => s \in tracker
    /\ tracker \subseteq delivered

\* No acknowledgement, taken or still to be taken, exceeds the expectation.
AcksBounded ==
    ~qpDone =>
      /\ sndUna <= Cleared(expected)
      /\ \A m \in AckMsgs : acks[m] > 0 => Cleared(m.seq) <= Cleared(expected)

\* A completed flow arrived completely and has nothing left to send.
CompletedHasAll ==
    qpDone => delivered = Pkts /\ sndUna = NumPkts

IInv == TypeOK /\ SndOrder /\ PrefixDelivered /\ AcksBounded /\ CompletedHasAll

-------------------------------------------------------------------------------
(* Arithmetic of the chunk.                                                *)

\* Rounding down to a chunk: seq / m_chunk * m_chunk.
LEMMA ChunkFloorBounds ==
    ASSUME NEW s \in Nat
    PROVE  /\ s \div Chunk \in Nat
           /\ ChunkFloor(s) \in Nat
           /\ ChunkFloor(s) <= s
           /\ s < ChunkFloor(s) + Chunk
  BY RoceAssumption, SMTT(30) DEF ChunkFloor

\* Multiples of the chunk that are ordered have ordered quotients.
LEMMA MultiplesMonotone ==
    ASSUME NEW a \in Nat, NEW b \in Nat, a <= b
    PROVE  a * Chunk <= b * Chunk
  BY RoceAssumption, SMTT(30)

\* Rounding down keeps the order.
LEMMA ChunkFloorMonotone ==
    ASSUME NEW s \in Nat, NEW t \in Nat, s <= t
    PROVE  ChunkFloor(s) <= ChunkFloor(t)
PROOF
<1> DEFINE p == s \div Chunk
<1> DEFINE q == t \div Chunk
<1>1. /\ p \in Nat /\ q \in Nat /\ Chunk \in Nat
      /\ p * Chunk <= s /\ t < q * Chunk + Chunk
  BY ChunkFloorBounds, RoceAssumption DEF ChunkFloor
<1>2. ASSUME p > q PROVE FALSE
  <2>1. (q + 1) * Chunk <= p * Chunk
    <3>1. q + 1 \in Nat /\ q + 1 <= p
      BY <1>1, <1>2
    <3> QED
      BY <1>1, <3>1, MultiplesMonotone
  <2>2. (q + 1) * Chunk = q * Chunk + Chunk
    BY <1>1
  <2>3. p * Chunk \in Nat /\ q * Chunk \in Nat
    BY <1>1
  <2> HIDE DEF p, q
  <2> QED
    BY <1>1, <2>1, <2>2, <2>3
<1>3. p <= q
  BY <1>1, <1>2
<1> QED
  BY <1>1, <1>3, MultiplesMonotone DEF ChunkFloor

\* A multiple of the chunk is not rounded.
LEMMA ChunkFloorIdempotent ==
    ASSUME NEW s \in Nat
    PROVE  ChunkFloor(ChunkFloor(s)) = ChunkFloor(s)
PROOF
<1> DEFINE p == s \div Chunk
<1>1. p \in Nat /\ ChunkFloor(s) = p * Chunk
  BY ChunkFloorBounds DEF ChunkFloor
<1>2. (p * Chunk) \div Chunk = p
  BY <1>1, RoceAssumption, SMTT(30)
<1> QED
  BY <1>1, <1>2 DEF ChunkFloor

\* What the sender reads out of an acknowledgement keeps the order of the
\* numbers and never exceeds them.
LEMMA ClearedFacts ==
    /\ \A s \in Nat : Cleared(s) \in Nat /\ Cleared(s) <= s
    /\ \A s \in Nat : Cleared(Cleared(s)) = Cleared(s)
    /\ \A s, t \in Nat : s <= t => Cleared(s) <= Cleared(t)
  BY ChunkFloorBounds, ChunkFloorMonotone, ChunkFloorIdempotent DEF Cleared

-------------------------------------------------------------------------------
(* The inductive invariant.                                                *)

LEMMA InitInv == Init => IInv
<1> SUFFICES ASSUME Init PROVE IInv
  OBVIOUS
<1>1. 0 \in Bounds /\ Cleared(0) = 0
  BY RoceAssumption, ClearedFacts DEF Bounds
<1>2. TypeOK
  BY <1>1 DEF Init, TypeOK
<1>3. SndOrder /\ CompletedHasAll
  BY DEF Init, SndOrder, CompletedHasAll
<1>4. PrefixDelivered
  BY RoceAssumption DEF Init, PrefixDelivered, Pkts
<1>5. AcksBounded
  BY <1>1 DEF Init, AcksBounded, Cleared, ChunkFloor
<1> QED
  BY <1>2, <1>3, <1>4, <1>5 DEF IInv

\* The sender puts one more copy of a packet on the wire.
LEMMA GetNxtPacketInv == IInv /\ GetNxtPacket => IInv'
<1> SUFFICES ASSUME IInv, GetNxtPacket PROVE IInv'
  OBVIOUS
<1> USE DEF IInv
<1>1. PICK s \in Pkts : PutData(s) /\ dropped' \in SUBSET Pkts
                        /\ (sndNxt' = sndNxt \/ (sndNxt < NumPkts /\ sndNxt' = sndNxt + 1))
  <2>1. CASE Retransmit
    BY <2>1 DEF Retransmit, TypeOK
  <2>2. CASE SendNew
    <3>1. sndNxt \in Pkts
      BY <2>2, RoceAssumption DEF SendNew, TypeOK, Pkts, Bounds
    <3> QED
      BY <2>2, <3>1 DEF SendNew, TypeOK
  <2> QED
    BY <2>1, <2>2 DEF GetNxtPacket
<1>2. sndNxt' \in Bounds /\ sndNxt' >= sndUna
  BY <1>1, RoceAssumption DEF TypeOK, SndOrder, Bounds
<1>3. TypeOK'
  BY <1>1, <1>2 DEF GetNxtPacket, PutData, TypeOK, rxVars
<1>4. SndOrder'
  BY <1>2 DEF GetNxtPacket, SndOrder
<1>5. (PrefixDelivered /\ AcksBounded /\ CompletedHasAll)'
  BY DEF GetNxtPacket, PrefixDelivered, AcksBounded, CompletedHasAll, rxVars, Cleared, ChunkFloor
<1> QED
  BY <1>3, <1>4, <1>5

\* The channel of acknowledgements stays a function when one is taken.
LEMMA TakeAckType ==
    ASSUME TypeOK, NEW m \in AckMsgs, TakeAck(m)
    PROVE  /\ acks' \in [AckMsgs -> Nat]
           /\ \A k \in AckMsgs : acks'[k] > 0 => acks[k] > 0
  BY DEF TypeOK, TakeAck

\* The sender takes an acknowledgement: the receiver's prefix bounds it.
LEMMA AcknowledgeInv ==
    ASSUME IInv, NEW m \in AckMsgs, TakeAck(m), ~qpDone, Acknowledge(m),
           UNCHANGED <<data, delivered>>
    PROVE  IInv'
<1> USE DEF IInv
<1> DEFINE una == NewUna(m.seq)
<1> DEFINE nxt == PulledNxt(una)
<1>1. m.seq \in Bounds
  BY DEF AckMsgs
<1>2. Cleared(m.seq) \in Nat /\ Cleared(m.seq) <= Cleared(expected)
      /\ Cleared(expected) \in Nat /\ Cleared(expected) <= expected
  BY <1>1, ClearedFacts, RoceAssumption DEF AcksBounded, TakeAck, TypeOK, Bounds
<1>3. una \in Bounds /\ una <= Cleared(expected) /\ sndUna <= una
  BY <1>2, RoceAssumption DEF NewUna, Larger, AcksBounded, TypeOK, Bounds
<1>4. nxt \in Bounds /\ nxt >= una
  BY <1>3, RoceAssumption DEF PulledNxt, Larger, TypeOK, Bounds
<1>5. sndUna' = una /\ sndNxt' \in Bounds /\ sndNxt' >= una /\ dropped' = dropped
  <2>1. sndNxt' \in {una, nxt}
    BY DEF Acknowledge, RecoverQueue
  <2>2. una >= una
    BY <1>3, RoceAssumption DEF Bounds
  <2> QED
    BY <1>3, <1>4, <2>1, <2>2 DEF Acknowledge
<1>6. arDrop' \in Pkts \cup {NoDrop}
  BY DEF Acknowledge, ArDropAfter, TypeOK
<1> HIDE DEF una, nxt
<1>7. CASE una >= NumPkts
  <2>1. QpComplete
    BY <1>7 DEF Acknowledge, una
  <2>2. una = NumPkts /\ expected = NumPkts
    BY <1>2, <1>3, <1>7, RoceAssumption DEF TypeOK, Bounds
  <2>3. delivered = Pkts
    <3>1. \A s \in Pkts : s < NumPkts
      BY RoceAssumption DEF Pkts
    <3> QED
      BY <3>1, <2>2 DEF PrefixDelivered, TypeOK
  <2>4. TypeOK'
    <3>1. 0 \in Bounds
      BY RoceAssumption DEF Bounds
    <3> QED
      BY <3>1, <2>1, <1>3, <1>5, <1>6, TakeAckType DEF QpComplete, TypeOK
  <2>5. PrefixDelivered'
    BY <2>1, RoceAssumption DEF QpComplete, PrefixDelivered, Pkts
  <2>6. AcksBounded' /\ CompletedHasAll'
    BY <2>1, <2>2, <2>3, <1>5 DEF QpComplete, AcksBounded, CompletedHasAll, Pkts
  <2> QED
    BY <2>4, <2>5, <2>6, <1>5 DEF SndOrder
<1>8. CASE ~(una >= NumPkts)
  <2>1. KeepOpen(una, nxt)
    BY <1>8 DEF Acknowledge, una, nxt
  <2>2. timer' \in BOOLEAN /\ UNCHANGED <<qpDone, rxOpen, rxRecord, expected, tracker, lastNack, nackHold>>
    BY <2>1 DEF KeepOpen, rxVars, TypeOK
  <2>3. TypeOK'
    BY <2>2, <1>3, <1>5, <1>6, TakeAckType DEF TypeOK
  <2>4. PrefixDelivered' /\ CompletedHasAll'
    BY <2>2 DEF PrefixDelivered, CompletedHasAll
  <2>5. AcksBounded'
    BY <2>2, <1>3, <1>5, TakeAckType DEF AcksBounded, Cleared, ChunkFloor
  <2> QED
    BY <2>3, <2>4, <2>5, <1>5 DEF SndOrder
<1> QED
  BY <1>7, <1>8

LEMMA ReceiveAckInv ==
    ASSUME IInv, NEW m \in AckMsgs, ReceiveAck(m)
    PROVE  IInv'
<1>1. CASE qpDone
  BY <1>1, TakeAckType
     DEF IInv, ReceiveAck, TypeOK, SndOrder, PrefixDelivered, AcksBounded,
         CompletedHasAll, sndVars, rxVars
<1>2. CASE ~qpDone
  BY <1>2, AcknowledgeInv DEF ReceiveAck
<1> QED
  BY <1>1, <1>2

\* Steps that touch neither the receiver nor what the sender has learnt:
\* the timer, a report of a drop, the loss of a packet or an acknowledgement.
LEMMA OtherStepsInv ==
    ASSUME IInv,
           \/ HandleTimeout
           \/ \E s \in Pkts : SwitchDrop(s) \/ LoseData(s)
           \/ \E m \in AckMsgs : LoseAck(m)
    PROVE  IInv'
<1> USE DEF IInv
<1>1. CASE HandleTimeout
  <2>1. sndNxt' \in {sndNxt, sndUna}
    BY <1>1 DEF HandleTimeout, RecoverQueue
  <2>2. arDrop' \in {arDrop, NoDrop}
    BY <1>1 DEF HandleTimeout
  <2>3. sndUna >= sndUna
    BY DEF TypeOK, Bounds
  <2>4. TypeOK' /\ SndOrder'
    BY <1>1, <2>1, <2>2, <2>3 DEF HandleTimeout, TypeOK, SndOrder, rxVars
  <2> QED
    BY <1>1, <2>4
       DEF HandleTimeout, PrefixDelivered, AcksBounded, CompletedHasAll, rxVars,
           Cleared, ChunkFloor
<1>2. ASSUME NEW s \in Pkts, SwitchDrop(s) PROVE IInv'
  <2>1. data' \in [Pkts -> Nat]
    BY <1>2 DEF SwitchDrop, TakeData, TypeOK
  <2>2. arDrop' \in Pkts \cup {NoDrop} /\ dropped' \in SUBSET Pkts
    BY <1>2 DEF SwitchDrop, ArDropNoted, DroppedNoted, Larger, TypeOK
  <2>3. TypeOK' /\ SndOrder'
    BY <1>2, <2>1, <2>2 DEF SwitchDrop, TypeOK, SndOrder, rxVars
  <2> QED
    BY <1>2, <2>3
       DEF SwitchDrop, PrefixDelivered, AcksBounded, CompletedHasAll, rxVars,
           Cleared, ChunkFloor
<1>3. ASSUME NEW s \in Pkts, LoseData(s) PROVE IInv'
  <2>1. data' \in [Pkts -> Nat]
    BY <1>3 DEF LoseData, TakeData, TypeOK
  <2> QED
    BY <1>3, <2>1
       DEF LoseData, TypeOK, SndOrder, PrefixDelivered, AcksBounded,
           CompletedHasAll, sndVars, rxVars, Cleared, ChunkFloor
<1>4. ASSUME NEW m \in AckMsgs, LoseAck(m) PROVE IInv'
  BY <1>4, TakeAckType
     DEF LoseAck, TypeOK, SndOrder, PrefixDelivered, AcksBounded,
         CompletedHasAll, sndVars, rxVars, Cleared, ChunkFloor
<1> QED
  BY <1>1, <1>2, <1>3, <1>4

-------------------------------------------------------------------------------
(* The receiver.                                                           *)

\* What the receiver's four branches have in common: what is delivered
\* grows, the expectation stays a delivered prefix and falls at most back to
\* its chunk, and an acknowledgement carries at most the new expectation.
RxStep(s) ==
    /\ expected' \in Bounds
    /\ Cleared(expected) <= Cleared(expected')
    /\ tracker' \subseteq delivered'
    /\ delivered' \in {delivered, delivered \cup {s}}
    /\ \A r \in Pkts : r < expected' => r \in delivered'
    /\ AR => \A r \in Pkts : r < expected' => r \in tracker'
    /\ lastNack' \in Bounds /\ nackHold' \in BOOLEAN
    /\ acks' \in [AckMsgs -> Nat]
    /\ \A k \in AckMsgs : acks'[k] > 0 => acks[k] > 0 \/ k.seq <= expected'

LEMMA PutAckType ==
    ASSUME TypeOK, NEW e \in Bounds, NEW kind \in AckKinds,
           PutAck(kind, e) \/ UNCHANGED acks
    PROVE  /\ acks' \in [AckMsgs -> Nat]
           /\ \A k \in AckMsgs : acks'[k] > 0 => acks[k] > 0 \/ k.seq <= e
<1>1. [kind |-> kind, seq |-> e] \in AckMsgs
  BY DEF AckMsgs
<1>2. e <= e
  BY RoceAssumption DEF Bounds
<1> QED
  BY <1>1, <1>2 DEF TypeOK, PutAck

LEMMA NextExpectedPrefix ==
    ASSUME NEW got \in SUBSET Pkts, NEW e \in Bounds, NextExpected(got, e),
           NEW x \in Bounds, \A s \in Pkts : s < x => s \in got
    PROVE  x <= e /\ \A s \in Pkts : s < e => s \in got
<1>1. ASSUME ~(x <= e) PROVE FALSE
  <2>1. e \in Pkts /\ e < x
    BY <1>1, RoceAssumption DEF Bounds, Pkts
  <2> QED
    BY <2>1 DEF NextExpected
<1> QED
  BY <1>1 DEF NextExpected

LEMMA KeepAnyOrderStep ==
    ASSUME IInv, NEW s \in Pkts, KeepAnyOrder(s)
    PROVE  RxStep(s)
<1> USE DEF IInv
<1>1. PICK e \in Bounds :
        /\ NextExpected(tracker', e)
        /\ expected' = e
        /\ PutAck("ACK", e) \/ UNCHANGED acks
  BY DEF KeepAnyOrder, AckIfDue
<1>2. /\ AR /\ tracker' = tracker \cup {s} /\ tracker' \in SUBSET Pkts
      /\ delivered' = delivered \cup {s}
      /\ UNCHANGED <<lastNack, nackHold>>
  BY DEF KeepAnyOrder, TypeOK
<1>3. \A r \in Pkts : r < expected => r \in tracker'
  BY <1>2 DEF PrefixDelivered
<1>4. expected <= e /\ \A r \in Pkts : r < e => r \in tracker'
  BY <1>1, <1>2, <1>3, NextExpectedPrefix DEF TypeOK
<1>5. Cleared(expected) <= Cleared(e)
  BY <1>4, ClearedFacts, RoceAssumption DEF TypeOK, Bounds
<1>6. tracker' \subseteq delivered'
  BY <1>2 DEF PrefixDelivered
<1>7. /\ acks' \in [AckMsgs -> Nat]
      /\ \A k \in AckMsgs : acks'[k] > 0 => acks[k] > 0 \/ k.seq <= e
  BY <1>1, PutAckType DEF AckKinds
<1>8. Cleared(expected) <= Cleared(expected')
  BY <1>1, <1>5 DEF Cleared, ChunkFloor
<1> QED
  BY <1>1, <1>2, <1>4, <1>6, <1>7, <1>8 DEF RxStep, TypeOK

LEMMA AcceptInOrderStep ==
    ASSUME IInv, NEW s \in Pkts, AcceptInOrder(s)
    PROVE  RxStep(s)
<1> USE DEF IInv
<1>1. /\ expected' = s + 1 /\ s + 1 \in Bounds /\ expected <= s + 1
      /\ \A r \in Pkts : r < s + 1 => r = s \/ r < expected
  BY RoceAssumption DEF AcceptInOrder, TypeOK, Pkts, Bounds
<1>2. /\ ~AR /\ delivered' = delivered \cup {s}
      /\ UNCHANGED <<tracker, lastNack, nackHold>>
  BY DEF AcceptInOrder
<1>3. PutAck("ACK", s + 1) \/ UNCHANGED acks
  BY <1>1 DEF AcceptInOrder, AckIfDue
<1>4. Cleared(expected) <= Cleared(s + 1)
  BY <1>1, ClearedFacts, RoceAssumption DEF TypeOK, Bounds
<1>5. Cleared(expected) <= Cleared(expected')
  BY <1>1, <1>4 DEF Cleared, ChunkFloor
<1>6. /\ acks' \in [AckMsgs -> Nat]
      /\ \A k \in AckMsgs : acks'[k] > 0 => acks[k] > 0 \/ k.seq <= s + 1
  BY <1>1, <1>3, PutAckType DEF AckKinds
<1> QED
  BY <1>1, <1>2, <1>5, <1>6 DEF RxStep, TypeOK, PrefixDelivered

LEMMA RejectOutOfOrderStep ==
    ASSUME IInv, NEW s \in Pkts, RejectOutOfOrder(s)
    PROVE  RxStep(s)
<1> USE DEF IInv
<1>1. /\ ~AR
      /\ UNCHANGED <<tracker, delivered>>
      /\ nackHold' \in BOOLEAN /\ lastNack' \in Bounds
      /\ expected' \in {expected, Cleared(expected)}
      /\ PutAck("NACK", expected') \/ UNCHANGED acks
  BY DEF RejectOutOfOrder, Cleared, TypeOK
<1>2. /\ Cleared(expected) \in Bounds /\ Cleared(expected) <= expected
      /\ Cleared(Cleared(expected)) = Cleared(expected)
  BY ClearedFacts, RoceAssumption DEF TypeOK, Bounds
<1>3. expected' \in Bounds /\ expected' <= expected
  BY <1>1, <1>2, RoceAssumption DEF TypeOK, Bounds
<1>4. Cleared(expected) = Cleared(expected')
  BY <1>1, <1>2 DEF Cleared, ChunkFloor
<1>5. Cleared(expected) <= Cleared(expected')
  BY <1>2, <1>4, RoceAssumption DEF Bounds
<1>6. /\ acks' \in [AckMsgs -> Nat]
      /\ \A k \in AckMsgs : acks'[k] > 0 => acks[k] > 0 \/ k.seq <= expected'
  BY <1>1, <1>3, PutAckType DEF AckKinds
<1>7. \A r \in Pkts : r < expected' => r \in delivered'
  BY <1>1, <1>3, RoceAssumption DEF TypeOK, Pkts, Bounds, PrefixDelivered
<1> QED
  BY <1>1, <1>3, <1>5, <1>6, <1>7 DEF RxStep, PrefixDelivered

LEMMA AckDuplicateStep ==
    ASSUME IInv, NEW s \in Pkts, AckDuplicate(s)
    PROVE  RxStep(s)
<1> USE DEF IInv
<1>1. /\ UNCHANGED <<expected, tracker, lastNack, nackHold, delivered>>
      /\ PutAck("ACK", expected)
  BY DEF AckDuplicate
<1>2. Cleared(expected) <= Cleared(expected')
  BY <1>1, ClearedFacts, RoceAssumption DEF TypeOK, Bounds, Cleared, ChunkFloor
<1>3. /\ acks' \in [AckMsgs -> Nat]
      /\ \A k \in AckMsgs : acks'[k] > 0 => acks[k] > 0 \/ k.seq <= expected
  BY <1>1, PutAckType DEF AckKinds, TypeOK
<1> QED
  BY <1>1, <1>2, <1>3 DEF RxStep, TypeOK, PrefixDelivered

LEMMA ReceiveUdpInv ==
    ASSUME IInv, NEW s \in Pkts, ReceiveUdp(s)
    PROVE  IInv'
<1> USE DEF IInv
<1>1. RxStep(s)
  BY KeepAnyOrderStep, AcceptInOrderStep, RejectOutOfOrderStep, AckDuplicateStep
     DEF ReceiveUdp
<1>2. /\ data' \in [Pkts -> Nat] /\ rxOpen' = TRUE
      /\ UNCHANGED <<sndNxt, sndUna, timer, qpDone, dropped, arDrop, rxRecord>>
  BY DEF ReceiveUdp, TakeData, TypeOK, sndVars
<1>3. delivered' \in SUBSET Pkts /\ tracker' \in SUBSET Pkts
      /\ delivered \subseteq delivered'
  BY <1>1 DEF RxStep, TypeOK
<1>4. TypeOK'
  BY <1>1, <1>2, <1>3 DEF RxStep, TypeOK
<1>5. SndOrder' /\ PrefixDelivered'
  BY <1>1, <1>2 DEF SndOrder, RxStep, PrefixDelivered
<1>6. CompletedHasAll'
  BY <1>2, <1>3 DEF CompletedHasAll
<1>7. AcksBounded'
  <2>1. SUFFICES ASSUME ~qpDone
        PROVE /\ sndUna' <= Cleared(expected')
              /\ \A m \in AckMsgs : acks'[m] > 0 => Cleared(m.seq) <= Cleared(expected')
    BY <1>2 DEF AcksBounded, Cleared, ChunkFloor
  <2>2. Cleared(expected) \in Nat /\ Cleared(expected') \in Nat
        /\ Cleared(expected) <= Cleared(expected')
    BY <1>1, ClearedFacts, RoceAssumption DEF RxStep, TypeOK, Bounds
  <2>3. sndUna' <= Cleared(expected')
    BY <1>2, <2>1, <2>2, RoceAssumption DEF AcksBounded, TypeOK, Bounds
  <2>4. ASSUME NEW m \in AckMsgs, acks'[m] > 0
        PROVE  Cleared(m.seq) <= Cleared(expected')
    <3>1. m.seq \in Nat /\ expected' \in Nat
      BY <1>1, RoceAssumption DEF AckMsgs, Bounds, RxStep
    <3>2. CASE m.seq <= expected'
      BY <3>1, <3>2, ClearedFacts
    <3>3. CASE acks[m] > 0
      BY <2>1, <2>2, <3>1, <3>3, ClearedFacts DEF AcksBounded
    <3> QED
      BY <1>1, <2>4, <3>2, <3>3 DEF RxStep
  <2> QED
    BY <2>3, <2>4
<1> QED
  BY <1>4, <1>5, <1>6, <1>7

-------------------------------------------------------------------------------
(* Theorems.                                                               *)

LEMMA StepInv == IInv /\ [Next]_vars => IInv'
<1> SUFFICES ASSUME IInv, [Next]_vars PROVE IInv'
  OBVIOUS
<1>1. CASE Next
  BY <1>1, GetNxtPacketInv, OtherStepsInv, ReceiveAckInv, ReceiveUdpInv DEF Next
<1>2. CASE UNCHANGED vars
  BY <1>2
     DEF IInv, TypeOK, SndOrder, PrefixDelivered, AcksBounded, CompletedHasAll,
         vars, sndVars, rxVars, Cleared, ChunkFloor
<1> QED
  BY <1>1, <1>2

\* The inductive invariant holds of every behaviour of the transport.
THEOREM Invariance == Spec => []IInv
<1> QED
  BY InitInv, StepInv, PTL DEF Spec

\* Sequence numbers stay inside the flow and the network holds a natural
\* number of copies of each message, in every mode.
THEOREM TypeCorrect == Spec => []TypeOK
<1>1. IInv => TypeOK
  BY DEF IInv
<1> QED
  BY <1>1, Invariance, PTL

\* snd_nxt never falls below snd_una: GetOnTheFly, an unsigned difference,
\* never wraps, for any order of stale ACKs, NACKs and timeouts.
THEOREM SendOrderKept == Spec => []SndOrder
<1>1. IInv => SndOrder
  BY DEF IInv
<1> QED
  BY <1>1, Invariance, PTL

\* A live sender believes acknowledged only what the receiver holds.
THEOREM NoFalseAcknowledgement == Spec => []NoFalseAck
<1>1. IInv => NoFalseAck
  <2> SUFFICES ASSUME IInv, ~qpDone PROVE /\ sndUna <= expected
                                          /\ \A s \in Pkts : s < sndUna => s \in delivered
    BY DEF NoFalseAck
  <2>1. sndUna \in Nat /\ expected \in Nat /\ Pkts \subseteq Nat
    BY RoceAssumption DEF IInv, TypeOK, Bounds, Pkts
  <2>2. sndUna <= Cleared(expected) /\ Cleared(expected) <= expected /\ Cleared(expected) \in Nat
    BY <2>1, ClearedFacts DEF IInv, AcksBounded
  <2>3. sndUna <= expected
    BY <2>1, <2>2
  <2> QED
    BY <2>1, <2>3 DEF IInv, PrefixDelivered
<1> QED
  BY <1>1, Invariance, PTL

\* A completed flow arrived in full: QpComplete never runs early.
LEMMA CompletionStep ==
    ASSUME IInv, NEW m \in AckMsgs, ReceiveAck(m)
    PROVE  UNCHANGED <<delivered, qpDone>> \/ RT!Complete
<1>1. delivered' = delivered
  BY DEF ReceiveAck
<1>2. CASE qpDone
  BY <1>1, <1>2 DEF ReceiveAck, sndVars
<1>3. CASE ~qpDone /\ ~qpDone'
  BY <1>1, <1>3 DEF ReceiveAck, Acknowledge, QpComplete, KeepOpen
<1>4. CASE ~qpDone /\ qpDone'
  <2>1. IInv'
    BY ReceiveAckInv
  <2>2. delivered = Pkts
    BY <1>1, <1>4, <2>1 DEF IInv, CompletedHasAll, Pkts
  <2>3. qpDone = FALSE /\ qpDone' = TRUE
    BY <1>4, <2>1 DEF IInv, TypeOK
  <2> QED
    BY <1>1, <2>2, <2>3 DEF RT!Complete
<1> QED
  BY <1>2, <1>3, <1>4

LEMMA DeliveryStep ==
    ASSUME IInv, NEW s \in Pkts, ReceiveUdp(s)
    PROVE  UNCHANGED <<delivered, qpDone>> \/ RT!Receive(s)
<1>1. delivered' \in {delivered, delivered \cup {s}}
  BY KeepAnyOrderStep, AcceptInOrderStep, RejectOutOfOrderStep, AckDuplicateStep
     DEF ReceiveUdp, RxStep
<1>2. qpDone' = qpDone
  BY DEF ReceiveUdp, sndVars
<1> QED
  BY <1>1, <1>2 DEF RT!Receive

LEMMA RefinementStep == IInv /\ [Next]_vars => [RT!RTNext]_(RT!rtVars)
<1> SUFFICES ASSUME IInv, [Next]_vars
             PROVE  UNCHANGED <<delivered, qpDone>> \/ RT!RTNext
  BY DEF RT!rtVars
<1>1. CASE GetNxtPacket \/ HandleTimeout \/ UNCHANGED vars
  BY <1>1 DEF GetNxtPacket, HandleTimeout, vars, sndVars
<1>2. ASSUME NEW m \in AckMsgs, ReceiveAck(m) \/ LoseAck(m)
      PROVE  UNCHANGED <<delivered, qpDone>> \/ RT!RTNext
  BY <1>2, CompletionStep DEF LoseAck, RT!RTNext, sndVars
<1>3. ASSUME NEW s \in Pkts, ReceiveUdp(s) \/ SwitchDrop(s) \/ LoseData(s)
      PROVE  UNCHANGED <<delivered, qpDone>> \/ RT!RTNext
  BY <1>3, DeliveryStep DEF SwitchDrop, LoseData, RT!RTNext, sndVars
<1> QED
  BY <1>1, <1>2, <1>3 DEF Next

\* The transport implements the reliable transfer of a flow, in go-back-N,
\* adaptive and ideal mode alike.
THEOREM Refinement == Spec => ImplementsReliableTransfer
<1>1. Init => RT!RTInit
  BY DEF Init, RT!RTInit
<1> QED
  BY <1>1, RefinementStep, Invariance, PTL DEF Spec, ImplementsReliableTransfer, RT!RTSpec

\* A completed queue pair that the NIC still polls has nothing to send but
\* the drops that were reported before.
THEOREM CompletedSilent == Spec => CompletedStaysSilent
<1>1. IInv /\ [Next]_vars => [SilentStep]_vars
  <2> SUFFICES ASSUME IInv, Next, qpDone, NEW s \in Pkts
               PROVE  data'[s] <= data[s] \/ s \in dropped
    BY DEF SilentStep
  <2>1. data[s] \in Nat /\ data[s] <= data[s] /\ data[s] - 1 <= data[s]
        /\ data \in [Pkts -> Nat]
    BY DEF IInv, TypeOK
  <2>2. CASE GetNxtPacket
    <3>1. Retransmit
      BY <2>2, RoceAssumption DEF IInv, SndOrder, CompletedHasAll, TypeOK, Bounds,
                                  GetNxtPacket, SendNew
    <3> QED
      BY <2>1, <3>1 DEF Retransmit, PutData
  <2>3. CASE HandleTimeout \/ \E m \in AckMsgs : ReceiveAck(m) \/ LoseAck(m)
    BY <2>1, <2>3 DEF HandleTimeout, ReceiveAck, LoseAck
  <2>4. ASSUME NEW r \in Pkts, ReceiveUdp(r) \/ SwitchDrop(r) \/ LoseData(r)
        PROVE  data'[s] <= data[s] \/ s \in dropped
    BY <2>1, <2>4 DEF ReceiveUdp, SwitchDrop, LoseData, TakeData
  <2> QED
    BY <2>2, <2>3, <2>4 DEF Next
<1>2. []IInv /\ [][Next]_vars => [][SilentStep]_vars
  BY <1>1, PTL
<1> QED
  BY <1>2, Invariance, PTL DEF Spec, CompletedStaysSilent

-------------------------------------------------------------------------------
(* Packets that are lost.                                                  *)

\* A packet that is missing and not on its way is not past the highest drop
\* that the sender has recorded.
DropsRecorded ==
    ~qpDone => \A s \in Pkts : (sndUna <= s /\ s < sndNxt)
                  => s \in delivered \/ data[s] > 0 \/ s <= arDrop

\* With adaptive routing a packet that is received is delivered: no branch
\* of the receiver discards it.
LEMMA NothingDiscarded ==
    ASSUME IInv, AR, NEW s \in Pkts, ReceiveUdp(s)
    PROVE  /\ delivered \subseteq delivered' /\ s \in delivered'
           /\ \A r \in Pkts : r # s => data'[r] = data[r]
<1>1. \A r \in Pkts : r # s => data'[r] = data[r]
  BY DEF ReceiveUdp, TakeData, IInv, TypeOK
<1>2. CASE KeepAnyOrder(s)
  BY <1>1, <1>2 DEF KeepAnyOrder
<1>3. CASE AckDuplicate(s)
  BY <1>1, <1>3 DEF AckDuplicate, IInv, PrefixDelivered
<1> QED
  BY <1>2, <1>3 DEF ReceiveUdp, AcceptInOrder, RejectOutOfOrder

\* What an acknowledgement leaves outstanding was outstanding before.
LEMMA WindowShrinks ==
    ASSUME IInv, NEW m \in AckMsgs, ReceiveAck(m), ~qpDone,
           NEW s \in Pkts, sndUna' <= s, s < sndNxt'
    PROVE  /\ sndUna <= s /\ s < sndNxt
           /\ arDrop' = arDrop \/ arDrop < s
<1>1. TakeAck(m) /\ Acknowledge(m)
  BY DEF ReceiveAck
<1>2. /\ sndUna \in Nat /\ sndNxt \in Nat /\ s \in Nat /\ Cleared(m.seq) \in Nat
      /\ arDrop \in Int /\ m.seq \in Nat
  BY ClearedFacts, RoceAssumption DEF IInv, TypeOK, Bounds, Pkts, AckMsgs, NoDrop
<1>3. /\ sndUna' = NewUna(m.seq)
      /\ arDrop' = ArDropAfter(NewUna(m.seq))
      /\ sndNxt' \in {NewUna(m.seq), PulledNxt(NewUna(m.seq))}
  BY <1>1 DEF Acknowledge, RecoverQueue
<1>4. NewUna(m.seq) \in Nat /\ sndUna <= NewUna(m.seq)
  BY <1>2 DEF NewUna, Larger
<1>5. s < sndNxt /\ sndUna <= s
  BY <1>2, <1>3, <1>4 DEF PulledNxt, Larger
<1>6. arDrop' = arDrop \/ arDrop < s
  BY <1>2, <1>3, <1>4 DEF ArDropAfter
<1> QED
  BY <1>5, <1>6

\* A timeout leaves nothing outstanding, or had nothing to do.
LEMMA TimeoutEmpties ==
    ASSUME IInv, HandleTimeout, NEW s \in Pkts, sndUna' <= s, s < sndNxt'
    PROVE  FALSE
<1>1. sndUna \in Nat /\ sndNxt \in Nat /\ s \in Nat /\ NumPkts \in Nat /\ s < NumPkts
  BY RoceAssumption DEF IInv, TypeOK, Bounds, Pkts
<1>2. sndUna' = sndUna /\ sndNxt' \in {sndNxt, sndUna}
  BY DEF HandleTimeout, RecoverQueue
<1>3. sndNxt' = sndNxt => sndUna >= NumPkts \/ sndNxt - sndUna = 0 \/ sndNxt' = sndUna
  BY DEF HandleTimeout, RecoverQueue, OnTheFly
<1> QED
  BY <1>1, <1>2, <1>3

\* A packet that is sent joins the outstanding ones and is on its way; what
\* is sent again leaves the queue of drops for the wire.
LEMMA SentIsOnItsWay ==
    ASSUME IInv, GetNxtPacket
    PROVE  /\ \A s \in Pkts : s < sndNxt' => s < sndNxt \/ data'[s] > 0
           /\ \A s \in Pkts : data[s] > 0 => data'[s] > 0
           /\ \A s \in Pkts : s \in dropped => s \in dropped' \/ data'[s] > 0
<1>1. data \in [Pkts -> Nat] /\ sndNxt \in Nat /\ Pkts \subseteq Nat
  BY RoceAssumption DEF IInv, TypeOK, Bounds, Pkts
<1>2. CASE Retransmit
  <2>1. PICK d \in dropped : PutData(d) /\ dropped' = dropped \ {d}
    BY <1>2 DEF Retransmit
  <2>2. d \in Pkts /\ sndNxt' = sndNxt
    BY <1>2, <2>1 DEF Retransmit, IInv, TypeOK
  <2>3. \A s \in Pkts : data'[s] = IF s = d THEN data[s] + 1 ELSE data[s]
    BY <1>1, <2>1, <2>2 DEF PutData
  <2> QED
    BY <1>1, <2>1, <2>2, <2>3
<1>3. CASE SendNew
  <2>1. /\ sndNxt \in Pkts /\ sndNxt' = sndNxt + 1 /\ dropped' = dropped
        /\ PutData(sndNxt)
    BY <1>1, <1>3, RoceAssumption DEF SendNew, Pkts
  <2>2. \A s \in Pkts : data'[s] = IF s = sndNxt THEN data[s] + 1 ELSE data[s]
    BY <1>1, <2>1 DEF PutData
  <2>3. \A s \in Pkts : s < sndNxt' => s < sndNxt \/ s = sndNxt
    BY <1>1, <2>1
  <2> QED
    BY <1>1, <2>1, <2>2, <2>3
<1> QED
  BY <1>2, <1>3 DEF GetNxtPacket

LEMMA DropsRecordedStep ==
    ASSUME IInv, DropsRecorded, AR, ~LinkLoss, [Next]_vars
    PROVE  DropsRecorded'
<1> SUFFICES ASSUME ~qpDone', NEW s \in Pkts, sndUna' <= s, s < sndNxt'
             PROVE  s \in delivered' \/ data'[s] > 0 \/ s <= arDrop'
  BY DEF DropsRecorded
<1>1. ~qpDone
  BY DEF Next, vars, sndVars, GetNxtPacket, HandleTimeout, ReceiveAck, LoseAck, ReceiveUdp,
         SwitchDrop, LoseData
<1>2. s \in Nat /\ arDrop \in Int /\ data \in [Pkts -> Nat]
  BY RoceAssumption DEF IInv, TypeOK, Pkts, NoDrop
<1>3. CASE GetNxtPacket
  BY <1>1, <1>3, SentIsOnItsWay DEF DropsRecorded, GetNxtPacket
<1>4. CASE HandleTimeout
  BY <1>4, TimeoutEmpties
<1>5. ASSUME NEW m \in AckMsgs, ReceiveAck(m)
      PROVE  s \in delivered' \/ data'[s] > 0 \/ s <= arDrop'
  <2>1. /\ sndUna <= s /\ s < sndNxt /\ (arDrop' = arDrop \/ arDrop < s)
    BY <1>1, <1>5, WindowShrinks
  <2> QED
    BY <1>1, <1>2, <1>5, <2>1 DEF DropsRecorded, ReceiveAck
<1>6. ASSUME NEW r \in Pkts, ReceiveUdp(r)
      PROVE  s \in delivered' \/ data'[s] > 0 \/ s <= arDrop'
  BY <1>1, <1>6, NothingDiscarded DEF DropsRecorded, ReceiveUdp, sndVars
<1>7. ASSUME NEW r \in Pkts, SwitchDrop(r)
      PROVE  s \in delivered' \/ data'[s] > 0 \/ s <= arDrop'
  <2>1. /\ UNCHANGED <<sndNxt, sndUna, delivered>> /\ arDrop' = ArDropNoted(r)
        /\ \A k \in Pkts : k # r => data'[k] = data[k]
    BY <1>1, <1>2, <1>7 DEF SwitchDrop, TakeData
  <2>2. r \in Nat /\ arDrop <= arDrop' /\ arDrop' \in Int /\ (s = r => s <= arDrop')
    <3>1. r \in Nat
      BY RoceAssumption DEF Pkts
    <3> QED
      BY <1>2, <2>1, <3>1 DEF ArDropNoted, Larger
  <2> QED
    BY <1>1, <1>2, <2>1, <2>2 DEF DropsRecorded
<1>8. CASE UNCHANGED vars
  BY <1>1, <1>8 DEF DropsRecorded, vars, sndVars
<1> QED
  BY <1>3, <1>4, <1>5, <1>6, <1>7, <1>8 DEF Next, LoseAck, LoseData

\* Ideal recovery with adaptive routing never needs a timeout: an outstanding
\* packet is delivered, on its way or in the queue of reported drops.
THEOREM IdealForgetsNothing ==
    ASSUME AR, Ideal, ~LinkLoss
    PROVE  Spec => []NothingForgotten
<1>1. Init => NothingForgotten
  BY RoceAssumption DEF Init, NothingForgotten, Pkts
<1>2. IInv /\ NothingForgotten /\ [Next]_vars => NothingForgotten'
  <2> SUFFICES ASSUME IInv, NothingForgotten, [Next]_vars,
                      ~qpDone', NEW s \in Pkts, sndUna' <= s, s < sndNxt'
               PROVE  s \in delivered' \/ data'[s] > 0 \/ s \in dropped'
    BY DEF NothingForgotten
  <2>1. ~qpDone
    BY DEF Next, vars, sndVars, GetNxtPacket, HandleTimeout, ReceiveAck, LoseAck, ReceiveUdp,
           SwitchDrop, LoseData
  <2>2. CASE GetNxtPacket
    BY <2>1, <2>2, SentIsOnItsWay DEF NothingForgotten, GetNxtPacket
  <2>3. CASE HandleTimeout
    BY <2>3, TimeoutEmpties
  <2>4. ASSUME NEW m \in AckMsgs, ReceiveAck(m)
        PROVE  s \in delivered' \/ data'[s] > 0 \/ s \in dropped'
    <3>1. sndUna <= s /\ s < sndNxt
      BY <2>1, <2>4, WindowShrinks
    <3> QED
      BY <2>1, <2>4, <3>1 DEF NothingForgotten, ReceiveAck, Acknowledge
  <2>5. ASSUME NEW r \in Pkts, ReceiveUdp(r)
        PROVE  s \in delivered' \/ data'[s] > 0 \/ s \in dropped'
    BY <2>1, <2>5, NothingDiscarded DEF NothingForgotten, ReceiveUdp, sndVars
  <2>6. ASSUME NEW r \in Pkts, SwitchDrop(r)
        PROVE  s \in delivered' \/ data'[s] > 0 \/ s \in dropped'
    <3>1. /\ UNCHANGED <<sndNxt, sndUna, delivered>> /\ dropped' = dropped \cup {r}
          /\ \A k \in Pkts : k # r => data'[k] = data[k]
      BY <2>1, <2>6 DEF SwitchDrop, TakeData, DroppedNoted, IInv, TypeOK
    <3> QED
      BY <2>1, <3>1 DEF NothingForgotten
  <2>7. CASE UNCHANGED vars
    BY <2>1, <2>7 DEF NothingForgotten, vars, sndVars
  <2> QED
    BY <2>2, <2>3, <2>4, <2>5, <2>6, <2>7 DEF Next, LoseAck, LoseData
<1> QED
  BY <1>1, <1>2, Invariance, PTL DEF Spec

\* A timeout that RecordArTimeoutRetransmission counts as spurious has lost
\* nothing, unless a link lost a packet without a report.
THEOREM TimeoutsCorrect == ASSUME ~LinkLoss PROVE Spec => TimeoutsClassified
<1>1. CASE AR
  <2>1. Init => DropsRecorded
    BY RoceAssumption DEF Init, DropsRecorded, Pkts
  <2>2. IInv /\ DropsRecorded /\ [Next]_vars => DropsRecorded'
    BY <1>1, DropsRecordedStep
  <2>3. IInv /\ DropsRecorded => SpuriousStep
    <3> SUFFICES ASSUME IInv, DropsRecorded, sndNxt > sndUna, arDrop = NoDrop,
                        NEW s \in Pkts, sndUna <= s, s < sndNxt
                 PROVE  s \in delivered \/ data[s] > 0
      BY DEF SpuriousStep
    <3>1. /\ sndUna \in Nat /\ sndNxt \in Nat /\ sndNxt <= NumPkts /\ s \in Nat
          /\ NumPkts \in Nat
      BY RoceAssumption DEF IInv, TypeOK, Bounds, Pkts
    <3>2. ~qpDone
      BY <3>1 DEF IInv, CompletedHasAll
    <3> QED
      BY <3>1, <3>2 DEF DropsRecorded, NoDrop
  <2> QED
    BY <2>1, <2>2, <2>3, Invariance, PTL DEF Spec, TimeoutsClassified
<1>2. CASE ~AR
  <2>1. SpuriousStep
    BY <1>2 DEF SpuriousStep
  <2> QED
    BY <2>1, PTL DEF TimeoutsClassified
<1> QED
  BY <1>1, <1>2
===============================================================================
