-------------------------- MODULE IrnTransportProofs --------------------------
(***************************************************************************)
(* Theorems about IrnTransport, for every length of the flow, window, BDP  *)
(* limit and network: what the sender believes has arrived has, the        *)
(* sender's and the receiver's assertions hold, the BDP limit bounds the   *)
(* missing packets, and the flow service is implemented.                   *)
(*                                                                         *)
(* The inductive invariant ties the three views of the flow together.      *)
(* The receiver's view: what it has taken is what lies below its           *)
(* expectation and what it holds, and the expected packet is missing.      *)
(* The replies' view: a cumulative number never exceeds the expectation,   *)
(* a named packet has been taken.  The sender's view: snd_una and the sack *)
(* list follow from replies only; and nothing beyond maxSeq was ever sent. *)
(***************************************************************************)
EXTENDS IrnTransport, FiniteSetTheorems, WellFoundedInduction, TLAPS

\* What the receiver has taken: everything below the expectation, even after
\* the receiver's queue pair was deleted, and everything it holds in the
\* list of its mode.
Taken ==
    /\ \A s \in Pkts : s < expected => s \in delivered
    /\ held \subseteq delivered /\ tracker \subseteq delivered
    /\ AR => held = {}

\* While the flow runs, the expected packet is missing and nothing else was
\* taken than what the receiver's state says.
ReceiverExact ==
    ~qpDone =>
        /\ expected \notin delivered
        /\ AR => delivered = tracker
        /\ ~AR => \A s \in delivered : s < expected \/ s \in held

\* The replies in the network were true when sent and have remained so.
RepliesHonest ==
    ~qpDone =>
        \A m \in Replies : acks[m] > 0 =>
            /\ m.seq <= expected
            /\ m.nack # NoNack => m.nack \in delivered

\* highestAck lags behind snd_una, which lags behind snd_nxt.
SenderOrder == highestAck <= sndUna /\ sndUna <= sndNxt

\* A flow is completed on the last acknowledgement only.
DoneMeansAll == qpDone => sndUna = NumPkts /\ delivered = Pkts

\* No packet beyond maxSeq was sent: none is in the network or taken.
SentUpTo ==
    /\ sndNxt <= maxSeq + 1
    /\ \A s \in Pkts : data[s] > 0 \/ s \in delivered => s <= maxSeq

IInv ==
    /\ TypeOK
    /\ Taken
    /\ ReceiverExact
    /\ RxSackAboveExpected
    /\ RepliesHonest
    /\ NoFalseAck
    /\ SackHonest
    /\ SenderOrder
    /\ DoneMeansAll
    /\ SentUpTo
    /\ BdpLimit
-------------------------------------------------------------------------------
(* The block lists.                                                        *)

\* Every set of naturals has a least element.
LEMMA LeastNatural ==
    ASSUME NEW S, S \subseteq Nat, S # {}
    PROVE  \E least \in S : \A n \in S : least <= n
PROOF
<1> DEFINE lessThan == OpToRel(<, Nat)
<1>1. IsWellFoundedOn(lessThan, Nat)
  BY NatLessThanWellFounded
<1>2. \A a, b \in Nat : a < b => <<a, b>> \in lessThan
  BY DEF OpToRel
<1> HIDE DEF lessThan
<1>3. PICK least \in S : \A n \in S : <<n, least>> \notin lessThan
  BY <1>1, WFMin
<1>4. \A n \in S : ~(n < least)
  BY <1>2, <1>3
<1> QED
  BY <1>4

\* The run of a set that starts at start ends where the set first has a gap.
LEMMA RunEndFacts ==
    ASSUME NEW set \in SUBSET Pkts, NEW start \in Bounds
    PROVE  /\ RunEnd(set, start) \in Bounds
           /\ RunEnd(set, start) >= start
           /\ \A s \in Pkts : start <= s /\ s < RunEnd(set, start) => s \in set
           /\ RunEnd(set, start) \notin set
PROOF
<1> DEFINE gaps == {e \in Bounds : e >= start /\ e \notin set}
<1>1. NumPkts \in gaps
  BY IrnAssumption DEF Bounds, Pkts
<1>2. gaps \subseteq Nat
  BY DEF Bounds
<1>3. PICK first \in gaps : \A e \in gaps : first <= e
  <2> HIDE DEF gaps
  <2> QED
    BY <1>1, <1>2, LeastNatural
<1>4. \A s \in Pkts : start <= s /\ s < first => s \in set
  BY <1>3, IrnAssumption DEF Pkts, Bounds
<1> QED
  BY <1>3, <1>4 DEF RunEnd

\* Passing a front block moves forward, over packets of the set only, to a
\* packet that the set does not have.
LEMMA PastFrontBlockFacts ==
    ASSUME NEW set \in SUBSET Pkts, NEW n \in Bounds
    PROVE  /\ PastFrontBlock(set, n) \in Bounds
           /\ PastFrontBlock(set, n) >= n
           /\ \A s \in Pkts : n <= s /\ s < PastFrontBlock(set, n) => s \in set
           /\ FrontBlockAt(set, n) => PastFrontBlock(set, n) \notin set
           /\ ~FrontBlockAt(set, n) => PastFrontBlock(set, n) = n
PROOF
<1>1. CASE FrontBlockAt(set, n)
  BY <1>1, RunEndFacts DEF PastFrontBlock
<1>2. CASE ~FrontBlockAt(set, n)
  BY <1>2, IrnAssumption DEF PastFrontBlock, Bounds, Pkts
<1> QED
  BY <1>1, <1>2

\* The skip of GetBytesLeft moves snd_nxt over packets of the set only, and
\* the set only loses packets.
LEMMA SkipFacts ==
    ASSUME NEW set \in SUBSET Pkts, NEW n \in Bounds
    PROVE  /\ SkipSacked(n, set) \in Bounds
           /\ SkipSacked(n, set) >= n
           /\ \A s \in Pkts : n <= s /\ s < SkipSacked(n, set) => s \in set
           /\ \A e : DiscardUpTo(set, e) \subseteq set
  BY PastFrontBlockFacts DEF SkipSacked, DiscardUpTo

-------------------------------------------------------------------------------
(* The network.                                                            *)

\* A reply that is sent is the only new one.
LEMMA ReplyFacts ==
    ASSUME acks \in [Replies -> Nat],
           NEW seq \in Bounds, NEW nack \in Pkts \cup {NoNack},
           Reply(seq, nack)
    PROVE  /\ acks' \in [Replies -> Nat]
           /\ \A m \in Replies : acks'[m] > 0 =>
                  acks[m] > 0 \/ (m.seq = seq /\ m.nack = nack)
PROOF
<1> DEFINE new == [seq |-> seq, nack |-> nack]
<1>1. new \in Replies /\ new.seq = seq /\ new.nack = nack
  BY DEF Replies
<1>2. acks' = [acks EXCEPT ![new] = acks[new] + 1]
  BY DEF Reply
<1>3. acks' \in [Replies -> Nat] /\ \A m \in Replies : m # new => acks'[m] = acks[m]
  <2> HIDE DEF new
  <2> QED
    BY <1>1, <1>2
<1> QED
  BY <1>1, <1>3

\* Taking a reply off the network adds none.
LEMMA TakeAckFacts ==
    ASSUME acks \in [Replies -> Nat], NEW m \in Replies, TakeAck(m)
    PROVE  /\ acks[m] > 0
           /\ acks' \in [Replies -> Nat]
           /\ \A r \in Replies : acks'[r] > 0 => acks[r] > 0
PROOF
<1>1. acks[m] > 0 /\ acks' = [acks EXCEPT ![m] = acks[m] - 1]
  BY DEF TakeAck
<1> QED
  BY <1>1

\* Taking a data packet off the network adds none.
LEMMA TakeDataFacts ==
    ASSUME data \in [Pkts -> Nat], NEW s \in Pkts, TakeData(s)
    PROVE  /\ data[s] > 0
           /\ data' \in [Pkts -> Nat]
           /\ \A p \in Pkts : data'[p] > 0 => data[p] > 0
PROOF
<1>1. data[s] > 0 /\ data' = [data EXCEPT ![s] = data[s] - 1]
  BY DEF TakeData
<1> QED
  BY <1>1

\* A data packet that is sent is the only new one.
LEMMA PutDataFacts ==
    ASSUME data \in [Pkts -> Nat], NEW s \in Pkts, PutData(s)
    PROVE  /\ data' \in [Pkts -> Nat]
           /\ \A p \in Pkts : data'[p] > 0 => data[p] > 0 \/ p = s
PROOF
<1>1. data' = [data EXCEPT ![s] = data[s] + 1]
  BY DEF PutData
<1> QED
  BY <1>1

-------------------------------------------------------------------------------
(* The packets that BdpLimit counts.                                       *)

Missing(low, high, got) == {s \in Pkts : low <= s /\ s <= high /\ s \notin got}

LEMMA CountSubset ==
    ASSUME NEW S, NEW T, IsFiniteSet(T), S \subseteq T
    PROVE  /\ IsFiniteSet(S)
           /\ Cardinality(S) \in Nat /\ Cardinality(T) \in Nat
           /\ Cardinality(S) <= Cardinality(T)
  BY FS_Subset, FS_CardinalityType

\* Packets between two bounds are at most as many as the bounds allow.
LEMMA CountRange ==
    ASSUME NEW low \in Int, NEW high \in Int, low <= high + 1,
           NEW S, S \subseteq low .. high
    PROVE  Cardinality(S) \in Nat /\ Cardinality(S) <= high - low + 1
PROOF
<1> DEFINE range == low .. high
<1>1. IsFiniteSet(range) /\ Cardinality(range) = high - low + 1
  BY FS_Interval
<1> HIDE DEF range
<1>2. /\ Cardinality(S) \in Nat /\ Cardinality(range) \in Nat
      /\ Cardinality(S) <= Cardinality(range)
  BY <1>1, CountSubset DEF range
<1> QED
  BY <1>1, <1>2

\* One other packet counts for one more.
LEMMA CountRangeAndOne ==
    ASSUME NEW low \in Int, NEW high \in Int, low <= high + 1, NEW extra,
           NEW S, S \subseteq (low .. high) \cup {extra}
    PROVE  Cardinality(S) <= high - low + 2
PROOF
<1> DEFINE range == low .. high
<1>1. IsFiniteSet(range) /\ Cardinality(range) = high - low + 1
  BY FS_Interval
<1>2. S \subseteq range \cup {extra}
  OBVIOUS
<1> HIDE DEF range
<1>3. /\ IsFiniteSet(range \cup {extra})
      /\ Cardinality(range \cup {extra}) <= high - low + 2
  BY <1>1, FS_AddElement
<1>4. /\ Cardinality(S) \in Nat /\ Cardinality(range \cup {extra}) \in Nat
      /\ Cardinality(S) <= Cardinality(range \cup {extra})
  BY <1>2, <1>3, CountSubset
<1> QED
  BY <1>3, <1>4

\* The limit is kept by whatever sends nothing further: deliveries and
\* acknowledgements leave fewer packets to count.
LEMMA BdpLimitKept ==
    ASSUME BdpLimit, qpDone => qpDone',
           highestAck \in Bounds, highestAck' \in Bounds, maxSeq \in Pkts,
           highestAck' >= highestAck, maxSeq' = maxSeq,
           delivered \subseteq delivered'
    PROVE  BdpLimit'
PROOF
<1> SUFFICES ASSUME ~qpDone'
             PROVE  Cardinality(Missing(highestAck', maxSeq', delivered')) <= Bdp
  BY DEF BdpLimit, Missing
<1> DEFINE before == Missing(highestAck, maxSeq, delivered)
           after == Missing(highestAck', maxSeq', delivered')
<1>1. Cardinality(before) <= Bdp
  BY DEF BdpLimit, Missing
<1>2. after \subseteq before
  BY IrnAssumption DEF Missing, Pkts, Bounds
<1>3. IsFiniteSet(Pkts) /\ before \subseteq Pkts
  BY IrnAssumption, FS_Interval DEF Pkts, Missing
<1> HIDE DEF before, after
<1>4. /\ Cardinality(after) \in Nat /\ Cardinality(before) \in Nat
      /\ Cardinality(after) <= Cardinality(before)
  BY <1>2, <1>3, CountSubset
<1> QED
  BY <1>1, <1>4, IrnAssumption DEF after

-------------------------------------------------------------------------------
(* The inductive invariant.                                                *)

LEMMA InitInv == Init => IInv
<1> SUFFICES ASSUME Init PROVE IInv
  OBVIOUS
<1> USE IrnAssumption
<1>1. TypeOK
  <2>1. 0 \in Pkts /\ 0 \in Bounds
    BY DEF Pkts, Bounds
  <2> QED
    BY <2>1 DEF Init, TypeOK
<1>2. Taken /\ RxSackAboveExpected /\ SenderOrder /\ DoneMeansAll /\ SentUpTo
  BY DEF Init, Taken, RxSackAboveExpected, SenderOrder, DoneMeansAll, SentUpTo, Pkts
<1>3. ReceiverExact /\ RepliesHonest /\ NoFalseAck /\ SackHonest
  BY DEF Init, ReceiverExact, RepliesHonest, NoFalseAck, SackHonest, Pkts
<1>4. BdpLimit
  <2>1. Missing(highestAck, maxSeq, delivered) \subseteq 0 .. 0
    BY DEF Init, Missing, Pkts
  <2>2. Cardinality(Missing(highestAck, maxSeq, delivered)) <= 1
    BY <2>1, CountRange
  <2>3. Cardinality(Missing(highestAck, maxSeq, delivered)) \in Nat
    BY <2>1, FS_Interval, CountSubset
  <2> QED
    BY <2>2, <2>3 DEF BdpLimit, Missing
<1> QED
  BY <1>1, <1>2, <1>3, <1>4 DEF IInv

\* Packets that the sender skips have arrived, so they have been sent.
LEMMA SkipStaysSent ==
    ASSUME IInv, NEW n \in Bounds, n <= maxSeq + 1,
           NEW set \in SUBSET Pkts, qpDone \/ set \subseteq delivered
    PROVE  SkipSacked(n, set) <= maxSeq + 1
PROOF
<1> DEFINE nxt == SkipSacked(n, set)
<1>1. /\ nxt \in Bounds /\ nxt >= n
      /\ \A s \in Pkts : n <= s /\ s < nxt => s \in set
  BY SkipFacts
<1>2. maxSeq \in Pkts /\ \A s \in Pkts : s \in delivered => s <= maxSeq
  BY DEF IInv, TypeOK, SentUpTo
<1>3. set \subseteq delivered
  BY DEF IInv, DoneMeansAll
<1> HIDE DEF nxt
<1>4. CASE nxt = n
  BY <1>4 DEF nxt
<1>5. CASE nxt # n
  <2>1. nxt - 1 \in Pkts /\ n <= nxt - 1 /\ nxt - 1 < nxt
    BY <1>1, <1>5, IrnAssumption DEF Pkts, Bounds
  <2>2. nxt - 1 <= maxSeq
    BY <1>1, <1>2, <1>3, <2>1
  <2> QED
    BY <1>1, <1>2, <2>2, IrnAssumption DEF nxt, Pkts, Bounds
<1> QED
  BY <1>4, <1>5

\* A step that moves snd_nxt within what was sent, and forgets at most some
\* selective acknowledgements, keeps the invariant.
LEMMA MoveNxtInv ==
    ASSUME IInv,
           sndNxt' \in Bounds, sndUna <= sndNxt', sndNxt' <= maxSeq + 1,
           sack' \subseteq sack, recovery' \in BOOLEAN, timer' \in BOOLEAN,
           UNCHANGED <<sndUna, highestAck, maxSeq, recoverySeq, qpDone, rxVars,
                       data, acks, delivered>>
    PROVE  IInv'
PROOF
<1> USE DEF IInv
<1>1. TypeOK'
  BY DEF TypeOK, rxVars
<1>2. (Taken /\ ReceiverExact /\ RxSackAboveExpected /\ RepliesHonest)'
  BY DEF Taken, ReceiverExact, RxSackAboveExpected, RepliesHonest, rxVars
<1>3. (NoFalseAck /\ SackHonest /\ DoneMeansAll)'
  BY DEF NoFalseAck, SackHonest, DoneMeansAll, rxVars
<1>4. (SenderOrder /\ SentUpTo)'
  BY DEF SenderOrder, SentUpTo
<1>5. BdpLimit'
  BY DEF BdpLimit
<1> QED
  BY <1>1, <1>2, <1>3, <1>4, <1>5

LEMMA PollQpInv == IInv /\ PollQp => IInv'
<1> SUFFICES ASSUME IInv, PollQp PROVE IInv'
  OBVIOUS
<1>1. /\ sndNxt \in Bounds /\ sndUna \in Bounds /\ maxSeq \in Pkts
      /\ sack \in SUBSET Pkts /\ timer \in BOOLEAN /\ recovery \in BOOLEAN
      /\ qpDone \/ sack \subseteq delivered
      /\ sndUna <= sndNxt /\ sndNxt <= maxSeq + 1
  BY DEF IInv, TypeOK, SackHonest, SenderOrder, SentUpTo
<1>2. sndNxt' = SkipSacked(sndNxt, sack) /\ sack' \subseteq sack
  BY <1>1, SkipFacts DEF PollQp, Skip
<1>3. sndNxt' \in Bounds /\ sndUna <= sndNxt' /\ sndNxt' <= maxSeq + 1
  BY <1>1, <1>2, SkipFacts, SkipStaysSent DEF Bounds
<1> QED
  BY <1>1, <1>2, <1>3, MoveNxtInv DEF PollQp

LEMMA HandleTimeoutInv == IInv /\ HandleTimeout => IInv'
<1> SUFFICES ASSUME IInv, HandleTimeout PROVE IInv'
  OBVIOUS
<1>1. /\ sndNxt \in Bounds /\ sndUna \in Bounds /\ maxSeq \in Pkts
      /\ sack \in SUBSET Pkts /\ recovery \in BOOLEAN
      /\ qpDone \/ sack \subseteq delivered
      /\ sndUna <= sndNxt /\ sndNxt <= maxSeq + 1
  BY DEF IInv, TypeOK, SackHonest, SenderOrder, SentUpTo
<1>2. /\ sndNxt' = SkipSacked(sndNxt, sack) \/ sndNxt' = sndUna
      /\ sack' \subseteq sack
  BY <1>1, SkipFacts DEF HandleTimeout, RecoverQueue
<1>3. sndNxt' \in Bounds /\ sndUna <= sndNxt' /\ sndNxt' <= maxSeq + 1
  <2>1. CASE sndNxt' = SkipSacked(sndNxt, sack)
    <3>1. sndNxt' \in Bounds /\ sndNxt <= sndNxt' /\ sndNxt' <= maxSeq + 1
      BY <1>1, <2>1, SkipFacts, SkipStaysSent
    <3> QED
      BY <1>1, <3>1 DEF Bounds
  <2>2. CASE sndNxt' = sndUna
    BY <1>1, <2>2, IrnAssumption DEF Bounds, Pkts
  <2> QED
    BY <1>2, <2>1, <2>2
<1>4. recovery' \in BOOLEAN /\ timer' \in BOOLEAN
  BY <1>1 DEF HandleTimeout
<1> QED
  BY <1>2, <1>3, <1>4, MoveNxtInv DEF HandleTimeout

\* The next packet, sent again or for the first time: it moves maxSeq by at
\* most one, and only when the BDP limit leaves room for it.
LEMMA GetNxtPacketInv == IInv /\ GetNxtPacket => IInv'
<1> SUFFICES ASSUME IInv, GetNxtPacket PROVE IInv'
  OBVIOUS
<1> DEFINE seq == SkipSacked(sndNxt, sack)
<1>1. /\ sndNxt \in Bounds /\ sndUna \in Bounds /\ highestAck \in Bounds
      /\ maxSeq \in Pkts /\ sack \in SUBSET Pkts
      /\ highestAck <= sndUna /\ sndUna <= sndNxt /\ sndNxt <= maxSeq + 1
      /\ qpDone \/ sack \subseteq delivered
  BY DEF IInv, TypeOK, SackHonest, SenderOrder, SentUpTo
<1>2. /\ CanIrnTransmit /\ seq < NumPkts /\ PutData(seq) /\ sndNxt' = seq + 1
      /\ maxSeq' = Larger(maxSeq, seq) /\ timer' = TRUE
      /\ UNCHANGED <<sndUna, highestAck, recovery, recoverySeq, qpDone,
                     expected, held, tracker, acks, delivered>>
  BY DEF GetNxtPacket, rxVars
<1>3. sack' \subseteq sack
  BY <1>1, SkipFacts DEF GetNxtPacket
<1>4. /\ seq \in Pkts /\ sndNxt <= seq /\ seq <= maxSeq + 1
      /\ \A s \in Pkts : sndNxt <= s /\ s < seq => s \in sack
  <2>1. /\ seq \in Bounds /\ seq >= sndNxt /\ seq <= maxSeq + 1
        /\ \A s \in Pkts : sndNxt <= s /\ s < seq => s \in sack
    BY <1>1, SkipFacts, SkipStaysSent
  <2> HIDE DEF seq
  <2> QED
    BY <1>1, <1>2, <2>1, IrnAssumption DEF Pkts, Bounds
<1> HIDE DEF seq
<1>5. ~qpDone /\ sack \subseteq delivered
  BY <1>1, <1>4, IrnAssumption DEF IInv, DoneMeansAll, Pkts, Bounds
<1>6. /\ data' \in [Pkts -> Nat]
      /\ \A p \in Pkts : data'[p] > 0 => data[p] > 0 \/ p = seq
  BY <1>2, <1>4, PutDataFacts DEF IInv, TypeOK
<1>7. maxSeq' \in Pkts /\ maxSeq <= maxSeq' /\ seq <= maxSeq' /\ sndNxt' \in Bounds
  BY <1>1, <1>2, <1>4, IrnAssumption DEF Larger, Pkts, Bounds
<1>8. TypeOK'
  BY <1>2, <1>3, <1>6, <1>7 DEF IInv, TypeOK
<1>9. (Taken /\ ReceiverExact /\ RxSackAboveExpected /\ RepliesHonest)'
  BY <1>2 DEF IInv, Taken, ReceiverExact, RxSackAboveExpected, RepliesHonest
<1>10. (NoFalseAck /\ SackHonest /\ DoneMeansAll)'
  BY <1>2, <1>3, <1>5 DEF IInv, NoFalseAck, SackHonest, DoneMeansAll
<1>11. (SenderOrder /\ SentUpTo)'
  <2>1. SenderOrder'
    BY <1>1, <1>2, <1>4, IrnAssumption DEF SenderOrder, Bounds, Pkts
  <2>2. \A s \in Pkts : data'[s] > 0 \/ s \in delivered => s <= maxSeq'
    BY <1>1, <1>4, <1>6, <1>7, IrnAssumption DEF IInv, SentUpTo, Pkts
  <2> QED
    BY <1>2, <1>4, <1>7, <2>1, <2>2, IrnAssumption DEF SentUpTo, Pkts
<1>12. BdpLimit'
  <2>1. CASE seq <= maxSeq
    <3>1. maxSeq' = maxSeq
      BY <1>1, <1>2, <1>4, <2>1, IrnAssumption DEF Larger, Pkts
    <3> QED
      BY <1>2, <3>1 DEF IInv, BdpLimit
  <2>2. CASE seq = maxSeq + 1
    <3> DEFINE after == Missing(highestAck, seq, delivered)
    <3>1. maxSeq' = seq
      BY <1>1, <1>2, <1>4, <2>2, IrnAssumption DEF Larger, Pkts
    <3>2. after \subseteq highestAck .. seq
      BY <1>1, <1>4, IrnAssumption DEF Missing, Pkts, Bounds
    <3>3. after \subseteq (highestAck .. sndNxt - 1) \cup {seq}
      BY <1>1, <1>4, <1>5, IrnAssumption DEF Missing, Pkts, Bounds
    <3> HIDE DEF after
    <3>4. /\ highestAck \in Int /\ seq \in Int /\ highestAck <= seq + 1
          /\ sndNxt - 1 \in Int /\ highestAck <= (sndNxt - 1) + 1
      BY <1>1, <1>4, IrnAssumption DEF Pkts, Bounds
    <3>5. CASE maxSeq - highestAck + 1 < Bdp /\ highestAck <= maxSeq
      <4>1. Cardinality(after) \in Nat /\ Cardinality(after) <= seq - highestAck + 1
        BY <3>2, <3>4, CountRange
      <4>2. Cardinality(after) <= Bdp
        BY <1>1, <2>2, <3>4, <3>5, <4>1, IrnAssumption DEF Pkts
      <4> QED
        BY <1>2, <3>1, <4>2 DEF BdpLimit, Missing, after
    <3>6. CASE highestAck + Bdp > sndNxt
      <4>1. /\ Cardinality(after) \in Nat
            /\ Cardinality(after) <= (sndNxt - 1) - highestAck + 2
        BY <3>2, <3>3, <3>4, CountRange, CountRangeAndOne
      <4>2. Cardinality(after) <= Bdp
        BY <1>1, <3>4, <3>6, <4>1, IrnAssumption DEF Bounds
      <4> QED
        BY <1>2, <3>1, <4>2 DEF BdpLimit, Missing, after
    <3> QED
      BY <1>2, <3>5, <3>6 DEF CanIrnTransmit
  <2> QED
    BY <1>1, <1>4, <2>1, <2>2, IrnAssumption DEF Pkts
<1> QED
  BY <1>8, <1>9, <1>10, <1>11, <1>12 DEF IInv

\* What a live sender makes of a reply: snd_una stays within what the
\* receiver has, the rest of the sack list lies above it, and snd_nxt lands
\* between snd_una and the furthest packet sent.
LEMMA AcknowledgeFacts ==
    ASSUME IInv, ~qpDone, NEW m \in Replies, acks[m] > 0, Acknowledge(m)
    PROVE  /\ sndUna' \in Bounds /\ sndUna <= sndUna' /\ sndUna' <= expected
           /\ sack' \in SUBSET Pkts /\ sack' \subseteq delivered
           /\ \A s \in sack' : s >= sndUna'
           /\ sndNxt' \in Bounds /\ sndUna' <= sndNxt' /\ sndNxt' <= maxSeq + 1
           /\ highestAck' \in Bounds /\ highestAck <= highestAck' /\ highestAck' <= sndUna'
           /\ recovery' \in BOOLEAN /\ recoverySeq' \in 0 .. NumPkts + 1
           /\ maxSeq' = maxSeq
           /\ IF sndUna' >= NumPkts
              THEN QpComplete
              ELSE timer' \in BOOLEAN /\ UNCHANGED <<qpDone, expected, held, tracker>>
PROOF
<1> DEFINE marked == Marked(m)
           from   == Larger(sndUna, m.seq)
           una    == CumulativeAfter(from, marked)
           left   == DiscardUpTo(marked, una)
           pulled == PulledNxt(una)
           nxt    == SkipSacked(pulled, left)
<1>1. /\ sndNxt \in Bounds /\ sndUna \in Bounds /\ highestAck \in Bounds
      /\ expected \in Bounds /\ maxSeq \in Pkts /\ sack \in SUBSET Pkts
      /\ recoverySeq \in 0 .. NumPkts + 1 /\ recovery \in BOOLEAN
      /\ delivered \in SUBSET Pkts
  BY DEF IInv, TypeOK
<1>2. /\ highestAck <= sndUna /\ sndUna <= sndNxt /\ sndNxt <= maxSeq + 1
      /\ sndUna <= expected /\ sack \subseteq delivered /\ expected \notin delivered
      /\ \A s \in Pkts : s < expected => s \in delivered
      /\ \A s \in Pkts : s \in delivered => s <= maxSeq
  BY DEF IInv, SenderOrder, SentUpTo, NoFalseAck, SackHonest, ReceiverExact, Taken
<1>3. /\ m.seq \in Bounds /\ m.nack \in Pkts \cup {NoNack} /\ m.seq <= expected
      /\ m.nack # NoNack => m.nack \in delivered
  BY DEF IInv, RepliesHonest, Replies
<1>4. /\ highestAck' = Larger(highestAck, m.seq) /\ sndUna' = una
      /\ sack' = left \/ sack' = DiscardUpTo(left, nxt)
      /\ sndNxt' = nxt \/ sndNxt' = una
      /\ recoverySeq' = nxt \/ recoverySeq' = recoverySeq
      /\ recovery' \in BOOLEAN /\ maxSeq' = maxSeq
      /\ IF una >= NumPkts THEN QpComplete ELSE KeepOpen(una, nxt)
  BY DEF Acknowledge, StartRecovery
<1>5. marked \in SUBSET Pkts /\ marked \subseteq delivered
  BY <1>1, <1>2, <1>3 DEF Marked
<1>6. /\ from \in Bounds /\ sndUna <= from /\ m.seq <= from /\ from <= expected
      /\ highestAck' \in Bounds /\ highestAck <= highestAck' /\ highestAck' <= from
  BY <1>1, <1>2, <1>3, <1>4 DEF Larger, Bounds
<1> HIDE DEF marked, from
<1>7. /\ una \in Bounds /\ from <= una
      /\ \A s \in Pkts : from <= s /\ s < una => s \in marked
  BY <1>5, <1>6, PastFrontBlockFacts DEF CumulativeAfter
<1>8. left \in SUBSET Pkts /\ left \subseteq marked /\ \A s \in left : s >= una
  BY <1>5 DEF DiscardUpTo
<1> HIDE DEF una, left
<1>9. una <= expected
  <2>1. SUFFICES ASSUME expected < una PROVE FALSE
    BY <1>1, <1>7 DEF Bounds
  <2>2. expected \in Pkts
    BY <1>1, <1>7, <2>1, IrnAssumption DEF Bounds, Pkts
  <2> QED
    BY <1>2, <1>5, <1>6, <1>7, <2>1, <2>2
<1>10. expected <= maxSeq + 1
  <2>1. CASE expected = 0
    BY <1>1, <2>1, IrnAssumption DEF Pkts
  <2>2. CASE expected # 0
    <3>1. expected - 1 \in Pkts /\ expected - 1 < expected
      BY <1>1, <2>2, IrnAssumption DEF Bounds, Pkts
    <3>2. expected - 1 <= maxSeq
      BY <1>2, <3>1
    <3> QED
      BY <1>1, <3>2, IrnAssumption DEF Bounds, Pkts
  <2> QED
    BY <2>1, <2>2
<1>11. pulled \in Bounds /\ una <= pulled /\ pulled <= maxSeq + 1
  BY <1>1, <1>2, <1>7, <1>9, <1>10, IrnAssumption DEF PulledNxt, Larger, Bounds, Pkts
<1> HIDE DEF pulled
<1>12. nxt \in Bounds /\ pulled <= nxt /\ nxt <= maxSeq + 1
  BY <1>5, <1>8, <1>11, SkipFacts, SkipStaysSent
<1> HIDE DEF nxt
<1>13. sndNxt' \in Bounds /\ una <= sndNxt' /\ sndNxt' <= maxSeq + 1
  BY <1>1, <1>4, <1>7, <1>11, <1>12, IrnAssumption DEF Bounds, Pkts
<1>14. sack' \in SUBSET Pkts /\ sack' \subseteq delivered /\ \A s \in sack' : s >= una
  BY <1>4, <1>5, <1>8 DEF DiscardUpTo
<1>15. sndUna <= una /\ highestAck' <= una
  BY <1>1, <1>6, <1>7 DEF Bounds
<1>16. recoverySeq' \in 0 .. NumPkts + 1
  BY <1>1, <1>4, <1>12, IrnAssumption DEF Bounds
<1>17. IF sndUna' >= NumPkts
       THEN QpComplete
       ELSE timer' \in BOOLEAN /\ UNCHANGED <<qpDone, expected, held, tracker>>
  BY <1>4 DEF KeepOpen, rxVars
<1> QED
  BY <1>4, <1>6, <1>7, <1>9, <1>13, <1>14, <1>15, <1>16, <1>17

\* The last acknowledgement completes the flow: all packets have arrived.
LEMMA ReceiveAckInv == \A m \in Replies : IInv /\ ReceiveAck(m) => IInv'
<1> SUFFICES ASSUME NEW m \in Replies, IInv, ReceiveAck(m) PROVE IInv'
  OBVIOUS
<1>1. /\ acks[m] > 0 /\ acks' \in [Replies -> Nat]
      /\ \A r \in Replies : acks'[r] > 0 => acks[r] > 0
  BY TakeAckFacts DEF ReceiveAck, IInv, TypeOK
<1>2. CASE qpDone
  <2>1. UNCHANGED <<sndVars, rxVars, data, delivered>>
    BY <1>2 DEF ReceiveAck
  <2>2. (TypeOK /\ Taken /\ RxSackAboveExpected /\ SenderOrder /\ DoneMeansAll)'
    BY <1>1, <2>1 DEF IInv, sndVars, rxVars, TypeOK, Taken, RxSackAboveExpected,
                      SenderOrder, DoneMeansAll
  <2>3. (ReceiverExact /\ RepliesHonest /\ NoFalseAck /\ SackHonest /\ BdpLimit)'
    BY <1>2, <2>1 DEF sndVars, ReceiverExact, RepliesHonest, NoFalseAck, SackHonest,
                      BdpLimit
  <2>4. SentUpTo'
    BY <2>1 DEF IInv, sndVars, SentUpTo
  <2> QED
    BY <2>2, <2>3, <2>4 DEF IInv
<1>3. CASE ~qpDone
  <2>1. Acknowledge(m) /\ UNCHANGED <<data, delivered>>
    BY <1>3 DEF ReceiveAck
  <2>2. /\ sndUna' \in Bounds /\ sndUna <= sndUna' /\ sndUna' <= expected
        /\ sack' \in SUBSET Pkts /\ sack' \subseteq delivered
        /\ \A s \in sack' : s >= sndUna'
        /\ sndNxt' \in Bounds /\ sndUna' <= sndNxt' /\ sndNxt' <= maxSeq + 1
        /\ highestAck' \in Bounds /\ highestAck <= highestAck' /\ highestAck' <= sndUna'
        /\ recovery' \in BOOLEAN /\ recoverySeq' \in 0 .. NumPkts + 1
        /\ maxSeq' = maxSeq
        /\ IF sndUna' >= NumPkts
           THEN QpComplete
           ELSE timer' \in BOOLEAN /\ UNCHANGED <<qpDone, expected, held, tracker>>
    BY <1>1, <1>3, <2>1, AcknowledgeFacts
  <2>3. SenderOrder' /\ SentUpTo'
    BY <2>1, <2>2 DEF IInv, SenderOrder, SentUpTo
  <2>4. BdpLimit'
    BY <1>3, <2>1, <2>2, BdpLimitKept DEF IInv, TypeOK
  <2>5. CASE sndUna' >= NumPkts
    <3>1. QpComplete
      BY <2>2, <2>5
    <3>2. sndUna' = NumPkts /\ expected = NumPkts
      BY <2>2, <2>5, IrnAssumption DEF IInv, TypeOK, Bounds
    <3>3. delivered = Pkts
      <4>1. \A s \in Pkts : s < expected
        BY <3>2, IrnAssumption DEF Pkts
      <4> QED
        BY <4>1 DEF IInv, TypeOK, Taken
    <3>4. TypeOK'
      <4>1. 0 \in Bounds
        BY IrnAssumption DEF Bounds
      <4> QED
        BY <1>1, <2>1, <2>2, <3>1, <4>1 DEF QpComplete, IInv, TypeOK
    <3>5. (Taken /\ RxSackAboveExpected /\ DoneMeansAll)'
      BY <2>1, <3>1, <3>2, <3>3 DEF QpComplete, Taken, RxSackAboveExpected,
                                    DoneMeansAll, Pkts
    <3>6. (ReceiverExact /\ RepliesHonest /\ NoFalseAck /\ SackHonest)'
      BY <3>1 DEF QpComplete, ReceiverExact, RepliesHonest, NoFalseAck, SackHonest
    <3> QED
      BY <2>3, <2>4, <3>4, <3>5, <3>6 DEF IInv
  <2>6. CASE ~(sndUna' >= NumPkts)
    <3>1. timer' \in BOOLEAN /\ UNCHANGED <<qpDone, expected, held, tracker>>
      BY <2>2, <2>6
    <3>2. TypeOK'
      BY <1>1, <2>1, <2>2, <3>1 DEF IInv, TypeOK
    <3>3. (Taken /\ ReceiverExact /\ RxSackAboveExpected /\ DoneMeansAll)'
      BY <1>3, <2>1, <3>1 DEF IInv, Taken, ReceiverExact, RxSackAboveExpected,
                              DoneMeansAll
    <3>4. RepliesHonest'
      BY <1>1, <2>1, <3>1 DEF IInv, RepliesHonest
    <3>5. NoFalseAck' /\ SackHonest'
      <4>1. \A s \in Pkts : s < sndUna' => s \in delivered
        BY <2>2, IrnAssumption DEF IInv, TypeOK, Taken, Pkts, Bounds
      <4> QED
        BY <2>1, <2>2, <3>1, <4>1 DEF NoFalseAck, SackHonest
    <3> QED
      BY <2>3, <2>4, <3>2, <3>3, <3>4, <3>5 DEF IInv
  <2> QED
    BY <2>5, <2>6
<1> QED
  BY <1>2, <1>3

\* A step of the receiver keeps the invariant when what it adds to its own
\* record is what it takes, and the reply it sends is true.
LEMMA ReceiverStepInv ==
    ASSUME IInv, NEW s \in Pkts, data[s] > 0,
           data' \in [Pkts -> Nat], \A p \in Pkts : data'[p] > 0 => data[p] > 0,
           expected' \in Bounds, held' \in SUBSET Pkts, tracker' \in SUBSET Pkts,
           acks' \in [Replies -> Nat],
           delivered' = delivered \/ delivered' = delivered \cup {s},
           (Taken /\ ReceiverExact /\ RxSackAboveExpected)',
           ~qpDone => expected <= expected',
           \A m \in Replies : acks'[m] > 0 =>
               \/ acks[m] > 0
               \/ m.seq = expected' /\ (m.nack # NoNack => m.nack \in delivered'),
           UNCHANGED sndVars
    PROVE  IInv'
PROOF
<1>1. TypeOK'
  BY DEF IInv, TypeOK, sndVars
<1>2. RepliesHonest'
  BY DEF IInv, TypeOK, RepliesHonest, Replies, Bounds, sndVars
<1>3. NoFalseAck' /\ SackHonest'
  BY <1>1 DEF IInv, TypeOK, NoFalseAck, SackHonest, Bounds, sndVars
<1>4. SenderOrder' /\ SentUpTo'
  BY DEF IInv, SenderOrder, SentUpTo, sndVars
<1>5. DoneMeansAll'
  BY DEF IInv, DoneMeansAll, sndVars
<1>6. BdpLimit'
  BY BdpLimitKept DEF IInv, TypeOK, sndVars, Bounds
<1> QED
  BY <1>1, <1>2, <1>3, <1>4, <1>5, <1>6 DEF IInv

\* The receiver's five answers to a data packet, one step for each.
LEMMA ReceiveUdpInv == \A s \in Pkts : IInv /\ ReceiveUdp(s) => IInv'
<1> SUFFICES ASSUME NEW s \in Pkts, IInv, ReceiveUdp(s) PROVE IInv'
  OBVIOUS
<1>1. /\ data[s] > 0 /\ data' \in [Pkts -> Nat]
      /\ \A p \in Pkts : data'[p] > 0 => data[p] > 0
  BY TakeDataFacts DEF ReceiveUdp, IInv, TypeOK
<1>2. UNCHANGED sndVars /\ UNCHANGED qpDone
  BY DEF ReceiveUdp, sndVars
<1>3. /\ expected \in Bounds /\ held \in SUBSET Pkts /\ tracker \in SUBSET Pkts
      /\ delivered \in SUBSET Pkts /\ (AR => held = {})
      /\ acks \in [Replies -> Nat] /\ held \subseteq delivered
      /\ tracker \subseteq delivered
      /\ \A p \in Pkts : p < expected => p \in delivered
      /\ \A p \in held : p > expected
      /\ ~qpDone => /\ expected \notin delivered
                    /\ AR => delivered = tracker
                    /\ ~AR => \A p \in delivered : p < expected \/ p \in held
  BY DEF IInv, TypeOK, Taken, RxSackAboveExpected, ReceiverExact
<1> Pkts \subseteq Int /\ Bounds \subseteq Int
  BY IrnAssumption DEF Pkts, Bounds
<1>4. CASE AcceptInOrder(s)
  <2> DEFINE next == expected + (1 - (expected - s))
  <2>1. /\ ~AR
        /\ s = expected \/ s + 1 = expected
        /\ expected' = PastFrontBlock(held, next)
        /\ held' = {p \in held : p >= expected'}
        /\ ReplyFor(s) /\ delivered' = delivered \cup {s} /\ tracker' = tracker
    BY <1>4 DEF AcceptInOrder, AdvanceOver, DiscardUpTo
  <2>2. next = s + 1 /\ next \in Bounds /\ expected <= next
    BY <1>3, <2>1, IrnAssumption DEF Bounds, Pkts
  <2> HIDE DEF next
  <2>3. /\ expected' \in Bounds /\ next <= expected'
        /\ \A p \in Pkts : next <= p /\ p < expected' => p \in held
        /\ FrontBlockAt(held, next) => expected' \notin held
        /\ ~FrontBlockAt(held, next) => expected' = next
    BY <1>3, <2>1, <2>2, PastFrontBlockFacts
  <2>4. expected' \notin held
    <3>1. SUFFICES ASSUME ~FrontBlockAt(held, next), next \in held PROVE FALSE
      BY <2>3
    <3>2. \A p \in held : next <= p
      BY <1>3, <2>1, <2>2, IrnAssumption DEF Pkts, Bounds
    <3> QED
      BY <3>1, <3>2 DEF FrontBlockAt
  <2>5. held' \in SUBSET Pkts /\ \A p \in held' : p > expected'
    <3>1. held' \subseteq held /\ \A p \in held' : p >= expected' /\ p # expected'
      BY <2>1, <2>4
    <3>2. \A p \in held' : p \in Int
      BY <1>3, <3>1
    <3> QED
      BY <1>3, <2>3, <3>1, <3>2
  <2>6. Taken'
    <3>1. \A p \in Pkts : p < expected' => p < expected \/ p = s \/ p \in held
      BY <1>3, <2>1, <2>2, <2>3
    <3>2. held' \subseteq held
      BY <2>1
    <3> QED
      BY <1>3, <2>1, <3>1, <3>2 DEF Taken
  <2>7. ReceiverExact'
    <3>1. SUFFICES ASSUME ~qpDone
                   PROVE  /\ expected' \notin delivered'
                          /\ \A p \in delivered' : p < expected' \/ p \in held'
      BY <1>2, <2>1 DEF ReceiverExact
    <3>2. expected' \notin delivered'
      BY <1>3, <2>1, <2>2, <2>3, <2>4, <3>1, IrnAssumption DEF Pkts, Bounds
    <3>3. \A p \in delivered' : p < expected' \/ p \in held'
      BY <1>3, <2>1, <2>2, <2>3, <3>1, IrnAssumption DEF Pkts, Bounds
    <3> QED
      BY <3>2, <3>3
  <2>8. RxSackAboveExpected'
    BY <2>5 DEF RxSackAboveExpected
  <2>9. /\ acks' \in [Replies -> Nat]
        /\ \A m \in Replies : acks'[m] > 0 =>
               acks[m] > 0 \/ (m.seq = expected' /\ m.nack \in {NoNack, s})
    BY <1>3, <2>1, <2>3, ReplyFacts DEF ReplyFor
  <2>10. /\ \A m \in Replies : acks'[m] > 0 =>
               \/ acks[m] > 0
               \/ m.seq = expected' /\ (m.nack # NoNack => m.nack \in delivered')
         /\ expected <= expected'
    BY <1>3, <2>1, <2>2, <2>3, <2>9 DEF Bounds
  <2> QED
    BY <1>1, <1>2, <1>3, <2>1, <2>3, <2>5, <2>6, <2>7, <2>8, <2>9, <2>10, ReceiverStepInv
<1>5. CASE HoldOutOfOrder(s)
  <2>1. /\ ~AR /\ s > expected /\ held' = held \cup {s} /\ expected' = expected
        /\ delivered' = delivered \cup {s} /\ tracker' = tracker
        /\ UNCHANGED acks \/ Reply(expected, s)
    BY <1>5 DEF HoldOutOfOrder
  <2>2. /\ acks' \in [Replies -> Nat]
        /\ \A m \in Replies : acks'[m] > 0 =>
               acks[m] > 0 \/ (m.seq = expected /\ m.nack = s)
    BY <1>3, <2>1, ReplyFacts
  <2>3. (Taken /\ ReceiverExact /\ RxSackAboveExpected)'
    BY <1>2, <1>3, <2>1, IrnAssumption
    DEF Taken, ReceiverExact, RxSackAboveExpected, Pkts, Bounds
  <2>4. held' \in SUBSET Pkts /\ s \in delivered' /\ expected <= expected'
    BY <1>3, <2>1 DEF Bounds
  <2> QED
    BY <1>1, <1>2, <1>3, <2>1, <2>2, <2>3, <2>4, ReceiverStepInv
<1>6. CASE AckDuplicate(s)
  <2>1. /\ ~AR /\ s + 1 < expected /\ UNCHANGED <<expected, held, tracker, delivered>>
        /\ ReplyFor(s)
    BY <1>6 DEF AckDuplicate, rxVars
  <2>2. /\ acks' \in [Replies -> Nat]
        /\ \A m \in Replies : acks'[m] > 0 =>
               acks[m] > 0 \/ (m.seq = expected' /\ m.nack \in {NoNack, s})
    BY <1>3, <2>1, ReplyFacts DEF ReplyFor
  <2>3. (Taken /\ ReceiverExact /\ RxSackAboveExpected)'
    BY <1>2, <1>3, <2>1 DEF Taken, ReceiverExact, RxSackAboveExpected
  <2>4. s \in delivered' /\ expected <= expected'
    BY <1>3, <2>1, IrnAssumption DEF Pkts, Bounds
  <2> QED
    BY <1>1, <1>2, <1>3, <2>1, <2>2, <2>3, <2>4, ReceiverStepInv
<1>7. CASE KeepAnyOrder(s)
  <2>1. /\ AR /\ s >= expected /\ tracker' = tracker \cup {s} /\ held' = held
        /\ expected' = IF 0 \in tracker' THEN RunEnd(tracker', 0) ELSE 0
        /\ UNCHANGED acks \/ Reply(expected', NoNack)
        /\ delivered' = delivered \cup {s}
    BY <1>7 DEF KeepAnyOrder, NextExpected
  <2>2. tracker' \in SUBSET Pkts /\ 0 \in Bounds
    BY <1>3, <2>1, IrnAssumption DEF Bounds
  <2>3. /\ RunEnd(tracker', 0) \in Bounds /\ RunEnd(tracker', 0) \notin tracker'
        /\ \A p \in Pkts : 0 <= p /\ p < RunEnd(tracker', 0) => p \in tracker'
    BY <2>2, RunEndFacts
  <2>4. /\ expected' \in Bounds /\ expected' \notin tracker'
        /\ \A p \in Pkts : p < expected' => p \in tracker'
    BY <2>1, <2>2, <2>3, IrnAssumption DEF Pkts
  <2>5. (Taken /\ ReceiverExact /\ RxSackAboveExpected)'
    BY <1>2, <1>3, <2>1, <2>4 DEF Taken, ReceiverExact, RxSackAboveExpected
  <2>6. ASSUME ~qpDone PROVE expected <= expected'
    <3>1. SUFFICES ASSUME expected' < expected PROVE FALSE
      BY <1>3, <2>4 DEF Bounds
    <3>2. expected' \in Pkts
      BY <1>3, <2>4, <3>1, IrnAssumption DEF Pkts, Bounds
    <3> QED
      BY <1>3, <2>1, <2>4, <2>6, <3>1, <3>2
  <2>7. /\ acks' \in [Replies -> Nat]
        /\ \A m \in Replies : acks'[m] > 0 =>
               acks[m] > 0 \/ (m.seq = expected' /\ m.nack = NoNack)
    BY <1>3, <2>1, <2>4, ReplyFacts
  <2> QED
    BY <1>1, <1>2, <1>3, <2>1, <2>2, <2>4, <2>5, <2>6, <2>7, ReceiverStepInv
<1>8. CASE AckDuplicateAr(s)
  <2>1. /\ AR /\ UNCHANGED <<expected, held, tracker, delivered>> /\ Reply(expected, NoNack)
    BY <1>8 DEF AckDuplicateAr, rxVars
  <2>2. /\ acks' \in [Replies -> Nat]
        /\ \A m \in Replies : acks'[m] > 0 =>
               acks[m] > 0 \/ (m.seq = expected' /\ m.nack = NoNack)
    BY <1>3, <2>1, ReplyFacts
  <2>3. (Taken /\ ReceiverExact /\ RxSackAboveExpected)' /\ expected <= expected'
    BY <1>2, <1>3, <2>1 DEF Taken, ReceiverExact, RxSackAboveExpected, Bounds
  <2> QED
    BY <1>1, <1>2, <1>3, <2>1, <2>2, <2>3, ReceiverStepInv
<1> QED
  BY <1>4, <1>5, <1>6, <1>7, <1>8 DEF ReceiveUdp

LEMMA LoseDataInv == \A s \in Pkts : IInv /\ LoseData(s) => IInv'
<1> SUFFICES ASSUME NEW s \in Pkts, IInv, LoseData(s) PROVE IInv'
  OBVIOUS
<1>1. /\ data' \in [Pkts -> Nat]
      /\ \A p \in Pkts : data'[p] > 0 => data[p] > 0
      /\ UNCHANGED <<sndVars, rxVars, acks, delivered>>
  BY TakeDataFacts DEF LoseData, IInv, TypeOK
<1>2. TypeOK'
  BY <1>1 DEF IInv, TypeOK, sndVars, rxVars
<1>3. (Taken /\ ReceiverExact /\ RxSackAboveExpected /\ RepliesHonest)'
  BY <1>1 DEF IInv, Taken, ReceiverExact, RxSackAboveExpected, RepliesHonest,
              sndVars, rxVars
<1>4. (NoFalseAck /\ SackHonest /\ SenderOrder /\ DoneMeansAll)'
  BY <1>1 DEF IInv, NoFalseAck, SackHonest, SenderOrder, DoneMeansAll, sndVars, rxVars
<1>5. SentUpTo' /\ BdpLimit'
  BY <1>1 DEF IInv, SentUpTo, BdpLimit, sndVars
<1> QED
  BY <1>2, <1>3, <1>4, <1>5 DEF IInv

LEMMA LoseAckInv == \A m \in Replies : IInv /\ LoseAck(m) => IInv'
<1> SUFFICES ASSUME NEW m \in Replies, IInv, LoseAck(m) PROVE IInv'
  OBVIOUS
<1>1. /\ acks' \in [Replies -> Nat]
      /\ \A r \in Replies : acks'[r] > 0 => acks[r] > 0
      /\ UNCHANGED <<sndVars, rxVars, data, delivered>>
  BY TakeAckFacts DEF LoseAck, IInv, TypeOK
<1>2. TypeOK'
  BY <1>1 DEF IInv, TypeOK, sndVars, rxVars
<1>3. (Taken /\ ReceiverExact /\ RxSackAboveExpected /\ RepliesHonest)'
  BY <1>1 DEF IInv, Taken, ReceiverExact, RxSackAboveExpected, RepliesHonest,
              sndVars, rxVars
<1>4. (NoFalseAck /\ SackHonest /\ SenderOrder /\ DoneMeansAll)'
  BY <1>1 DEF IInv, NoFalseAck, SackHonest, SenderOrder, DoneMeansAll, sndVars, rxVars
<1>5. SentUpTo' /\ BdpLimit'
  BY <1>1 DEF IInv, SentUpTo, BdpLimit, sndVars
<1> QED
  BY <1>2, <1>3, <1>4, <1>5 DEF IInv

LEMMA StutterInv == IInv /\ UNCHANGED vars => IInv'
<1> SUFFICES ASSUME IInv, UNCHANGED vars PROVE IInv'
  OBVIOUS
<1> USE DEF vars, sndVars, rxVars, IInv
<1>1. TypeOK'
  BY DEF TypeOK
<1>2. (Taken /\ ReceiverExact /\ RxSackAboveExpected /\ RepliesHonest)'
  BY DEF Taken, ReceiverExact, RxSackAboveExpected, RepliesHonest
<1>3. (NoFalseAck /\ SackHonest /\ SenderOrder /\ DoneMeansAll)'
  BY DEF NoFalseAck, SackHonest, SenderOrder, DoneMeansAll
<1>4. SentUpTo' /\ BdpLimit'
  BY DEF SentUpTo, BdpLimit
<1> QED
  BY <1>1, <1>2, <1>3, <1>4

LEMMA StepInv == IInv /\ [Next]_vars => IInv'
<1> SUFFICES ASSUME IInv, [Next]_vars PROVE IInv'
  OBVIOUS
<1>1. CASE PollQp
  BY <1>1, PollQpInv
<1>2. CASE GetNxtPacket
  BY <1>2, GetNxtPacketInv
<1>3. CASE HandleTimeout
  BY <1>3, HandleTimeoutInv
<1>4. CASE \E m \in Replies : ReceiveAck(m)
  BY <1>4, ReceiveAckInv
<1>5. CASE \E m \in Replies : LoseAck(m)
  BY <1>5, LoseAckInv
<1>6. CASE \E s \in Pkts : ReceiveUdp(s)
  BY <1>6, ReceiveUdpInv
<1>7. CASE \E s \in Pkts : LoseData(s)
  BY <1>7, LoseDataInv
<1>8. CASE UNCHANGED vars
  BY <1>8, StutterInv
<1> QED
  BY <1>1, <1>2, <1>3, <1>4, <1>5, <1>6, <1>7, <1>8 DEF Next

-------------------------------------------------------------------------------

\* The inductive invariant holds in every behaviour.
THEOREM Invariance == Spec => []IInv
<1> QED
  BY InitInv, StepInv, PTL DEF Spec

\* Type correctness, for every flow, window, BDP limit and network.
THEOREM TypeCorrect == Spec => []TypeOK
<1>1. IInv => TypeOK
  BY DEF IInv
<1> QED
  BY <1>1, Invariance, PTL

\* The sender never believes in a packet that has not arrived, neither by a
\* cumulative number that it extended itself nor by its sack list: whatever
\* is lost, repeated or reordered, with both receivers.
THEOREM BeliefsCorrect == Spec => []BeliefsHonest
<1>1. IInv => BeliefsHonest
  BY DEF IInv, BeliefsHonest
<1> QED
  BY <1>1, Invariance, PTL

\* The compiled-out assertions of GetOnTheFly and of the in-order receiver
\* (ReceiverCheckSeq) never fail.
THEOREM AssertionsCorrect == Spec => []AssertionsHold
<1>1. IInv => AssertionsHold
  BY DEF IInv, TypeOK, SenderOrder, SndOrder, Bounds, AssertionsHold
<1> QED
  BY <1>1, Invariance, PTL

\* At most Bdp of the packets between the highest acknowledgement and the
\* furthest one sent are missing, although the limit is tested before
\* snd_nxt skips ahead.
THEOREM BdpLimitCorrect == Spec => []BdpLimit
<1>1. IInv => BdpLimit
  BY DEF IInv
<1> QED
  BY <1>1, Invariance, PTL

\* A completed flow arrived in full: QpComplete never runs early, although
\* the sender extends the cumulative number itself.
LEMMA CompletionStep ==
    ASSUME IInv, NEW m \in Replies, ReceiveAck(m)
    PROVE  UNCHANGED <<delivered, qpDone>> \/ RT!Complete
<1>1. delivered' = delivered
  BY DEF ReceiveAck
<1>2. IInv'
  BY ReceiveAckInv
<1>3. CASE qpDone' = qpDone
  BY <1>1, <1>3
<1>4. CASE qpDone' # qpDone
  <2>1. ~qpDone
    BY <1>4 DEF ReceiveAck, sndVars
  <2>2. qpDone = FALSE /\ qpDone' = TRUE
    BY <1>2, <1>4, <2>1 DEF IInv, TypeOK
  <2>3. delivered = Pkts
    BY <1>1, <1>2, <2>2 DEF IInv, DoneMeansAll, Pkts
  <2> QED
    BY <1>1, <2>2, <2>3 DEF RT!Complete
<1> QED
  BY <1>3, <1>4

LEMMA DeliveryStep ==
    ASSUME NEW s \in Pkts, ReceiveUdp(s)
    PROVE  UNCHANGED <<delivered, qpDone>> \/ RT!Receive(s)
<1>1. delivered' = delivered \/ delivered' = delivered \cup {s}
  BY DEF ReceiveUdp, AcceptInOrder, HoldOutOfOrder, AckDuplicate, KeepAnyOrder,
         AckDuplicateAr
<1>2. qpDone' = qpDone
  BY DEF ReceiveUdp, sndVars
<1> QED
  BY <1>1, <1>2 DEF RT!Receive

LEMMA RefinementStep == IInv /\ [Next]_vars => [RT!RTNext]_(RT!rtVars)
<1> SUFFICES ASSUME IInv, [Next]_vars
             PROVE  UNCHANGED <<delivered, qpDone>> \/ RT!RTNext
  BY DEF RT!rtVars
<1>1. CASE PollQp \/ GetNxtPacket \/ HandleTimeout \/ UNCHANGED vars
  BY <1>1 DEF PollQp, GetNxtPacket, HandleTimeout, vars, sndVars
<1>2. ASSUME NEW m \in Replies, ReceiveAck(m) \/ LoseAck(m)
      PROVE  UNCHANGED <<delivered, qpDone>> \/ RT!RTNext
  BY <1>2, CompletionStep DEF LoseAck, RT!RTNext, sndVars
<1>3. ASSUME NEW s \in Pkts, ReceiveUdp(s) \/ LoseData(s)
      PROVE  UNCHANGED <<delivered, qpDone>> \/ RT!RTNext
  BY <1>3, DeliveryStep DEF LoseData, RT!RTNext, sndVars
<1> QED
  BY <1>1, <1>2, <1>3 DEF Next

\* IRN implements the reliable transfer of a flow, with and without PFC and
\* with both receivers.
THEOREM Refinement == Spec => ImplementsReliableTransfer
<1>1. Init => RT!RTInit
  BY DEF Init, RT!RTInit
<1> QED
  BY <1>1, RefinementStep, Invariance, PTL DEF Spec, ImplementsReliableTransfer, RT!RTSpec

\* A completed queue pair that the NIC still polls sends nothing: after
\* qp_finish the receiver would take a packet for the first of a new flow.
THEOREM CompletedSilent == Spec => [][qpDone => ~GetNxtPacket]_vars
<1>1. IInv /\ [Next]_vars => [qpDone => ~GetNxtPacket]_vars
  <2> SUFFICES ASSUME IInv, qpDone, GetNxtPacket PROVE FALSE
    OBVIOUS
  <2>1. /\ sack \in SUBSET Pkts /\ sndNxt \in Bounds /\ sndUna = NumPkts
        /\ sndUna <= sndNxt
    BY DEF IInv, TypeOK, DoneMeansAll, SenderOrder
  <2>2. SkipSacked(sndNxt, sack) >= sndNxt /\ SkipSacked(sndNxt, sack) \in Bounds
    BY <2>1, SkipFacts
  <2>3. SkipSacked(sndNxt, sack) < NumPkts
    BY DEF GetNxtPacket
  <2> QED
    BY <2>1, <2>2, <2>3, IrnAssumption DEF Bounds
<1>2. []IInv /\ [][Next]_vars => [][qpDone => ~GetNxtPacket]_vars
  BY <1>1, PTL
<1> QED
  BY <1>2, Invariance, PTL DEF Spec
===============================================================================
