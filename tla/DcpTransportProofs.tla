-------------------------- MODULE DcpTransportProofs --------------------------
(***************************************************************************)
(* Theorems about DcpTransport, for every length of the flow, window,      *)
(* chunk size and combination of its options: an acknowledgement is never  *)
(* ahead of the receiver, no packet is forgotten where links do not lose   *)
(* packets, a completed queue pair with a window is silent, and the flow   *)
(* service is implemented.                                                 *)
(*                                                                         *)
(* The sender's in-flight list is what makes a NACK count, so the          *)
(* invariant keeps all outstanding packets in it: a timeout empties the    *)
(* list, but takes snd_nxt back to snd_una in the same step.               *)
(***************************************************************************)
EXTENDS DcpTransport, WellFoundedInduction, TLAPS

\* The receiver took what lies below its expectation and what it tracks.
Taken ==
    /\ \A s \in Pkts : s < expected => s \in delivered
    /\ tracker \subseteq delivered

\* No acknowledgement, taken or still to be taken, exceeds the expectation.
AcksBounded ==
    ~qpDone =>
        /\ sndUna <= expected
        /\ \A m \in AckMsgs : acks[m] > 0 /\ m.kind = "ACK" => m.seq <= expected

\* The flow is completed by the acknowledgement of its end and by no other,
\* and then nothing is left to be sent again.
DoneAtEnd ==
    /\ qpDone => delivered = Pkts /\ resend = {}
    /\ qpDone <=> sndUna = NumPkts

\* The sender has the size of every outstanding packet on record.
OutstandingKnown ==
    ~qpDone => \A s \in Pkts : sndUna <= s /\ s < sndNxt => s \in inflight

IInv ==
    /\ TypeOK
    /\ Taken
    /\ AcksBounded
    /\ DoneAtEnd
    /\ RetransmissionKnown
    /\ OutstandingKnown
    /\ ~LinkLoss => NothingForgotten

-------------------------------------------------------------------------------
(* The receiver's tracker and the network.                                 *)

\* Every set of naturals has a least element.
LEMMA LeastNatural ==
    ASSUME NEW S, S \subseteq Nat, S # {}
    PROVE  \E least \in S : \A n \in S : least <= n
PROOF
<1> DEFINE lessThan == OpToRel(<, Nat)
<1>1. IsWellFoundedOn(lessThan, Nat)
  BY NatLessThanWellFounded
<1>2. \A a, b \in Nat : a < b => <<a, b>> \in lessThan
  BY DEF OpToRel
<1> HIDE DEF lessThan
<1>3. PICK least \in S : \A n \in S : <<n, least>> \notin lessThan
  BY <1>1, WFMin
<1>4. \A n \in S : ~(n < least)
  BY <1>2, <1>3
<1> QED
  BY <1>4

\* The tracker always has a first gap, and GetNextExpectedSeq returns it.
LEMMA NextExpectedFacts ==
    ASSUME NEW got \in SUBSET Pkts
    PROVE  /\ NextExpected(got) \in Bounds
           /\ NextExpected(got) \notin got
           /\ \A s \in Pkts : s < NextExpected(got) => s \in got
PROOF
<1> DEFINE gaps == {e \in Bounds : e \notin got}
<1>1. NumPkts \in gaps
  BY DcpAssumption DEF Bounds, Pkts
<1>2. gaps \subseteq Nat
  BY DEF Bounds
<1>3. PICK first \in gaps : \A e \in gaps : first <= e
  <2> HIDE DEF gaps
  <2> QED
    BY <1>1, <1>2, LeastNatural
<1>4. \A s \in Pkts : s < first => s \in got
  BY <1>3, DcpAssumption DEF Pkts, Bounds
<1> QED
  BY <1>3, <1>4 DEF NextExpected

\* One more copy of one message.
LEMMA PlusFacts ==
    ASSUME NEW M, NEW ch \in [M -> Nat], NEW m \in M
    PROVE  /\ Plus(ch, m) \in [M -> Nat]
           /\ Plus(ch, m)[m] > 0
           /\ \A x \in M : x # m => Plus(ch, m)[x] = ch[x]
           /\ \A x \in M : ch[x] > 0 => Plus(ch, m)[x] > 0
  BY DEF Plus

\* One copy of one message less.
LEMMA MinusFacts ==
    ASSUME NEW M, NEW ch \in [M -> Nat], NEW m \in M, ch[m] > 0
    PROVE  /\ Minus(ch, m) \in [M -> Nat]
           /\ \A x \in M : x # m => Minus(ch, m)[x] = ch[x]
           /\ \A x \in M : Minus(ch, m)[x] <= ch[x]
  BY DEF Minus

-------------------------------------------------------------------------------
(* The inductive invariant.                                                *)

LEMMA InitInv == Init => IInv
<1> SUFFICES ASSUME Init PROVE IInv
  OBVIOUS
<1> USE DcpAssumption
<1>1. TypeOK
  <2>1. 0 \in Bounds
    BY DEF Bounds
  <2> QED
    BY <2>1 DEF Init, TypeOK
<1>2. Taken /\ AcksBounded /\ DoneAtEnd /\ RetransmissionKnown
  BY DEF Init, Taken, AcksBounded, DoneAtEnd, RetransmissionKnown, Pkts
<1>3. OutstandingKnown /\ NothingForgotten
  BY DEF Init, OutstandingKnown, NothingForgotten, Pkts
<1> QED
  BY <1>1, <1>2, <1>3 DEF IInv

\* A retransmission moves from the queue to the network; a new packet becomes
\* outstanding, recorded and under way at once.
LEMMA GetNxtPacketInv == IInv /\ GetNxtPacket => IInv'
<1> SUFFICES ASSUME IInv, GetNxtPacket PROVE IInv'
  OBVIOUS
<1> Pkts \subseteq Int /\ Bounds \subseteq Int
  BY DcpAssumption DEF Pkts, Bounds
<1>1. /\ timer' = TRUE
      /\ UNCHANGED <<sndUna, qpDone, expected, tracker, headers, acks, delivered>>
  BY DEF GetNxtPacket, rxVars
<1>2. PICK s \in Pkts :
        /\ data' = Plus(data, s)
        /\ \/ resend' = resend \ {s} /\ UNCHANGED <<sndNxt, inflight>>
           \/ /\ s = sndNxt /\ resend = {} /\ UNCHANGED resend
              /\ inflight' = inflight \cup {s} /\ sndNxt' = s + 1
  <2>1. CASE Retransmit
    BY <2>1 DEF Retransmit, IInv, TypeOK
  <2>2. CASE SendNew
    <3>1. sndNxt \in Pkts
      BY <2>2, DcpAssumption DEF SendNew, IInv, TypeOK, Pkts, Bounds
    <3> QED
      BY <2>2, <3>1 DEF SendNew
  <2> QED
    BY <2>1, <2>2 DEF GetNxtPacket
<1>3. /\ data' \in [Pkts -> Nat] /\ data'[s] > 0
      /\ \A p \in Pkts : data[p] > 0 => data'[p] > 0
  BY <1>2, PlusFacts DEF IInv, TypeOK
<1>4. TypeOK'
  <2>1. s + 1 \in Bounds
    BY DcpAssumption DEF Pkts, Bounds
  <2> QED
    BY <1>1, <1>2, <1>3, <2>1 DEF IInv, TypeOK
<1>5. Taken' /\ AcksBounded'
  BY <1>1 DEF IInv, Taken, AcksBounded
<1>6. DoneAtEnd' /\ RetransmissionKnown'
  BY <1>1, <1>2 DEF IInv, DoneAtEnd, RetransmissionKnown
<1>7. OutstandingKnown'
  BY <1>1, <1>2 DEF IInv, TypeOK, OutstandingKnown
<1>8. ASSUME ~LinkLoss PROVE NothingForgotten'
  BY <1>1, <1>2, <1>3, <1>8 DEF IInv, TypeOK, NothingForgotten
<1> QED
  BY <1>4, <1>5, <1>6, <1>7, <1>8 DEF IInv

\* A timeout takes snd_nxt back: nothing is outstanding any more.
LEMMA HandleTimeoutInv == IInv /\ HandleTimeout => IInv'
<1> SUFFICES ASSUME IInv, HandleTimeout PROVE IInv'
  OBVIOUS
<1> Pkts \subseteq Int /\ Bounds \subseteq Int
  BY DcpAssumption DEF Pkts, Bounds
<1>1. /\ timer' = FALSE
      /\ UNCHANGED <<sndUna, qpDone, expected, tracker, data, headers, acks, delivered>>
      /\ \/ UNCHANGED <<sndNxt, inflight, resend>>
         \/ sndNxt' = sndUna /\ inflight' = {} /\ resend' = {}
  BY DEF HandleTimeout, RecoverQueue, ClearedByRecovery, rxVars
<1>2. TypeOK'
  BY <1>1 DEF IInv, TypeOK
<1>3. Taken' /\ AcksBounded' /\ DoneAtEnd' /\ RetransmissionKnown'
  BY <1>1 DEF IInv, Taken, AcksBounded, DoneAtEnd, RetransmissionKnown
<1>4. OutstandingKnown'
  BY <1>1 DEF IInv, TypeOK, OutstandingKnown
<1>5. ASSUME ~LinkLoss PROVE NothingForgotten'
  BY <1>1, <1>5 DEF IInv, TypeOK, NothingForgotten
<1> QED
  BY <1>2, <1>3, <1>4, <1>5 DEF IInv

\* A NACK turns into a queued retransmission: the packet it names is still
\* outstanding only when the sender has it on record.
LEMMA TakeNackInv ==
    ASSUME IInv, ~qpDone, NEW m \in AckMsgs, m.kind = "NACK", ReceiveAck(m)
    PROVE  IInv'
<1>1. /\ acks[m] > 0 /\ acks' = Minus(acks, m)
      /\ resend' = QueuedAfter(m.seq) /\ timer' \in BOOLEAN
      /\ UNCHANGED <<sndNxt, sndUna, inflight, qpDone, expected, tracker, data,
                     headers, delivered>>
  BY DEF ReceiveAck, TakeNack, KeepOpen, rxVars, IInv, TypeOK
<1>2. /\ acks' \in [AckMsgs -> Nat]
      /\ \A x \in AckMsgs : x # m => acks'[x] = acks[x]
      /\ \A x \in AckMsgs : acks'[x] > 0 => acks[x] > 0
  BY <1>1, MinusFacts DEF IInv, TypeOK
<1>3. resend \subseteq resend' /\ resend' \subseteq inflight
  BY <1>1 DEF QueuedAfter, IInv, RetransmissionKnown
<1>4. TypeOK'
  BY <1>1, <1>2, <1>3 DEF IInv, TypeOK
<1>5. Taken' /\ AcksBounded' /\ DoneAtEnd' /\ RetransmissionKnown' /\ OutstandingKnown'
  BY <1>1, <1>2, <1>3 DEF IInv, Taken, AcksBounded, DoneAtEnd, RetransmissionKnown,
                          OutstandingKnown
<1>6. ASSUME ~LinkLoss PROVE NothingForgotten'
  <2> SUFFICES ASSUME NEW s \in Pkts, sndUna <= s, s < sndNxt
               PROVE  \/ s \in delivered \/ data[s] > 0 \/ headers[s] > 0
                      \/ acks'[[kind |-> "NACK", seq |-> s]] > 0 \/ s \in resend'
    BY <1>1 DEF NothingForgotten
  <2>1. \/ s \in delivered \/ data[s] > 0 \/ headers[s] > 0
        \/ acks[[kind |-> "NACK", seq |-> s]] > 0 \/ s \in resend
    BY <1>6 DEF IInv, NothingForgotten
  <2>2. CASE m.seq = s
    BY <1>1, <2>2 DEF IInv, OutstandingKnown, QueuedAfter
  <2>3. CASE m.seq # s
    <3>1. [kind |-> "NACK", seq |-> s] \in AckMsgs /\ m # [kind |-> "NACK", seq |-> s]
      BY <2>3, DcpAssumption DEF AckMsgs, AckKinds, Bounds, Pkts
    <3> QED
      BY <1>2, <1>3, <2>1, <3>1
  <2> QED
    BY <2>2, <2>3
<1> QED
  BY <1>4, <1>5, <1>6 DEF IInv

\* An acknowledgement of the end completes the flow; any other moves snd_una
\* at most, and never to the end.
LEMMA TakeAckInv ==
    ASSUME IInv, ~qpDone, NEW m \in AckMsgs, m.kind # "NACK", ReceiveAck(m)
    PROVE  IInv'
<1> Pkts \subseteq Int /\ Bounds \subseteq Int
  BY DcpAssumption DEF Pkts, Bounds
<1> DEFINE una == IF AR \/ m.seq >= NumPkts THEN Larger(sndUna, m.seq) ELSE sndUna
<1>1. /\ acks[m] > 0 /\ acks' = Minus(acks, m) /\ sndUna' = una
      /\ IF m.seq >= NumPkts THEN inflight' = {} /\ resend' = {}
                             ELSE UNCHANGED <<inflight, resend>>
      /\ IF una >= NumPkts THEN QpComplete ELSE KeepOpen(una)
      /\ UNCHANGED <<sndNxt, data, headers, delivered>>
  BY DEF ReceiveAck, TakeAck
<1>2. /\ acks' \in [AckMsgs -> Nat]
      /\ \A x \in AckMsgs : x # m => acks'[x] = acks[x]
      /\ \A x \in AckMsgs : acks'[x] > 0 => acks[x] > 0
  BY <1>1, MinusFacts DEF IInv, TypeOK
<1>3. /\ m.kind = "ACK" /\ m.seq \in Bounds /\ m.seq <= expected
      /\ sndUna \in Bounds /\ sndUna # NumPkts /\ sndUna <= expected
      /\ expected \in Bounds
  BY <1>1 DEF AckMsgs, AckKinds, IInv, TypeOK, AcksBounded, DoneAtEnd
<1>4. CASE m.seq >= NumPkts
  <2>1. m.seq = NumPkts /\ una = NumPkts /\ expected = NumPkts
    BY <1>3, <1>4, DcpAssumption DEF Larger, Bounds
  <2>2. /\ sndUna' = NumPkts /\ inflight' = {} /\ resend' = {} /\ qpDone' = TRUE
        /\ timer' = FALSE /\ expected' = 0 /\ tracker' = {}
    BY <1>1, <1>4, <2>1, DcpAssumption DEF QpComplete
  <2>3. delivered = Pkts
    <3>1. \A s \in Pkts : s < expected
      BY <2>1, DcpAssumption DEF Pkts
    <3> QED
      BY <3>1 DEF IInv, TypeOK, Taken
  <2>4. TypeOK'
    <3>1. 0 \in Bounds /\ NumPkts \in Bounds
      BY DcpAssumption DEF Bounds
    <3> QED
      BY <1>1, <1>2, <2>2, <3>1 DEF IInv, TypeOK
  <2>5. Taken' /\ AcksBounded' /\ DoneAtEnd' /\ RetransmissionKnown'
    BY <1>1, <2>2, <2>3 DEF Taken, AcksBounded, DoneAtEnd, RetransmissionKnown, Pkts
  <2>6. OutstandingKnown' /\ NothingForgotten'
    BY <2>2 DEF OutstandingKnown, NothingForgotten
  <2> QED
    BY <2>4, <2>5, <2>6 DEF IInv
<1>5. CASE ~(m.seq >= NumPkts)
  <2>1. /\ una \in Bounds /\ una < NumPkts /\ sndUna <= una /\ una <= expected
    BY <1>3, <1>5, DcpAssumption DEF Larger, Bounds
  <2> HIDE DEF una
  <2>2. ~(una >= NumPkts)
    BY <2>1, DcpAssumption
  <2>3. /\ sndUna' = una /\ timer' \in BOOLEAN
        /\ UNCHANGED <<inflight, resend, qpDone, expected, tracker>>
    BY <1>1, <1>5, <2>2 DEF KeepOpen, rxVars
  <2>4. TypeOK'
    BY <1>1, <1>2, <2>1, <2>3 DEF IInv, TypeOK
  <2>5. Taken' /\ AcksBounded' /\ RetransmissionKnown'
    BY <1>1, <1>2, <2>1, <2>3 DEF IInv, Taken, AcksBounded, RetransmissionKnown
  <2>6. DoneAtEnd'
    BY <2>1, <2>3, DcpAssumption DEF IInv, DoneAtEnd
  <2>7. OutstandingKnown'
    BY <1>1, <1>3, <2>1, <2>3 DEF IInv, OutstandingKnown
  <2>8. ASSUME ~LinkLoss PROVE NothingForgotten'
    <3> SUFFICES ASSUME NEW s \in Pkts, una <= s, s < sndNxt
                 PROVE  \/ s \in delivered \/ data[s] > 0 \/ headers[s] > 0
                        \/ acks'[[kind |-> "NACK", seq |-> s]] > 0 \/ s \in resend
      BY <1>1, <2>3 DEF NothingForgotten
    <3>1. sndUna <= s
      BY <1>3, <2>1
    <3>2. [kind |-> "NACK", seq |-> s] \in AckMsgs /\ m # [kind |-> "NACK", seq |-> s]
      BY <1>3, DcpAssumption DEF AckMsgs, AckKinds, Bounds, Pkts
    <3> QED
      BY <1>2, <2>8, <3>1, <3>2 DEF IInv, NothingForgotten
  <2> QED
    BY <2>4, <2>5, <2>6, <2>7, <2>8 DEF IInv
<1> QED
  BY <1>4, <1>5

LEMMA ReceiveAckInv == \A m \in AckMsgs : IInv /\ ReceiveAck(m) => IInv'
<1> SUFFICES ASSUME NEW m \in AckMsgs, IInv, ReceiveAck(m) PROVE IInv'
  OBVIOUS
<1>1. CASE qpDone
  <2>1. /\ acks[m] > 0 /\ acks' = Minus(acks, m)
        /\ UNCHANGED <<sndVars, rxVars, data, headers, delivered>>
    BY <1>1 DEF ReceiveAck
  <2>2. acks' \in [AckMsgs -> Nat]
    BY <2>1, MinusFacts DEF IInv, TypeOK
  <2>3. TypeOK'
    BY <2>1, <2>2 DEF IInv, TypeOK, sndVars, rxVars
  <2>4. Taken' /\ AcksBounded' /\ DoneAtEnd' /\ RetransmissionKnown'
    BY <1>1, <2>1 DEF IInv, sndVars, rxVars, Taken, AcksBounded, DoneAtEnd,
                      RetransmissionKnown
  <2>5. OutstandingKnown' /\ NothingForgotten'
    BY <1>1, <2>1 DEF sndVars, OutstandingKnown, NothingForgotten
  <2> QED
    BY <2>3, <2>4, <2>5 DEF IInv
<1>2. CASE ~qpDone
  BY <1>2, TakeNackInv, TakeAckInv
<1> QED
  BY <1>1, <1>2

\* A trimmed packet goes on as a header.
LEMMA TrimInv == \A s \in Pkts : IInv /\ Trim(s) => IInv'
<1> SUFFICES ASSUME NEW s \in Pkts, IInv, Trim(s) PROVE IInv'
  OBVIOUS
<1>1. /\ data[s] > 0 /\ data' = Minus(data, s) /\ headers' = Plus(headers, s)
      /\ UNCHANGED <<sndVars, rxVars, acks, delivered>>
  BY DEF Trim
<1>2. /\ data' \in [Pkts -> Nat] /\ headers' \in [Pkts -> Nat] /\ headers'[s] > 0
      /\ \A p \in Pkts : p # s => data'[p] = data[p] /\ headers'[p] = headers[p]
  BY <1>1, MinusFacts, PlusFacts DEF IInv, TypeOK
<1>3. TypeOK'
  BY <1>1, <1>2 DEF IInv, TypeOK, sndVars, rxVars
<1>4. Taken' /\ AcksBounded' /\ DoneAtEnd' /\ RetransmissionKnown' /\ OutstandingKnown'
  BY <1>1 DEF IInv, sndVars, rxVars, Taken, AcksBounded, DoneAtEnd,
              RetransmissionKnown, OutstandingKnown
<1>5. ASSUME ~LinkLoss PROVE NothingForgotten'
  BY <1>1, <1>2, <1>5 DEF IInv, NothingForgotten, sndVars
<1> QED
  BY <1>3, <1>4, <1>5 DEF IInv

\* The receiver takes a full packet, or has taken it before.
LEMMA ReceiveUdpInv == \A s \in Pkts : IInv /\ ReceiveUdp(s) => IInv'
<1> SUFFICES ASSUME NEW s \in Pkts, IInv, ReceiveUdp(s) PROVE IInv'
  OBVIOUS
<1>1. /\ data[s] > 0 /\ data' = Minus(data, s)
      /\ UNCHANGED <<sndVars, headers>>
      /\ UNCHANGED acks \/ Reply("ACK", AckSeq(expected'))
  BY DEF ReceiveUdp
<1>2. /\ data' \in [Pkts -> Nat]
      /\ \A p \in Pkts : p # s => data'[p] = data[p]
  BY <1>1, MinusFacts DEF IInv, TypeOK
<1> Pkts \subseteq Int /\ Bounds \subseteq Int
  BY DcpAssumption DEF Pkts, Bounds
<1>3. /\ expected' \in Bounds /\ expected <= expected'
      /\ tracker' \in SUBSET Pkts /\ delivered' \in SUBSET Pkts
      /\ delivered \subseteq delivered' /\ s \in delivered' /\ Taken'
  <2>1. CASE s >= expected
    <3>1. /\ tracker' = tracker \cup {s}
          /\ expected' = Larger(expected, NextExpected(tracker'))
          /\ delivered' = delivered \cup {s}
      BY <2>1 DEF ReceiveUdp
    <3>2. tracker' \in SUBSET Pkts /\ tracker' \subseteq delivered'
      BY <3>1 DEF IInv, TypeOK, Taken
    <3>3. /\ NextExpected(tracker') \in Bounds
          /\ \A p \in Pkts : p < NextExpected(tracker') => p \in tracker'
      BY <3>2, NextExpectedFacts
    <3>4. expected' \in Bounds /\ expected <= expected'
      BY <3>1, <3>3 DEF Larger, IInv, TypeOK
    <3>5. \A p \in Pkts : p < expected' => p \in delivered'
      BY <3>1, <3>2, <3>3 DEF Larger, IInv, Taken
    <3> QED
      BY <3>1, <3>2, <3>4, <3>5 DEF IInv, TypeOK, Taken
  <2>2. CASE ~(s >= expected)
    <3>1. UNCHANGED <<expected, tracker, delivered>>
      BY <2>2 DEF ReceiveUdp
    <3>2. expected \in Bounds /\ s < expected
      BY <2>2 DEF IInv, TypeOK
    <3> QED
      BY <3>1, <3>2 DEF IInv, TypeOK, Taken
  <2> QED
    BY <2>1, <2>2
<1>4. /\ acks' \in [AckMsgs -> Nat]
      /\ \A m \in AckMsgs : acks'[m] > 0 => acks[m] > 0 \/ m.seq <= expected'
      /\ \A m \in AckMsgs : acks[m] > 0 => acks'[m] > 0
  <2>1. CASE UNCHANGED acks
    BY <2>1 DEF IInv, TypeOK
  <2>2. CASE Reply("ACK", AckSeq(expected'))
    <3> DEFINE new == [kind |-> "ACK", seq |-> AckSeq(expected')]
    <3>1. AckSeq(expected') \in Bounds /\ AckSeq(expected') <= expected'
      BY <1>3, DcpAssumption DEF AckSeq, Bounds
    <3>2. new \in AckMsgs /\ new.seq <= expected' /\ acks' = Plus(acks, new)
      BY <2>2, <3>1 DEF AckMsgs, AckKinds, Reply
    <3> HIDE DEF new
    <3>3. acks \in [AckMsgs -> Nat]
      BY DEF IInv, TypeOK
    <3>4. /\ acks' \in [AckMsgs -> Nat]
          /\ \A m \in AckMsgs : m # new => acks'[m] = acks[m]
          /\ \A m \in AckMsgs : acks[m] > 0 => acks'[m] > 0
      BY <3>2, <3>3, PlusFacts
    <3> QED
      BY <3>2, <3>4
  <2> QED
    BY <1>1, <2>1, <2>2
<1>5. TypeOK'
  BY <1>1, <1>2, <1>3, <1>4 DEF IInv, TypeOK, sndVars
<1>6. AcksBounded'
  <2>1. expected \in Int /\ expected' \in Int /\ sndUna \in Int
    BY <1>3 DEF IInv, TypeOK
  <2>2. \A m \in AckMsgs : m.seq \in Int
    BY DEF AckMsgs
  <2> QED
    BY <1>1, <1>3, <1>4, <2>1, <2>2 DEF IInv, AcksBounded, sndVars
<1>7. DoneAtEnd' /\ RetransmissionKnown' /\ OutstandingKnown'
  BY <1>1, <1>3 DEF IInv, DoneAtEnd, RetransmissionKnown, OutstandingKnown, sndVars
<1>8. ASSUME ~LinkLoss PROVE NothingForgotten'
  <2>1. \A p \in Pkts : [kind |-> "NACK", seq |-> p] \in AckMsgs
    BY DcpAssumption DEF AckMsgs, AckKinds, Pkts, Bounds
  <2> QED
    BY <1>1, <1>2, <1>3, <1>4, <1>8, <2>1 DEF IInv, NothingForgotten, sndVars
<1> QED
  BY <1>3, <1>5, <1>6, <1>7, <1>8 DEF IInv

\* The header's packet is named by a NACK.
LEMMA ReceiveHeaderInv == \A s \in Pkts : IInv /\ ReceiveHeader(s) => IInv'
<1> SUFFICES ASSUME NEW s \in Pkts, IInv, ReceiveHeader(s) PROVE IInv'
  OBVIOUS
<1> DEFINE nack == [kind |-> "NACK", seq |-> s]
<1>1. /\ headers[s] > 0 /\ headers' = Minus(headers, s) /\ acks' = Plus(acks, nack)
      /\ UNCHANGED <<sndVars, rxVars, data, delivered>>
  BY DEF ReceiveHeader, Reply
<1>2. nack \in AckMsgs /\ nack.kind # "ACK"
  BY DcpAssumption DEF AckMsgs, AckKinds, Pkts, Bounds
<1>3. /\ headers' \in [Pkts -> Nat]
      /\ \A p \in Pkts : p # s => headers'[p] = headers[p]
  BY <1>1, MinusFacts DEF IInv, TypeOK
<1> HIDE DEF nack
<1>4. /\ acks' \in [AckMsgs -> Nat] /\ acks'[nack] > 0
      /\ \A m \in AckMsgs : m # nack => acks'[m] = acks[m]
      /\ \A m \in AckMsgs : acks[m] > 0 => acks'[m] > 0
  BY <1>1, <1>2, PlusFacts DEF IInv, TypeOK
<1>5. TypeOK'
  BY <1>1, <1>3, <1>4 DEF IInv, TypeOK, sndVars, rxVars
<1>6. AcksBounded'
  BY <1>1, <1>2, <1>4 DEF IInv, AcksBounded, sndVars, rxVars
<1>7. Taken' /\ DoneAtEnd' /\ RetransmissionKnown' /\ OutstandingKnown'
  BY <1>1 DEF IInv, sndVars, rxVars, Taken, DoneAtEnd, RetransmissionKnown,
              OutstandingKnown
<1>8. ASSUME ~LinkLoss PROVE NothingForgotten'
  <2>1. \A p \in Pkts : [kind |-> "NACK", seq |-> p] \in AckMsgs
    BY DcpAssumption DEF AckMsgs, AckKinds, Pkts, Bounds
  <2>2. acks'[[kind |-> "NACK", seq |-> s]] > 0
    BY <1>4 DEF nack
  <2> QED
    BY <1>1, <1>3, <1>4, <1>8, <2>1, <2>2 DEF IInv, NothingForgotten, sndVars
<1> QED
  BY <1>5, <1>6, <1>7, <1>8 DEF IInv

LEMMA LoseInv ==
    ASSUME IInv, LinkLoss,
           UNCHANGED <<sndVars, rxVars, delivered>>,
           data' \in [Pkts -> Nat], headers' \in [Pkts -> Nat],
           acks' \in [AckMsgs -> Nat],
           \A m \in AckMsgs : acks'[m] > 0 => acks[m] > 0
    PROVE  IInv'
<1>1. TypeOK'
  BY DEF IInv, TypeOK, sndVars, rxVars
<1>2. AcksBounded' /\ Taken' /\ DoneAtEnd' /\ RetransmissionKnown' /\ OutstandingKnown'
  BY DEF IInv, sndVars, rxVars, AcksBounded, Taken, DoneAtEnd, RetransmissionKnown,
         OutstandingKnown
<1> QED
  BY <1>1, <1>2 DEF IInv

LEMMA StepInv == IInv /\ [Next]_vars => IInv'
<1> SUFFICES ASSUME IInv, [Next]_vars PROVE IInv'
  OBVIOUS
<1>1. /\ data \in [Pkts -> Nat] /\ headers \in [Pkts -> Nat]
      /\ acks \in [AckMsgs -> Nat]
  BY DEF IInv, TypeOK
<1>2. CASE GetNxtPacket \/ HandleTimeout
  BY <1>2, GetNxtPacketInv, HandleTimeoutInv
<1>3. ASSUME NEW m \in AckMsgs, ReceiveAck(m) PROVE IInv'
  BY <1>3, ReceiveAckInv
<1>4. ASSUME NEW m \in AckMsgs, LoseAck(m) PROVE IInv'
  <2>1. /\ LinkLoss /\ acks[m] > 0 /\ acks' = Minus(acks, m)
        /\ UNCHANGED <<sndVars, rxVars, data, headers, delivered>>
    BY <1>4 DEF LoseAck
  <2>2. /\ acks' \in [AckMsgs -> Nat]
        /\ \A r \in AckMsgs : acks'[r] > 0 => acks[r] > 0
    BY <1>1, <2>1, MinusFacts
  <2> QED
    BY <1>1, <2>1, <2>2, LoseInv
<1>5. ASSUME NEW s \in Pkts, ReceiveUdp(s) PROVE IInv'
  BY <1>5, ReceiveUdpInv
<1>6. ASSUME NEW s \in Pkts, ReceiveHeader(s) PROVE IInv'
  BY <1>6, ReceiveHeaderInv
<1>7. ASSUME NEW s \in Pkts, Trim(s) PROVE IInv'
  BY <1>7, TrimInv
<1>8. ASSUME NEW s \in Pkts, LoseData(s) PROVE IInv'
  <2>1. /\ LinkLoss /\ data[s] > 0 /\ data' = Minus(data, s)
        /\ UNCHANGED <<sndVars, rxVars, headers, acks, delivered>>
    BY <1>8 DEF LoseData
  <2>2. data' \in [Pkts -> Nat]
    BY <1>1, <2>1, MinusFacts
  <2> QED
    BY <1>1, <2>1, <2>2, LoseInv
<1>9. ASSUME NEW s \in Pkts, LoseHeader(s) PROVE IInv'
  <2>1. /\ LinkLoss /\ headers[s] > 0 /\ headers' = Minus(headers, s)
        /\ UNCHANGED <<sndVars, rxVars, data, acks, delivered>>
    BY <1>9 DEF LoseHeader
  <2>2. headers' \in [Pkts -> Nat]
    BY <1>1, <2>1, MinusFacts
  <2> QED
    BY <1>1, <2>1, <2>2, LoseInv
<1>10. CASE UNCHANGED vars
  <2> USE <1>10 DEF vars, sndVars, rxVars, IInv
  <2>1. TypeOK'
    BY DEF TypeOK
  <2>2. AcksBounded' /\ Taken' /\ DoneAtEnd' /\ RetransmissionKnown' /\ OutstandingKnown'
    BY DEF AcksBounded, Taken, DoneAtEnd, RetransmissionKnown, OutstandingKnown
  <2>3. ASSUME ~LinkLoss PROVE NothingForgotten'
    BY <2>3 DEF NothingForgotten
  <2> QED
    BY <2>1, <2>2, <2>3
<1> QED
  BY <1>2, <1>3, <1>4, <1>5, <1>6, <1>7, <1>8, <1>9, <1>10 DEF Next, UntimedNext

-------------------------------------------------------------------------------

\* The inductive invariant holds in every behaviour.
THEOREM Invariance == Spec => []IInv
<1> QED
  BY InitInv, StepInv, PTL DEF Spec

\* Type correctness, for every flow, window and option.
THEOREM TypeCorrect == Spec => []TypeOK
<1>1. IInv => TypeOK
  BY DEF IInv
<1> QED
  BY <1>1, Invariance, PTL

\* The sender never believes in a packet that has not arrived, and each
\* queued retransmission is on record ("Retransmission seq not found in
\* inflight buffer for an active QP" cannot happen).
THEOREM BeliefsCorrect == Spec => []BeliefsHonest
<1>1. IInv => BeliefsHonest
  <2>1. Pkts \subseteq Int /\ Bounds \subseteq Int
    BY DcpAssumption DEF Pkts, Bounds
  <2> QED
    BY <2>1 DEF IInv, TypeOK, Taken, AcksBounded, BeliefsHonest, NoFalseAck
<1> QED
  BY <1>1, Invariance, PTL

\* Where links do not lose packets, trimming forgets none: each outstanding
\* packet is delivered, under way, named by a NACK or queued again.
THEOREM TrimmingForgetsNothing == ASSUME ~LinkLoss PROVE Spec => []NothingForgotten
<1>1. IInv => NothingForgotten
  BY DEF IInv
<1> QED
  BY <1>1, Invariance, PTL

\* With a window, a completed queue pair that the NIC still polls sends
\* nothing: the wrapped difference of GetOnTheFly keeps it behind the window.
THEOREM SilentWithWindow == ASSUME Win # 0 PROVE Spec => CompletedStaysSilent
<1>1. IInv /\ [Next]_vars => [SilentStep]_vars
  <2> SUFFICES ASSUME IInv, Next, qpDone, NEW s \in Pkts PROVE data'[s] <= data[s]
    BY DEF SilentStep
  <2>1. /\ data \in [Pkts -> Nat] /\ data[s] \in Nat
        /\ resend = {} /\ sndUna = NumPkts /\ sndNxt \in Bounds
    BY DEF IInv, TypeOK, DoneAtEnd
  <2>2. CASE GetNxtPacket
    <3>1. sndNxt < NumPkts /\ ~WinBound
      BY <2>1, <2>2 DEF GetNxtPacket, Retransmit, SendNew
    <3>2. OnTheFly(sndNxt, sndUna) = NumPkts + Win + 1
      BY <2>1, <3>1, DcpAssumption DEF OnTheFly, Wrapped, Bounds
    <3> QED
      BY <3>1, <3>2, DcpAssumption DEF WinBound
  <2>3. CASE HandleTimeout \/ \E m \in AckMsgs : ReceiveAck(m) \/ LoseAck(m)
    <3>1. data' = data
      BY <2>3 DEF HandleTimeout, ReceiveAck, LoseAck
    <3> QED
      BY <2>1, <3>1
  <2>4. ASSUME NEW r \in Pkts,
               \/ ReceiveUdp(r) \/ Trim(r) \/ LoseData(r)
               \/ ReceiveHeader(r) \/ LoseHeader(r)
        PROVE  data'[s] <= data[s]
    <3>1. CASE data' = data
      BY <2>1, <3>1
    <3>2. CASE data[r] > 0 /\ data' = Minus(data, r)
      BY <2>1, <3>2, MinusFacts
    <3> QED
      BY <2>4, <3>1, <3>2 DEF ReceiveUdp, Trim, LoseData, ReceiveHeader, LoseHeader
  <2> QED
    BY <2>2, <2>3, <2>4 DEF Next, UntimedNext
<1>2. []IInv /\ [][Next]_vars => [][SilentStep]_vars
  BY <1>1, PTL
<1> QED
  BY <1>2, Invariance, PTL DEF Spec, CompletedStaysSilent

\* A completed flow arrived in full: QpComplete never runs early.
LEMMA CompletionStep ==
    ASSUME IInv, NEW m \in AckMsgs, ReceiveAck(m)
    PROVE  UNCHANGED <<delivered, qpDone>> \/ RT!Complete
<1>1. delivered' = delivered
  BY DEF ReceiveAck
<1>2. IInv'
  BY ReceiveAckInv
<1>3. CASE qpDone' = qpDone
  BY <1>1, <1>3
<1>4. CASE qpDone' # qpDone
  <2>1. ~qpDone
    BY <1>4 DEF ReceiveAck, sndVars
  <2>2. qpDone = FALSE /\ qpDone' = TRUE
    BY <1>2, <1>4, <2>1 DEF IInv, TypeOK
  <2>3. delivered = Pkts
    BY <1>1, <1>2, <2>2 DEF IInv, DoneAtEnd, Pkts
  <2> QED
    BY <1>1, <2>2, <2>3 DEF RT!Complete
<1> QED
  BY <1>3, <1>4

LEMMA DeliveryStep ==
    ASSUME NEW s \in Pkts, ReceiveUdp(s)
    PROVE  UNCHANGED <<delivered, qpDone>> \/ RT!Receive(s)
<1>1. delivered' = delivered \/ delivered' = delivered \cup {s}
  BY DEF ReceiveUdp
<1>2. qpDone' = qpDone
  BY DEF ReceiveUdp, sndVars
<1> QED
  BY <1>1, <1>2 DEF RT!Receive

LEMMA RefinementStep == IInv /\ [Next]_vars => [RT!RTNext]_(RT!rtVars)
<1> SUFFICES ASSUME IInv, [Next]_vars
             PROVE  UNCHANGED <<delivered, qpDone>> \/ RT!RTNext
  BY DEF RT!rtVars
<1>1. CASE GetNxtPacket \/ HandleTimeout \/ UNCHANGED vars
  BY <1>1 DEF GetNxtPacket, HandleTimeout, vars, sndVars
<1>2. ASSUME NEW m \in AckMsgs, ReceiveAck(m) \/ LoseAck(m)
      PROVE  UNCHANGED <<delivered, qpDone>> \/ RT!RTNext
  BY <1>2, CompletionStep DEF LoseAck, RT!RTNext, sndVars
<1>3. ASSUME NEW s \in Pkts, ReceiveUdp(s)
      PROVE  UNCHANGED <<delivered, qpDone>> \/ RT!RTNext
  BY <1>3, DeliveryStep DEF RT!RTNext
<1>4. ASSUME NEW s \in Pkts,
             ReceiveHeader(s) \/ Trim(s) \/ LoseData(s) \/ LoseHeader(s)
      PROVE  UNCHANGED <<delivered, qpDone>>
  BY <1>4 DEF ReceiveHeader, Trim, LoseData, LoseHeader, sndVars
<1> QED
  BY <1>1, <1>2, <1>3, <1>4 DEF Next, UntimedNext

\* DCP implements the reliable transfer of a flow, in its plain, optimised
\* and adaptive form.
THEOREM Refinement == Spec => ImplementsReliableTransfer
<1>1. Init => RT!RTInit
  BY DEF Init, RT!RTInit
<1> QED
  BY <1>1, RefinementStep, Invariance, PTL DEF Spec, ImplementsReliableTransfer, RT!RTSpec
===============================================================================
