----------------------------- MODULE RoceTransport -----------------------------
(***************************************************************************)
(* One RDMA queue pair of the simulator in the loss-recovery modes 0       *)
(* (plain RoCE, go-back-N) and 3 ("ideal": the switch tells the sender     *)
(* which packet it dropped), with and without the adaptive-routing         *)
(* receiver (AREnable).  Sender: RdmaHw::GetNxtPacket, PktSent,            *)
(* ReceiveAck, HandleTimeout, NotifyPacketDrop, QpComplete.  Receiver:     *)
(* RdmaHw::ReceiveUdp with ReceiverCheckSeq.                               *)
(*                                                                         *)
(* Sequence numbers count MTU-sized packets: every boundary the code uses  *)
(* (snd_nxt, snd_una, the receiver's expectation, ACK numbers) is one the  *)
(* sender cut with min(mtu, bytes left), so packet s is [s, s+1).  The     *)
(* network holds a number of copies of each data packet and each (N)ACK;   *)
(* it delivers them in any order.  The retransmission timer and the        *)
(* receiver's NACK timer are untimed: they may expire at any moment after  *)
(* they were set.                                                          *)
(***************************************************************************)
EXTENDS Integers

CONSTANTS
    NumPkts,      \* m_size, in packets
    Win,          \* m_win, in packets; 0 switches the window off
    Chunk,        \* L2ChunkSize, in packets
    AckInterval,  \* L2AckInterval, in packets
    BackTo0,      \* L2BackToZero: resume at the start of the chunk
    AR,           \* AREnable: receiver keeps out-of-order packets
    Ideal,        \* IdealEnable: the sender is told of every switch drop
    SwitchDrops,  \* the switches may drop a data packet (no PFC)
    LinkLoss,     \* links may lose packets silently (ERROR_RATE_PER_LINK, LINK_DOWN)
    MaxCopies     \* bound: copies of one message in the network

ASSUME RoceAssumption ==
    /\ NumPkts \in Nat \ {0}
    /\ Win \in Nat
    /\ Chunk \in Nat \ {0}
    /\ AckInterval \in Nat \ {0}
    /\ {BackTo0, AR, Ideal, SwitchDrops, LinkLoss} \subseteq BOOLEAN
    /\ MaxCopies \in Nat \ {0}

Pkts == 0 .. NumPkts - 1        \* sequence numbers of packets
Bounds == 0 .. NumPkts          \* sequence numbers between packets
NoDrop == -1                    \* ar.hasOutstandingDrop is false
AckKinds == {"ACK", "NACK"}     \* l3Prot 0xFC and 0xFD
AckMsgs == [kind : AckKinds, seq : Bounds]

VARIABLES
    sndNxt, sndUna,  \* RdmaQueuePair::snd_nxt, snd_una
    timer,           \* m_retransmit is running
    qpDone,          \* the QP was completed: gone from m_qpMap, in akashic_Qp
    dropped,         \* ideal.droppedPackets
    arDrop,          \* ar.highestOutstandingDropSeq, or NoDrop
    rxOpen,          \* the receiver has a RdmaRxQueuePair in m_rxQpMap
    rxRecord,        \* the rx key is in akashic_RxQp: DeleteRxQp was called
    expected,        \* ReceiverNextExpectedSeq
    tracker,         \* m_recvTracker, as the set of packets it covers
    lastNack,        \* m_lastNACK
    nackHold,        \* m_nackTimer has been set: it may lie in the future
    data,            \* copies of each data packet in the network
    acks,            \* copies of each ACK and NACK in the network
    delivered        \* history: packets whose payload the receiver accepted

sndVars == <<sndNxt, sndUna, timer, qpDone, dropped, arDrop>>
rxVars  == <<rxOpen, rxRecord, expected, tracker, lastNack, nackHold>>
vars    == <<sndVars, rxVars, data, acks, delivered>>

TypeOK ==
    /\ sndNxt \in Bounds /\ sndUna \in Bounds
    /\ timer \in BOOLEAN /\ qpDone \in BOOLEAN
    /\ dropped \in SUBSET Pkts
    /\ arDrop \in Pkts \cup {NoDrop}
    /\ rxOpen \in BOOLEAN /\ rxRecord \in BOOLEAN
    /\ expected \in Bounds
    /\ tracker \in SUBSET Pkts
    /\ lastNack \in Bounds /\ nackHold \in BOOLEAN
    /\ data \in [Pkts -> Nat]
    /\ acks \in [AckMsgs -> Nat]
    /\ delivered \in SUBSET Pkts

Init ==
    /\ sndNxt = 0 /\ sndUna = 0
    /\ timer = FALSE /\ qpDone = FALSE
    /\ dropped = {} /\ arDrop = NoDrop
    /\ rxOpen = FALSE /\ rxRecord = FALSE
    /\ expected = 0 /\ tracker = {}
    /\ lastNack = 0 /\ nackHold = FALSE
    /\ data = [s \in Pkts |-> 0]
    /\ acks = [m \in AckMsgs |-> 0]
    /\ delivered = {}

-------------------------------------------------------------------------------
(* Helpers.                                                                *)

Larger(a, b) == IF a >= b THEN a ELSE b

ChunkFloor(s) == (s \div Chunk) * Chunk

\* RdmaQueuePair::GetOnTheFly; both terms are unsigned 64-bit, and
\* SndOrder below shows that the difference never wraps in these modes.
OnTheFly(nxt, una) == nxt - una

\* RdmaQueuePair::IsWinBound.
WinBound == Win # 0 /\ OnTheFly(sndNxt, sndUna) >= Win

\* The channel takes one more copy of a message.
PutData(s) ==
    /\ data[s] < MaxCopies
    /\ data' = [data EXCEPT ![s] = @ + 1]

TakeData(s) ==
    /\ data[s] > 0
    /\ data' = [data EXCEPT ![s] = @ - 1]

PutAck(kind, seq) ==
    LET m == [kind |-> kind, seq |-> seq]
    IN  /\ acks[m] < MaxCopies
        /\ acks' = [acks EXCEPT ![m] = @ + 1]

TakeAck(m) ==
    /\ acks[m] > 0
    /\ acks' = [acks EXCEPT ![m] = @ - 1]
-------------------------------------------------------------------------------
(* Sender.                                                                 *)

\* RdmaHw::GetNxtPacket and PktSent, called by the NIC for a QP that
\* RdmaEgressQueue::GetNextQindex found eligible.  A dropped packet the
\* switch reported goes first and leaves snd_nxt alone.
Retransmit ==
    /\ Ideal /\ dropped # {}
    /\ \E s \in dropped :
         /\ \A d \in dropped : s <= d
         /\ dropped' = dropped \ {s}
         /\ PutData(s)
    /\ UNCHANGED sndNxt

SendNew ==
    /\ ~(Ideal /\ dropped # {})
    /\ sndNxt < NumPkts
    /\ PutData(sndNxt)
    /\ sndNxt' = sndNxt + 1
    /\ UNCHANGED dropped

GetNxtPacket ==
    /\ ~WinBound
    /\ Retransmit \/ SendNew
    /\ timer' = TRUE
    /\ UNCHANGED <<sndUna, qpDone, arDrop, rxVars, acks, delivered>>

\* Mutant: a chunk rollback of the receiver is not answered by rounding.
NewUna_NoRounding(seq) == Larger(sndUna, seq)

\* With L2BackToZero an acknowledged number is rounded down to its chunk.
Cleared(seq) == IF BackTo0 THEN ChunkFloor(seq) ELSE seq

\* snd_una only moves forward (RdmaQueuePair::Acknowledge).
NewUna(seq) == Larger(sndUna, Cleared(seq))

\* Mutant: snd_nxt stays behind the acknowledgement.
PulledNxt_LeftBehind(una) == sndNxt

\* ReceiveAck pulls snd_nxt along when the acknowledgement overtook it.
PulledNxt(una) == Larger(sndNxt, una)

\* Mutant: the drop is forgotten when the ACK reaches it, not passes it.
ArDropAfter_Early(una) == IF una > sndUna /\ una >= arDrop THEN NoDrop ELSE arDrop

\* RdmaQueuePair::ClearArDropsUpTo, reached when snd_una moved to una.
ArDropAfter(una) == IF una > sndUna /\ una > arDrop THEN NoDrop ELSE arDrop

\* snd_nxt after RdmaHw::RecoverQueue: resume at the oldest unacknowledged.
RecoverQueue(una) == una

\* QpComplete: timer cancelled, receiver's queue pair deleted (qp_finish),
\* the sender's one forgotten and recorded.
QpComplete ==
    /\ qpDone' = TRUE
    /\ timer' = FALSE
    /\ rxOpen' = FALSE /\ rxRecord' = TRUE
    /\ expected' = 0 /\ tracker' = {} /\ lastNack' = 0 /\ nackHold' = FALSE

\* The retransmission timer is restarted while responses are outstanding.
KeepOpen(una, nxt) ==
    /\ timer' = (timer \/ OnTheFly(nxt, una) > 0)
    /\ UNCHANGED <<qpDone, rxVars>>

\* ReceiveAck for a live queue pair.  A NACK also runs RecoverQueue.
Acknowledge(m) ==
    LET una == NewUna(m.seq)
        nxt == PulledNxt(una)
    IN  /\ sndUna' = una
        /\ arDrop' = ArDropAfter(una)
        /\ IF una >= NumPkts THEN QpComplete ELSE KeepOpen(una, nxt)
        /\ sndNxt' = IF m.kind = "NACK" THEN RecoverQueue(una) ELSE nxt
        /\ UNCHANGED dropped

ReceiveAck(m) ==
    /\ TakeAck(m)
    /\ IF qpDone                       \* found in akashic_Qp: ignored
       THEN UNCHANGED <<sndVars, rxVars>>
       ELSE Acknowledge(m)
    /\ UNCHANGED <<data, delivered>>

\* Nothing happens for a QP that is finished or has nothing outstanding.
HandleTimeout ==
    /\ timer
    /\ timer' = FALSE
    /\ IF sndUna >= NumPkts \/ OnTheFly(sndNxt, sndUna) = 0
       THEN UNCHANGED <<sndNxt, arDrop>>
       ELSE /\ sndNxt' = RecoverQueue(sndUna)
            /\ arDrop' = IF AR THEN NoDrop ELSE arDrop
    /\ UNCHANGED <<sndUna, qpDone, dropped, rxVars, data, acks, delivered>>

\* RdmaQueuePair::RecordArDrop.
ArDropNoted(s) ==
    IF AR /\ s >= sndUna /\ s < sndNxt THEN Larger(arDrop, s) ELSE arDrop

\* Mutant: the report of a retransmitted packet's drop is ignored.
DroppedNoted_OnlyNew(s) ==
    IF Ideal /\ ~qpDone /\ s + 1 = sndNxt THEN dropped \cup {s} ELSE dropped

\* ideal.droppedPackets[seq] = payloadSize.
DroppedNoted(s) == IF Ideal /\ ~qpDone THEN dropped \cup {s} ELSE dropped

\* A switch without room drops the packet (DoSwitchSend) and calls
\* NotifyPacketDrop on the sender, which ignores a QP it no longer has.
SwitchDrop(s) ==
    /\ SwitchDrops
    /\ TakeData(s)
    /\ arDrop' = IF qpDone THEN arDrop ELSE ArDropNoted(s)
    /\ dropped' = DroppedNoted(s)
    /\ UNCHANGED <<sndNxt, sndUna, timer, qpDone, rxVars, acks, delivered>>

-------------------------------------------------------------------------------
(* Receiver.                                                               *)

\* An in-order packet is acknowledged once the expectation passed the
\* milestone, which ReceiveUdp resets to m_ack_interval on every packet,
\* or reached a chunk boundary; otherwise the receiver stays silent.
AckDue(e) == e >= AckInterval \/ e % Chunk = 0

AckIfDue(e) == IF AckDue(e) THEN PutAck("ACK", e) ELSE UNCHANGED acks

\* Mutant: the end of the last block, not of the one that starts at 0.
NextExpected_LastBlock(got, e) ==
    \/ got = {} /\ e = 0
    \/ e - 1 \in got /\ \A s \in got : s < e

\* RecvBlockTracker::GetNextExpectedSeq: end of the block that starts at 0.
NextExpected(got, e) == e \notin got /\ \A s \in Pkts : s < e => s \in got

\* Adaptive routing: any packet not seen before is kept, in any order.
KeepAnyOrder(s) ==
    /\ AR /\ s >= expected
    /\ tracker' = tracker \cup {s}
    /\ \E e \in Bounds :
         /\ NextExpected(tracker', e)
         /\ expected' = e
         /\ IF e > expected THEN AckIfDue(e) ELSE UNCHANGED acks
    /\ delivered' = delivered \cup {s}
    /\ UNCHANGED <<lastNack, nackHold>>

\* Mutant: a packet beyond the expectation is taken as the next one.
AcceptInOrder_IgnoresGap(s) ==
    /\ ~AR
    /\ s >= expected
    /\ expected' = s + 1
    /\ AckIfDue(expected')
    /\ delivered' = delivered \cup {s}
    /\ UNCHANGED <<tracker, lastNack, nackHold>>

\* The next packet, or one that ends exactly at the expectation.
AcceptInOrder(s) ==
    /\ ~AR
    /\ s = expected \/ s + 1 = expected
    /\ expected' = expected + (1 - (expected - s))
    /\ AckIfDue(expected')
    /\ delivered' = delivered \cup {s}
    /\ UNCHANGED <<tracker, lastNack, nackHold>>

\* A packet from the future is discarded.  One NACK is sent for each new
\* expectation and again when the NACK timer has run out.
RejectOutOfOrder(s) ==
    /\ ~AR /\ s > expected
    /\ \E elapsed \in BOOLEAN :
         /\ nackHold \/ elapsed
         /\ IF elapsed \/ lastNack # expected
            THEN /\ nackHold' = TRUE
                 /\ lastNack' = expected
                 /\ expected' = IF BackTo0 THEN ChunkFloor(expected) ELSE expected
                 /\ PutAck("NACK", expected')
            ELSE UNCHANGED <<nackHold, lastNack, expected, acks>>
    /\ UNCHANGED <<tracker, delivered>>

AckDuplicate(s) ==
    /\ IF AR THEN s < expected ELSE s + 1 < expected
    /\ PutAck("ACK", expected)
    /\ UNCHANGED <<expected, tracker, lastNack, nackHold, delivered>>

\* GetRxQp(create = true): a packet with no rx queue pair makes a new one,
\* whether or not one was deleted before.
ReceiveUdp(s) ==
    /\ TakeData(s)
    /\ rxOpen' = TRUE
    /\ \/ KeepAnyOrder(s)
       \/ AcceptInOrder(s)
       \/ RejectOutOfOrder(s)
       \/ AckDuplicate(s)
    /\ UNCHANGED <<sndVars, rxRecord>>

-------------------------------------------------------------------------------
(* Silent loss on a link: no component is told.                            *)

LoseData(s) ==
    /\ LinkLoss
    /\ TakeData(s)
    /\ UNCHANGED <<sndVars, rxVars, acks, delivered>>

LoseAck(m) ==
    /\ LinkLoss
    /\ TakeAck(m)
    /\ UNCHANGED <<sndVars, rxVars, data, delivered>>

-------------------------------------------------------------------------------

Next ==
    \/ GetNxtPacket
    \/ HandleTimeout
    \/ \E m \in AckMsgs : ReceiveAck(m) \/ LoseAck(m)
    \/ \E s \in Pkts : ReceiveUdp(s) \/ SwitchDrop(s) \/ LoseData(s)

Spec == Init /\ [][Next]_vars

\* The NIC keeps draining eligible queue pairs, and the network does not
\* lose every copy of a message that is sent again and again.
NetworkFairness ==
    /\ WF_vars(GetNxtPacket)
    /\ \A s \in Pkts : SF_vars(ReceiveUdp(s))
    /\ \A m \in AckMsgs : SF_vars(ReceiveAck(m))

\* In addition, a running retransmission timer fires.
FairSpec == Spec /\ NetworkFairness /\ WF_vars(HandleTimeout)

\* The timer need not fire: the switch's drop reports must do.
TimerlessSpec == Spec /\ NetworkFairness

-------------------------------------------------------------------------------
(* Properties.                                                             *)

\* While the flow runs, the sender never gets ahead of the receiver: snd_una
\* is at most what the receiver expects next, and every packet below it has
\* been delivered, whatever stale ACKs, NACKs, retransmissions and chunk
\* rollbacks are in the network (ReceiveAck against ReceiverCheckSeq).
NoFalseAck ==
    ~qpDone => /\ sndUna <= expected
               /\ \A s \in Pkts : s < sndUna => s \in delivered

\* The assertion of RdmaQueuePair::GetOnTheFly: snd_nxt >= snd_una.
SndOrder == sndNxt >= sndUna

\* The service: packets arrive, completion is reported once and only when
\* the whole flow has arrived (QpComplete, qp_finish).
RT == INSTANCE ReliableTransfer
        WITH Pkts <- Pkts, received <- delivered, completed <- qpDone

ImplementsReliableTransfer == RT!RTSpec

\* Ideal recovery forgets nothing: with drops only at switches, each
\* outstanding packet is delivered, on its way, or queued in droppedPackets
\* (NotifyPacketDrop, GetNxtPacket), so no timeout is ever needed.
NothingForgotten ==
    ~qpDone => \A s \in Pkts : (sndUna <= s /\ s < sndNxt)
                  => s \in delivered \/ data[s] > 0 \/ s \in dropped

\* A completed queue pair stays in the NIC's round-robin group, but puts no
\* further packet on the wire, except a drop that was reported before it
\* completed (GetNxtPacket looks at droppedPackets first).
SilentStep == qpDone => \A s \in Pkts : data'[s] <= data[s] \/ s \in dropped
CompletedStaysSilent == [][SilentStep]_vars

\* RecordArTimeoutRetransmission calls a timeout spurious when no drop is
\* outstanding: then each outstanding packet is delivered or on its way.
SpuriousStep ==
    (AR /\ HandleTimeout /\ sndNxt > sndUna /\ arDrop = NoDrop)
        => \A s \in Pkts : (sndUna <= s /\ s < sndNxt)
                              => s \in delivered \/ data[s] > 0
TimeoutsClassified == [][SpuriousStep]_vars
===============================================================================
