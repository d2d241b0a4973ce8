----------------------------- MODULE IrnTransport -----------------------------
(***************************************************************************)
(* One RDMA queue pair in loss-recovery mode 1 (IRN: selective             *)
(* acknowledgements, one retransmission pass per recovery), with the       *)
(* in-order receiver and with the adaptive-routing one (AREnable).         *)
(*                                                                         *)
(* Sequence numbers count packets, and the two block lists of              *)
(* IrnSackManager are sets of packets (SackBlocks checks that reading).    *)
(* A reply carries the cumulative number and, when irnNackSize # 0, the    *)
(* packet that triggered it.  The in-order receiver always labels it a     *)
(* NACK (l3Prot 0xFD), the adaptive-routing one always an ACK (0xFC), and  *)
(* the sender looks at irnNackSize only, so the label is left out.         *)
(* Channels, timers and silent link loss are as in RoceTransport.          *)
(***************************************************************************)
EXTENDS Integers, FiniteSets

CONSTANTS
    NumPkts,      \* m_size, in packets
    Win,          \* m_win, in packets; 0 switches the window off
    Bdp,          \* m_irn_bdp, in packets
    Chunk,        \* L2ChunkSize, in packets
    AckInterval,  \* L2AckInterval; both only guide the AR receiver
    AR,           \* AREnable
    Pfc,          \* QbbEnabled: the switches pause instead of dropping
    LinkLoss,     \* links may lose packets silently
    MaxCopies     \* bound: copies of one message in the network

ASSUME IrnAssumption ==
    /\ NumPkts \in Nat \ {0}
    /\ Win \in Nat
    /\ Bdp \in Nat \ {0}
    /\ Chunk \in Nat \ {0}
    /\ AckInterval \in Nat \ {0}
    /\ {AR, Pfc, LinkLoss} \subseteq BOOLEAN
    /\ MaxCopies \in Nat \ {0}

Pkts == 0 .. NumPkts - 1
Bounds == 0 .. NumPkts
NoNack == -1                                       \* irnNackSize is 0
Replies == [seq : Bounds, nack : Pkts \cup {NoNack}]

VARIABLES
    sndNxt, sndUna,  \* snd_nxt, snd_una
    sack,            \* irn.m_sack
    highestAck,      \* irn.m_highest_ack
    maxSeq,          \* irn.m_max_seq: start of the furthest packet sent
    recovery,        \* irn.m_recovery
    recoverySeq,     \* irn.m_recovery_seq
    timer,           \* m_retransmit is running
    qpDone,          \* the QP was completed
    expected,        \* ReceiverNextExpectedSeq
    held,            \* m_irn_sack_, of the in-order receiver
    tracker,         \* the blocks of m_recvTracker, of the adaptive-routing one
    data,            \* copies of each data packet in the network
    acks,            \* copies of each reply in the network
    delivered        \* history: packets whose payload the receiver took

sndVars == <<sndNxt, sndUna, sack, highestAck, maxSeq, recovery, recoverySeq,
             timer, qpDone>>
rxVars  == <<expected, held, tracker>>
vars    == <<sndVars, rxVars, data, acks, delivered>>

TypeOK ==
    /\ sndNxt \in Bounds /\ sndUna \in Bounds /\ highestAck \in Bounds
    /\ sack \in SUBSET Pkts
    /\ maxSeq \in Pkts
    /\ recovery \in BOOLEAN
    /\ recoverySeq \in 0 .. NumPkts + 1
    /\ timer \in BOOLEAN /\ qpDone \in BOOLEAN
    /\ expected \in Bounds
    /\ held \in SUBSET Pkts /\ tracker \in SUBSET Pkts
    /\ data \in [Pkts -> Nat]
    /\ acks \in [Replies -> Nat]
    /\ delivered \in SUBSET Pkts

\* The constructor leaves m_recovery_seq unset: it holds any number, and
\* NumPkts + 1 stands for all that snd_una never reaches.
Init ==
    /\ sndNxt = 0 /\ sndUna = 0
    /\ sack = {} /\ highestAck = 0 /\ maxSeq = 0
    /\ recovery = FALSE /\ recoverySeq \in 0 .. NumPkts + 1
    /\ timer = FALSE /\ qpDone = FALSE
    /\ expected = 0 /\ held = {} /\ tracker = {}
    /\ data = [s \in Pkts |-> 0]
    /\ acks = [m \in Replies |-> 0]
    /\ delivered = {}

-------------------------------------------------------------------------------
(* Helpers.                                                                *)

Larger(a, b) == IF a >= b THEN a ELSE b

OnTheFly(nxt, una) == nxt - una

\* The end of the run of packets of set that starts at start.
RunEnd(set, start) ==
    CHOOSE e \in Bounds : /\ e >= start
                          /\ \A s \in Pkts : start <= s /\ s < e => s \in set
                          /\ e \notin set

\* IrnSackManager::peekFrontBlock: set's first block starts at start.
FrontBlockAt(set, start) == start \in set /\ \A s \in set : start <= s

\* A block that starts exactly at n moves n to its end.
PastFrontBlock(set, n) == IF FrontBlockAt(set, n) THEN RunEnd(set, n) ELSE n

\* IrnSackManager::discardUpTo.
DiscardUpTo(set, n) == {s \in set : s >= n}

PutData(s) ==
    /\ data[s] < MaxCopies
    /\ data' = [data EXCEPT ![s] = @ + 1]

TakeData(s) ==
    /\ data[s] > 0
    /\ data' = [data EXCEPT ![s] = @ - 1]

Reply(seq, nack) ==
    LET m == [seq |-> seq, nack |-> nack]
    IN  /\ acks[m] < MaxCopies
        /\ acks' = [acks EXCEPT ![m] = @ + 1]

TakeAck(m) ==
    /\ acks[m] > 0
    /\ acks' = [acks EXCEPT ![m] = @ - 1]

-------------------------------------------------------------------------------
(* Sender.                                                                 *)

\* RdmaQueuePair::IsWinBound.
WinBound == Win # 0 /\ OnTheFly(sndNxt, sndUna) >= Win

\* Mutant: one packet beyond the limit.
CanIrnTransmit_OffByOne ==
    \/ highestAck <= maxSeq /\ maxSeq - highestAck + 1 < Bdp
    \/ highestAck + Bdp >= sndNxt

\* RdmaQueuePair::CanIrnTransmit.  GetIrnBytesInFlight is a 32-bit unsigned
\* difference: once the highest acknowledgement has passed the start of the
\* furthest packet it wraps and the first alternative fails.
CanIrnTransmit ==
    \/ highestAck <= maxSeq /\ maxSeq - highestAck + 1 < Bdp
    \/ highestAck + Bdp > sndNxt

\* The side effect of GetBytesLeft and IsFinished: snd_nxt skips a first
\* selectively acknowledged block that starts there.
SkipSacked(nxt, set) == PastFrontBlock(set, nxt)

Skip(nxt, set) ==
    /\ sndNxt' = SkipSacked(nxt, set)
    /\ sack' = IF FrontBlockAt(set, nxt) THEN DiscardUpTo(set, sndNxt') ELSE set

\* GetNextQindex looks at the QP and does not send: only the skip remains.
PollQp ==
    /\ Skip(sndNxt, sack)
    /\ UNCHANGED <<sndUna, highestAck, maxSeq, recovery, recoverySeq, timer,
                   qpDone, rxVars, data, acks, delivered>>

\* GetNextQindex tests the window, then skips; GetNxtPacket and PktSent.
GetNxtPacket ==
    /\ ~WinBound /\ CanIrnTransmit
    /\ LET seq == SkipSacked(sndNxt, sack)
       IN  /\ seq < NumPkts
           /\ PutData(seq)
           /\ sndNxt' = seq + 1
           /\ sack' = IF FrontBlockAt(sack, sndNxt) THEN DiscardUpTo(sack, seq) ELSE sack
           /\ maxSeq' = Larger(maxSeq, seq)
    /\ timer' = TRUE
    /\ UNCHANGED <<sndUna, highestAck, recovery, recoverySeq, qpDone,
                   rxVars, acks, delivered>>

\* Mutant: a block is taken although a hole lies before it.
CumulativeAfter_OverHole(una, set) ==
    IF set = {} THEN una ELSE CHOOSE e \in Bounds : e - 1 \in set /\ \A s \in set : s < e

\* The cumulative number extended by the selectively acknowledged block
\* that starts there.
CumulativeAfter(una, set) == PastFrontBlock(set, una)

\* Mutant: snd_nxt is left behind the acknowledgement.
PulledNxt_LeftBehind(una) == sndNxt

PulledNxt(una) == Larger(sndNxt, una)

\* Mutant: irnNackSize is one packet too large.
Marked_OneMore(m) ==
    IF m.nack = NoNack THEN sack ELSE sack \cup ({m.nack, m.nack + 1} \cap Pkts)

\* IrnSackManager::sack of the block [irnNack, irnNack + irnNackSize).
Marked(m) == IF m.nack = NoNack THEN sack ELSE sack \cup {m.nack}

\* RecoverQueue, on the first reply that names a missing packet; the next
\* ones are ignored until the recovery ends.
StartRecovery(una, nxt, stillIn) ==
    /\ recovery' = TRUE
    /\ IF stillIn
       THEN sndNxt' = nxt /\ UNCHANGED recoverySeq
       ELSE sndNxt' = una /\ recoverySeq' = nxt

\* QpComplete; the receiver's queue pair is deleted with it (qp_finish).
QpComplete ==
    /\ qpDone' = TRUE
    /\ timer' = FALSE
    /\ expected' = 0 /\ held' = {} /\ tracker' = {}

KeepOpen(una, nxt) ==
    /\ timer' = (timer \/ OnTheFly(nxt, una) > 0)
    /\ UNCHANGED <<qpDone, rxVars>>

\* ReceiveAck for a live queue pair.
Acknowledge(m) ==
    LET marked  == Marked(m)
        una     == CumulativeAfter(Larger(sndUna, m.seq), marked)
        left    == DiscardUpTo(marked, una)
        pulled  == PulledNxt(una)
        nxt     == SkipSacked(pulled, left)
        stillIn == recovery /\ una < recoverySeq
    IN  /\ highestAck' = Larger(highestAck, m.seq)
        /\ sndUna' = una
        /\ sack' = IF FrontBlockAt(left, pulled) THEN DiscardUpTo(left, nxt) ELSE left
        /\ IF una >= NumPkts THEN QpComplete ELSE KeepOpen(una, nxt)
        /\ IF m.nack # NoNack
           THEN StartRecovery(una, nxt, stillIn)
           ELSE /\ recovery' = FALSE
                /\ sndNxt' = nxt
                /\ UNCHANGED recoverySeq
        /\ UNCHANGED maxSeq

ReceiveAck(m) ==
    /\ TakeAck(m)
    /\ IF qpDone
       THEN UNCHANGED <<sndVars, rxVars>>
       ELSE Acknowledge(m)
    /\ UNCHANGED <<data, delivered>>

\* Mutant: one packet too far back.
RecoverQueue_OffByOne(una, nxt) == una - 1

RecoverQueue(una, nxt) == una

\* IsFinished skips first.  With PFC the timer has no effect and is not set
\* again ("disable timeouts when PFC is enabled").
HandleTimeout ==
    /\ timer
    /\ timer' = FALSE
    /\ LET nxt  == SkipSacked(sndNxt, sack)
           idle == sndUna >= NumPkts \/ OnTheFly(nxt, sndUna) = 0 \/ Pfc
       IN  /\ sndNxt' = IF idle THEN nxt ELSE RecoverQueue(sndUna, nxt)
           /\ sack' = IF FrontBlockAt(sack, sndNxt) THEN DiscardUpTo(sack, nxt) ELSE sack
           /\ recovery' = (recovery \/ ~idle)
    /\ UNCHANGED <<sndUna, highestAck, maxSeq, recoverySeq, qpDone, rxVars,
                   data, acks, delivered>>

-------------------------------------------------------------------------------
(* Receiver.                                                               *)

\* A reply that names packet s while the receiver still holds packets
\* beyond a hole, and a plain one when it holds none.
ReplyFor(s) == Reply(expected', IF held' = {} THEN NoNack ELSE s)

\* The expectation jumps over the held block that the packet has reached.
AdvanceOver(e) == PastFrontBlock(held, e)

AcceptInOrder(s) ==
    /\ ~AR
    /\ s = expected \/ s + 1 = expected
    /\ expected' = AdvanceOver(expected + (1 - (expected - s)))
    /\ held' = DiscardUpTo(held, expected')
    /\ ReplyFor(s)
    /\ delivered' = delivered \cup {s}
    /\ UNCHANGED tracker

\* A packet beyond a hole is held and reported; when it is held already the
\* report is repeated only once the NACK timer has run out.
HoldOutOfOrder(s) ==
    /\ ~AR /\ s > expected
    /\ held' = held \cup {s}
    /\ \E silent \in BOOLEAN :
         /\ silent => s \in held
         /\ IF silent THEN UNCHANGED acks ELSE Reply(expected, s)
    /\ delivered' = delivered \cup {s}
    /\ UNCHANGED <<expected, tracker>>

AckDuplicate(s) ==
    /\ ~AR /\ s + 1 < expected
    /\ UNCHANGED <<rxVars, delivered>>
    /\ ReplyFor(s)

\* As in RoceTransport: past the milestone or at a chunk boundary.
AckDue(e) == e >= AckInterval \/ e % Chunk = 0

\* Mutant: the end of the last block, not of the one that starts at 0.
NextExpected_LastBlock(got) ==
    CHOOSE e \in Bounds : \/ got = {} /\ e = 0
                          \/ e - 1 \in got /\ \A s \in got : s < e

\* RecvBlockTracker::GetNextExpectedSeq.
NextExpected(got) == IF 0 \in got THEN RunEnd(got, 0) ELSE 0

\* Adaptive routing: RecvBlockTracker keeps every packet and the reply, when
\* one is due, never names a packet.
KeepAnyOrder(s) ==
    /\ AR /\ s >= expected
    /\ tracker' = tracker \cup {s}
    /\ expected' = NextExpected(tracker')
    /\ IF expected' > expected /\ AckDue(expected')
       THEN Reply(expected', NoNack)
       ELSE UNCHANGED acks
    /\ delivered' = delivered \cup {s}
    /\ UNCHANGED held

AckDuplicateAr(s) ==
    /\ AR /\ s < expected
    /\ Reply(expected, NoNack)
    /\ UNCHANGED <<rxVars, delivered>>

ReceiveUdp(s) ==
    /\ TakeData(s)
    /\ \/ AcceptInOrder(s)
       \/ HoldOutOfOrder(s)
       \/ AckDuplicate(s)
       \/ KeepAnyOrder(s)
       \/ AckDuplicateAr(s)
    /\ UNCHANGED sndVars

-------------------------------------------------------------------------------
(* Loss: at a switch without PFC, or silently on a link.  The sender of an *)
(* IRN flow learns of neither.                                             *)

LoseData(s) ==
    /\ ~Pfc \/ LinkLoss
    /\ TakeData(s)
    /\ UNCHANGED <<sndVars, rxVars, acks, delivered>>

LoseAck(m) ==
    /\ LinkLoss
    /\ TakeAck(m)
    /\ UNCHANGED <<sndVars, rxVars, data, delivered>>

-------------------------------------------------------------------------------

Next ==
    \/ PollQp
    \/ GetNxtPacket
    \/ HandleTimeout
    \/ \E m \in Replies : ReceiveAck(m) \/ LoseAck(m)
    \/ \E s \in Pkts : ReceiveUdp(s) \/ LoseData(s)

Spec == Init /\ [][Next]_vars

\* The NIC keeps draining eligible queue pairs.  The network does not lose
\* every copy of a packet that is sent again and again, nor every reply with
\* the same cumulative number.
NetworkFairness ==
    /\ WF_vars(GetNxtPacket)
    /\ \A s \in Pkts : SF_vars(ReceiveUdp(s))
    /\ \A b \in Bounds : SF_vars(\E m \in Replies : m.seq = b /\ ReceiveAck(m))

FairSpec == Spec /\ NetworkFairness /\ WF_vars(HandleTimeout)

-------------------------------------------------------------------------------
(* Properties.                                                             *)

\* While the flow runs, the cumulative number the sender believes in, which
\* it extends by selectively acknowledged blocks of its own, never exceeds
\* the receiver's, and all packets below it have arrived.
NoFalseAck ==
    ~qpDone => /\ sndUna <= expected
               /\ \A s \in Pkts : s < sndUna => s \in delivered

\* A packet the sender will skip when it retransmits has arrived: the sack
\* list of the sender only names delivered packets, above snd_una.
SackHonest ==
    ~qpDone => /\ sack \subseteq delivered
               /\ \A s \in sack : s >= sndUna

\* What the sender believes has arrived, by a cumulative or by a selective
\* acknowledgement, has.
BeliefsHonest == NoFalseAck /\ SackHonest

\* "SACK blocks must be larger than expected" (the assertion in
\* ReceiverCheckSeq, compiled out of the optimised build the README uses).
RxSackAboveExpected == \A s \in held : s > expected

\* The assertion of GetOnTheFly: skips, rollbacks and acknowledgements that
\* overtake the sender leave snd_nxt >= snd_una.
SndOrder == sndNxt >= sndUna

\* The assertions of both ends hold, with reordered and duplicated replies
\* and after early timeouts.
AssertionsHold == SndOrder /\ RxSackAboveExpected

\* "BDP Limit for IRN": of the packets from the highest cumulative number to
\* the furthest one sent, at most Bdp have not reached the receiver, although
\* GetNextQindex tests the limit before GetBytesLeft skips ahead.
BdpLimit ==
    ~qpDone => Cardinality({s \in Pkts : /\ highestAck <= s /\ s <= maxSeq
                                          /\ s \notin delivered}) <= Bdp

\* The flow service is the one all recovery modes implement.
RT == INSTANCE ReliableTransfer
        WITH Pkts <- Pkts, received <- delivered, completed <- qpDone

ImplementsReliableTransfer == RT!RTSpec
===============================================================================
