----------------------------- MODULE DcpTransport -----------------------------
(***************************************************************************)
(* One RDMA queue pair in the loss-recovery modes 2 (DCP: the switch trims *)
(* a packet to its header instead of dropping it, and the receiver answers *)
(* a header with a NACK) and 4 (the same with fewer ACKs), with and        *)
(* without adaptive routing.  Sender: RdmaHw::GetNxtPacket, PktSent,       *)
(* ReceiveAck, HandleTimeout, QpComplete.  Receiver: RdmaHw::ReceiveUdp    *)
(* with the DCP branch of ReceiverCheckSeq.  Switch: DoSwitchSend.         *)
(*                                                                         *)
(* Sequence numbers count packets; channels, timers and silent link loss   *)
(* are as in RoceTransport.                                                *)
(***************************************************************************)
EXTENDS Integers

CONSTANTS
    NumPkts,      \* m_size, in packets
    Win,          \* m_win, in packets; 0 switches the window off
    Chunk,        \* L2ChunkSize, in packets
    AckInterval,  \* L2AckInterval, in packets
    AR,           \* AREnable: ACKs carry the cumulative number
    AckOpt,       \* DcpAckOptEnable: no ACK without a congestion mark
    LinkLoss,     \* links may lose packets silently
    MaxCopies     \* bound: copies of one message in the network

ASSUME DcpAssumption ==
    /\ NumPkts \in Nat \ {0}
    /\ Win \in Nat
    /\ Chunk \in Nat \ {0}
    /\ AckInterval \in Nat \ {0}
    /\ {AR, AckOpt, LinkLoss} \subseteq BOOLEAN
    /\ MaxCopies \in Nat \ {0}

Pkts == 0 .. NumPkts - 1
Bounds == 0 .. NumPkts
AckKinds == {"ACK", "NACK"}
AckMsgs == [kind : AckKinds, seq : Bounds]

VARIABLES
    sndNxt, sndUna,  \* snd_nxt, snd_una
    inflight,        \* the keys of dcp.inflightPackets
    resend,          \* dcp.retransmissionQueue
    timer,           \* m_retransmit is running
    qpDone,          \* the QP was completed
    expected,        \* ReceiverNextExpectedSeq
    tracker,         \* m_recvTracker, as the set of packets it covers
    data,            \* copies of each full packet in the network
    headers,         \* copies of each trimmed packet in the network
    acks,            \* copies of each ACK and NACK in the network
    delivered        \* history: packets whose payload the receiver took

sndVars == <<sndNxt, sndUna, inflight, resend, timer, qpDone>>
rxVars  == <<expected, tracker>>
vars    == <<sndVars, rxVars, data, headers, acks, delivered>>

TypeOK ==
    /\ sndNxt \in Bounds /\ sndUna \in Bounds
    /\ inflight \in SUBSET Pkts /\ resend \in SUBSET Pkts
    /\ timer \in BOOLEAN /\ qpDone \in BOOLEAN
    /\ expected \in Bounds
    /\ tracker \in SUBSET Pkts
    /\ data \in [Pkts -> Nat] /\ headers \in [Pkts -> Nat]
    /\ acks \in [AckMsgs -> Nat]
    /\ delivered \in SUBSET Pkts

Init ==
    /\ sndNxt = 0 /\ sndUna = 0
    /\ inflight = {} /\ resend = {}
    /\ timer = FALSE /\ qpDone = FALSE
    /\ expected = 0 /\ tracker = {}
    /\ data = [s \in Pkts |-> 0] /\ headers = [s \in Pkts |-> 0]
    /\ acks = [m \in AckMsgs |-> 0]
    /\ delivered = {}

-------------------------------------------------------------------------------
(* Helpers.                                                                *)

Larger(a, b) == IF a >= b THEN a ELSE b

\* Stands for the 64-bit numbers a negative difference wraps to.
Wrapped == NumPkts + Win + 1

\* Mutant: a signed difference.
OnTheFly_Signed(nxt, una) == IF nxt >= una THEN nxt - una ELSE 0

\* RdmaQueuePair::GetOnTheFly, an unsigned difference.  Its assertion that
\* snd_nxt >= snd_una is compiled out of the optimised build and, unlike in
\* the other modes, not true: see SndOrder.
OnTheFly(nxt, una) == IF nxt >= una THEN nxt - una ELSE Wrapped

WinBound == Win # 0 /\ OnTheFly(sndNxt, sndUna) >= Win

Put(ch, m) == ch[m] < MaxCopies
Plus(ch, m) == [ch EXCEPT ![m] = @ + 1]
Minus(ch, m) == [ch EXCEPT ![m] = @ - 1]

Reply(kind, seq) ==
    LET m == [kind |-> kind, seq |-> seq]
    IN  Put(acks, m) /\ acks' = Plus(acks, m)

-------------------------------------------------------------------------------
(* Sender.                                                                 *)

\* A retransmission goes first, whatever the window says (GetNextQindex); it
\* leaves snd_nxt and the in-flight list alone.
Retransmit ==
    /\ resend # {}
    /\ \E s \in resend :
         /\ \A r \in resend : s <= r
         /\ Put(data, s) /\ data' = Plus(data, s)
         /\ resend' = resend \ {s}
    /\ UNCHANGED <<sndNxt, inflight>>

SendNew ==
    /\ resend = {} /\ ~WinBound
    /\ sndNxt < NumPkts
    /\ Put(data, sndNxt) /\ data' = Plus(data, sndNxt)
    /\ inflight' = inflight \cup {sndNxt}
    /\ sndNxt' = sndNxt + 1
    /\ UNCHANGED resend

\* RdmaHw::GetNxtPacket and PktSent.
GetNxtPacket ==
    /\ Retransmit \/ SendNew
    /\ timer' = TRUE
    /\ UNCHANGED <<sndUna, qpDone, rxVars, headers, acks, delivered>>

\* QpComplete and, through qp_finish, the end of the receiver's queue pair.
QpComplete ==
    /\ qpDone' = TRUE
    /\ timer' = FALSE
    /\ expected' = 0 /\ tracker' = {}

KeepOpen(una) ==
    /\ timer' = (timer \/ OnTheFly(sndNxt, una) > 0)
    /\ UNCHANGED <<qpDone, rxVars>>

\* Mutant: a NACK of the oldest outstanding packet counts as an old one.
QueuedAfter_AboveUna(s) == IF s \in inflight /\ s > sndUna THEN resend \cup {s} ELSE resend

\* "check that this packet is really still in flight".
QueuedAfter(s) == IF s \in inflight THEN resend \cup {s} ELSE resend

TakeNack(m) ==
    /\ resend' = QueuedAfter(m.seq)
    /\ KeepOpen(sndUna)
    /\ UNCHANGED <<sndUna, inflight>>

\* With adaptive routing every ACK is cumulative; without, only the final
\* one counts.  snd_nxt is not pulled along in this mode.
TakeAck(m) ==
    LET una == IF AR \/ m.seq >= NumPkts THEN Larger(sndUna, m.seq) ELSE sndUna
    IN  /\ sndUna' = una
        /\ IF m.seq >= NumPkts
           THEN inflight' = {} /\ resend' = {}
           ELSE UNCHANGED <<inflight, resend>>
        /\ IF una >= NumPkts THEN QpComplete ELSE KeepOpen(una)

ReceiveAck(m) ==
    /\ acks[m] > 0
    /\ acks' = Minus(acks, m)
    /\ IF qpDone
       THEN UNCHANGED <<sndVars, rxVars>>
       ELSE /\ IF m.kind = "NACK" THEN TakeNack(m) ELSE TakeAck(m)
            /\ UNCHANGED sndNxt
    /\ UNCHANGED <<data, headers, delivered>>

\* Mutant: the retransmission queue outlives the in-flight list.
ClearedByRecovery_QueueKept == inflight' = {} /\ UNCHANGED resend

\* RecoverQueue forgets what was in flight and what was to be sent again.
ClearedByRecovery == inflight' = {} /\ resend' = {}

\* Mutant: one packet too far back.
RecoverQueue_OffByOne(una) == una - 1

\* snd_nxt after RdmaHw::RecoverQueue.
RecoverQueue(una) == una

HandleTimeout ==
    /\ timer
    /\ timer' = FALSE
    /\ IF sndUna >= NumPkts \/ OnTheFly(sndNxt, sndUna) = 0
       THEN UNCHANGED <<sndNxt, inflight, resend>>
       ELSE sndNxt' = RecoverQueue(sndUna) /\ ClearedByRecovery
    /\ UNCHANGED <<sndUna, qpDone, rxVars, data, headers, acks, delivered>>

-------------------------------------------------------------------------------
(* Switch.                                                                 *)

\* DoSwitchSend finds no room: the payload is cut off and the header goes on.
Trim(s) ==
    /\ data[s] > 0 /\ Put(headers, s)
    /\ data' = Minus(data, s)
    /\ headers' = Plus(headers, s)
    /\ UNCHANGED <<sndVars, rxVars, acks, delivered>>

-------------------------------------------------------------------------------
(* Receiver.                                                               *)

AckDue(e) == e >= AckInterval \/ e % Chunk = 0

\* Mutant: the end of the last block, not of the one that starts at 0.
NextExpected_LastBlock(got) ==
    IF got = {} THEN 0 ELSE CHOOSE e \in Bounds : e - 1 \in got /\ \A s \in got : s < e

\* RecvBlockTracker::GetNextExpectedSeq.
NextExpected(got) ==
    CHOOSE e \in Bounds : e \notin got /\ \A s \in Pkts : s < e => s \in got

\* The number an ACK carries: the expectation, but 0 from the plain DCP
\* receiver until the flow is complete (x = 7).
AckSeq(e) == IF AR \/ AckOpt \/ e >= NumPkts THEN e ELSE 0

\* The optimised receiver only acknowledges the end of the flow and packets
\* with a congestion mark.
Acked(e, ecn) == AR \/ ~AckOpt \/ e >= NumPkts \/ ecn

\* A full packet.
ReceiveUdp(s) ==
    /\ data[s] > 0
    /\ data' = Minus(data, s)
    /\ IF s >= expected
       THEN /\ tracker' = tracker \cup {s}
            /\ expected' = Larger(expected, NextExpected(tracker'))
            /\ delivered' = delivered \cup {s}
       ELSE UNCHANGED <<expected, tracker, delivered>>
    /\ \E ecn \in BOOLEAN :
         IF (s < expected \/ (expected' > expected /\ AckDue(expected'))) /\ Acked(expected', ecn)
         THEN Reply("ACK", AckSeq(expected'))
         ELSE UNCHANGED acks
    /\ UNCHANGED <<sndVars, headers>>

\* A header: the NACK names the packet, held already or not.
ReceiveHeader(s) ==
    /\ headers[s] > 0
    /\ headers' = Minus(headers, s)
    /\ Reply("NACK", s)
    /\ UNCHANGED <<sndVars, rxVars, data, delivered>>

-------------------------------------------------------------------------------
(* Silent loss on a link.                                                  *)

LoseData(s) ==
    /\ LinkLoss /\ data[s] > 0
    /\ data' = Minus(data, s)
    /\ UNCHANGED <<sndVars, rxVars, headers, acks, delivered>>

LoseHeader(s) ==
    /\ LinkLoss /\ headers[s] > 0
    /\ headers' = Minus(headers, s)
    /\ UNCHANGED <<sndVars, rxVars, data, acks, delivered>>

LoseAck(m) ==
    /\ LinkLoss /\ acks[m] > 0
    /\ acks' = Minus(acks, m)
    /\ UNCHANGED <<sndVars, rxVars, data, headers, delivered>>

-------------------------------------------------------------------------------

UntimedNext ==
    \/ GetNxtPacket
    \/ \E m \in AckMsgs : ReceiveAck(m) \/ LoseAck(m)
    \/ \E s \in Pkts : \/ ReceiveUdp(s) \/ ReceiveHeader(s) \/ Trim(s)
                       \/ LoseData(s) \/ LoseHeader(s)

Next == UntimedNext \/ HandleTimeout

Spec == Init /\ [][Next]_vars

\* The NIC keeps draining eligible queue pairs; the switches do not trim
\* every copy of a packet that is sent again and again.
NetworkFairness ==
    /\ WF_vars(GetNxtPacket)
    /\ \A s \in Pkts : SF_vars(ReceiveUdp(s)) /\ SF_vars(ReceiveHeader(s))
    /\ \A b \in Bounds : SF_vars(\E m \in AckMsgs : m.seq = b /\ ReceiveAck(m))

FairSpec == Spec /\ NetworkFairness /\ WF_vars(HandleTimeout)

\* The retransmission timer never runs out: the headers must do.
TimerlessSpec == Init /\ [][UntimedNext]_vars /\ NetworkFairness

-------------------------------------------------------------------------------
(* Properties.                                                             *)

\* While the flow runs, everything below snd_una has been delivered.
NoFalseAck ==
    ~qpDone => /\ sndUna <= expected
               /\ \A s \in Pkts : s < sndUna => s \in delivered

\* "Retransmission seq not found in inflight buffer for an active QP" cannot
\* happen: a queued retransmission always has its size on record, whatever
\* NACKs, timeouts and ACKs came in between.
RetransmissionKnown == resend \subseteq inflight

\* What the sender takes for received is, and each packet that it is asked
\* to send again is one it has in its records.
BeliefsHonest == NoFalseAck /\ RetransmissionKnown

\* Trimming loses nothing: without link loss each packet in the sender's
\* outstanding range is delivered, on its way, on its way as a header, named
\* by a NACK, or queued again.
NothingForgotten ==
    ~qpDone => \A s \in Pkts : (sndUna <= s /\ s < sndNxt) =>
        \/ s \in delivered \/ data[s] > 0 \/ headers[s] > 0
        \/ acks[[kind |-> "NACK", seq |-> s]] > 0 \/ s \in resend

\* With a window, a completed queue pair the NIC still polls stays silent.
\* Without one the packets that a timeout took back may still go out.
SilentStep == qpDone => \A s \in Pkts : data'[s] <= data[s]
CompletedStaysSilent == [][SilentStep]_vars

RT == INSTANCE ReliableTransfer
        WITH Pkts <- Pkts, received <- delivered, completed <- qpDone

\* The flow service is the one all recovery modes implement.
ImplementsReliableTransfer == RT!RTSpec

\* The assertion of GetOnTheFly.  After a timeout has taken snd_nxt back, an
\* ACK that was on its way moves snd_una past it.
SndOrder == sndNxt >= sndUna
===============================================================================
