------------------------------ MODULE SwitchMmu ------------------------------
(***************************************************************************)
(* The shared buffer of one switch: SwitchMmu's admission control and byte *)
(* counters, the packet queues of the egress ports, and priority flow      *)
(* control towards the neighbour of each port (SwitchNode::DoSwitchSend,   *)
(* SwitchNotifyDequeue, QbbNetDevice::SendPfc, Receive, TakeDown).         *)
(*                                                                         *)
(* All data packets of the simulator's flows are of one priority group     *)
(* (pg 3), and queue 0 bypasses the buffer accounting, so one class is     *)
(* modelled: m_usedTotalBytes and the one ingress service pool coincide,   *)
(* and so do m_usedIngressPortBytes and m_usedIngressPGBytes.  Thresholds  *)
(* are the dynamic ones.  Sizes and limits are bytes.  Pause timers are    *)
(* untimed, except that the switch's timer for a PAUSE runs out before the *)
(* neighbour's, which starts when the frame arrives.                       *)
(***************************************************************************)
EXTENDS Integers, Sequences

CONSTANTS
    NumPorts,         \* m_activePortCnt
    Routes,           \* <<ingress, egress>> ports the traffic uses
    Sizes,            \* sizes of data packets
    HeaderBytes,      \* what trimming leaves of a packet
    BufferBytes,      \* m_maxBufferBytes
    HeadroomLimit,    \* m_pg_hdrm_limit of the ports 1 .. NumPorts
    HeadroomDefault,  \* m_pg_hdrm_limit of the unused port 0
    IngressAlpha,     \* m_pg_shared_alpha_cell, in 16ths
    EgressAlpha,      \* m_pg_shared_alpha_cell_egress
    Pfc,              \* QbbEnabled
    Trimming,         \* m_packetTrimming
    LinksFail,        \* a link may be taken down
    Garbage,          \* the pause flags' memory is not zero when allocated
    MaxQueued,        \* bound: packets in one egress queue
    MaxFrames         \* bound: PFC frames on the way to one neighbour

MTU == 1048
QCnt == 8
QMin == MTU + 1                                  \* m_q_min_cell
Ports == 1 .. NumPorts

\* m_op_buffer_shared_limit_cell.
OpSharedLimit == BufferBytes - NumPorts * QCnt * MTU

\* m_buffer_cell_limit_sp: the headroom of the ports 0 .. NumPorts - 1 is
\* set aside, although ports are numbered from 1.
SpLimit == OpSharedLimit - (HeadroomDefault + (NumPorts - 1) * HeadroomLimit)

ASSUME MmuAssumption ==
    /\ NumPorts \in Nat \ {0}
    /\ Routes \subseteq Ports \X Ports
    /\ Sizes \subseteq Nat /\ HeaderBytes \in Nat \ {0}
    /\ \A z \in Sizes : HeaderBytes <= z /\ z <= MTU
    /\ HeadroomLimit \in Nat /\ HeadroomDefault \in Nat
    /\ BufferBytes \in Nat /\ SpLimit > 0
    /\ IngressAlpha \in Nat \ {0} /\ EgressAlpha \in Nat \ {0}
    /\ {Pfc, Trimming, LinksFail, Garbage} \subseteq BOOLEAN
    /\ MaxQueued \in Nat /\ MaxFrames \in Nat

VARIABLES
    queue,        \* the data queue of each egress port: ingress and size
    ingressPG,    \* m_usedIngressPGBytes, m_usedIngressPortBytes
    ingressSP,    \* m_usedIngressSPBytes, m_usedTotalBytes
    headroom,     \* m_usedIngressPGHeadroomBytes
    egressQMin,   \* m_usedEgressQMinBytes
    egressShared, \* m_usedEgressQSharedBytes
    egressPort,   \* m_usedEgressPortBytes
    egressSP,     \* m_usedEgressSPBytes
    paused,       \* SwitchMmu::paused
    pauseRemote,  \* m_pause_remote
    resumeEvt,    \* the port's resume event is scheduled
    frames,       \* PFC frames on the way to the neighbour
    stopped,      \* the neighbour's m_paused
    linkUp        \* m_linkUp

ingressVars == <<ingressPG, ingressSP, headroom>>
egressVars  == <<egressQMin, egressShared, egressPort, egressSP>>
pauseVars   == <<paused, pauseRemote, resumeEvt>>
vars == <<queue, ingressVars, egressVars, pauseVars, frames, stopped, linkUp>>

Packets == [in : Ports, size : Sizes \cup {HeaderBytes}]
Counters == [Ports -> Nat]

TypeOK ==
    /\ queue \in [Ports -> Seq(Packets)]
    /\ ingressPG \in Counters /\ ingressSP \in Nat /\ headroom \in Counters
    /\ egressQMin \in [Ports -> 0 .. QMin] /\ egressShared \in Counters
    /\ egressPort \in Counters /\ egressSP \in Nat
    /\ {paused, pauseRemote, resumeEvt, stopped, linkUp} \subseteq [Ports -> BOOLEAN]
    /\ frames \in [Ports -> Seq({"PAUSE", "RESUME"})]

\* InitSwitch clears the counters; nothing clears the pause flags.
Flags == IF Garbage THEN [Ports -> BOOLEAN] ELSE {[p \in Ports |-> FALSE]}

Init ==
    /\ queue = [p \in Ports |-> <<>>]
    /\ ingressPG = [p \in Ports |-> 0] /\ ingressSP = 0
    /\ headroom = [p \in Ports |-> 0]
    /\ egressQMin = [p \in Ports |-> 0] /\ egressShared = [p \in Ports |-> 0]
    /\ egressPort = [p \in Ports |-> 0] /\ egressSP = 0
    /\ paused \in Flags /\ pauseRemote \in Flags
    /\ resumeEvt = [p \in Ports |-> FALSE]
    /\ frames = [p \in Ports |-> <<>>]
    /\ stopped = [p \in Ports |-> FALSE]
    /\ linkUp = [p \in Ports |-> TRUE]

-------------------------------------------------------------------------------
(* Admission and accounting.                                               *)

CheckIngressAdmission(p, size) ==
    /\ ingressSP + size <= BufferBytes
    /\ (ingressPG[p] + size > MTU /\ ingressSP > SpLimit)
           => headroom[p] + size <= HeadroomLimit

CheckEgressAdmission(p, size) ==
    /\ egressSP + size <= OpSharedLimit
    /\ egressPort[p] + size <= BufferBytes
    /\ egressShared[p] + size <= BufferBytes
    /\ egressShared[p] + size <= EgressAlpha * (OpSharedLimit - egressSP)

\* Mutant: the test for the shared limit is made before the packet counts.
InHeadroom_Before(size) == ingressSP > SpLimit

\* The packet that takes the service pool over its limit counts as headroom.
InHeadroom(size) == ingressSP + size > SpLimit

UpdateIngressAdmission(p, size) ==
    /\ ingressSP' = ingressSP + size
    /\ ingressPG' = [ingressPG EXCEPT ![p] = @ + size]
    /\ headroom' = IF InHeadroom(size) THEN [headroom EXCEPT ![p] = @ + size] ELSE headroom

\* What of a packet goes to the shared pool when the queue's guaranteed
\* minimum is used up to used.
SharedPart(used, size) == IF used + size < QMin THEN 0 ELSE used + size - QMin

UpdateEgressAdmission(p, size) ==
    LET shared == SharedPart(egressQMin[p], size)
    IN  /\ egressQMin' = [egressQMin EXCEPT ![p] = @ + size - shared]
        /\ egressShared' = [egressShared EXCEPT ![p] = @ + shared]
        /\ egressSP' = egressSP + shared
        /\ egressPort' = [egressPort EXCEPT ![p] = @ + size]

\* Mutant: headroom is only given back in full.
HeadroomAfter_WhenEqual(used, size) == IF used = size THEN 0 ELSE used

HeadroomAfter(used, size) == IF used > size THEN used - size ELSE 0

RemoveFromIngressAdmission(p, size) ==
    /\ ingressSP' = ingressSP - size
    /\ ingressPG' = [ingressPG EXCEPT ![p] = @ - size]
    /\ headroom' = [headroom EXCEPT ![p] = HeadroomAfter(@, size)]

\* Mutant: the shared pool gets the whole packet back.
FromShared_Whole(shared, qmin, size) == IF qmin < QMin THEN 0 ELSE size

\* The shared pool is drained first, then the guaranteed minimum.
FromShared(shared, qmin, size) ==
    IF qmin < QMin THEN 0 ELSE IF shared < size THEN shared ELSE size

RemoveFromEgressAdmission(p, size) ==
    LET shared == FromShared(egressShared[p], egressQMin[p], size)
    IN  /\ egressQMin' = [egressQMin EXCEPT ![p] = @ - (size - shared)]
        /\ egressShared' = [egressShared EXCEPT ![p] = @ - shared]
        /\ egressSP' = egressSP - shared
        /\ egressPort' = [egressPort EXCEPT ![p] = @ - size]

-------------------------------------------------------------------------------
(* Priority flow control.                                                  *)

\* A PG's bytes beyond the minima, against alpha times what is left of the
\* service pool (both sides times 16).
Excess(p) == 16 * (ingressPG'[p] - 2 * MTU)
Allowance == IngressAlpha * (SpLimit - ingressSP')

\* Mutant: the counters of before the packet are used.
GetPauseClasses_Stale(p) ==
    /\ ingressPG[p] > 2 * MTU
    /\ 16 * (ingressPG[p] - 2 * MTU) > IngressAlpha * (SpLimit - ingressSP) \/ headroom[p] # 0

GetPauseClasses(p) ==
    /\ ingressPG'[p] > 2 * MTU
    /\ Excess(p) > Allowance \/ headroom'[p] # 0

\* The resume threshold is three packets below the pause threshold.
GetResumeClasses(p) ==
    /\ Excess(p) < Allowance - 16 * 3 * MTU
    /\ headroom'[p] = 0

\* A frame enters queue 0 of the port, unless PFC is switched off.
SendPfc(p, type) ==
    IF Pfc
    THEN /\ Len(frames[p]) < MaxFrames
         /\ frames' = [frames EXCEPT ![p] = Append(@, type)]
    ELSE UNCHANGED frames

\* Every arrival that finds the PG above the threshold renews the pause.
PauseAgain(p) ==
    /\ GetPauseClasses(p)
    /\ SendPfc(p, "PAUSE")
    /\ paused' = [paused EXCEPT ![p] = TRUE]
    /\ pauseRemote' = [pauseRemote EXCEPT ![p] = TRUE]
    /\ resumeEvt' = [resumeEvt EXCEPT ![p] = TRUE]

\* SendPfc(1) and SetResume.
Resume(p) ==
    /\ paused[p] /\ GetResumeClasses(p)
    /\ SendPfc(p, "RESUME")
    /\ paused' = [paused EXCEPT ![p] = FALSE]
    /\ resumeEvt' = [resumeEvt EXCEPT ![p] = FALSE]

CheckAndSendPfc(p) ==
    \/ PauseAgain(p)
    \/ /\ ~GetPauseClasses(p)
       /\ IF pauseRemote[p] /\ paused[p] /\ GetResumeClasses(p)
          THEN Resume(p) /\ pauseRemote' = [pauseRemote EXCEPT ![p] = FALSE]
          ELSE UNCHANGED <<pauseVars, frames>>

CheckAndSendResume(p) ==
    /\ IF paused[p] /\ GetResumeClasses(p)
       THEN Resume(p)
       ELSE UNCHANGED <<paused, resumeEvt, frames>>
    /\ UNCHANGED pauseRemote

\* SetResume, called by the event that SetPause scheduled.
PauseExpires(p) ==
    /\ resumeEvt[p]
    /\ paused' = [paused EXCEPT ![p] = FALSE]
    /\ resumeEvt' = [resumeEvt EXCEPT ![p] = FALSE]
    /\ UNCHANGED <<queue, ingressVars, egressVars, pauseRemote, frames, stopped, linkUp>>

-------------------------------------------------------------------------------
(* Packets.                                                                *)

\* The bookkeeping and the queueing of a packet that is let in.
Store(in, out, size) ==
    /\ UpdateIngressAdmission(in, size)
    /\ UpdateEgressAdmission(out, size)
    /\ CheckAndSendPfc(in)
    /\ queue' = [queue EXCEPT ![out] = Append(@, [in |-> in, size |-> size])]

\* A packet without room is dropped, or cut to its header and let in unasked.
DoSwitchSend(in, out, size) ==
    /\ linkUp[in] /\ linkUp[out]
    /\ Len(queue[out]) < MaxQueued
    /\ IF CheckEgressAdmission(out, size) /\ CheckIngressAdmission(in, size)
       THEN Store(in, out, size)
       ELSE IF Trimming
       THEN Store(in, out, HeaderBytes)
       ELSE UNCHANGED <<queue, ingressVars, egressVars, pauseVars, frames>>
    /\ UNCHANGED <<stopped, linkUp>>

\* DequeueAndTransmit takes the packet, SwitchNotifyDequeue accounts for it.
SwitchNotifyDequeue(out) ==
    /\ linkUp[out] /\ queue[out] # <<>>
    /\ LET packet == Head(queue[out])
       IN  /\ RemoveFromIngressAdmission(packet.in, packet.size)
           /\ RemoveFromEgressAdmission(out, packet.size)
           /\ CheckAndSendResume(packet.in)
    /\ queue' = [queue EXCEPT ![out] = Tail(@)]
    /\ UNCHANGED <<stopped, linkUp>>

\* The neighbour takes a PFC frame.
ReceivePfc(p) ==
    /\ frames[p] # <<>>
    /\ stopped' = [stopped EXCEPT ![p] = (Head(frames[p]) = "PAUSE")]
    /\ frames' = [frames EXCEPT ![p] = Tail(@)]
    /\ UNCHANGED <<queue, ingressVars, egressVars, pauseVars, linkUp>>

\* The neighbour's own timer for the last PAUSE it got.
StopExpires(p) ==
    /\ stopped[p] /\ ~(resumeEvt[p] /\ frames[p] = <<>>)
    /\ stopped' = [stopped EXCEPT ![p] = FALSE]
    /\ UNCHANGED <<queue, ingressVars, egressVars, pauseVars, frames, linkUp>>

\* TakeDown drops what is queued and does not account for it; a neighbour
\* that is a switch forgets that it was stopped.
TakeDown(p) ==
    /\ LinksFail /\ linkUp[p]
    /\ linkUp' = [linkUp EXCEPT ![p] = FALSE]
    /\ queue' = [queue EXCEPT ![p] = <<>>]
    /\ frames' = [frames EXCEPT ![p] = <<>>]
    /\ \E still \in BOOLEAN : stopped' = [stopped EXCEPT ![p] = @ /\ still]
    /\ UNCHANGED <<ingressVars, egressVars, pauseVars>>

-------------------------------------------------------------------------------

Next ==
    \/ \E r \in Routes, z \in Sizes : DoSwitchSend(r[1], r[2], z)
    \/ \E p \in Ports : \/ SwitchNotifyDequeue(p) \/ PauseExpires(p)
                        \/ ReceivePfc(p) \/ StopExpires(p) \/ TakeDown(p)

Spec == Init /\ [][Next]_vars

-------------------------------------------------------------------------------
(* Properties.                                                             *)

\* f[1] + ... + f[n].
SumTo(f, n) == LET sum[i \in 0 .. n] == IF i = 0 THEN 0 ELSE sum[i - 1] + f[i]
               IN  sum[n]

Total(f) == SumTo(f, NumPorts)

\* The bytes of the packets that came in at one of the ports.
BytesOf(packets, ports) ==
    SumTo([i \in DOMAIN packets |-> IF packets[i].in \in ports THEN packets[i].size ELSE 0],
          Len(packets))
BytesFrom(p) == Total([out \in Ports |-> BytesOf(queue[out], {p})])

\* "count total buffer usage": the ingress counters are exactly what is
\* queued, so no "Illegal Remove" is ever reported, and the headroom used is
\* part of it.
IngressExact ==
    /\ \A p \in Ports : /\ ingressPG[p] = BytesFrom(p)
                        /\ 0 <= headroom[p] /\ headroom[p] <= ingressPG[p]
    /\ ingressSP = Total(ingressPG)

\* The egress counters are what is queued too, the guaranteed minimum filled
\* first and emptied last; no "STOP overflow" is ever reported.
EgressExact ==
    /\ \A p \in Ports :
          /\ egressPort[p] = BytesOf(queue[p], Ports)
          /\ egressQMin[p] = IF egressPort[p] < QMin THEN egressPort[p] ELSE QMin
          /\ egressShared[p] = egressPort[p] - egressQMin[p]
    /\ egressSP = Total(egressShared)

\* The counters of both sides are what the queues hold, in whatever order
\* large and trimmed packets come and go, until a link is taken down.
CountersExactWhileUp == (\A p \in Ports : linkUp[p]) => IngressExact /\ EgressExact

\* Each byte beyond the shared limit is charged to some port's headroom.
OverflowInHeadroom == ingressSP - SpLimit <= Total(headroom)

\* A port deep in its headroom has been told to pause, also after links have
\* failed: an overflow of the headroom never strikes a neighbour that was not
\* warned.
DeepHeadroomPaused == \A p \in Ports : headroom[p] > 2 * MTU => pauseRemote[p]
===============================================================================
