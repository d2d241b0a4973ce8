---------------------------- MODULE MCTransportLive ----------------------------
(***************************************************************************)
(* Liveness of the three transports for TLC: the behaviour picks one of    *)
(* them and one of its settings at the start and keeps it; the variables   *)
(* of the others stand still.                                              *)
(***************************************************************************)
EXTENDS Integers

VARIABLES
    setting,
    sndNxt, sndUna, timer, qpDone,                            \* of all
    expected, tracker, data, acks, delivered,                 \* of all
    dropped, arDrop, rxOpen, rxRecord, lastNack, nackHold,    \* of RoCE
    sack, highestAck, maxSeq, recovery, recoverySeq, held,    \* of IRN
    inflight, resend, headers                                 \* of DCP

notRoce == <<sack, highestAck, maxSeq, recovery, recoverySeq, held, inflight, resend,
             headers>>
notIrn == <<dropped, arDrop, rxOpen, rxRecord, lastNack, nackHold, inflight,
            resend, headers>>
notDcp == <<dropped, arDrop, rxOpen, rxRecord, lastNack, nackHold, sack, highestAck,
            maxSeq, recovery, recoverySeq, held>>

GoBackN == INSTANCE RoceTransport
    WITH NumPkts <- 3, Win <- 2, Chunk <- 4, AckInterval <- 1, BackTo0 <- FALSE,
         AR <- FALSE, Ideal <- FALSE, SwitchDrops <- TRUE, LinkLoss <- TRUE,
         MaxCopies <- 1
RoceAdaptive == INSTANCE RoceTransport
    WITH NumPkts <- 3, Win <- 0, Chunk <- 4, AckInterval <- 2, BackTo0 <- FALSE,
         AR <- TRUE, Ideal <- FALSE, SwitchDrops <- TRUE, LinkLoss <- FALSE,
         MaxCopies <- 1
Notified == INSTANCE RoceTransport
    WITH NumPkts <- 3, Win <- 0, Chunk <- 4, AckInterval <- 1, BackTo0 <- FALSE,
         AR <- TRUE, Ideal <- TRUE, SwitchDrops <- TRUE, LinkLoss <- FALSE,
         MaxCopies <- 1

Irn(AR, Pfc, LinkLoss) == INSTANCE IrnTransport
    WITH NumPkts <- 3, Win <- 0, Bdp <- 2, Chunk <- 4, AckInterval <- 1, MaxCopies <- 1

Dcp(Win, AR, AckOpt, LinkLoss) == INSTANCE DcpTransport
    WITH NumPkts <- 2, Chunk <- 4, AckInterval <- 1, MaxCopies <- 1

RoceSettings == {"GoBackN", "RoceAdaptive", "Notified"}
IrnSettings == {"Lossy", "Adaptive", "Paused", "PausedAdaptive"}
DcpSettings == {"DcpAdaptive", "Unlimited"}

Init ==
    \/ /\ setting \in RoceSettings /\ GoBackN!Init
       /\ sack = 0 /\ highestAck = 0 /\ maxSeq = 0 /\ recovery = 0
       /\ recoverySeq = 0 /\ held = 0 /\ inflight = 0 /\ resend = 0 /\ headers = 0
    \/ /\ setting \in IrnSettings /\ Irn(FALSE, FALSE, FALSE)!Init
       /\ dropped = 0 /\ arDrop = 0 /\ rxOpen = 0 /\ rxRecord = 0
       /\ lastNack = 0 /\ nackHold = 0 /\ inflight = 0 /\ resend = 0 /\ headers = 0
    \/ /\ setting \in DcpSettings /\ Dcp(0, FALSE, FALSE, FALSE)!Init
       /\ dropped = 0 /\ arDrop = 0 /\ rxOpen = 0 /\ rxRecord = 0 /\ lastNack = 0 /\ nackHold = 0
       /\ sack = 0 /\ highestAck = 0 /\ maxSeq = 0 /\ recovery = 0 /\ recoverySeq = 0 /\ held = 0

\* A step of the transport of a setting, and of nothing else.
In(s, A, others) == setting = s /\ A /\ UNCHANGED <<setting, others>>

\* Every step of the setting's transport.  Under Unlimited the timer never
\* runs out: the headers must do.
Next ==
    \/ In("GoBackN", GoBackN!Next, notRoce)
    \/ In("RoceAdaptive", RoceAdaptive!Next, notRoce)
    \/ In("Notified", Notified!Next, notRoce)
    \/ In("Lossy", Irn(FALSE, FALSE, TRUE)!Next, notIrn)
    \/ In("Adaptive", Irn(TRUE, FALSE, FALSE)!Next, notIrn)
    \/ In("Paused", Irn(FALSE, TRUE, FALSE)!Next, notIrn)
    \/ In("PausedAdaptive", Irn(TRUE, TRUE, FALSE)!Next, notIrn)
    \/ In("DcpAdaptive", Dcp(2, TRUE, FALSE, TRUE)!Next, notDcp)
    \/ In("Unlimited", Dcp(0, FALSE, TRUE, FALSE)!UntimedNext, notDcp)

\* The actions that fairness is about, each over all settings.
GetNxtPacket ==
    \/ In("GoBackN", GoBackN!GetNxtPacket, notRoce)
    \/ In("RoceAdaptive", RoceAdaptive!GetNxtPacket, notRoce)
    \/ In("Notified", Notified!GetNxtPacket, notRoce)
    \/ In("Lossy", Irn(FALSE, FALSE, TRUE)!GetNxtPacket, notIrn)
    \/ In("Adaptive", Irn(TRUE, FALSE, FALSE)!GetNxtPacket, notIrn)
    \/ In("Paused", Irn(FALSE, TRUE, FALSE)!GetNxtPacket, notIrn)
    \/ In("PausedAdaptive", Irn(TRUE, TRUE, FALSE)!GetNxtPacket, notIrn)
    \/ In("DcpAdaptive", Dcp(2, TRUE, FALSE, TRUE)!GetNxtPacket, notDcp)
    \/ In("Unlimited", Dcp(0, FALSE, TRUE, FALSE)!GetNxtPacket, notDcp)

ReceiveUdp(s) ==
    \/ In("GoBackN", GoBackN!ReceiveUdp(s), notRoce)
    \/ In("RoceAdaptive", RoceAdaptive!ReceiveUdp(s), notRoce)
    \/ In("Notified", Notified!ReceiveUdp(s), notRoce)
    \/ In("Lossy", Irn(FALSE, FALSE, TRUE)!ReceiveUdp(s), notIrn)
    \/ In("Adaptive", Irn(TRUE, FALSE, FALSE)!ReceiveUdp(s), notIrn)
    \/ In("Paused", Irn(FALSE, TRUE, FALSE)!ReceiveUdp(s), notIrn)
    \/ In("PausedAdaptive", Irn(TRUE, TRUE, FALSE)!ReceiveUdp(s), notIrn)
    \/ In("DcpAdaptive", s < 2 /\ Dcp(2, TRUE, FALSE, TRUE)!ReceiveUdp(s), notDcp)
    \/ In("Unlimited", s < 2 /\ Dcp(0, FALSE, TRUE, FALSE)!ReceiveUdp(s), notDcp)

ReceiveHeader(s) ==
    \/ In("DcpAdaptive", Dcp(2, TRUE, FALSE, TRUE)!ReceiveHeader(s), notDcp)
    \/ In("Unlimited", Dcp(0, FALSE, TRUE, FALSE)!ReceiveHeader(s), notDcp)

ReceiveAck(b) ==
    \/ In("GoBackN", \E m \in GoBackN!AckMsgs : m.seq = b /\ GoBackN!ReceiveAck(m), notRoce)
    \/ In("RoceAdaptive", \E m \in RoceAdaptive!AckMsgs : m.seq = b /\ RoceAdaptive!ReceiveAck(m), notRoce)
    \/ In("Notified", \E m \in Notified!AckMsgs : m.seq = b /\ Notified!ReceiveAck(m), notRoce)
    \/ In("Lossy", \E m \in Irn(FALSE, FALSE, TRUE)!Replies : m.seq = b /\ Irn(FALSE, FALSE, TRUE)!ReceiveAck(m), notIrn)
    \/ In("Adaptive", \E m \in Irn(TRUE, FALSE, FALSE)!Replies : m.seq = b /\ Irn(TRUE, FALSE, FALSE)!ReceiveAck(m), notIrn)
    \/ In("Paused", \E m \in Irn(FALSE, TRUE, FALSE)!Replies : m.seq = b /\ Irn(FALSE, TRUE, FALSE)!ReceiveAck(m), notIrn)
    \/ In("PausedAdaptive", \E m \in Irn(TRUE, TRUE, FALSE)!Replies : m.seq = b /\ Irn(TRUE, TRUE, FALSE)!ReceiveAck(m), notIrn)
    \/ In("DcpAdaptive", \E m \in Dcp(2, TRUE, FALSE, TRUE)!AckMsgs : m.seq = b /\ Dcp(2, TRUE, FALSE, TRUE)!ReceiveAck(m), notDcp)
    \/ In("Unlimited", \E m \in Dcp(0, FALSE, TRUE, FALSE)!AckMsgs : m.seq = b /\ Dcp(0, FALSE, TRUE, FALSE)!ReceiveAck(m), notDcp)

\* Under Notified the timer may run out but need not; with PFC the handler
\* of IRN changes nothing of the queue pair.
HandleTimeout ==
    \/ In("GoBackN", GoBackN!HandleTimeout, notRoce)
    \/ In("RoceAdaptive", RoceAdaptive!HandleTimeout, notRoce)
    \/ In("Lossy", Irn(FALSE, FALSE, TRUE)!HandleTimeout, notIrn)
    \/ In("Adaptive", Irn(TRUE, FALSE, FALSE)!HandleTimeout, notIrn)
    \/ In("Paused", Irn(FALSE, TRUE, FALSE)!HandleTimeout, notIrn)
    \/ In("PausedAdaptive", Irn(TRUE, TRUE, FALSE)!HandleTimeout, notIrn)
    \/ In("DcpAdaptive", Dcp(2, TRUE, FALSE, TRUE)!HandleTimeout, notDcp)

vars == <<setting, sndNxt, sndUna, timer, qpDone, expected, data, acks, delivered,
          tracker, dropped, arDrop, rxOpen, rxRecord, lastNack, nackHold,
          sack, highestAck, maxSeq, recovery, recoverySeq, held,
          inflight, resend, headers>>

\* NetworkFairness of each transport, and that of its timer.
FairSpec ==
    /\ Init /\ [][Next]_vars
    /\ WF_vars(GetNxtPacket)
    /\ \A s \in 0 .. 2 : SF_vars(ReceiveUdp(s))
    /\ \A s \in 0 .. 1 : SF_vars(ReceiveHeader(s))
    /\ \A b \in 0 .. 3 : SF_vars(ReceiveAck(b))
    /\ WF_vars(HandleTimeout)

-------------------------------------------------------------------------------

\* Every flow is completed at last, whatever is lost, trimmed or reordered on
\* the way: by the timer where nothing else tells of a loss; without it when
\* every drop is reported, when PFC leaves nothing to lose, and when trimmed
\* packets come back as headers.
EventuallyComplete == <>qpDone
================================================================================
