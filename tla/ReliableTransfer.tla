--------------------------- MODULE ReliableTransfer ---------------------------
(***************************************************************************)
(* What every loss-recovery mode of the simulator's RDMA transport         *)
(* promises about one queue pair: packets reach the receiver one by one,   *)
(* in any order, and the sender's completion (RdmaHw::QpComplete, which    *)
(* writes the flow-completion record) happens once and only when the       *)
(* receiver has every packet of the flow.  RoceTransport, IrnTransport     *)
(* and DcpTransport are each shown to implement this specification.        *)
(***************************************************************************)
EXTENDS Naturals

CONSTANT Pkts           \* the packets of the flow

VARIABLES received,     \* packets whose payload the receiver has taken
          completed     \* the sender has reported the flow complete

rtVars == <<received, completed>>

RTInit == received = {} /\ completed = FALSE

Receive(p) ==
    /\ p \notin received
    /\ received' = received \cup {p}
    /\ UNCHANGED completed

Complete ==
    /\ ~completed
    /\ received = Pkts
    /\ completed' = TRUE
    /\ UNCHANGED received

RTNext == Complete \/ \E p \in Pkts : Receive(p)

RTSpec == RTInit /\ [][RTNext]_rtVars
===============================================================================
