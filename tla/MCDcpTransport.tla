--------------------------- MODULE MCDcpTransport ---------------------------
(***************************************************************************)
(* DcpTransport for TLC, under three settings of the simulator at once,    *)
(* with a window and without link loss: the behaviour picks one at the     *)
(* start and keeps it.  Adaptive is the instance the cfg gives; the others *)
(* override its options.  MCTransportLive has DCP over lossy links and     *)
(* without a window.                                                       *)
(***************************************************************************)
EXTENDS DcpTransport

Plain == INSTANCE DcpTransport
    WITH Win <- 3, AR <- FALSE
Optimised == INSTANCE DcpTransport
    WITH Win <- 3, AR <- FALSE, AckOpt <- TRUE

VARIABLE setting

mcVars == <<vars, setting>>

MCInit == Init /\ setting \in {"Adaptive", "Plain", "Optimised"}

MCNext ==
    \/ setting = "Adaptive" /\ Next /\ UNCHANGED setting
    \/ setting = "Plain" /\ Plain!Next /\ UNCHANGED setting
    \/ setting = "Optimised" /\ Optimised!Next /\ UNCHANGED setting

MCSpec == MCInit /\ [][MCNext]_mcVars
==============================================================================
