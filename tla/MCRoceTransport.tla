--------------------------- MODULE MCRoceTransport ---------------------------
(***************************************************************************)
(* RoceTransport for TLC, under five settings of the simulator at once.    *)
(* The behaviour picks its setting at the start and keeps it.  GoBackN is  *)
(* the instance the cfg gives; the others override its options.  All share *)
(* the flow size and the bound on copies, so the properties that do not    *)
(* mention an option are checked under each of them.                       *)
(*                                                                         *)
(* With L2BackToZero the chunk is a part of the flow in BackToZero, which  *)
(* its last packet does not fill, and the whole flow in OneChunk.          *)
(* MCTransportLive leaves both out: a partly filled chunk is never         *)
(* acknowledged, and a timer that always runs out before the last packet   *)
(* of a chunk is sent would send the first ones for ever.                  *)
(***************************************************************************)
EXTENDS RoceTransport

CONSTANT Settings  \* the settings that a run looks at

BackToZero == INSTANCE RoceTransport
    WITH Win <- 0, Chunk <- 2, BackTo0 <- TRUE, LinkLoss <- FALSE
OneChunk == INSTANCE RoceTransport
    WITH Win <- 0, Chunk <- NumPkts, BackTo0 <- TRUE, LinkLoss <- FALSE
Adaptive == INSTANCE RoceTransport
    WITH Win <- 0, AckInterval <- 2, AR <- TRUE, LinkLoss <- FALSE
Notified == INSTANCE RoceTransport
    WITH Win <- 0, AR <- TRUE, Ideal <- TRUE, LinkLoss <- FALSE

VARIABLE setting

mcVars == <<vars, setting>>

MCInit == Init /\ setting \in Settings

MCNext ==
    \/ setting = "GoBackN" /\ Next /\ UNCHANGED setting
    \/ setting = "BackToZero" /\ BackToZero!Next /\ UNCHANGED setting
    \/ setting = "OneChunk" /\ OneChunk!Next /\ UNCHANGED setting
    \/ setting = "Adaptive" /\ Adaptive!Next /\ UNCHANGED setting
    \/ setting = "Notified" /\ Notified!Next /\ UNCHANGED setting

MCSpec == MCInit /\ [][MCNext]_mcVars

-------------------------------------------------------------------------------

\* NothingForgotten where the switch reports its drops.
IdealForgetsNothing == setting = "Notified" => NothingForgotten

\* A timeout that the sender counts as spurious has lost nothing, under
\* adaptive routing without link loss (SpuriousStep).
AdaptiveTimeoutsClassified ==
    [][setting = "Adaptive" => Adaptive!SpuriousStep]_mcVars
===============================================================================
