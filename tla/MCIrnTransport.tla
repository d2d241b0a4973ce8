--------------------------- MODULE MCIrnTransport ---------------------------
(***************************************************************************)
(* IrnTransport for TLC, under four settings of the simulator at once: the *)
(* behaviour picks one at the start and keeps it.  Lossy is the instance   *)
(* the cfg gives; the others override its options.  The properties of      *)
(* IrnTransport do not mention an option.                                  *)
(*                                                                         *)
(* Under a fifth setting, Lists, the transport stands still and the        *)
(* interval lists it relies on are called instead (SackBlocks).            *)
(***************************************************************************)
EXTENDS IrnTransport, SackBlocks

CONSTANT Settings  \* the settings that a run looks at

Adaptive == INSTANCE IrnTransport
    WITH AR <- TRUE, LinkLoss <- FALSE
Paused == INSTANCE IrnTransport
    WITH Pfc <- TRUE, LinkLoss <- FALSE
PausedAdaptive == INSTANCE IrnTransport
    WITH AR <- TRUE, Pfc <- TRUE, LinkLoss <- FALSE

VARIABLE setting

mcVars == <<vars, blockVars, setting>>
still == <<blockVars, setting>>

MCInit == Init /\ BlocksInit /\ setting \in Settings

MCNext ==
    \/ setting = "Lossy" /\ Next /\ UNCHANGED still
    \/ setting = "Adaptive" /\ Adaptive!Next /\ UNCHANGED still
    \/ setting = "Paused" /\ Paused!Next /\ UNCHANGED still
    \/ setting = "PausedAdaptive" /\ PausedAdaptive!Next /\ UNCHANGED still
    \/ setting = "Lists" /\ BlocksNext /\ UNCHANGED <<vars, setting>>

MCSpec == MCInit /\ [][MCNext]_mcVars
==============================================================================
