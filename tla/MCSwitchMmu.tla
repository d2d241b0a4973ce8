----------------------------- MODULE MCSwitchMmu -----------------------------
(***************************************************************************)
(* SwitchMmu for TLC, under four settings at once: the behaviour picks one *)
(* at the start and keeps it.  Configured is the instance the cfg gives,   *)
(* with PFC.  The others have full packets only: under Lossless the pause  *)
(* flags start with any value, Trimmed cuts packets instead of pausing     *)
(* neighbours, and under LinkDown links fail.                              *)
(***************************************************************************)
EXTENDS SwitchMmu

CONSTANT Settings  \* the settings that a run looks at

\* Two ingress ports feed one egress port, and one of them another.
Incast == {<<1, 3>>, <<2, 3>>, <<1, 2>>}

\* A buffer whose ingress service pool holds pool bytes.
BufferFor(pool, default, limit) ==
    pool + default + (NumPorts - 1) * limit + NumPorts * QCnt * MTU

Pool2 == BufferFor(2 * MTU, HeadroomDefault, HeadroomLimit)

Lossless == INSTANCE SwitchMmu
    WITH Sizes <- {MTU}, Garbage <- TRUE, MaxQueued <- 4
Trimmed == INSTANCE SwitchMmu
    WITH Sizes <- {MTU}, MaxQueued <- 4, MaxFrames <- 0,
         Pfc <- FALSE, Trimming <- TRUE,
         HeadroomLimit <- 2 * MTU, HeadroomDefault <- MTU, EgressAlpha <- 1,
         BufferBytes <- BufferFor(2 * MTU, MTU, 2 * MTU)
LinkDown == INSTANCE SwitchMmu
    WITH Sizes <- {MTU}, LinksFail <- TRUE, MaxQueued <- 3

VARIABLE setting

mcVars == <<vars, setting>>

MCInit ==
    /\ setting \in Settings
    /\ \/ setting = "Configured" /\ Init
       \/ setting = "Lossless" /\ Lossless!Init
       \/ setting = "Trimmed" /\ Trimmed!Init
       \/ setting = "LinkDown" /\ LinkDown!Init

MCNext ==
    \/ setting = "Configured" /\ Next /\ UNCHANGED setting
    \/ setting = "Lossless" /\ Lossless!Next /\ UNCHANGED setting
    \/ setting = "Trimmed" /\ Trimmed!Next /\ UNCHANGED setting
    \/ setting = "LinkDown" /\ LinkDown!Next /\ UNCHANGED setting

MCSpec == MCInit /\ [][MCNext]_mcVars

===============================================================================
