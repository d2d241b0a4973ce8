----------------------------- MODULE MCTestbedRun -----------------------------
(***************************************************************************)
(* TestbedRun for TLC: a task that replays a trace, then one that measures *)
(* bandwidth.                                                              *)
(***************************************************************************)
EXTENDS TestbedRun

CONSTANTS t1, t2

MCPlan == <<t1, t2>>
MCBandwidth == {t2}
===============================================================================
