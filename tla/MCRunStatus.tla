------------------------------ MODULE MCRunStatus ------------------------------
(***************************************************************************)
(* The Python side of a simulation run for TLC: the run directory          *)
(* (RunStatus) and the flow file that its simulations share (TrafficFile). *)
(* The behaviour picks one of the two at the start, the other stands still.*)
(*                                                                         *)
(* The run directory has two tasks of two recipes; an earlier release may  *)
(* have left it with its first task completed under an old id and failed   *)
(* under the new one.                                                      *)
(***************************************************************************)
EXTENDS RunStatus, TrafficFile, TLC

CONSTANTS
    Parts,                             \* the parts that a run looks at
    t1, t2, old, c1, c2, c3, c4, r1, r2

VARIABLE part

mcVars == <<vars, trafficVars, part>>

MCInit == Init /\ TrafficInit /\ part \in Parts

MCNext ==
    \/ part = "Status" /\ Next /\ UNCHANGED <<part, trafficVars>>
    \/ part = "Flow" /\ TrafficNext /\ UNCHANGED <<part, vars>>

MCSpec == MCInit /\ [][MCNext]_mcVars

MCRecipeOf == (t1 :> r1) @@ (t2 :> r2)
MCSymmetry == Permutations({c2, c3})
MCOldRun ==
    (old :> [status |-> "completed", config |-> c1])
    @@ (t1 :> [status |-> "failed", config |-> NoConfig]) @@ (t2 :> NoEntry)
MCOldRows == (t1 :> c1) @@ (t2 :> NoConfig)
================================================================================
