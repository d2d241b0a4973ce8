--------------------------- MODULE MCWorkloadTracker ---------------------------
(***************************************************************************)
(* WorkloadTracker for TLC, under all four workloads: the behaviour picks  *)
(* one at the start.  A group of the all-to-all-v has an empty message, and*)
(* no round of it ends.  The tree has a size of its own, for a node that is*)
(* not the root and has two children: only there two flows can end the     *)
(* same broadcast.                                                         *)
(***************************************************************************)
EXTENDS WorkloadTracker

OneEmpty == {<<<<0, 0>>, <<0, 1>>>>}

Binary == INSTANCE WorkloadTracker WITH NumGroups <- 1, Size <- 5

MCInit == (Init /\ ~Tree) \/ (Binary!Init /\ Tree)

MCNext == (~Tree /\ Next) \/ (Tree /\ Binary!Next)

\* The fairness of FairSpec; a round of a tree need not end.
MCSpec ==
    /\ MCInit /\ [][MCNext]_vars
    /\ WF_vars(~Tree /\ StartFirstRound)
    /\ \A l \in Links : WF_vars(~Tree /\ OnFlowComplete(l))

-------------------------------------------------------------------------------

\* No node of the tree is counted as finished twice.
TreeCountedOnce == Binary!CountedOnce
================================================================================
