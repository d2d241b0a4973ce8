---------------------------- MODULE WorkloadTracker ----------------------------
(***************************************************************************)
(* The AI workloads of the simulator: WorkloadTracker is called when a     *)
(* flow completes (qp_finish), and starts the flows that may follow.       *)
(* Flows complete in any order.  In all-to-all each pair of a group has    *)
(* one flow per round.  In ring all-reduce each node sends 2 (n - 1) times *)
(* to its successor, once for each piece of data it has.  In tree          *)
(* all-reduce the leaves of a binary tree start; ProcessSimpleTree-        *)
(* AllReduceFlow takes a flow to a child for one to a parent and the other *)
(* way round, so a round never ends and flows breed flows.                 *)
(*                                                                         *)
(* A node is its group and its place there (main.cc numbers it             *)
(* i * num_groups + g, one to one).  Ports, addresses, windows and times   *)
(* are left out; a JCT line is its round and its group.                    *)
(***************************************************************************)
EXTENDS Integers, FiniteSets

CONSTANTS
    Workloads,    \* the workloads that m_workload_type may name
    NumGroups,    \* m_groups.size()
    Size,         \* m_groups[g].size(), the same for each group
    TotalRounds,  \* m_total_rounds
    Empty,        \* all-to-all-v: the pairs whose message size is 0
    MaxFlows      \* bound: completed flows of a tree round

GroupIds == 0 .. NumGroups - 1
Places == 0 .. Size - 1
Nodes == GroupIds \X Places
GroupOf(n) == n[1]
Links == {l \in Nodes \X Nodes : GroupOf(l[1]) = GroupOf(l[2]) /\ l[1] # l[2]}

ASSUME WorkloadAssumption ==
    /\ Workloads \subseteq {"AllToAll", "AllToAllV", "RingAllReduce", "TreeAllReduce"}
    /\ NumGroups \in Nat \ {0}
    /\ Size \in Nat \ {0, 1}
    /\ TotalRounds \in Nat \ {0}
    /\ Empty \subseteq Links
    /\ MaxFlows \in Nat

VARIABLES
    workload,    \* m_workload_type
    round,       \* m_current_round
    roundFlows,  \* m_completed_flows_this_round
    roundNodes,  \* m_nodes_finished_round
    groupDone,   \* m_completed_flows_in_group, m_nodes_finished_in_group
    node,        \* m_node_states (ring)
    tree,        \* m_tree_node_states
    flows,       \* flows in flight on each pair
    jct          \* history: JCT lines of each round and group

vars == <<workload, round, roundFlows, roundNodes, groupDone, node, tree, flows, jct>>

Ring == workload = "RingAllReduce"
Tree == workload = "TreeAllReduce"
AllToAll == ~Ring /\ ~Tree

\* The pairs that an all-to-all round skips.
NoData == IF workload = "AllToAllV" THEN Empty ELSE {}

\* The steps of a node in a ring round.
Steps == 2 * (Size - 1)

NodeState == [step : Nat, finished : 0 .. Steps, sending : BOOLEAN, data : Nat,
              done : BOOLEAN]

TreeNodeState == [gotChildren : Nat, sentParent : BOOLEAN, gotParent : BOOLEAN,
                  sentChildren : Nat, castDone : BOOLEAN]

TypeOK ==
    /\ workload \in Workloads
    /\ round \in 0 .. TotalRounds
    /\ roundFlows \in Nat
    /\ roundNodes \in 0 .. Cardinality(Nodes)
    /\ groupDone \in [GroupIds -> Nat]
    /\ node \in [Nodes -> NodeState]
    /\ tree \in [Nodes -> TreeNodeState]
    /\ flows \in [Links -> Nat]
    /\ jct \in [(1 .. TotalRounds) \X GroupIds -> Nat]

Init ==
    /\ workload \in Workloads
    /\ round = 0 /\ roundFlows = 0 /\ roundNodes = 0
    /\ groupDone = [g \in GroupIds |-> 0]
    /\ node = [n \in Nodes |-> [step |-> 0, finished |-> 0, sending |-> FALSE,
                                data |-> 0, done |-> FALSE]]
    /\ tree = [n \in Nodes |-> [gotChildren |-> 0, sentParent |-> FALSE, gotParent |-> FALSE,
                                sentChildren |-> 0, castDone |-> FALSE]]
    /\ flows = [l \in Links |-> 0]
    /\ jct = [l \in (1 .. TotalRounds) \X GroupIds |-> 0]

-------------------------------------------------------------------------------
(* The shape of a group.                                                   *)

\* The destination of ScheduleRingNodeStep.
Succ(n) == <<n[1], IF n[2] + 1 = Size THEN 0 ELSE n[2] + 1>>

\* BuildBinaryTreeCommon.  The root is its own parent.
Parent(n) == <<n[1], IF n[2] = 0 THEN 0 ELSE (n[2] - 1) \div 2>>
Children(n) == {c \in Nodes : c # n /\ Parent(c) = n}

-------------------------------------------------------------------------------
(* Starting a round.                                                       *)

\* The flows a round starts with: ScheduleAllToAllRound,
\* ScheduleAllToAllVRound, StartRingAllReduceRound, StartTreeAllReduceRound.
FirstFlows ==
    {l \in Links : \/ AllToAll /\ l \notin NoData
                   \/ Ring /\ l[2] = Succ(l[1])
                   \/ Tree /\ l[2] = Parent(l[1]) /\ Children(l[1]) = {}}

\* More flows in flight, one on each pair of a set.
With(inFlight, more) == [l \in Links |-> inFlight[l] + (IF l \in more THEN 1 ELSE 0)]

\* Mutant: the counts of the last round stay.
FreshGroups_Kept == groupDone

FreshGroups == [g \in GroupIds |-> 0]

\* Each node has its own data and sends it.
AtFirstStep == [step |-> 0, finished |-> 0, sending |-> TRUE, data |-> 0, done |-> FALSE]

\* What the flows in flight leave of the last round goes on.
ScheduleNextRound(inFlight) ==
    /\ round' = round + 1
    /\ roundFlows' = 0 /\ roundNodes' = 0
    /\ groupDone' = FreshGroups
    /\ node' = IF Ring THEN [n \in Nodes |-> AtFirstStep] ELSE node
    /\ tree' = [n \in Nodes |-> [tree[n] EXCEPT !.castDone = FALSE]]
    /\ flows' = With(inFlight, FirstFlows)

StartFirstRound ==
    /\ round = 0
    /\ ScheduleNextRound(flows)
    /\ UNCHANGED <<workload, jct>>

-------------------------------------------------------------------------------
(* A flow completes.                                                       *)

\* The flows in flight without the one that completed.
Without(l) == [flows EXCEPT ![l] = @ - 1]

\* CheckGroupCompletionAndLogJct, with the count of the group and the one
\* that makes it complete.
Logged(g, count, total) ==
    IF count = total THEN [jct EXCEPT ![<<round, g>>] = @ + 1] ELSE jct

\* Mutant: one flow less.
FlowsOfGroup_OneLess == Size * (Size - 1) - 1

\* Mutant: a flow of each node to itself is counted, too.
FlowsOfGroup_WithSelf == Size * Size

\* m_total_flows_per_group: each pair, whatever its message size.
FlowsOfGroup == Size * (Size - 1)

OnAllToAllComplete(l) ==
    LET g == GroupOf(l[1])
    IN  /\ jct' = Logged(g, groupDone[g] + 1, FlowsOfGroup)
        /\ IF roundFlows + 1 >= NumGroups * FlowsOfGroup /\ round < TotalRounds
           THEN ScheduleNextRound(Without(l))
           ELSE /\ roundFlows' = roundFlows + 1
                /\ groupDone' = [groupDone EXCEPT ![g] = @ + 1]
                /\ flows' = Without(l)
                /\ UNCHANGED <<round, roundNodes, node, tree>>

\* The node whose need_to_send_datas a flow increments.
Receiver(l) == l[2]

\* The first step of OnFlowComplete for a ring.
Noted(l) ==
    LET sent == [node EXCEPT ![l[1]].sending = FALSE, ![l[1]].finished = @ + 1]
    IN  [sent EXCEPT ![Receiver(l)].data = @ + 1]

\* Mutant: the last step is not waited for.
Finishes_Early(l) == ~node[l[1]].done /\ node[l[1]].finished + 1 >= Steps - 1

\* The sender has finished its last step.
Finishes(l) == ~node[l[1]].done /\ node[l[1]].finished + 1 >= Steps

\* Mutant: it need not have data.
IsReadyForNextStep_NoData(s) == ~s.sending

IsReadyForNextStep(s) == ~s.sending /\ s.data > 0

\* TriggerNextStepForNode and ScheduleRingNodeStep, which finds the data
\* that was tested for.
NextStep(s) ==
    IF s.step + 1 < Steps
    THEN [s EXCEPT !.step = @ + 1, !.sending = TRUE, !.data = @ - 1]
    ELSE [s EXCEPT !.step = @ + 1]

Triggered(states, n) ==
    IF IsReadyForNextStep(states[n]) THEN [states EXCEPT ![n] = NextStep(@)] ELSE states

\* Mutant: only the sender is looked at.
BothTriggered_SenderOnly(states, l) == Triggered(states, l[1])

BothTriggered(states, l) == Triggered(Triggered(states, l[1]), l[2])

OnRingComplete(l) ==
    LET src == l[1]
        g == GroupOf(src)
        more == IF Finishes(l) THEN 1 ELSE 0
        noted == [Noted(l) EXCEPT ![src].done = @ \/ Finishes(l)]
        triggered == BothTriggered(noted, l)
        started == {k \in Links : /\ k[2] = Succ(k[1])
                                  /\ ~noted[k[1]].sending /\ triggered[k[1]].sending}
        inFlight == With(Without(l), started)
    IN  /\ jct' = IF Finishes(l) THEN Logged(g, groupDone[g] + 1, Size) ELSE jct
        /\ IF roundNodes + more >= Cardinality(Nodes) /\ round < TotalRounds
           THEN ScheduleNextRound(inFlight)
           ELSE /\ roundNodes' = roundNodes + more
                /\ groupDone' = [groupDone EXCEPT ![g] = @ + more]
                /\ node' = triggered
                /\ flows' = inFlight
                /\ UNCHANGED <<round, roundFlows, tree>>

\* The first branch of ProcessSimpleTreeAllReduceFlow: dst is the child, and
\* never the root.
FromParent(l) ==
    LET dst == tree[l[2]]
        resends == ~dst.sentParent /\ dst.gotChildren + 1 >= Cardinality(Children(l[2]))
    IN  /\ tree' = [tree EXCEPT ![l[2]].gotChildren = @ + 1, ![l[1]].sentParent = TRUE]
        /\ flows' = With(Without(l), IF resends THEN {<<l[2], l[1]>>} ELSE {})
        /\ UNCHANGED <<groupDone, jct>>

\* The node may still send to its children (TriggerTreeBroadcastForNode).
Broadcasts(n) == tree[n].sentChildren < Cardinality(Children(n))

\* Mutant: whether the node was counted already is not looked at.
CastEnds_Again(n) == ~Broadcasts(n)

\* The node is counted as finished in its group.
CastEnds(n) == ~Broadcasts(n) /\ ~tree[n].castDone

\* Its second branch: dst is the parent.
FromChild(l) ==
    LET g == GroupOf(l[2])
        open == Broadcasts(l[2])
        ends == CastEnds(l[2])
    IN  /\ tree' = [tree EXCEPT ![l[1]].sentChildren = @ + 1,
                                ![l[2]].gotParent = TRUE,
                                ![l[2]].castDone = @ \/ ends]
        /\ flows' = With(Without(l), {k \in Links : open /\ k[1] = l[2] /\ k[2] \in Children(l[2])})
        /\ IF ends
           THEN /\ groupDone' = [groupDone EXCEPT ![g] = @ + 1]
                /\ jct' = Logged(g, groupDone[g] + 1, Size)
           ELSE UNCHANGED <<groupDone, jct>>

\* CheckRoundCompletion looks at roundNodes, which only a ring counts.
OnTreeComplete(l) ==
    /\ roundFlows < MaxFlows
    /\ IF Parent(l[2]) = l[1] THEN FromParent(l) ELSE FromChild(l)
    /\ roundFlows' = roundFlows + 1
    /\ UNCHANGED <<round, roundNodes, node>>

OnFlowComplete(l) ==
    /\ flows[l] > 0
    /\ \/ AllToAll /\ OnAllToAllComplete(l)
       \/ Ring /\ OnRingComplete(l)
       \/ Tree /\ OnTreeComplete(l)
    /\ UNCHANGED workload

-------------------------------------------------------------------------------

Next == StartFirstRound \/ \E l \in Links : OnFlowComplete(l)

Spec == Init /\ [][Next]_vars

\* The transport completes every flow at last (MCTransportLive).
FairSpec ==
    /\ Spec
    /\ WF_vars(StartFirstRound)
    /\ \A l \in Links : WF_vars(OnFlowComplete(l))

-------------------------------------------------------------------------------
(* Properties.                                                             *)

\* What a node has finished and has in flight on a pair.
Sent(n) == node[n].finished + flows[<<n, Succ(n)>>]

\* All-reduce needs the data of the step before: in a ring no node sends
\* more often than its predecessor has delivered, and its own data once,
\* whatever the order in which flows complete (IsReadyForNextStep).
SendsWhatItHas == Ring /\ round > 0 => \A n \in Nodes : Sent(Succ(n)) <= 1 + node[n].finished

\* A round of a ring or of all-to-all starts when the last flow of the round
\* before has completed, in every group (ScheduleNextRound).
RoundsApartStep == ~Tree /\ round' # round => flows' = With([l \in Links |-> 0], FirstFlows)
RoundsApart == [][RoundsApartStep]_vars

\* The completion time of a group is logged when its last flow completes and
\* not before (CheckGroupCompletionAndLogJct).
JctHonest ==
    \A g \in GroupIds : round > 0 /\ jct[<<round, g>>] > 0 =>
        \A l \in Links : GroupOf(l[1]) = g => flows[l] = 0

\* A round that is over has left one line for each group.
JctOncePerRound ==
    \A r \in 1 .. TotalRounds, g \in GroupIds :
        IF r < round THEN jct[<<r, g>>] = 1 ELSE jct[<<r, g>>] <= 1

\* In a ring and in all-to-all the completion times are those of the groups.
LoggedOnceWhenDone == ~Tree => JctHonest /\ JctOncePerRound

\* Every round of a ring and of all-to-all takes place and is completed, if
\* each message has data.
AllRoundsEnd ==
    ~Tree /\ NoData = {} => <>(round = TotalRounds /\ \A l \in Links : flows[l] = 0)

\* A node of a tree is counted as finished once, however many flows of its
\* children it takes for broadcasts: the count of the group is that of its
\* nodes that are marked (broadcast_phase_complete).
CountedOnce ==
    Tree => \A g \in GroupIds :
        groupDone[g] = Cardinality({n \in Nodes : GroupOf(n) = g /\ tree[n].castDone})

\* "2*(N-1)个流每组 (N-1个reduce流 + N-1个broadcast流)": a round of a tree has
\* that many flows per group.
FlowsInFlight == {l \in Links : flows[l] > 0}
TreeFlowCount == Tree => roundFlows + Cardinality(FlowsInFlight) <= NumGroups * 2 * (Size - 1)
================================================================================
