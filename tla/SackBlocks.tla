------------------------------ MODULE SackBlocks ------------------------------
(***************************************************************************)
(* The two interval lists of the transport: IrnSackManager (a sorted       *)
(* std::list of blocks, used by the IRN sender and receiver) and           *)
(* RecvBlockTracker (a std::set of blocks, used by the adaptive-routing    *)
(* and DCP receivers).  RoceTransport, IrnTransport and DcpTransport treat *)
(* both as sets of sequence numbers; this module runs the code's loops,    *)
(* one pass of a loop to a step, next to such sets, under every sequence   *)
(* of calls their interfaces admit.                                        *)
(*                                                                         *)
(* A block is <<first, end>>, end excluded.                                *)
(***************************************************************************)
EXTENDS Integers, Sequences, SequencesExt

CONSTANT Top                     \* bound: blocks lie in 0 .. Top

ASSUME SackAssumption == Top \in Nat

Intervals == {b \in (0 .. Top) \X (0 .. Top) : b[1] < b[2]}

VARIABLES
    list,       \* IrnSackManager::m_data
    listed,     \* history: the numbers put in and not discarded
    blocks,     \* RecvBlockTracker::m_blocks
    tracked,    \* history: the numbers inserted
    loop,       \* the loop that is running, or "none"
    at,         \* its iterator: a place in list
    todo,       \* the blocks that the iterator of Insert has before it
    lo, hi      \* what the loop has yet to put in: [lo, hi); or cumAck: lo

listVars == <<list, listed>>
trackerVars == <<blocks, tracked, todo>>
loopVars == <<loop, at, lo, hi>>
blockVars == <<listVars, trackerVars, loopVars>>

In(b) == b[1] .. b[2] - 1
Union(bs) == UNION {In(b) : b \in bs}
Lower(a, b) == IF a <= b THEN a ELSE b
Higher(a, b) == IF a >= b THEN a ELSE b

BlocksTypeOK ==
    /\ list \in Seq(Intervals) /\ listed \in SUBSET (0 .. Top - 1)
    /\ blocks \in SUBSET Intervals /\ tracked \in SUBSET (0 .. Top - 1)
    /\ loop \in {"none", "place", "merge", "discard", "absorb"}
    /\ at \in Nat
    /\ todo \in SUBSET blocks
    /\ lo \in 0 .. Top /\ hi \in 0 .. Top

BlocksInit ==
    /\ list = <<>> /\ listed = {}
    /\ blocks = {} /\ tracked = {} /\ todo = {}
    /\ loop = "none" /\ at = 1 /\ lo = 0 /\ hi = 0

-------------------------------------------------------------------------------
(* IrnSackManager::sack.                                                   *)

Sack(b) ==
    /\ loop = "none"
    /\ loop' = "place" /\ at' = 1 /\ lo' = b[1] /\ hi' = b[2]
    /\ listed' = listed \cup In(b)
    /\ UNCHANGED <<list, trackerVars>>

\* Everything that was missing is in place: "merge neighboring blocks".
StartMerge == loop' = "merge" /\ at' = 2 /\ UNCHANGED <<lo, hi>>

\* The early return, which also skips the merging.
Contained(b) ==
    /\ b[1] <= lo /\ hi <= b[2]
    /\ loop' = "none"
    /\ UNCHANGED <<list, at, lo, hi>>

\* The part before the block goes in, the part after it remains.
Covering(b) ==
    /\ lo < b[1] /\ b[2] < hi
    /\ list' = InsertAt(list, at, <<lo, b[1]>>)
    /\ lo' = b[2] /\ at' = at + 2
    /\ UNCHANGED <<loop, hi>>

\* Mutant: nothing is put in as an empty block.
EndingBefore_OrEmpty(b) ==
    /\ lo <= b[1] /\ hi <= b[2]
    /\ list' = InsertAt(list, at, <<lo, Lower(hi, b[1])>>)
    /\ StartMerge

\* Mutant: the overlap with the block is put in, too.
EndingBefore_Whole(b) ==
    /\ lo < b[1] /\ hi <= b[2]
    /\ list' = InsertAt(list, at, <<lo, hi>>)
    /\ StartMerge

\* All lies before the block, or all but what the block has already.
EndingBefore(b) ==
    /\ lo < b[1] /\ hi <= b[2]
    /\ list' = InsertAt(list, at, <<lo, Lower(hi, b[1])>>)
    /\ StartMerge

\* What the block has is dropped from the front; it may be nothing.
Beyond(b) ==
    /\ b[1] <= lo /\ b[2] < hi
    /\ lo' = Higher(lo, b[2]) /\ at' = at + 1
    /\ UNCHANGED <<list, loop, hi>>

Place ==
    /\ loop = "place"
    /\ IF at <= Len(list)
       THEN LET b == list[at]
            IN  Contained(b) \/ Covering(b) \/ EndingBefore(b) \/ Beyond(b)
       ELSE list' = Append(list, <<lo, hi>>) /\ StartMerge
    /\ UNCHANGED <<listed, trackerVars>>

\* Mutant: blocks that overlap by one are merged, touching ones are not.
Touching_Overlapping(b, c) == b[2] > c[1]

Touching(b, c) == b[2] = c[1]

\* A block that touches the one before it is joined to it.
Merge ==
    /\ loop = "merge"
    /\ IF at > Len(list)
       THEN loop' = "none" /\ UNCHANGED <<list, at>>
       ELSE /\ IF Touching(list[at - 1], list[at])
               THEN /\ list' = RemoveAt([list EXCEPT ![at - 1] = <<@[1], list[at][2]>>], at)
                    /\ UNCHANGED at
               ELSE at' = at + 1 /\ UNCHANGED list
            /\ UNCHANGED loop
    /\ UNCHANGED <<listed, trackerVars, lo, hi>>

-------------------------------------------------------------------------------
(* IrnSackManager::discardUpTo.  Only an assertion uses what it returns    *)
(* (RxSackAboveExpected of IrnTransport).                                  *)

StartDiscard(n) ==
    /\ loop = "none"
    /\ loop' = "discard" /\ lo' = n
    /\ listed' = {m \in listed : m >= n}
    /\ UNCHANGED <<list, trackerVars, at, hi>>

\* Mutant: a block that reaches beyond cumAck is left whole.
Cut_WholeBlocksOnly == UNCHANGED list

\* The first block reaches beyond cumAck, and may begin before it.
Cut == list' = [list EXCEPT ![1] = <<Higher(@[1], lo), @[2]>>]

Discard ==
    /\ loop = "discard"
    /\ IF list # <<>> /\ list[1][2] <= lo
       THEN list' = Tail(list) /\ UNCHANGED loop
       ELSE /\ loop' = "none"
            /\ IF list = <<>> THEN UNCHANGED list ELSE Cut
    /\ UNCHANGED <<listed, trackerVars, at, lo, hi>>

\* peekFrontBlock, as the empty block when there is none.
FrontBlock == IF list = <<>> THEN <<0, 0>> ELSE list[1]

BlockExists(first, end) == \E i \in 1 .. Len(list) : list[i][1] <= first /\ end <= list[i][2]

-------------------------------------------------------------------------------
(* RecvBlockTracker.  A std::set is walked in the order of its blocks.     *)

\* The walk begins one block before lower_bound.
FromLowerBound(first) ==
    {b \in blocks : \A c \in blocks : ~(b[1] < c[1] /\ c[1] < first)}

Insert(b) ==
    /\ loop = "none"
    /\ loop' = "absorb" /\ lo' = b[1] /\ hi' = b[2]
    /\ todo' = FromLowerBound(b[1])
    /\ tracked' = tracked \cup In(b)
    /\ UNCHANGED <<listVars, blocks, at>>

\* Mutant: a block that begins before the new one is erased, and the part of
\* it before the new one is lost.
Grown_EndOnly(b) == lo' = lo /\ hi' = Higher(hi, b[2])

Grown(b) == lo' = Lower(lo, b[1]) /\ hi' = Higher(hi, b[2])

\* A block that the growing one reaches is taken over, and erased.
Absorb(b) ==
    /\ todo' = todo \ {b}
    /\ IF b[2] < lo
       THEN UNCHANGED <<blocks, lo, hi>>
       ELSE Grown(b) /\ blocks' = blocks \ {b}
    /\ UNCHANGED loop

InsertGrown ==
    /\ blocks' = blocks \cup {<<lo, hi>>}
    /\ todo' = {} /\ loop' = "none"
    /\ UNCHANGED <<lo, hi>>

AbsorbNext ==
    /\ loop = "absorb"
    /\ \/ todo = {} /\ InsertGrown
       \/ \E b \in todo :
            /\ \A c \in todo : b[1] <= c[1]
            /\ IF b[1] > hi THEN InsertGrown ELSE Absorb(b)
    /\ UNCHANGED <<listVars, tracked, at>>

\* Mutant: the end of the first block, wherever it begins.
GetNextExpectedSeq_AnyFirst ==
    IF blocks = {} THEN 0
    ELSE (CHOOSE b \in blocks : \A c \in blocks : b[1] <= c[1])[2]

\* The first block counts if it begins at 0.
GetNextExpectedSeq ==
    IF \E b \in blocks : b[1] = 0 THEN (CHOOSE b \in blocks : b[1] = 0)[2] ELSE 0

-------------------------------------------------------------------------------

BlocksNext ==
    \/ \E b \in Intervals : Sack(b) \/ Insert(b)
    \/ \E n \in 0 .. Top : StartDiscard(n)
    \/ Place \/ Merge \/ Discard \/ AbsorbNext

BlocksSpec == BlocksInit /\ [][BlocksNext]_blockVars

-------------------------------------------------------------------------------
(* Properties.                                                             *)

\* Between two calls the list is the canonical form of a set, whatever
\* blocks were put in, overlapping, touching or nested, and discarded:
\* sorted, no block empty, none touching the next.  The early returns and
\* breaks of the loops rely on it.
ListIsSet ==
    loop = "none" =>
        /\ \A i \in 1 .. Len(list) - 1 : list[i][2] < list[i + 1][1]
        /\ Union(ToSet(list)) = listed

\* The same of RecvBlockTracker.
TrackerIsSet ==
    loop = "none" =>
        /\ \A b, c \in blocks : b[2] < c[1] \/ c[2] < b[1] \/ b = c
        /\ Union(blocks) = tracked

\* The assertions in sack: the list is not empty after the insertions, and
\* the blocks that are looked at in the merging are in order.
SackAssertions ==
    loop = "merge" => /\ list # <<>>
                      /\ at <= Len(list) => list[at - 1][2] <= list[at][1]

\* peekFrontBlock is the first run of consecutive numbers, and blockExists
\* tells whether a whole block is held (IrnTransport's RunEnd, FrontBlockAt).
QueriesAgree ==
    loop = "none" =>
        /\ In(FrontBlock) = {n \in listed : \A m \in listed : m < n =>
                                                (m .. n) \subseteq listed}
        /\ \A b \in Intervals : BlockExists(b[1], b[2]) <=> In(b) \subseteq listed

\* GetNextExpectedSeq is the first number not received (the transports'
\* NextExpected).
ExpectedIsFirstGap ==
    loop = "none" => /\ GetNextExpectedSeq \notin tracked
                     /\ 0 .. GetNextExpectedSeq - 1 \subseteq tracked

\* Both lists are what the transports take them for: sets, and the queries on
\* them those on sets; the assertions in the loops hold.
ListsCorrect ==
    ListIsSet /\ TrackerIsSet /\ SackAssertions /\ QueriesAgree /\ ExpectedIsFirstGap
===============================================================================
