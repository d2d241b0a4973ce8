--------------------------- MODULE SackBlocksProofs ---------------------------
(***************************************************************************)
(* Theorems about SackBlocks: the loops of both interval lists keep them   *)
(* canonical, for numbers of any size and any sequence of calls.           *)
(***************************************************************************)
EXTENDS SackBlocks, SequenceTheorems, TLAPS

-------------------------------------------------------------------------------
(* Sequences.                                                              *)

\* What InsertAt returns: t is s with e at place i.
WithBlock(t, s, i, e) ==
    /\ t \in Seq(Intervals)
    /\ Len(s) \in Nat /\ Len(t) = Len(s) + 1
    /\ \A j \in 1 .. Len(s) + 1 :
            t[j] = IF j < i THEN s[j] ELSE IF j = i THEN e ELSE s[j - 1]

LEMMA Inserted ==
    ASSUME NEW s \in Seq(Intervals), NEW i \in 1 .. Len(s) + 1, NEW e \in Intervals
    PROVE  WithBlock(InsertAt(s, i, e), s, i, e)
<1> DEFINE left  == SubSeq(s, 1, i - 1)
           right == SubSeq(s, i, Len(s))
<1>0. Len(s) \in Nat
    BY LenProperties
<1>1. /\ left \in Seq(Intervals) /\ Len(left) = i - 1
      /\ \A j \in 1 .. i - 1 : left[j] = s[j]
    BY <1>0, SubSeqProperties, ElementOfSeq
<1>2. /\ right \in Seq(Intervals) /\ Len(right) = Len(s) - i + 1
      /\ \A j \in 1 .. Len(s) - i + 1 : right[j] = s[i + j - 1]
    BY <1>0, SubSeqProperties, ElementOfSeq
<1> HIDE DEF left, right
<1>3. /\ left \o <<e>> \in Seq(Intervals) /\ Len(left \o <<e>>) = i
      /\ \A j \in 1 .. i : (left \o <<e>>)[j] = IF j < i THEN s[j] ELSE e
    BY <1>0, <1>1
<1> DEFINE front == left \o <<e>>
<1> HIDE DEF front
<1>4. /\ front \o right \in Seq(Intervals) /\ Len(front \o right) = Len(s) + 1
      /\ \A j \in 1 .. Len(s) + 1 :
            (front \o right)[j] = IF j <= i THEN front[j] ELSE right[j - i]
    BY <1>0, <1>2, <1>3, ConcatProperties DEF front
<1>5. \A j \in 1 .. Len(s) + 1 : j > i => right[j - i] = s[j - 1]
    BY <1>0, <1>2
<1>6. InsertAt(s, i, e) = front \o right
    BY DEF InsertAt, front, left, right
<1> QED
    BY <1>0, <1>3, <1>4, <1>5, <1>6 DEF front, WithBlock

\* What RemoveAt returns.
LEMMA Removed ==
    ASSUME NEW s \in Seq(Intervals), NEW i \in 1 .. Len(s)
    PROVE  /\ RemoveAt(s, i) \in Seq(Intervals)
           /\ Len(s) \in Nat /\ Len(RemoveAt(s, i)) = Len(s) - 1
           /\ \A j \in 1 .. Len(s) - 1 :
                RemoveAt(s, i)[j] = IF j < i THEN s[j] ELSE s[j + 1]
<1> DEFINE left  == SubSeq(s, 1, i - 1)
           right == SubSeq(s, i + 1, Len(s))
<1>0. Len(s) \in Nat
    BY LenProperties
<1>1. /\ left \in Seq(Intervals) /\ Len(left) = i - 1
      /\ \A j \in 1 .. i - 1 : left[j] = s[j]
    BY <1>0, SubSeqProperties, ElementOfSeq
<1>2. /\ right \in Seq(Intervals) /\ Len(right) = Len(s) - i
      /\ \A j \in 1 .. Len(s) - i : right[j] = s[i + j]
    BY <1>0, SubSeqProperties, ElementOfSeq
<1> HIDE DEF left, right
<1>3. /\ left \o right \in Seq(Intervals)
      /\ Len(left \o right) = Len(left) + Len(right)
      /\ \A j \in 1 .. Len(left) + Len(right) :
            (left \o right)[j] = IF j <= Len(left) THEN left[j] ELSE right[j - Len(left)]
    BY <1>1, <1>2, ConcatProperties
<1>6. Len(left) + Len(right) = Len(s) - 1
    BY <1>0, <1>1, <1>2
<1>4. \A j \in 1 .. Len(s) - 1 : j >= i => right[j - (i - 1)] = s[j + 1]
    BY <1>0, <1>2
<1>5. RemoveAt(s, i) = left \o right
    BY DEF RemoveAt, left, right
<1> QED
    BY <1>0, <1>1, <1>3, <1>4, <1>5, <1>6

-------------------------------------------------------------------------------
(* The numbers of a list.                                                  *)

Members(s) == Union(ToSet(s))

LEMMA BlockParts ==
    ASSUME NEW b \in Intervals
    PROVE  b[1] \in 0 .. Top /\ b[2] \in 0 .. Top /\ b[1] < b[2] /\ b = <<b[1], b[2]>>
    BY DEF Intervals

LEMMA BlocksOf ==
    ASSUME NEW s \in Seq(Intervals)
    PROVE  /\ Len(s) \in Nat
           /\ \A i \in 1 .. Len(s) : /\ s[i] \in Intervals
                                     /\ s[i][1] \in 0 .. Top /\ s[i][2] \in 0 .. Top
                                     /\ s[i][1] < s[i][2]
                                     /\ In(s[i]) = s[i][1] .. s[i][2] - 1
    BY LenProperties, ElementOfSeq, BlockParts DEF In

LEMMA BlockMade ==
    ASSUME NEW m \in 0 .. Top, NEW n \in 0 .. Top, m < n
    PROVE  <<m, n>> \in Intervals
    BY DEF Intervals

LEMMA MemberOf ==
    ASSUME NEW s \in Seq(Intervals), NEW n
    PROVE  n \in Members(s) <=> \E i \in 1 .. Len(s) : n \in In(s[i])
    BY DEF Members, Union, ToSet

\* The blocks are in order, and may touch.
InOrder(s) == \A i, j \in 1 .. Len(s) : i < j => s[i][2] <= s[j][1]

\* No two blocks touch from place k on, or up to it.
ApartFrom(s, k) == \A i, j \in 1 .. Len(s) : k <= i /\ i < j => s[i][2] < s[j][1]
ApartUpTo(s, k) == \A i, j \in 1 .. Len(s) : i < j /\ j <= k => s[i][2] < s[j][1]
Apart(s) == \A i, j \in 1 .. Len(s) : i < j => s[i][2] < s[j][1]

-------------------------------------------------------------------------------
(* The inductive invariant.                                                *)

\* sack: all blocks that were passed end before the rest of the new one.
\* Either nothing was put in yet, or the rest begins where the last block
\* ended, and then no block contains it.
PlaceInv ==
    loop = "place" =>
        /\ lo < hi /\ at \in 1 .. Len(list) + 1
        /\ InOrder(list) /\ ApartFrom(list, at - 1)
        /\ \A i \in 1 .. Len(list) : i < at => list[i][2] <= lo
        /\ Apart(list) \/ (at > 1 /\ list[at - 1][2] = lo)
        /\ listed = Members(list) \cup (lo .. hi - 1)

\* The merging: what was passed is apart.
MergeInv ==
    loop = "merge" =>
        /\ at \in 2 .. Len(list) + 1
        /\ InOrder(list) /\ ApartUpTo(list, at - 1)
        /\ listed = Members(list)

DiscardInv ==
    loop = "discard" => Apart(list) /\ listed = {m \in Members(list) : m >= lo}

ListInv == loop \in {"none", "absorb"} => Apart(list) /\ listed = Members(list)

Separate(bs) == \A b, c \in bs : b[2] < c[1] \/ c[2] < b[1] \/ b = c

\* Insert: what the iterator has passed ends before the growing block and
\* before what is to come.
AbsorbInv ==
    loop = "absorb" =>
        /\ lo < hi
        /\ \A b \in blocks \ todo : b[2] < lo /\ \A c \in todo : b[2] < c[1]
        /\ tracked = Union(blocks) \cup (lo .. hi - 1)

TrackerInv ==
    /\ Separate(blocks)
    /\ loop # "absorb" => tracked = Union(blocks)

IInv == BlocksTypeOK /\ PlaceInv /\ MergeInv /\ DiscardInv /\ ListInv /\ AbsorbInv /\ TrackerInv

LEMMA IInvInit == BlocksInit => IInv
<1> SUFFICES ASSUME BlocksInit PROVE IInv
    OBVIOUS
<1> USE DEF BlocksInit
<1>1. BlocksTypeOK
    BY SackAssumption DEF BlocksTypeOK
<1>2. Members(list) = {} /\ Union(blocks) = {}
    BY DEF Members, Union, ToSet
<1> QED
    BY <1>1, <1>2
    DEF IInv, PlaceInv, MergeInv, DiscardInv, ListInv, AbsorbInv, TrackerInv, Apart, Separate

-------------------------------------------------------------------------------
(* The steps of sack.                                                      *)

\* A step of one list leaves the invariant of the other alone.
LEMMA TrackerStays ==
    ASSUME IInv, UNCHANGED trackerVars, loop # "absorb", loop' # "absorb"
    PROVE  AbsorbInv' /\ TrackerInv'
    BY DEF IInv, AbsorbInv, TrackerInv, Separate, Union, trackerVars

\* The numbers of a list with one more block.
LEMMA MembersInserted ==
    ASSUME NEW s \in Seq(Intervals), NEW i \in 1 .. Len(s) + 1, NEW e \in Intervals
    PROVE  Members(InsertAt(s, i, e)) = Members(s) \cup In(e)
<1> DEFINE t == InsertAt(s, i, e)
<1>0. WithBlock(t, s, i, e)
    BY Inserted
<1> HIDE DEF t
<1>1. /\ t \in Seq(Intervals) /\ Len(t) = Len(s) + 1
      /\ \A j \in 1 .. Len(s) + 1 :
            t[j] = IF j < i THEN s[j] ELSE IF j = i THEN e ELSE s[j - 1]
    BY <1>0 DEF WithBlock
<1>2. ASSUME NEW n, n \in Members(t) PROVE n \in Members(s) \cup In(e)
    <2>1. PICK j \in 1 .. Len(t) : n \in In(t[j])
        BY <1>1, <1>2, MemberOf
    <2>2. CASE j < i
        BY <1>1, <2>1, <2>2, MemberOf
    <2>3. CASE j = i
        BY <1>1, <2>1, <2>3
    <2>4. CASE j > i
        <3>1. j - 1 \in 1 .. Len(s) /\ n \in In(s[j - 1])
            BY <1>1, <2>1, <2>4
        <3> QED
            BY <3>1, MemberOf
    <2> QED
        BY <2>2, <2>3, <2>4
<1>3. ASSUME NEW n, n \in Members(s) PROVE n \in Members(t)
    <2>1. PICK j \in 1 .. Len(s) : n \in In(s[j])
        BY <1>3, MemberOf
    <2>2. CASE j < i
        <3>1. j \in 1 .. Len(t) /\ n \in In(t[j])
            BY <1>1, <2>1, <2>2
        <3> QED
            BY <1>1, <3>1, MemberOf
    <2>3. CASE j >= i
        <3>1. j + 1 \in 1 .. Len(t) /\ n \in In(t[j + 1])
            BY <1>1, <2>1, <2>3
        <3> QED
            BY <1>1, <3>1, MemberOf
    <2> QED
        BY <2>2, <2>3
<1>4. ASSUME NEW n, n \in In(e) PROVE n \in Members(t)
    <2>1. i \in 1 .. Len(t) /\ n \in In(t[i])
        BY <1>1, <1>4
    <2> QED
        BY <1>1, <2>1, MemberOf
<1> QED
    BY <1>2, <1>3, <1>4 DEF t

\* A block that fits between its neighbours keeps the order.
LEMMA OrderInserted ==
    ASSUME NEW s \in Seq(Intervals), NEW k \in 1 .. Len(s) + 1, NEW e \in Intervals,
           InOrder(s),
           \A i \in 1 .. Len(s) : i < k => s[i][2] <= e[1],
           \A i \in 1 .. Len(s) : i >= k => e[2] <= s[i][1]
    PROVE  InOrder(InsertAt(s, k, e))
<1> DEFINE t == InsertAt(s, k, e)
<1>0. WithBlock(t, s, k, e)
    BY Inserted
<1> HIDE DEF t
<1>1. /\ Len(s) \in Nat /\ Len(t) = Len(s) + 1
      /\ \A j \in 1 .. Len(s) + 1 :
            t[j] = IF j < k THEN s[j] ELSE IF j = k THEN e ELSE s[j - 1]
    BY <1>0 DEF WithBlock
<1> SUFFICES ASSUME NEW i \in 1 .. Len(s) + 1, NEW j \in 1 .. Len(s) + 1, i < j
             PROVE  t[i][2] <= t[j][1]
    BY <1>1 DEF InOrder, t
<1>2. \A m, n \in 1 .. Len(s) : m < n => s[m][2] <= s[n][1]
    BY DEF InOrder
<1>3. CASE j < k
    <2>1. t[i] = s[i] /\ t[j] = s[j] /\ i \in 1 .. Len(s) /\ j \in 1 .. Len(s)
        BY <1>1, <1>3
    <2> QED
        BY <1>2, <2>1
<1>4. CASE j = k
    <2>1. t[i] = s[i] /\ t[j] = e /\ i \in 1 .. Len(s) /\ i < k
        BY <1>1, <1>4
    <2> QED
        BY <2>1
<1>5. CASE j > k /\ i < k
    <2>1. t[i] = s[i] /\ t[j] = s[j - 1] /\ i \in 1 .. Len(s) /\ j - 1 \in 1 .. Len(s)
        BY <1>1, <1>5
    <2>2. i < j - 1
        BY <1>1, <1>5
    <2> QED
        BY <1>2, <2>1, <2>2
<1>6. CASE j > k /\ i = k
    <2>1. t[i] = e /\ t[j] = s[j - 1] /\ j - 1 \in 1 .. Len(s) /\ j - 1 >= k
        BY <1>1, <1>6
    <2> QED
        BY <2>1
<1>7. CASE j > k /\ i > k
    <2>1. t[i] = s[i - 1] /\ t[j] = s[j - 1] /\ i - 1 \in 1 .. Len(s) /\ j - 1 \in 1 .. Len(s)
        BY <1>1, <1>7
    <2>2. i - 1 < j - 1
        BY <1>1
    <2> QED
        BY <1>2, <2>1, <2>2
<1> QED
    BY <1>1, <1>3, <1>4, <1>5, <1>6, <1>7

LEMMA SackStep ==
    ASSUME IInv, NEW b \in Intervals, Sack(b)
    PROVE  IInv'
<1>1. b[1] \in 0 .. Top /\ b[2] \in 0 .. Top /\ b[1] < b[2] /\ In(b) = b[1] .. b[2] - 1
    BY BlockParts DEF In
<1>2. BlocksTypeOK'
    <2>1. In(b) \in SUBSET (0 .. Top - 1)
        BY <1>1, SackAssumption
    <2> QED
        BY <1>1, <2>1, SackAssumption DEF IInv, BlocksTypeOK, Sack, trackerVars
<1>3. PlaceInv'
    <2>1. Apart(list) /\ listed = Members(list) /\ list \in Seq(Intervals)
        BY DEF IInv, ListInv, BlocksTypeOK, Sack
    <2>2. /\ Len(list) \in Nat
          /\ \A i \in 1 .. Len(list) : list[i][1] \in Int /\ list[i][2] \in Int
        BY <2>1, BlocksOf, SackAssumption
    <2>3. InOrder(list) /\ ApartFrom(list, 0)
        BY <2>1, <2>2 DEF Apart, InOrder, ApartFrom
    <2>4. list' = list /\ at' = 1 /\ lo' = b[1] /\ hi' = b[2] /\ listed' = listed \cup In(b)
        BY DEF Sack
    <2>5. Len(list) \in Nat
        BY <2>1, LenProperties
    <2> QED
        BY <1>1, <2>1, <2>3, <2>4, <2>5 DEF PlaceInv, Members
<1>4. MergeInv' /\ DiscardInv' /\ ListInv'
    BY DEF Sack, MergeInv, DiscardInv, ListInv
<1> QED
    BY <1>2, <1>3, <1>4, TrackerStays DEF IInv, Sack

\* What holds in the loop of sack before a block goes in at its iterator.
LEMMA PlaceFacts ==
    ASSUME IInv, loop = "place"
    PROVE  /\ list \in Seq(Intervals) /\ lo \in 0 .. Top /\ hi \in 0 .. Top /\ Top \in Nat
           /\ Len(list) \in Nat
           /\ lo < hi /\ at \in 1 .. Len(list) + 1
           /\ InOrder(list) /\ ApartFrom(list, at - 1)
           /\ \A i \in 1 .. Len(list) : i < at => list[i][2] <= lo
           /\ Apart(list) \/ (at > 1 /\ list[at - 1][2] = lo)
           /\ listed = Members(list) \cup (lo .. hi - 1)
           /\ listed \in SUBSET (0 .. Top - 1)
    BY SackAssumption, LenProperties DEF IInv, BlocksTypeOK, PlaceInv

LEMMA ContainedStep ==
    ASSUME IInv, Place, at <= Len(list), Contained(list[at])
    PROVE  IInv'
<1> DEFINE b == list[at]
<1>1. /\ list \in Seq(Intervals) /\ lo \in 0 .. Top /\ hi \in 0 .. Top /\ Top \in Nat
      /\ Len(list) \in Nat /\ lo < hi /\ at \in 1 .. Len(list)
      /\ InOrder(list) /\ ApartFrom(list, at - 1)
      /\ Apart(list) \/ (at > 1 /\ list[at - 1][2] = lo)
      /\ listed = Members(list) \cup (lo .. hi - 1)
    BY PlaceFacts DEF Place
<1>2. b[1] \in 0 .. Top /\ b[2] \in 0 .. Top /\ In(b) = b[1] .. b[2] - 1
    BY <1>1, BlocksOf
<1>3. /\ b[1] <= lo /\ hi <= b[2]
      /\ loop' = "none" /\ UNCHANGED <<list, listed, at, lo, hi, trackerVars>>
    BY DEF Contained, Place
<1>4. Apart(list)
    <2>1. ASSUME at > 1 PROVE list[at - 1][2] < b[1]
        BY <1>1, <2>1 DEF ApartFrom
    <2>2. ASSUME at > 1, list[at - 1][2] = lo PROVE FALSE
        BY <1>1, <1>2, <1>3, <2>1, <2>2
    <2> QED
        BY <1>1, <2>2
<1>5. lo .. hi - 1 \subseteq Members(list)
    <2>1. lo .. hi - 1 \subseteq In(b)
        BY <1>1, <1>2, <1>3
    <2> QED
        BY <1>1, <2>1, MemberOf
<1>6. ListInv'
    BY <1>1, <1>3, <1>4, <1>5 DEF ListInv, Members
<1>7. BlocksTypeOK'
    BY <1>3 DEF IInv, BlocksTypeOK, trackerVars
<1> QED
    BY <1>3, <1>6, <1>7, TrackerStays
    DEF IInv, Place, PlaceInv, MergeInv, DiscardInv

LEMMA CoveringStep ==
    ASSUME IInv, Place, at <= Len(list), Covering(list[at])
    PROVE  IInv'
<1> DEFINE b == list[at]
           e == <<lo, b[1]>>
<1>1. /\ list \in Seq(Intervals) /\ lo \in 0 .. Top /\ hi \in 0 .. Top /\ Top \in Nat
      /\ Len(list) \in Nat /\ lo < hi /\ at \in 1 .. Len(list)
      /\ InOrder(list) /\ ApartFrom(list, at - 1)
      /\ \A i \in 1 .. Len(list) : i < at => list[i][2] <= lo
      /\ listed = Members(list) \cup (lo .. hi - 1)
    BY PlaceFacts DEF Place
<1>2. /\ b \in Intervals /\ b[1] \in 0 .. Top /\ b[2] \in 0 .. Top /\ b[1] < b[2]
      /\ In(b) = b[1] .. b[2] - 1
    BY <1>1, BlocksOf
<1>3. /\ lo < b[1] /\ b[2] < hi
      /\ list' = InsertAt(list, at, e)
      /\ lo' = b[2] /\ at' = at + 2 /\ loop' = "place"
      /\ UNCHANGED <<listed, hi, trackerVars>>
    BY DEF Covering, Place
<1>4. e \in Intervals /\ e[1] = lo /\ e[2] = b[1] /\ In(e) = lo .. b[1] - 1
    BY <1>1, <1>2, <1>3, BlockMade DEF In
<1> HIDE DEF e
<1>5. /\ list' \in Seq(Intervals) /\ Len(list') = Len(list) + 1
      /\ \A j \in 1 .. Len(list) + 1 :
            list'[j] = IF j < at THEN list[j] ELSE IF j = at THEN e ELSE list[j - 1]
    <2>1. at \in 1 .. Len(list) + 1
        BY <1>1
    <2>2. /\ InsertAt(list, at, e) \in Seq(Intervals)
          /\ Len(InsertAt(list, at, e)) = Len(list) + 1
          /\ \A j \in 1 .. Len(list) + 1 :
                InsertAt(list, at, e)[j] = IF j < at THEN list[j]
                                           ELSE IF j = at THEN e ELSE list[j - 1]
        <3>1. list \in Seq(Intervals) /\ e \in Intervals
            BY <1>1, <1>4
        <3> QED
            BY <2>1, <3>1, Inserted DEF WithBlock
    <2> QED
        BY <1>3, <2>2
<1>6. \A i \in 1 .. Len(list) : /\ list[i][1] \in 0 .. Top /\ list[i][2] \in 0 .. Top
                                /\ list[i][1] < list[i][2]
    BY <1>1, BlocksOf
<1>7. \A i, j \in 1 .. Len(list) : i < j => list[i][2] <= list[j][1]
    BY <1>1 DEF InOrder
<1>8. \A i, j \in 1 .. Len(list) : at - 1 <= i /\ i < j => list[i][2] < list[j][1]
    BY <1>1 DEF ApartFrom
<1> HIDE DEF b
<1>9. PlaceInv'
    <2>1. lo' < hi' /\ at' \in 1 .. Len(list') + 1
        BY <1>1, <1>2, <1>3, <1>5
    <2>2. InOrder(list')
        <3>1. ASSUME NEW i \in 1 .. Len(list), i >= at PROVE b[1] <= list[i][1]
            <4>1. CASE i = at
                BY <1>6, <4>1 DEF b
            <4>2. CASE i > at
                <5>1. list[at][2] <= list[i][1]
                    BY <1>1, <1>7, <4>2
                <5>2. b[1] < b[2] /\ b[2] <= list[i][1] /\ list[i][1] \in Int
                    BY <1>2, <1>6, <5>1 DEF b
                <5> QED
                    BY <1>2, <5>2
            <4> QED
                BY <1>1, <3>1, <4>1, <4>2
        <3> QED
            <4>1. at \in 1 .. Len(list) + 1
                BY <1>1
            <4> QED
                BY <1>1, <1>3, <1>4, <3>1, <4>1, OrderInserted
    <2>3. ApartFrom(list', at' - 1)
        <3> SUFFICES ASSUME NEW i \in 1 .. Len(list) + 1, NEW j \in 1 .. Len(list) + 1,
                            at + 1 <= i, i < j
                     PROVE  list'[i][2] < list'[j][1]
            BY <1>1, <1>3, <1>5 DEF ApartFrom
        <3>1. list'[i] = list[i - 1] /\ list'[j] = list[j - 1]
            BY <1>1, <1>5
        <3>2. i - 1 \in 1 .. Len(list) /\ j - 1 \in 1 .. Len(list) /\ at - 1 <= i - 1 /\ i - 1 < j - 1
            BY <1>1
        <3> QED
            BY <1>8, <3>1, <3>2
    <2>4. \A i \in 1 .. Len(list') : i < at' => list'[i][2] <= lo'
        <3> SUFFICES ASSUME NEW i \in 1 .. Len(list) + 1, i < at + 2 PROVE list'[i][2] <= b[2]
            BY <1>3, <1>5
        <3>1. CASE i < at
            <4>1. i \in 1 .. Len(list) /\ list'[i] = list[i]
                BY <1>1, <1>5, <3>1
            <4> QED
                BY <1>1, <1>2, <1>3, <1>6, <3>1, <4>1, SMTT(40)
        <3>2. CASE i = at
            <4>1. list'[i] = e
                BY <1>1, <1>5, <3>2
            <4> QED
                BY <1>2, <1>4, <4>1
        <3>3. CASE i = at + 1
            <4>1. list'[i] = b
                BY <1>1, <1>5, <3>3 DEF b
            <4> QED
                BY <1>2, <4>1
        <3> QED
            BY <1>1, <3>1, <3>2, <3>3
    <2>5. at' > 1 /\ list'[at' - 1][2] = lo'
        <3>1. list'[at + 1] = b
            BY <1>1, <1>5 DEF b
        <3> QED
            BY <1>1, <1>3, <3>1
    <2>6. listed' = Members(list') \cup (lo' .. hi' - 1)
        <3>1. Members(list') = Members(list) \cup (lo .. b[1] - 1)
            <4>1. at \in 1 .. Len(list) + 1
                BY <1>1
            <4> QED
                BY <1>1, <1>3, <1>4, <4>1, MembersInserted
        <3>2. In(b) \subseteq Members(list)
            BY <1>1, MemberOf DEF b
        <3>3. lo .. hi - 1 = (lo .. b[1] - 1) \cup (b[1] .. b[2] - 1) \cup (b[2] .. hi - 1)
            <4>1. /\ lo \in Int /\ hi \in Int /\ b[1] \in Int /\ b[2] \in Int
                  /\ lo < b[1] /\ b[1] < b[2] /\ b[2] < hi
                BY <1>1, <1>2, <1>3
            <4> QED
                BY <4>1, SMTT(40)
        <3> QED
            BY <1>1, <1>2, <1>3, <3>1, <3>2, <3>3
    <2> QED
        BY <2>1, <2>2, <2>3, <2>4, <2>5, <2>6 DEF PlaceInv, InOrder, ApartFrom, Members
<1>10. BlocksTypeOK'
    BY <1>1, <1>2, <1>3, <1>5, SMTT(40) DEF IInv, BlocksTypeOK, trackerVars
<1> QED
    BY <1>3, <1>9, <1>10, TrackerStays
    DEF IInv, Place, MergeInv, DiscardInv, ListInv

\* Appending is inserting at the end.
LEMMA AppendInserts ==
    ASSUME NEW s \in Seq(Intervals), NEW e \in Intervals
    PROVE  Append(s, e) = InsertAt(s, Len(s) + 1, e)
<1>1. Len(s) \in Nat /\ Len(s) + 1 \in 1 .. Len(s) + 1
    BY LenProperties
<1> DEFINE t == InsertAt(s, Len(s) + 1, e)
<1>3. /\ Append(s, e) \in Seq(Intervals) /\ Len(Append(s, e)) = Len(s) + 1
      /\ \A j \in 1 .. Len(s) : Append(s, e)[j] = s[j]
      /\ Append(s, e)[Len(s) + 1] = e
    BY AppendProperties
<1>0. WithBlock(t, s, Len(s) + 1, e)
    BY <1>1, Inserted
<1> HIDE DEF t
<1>2. /\ t \in Seq(Intervals) /\ Len(t) = Len(s) + 1
      /\ \A j \in 1 .. Len(s) + 1 : t[j] = IF j < Len(s) + 1 THEN s[j]
                                           ELSE IF j = Len(s) + 1 THEN e ELSE s[j - 1]
    BY <1>0 DEF WithBlock
<1>4. \A j \in 1 .. Len(s) + 1 : Append(s, e)[j] = t[j]
    BY <1>1, <1>2, <1>3
<1> QED
    BY <1>2, <1>3, <1>4, SeqEqual DEF t

\* The last block is in: everything before it ends at lo or earlier, what
\* is left of the new one after it is in the list already.
LEMMA LastInsertion ==
    ASSUME IInv, loop = "place", NEW e \in Intervals, e[1] = lo,
           \A i \in 1 .. Len(list) : i >= at => e[2] <= list[i][1],
           lo .. hi - 1 \subseteq In(e) \cup Members(list), In(e) \subseteq lo .. hi - 1,
           list' = InsertAt(list, at, e), StartMerge, UNCHANGED <<listed, trackerVars>>
    PROVE  IInv'
<1>1. /\ list \in Seq(Intervals) /\ lo \in 0 .. Top /\ hi \in 0 .. Top /\ Top \in Nat
      /\ Len(list) \in Nat /\ at \in 1 .. Len(list) + 1
      /\ InOrder(list)
      /\ \A i \in 1 .. Len(list) : i < at => list[i][2] <= lo
      /\ listed = Members(list) \cup (lo .. hi - 1)
    BY PlaceFacts
<1>2. list' \in Seq(Intervals) /\ Len(list') = Len(list) + 1
    <2>1. list \in Seq(Intervals) /\ at \in 1 .. Len(list) + 1
        BY <1>1
    <2> QED
        BY <2>1, Inserted DEF WithBlock
<1>3. InOrder(list')
    <2>1. list \in Seq(Intervals) /\ at \in 1 .. Len(list) + 1
        BY <1>1
    <2>2. \A i \in 1 .. Len(list) : i < at => list[i][2] <= e[1]
        BY <1>1
    <2> QED
        BY <1>1, <2>1, <2>2, OrderInserted
<1>4. Members(list') = Members(list) \cup In(e)
    BY <1>1, MembersInserted
<1>5. loop' = "merge" /\ at' = 2 /\ UNCHANGED <<lo, hi, listed, trackerVars>>
    BY DEF StartMerge
<1>6. MergeInv'
    <2>1. at' \in 2 .. Len(list') + 1
        BY <1>1, <1>2, <1>5
    <2>2. ApartUpTo(list', at' - 1)
        BY <1>1, <1>2, <1>5 DEF ApartUpTo
    <2>3. listed' = Members(list')
        BY <1>1, <1>4, <1>5
    <2> QED
        BY <1>3, <2>1, <2>2, <2>3 DEF MergeInv, InOrder, ApartUpTo, Members
<1>7. BlocksTypeOK'
    BY <1>2, <1>5 DEF IInv, BlocksTypeOK, trackerVars
<1> QED
    BY <1>5, <1>6, <1>7, TrackerStays DEF IInv, PlaceInv, DiscardInv, ListInv

LEMMA EndingBeforeStep ==
    ASSUME IInv, Place, at <= Len(list), EndingBefore(list[at])
    PROVE  IInv'
<1> DEFINE b == list[at]
           e == <<lo, Lower(hi, b[1])>>
<1>1. /\ list \in Seq(Intervals) /\ lo \in 0 .. Top /\ hi \in 0 .. Top /\ Top \in Nat
      /\ Len(list) \in Nat /\ lo < hi /\ at \in 1 .. Len(list)
      /\ InOrder(list)
    BY PlaceFacts DEF Place
<1>2. /\ b[1] \in 0 .. Top /\ b[2] \in 0 .. Top /\ b[1] < b[2]
      /\ In(b) = b[1] .. b[2] - 1
    BY <1>1, BlocksOf
<1>3. /\ lo < b[1] /\ hi <= b[2] /\ loop = "place"
      /\ list' = InsertAt(list, at, e) /\ StartMerge /\ UNCHANGED <<listed, trackerVars>>
    BY DEF EndingBefore, Place
<1>4. /\ Lower(hi, b[1]) \in 0 .. Top /\ lo < Lower(hi, b[1])
      /\ Lower(hi, b[1]) <= b[1] /\ Lower(hi, b[1]) <= hi
      /\ (lo .. hi - 1) \subseteq (lo .. Lower(hi, b[1]) - 1) \cup (b[1] .. b[2] - 1)
    BY <1>1, <1>2, <1>3 DEF Lower
<1>5. e \in Intervals /\ e[1] = lo /\ e[2] = Lower(hi, b[1]) /\ In(e) = lo .. e[2] - 1
    BY <1>1, <1>4, BlockMade DEF In
<1>6. In(b) \subseteq Members(list)
    BY <1>1, MemberOf
<1>7. ASSUME NEW i \in 1 .. Len(list), i >= at PROVE e[2] <= list[i][1]
    <2>1. list[i][1] \in 0 .. Top
        BY <1>1, BlocksOf
    <2>2. CASE i = at
        BY <1>4, <1>5, <2>2
    <2>3. CASE i > at
        <3>1. b[2] <= list[i][1]
            BY <1>1, <2>3 DEF InOrder
        <3> HIDE DEF b
        <3> QED
            BY <1>1, <1>2, <1>4, <1>5, <2>1, <3>1, SMTT(40)
    <2> QED
        BY <1>1, <1>7, <2>2, <2>3
<1> HIDE DEF b, e
<1>8. lo .. hi - 1 \subseteq In(e) \cup Members(list) /\ In(e) \subseteq lo .. hi - 1
    BY <1>1, <1>2, <1>4, <1>5, <1>6, SMTT(40)
<1> QED
    BY <1>3, <1>5, <1>7, <1>8, LastInsertion

LEMMA BeyondStep ==
    ASSUME IInv, Place, at <= Len(list), Beyond(list[at])
    PROVE  IInv'
<1> DEFINE b == list[at]
<1>1. /\ list \in Seq(Intervals) /\ lo \in 0 .. Top /\ hi \in 0 .. Top /\ Top \in Nat
      /\ Len(list) \in Nat /\ lo < hi /\ at \in 1 .. Len(list)
      /\ InOrder(list) /\ ApartFrom(list, at - 1)
      /\ \A i \in 1 .. Len(list) : i < at => list[i][2] <= lo
      /\ Apart(list) \/ (at > 1 /\ list[at - 1][2] = lo)
      /\ listed = Members(list) \cup (lo .. hi - 1)
    BY PlaceFacts DEF Place
<1>2. /\ b[1] \in 0 .. Top /\ b[2] \in 0 .. Top /\ b[1] < b[2]
      /\ In(b) = b[1] .. b[2] - 1 /\ In(b) \subseteq Members(list)
    BY <1>1, BlocksOf, MemberOf
<1>3. /\ b[1] <= lo /\ b[2] < hi
      /\ lo' = Higher(lo, b[2]) /\ at' = at + 1
      /\ loop' = "place" /\ UNCHANGED <<list, listed, hi, trackerVars>>
    BY DEF Beyond, Place
<1>4. Apart(list)
    <2>1. ASSUME at > 1 PROVE list[at - 1][2] < b[1]
        BY <1>1, <2>1 DEF ApartFrom
    <2>2. ASSUME at > 1, list[at - 1][2] = lo PROVE FALSE
        BY <1>1, <1>2, <1>3, <2>1, <2>2
    <2> QED
        BY <1>1, <2>2
<1>5. \A i \in 1 .. Len(list) : list[i][2] \in 0 .. Top
    BY <1>1, BlocksOf
<1>6. \A i \in 1 .. Len(list) : i < at' => list[i][2] <= lo'
    <2> SUFFICES ASSUME NEW i \in 1 .. Len(list), i < at + 1 PROVE list[i][2] <= Higher(lo, b[2])
        BY <1>3
    <2>1. CASE i = at
        BY <1>1, <1>2, <2>1 DEF Higher
    <2>2. CASE i < at
        <3>1. list[i][2] <= lo
            BY <1>1, <2>2
        <3>2. list[i][2] \in Int
            BY <1>1, <1>5
        <3> HIDE DEF b
        <3> QED
            BY <1>1, <1>2, <3>1, <3>2, SMTT(40) DEF Higher
    <2> QED
        BY <1>1, <2>1, <2>2
<1>7. ApartFrom(list, at' - 1)
    BY <1>4 DEF Apart, ApartFrom
<1> HIDE DEF b
<1>8. /\ Higher(lo, b[2]) \in 0 .. Top /\ Higher(lo, b[2]) < hi
      /\ (lo .. hi - 1) = (lo .. Higher(lo, b[2]) - 1) \cup (Higher(lo, b[2]) .. hi - 1)
      /\ (lo .. Higher(lo, b[2]) - 1) \subseteq In(b)
    <2>1. /\ lo \in 0 .. Top /\ hi \in 0 .. Top /\ Top \in Nat /\ lo < hi
          /\ b[1] \in 0 .. Top /\ b[2] \in 0 .. Top
          /\ b[1] <= lo /\ b[2] < hi
          /\ In(b) = b[1] .. b[2] - 1
        BY <1>1, <1>2, <1>3
    <2>2. CASE lo >= b[2]
        <3>1. Higher(lo, b[2]) = lo
            BY <2>1, <2>2 DEF Higher
        <3>2. lo .. lo - 1 = {}
            BY <2>1
        <3> QED
            BY <2>1, <3>1, <3>2
    <2>3. CASE lo < b[2]
        <3>1. Higher(lo, b[2]) = b[2]
            BY <2>1, <2>3 DEF Higher
        <3>2. lo .. hi - 1 = (lo .. b[2] - 1) \cup (b[2] .. hi - 1)
            BY <2>1, <2>3
        <3> QED
            BY <2>1, <2>3, <3>1, <3>2
    <2> QED
        BY <2>1, <2>2, <2>3
<1>9. PlaceInv'
    <2>1. lo' < hi' /\ at' \in 1 .. Len(list') + 1
        BY <1>1, <1>3, <1>8
    <2>2. listed' = Members(list') \cup (lo' .. hi' - 1)
        BY <1>1, <1>2, <1>3, <1>8 DEF Members
    <2> QED
        BY <1>1, <1>3, <1>4, <1>6, <1>7, <2>1, <2>2
        DEF PlaceInv, InOrder, ApartFrom, Apart, Members
<1>10. BlocksTypeOK'
    BY <1>1, <1>3, <1>8 DEF IInv, BlocksTypeOK, trackerVars
<1> QED
    BY <1>3, <1>9, <1>10, TrackerStays DEF IInv, Place, MergeInv, DiscardInv, ListInv

LEMMA PlaceStep ==
    ASSUME IInv, Place PROVE IInv'
<1>1. CASE at <= Len(list)
    BY <1>1, ContainedStep, CoveringStep, EndingBeforeStep, BeyondStep DEF Place
<1>2. CASE ~(at <= Len(list))
    <2>1. /\ list \in Seq(Intervals) /\ lo \in 0 .. Top /\ hi \in 0 .. Top
          /\ lo < hi /\ Len(list) \in Nat /\ at \in 1 .. Len(list) + 1
        BY PlaceFacts DEF Place
    <2>2. at = Len(list) + 1
        BY <1>2, <2>1
    <2>3. <<lo, hi>> \in Intervals /\ In(<<lo, hi>>) = lo .. hi - 1
        BY <2>1, BlockMade DEF In
    <2>4. list' = InsertAt(list, at, <<lo, hi>>) /\ StartMerge /\ loop = "place"
          /\ UNCHANGED <<listed, trackerVars>>
        BY <1>2, <2>1, <2>2, <2>3, AppendInserts DEF Place
    <2>5. \A i \in 1 .. Len(list) : i >= at => <<lo, hi>>[2] <= list[i][1]
        BY <2>1, <2>2
    <2> DEFINE e == <<lo, hi>>
    <2>6. e \in Intervals /\ e[1] = lo /\ In(e) = lo .. hi - 1
        BY <2>3
    <2>7. /\ list' = InsertAt(list, at, e)
          /\ \A i \in 1 .. Len(list) : i >= at => e[2] <= list[i][1]
        BY <2>4, <2>5
    <2> HIDE DEF e
    <2> QED
        BY <2>4, <2>6, <2>7, LastInsertion
<1> QED
    BY <1>1, <1>2

\* What joining a block to the one before it returns.
Joined(s, k) == RemoveAt([s EXCEPT ![k - 1] = <<@[1], s[k][2]>>], k)

LEMMA JoinedBlocks ==
    ASSUME NEW s \in Seq(Intervals), NEW k \in 2 .. Len(s), InOrder(s)
    PROVE  /\ Joined(s, k) \in Seq(Intervals) /\ Len(Joined(s, k)) = Len(s) - 1
           /\ <<s[k - 1][1], s[k][2]>> \in Intervals
           /\ \A j \in 1 .. Len(s) - 1 :
                Joined(s, k)[j] = IF j < k - 1 THEN s[j]
                                  ELSE IF j = k - 1 THEN <<s[k - 1][1], s[k][2]>> ELSE s[j + 1]
<1> DEFINE e == <<s[k - 1][1], s[k][2]>>
           m == [s EXCEPT ![k - 1] = e]
<1>1. Len(s) \in Nat /\ k \in 1 .. Len(s) /\ k - 1 \in 1 .. Len(s)
    BY LenProperties
<1>2. e \in Intervals
    <2>1. /\ s[k - 1][1] \in 0 .. Top /\ s[k - 1][2] \in 0 .. Top
          /\ s[k][1] \in 0 .. Top /\ s[k][2] \in 0 .. Top
          /\ s[k - 1][1] < s[k - 1][2] /\ s[k][1] < s[k][2]
        BY <1>1, BlocksOf
    <2>2. s[k - 1][2] <= s[k][1]
        BY <1>1 DEF InOrder
    <2>3. s[k - 1][1] < s[k][2]
        BY <2>1, <2>2, SackAssumption, SMTT(40)
    <2> QED
        BY <2>1, <2>3, BlockMade
<1> HIDE DEF e
<1>3. /\ m \in Seq(Intervals) /\ Len(m) = Len(s)
      /\ \A j \in 1 .. Len(s) : m[j] = IF j = k - 1 THEN e ELSE s[j]
    BY <1>1, <1>2, ExceptSeq
<1>4. Joined(s, k) = RemoveAt(m, k)
    BY DEF Joined, e
<1> HIDE DEF m
<1>5. /\ RemoveAt(m, k) \in Seq(Intervals) /\ Len(RemoveAt(m, k)) = Len(s) - 1
      /\ \A j \in 1 .. Len(s) - 1 : RemoveAt(m, k)[j] = IF j < k THEN m[j] ELSE m[j + 1]
    <2>1. m \in Seq(Intervals) /\ k \in 1 .. Len(m) /\ Len(m) = Len(s)
        BY <1>1, <1>3
    <2>2. /\ RemoveAt(m, k) \in Seq(Intervals) /\ Len(RemoveAt(m, k)) = Len(m) - 1
          /\ \A j \in 1 .. Len(m) - 1 : RemoveAt(m, k)[j] = IF j < k THEN m[j] ELSE m[j + 1]
        BY <2>1, Removed
    <2> QED
        BY <2>1, <2>2
<1>6. ASSUME NEW j \in 1 .. Len(s) - 1
      PROVE  RemoveAt(m, k)[j] = IF j < k - 1 THEN s[j]
                                 ELSE IF j = k - 1 THEN e ELSE s[j + 1]
    <2>1. RemoveAt(m, k)[j] = IF j < k THEN m[j] ELSE m[j + 1]
        BY <1>5
    <2>2. j \in 1 .. Len(s) /\ j + 1 \in 1 .. Len(s)
        BY <1>1
    <2>3. m[j] = (IF j = k - 1 THEN e ELSE s[j]) /\ m[j + 1] = IF j + 1 = k - 1 THEN e ELSE s[j + 1]
        BY <1>3, <2>2
    <2> QED
        BY <1>1, <2>1, <2>3
<1> QED
    BY <1>2, <1>4, <1>5, <1>6 DEF e

LEMMA MergeStep ==
    ASSUME IInv, Merge PROVE IInv'
<1>1. /\ list \in Seq(Intervals) /\ Len(list) \in Nat /\ at \in 2 .. Len(list) + 1
      /\ InOrder(list) /\ ApartUpTo(list, at - 1) /\ listed = Members(list)
    BY LenProperties DEF IInv, BlocksTypeOK, Merge, MergeInv
<1>2. loop = "merge" /\ UNCHANGED <<listed, trackerVars, lo, hi>>
    BY DEF Merge
<1>3. \A i \in 1 .. Len(list) : /\ list[i][1] \in Int /\ list[i][2] \in Int
                                /\ list[i][1] < list[i][2]
                                /\ In(list[i]) = list[i][1] .. list[i][2] - 1
    BY <1>1, BlocksOf, SackAssumption
<1>4. CASE at > Len(list)
    <2>1. Apart(list)
        BY <1>1, <1>4 DEF ApartUpTo, Apart
    <2>2. loop' = "none" /\ UNCHANGED <<list, at>>
        BY <1>4 DEF Merge
    <2>3. ListInv'
        BY <1>1, <1>2, <2>1, <2>2 DEF ListInv, Members
    <2>4. BlocksTypeOK'
        BY <1>2, <2>2 DEF IInv, BlocksTypeOK, trackerVars
    <2> QED
        BY <1>2, <2>2, <2>3, <2>4, TrackerStays DEF IInv, PlaceInv, MergeInv, DiscardInv
<1>5. CASE at <= Len(list) /\ ~Touching(list[at - 1], list[at])
    <2>1. at' = at + 1 /\ UNCHANGED <<list, loop>>
        BY <1>1, <1>5 DEF Merge
    <2>2. list[at - 1][2] < list[at][1]
        <3>1. at - 1 \in 1 .. Len(list) /\ at \in 1 .. Len(list) /\ at - 1 < at
            BY <1>1, <1>5
        <3>2. list[at - 1][2] <= list[at][1] /\ list[at - 1][2] # list[at][1]
            BY <1>1, <1>5, <3>1 DEF InOrder, Touching
        <3> QED
            BY <1>3, <3>1, <3>2
    <2>3. ApartUpTo(list, at)
        <3> SUFFICES ASSUME NEW i \in 1 .. Len(list), NEW j \in 1 .. Len(list), i < j, j <= at
                     PROVE  list[i][2] < list[j][1]
            BY DEF ApartUpTo
        <3>1. CASE j < at
            BY <1>1, <3>1 DEF ApartUpTo
        <3>2. CASE j = at /\ i = at - 1
            BY <2>2, <3>2
        <3>3. CASE j = at /\ i < at - 1
            <4>1. at - 1 \in 1 .. Len(list)
                BY <1>1, <1>5
            <4>2. list[i][2] < list[at - 1][1]
                BY <1>1, <3>3, <4>1 DEF ApartUpTo
            <4> QED
                BY <1>3, <2>2, <3>3, <4>1, <4>2, SMTT(40)
        <3> QED
            BY <1>1, <3>1, <3>2, <3>3
    <2>4. at' \in 2 .. Len(list) + 1 /\ at' \in Nat /\ at' - 1 = at
        BY <1>1, <1>5, <2>1
    <2>5. MergeInv'
        BY <1>1, <1>2, <2>1, <2>3, <2>4 DEF MergeInv, InOrder, ApartUpTo, Members
    <2>6. BlocksTypeOK'
        BY <1>2, <2>1, <2>4 DEF IInv, BlocksTypeOK, trackerVars
    <2> QED
        BY <1>2, <2>1, <2>5, <2>6, TrackerStays DEF IInv, PlaceInv, ListInv, DiscardInv
<1>6. CASE at <= Len(list) /\ Touching(list[at - 1], list[at])
    <2> DEFINE e == <<list[at - 1][1], list[at][2]>>
    <2>1. list' = Joined(list, at) /\ UNCHANGED <<at, loop>>
        BY <1>1, <1>6 DEF Merge, Joined
    <2>2. at \in 2 .. Len(list) /\ at \in 1 .. Len(list) /\ at - 1 \in 1 .. Len(list)
        BY <1>1, <1>6
    <2>3. /\ list' \in Seq(Intervals) /\ Len(list') = Len(list) - 1
          /\ e \in Intervals
          /\ \A j \in 1 .. Len(list) - 1 :
                list'[j] = IF j < at - 1 THEN list[j] ELSE IF j = at - 1 THEN e ELSE list[j + 1]
        BY <1>1, <2>1, <2>2, JoinedBlocks
    <2>4. e[1] = list[at - 1][1] /\ e[2] = list[at][2] /\ list[at - 1][2] = list[at][1]
        BY <1>6 DEF Touching
    <2> HIDE DEF e
    <2> DEFINE from(j) == IF j >= at THEN j + 1 ELSE j
               to(j)   == IF j >= at - 1 THEN j + 1 ELSE j
    <2>5. \A j \in 1 .. Len(list) - 1 :
            /\ from(j) \in 1 .. Len(list) /\ to(j) \in 1 .. Len(list)
            /\ list'[j][1] = list[from(j)][1] /\ list'[j][2] = list[to(j)][2]
        <3> SUFFICES ASSUME NEW j \in 1 .. Len(list) - 1
                     PROVE  /\ from(j) \in 1 .. Len(list) /\ to(j) \in 1 .. Len(list)
                            /\ list'[j][1] = list[from(j)][1] /\ list'[j][2] = list[to(j)][2]
            OBVIOUS
        <3>1. CASE j < at - 1
            BY <1>1, <2>2, <2>3, <3>1
        <3>2. CASE j = at - 1
            BY <1>1, <2>2, <2>3, <2>4, <3>2
        <3>3. CASE j > at - 1
            <4>1. ~(j < at - 1) /\ j # at - 1 /\ from(j) = j + 1 /\ to(j) = j + 1
                BY <1>1, <3>3
            <4>2. list'[j] = list[j + 1] /\ j + 1 \in 1 .. Len(list)
                BY <1>1, <2>3, <4>1
            <4> QED
                BY <4>1, <4>2
        <3> QED
            BY <1>1, <3>1, <3>2, <3>3
    <2>6. \A i, j \in 1 .. Len(list) - 1 : i < j => to(i) < from(j)
        BY <1>1
    <2>7. InOrder(list')
        <3> SUFFICES ASSUME NEW i \in 1 .. Len(list) - 1, NEW j \in 1 .. Len(list) - 1, i < j
                     PROVE  list'[i][2] <= list'[j][1]
            BY <1>1, <2>3 DEF InOrder
        <3> HIDE DEF from, to
        <3> QED
            BY <1>1, <2>5, <2>6 DEF InOrder
    <2>8. ApartUpTo(list', at - 1)
        <3> SUFFICES ASSUME NEW i \in 1 .. Len(list) - 1, NEW j \in 1 .. Len(list) - 1,
                            i < j, j <= at - 1
                     PROVE  list'[i][2] < list'[j][1]
            BY <1>1, <2>3 DEF ApartUpTo
        <3>1. to(i) = i /\ from(j) = j
            BY <1>1
        <3>2. list'[i][2] = list[i][2] /\ list'[j][1] = list[j][1]
            BY <2>5, <3>1
        <3>3. i \in 1 .. Len(list) /\ j \in 1 .. Len(list)
            BY <1>1
        <3> QED
            BY <1>1, <3>2, <3>3 DEF ApartUpTo
    <2>9. Members(list') = Members(list)
        <3>1. In(e) = In(list[at - 1]) \cup In(list[at])
            <4>1. In(e) = e[1] .. e[2] - 1
                BY DEF In
            <4> QED
                BY <1>3, <2>2, <2>4, <4>1, SMTT(40)
        <3>2. ASSUME NEW n, n \in Members(list') PROVE n \in Members(list)
            <4>1. PICK j \in 1 .. Len(list) - 1 : n \in In(list'[j])
                BY <2>3, <3>2, MemberOf
            <4>2. \E i \in 1 .. Len(list) : n \in In(list[i])
                <5>1. CASE j < at - 1
                    BY <1>1, <2>2, <2>3, <4>1, <5>1, SMTT(40)
                <5>2. CASE j = at - 1
                    BY <2>2, <2>3, <3>1, <4>1, <5>2
                <5>3. CASE j > at - 1
                    <6>1. j + 1 \in 1 .. Len(list) /\ list'[j] = list[j + 1]
                        BY <1>1, <2>2, <2>3, <5>3
                    <6> QED
                        BY <4>1, <6>1
                <5> QED
                    BY <1>1, <5>1, <5>2, <5>3
            <4> QED
                BY <1>1, <4>2, MemberOf
        <3>3. ASSUME NEW n, n \in Members(list) PROVE n \in Members(list')
            <4>1. PICK j \in 1 .. Len(list) : n \in In(list[j])
                BY <1>1, <3>3, MemberOf
            <4>2. \E i \in 1 .. Len(list) - 1 : n \in In(list'[i])
                <5>1. CASE j < at - 1
                    <6>1. j \in 1 .. Len(list) - 1 /\ list'[j] = list[j]
                        BY <1>1, <2>2, <2>3, <5>1
                    <6> QED
                        BY <4>1, <6>1
                <5>2. CASE j = at - 1 \/ j = at
                    <6>1. at - 1 \in 1 .. Len(list) - 1 /\ list'[at - 1] = e
                        BY <1>1, <2>2, <2>3
                    <6>2. n \in In(e)
                        BY <3>1, <4>1, <5>2
                    <6> QED
                        BY <6>1, <6>2
                <5>3. CASE j > at
                    <6>1. j - 1 \in 1 .. Len(list) - 1 /\ list'[j - 1] = list[j]
                        BY <1>1, <2>2, <2>3, <5>3
                    <6> QED
                        BY <4>1, <6>1
                <5> QED
                    BY <1>1, <5>1, <5>2, <5>3
            <4> QED
                BY <2>3, <4>2, MemberOf
        <3> QED
            BY <3>2, <3>3
    <2>10. at' \in 2 .. Len(list') + 1
        BY <1>1, <2>1, <2>2, <2>3
    <2>11. MergeInv'
        BY <1>1, <1>2, <2>1, <2>7, <2>8, <2>9, <2>10 DEF MergeInv, InOrder, ApartUpTo, Members
    <2>12. BlocksTypeOK'
        BY <1>2, <2>1, <2>3 DEF IInv, BlocksTypeOK, trackerVars
    <2> QED
        BY <1>2, <2>1, <2>11, <2>12, TrackerStays DEF IInv, PlaceInv, ListInv, DiscardInv
<1> QED
    BY <1>1, <1>4, <1>5, <1>6

-------------------------------------------------------------------------------
(* The steps of discardUpTo.                                               *)

LEMMA DiscardUpToStep ==
    ASSUME IInv, NEW n \in 0 .. Top, StartDiscard(n)
    PROVE  IInv'
<1>1. Apart(list) /\ listed = Members(list)
    BY DEF IInv, ListInv, StartDiscard
<1>2. /\ loop = "none" /\ loop' = "discard" /\ lo' = n
      /\ listed' = {m \in listed : m >= n} /\ UNCHANGED <<list, trackerVars, at, hi>>
    BY DEF StartDiscard
<1>3. DiscardInv'
    BY <1>1, <1>2 DEF DiscardInv, Apart, Members
<1>4. BlocksTypeOK'
    BY <1>2 DEF IInv, BlocksTypeOK, trackerVars
<1> QED
    BY <1>2, <1>3, <1>4, TrackerStays DEF IInv, PlaceInv, MergeInv, ListInv

LEMMA DiscardStep ==
    ASSUME IInv, Discard PROVE IInv'
<1>1. /\ list \in Seq(Intervals) /\ Len(list) \in Nat /\ lo \in 0 .. Top /\ Top \in Nat
      /\ Apart(list) /\ listed = {m \in Members(list) : m >= lo}
    BY LenProperties, SackAssumption DEF IInv, BlocksTypeOK, Discard, DiscardInv
<1>2. loop = "discard" /\ UNCHANGED <<listed, trackerVars, at, lo, hi>>
    BY DEF Discard
<1>3. \A i \in 1 .. Len(list) : /\ list[i][1] \in 0 .. Top /\ list[i][2] \in 0 .. Top
                                /\ list[i][1] < list[i][2]
                                /\ In(list[i]) = list[i][1] .. list[i][2] - 1
    BY <1>1, BlocksOf
<1>4. CASE list # <<>> /\ list[1][2] <= lo
    <2>1. list' = Tail(list) /\ loop' = "discard"
        BY <1>2, <1>4 DEF Discard
    <2>2. /\ list' \in Seq(Intervals) /\ Len(list) \in Nat \ {0} /\ Len(list') = Len(list) - 1
          /\ \A i \in 1 .. Len(list) - 1 : list'[i] = list[i + 1]
        BY <1>1, <1>4, <2>1, HeadTailProperties, EmptySeq
    <2>3. Apart(list')
        <3> SUFFICES ASSUME NEW i \in 1 .. Len(list) - 1, NEW j \in 1 .. Len(list) - 1, i < j
                     PROVE  list'[i][2] < list'[j][1]
            BY <2>2 DEF Apart
        <3>1. i + 1 \in 1 .. Len(list) /\ j + 1 \in 1 .. Len(list) /\ i + 1 < j + 1
            BY <1>1
        <3> QED
            BY <1>1, <2>2, <3>1 DEF Apart
    <2>4. ASSUME NEW n, n \in Members(list') PROVE n \in Members(list)
        <3>1. PICK i \in 1 .. Len(list) - 1 : n \in In(list'[i])
            BY <2>2, <2>4, MemberOf
        <3>2. i + 1 \in 1 .. Len(list) /\ n \in In(list[i + 1])
            BY <1>1, <2>2, <3>1
        <3> QED
            BY <1>1, <3>2, MemberOf
    <2>5. ASSUME NEW n, n \in Members(list), n >= lo PROVE n \in Members(list')
        <3>1. PICK i \in 1 .. Len(list) : n \in In(list[i])
            BY <1>1, <2>5, MemberOf
        <3>2. i # 1
            <4>1. ASSUME i = 1 PROVE FALSE
                <5>1. n \in Int /\ n < list[1][2]
                    BY <1>3, <3>1, <4>1
                <5> QED
                    BY <1>1, <1>3, <1>4, <2>2, <2>5, <5>1
            <4> QED
                BY <4>1
        <3>3. i - 1 \in 1 .. Len(list) - 1 /\ list'[i - 1] = list[i]
            BY <1>1, <2>2, <3>2
        <3> QED
            BY <2>2, <3>1, <3>3, MemberOf
    <2>6. listed' = {m \in Members(list') : m >= lo'}
        BY <1>1, <1>2, <2>4, <2>5
    <2>7. DiscardInv'
        BY <2>3, <2>6 DEF DiscardInv, Apart, Members
    <2>8. BlocksTypeOK'
        BY <1>2, <2>1, <2>2 DEF IInv, BlocksTypeOK, trackerVars
    <2> QED
        BY <1>2, <2>1, <2>7, <2>8, TrackerStays DEF IInv, PlaceInv, MergeInv, ListInv
<1>5. CASE list = <<>>
    <2>1. loop' = "none" /\ UNCHANGED list
        BY <1>5 DEF Discard
    <2>2. Members(list) = {}
        BY <1>5 DEF Members, Union, ToSet
    <2>3. ListInv'
        BY <1>1, <1>2, <2>1, <2>2 DEF ListInv, Apart, Members
    <2>4. BlocksTypeOK'
        BY <1>2, <2>1 DEF IInv, BlocksTypeOK, trackerVars
    <2> QED
        BY <1>2, <2>1, <2>3, <2>4, TrackerStays DEF IInv, PlaceInv, MergeInv, DiscardInv
<1>6. CASE list # <<>> /\ ~(list[1][2] <= lo)
    <2> DEFINE e == <<Higher(list[1][1], lo), list[1][2]>>
    <2>1. loop' = "none" /\ list' = [list EXCEPT ![1] = e]
        BY <1>6 DEF Discard, Cut
    <2>2. 1 \in 1 .. Len(list)
        BY <1>1, <1>6, EmptySeq
    <2>3. lo < list[1][2] /\ list[1][1] < list[1][2]
        BY <1>1, <1>3, <1>6, <2>2
    <2>4. /\ Higher(list[1][1], lo) \in 0 .. Top /\ Higher(list[1][1], lo) < list[1][2]
          /\ list[1][1] <= Higher(list[1][1], lo) /\ lo <= Higher(list[1][1], lo)
          /\ \A n \in Int : n >= list[1][1] /\ n >= lo <=> n >= Higher(list[1][1], lo)
        BY <1>1, <1>3, <2>2, <2>3 DEF Higher
    <2>5. /\ e \in Intervals /\ e[1] = Higher(list[1][1], lo) /\ e[2] = list[1][2]
          /\ In(e) = e[1] .. e[2] - 1
        BY <1>3, <2>2, <2>4, BlockMade DEF In
    <2> HIDE DEF e
    <2>6. /\ list' \in Seq(Intervals) /\ Len(list') = Len(list)
          /\ \A i \in 1 .. Len(list) : list'[i] = IF i = 1 THEN e ELSE list[i]
        BY <1>1, <2>1, <2>2, <2>5, ExceptSeq
    <2>7. Apart(list')
        <3> SUFFICES ASSUME NEW i \in 1 .. Len(list), NEW j \in 1 .. Len(list), i < j
                     PROVE  list'[i][2] < list'[j][1]
            BY <2>6 DEF Apart
        <3>1. list'[i][2] = list[i][2] /\ list'[j][1] = list[j][1]
            BY <2>5, <2>6
        <3> QED
            BY <1>1, <3>1 DEF Apart
    <2>8. ASSUME NEW i \in 1 .. Len(list), NEW n
          PROVE  n \in In(list'[i]) <=> n \in In(list[i]) /\ n >= lo
        <3>1. CASE i = 1
            <4>1. In(list[1]) = list[1][1] .. list[1][2] - 1
                BY <1>3, <2>2
            <4>2. list'[i] = e
                BY <2>6, <3>1
            <4>3. list[1][1] \in Int /\ list[1][2] \in Int /\ lo \in Int /\ e[1] \in Int
                BY <1>1, <1>3, <2>2, <2>4, <2>5
            <4>4. n \in In(e) <=> n \in Int /\ n >= e[1] /\ n < list[1][2]
                BY <2>5, <4>3
            <4>5. n \in In(list[1]) <=> n \in Int /\ n >= list[1][1] /\ n < list[1][2]
                BY <4>1, <4>3
            <4> QED
                BY <2>4, <2>5, <3>1, <4>2, <4>4, <4>5
        <3>2. CASE i # 1
            <4>1. list'[i] = list[i]
                BY <2>6, <3>2
            <4>2. list[1][2] < list[i][1]
                BY <1>1, <2>2, <3>2 DEF Apart
            <4>3. lo < list[i][1]
                BY <1>1, <1>3, <2>2, <2>3, <4>2
            <4>4. n \in In(list[i]) => n >= lo
                BY <1>1, <1>3, <4>3
            <4> QED
                BY <4>1, <4>4
        <3> QED
            BY <3>1, <3>2
    <2>9. listed' = Members(list')
        <3>1. ASSUME NEW n PROVE n \in Members(list') <=> n \in Members(list) /\ n >= lo
            <4>1. n \in Members(list') <=> \E i \in 1 .. Len(list) : n \in In(list'[i])
                BY <2>6, MemberOf
            <4>2. n \in Members(list) <=> \E i \in 1 .. Len(list) : n \in In(list[i])
                BY <1>1, MemberOf
            <4> QED
                BY <2>8, <4>1, <4>2
        <3> QED
            BY <1>1, <1>2, <3>1
    <2>10. ListInv'
        BY <2>7, <2>9 DEF ListInv, Apart, Members
    <2>11. BlocksTypeOK'
        BY <1>2, <2>1, <2>6 DEF IInv, BlocksTypeOK, trackerVars
    <2> QED
        BY <1>2, <2>1, <2>10, <2>11, TrackerStays DEF IInv, PlaceInv, MergeInv, DiscardInv
<1> QED
    BY <1>4, <1>5, <1>6

-------------------------------------------------------------------------------
(* The steps of Insert.                                                    *)

\* A step of the tracker leaves the invariant of the list alone.
LEMMA ListStays ==
    ASSUME IInv, UNCHANGED listVars, loop \in {"none", "absorb"}, loop' \in {"none", "absorb"}
    PROVE  PlaceInv' /\ MergeInv' /\ DiscardInv' /\ ListInv'
    BY DEF IInv, PlaceInv, MergeInv, DiscardInv, ListInv, Apart, Members, listVars

LEMMA InsertStep ==
    ASSUME IInv, NEW b \in Intervals, Insert(b)
    PROVE  IInv'
<1>1. /\ loop = "none" /\ loop' = "absorb" /\ lo' = b[1] /\ hi' = b[2]
      /\ todo' = FromLowerBound(b[1]) /\ tracked' = tracked \cup In(b)
      /\ UNCHANGED <<listVars, blocks, at>>
    BY DEF Insert
<1>2. blocks \in SUBSET Intervals /\ Separate(blocks) /\ tracked = Union(blocks)
      /\ tracked \in SUBSET (0 .. Top - 1)
    BY <1>1 DEF IInv, BlocksTypeOK, TrackerInv
<1>3. \A c \in blocks : c[1] \in 0 .. Top /\ c[2] \in 0 .. Top /\ c[1] < c[2]
    BY <1>2, BlockParts
<1>4. b[1] \in 0 .. Top /\ b[2] \in 0 .. Top /\ b[1] < b[2] /\ In(b) = b[1] .. b[2] - 1
    BY BlockParts DEF In
<1>5. ASSUME NEW c \in blocks \ todo'
      PROVE  c[2] < b[1] /\ \A d \in todo' : c[2] < d[1]
    <2>1. PICK d \in blocks : c[1] < d[1] /\ d[1] < b[1]
        BY <1>1, <1>5 DEF FromLowerBound
    <2>2. c[2] < d[1]
        <3>1. c[2] < d[1] \/ d[2] < c[1] \/ c = d
            BY <1>2, <1>3, <2>1 DEF Separate
        <3>2. c # d
            BY <1>3, <2>1
        <3>3. ~(d[2] < c[1])
            BY <1>3, <2>1, SackAssumption
        <3> QED
            BY <3>1, <3>2, <3>3
    <2>3. c[2] < b[1]
        BY <1>3, <1>4, <2>1, <2>2, SackAssumption
    <2>4. ASSUME NEW f \in todo' PROVE c[2] < f[1]
        <3>1. f \in blocks /\ ~(f[1] < d[1] /\ d[1] < b[1])
            BY <1>1, <2>1 DEF FromLowerBound
        <3>2. c[2] < f[1] \/ f[2] < c[1] \/ c = f
            BY <1>2, <3>1 DEF Separate
        <3>3. f[1] >= d[1]
            BY <1>3, <2>1, <3>1, SackAssumption
        <3> QED
            BY <1>3, <2>2, <3>1, <3>3, SackAssumption
    <2> QED
        BY <2>3, <2>4
<1>6. AbsorbInv' /\ TrackerInv'
    BY <1>1, <1>2, <1>4, <1>5 DEF AbsorbInv, TrackerInv, Separate, Union
<1>7. BlocksTypeOK'
    <2>1. In(b) \in SUBSET (0 .. Top - 1)
        BY <1>4, SackAssumption
    <2>2. todo' \in SUBSET blocks
        BY <1>1 DEF FromLowerBound
    <2> QED
        BY <1>1, <1>2, <1>4, <2>1, <2>2 DEF IInv, BlocksTypeOK, listVars
<1> QED
    BY <1>1, <1>6, <1>7, ListStays DEF IInv

\* What holds while the growing block takes over others.
LEMMA AbsorbFacts ==
    ASSUME IInv, loop = "absorb"
    PROVE  /\ lo \in 0 .. Top /\ hi \in 0 .. Top /\ Top \in Nat /\ lo < hi
           /\ blocks \in SUBSET Intervals /\ todo \in SUBSET blocks
           /\ tracked \in SUBSET (0 .. Top - 1) /\ Separate(blocks)
           /\ \A b \in blocks : /\ b[1] \in 0 .. Top /\ b[2] \in 0 .. Top /\ b[1] < b[2]
                                 /\ In(b) = b[1] .. b[2] - 1
           /\ \A b \in blocks \ todo : b[2] < lo /\ \A c \in todo : b[2] < c[1]
           /\ tracked = Union(blocks) \cup (lo .. hi - 1)
<1>1. /\ lo \in 0 .. Top /\ hi \in 0 .. Top
      /\ blocks \in SUBSET Intervals /\ todo \in SUBSET blocks
      /\ tracked \in SUBSET (0 .. Top - 1)
    BY DEF IInv, BlocksTypeOK
<1>2. \A b \in blocks : /\ b[1] \in 0 .. Top /\ b[2] \in 0 .. Top /\ b[1] < b[2]
                         /\ In(b) = b[1] .. b[2] - 1
    BY <1>1, BlockParts DEF In
<1> QED
    BY <1>1, <1>2, SackAssumption DEF IInv, AbsorbInv, TrackerInv

LEMMA InsertGrownStep ==
    ASSUME IInv, loop = "absorb", \A b \in todo : hi < b[1],
           InsertGrown, UNCHANGED <<listVars, tracked, at>>
    PROVE  IInv'
<1> DEFINE e == <<lo, hi>>
<1>1. /\ lo \in 0 .. Top /\ hi \in 0 .. Top /\ Top \in Nat /\ lo < hi
      /\ blocks \in SUBSET Intervals /\ tracked \in SUBSET (0 .. Top - 1) /\ Separate(blocks)
      /\ \A b \in blocks \ todo : b[2] < lo
      /\ tracked = Union(blocks) \cup (lo .. hi - 1)
    BY AbsorbFacts
<1>2. e \in Intervals /\ e[1] = lo /\ e[2] = hi /\ In(e) = lo .. hi - 1
    BY <1>1, BlockMade DEF In
<1>3. /\ blocks' = blocks \cup {e} /\ todo' = {} /\ loop' = "none"
      /\ UNCHANGED <<lo, hi, listVars, tracked, at>>
    BY DEF InsertGrown
<1> HIDE DEF e
<1>4. \A b \in blocks : b[2] < e[1] \/ e[2] < b[1]
    BY <1>1, <1>2
<1>5. Separate(blocks')
    BY <1>1, <1>3, <1>4 DEF Separate
<1>6. tracked' = Union(blocks')
    BY <1>1, <1>2, <1>3 DEF Union
<1>7. BlocksTypeOK'
    BY <1>1, <1>2, <1>3 DEF IInv, BlocksTypeOK, listVars
<1> QED
    BY <1>3, <1>5, <1>6, <1>7, ListStays DEF IInv, AbsorbInv, TrackerInv, Separate, Union

LEMMA AbsorbStep ==
    ASSUME IInv, loop = "absorb", NEW b \in todo, \A c \in todo : b[1] <= c[1],
           ~(b[1] > hi), Absorb(b), UNCHANGED <<listVars, tracked, at>>
    PROVE  IInv'
<1>1. /\ lo \in 0 .. Top /\ hi \in 0 .. Top /\ Top \in Nat /\ lo < hi
      /\ blocks \in SUBSET Intervals /\ todo \in SUBSET blocks
      /\ tracked \in SUBSET (0 .. Top - 1) /\ Separate(blocks)
      /\ \A c \in blocks : /\ c[1] \in 0 .. Top /\ c[2] \in 0 .. Top /\ c[1] < c[2]
                            /\ In(c) = c[1] .. c[2] - 1
      /\ \A c \in blocks \ todo : c[2] < lo /\ \A d \in todo : c[2] < d[1]
      /\ tracked = Union(blocks) \cup (lo .. hi - 1)
    BY AbsorbFacts
<1>2. todo' = todo \ {b} /\ loop' = loop /\ UNCHANGED <<listVars, tracked, at>>
    BY DEF Absorb
<1>3. CASE b[2] < lo
    <2>1. UNCHANGED <<blocks, lo, hi>>
        BY <1>3 DEF Absorb
    <2>2. ASSUME NEW d \in todo' PROVE b[2] < d[1]
        <3>1. d \in blocks /\ b \in blocks /\ d # b /\ b[1] <= d[1]
            BY <1>1, <1>2
        <3>2. b[2] < d[1] \/ d[2] < b[1]
            BY <1>1, <3>1 DEF Separate
        <3> QED
            BY <1>1, <3>1, <3>2
    <2>3. \A c \in blocks' \ todo' : c[2] < lo' /\ \A d \in todo' : c[2] < d[1]
        BY <1>1, <1>2, <1>3, <2>1, <2>2
    <2>4. AbsorbInv' /\ TrackerInv'
        BY <1>1, <1>2, <2>1, <2>3 DEF AbsorbInv, TrackerInv, Separate, Union
    <2>5. BlocksTypeOK'
        BY <1>1, <1>2, <2>1 DEF IInv, BlocksTypeOK, listVars
    <2> QED
        BY <1>2, <2>4, <2>5, ListStays DEF IInv
<1>4. CASE ~(b[2] < lo)
    <2>1. blocks' = blocks \ {b} /\ lo' = Lower(lo, b[1]) /\ hi' = Higher(hi, b[2])
        BY <1>4 DEF Absorb, Grown
    <2>2. /\ b \in blocks /\ b[1] \in 0 .. Top /\ b[2] \in 0 .. Top /\ b[1] < b[2]
          /\ b[1] <= hi /\ lo <= b[2] /\ In(b) = b[1] .. b[2] - 1
        BY <1>1, <1>4
    <2>3. /\ Lower(lo, b[1]) \in 0 .. Top /\ Higher(hi, b[2]) \in 0 .. Top
          /\ Lower(lo, b[1]) < Higher(hi, b[2])
          /\ \A n \in Int : n < lo /\ n < b[1] => n < Lower(lo, b[1])
          /\ (Lower(lo, b[1]) .. Higher(hi, b[2]) - 1) = (lo .. hi - 1) \cup (b[1] .. b[2] - 1)
        BY <1>1, <2>2, SMTT(40) DEF Lower, Higher
    <2>4. \A c \in blocks' \ todo' : c[2] < lo' /\ \A d \in todo' : c[2] < d[1]
        <3> SUFFICES ASSUME NEW c \in blocks' \ todo'
                     PROVE  c[2] < lo' /\ \A d \in todo' : c[2] < d[1]
            OBVIOUS
        <3>1. c \in blocks \ todo
            BY <1>2, <2>1
        <3>2. c[2] < lo /\ c[2] < b[1] /\ \A d \in todo' : c[2] < d[1]
            BY <1>1, <1>2, <3>1
        <3>3. c[2] \in Int
            BY <1>1, <3>1
        <3> QED
            BY <2>1, <2>3, <3>2, <3>3
    <2>5. Union(blocks) = Union(blocks') \cup In(b)
        BY <2>1, <2>2 DEF Union
    <2>6. tracked' = Union(blocks') \cup (lo' .. hi' - 1)
        BY <1>1, <1>2, <2>1, <2>2, <2>3, <2>5
    <2>7. Separate(blocks')
        BY <1>1, <2>1 DEF Separate
    <2>8. AbsorbInv' /\ TrackerInv'
        BY <1>2, <2>1, <2>3, <2>4, <2>6, <2>7 DEF AbsorbInv, TrackerInv, Separate, Union
    <2>9. BlocksTypeOK'
        BY <1>1, <1>2, <2>1, <2>3 DEF IInv, BlocksTypeOK, listVars
    <2> QED
        BY <1>2, <2>8, <2>9, ListStays DEF IInv
<1> QED
    BY <1>3, <1>4

LEMMA AbsorbNextStep ==
    ASSUME IInv, AbsorbNext PROVE IInv'
<1>1. loop = "absorb" /\ UNCHANGED <<listVars, tracked, at>>
    BY DEF AbsorbNext
<1>2. CASE todo = {} /\ InsertGrown
    BY <1>1, <1>2, InsertGrownStep
<1>3. ASSUME NEW b \in todo, \A c \in todo : b[1] <= c[1],
             IF b[1] > hi THEN InsertGrown ELSE Absorb(b)
      PROVE  IInv'
    <2>1. CASE b[1] > hi
        <3>1. /\ hi \in Int /\ todo \in SUBSET blocks
              /\ \A c \in blocks : c[1] \in 0 .. Top
            BY <1>1, AbsorbFacts
        <3>2. \A c \in todo : hi < c[1]
            BY <1>3, <2>1, <3>1
        <3> QED
            BY <1>1, <1>3, <2>1, <3>2, InsertGrownStep
    <2>2. CASE ~(b[1] > hi)
        BY <1>1, <1>3, <2>2, AbsorbStep
    <2> QED
        BY <2>1, <2>2
<1> QED
    BY <1>2, <1>3 DEF AbsorbNext

-------------------------------------------------------------------------------
(* The invariant holds, and what it implies.                               *)

LEMMA IInvStep == IInv /\ [BlocksNext]_blockVars => IInv'
<1> SUFFICES ASSUME IInv, [BlocksNext]_blockVars PROVE IInv'
    OBVIOUS
<1>1. CASE UNCHANGED blockVars
    BY <1>1 DEF IInv, BlocksTypeOK, PlaceInv, MergeInv, DiscardInv, ListInv, AbsorbInv, TrackerInv,
                InOrder, ApartFrom, ApartUpTo, Apart, Members, Separate, Union,
                blockVars, listVars, trackerVars, loopVars
<1>2. CASE BlocksNext
    BY <1>2, SackStep, InsertStep, DiscardUpToStep, PlaceStep, MergeStep, DiscardStep,
       AbsorbNextStep DEF BlocksNext
<1> QED
    BY <1>1, <1>2

LEMMA Invariance == BlocksSpec => []IInv
    BY IInvInit, IInvStep, PTL DEF BlocksSpec

\* The number after a block is in no block.
LEMMA GapAfter ==
    ASSUME NEW s \in Seq(Intervals), Apart(s), NEW i \in 1 .. Len(s)
    PROVE  s[i][2] \notin Members(s)
<1> SUFFICES ASSUME NEW j \in 1 .. Len(s), s[i][2] \in In(s[j]) PROVE FALSE
    BY MemberOf
<1>1. /\ Len(s) \in Nat
      /\ \A k \in 1 .. Len(s) : s[k][1] \in Int /\ s[k][2] \in Int /\ s[k][1] < s[k][2]
    BY BlocksOf, SackAssumption
<1>2. s[j][1] <= s[i][2] /\ s[i][2] < s[j][2]
    BY <1>1, BlocksOf
<1>3. CASE i < j
    BY <1>1, <1>2, <1>3 DEF Apart
<1>4. CASE j < i
    <2>1. s[j][2] < s[i][1]
        BY <1>4 DEF Apart
    <2> QED
        BY <1>1, <1>2, <2>1
<1>5. CASE i = j
    BY <1>1, <1>2, <1>5
<1> QED
    BY <1>1, <1>3, <1>4, <1>5

\* The variables stay within the numbers that blocks are made of, the
\* iterators within the containers.
THEOREM TypeCorrect == BlocksSpec => []BlocksTypeOK
<1>1. IInv => BlocksTypeOK
    BY DEF IInv
<1> QED
    BY <1>1, Invariance, PTL

\* IrnSackManager: between two calls of sack and discardUpTo the list is
\* sorted, no block is empty or touches the next, and it holds exactly the
\* numbers that were put in and not discarded.
THEOREM ListCorrect == BlocksSpec => []ListIsSet
<1>1. IInv => ListIsSet
    <2> SUFFICES ASSUME IInv, loop = "none" PROVE ListIsSet
        BY DEF ListIsSet
    <2>1. Apart(list) /\ listed = Members(list) /\ Len(list) \in Nat
        BY LenProperties DEF IInv, ListInv, BlocksTypeOK
    <2>2. ASSUME NEW i \in 1 .. Len(list) - 1 PROVE list[i][2] < list[i + 1][1]
        <3>1. i \in 1 .. Len(list) /\ i + 1 \in 1 .. Len(list) /\ i < i + 1
            BY <2>1
        <3> QED
            BY <2>1, <3>1 DEF Apart
    <2> QED
        BY <2>1, <2>2 DEF ListIsSet, Members
<1> QED
    BY <1>1, Invariance, PTL

\* RecvBlockTracker: between two calls of Insert the blocks are disjoint, do
\* not touch, and hold exactly the numbers that were inserted.
THEOREM TrackerCorrect == BlocksSpec => []TrackerIsSet
<1>1. IInv => TrackerIsSet
    BY DEF IInv, TrackerInv, TrackerIsSet, Separate
<1> QED
    BY <1>1, Invariance, PTL

\* The two assertions of IrnSackManager::sack never fail.
THEOREM AssertionsHold == BlocksSpec => []SackAssertions
<1>1. IInv => SackAssertions
    <2> SUFFICES ASSUME IInv, loop = "merge" PROVE SackAssertions
        BY DEF SackAssertions
    <2>1. at \in 2 .. Len(list) + 1 /\ InOrder(list) /\ Len(list) \in Nat
        BY LenProperties DEF IInv, MergeInv, BlocksTypeOK
    <2>2. list # <<>>
        BY <2>1
    <2>3. ASSUME at <= Len(list) PROVE list[at - 1][2] <= list[at][1]
        <3>1. at - 1 \in 1 .. Len(list) /\ at \in 1 .. Len(list) /\ at - 1 < at
            BY <2>1, <2>3
        <3> QED
            BY <2>1, <3>1 DEF InOrder
    <2> QED
        BY <2>2, <2>3 DEF SackAssertions
<1> QED
    BY <1>1, Invariance, PTL

\* peekFrontBlock returns the first run of consecutive numbers, blockExists
\* tells whether all numbers of a block are held.
THEOREM QueriesCorrect == BlocksSpec => []QueriesAgree
<1>1. IInv => QueriesAgree
    <2> SUFFICES ASSUME IInv, loop = "none" PROVE QueriesAgree
        BY DEF QueriesAgree
    <2>1. list \in Seq(Intervals) /\ Apart(list) /\ listed = Members(list)
        BY DEF IInv, ListInv, BlocksTypeOK
    <2>2. /\ Len(list) \in Nat
          /\ \A i \in 1 .. Len(list) : /\ list[i][1] \in Int /\ list[i][2] \in Int
                                       /\ list[i][1] < list[i][2]
                                       /\ In(list[i]) = list[i][1] .. list[i][2] - 1
                                       /\ In(list[i]) \subseteq listed
        BY <2>1, BlocksOf, MemberOf, SackAssumption
    <2>3. \A i \in 1 .. Len(list) : list[i][2] \notin listed
        BY <2>1, GapAfter
    <2>4. listed \in SUBSET Int
        BY SackAssumption DEF IInv, BlocksTypeOK
    <2> DEFINE Run == {n \in listed : \A m \in listed : m < n => (m .. n) \subseteq listed}
    <2>5. In(FrontBlock) = Run
        <3>1. CASE list = <<>>
            <4>1. listed = {} /\ In(FrontBlock) = {}
                BY <2>1, <3>1 DEF Members, Union, ToSet, FrontBlock, In
            <4> QED
                BY <4>1
        <3>2. CASE list # <<>>
            <4>1. 1 \in 1 .. Len(list) /\ FrontBlock = list[1]
                BY <2>1, <2>2, <3>2, EmptySeq DEF FrontBlock
            <4>2. \A i \in 1 .. Len(list) : i # 1 => list[1][2] < list[i][1]
                BY <2>1, <2>2, <4>1 DEF Apart
            <4>3. ASSUME NEW n \in listed, n \notin In(list[1])
                  PROVE  list[1][1] \in listed /\ list[1][2] < n
                <5>1. PICK i \in 1 .. Len(list) : n \in In(list[i])
                    BY <2>1, <4>3, MemberOf
                <5>2. list[1][2] < list[i][1] /\ list[i][1] <= n
                    BY <2>2, <4>2, <4>3, <5>1
                <5> QED
                    BY <2>2, <2>4, <4>1, <5>2
            <4>4. ASSUME NEW n \in In(list[1]) PROVE n \in Run
                <5>1. n \in listed /\ n < list[1][2] /\ n >= list[1][1]
                    BY <2>2, <4>1, <4>4
                <5>2. ASSUME NEW m \in listed, m < n PROVE (m .. n) \subseteq listed
                    <6>1. m \in In(list[1])
                        BY <2>2, <2>4, <4>1, <4>3, <5>1, <5>2
                    <6>2. (m .. n) \subseteq In(list[1])
                        BY <2>2, <4>1, <5>1, <6>1
                    <6> QED
                        BY <2>2, <4>1, <6>2
                <5> QED
                    BY <5>1, <5>2
            <4>5. ASSUME NEW n \in Run, n \notin In(list[1]) PROVE FALSE
                <5>1. list[1][1] \in listed /\ list[1][2] < n /\ n \in Int
                    BY <2>4, <4>3, <4>5
                <5>2. list[1][1] < n /\ list[1][2] \in list[1][1] .. n
                    BY <2>2, <4>1, <5>1
                <5>3. (list[1][1] .. n) \subseteq listed
                    BY <4>5, <5>1, <5>2
                <5> QED
                    BY <2>3, <4>1, <5>2, <5>3
            <4> HIDE DEF Run
            <4> QED
                BY <4>1, <4>4, <4>5
        <3> QED
            BY <3>1, <3>2
    <2>6. ASSUME NEW b \in Intervals
          PROVE  BlockExists(b[1], b[2]) <=> In(b) \subseteq listed
        <3>1. /\ b[1] \in Int /\ b[2] \in Int /\ b[1] < b[2]
              /\ In(b) = b[1] .. b[2] - 1
            BY BlockParts, SackAssumption DEF In
        <3>2. ASSUME BlockExists(b[1], b[2]) PROVE In(b) \subseteq listed
            <4>1. PICK i \in 1 .. Len(list) : list[i][1] <= b[1] /\ b[2] <= list[i][2]
                BY <3>2 DEF BlockExists
            <4>2. In(b) \subseteq In(list[i])
                BY <2>2, <3>1, <4>1
            <4> QED
                BY <2>2, <4>2
        <3>3. ASSUME In(b) \subseteq listed PROVE BlockExists(b[1], b[2])
            <4>1. b[1] \in listed
                BY <3>1, <3>3
            <4>2. PICK i \in 1 .. Len(list) : b[1] \in In(list[i])
                BY <2>1, <4>1, MemberOf
            <4>3. list[i][1] <= b[1] /\ b[1] < list[i][2]
                BY <2>2, <4>2
            <4>4. b[2] <= list[i][2]
                <5>1. ASSUME list[i][2] < b[2] PROVE FALSE
                    <6>1. list[i][2] \in In(b)
                        BY <2>2, <3>1, <4>3, <5>1
                    <6> QED
                        BY <2>3, <3>3, <6>1
                <5> QED
                    BY <2>2, <3>1, <5>1
            <4> QED
                BY <4>3, <4>4 DEF BlockExists
        <3> QED
            BY <3>2, <3>3
    <2> QED
        BY <2>5, <2>6 DEF QueriesAgree
<1> QED
    BY <1>1, Invariance, PTL

\* GetNextExpectedSeq returns the first number that was not received.
THEOREM ExpectedCorrect == BlocksSpec => []ExpectedIsFirstGap
<1>1. IInv => ExpectedIsFirstGap
    <2> SUFFICES ASSUME IInv, loop = "none" PROVE ExpectedIsFirstGap
        BY DEF ExpectedIsFirstGap
    <2>1. blocks \in SUBSET Intervals /\ Separate(blocks) /\ tracked = Union(blocks)
        BY DEF IInv, BlocksTypeOK, TrackerInv
    <2>2. \A b \in blocks : /\ b[1] \in Int /\ b[1] >= 0 /\ b[2] \in Int /\ b[1] < b[2]
                             /\ In(b) = b[1] .. b[2] - 1 /\ In(b) \subseteq tracked
        BY <2>1, BlockParts, SackAssumption DEF In, Union
    <2>3. CASE \E b \in blocks : b[1] = 0
        <3> DEFINE b == CHOOSE c \in blocks : c[1] = 0
        <3>1. b \in blocks /\ b[1] = 0 /\ GetNextExpectedSeq = b[2]
            BY <2>3 DEF GetNextExpectedSeq
        <3> HIDE DEF b
        <3>2. 0 .. b[2] - 1 \subseteq tracked
            BY <2>2, <3>1
        <3>3. ASSUME b[2] \in tracked PROVE FALSE
            <4>1. PICK c \in blocks : b[2] \in In(c)
                BY <2>1, <3>3 DEF Union
            <4>2. c[1] <= b[2] /\ b[2] < c[2]
                BY <2>2, <3>1, <4>1
            <4>3. b[2] < c[1] \/ c[2] < b[1] \/ b = c
                BY <2>1, <3>1 DEF Separate
            <4> QED
                BY <2>2, <3>1, <4>2, <4>3
        <3> QED
            BY <3>1, <3>2, <3>3 DEF ExpectedIsFirstGap
    <2>4. CASE ~\E b \in blocks : b[1] = 0
        <3>1. GetNextExpectedSeq = 0
            BY <2>4 DEF GetNextExpectedSeq
        <3>2. ASSUME 0 \in tracked PROVE FALSE
            <4>1. PICK c \in blocks : 0 \in In(c)
                BY <2>1, <3>2 DEF Union
            <4> QED
                BY <2>2, <2>4, <4>1
        <3>3. 0 .. GetNextExpectedSeq - 1 \subseteq tracked
            BY <3>1
        <3> QED
            BY <3>1, <3>2, <3>3 DEF ExpectedIsFirstGap
    <2> QED
        BY <2>3, <2>4
<1> QED
    BY <1>1, Invariance, PTL

\* Whatever blocks are put in and discarded, in every order, both lists are
\* what the transports take them for (ListsCorrect), for numbers of any size.
THEOREM ListsAreSets == BlocksSpec => []ListsCorrect
    BY ListCorrect, TrackerCorrect, AssertionsHold, QueriesCorrect, ExpectedCorrect, PTL
    DEF ListsCorrect
===============================================================================
