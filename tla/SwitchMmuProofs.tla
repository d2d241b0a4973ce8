----------------------------- MODULE SwitchMmuProofs -----------------------------
(***************************************************************************)
(* Theorems about SwitchMmu, for any number of ports, routes, packet       *)
(* sizes, thresholds and headroom limits, with and without PFC, trimming   *)
(* and link failures: no counter is ever negative, the counters are what   *)
(* the queues hold until a link is taken down, all overflow is charged to  *)
(* headroom, and a port deep in its headroom has been told to pause.       *)
(*                                                                         *)
(* The sums over ports and queues are recursive functions.  That they      *)
(* exist, and what a change of one term does to them, is shown with the    *)
(* least-element principle for natural numbers.                            *)
(***************************************************************************)
EXTENDS SwitchMmu, WellFoundedInduction, TLAPS

\* Every set of naturals has a least element.
LEMMA LeastNatural ==
    ASSUME NEW S, S \subseteq Nat, S # {}
    PROVE  \E least \in S : \A n \in S : least <= n
PROOF
<1> DEFINE lessThan == OpToRel(<, Nat)
<1>1. IsWellFoundedOn(lessThan, Nat)
  BY NatLessThanWellFounded
<1>2. \A a, b \in Nat : a < b => <<a, b>> \in lessThan
  BY DEF OpToRel
<1> HIDE DEF lessThan
<1>3. PICK least \in S : \A n \in S : <<n, least>> \notin lessThan
  BY <1>1, WFMin
<1>4. \A n \in S : ~(n < least)
  BY <1>2, <1>3
<1> QED
  BY <1>4

-------------------------------------------------------------------------------
(* Partial sums.                                                           *)

\* The terms f[1], ..., f[n] are integers; s is the function of their sums.
Terms(f, n) == \A i \in 1 .. n : f[i] \in Int
Sums(s, f, n) ==
    /\ s \in [0 .. n -> Int]
    /\ s[0] = 0
    /\ \A i \in 1 .. n : s[i] = s[i - 1] + f[i]

LEMMA SumsExist ==
    ASSUME NEW n \in Nat, NEW f, Terms(f, n)
    PROVE  \E s : Sums(s, f, n)
<1> DEFINE Missing == {k \in 0 .. n : ~ \E s : Sums(s, f, k)}
<1>1. SUFFICES ASSUME Missing # {} PROVE FALSE
  OBVIOUS
<1>0a. Missing \subseteq Nat
  OBVIOUS
<1>2. PICK k \in Missing : \A j \in Missing : k <= j
  BY <1>0a, <1>1, LeastNatural
<1>3. CASE k = 0
  <2>1. Sums([i \in 0 .. 0 |-> 0], f, 0)
    BY DEF Sums
  <2> QED
    BY <1>2, <1>3, <2>1
<1>4. CASE k # 0
  <2>1. k - 1 \in 0 .. n /\ k \in 1 .. n /\ ~(k <= k - 1)
    BY <1>2, <1>4
  <2>2. PICK s : Sums(s, f, k - 1)
    BY <1>2, <2>1
  <2> DEFINE r == [i \in 0 .. k |-> IF i = k THEN s[k - 1] + f[k] ELSE s[i]]
  <2>3. f[k] \in Int
    BY <2>1 DEF Terms
  <2>4. \A i \in 0 .. k - 1 : s[i] \in Int
    BY <2>2 DEF Sums
  <2>5. r \in [0 .. k -> Int] /\ r[0] = 0
    BY <2>1, <2>2, <2>3, <2>4 DEF Sums
  <2>6. ASSUME NEW i \in 1 .. k PROVE r[i] = r[i - 1] + f[i]
    <3>1. CASE i = k
      BY <2>1, <3>1
    <3>2. CASE i # k
      <4>1. i \in 1 .. k - 1 /\ i \in 0 .. k /\ i - 1 \in 0 .. k /\ i - 1 # k
        BY <2>1, <3>2
      <4>2. s[i] = s[i - 1] + f[i]
        BY <4>1, <2>2 DEF Sums
      <4> QED
        BY <3>2, <4>1, <4>2
    <3> QED
      BY <3>1, <3>2
  <2>7. Sums(r, f, k)
    BY <2>5, <2>6 DEF Sums
  <2> QED
    BY <1>2, <2>7
<1> QED
  BY <1>3, <1>4

\* Two sequences of terms of which one is never smaller have sums so.
LEMMA SumsOrdered ==
    ASSUME NEW n \in Nat, NEW f, NEW g, Terms(f, n), Terms(g, n),
           \A i \in 1 .. n : f[i] <= g[i],
           NEW s, NEW r, Sums(s, f, n), Sums(r, g, n)
    PROVE  \A i \in 0 .. n : s[i] <= r[i]
<1> DEFINE Larger == {k \in 0 .. n : ~(s[k] <= r[k])}
<1>0. \A i \in 0 .. n : s[i] \in Int /\ r[i] \in Int
  BY DEF Sums
<1>1. SUFFICES ASSUME Larger # {} PROVE FALSE
  OBVIOUS
<1>0a. Larger \subseteq Nat
  OBVIOUS
<1>2. PICK k \in Larger : \A j \in Larger : k <= j
  BY <1>0a, <1>1, LeastNatural
<1>3. k # 0
  BY <1>2 DEF Sums
<1>4. k - 1 \in 0 .. n /\ k \in 1 .. n /\ ~(k <= k - 1)
  BY <1>2, <1>3
<1>5. s[k - 1] <= r[k - 1]
  BY <1>2, <1>4
<1>6. s[k] = s[k - 1] + f[k] /\ r[k] = r[k - 1] + g[k]
  BY <1>4 DEF Sums
<1>7. f[k] \in Int /\ g[k] \in Int /\ f[k] <= g[k]
  BY <1>4 DEF Terms
<1> QED
  BY <1>0, <1>2, <1>4, <1>5, <1>6, <1>7

LEMMA SumsUnique ==
    ASSUME NEW n \in Nat, NEW f, Terms(f, n), NEW s, NEW r, Sums(s, f, n), Sums(r, f, n)
    PROVE  s = r
<1>1. \A i \in 1 .. n : f[i] <= f[i]
  BY DEF Terms
<1>2. \A i \in 0 .. n : s[i] <= r[i] /\ r[i] <= s[i]
  BY <1>1, SumsOrdered
<1>3. \A i \in 0 .. n : s[i] \in Int /\ r[i] \in Int
  BY DEF Sums
<1>4. \A i \in 0 .. n : s[i] = r[i]
  BY <1>2, <1>3
<1> QED
  BY <1>4 DEF Sums

\* SumTo is the last of the partial sums.
LEMMA SumToIs ==
    ASSUME NEW n \in Nat, NEW f, Terms(f, n), NEW s, Sums(s, f, n)
    PROVE  SumTo(f, n) = s[n]
<1> DEFINE F(g) == [i \in 0 .. n |-> IF i = 0 THEN 0 ELSE g[i - 1] + f[i]]
           t == CHOOSE g : g = F(g)
<1>1. SumTo(f, n) = t[n]
  BY DEF SumTo
<1>2. s = F(s)
  BY DEF Sums
<1>3. t = F(t)
  BY <1>2
<1> HIDE DEF t
<1>4. Sums(t, f, n)
  <2>1. t[0] = 0 /\ \A i \in 1 .. n : t[i] = t[i - 1] + f[i]
    BY <1>3
  <2>2. \A i \in 0 .. n : t[i] \in Int
    <3> DEFINE Odd == {k \in 0 .. n : t[k] \notin Int}
    <3>1. SUFFICES ASSUME Odd # {} PROVE FALSE
      OBVIOUS
    <3>0a. Odd \subseteq Nat
      OBVIOUS
    <3>2. PICK k \in Odd : \A j \in Odd : k <= j
      BY <3>0a, <3>1, LeastNatural
    <3>3. k \in 1 .. n /\ k - 1 \in 0 .. n /\ ~(k <= k - 1)
      BY <2>1, <3>2
    <3>4. t[k - 1] \in Int /\ f[k] \in Int
      BY <3>2, <3>3 DEF Terms
    <3> QED
      BY <2>1, <3>2, <3>3, <3>4
  <2>3. t \in [0 .. n -> Int]
    BY <1>3, <2>2
  <2> QED
    BY <2>1, <2>3 DEF Sums
<1>5. t = s
  BY <1>4, SumsUnique
<1> QED
  BY <1>1, <1>5

-------------------------------------------------------------------------------
(* What a change of the terms does to a sum.                               *)

LEMMA SumInt ==
    ASSUME NEW n \in Nat, NEW f, Terms(f, n)
    PROVE  SumTo(f, n) \in Int
<1>1. PICK s : Sums(s, f, n)
  BY SumsExist
<1>2. SumTo(f, n) = s[n]
  BY <1>1, SumToIs
<1> QED
  BY <1>1, <1>2 DEF Sums

LEMMA SumEmpty == ASSUME NEW f PROVE SumTo(f, 0) = 0
<1>1. Terms(f, 0)
  BY DEF Terms
<1>2. Sums([i \in 0 .. 0 |-> 0], f, 0)
  BY DEF Sums
<1> QED
  BY <1>1, <1>2, SumToIs

LEMMA SumOrdered ==
    ASSUME NEW n \in Nat, NEW f, NEW g, Terms(f, n), Terms(g, n),
           \A i \in 1 .. n : f[i] <= g[i]
    PROVE  SumTo(f, n) <= SumTo(g, n)
<1>1. PICK s : Sums(s, f, n)
  BY SumsExist
<1>2. PICK r : Sums(r, g, n)
  BY SumsExist
<1>3. SumTo(f, n) = s[n] /\ SumTo(g, n) = r[n]
  BY <1>1, <1>2, SumToIs
<1>4. \A i \in 0 .. n : s[i] <= r[i]
  BY <1>1, <1>2, SumsOrdered
<1> QED
  BY <1>3, <1>4

\* Equal terms have equal sums.
LEMMA SumSame ==
    ASSUME NEW n \in Nat, NEW f, NEW g, Terms(f, n), \A i \in 1 .. n : g[i] = f[i]
    PROVE  SumTo(g, n) = SumTo(f, n)
<1>1. Terms(g, n)
  BY DEF Terms
<1>2. PICK s : Sums(s, f, n)
  BY SumsExist
<1>3. Sums(s, g, n)
  BY <1>2 DEF Sums
<1> QED
  BY <1>1, <1>2, <1>3, SumToIs

\* One term grows or shrinks by d, and so does the sum.
LEMMA SumChanged ==
    ASSUME NEW n \in Nat, NEW f, NEW g, Terms(f, n), NEW k \in 1 .. n, NEW d \in Int,
           g[k] = f[k] + d, \A i \in 1 .. n : i # k => g[i] = f[i]
    PROVE  SumTo(g, n) = SumTo(f, n) + d
<1>1. Terms(g, n)
  <2>1. \A i \in 1 .. n : f[i] \in Int
    BY DEF Terms
  <2>2. g[k] \in Int
    BY <2>1
  <2> QED
    BY <2>1, <2>2 DEF Terms
<1>2. PICK s : Sums(s, f, n)
  BY SumsExist
<1> DEFINE r == [i \in 0 .. n |-> IF i < k THEN s[i] ELSE s[i] + d]
<1>3. Sums(r, g, n)
  <2>1. \A i \in 0 .. n : s[i] \in Int
    BY <1>2 DEF Sums
  <2>2. r \in [0 .. n -> Int] /\ r[0] = 0
    BY <1>2, <2>1 DEF Sums
  <2>3. ASSUME NEW i \in 1 .. n PROVE r[i] = r[i - 1] + g[i]
    <3>1. i - 1 \in 0 .. n /\ i \in 0 .. n /\ s[i] = s[i - 1] + f[i] /\ f[i] \in Int
      BY <1>2 DEF Sums, Terms
    <3>2. CASE i = k
      BY <2>1, <3>1, <3>2
    <3>3. CASE i # k
      BY <2>1, <3>1, <3>3
    <3> QED
      BY <3>2, <3>3
  <2> QED
    BY <2>2, <2>3 DEF Sums
<1>4. SumTo(f, n) = s[n] /\ SumTo(g, n) = r[n]
  BY <1>1, <1>2, <1>3, SumToIs
<1> QED
  BY <1>4

\* One more term at the end.
LEMMA SumExtended ==
    ASSUME NEW n \in Nat, NEW f, NEW g, Terms(f, n), g[n + 1] \in Int,
           \A i \in 1 .. n : g[i] = f[i]
    PROVE  SumTo(g, n + 1) = SumTo(f, n) + g[n + 1]
<1>1. Terms(g, n + 1)
  <2>1. \A i \in 1 .. n + 1 : i = n + 1 \/ i \in 1 .. n
    OBVIOUS
  <2> QED
    BY <2>1 DEF Terms
<1>2. PICK s : Sums(s, f, n)
  BY SumsExist
<1>3. PICK r : Sums(r, g, n + 1)
  BY <1>1, SumsExist
<1> DEFINE q == [i \in 0 .. n |-> r[i]]
<1>4. Sums(q, f, n)
  <2>1. \A i \in 0 .. n : i \in 0 .. n + 1
    OBVIOUS
  <2>2. \A i \in 1 .. n : i \in 1 .. n + 1 /\ i - 1 \in 0 .. n /\ i \in 0 .. n
    OBVIOUS
  <2>3. q \in [0 .. n -> Int] /\ q[0] = 0
    BY <1>3, <2>1 DEF Sums
  <2>4. \A i \in 1 .. n : q[i] = q[i - 1] + f[i]
    BY <1>3, <2>2 DEF Sums
  <2> QED
    BY <2>3, <2>4 DEF Sums
<1>5. SumTo(f, n) = q[n] /\ SumTo(g, n + 1) = r[n + 1]
  BY <1>1, <1>3, <1>4, SumToIs
<1>6. r[n + 1] = r[(n + 1) - 1] + g[n + 1]
  BY <1>3 DEF Sums
<1>7. q[n] = r[n] /\ (n + 1) - 1 = n
  OBVIOUS
<1> QED
  BY <1>5, <1>6, <1>7

\* The first term is taken away.
LEMMA SumShifted ==
    ASSUME NEW n \in Nat, NEW f, NEW g, Terms(f, n + 1), \A i \in 1 .. n : g[i] = f[i + 1]
    PROVE  SumTo(f, n + 1) = f[1] + SumTo(g, n)
<1>0. \A i \in 1 .. n : i + 1 \in 1 .. n + 1
  OBVIOUS
<1>1. Terms(g, n) /\ f[1] \in Int
  BY <1>0 DEF Terms
<1>2. PICK s : Sums(s, f, n + 1)
  BY SumsExist
<1> DEFINE r == [i \in 0 .. n |-> s[i + 1] - f[1]]
<1>3. Sums(r, g, n)
  <2>1. \A i \in 0 .. n : i + 1 \in 0 .. n + 1 /\ s[i + 1] \in Int
    BY <1>2 DEF Sums
  <2>2. s[1] = s[1 - 1] + f[1] /\ s[0] = 0
    BY <1>2 DEF Sums
  <2>3. r \in [0 .. n -> Int] /\ r[0] = 0
    BY <1>1, <2>1, <2>2
  <2>4. ASSUME NEW i \in 1 .. n PROVE r[i] = r[i - 1] + g[i]
    <3>1. i \in 0 .. n /\ i - 1 \in 0 .. n /\ (i - 1) + 1 = i /\ (i + 1) - 1 = i
      OBVIOUS
    <3>2. s[i + 1] = s[(i + 1) - 1] + f[i + 1]
      BY <1>0, <1>2 DEF Sums
    <3>3. s[i] \in Int /\ f[i + 1] \in Int
      BY <1>0, <2>1, <3>1 DEF Terms
    <3>4. r[i] = s[i + 1] - f[1] /\ r[i - 1] = s[i] - f[1]
      BY <3>1
    <3> QED
      BY <1>1, <3>1, <3>2, <3>3, <3>4
  <2> QED
    BY <2>3, <2>4 DEF Sums
<1>4. SumTo(g, n) = r[n] /\ SumTo(f, n + 1) = s[n + 1]
  BY <1>1, <1>2, <1>3, SumToIs
<1>5. s[n + 1] \in Int
  BY <1>2 DEF Sums
<1> QED
  BY <1>1, <1>4, <1>5

\* Natural terms have a natural sum, and none is larger than it.
LEMMA SumNat ==
    ASSUME NEW n \in Nat, NEW f, \A i \in 1 .. n : f[i] \in Nat
    PROVE  /\ SumTo(f, n) \in Nat
           /\ \A k \in 1 .. n : f[k] <= SumTo(f, n)
<1>1. Terms(f, n)
  BY DEF Terms
<1> DEFINE zero == [i \in 1 .. n |-> 0]
<1>2. Terms(zero, n) /\ \A i \in 1 .. n : zero[i] <= f[i]
  BY DEF Terms
<1>3. SumTo(zero, n) = 0
  <2>1. Sums([i \in 0 .. n |-> 0], zero, n)
    BY DEF Sums
  <2> QED
    BY <1>2, <2>1, SumToIs
<1> HIDE DEF zero
<1>4. SumTo(zero, n) <= SumTo(f, n) /\ SumTo(f, n) \in Int
  BY <1>1, <1>2, SumOrdered, SumInt
<1>5. ASSUME NEW k \in 1 .. n PROVE f[k] <= SumTo(f, n)
  <2> DEFINE g == [i \in 1 .. n |-> IF i = k THEN 0 ELSE f[i]]
  <2>1. /\ Terms(g, n) /\ \A i \in 1 .. n : zero[i] <= g[i]
        /\ g[k] = f[k] + (0 - f[k]) /\ 0 - f[k] \in Int
        /\ \A i \in 1 .. n : i # k => g[i] = f[i]
    BY DEF Terms, zero
  <2> HIDE DEF g
  <2>2. SumTo(g, n) = SumTo(f, n) + (0 - f[k])
    BY <1>1, <2>1, SumChanged
  <2>3. SumTo(zero, n) <= SumTo(g, n)
    BY <1>2, <2>1, SumOrdered
  <2>4. f[k] \in Int
    BY <1>1 DEF Terms
  <2> QED
    BY <1>3, <1>4, <2>2, <2>3, <2>4
<1> QED
  BY <1>3, <1>4, <1>5

-------------------------------------------------------------------------------
(* Sums over ports and queues.                                             *)

LEMMA Constants ==
    /\ NumPorts \in Nat \ {0}
    /\ BufferBytes \in Int /\ OpSharedLimit \in Int /\ SpLimit \in Int
    /\ HeaderBytes \in Nat /\ Sizes \subseteq Nat /\ Sizes \cup {HeaderBytes} \subseteq Nat
    /\ 0 .. QMin \subseteq Nat /\ QMin \in Nat \ {0}
<1>1. NumPorts \in Nat \ {0} /\ BufferBytes \in Nat /\ Sizes \subseteq Nat /\ HeaderBytes \in Nat
      /\ HeadroomLimit \in Nat /\ HeadroomDefault \in Nat
  BY MmuAssumption
<1>2. QMin \in Nat \ {0}
  BY DEF QMin, MTU
<1>3. OpSharedLimit \in Int
  BY <1>1 DEF OpSharedLimit, QCnt, MTU
<1>4. (NumPorts - 1) * HeadroomLimit \in Int
  BY <1>1
<1>5. SpLimit \in Int
  BY <1>1, <1>3, <1>4 DEF SpLimit
<1> QED
  BY <1>1, <1>2, <1>3, <1>5

LEMMA TotalChanged ==
    ASSUME NEW f, NEW g, \A q \in Ports : f[q] \in Int, NEW p \in Ports, NEW d \in Int,
           g[p] = f[p] + d, \A q \in Ports : q # p => g[q] = f[q]
    PROVE  Total(g) = Total(f) + d
<1>1. Terms(f, NumPorts)
  BY DEF Terms, Ports
<1> QED
  BY <1>1, Constants, SumChanged DEF Total, Ports

LEMMA TotalSame ==
    ASSUME NEW f \in [Ports -> Int], NEW g, \A q \in Ports : g[q] = f[q]
    PROVE  Total(g) = Total(f)
<1>1. Terms(f, NumPorts)
  BY DEF Terms, Ports
<1> QED
  BY <1>1, Constants, SumSame DEF Total, Ports

LEMMA TotalOrdered ==
    ASSUME NEW f \in [Ports -> Int], NEW g \in [Ports -> Int], \A q \in Ports : f[q] <= g[q]
    PROVE  Total(f) <= Total(g)
<1>1. Terms(f, NumPorts) /\ Terms(g, NumPorts)
  BY DEF Terms, Ports
<1> QED
  BY <1>1, Constants, SumOrdered DEF Total, Ports

LEMMA TotalNat ==
    ASSUME NEW f \in [Ports -> Nat]
    PROVE  Total(f) \in Nat /\ \A p \in Ports : f[p] <= Total(f)
<1>1. \A i \in 1 .. NumPorts : f[i] \in Nat
  BY DEF Ports
<1> QED
  BY <1>1, Constants, SumNat DEF Total, Ports

LEMMA TotalOfNone == ASSUME NEW f, \A p \in Ports : f[p] = 0 PROVE Total(f) = 0
<1>1. Terms(f, NumPorts) /\ Sums([i \in 0 .. NumPorts |-> 0], f, NumPorts)
  BY Constants DEF Terms, Sums, Ports
<1> QED
  BY <1>1, Constants, SumToIs DEF Total

\* What a packet adds to the bytes from some ports.
Share(packet, ports) == IF packet.in \in ports THEN packet.size ELSE 0
Shares(packets, ports) == [i \in DOMAIN packets |-> Share(packets[i], ports)]

LEMMA PacketFacts ==
    ASSUME NEW k \in Packets, NEW ports
    PROVE  k.in \in Ports /\ k.size \in Nat /\ Share(k, ports) \in Nat
BY Constants DEF Packets, Share

LEMMA BytesAsSum ==
    ASSUME NEW q \in Seq(Packets), NEW ports
    PROVE  /\ BytesOf(q, ports) = SumTo(Shares(q, ports), Len(q))
           /\ Len(q) \in Nat
           /\ \A i \in 1 .. Len(q) : /\ Shares(q, ports)[i] = Share(q[i], ports)
                                     /\ Share(q[i], ports) \in Nat
<1>1. BytesOf(q, ports) = SumTo(Shares(q, ports), Len(q))
  BY DEF BytesOf, Shares, Share
<1>2. \A i \in 1 .. Len(q) : q[i] \in Packets /\ i \in DOMAIN q
  OBVIOUS
<1> QED
  BY <1>1, <1>2, PacketFacts DEF Shares

LEMMA BytesNat ==
    ASSUME NEW q \in Seq(Packets), NEW ports
    PROVE  BytesOf(q, ports) \in Nat
<1>1. \A i \in 1 .. Len(q) : Shares(q, ports)[i] \in Nat
  BY BytesAsSum
<1> QED
  BY <1>1, BytesAsSum, SumNat

LEMMA BytesOfNone == ASSUME NEW ports PROVE BytesOf(<<>>, ports) = 0
<1>1. <<>> \in Seq(Packets) /\ Len(<<>>) = 0
  OBVIOUS
<1>2. BytesOf(<<>>, ports) = SumTo(Shares(<<>>, ports), 0)
  BY <1>1, BytesAsSum
<1> QED
  BY <1>2, SumEmpty

LEMMA BytesAppended ==
    ASSUME NEW q \in Seq(Packets), NEW k \in Packets, NEW ports
    PROVE  BytesOf(Append(q, k), ports) = BytesOf(q, ports) + Share(k, ports)
<1> DEFINE r == Append(q, k)
           f == Shares(q, ports)
           g == Shares(r, ports)
<1>1. r \in Seq(Packets) /\ Len(q) \in Nat /\ Len(r) = Len(q) + 1 /\ r[Len(q) + 1] = k
      /\ \A i \in 1 .. Len(q) : r[i] = q[i] /\ i \in 1 .. Len(q) + 1
  OBVIOUS
<1>2. /\ BytesOf(q, ports) = SumTo(f, Len(q))
      /\ \A i \in 1 .. Len(q) : f[i] = Share(q[i], ports) /\ f[i] \in Nat
  BY BytesAsSum
<1>3. /\ BytesOf(r, ports) = SumTo(g, Len(q) + 1)
      /\ \A i \in 1 .. Len(q) + 1 : g[i] = Share(r[i], ports) /\ g[i] \in Nat
  <2> HIDE DEF r
  <2> QED
    BY <1>1, BytesAsSum
<1> HIDE DEF r, f, g
<1>4. Terms(f, Len(q)) /\ \A i \in 1 .. Len(q) : g[i] = f[i]
  BY <1>1, <1>2, <1>3 DEF Terms
<1>5. Len(q) + 1 \in 1 .. Len(q) + 1
  BY <1>1
<1>6. g[Len(q) + 1] = Share(k, ports) /\ g[Len(q) + 1] \in Int
  BY <1>1, <1>3, <1>5
<1>7. SumTo(g, Len(q) + 1) = SumTo(f, Len(q)) + g[Len(q) + 1]
  BY <1>1, <1>4, <1>6, SumExtended
<1> QED
  BY <1>2, <1>3, <1>6, <1>7 DEF r

LEMMA BytesTaken ==
    ASSUME NEW q \in Seq(Packets), q # <<>>, NEW ports
    PROVE  BytesOf(q, ports) = Share(Head(q), ports) + BytesOf(Tail(q), ports)
<1> DEFINE r == Tail(q)
           f == Shares(q, ports)
           g == Shares(r, ports)
<1>1. r \in Seq(Packets) /\ Len(r) \in Nat /\ Len(q) = Len(r) + 1 /\ Head(q) = q[1]
      /\ \A i \in 1 .. Len(r) : r[i] = q[i + 1]
  OBVIOUS
<1>2. /\ BytesOf(q, ports) = SumTo(f, Len(r) + 1)
      /\ \A i \in 1 .. Len(r) + 1 : f[i] = Share(q[i], ports) /\ f[i] \in Nat
  <2> HIDE DEF r
  <2> QED
    BY <1>1, BytesAsSum
<1>3. /\ BytesOf(r, ports) = SumTo(g, Len(r))
      /\ \A i \in 1 .. Len(r) : g[i] = Share(r[i], ports) /\ g[i] \in Nat
  <2> HIDE DEF r
  <2> QED
    BY <1>1, BytesAsSum
<1> HIDE DEF r, f, g
<1>4. \A i \in 1 .. Len(r) : i + 1 \in 1 .. Len(r) + 1
  BY <1>1
<1>5. Terms(f, Len(r) + 1) /\ \A i \in 1 .. Len(r) : g[i] = f[i + 1]
  BY <1>1, <1>2, <1>3, <1>4 DEF Terms
<1>6. SumTo(f, Len(r) + 1) = f[1] + SumTo(g, Len(r))
  BY <1>1, <1>5, SumShifted
<1>7. f[1] = Share(q[1], ports)
  BY <1>1, <1>2
<1> QED
  BY <1>1, <1>2, <1>3, <1>6, <1>7 DEF r

\* The bytes from one port in all of the queues.
QueuedFrom(queues, p) == Total([out \in Ports |-> BytesOf(queues[out], {p})])

LEMMA QueuedFacts ==
    ASSUME NEW queues \in [Ports -> Seq(Packets)], NEW p \in Ports
    PROVE  /\ QueuedFrom(queues, p) \in Nat
           /\ \A out \in Ports : BytesOf(queues[out], {p}) <= QueuedFrom(queues, p)
<1>1. [out \in Ports |-> BytesOf(queues[out], {p})] \in [Ports -> Nat]
  BY BytesNat
<1> QED
  BY <1>1, TotalNat DEF QueuedFrom

\* One queue changes.
LEMMA QueuedChanged ==
    ASSUME NEW queues \in [Ports -> Seq(Packets)], NEW p \in Ports, NEW out \in Ports,
           NEW next, next[out] \in Seq(Packets),
           \A o \in Ports : o # out => next[o] = queues[o]
    PROVE  QueuedFrom(next, p)
             = QueuedFrom(queues, p) + (BytesOf(next[out], {p}) - BytesOf(queues[out], {p}))
<1> DEFINE f == [o \in Ports |-> BytesOf(queues[o], {p})]
           g == [o \in Ports |-> BytesOf(next[o], {p})]
           d == BytesOf(next[out], {p}) - BytesOf(queues[out], {p})
<1>1. f \in [Ports -> Int] /\ d \in Int
  BY BytesNat
<1>2. g[out] = f[out] + d /\ f[out] \in Int
  BY BytesNat
<1>3. \A o \in Ports : o # out => g[o] = f[o]
  OBVIOUS
<1> HIDE DEF f, g, d
<1>4. Total(g) = Total(f) + d
  BY <1>1, <1>2, <1>3, TotalChanged
<1> QED
  BY <1>4 DEF QueuedFrom, f, g, d

-------------------------------------------------------------------------------
(* The inductive invariant.                                                *)

\* No counter is below what the queues hold; it may be above it when a link
\* was taken down, because TakeDown does not account for what it drops.
QueuedCounted ==
    \A p \in Ports : /\ BytesFrom(p) <= ingressPG[p]
                     /\ BytesOf(queue[p], Ports) <= egressPort[p]
ExactWhileUp ==
    (\A p \in Ports : linkUp[p]) =>
        \A p \in Ports : /\ ingressPG[p] = BytesFrom(p)
                         /\ egressPort[p] = BytesOf(queue[p], Ports)

\* The counters of the service pools are the sums of those of the ports.
PoolsAreSums == ingressSP = Total(ingressPG) /\ egressSP = Total(egressShared)

\* An egress port fills its guaranteed minimum first and drains it last.
MinimumFirst ==
    \A p \in Ports :
        /\ egressQMin[p] = IF egressPort[p] < QMin THEN egressPort[p] ELSE QMin
        /\ egressShared[p] = egressPort[p] - egressQMin[p]

HeadroomWithin == \A p \in Ports : headroom[p] <= ingressPG[p]

IInv ==
    /\ TypeOK
    /\ QueuedCounted
    /\ ExactWhileUp
    /\ PoolsAreSums
    /\ MinimumFirst
    /\ HeadroomWithin
    /\ OverflowInHeadroom
    /\ DeepHeadroomPaused

\* The parts of the type invariant.
FlagSets == [Ports -> BOOLEAN]
PauseType ==
    /\ paused \in FlagSets /\ pauseRemote \in FlagSets /\ resumeEvt \in FlagSets
    /\ frames \in [Ports -> Seq({"PAUSE", "RESUME"})]
CounterType ==
    /\ ingressPG \in Counters /\ ingressSP \in Nat /\ headroom \in Counters
    /\ egressQMin \in [Ports -> 0 .. QMin] /\ egressShared \in Counters
    /\ egressPort \in Counters /\ egressSP \in Nat
TypeParts ==
    /\ queue \in [Ports -> Seq(Packets)] /\ CounterType /\ PauseType
    /\ stopped \in FlagSets /\ linkUp \in FlagSets

LEMMA TypeInParts == TypeOK <=> TypeParts
BY DEF TypeOK, TypeParts, CounterType, PauseType, FlagSets

LEMMA TypeInPartsNext == TypeOK' <=> TypeParts'
BY DEF TypeOK, TypeParts, CounterType, PauseType, FlagSets, Counters

LEMMA InitInv == Init => IInv
<1> SUFFICES ASSUME Init PROVE IInv
  OBVIOUS
<1>1. \A p \in Ports : BytesOf(queue[p], Ports) = 0 /\ BytesFrom(p) = 0
  <2>1. \A p \in Ports : queue[p] = <<>>
    BY DEF Init
  <2>2. ASSUME NEW p \in Ports PROVE BytesFrom(p) = 0
    <3> DEFINE f == [out \in Ports |-> BytesOf(queue[out], {p})]
    <3>1. \A out \in Ports : f[out] = 0
      BY <2>1, BytesOfNone
    <3> HIDE DEF f
    <3>2. Total(f) = 0
      BY <3>1, TotalOfNone
    <3> QED
      BY <3>2 DEF BytesFrom, f
  <2> QED
    BY <2>1, <2>2, BytesOfNone
<1>2. \A p \in Ports : /\ ingressPG[p] = 0 /\ headroom[p] = 0 /\ egressQMin[p] = 0
                       /\ egressShared[p] = 0 /\ egressPort[p] = 0
  BY DEF Init
<1>3. Total(ingressPG) = 0 /\ Total(egressShared) = 0 /\ Total(headroom) = 0
  BY <1>2, TotalOfNone
<1>4. TypeParts
  <2>1. Flags \subseteq FlagSets
    BY DEF Flags, FlagSets
  <2>2. paused \in FlagSets /\ pauseRemote \in FlagSets
    BY <2>1 DEF Init
  <2>3. <<>> \in Seq(Packets) /\ <<>> \in Seq({"PAUSE", "RESUME"})
    OBVIOUS
  <2>4. CounterType
    BY Constants DEF Init, CounterType, Counters
  <2> QED
    BY <2>2, <2>3, <2>4 DEF Init, TypeParts, PauseType, FlagSets
<1>5. ingressSP = 0 /\ egressSP = 0
  BY DEF Init
<1>6. QueuedCounted /\ ExactWhileUp /\ PoolsAreSums /\ HeadroomWithin
  BY <1>1, <1>2, <1>3, <1>5 DEF QueuedCounted, ExactWhileUp, PoolsAreSums, HeadroomWithin
<1>7. MinimumFirst
  BY <1>2, Constants DEF MinimumFirst
<1>8. OverflowInHeadroom
  BY <1>3, <1>5, MmuAssumption, Constants DEF OverflowInHeadroom
<1>9. DeepHeadroomPaused
  BY <1>2 DEF DeepHeadroomPaused, MTU
<1> QED
  BY <1>4, <1>6, <1>7, <1>8, <1>9, TypeInParts DEF IInv

-------------------------------------------------------------------------------
(* Pausing.                                                                *)

\* What headroom is used for: the pause is sent when the packet that starts
\* to use it has been counted.
PausedWhenInHeadroom(p) ==
    /\ \A q \in Ports : q # p => pauseRemote'[q] = pauseRemote[q]
    /\ ingressPG'[p] > 2 * MTU /\ headroom'[p] # 0 => pauseRemote'[p]

LEMMA FrameSent ==
    ASSUME PauseType, NEW p \in Ports, NEW type \in {"PAUSE", "RESUME"}, SendPfc(p, type)
    PROVE  frames' \in [Ports -> Seq({"PAUSE", "RESUME"})]
<1>1. Append(frames[p], type) \in Seq({"PAUSE", "RESUME"})
  BY DEF PauseType
<1> QED
  BY <1>1 DEF SendPfc, PauseType

LEMMA PfcSent ==
    ASSUME PauseType, NEW p \in Ports, CheckAndSendPfc(p)
    PROVE  PauseType' /\ PausedWhenInHeadroom(p)
<1>1. CASE PauseAgain(p)
  <2>1. /\ SendPfc(p, "PAUSE")
        /\ paused' = [paused EXCEPT ![p] = TRUE]
        /\ pauseRemote' = [pauseRemote EXCEPT ![p] = TRUE]
        /\ resumeEvt' = [resumeEvt EXCEPT ![p] = TRUE]
    BY <1>1 DEF PauseAgain
  <2>2. frames' \in [Ports -> Seq({"PAUSE", "RESUME"})]
    BY <2>1, FrameSent
  <2> QED
    BY <2>1, <2>2 DEF PauseType, FlagSets, PausedWhenInHeadroom
<1>2. CASE ~GetPauseClasses(p)
  <2>1. ~(ingressPG'[p] > 2 * MTU /\ headroom'[p] # 0)
    BY <1>2 DEF GetPauseClasses
  <2>2. CASE Resume(p) /\ pauseRemote' = [pauseRemote EXCEPT ![p] = FALSE]
    <3>1. /\ SendPfc(p, "RESUME")
          /\ paused' = [paused EXCEPT ![p] = FALSE]
          /\ resumeEvt' = [resumeEvt EXCEPT ![p] = FALSE]
      BY <2>2 DEF Resume
    <3>2. frames' \in [Ports -> Seq({"PAUSE", "RESUME"})]
      BY <3>1, FrameSent
    <3> QED
      BY <2>1, <2>2, <3>1, <3>2 DEF PauseType, FlagSets, PausedWhenInHeadroom
  <2>3. CASE UNCHANGED <<pauseVars, frames>>
    BY <2>1, <2>3 DEF PauseType, FlagSets, PausedWhenInHeadroom, pauseVars
  <2> QED
    BY <1>1, <1>2, <2>2, <2>3 DEF CheckAndSendPfc
<1> QED
  BY <1>1, <1>2 DEF CheckAndSendPfc

LEMMA ResumeSent ==
    ASSUME PauseType, NEW p \in Ports, CheckAndSendResume(p)
    PROVE  PauseType' /\ pauseRemote' = pauseRemote
<1>1. CASE Resume(p)
  <2>1. /\ SendPfc(p, "RESUME")
        /\ paused' = [paused EXCEPT ![p] = FALSE]
        /\ resumeEvt' = [resumeEvt EXCEPT ![p] = FALSE]
    BY <1>1 DEF Resume
  <2>2. frames' \in [Ports -> Seq({"PAUSE", "RESUME"})]
    BY <2>1, FrameSent
  <2> QED
    BY <2>1, <2>2 DEF CheckAndSendResume, PauseType, FlagSets
<1>2. CASE UNCHANGED <<paused, resumeEvt, frames>>
  BY <1>2 DEF CheckAndSendResume, PauseType
<1> QED
  BY <1>1, <1>2 DEF CheckAndSendResume

-------------------------------------------------------------------------------
(* A packet is stored.                                                     *)

LEMMA FromInQueue == \A p \in Ports : BytesFrom(p) = QueuedFrom(queue, p)
BY DEF BytesFrom, QueuedFrom

LEMMA FromInQueueNext == \A p \in Ports : BytesFrom(p)' = QueuedFrom(queue', p)
BY DEF BytesFrom, QueuedFrom, Total, SumTo, BytesOf

LEMMA StoreStep ==
    ASSUME IInv, NEW in \in Ports, NEW out \in Ports, NEW size \in Sizes \cup {HeaderBytes},
           Store(in, out, size), UNCHANGED <<stopped, linkUp>>
    PROVE  IInv'
<1> DEFINE packet == [in |-> in, size |-> size]
           shared == SharedPart(egressQMin[out], size)
<1>1. /\ TypeParts /\ size \in Nat
      /\ packet \in Packets /\ packet.in = in /\ packet.size = size
  BY TypeInParts, Constants DEF IInv, Packets
<1>2. /\ queue \in [Ports -> Seq(Packets)] /\ queue[out] \in Seq(Packets)
      /\ Append(queue[out], packet) \in Seq(Packets)
      /\ queue' = [queue EXCEPT ![out] = Append(queue[out], packet)]
      /\ queue' \in [Ports -> Seq(Packets)]
  <2>1. queue \in [Ports -> Seq(Packets)] /\ queue[out] \in Seq(Packets)
    BY <1>1 DEF TypeParts
  <2>2. queue' = [queue EXCEPT ![out] = Append(queue[out], packet)]
    BY DEF Store
  <2> QED
    BY <1>1, <2>1, <2>2
<1> HIDE DEF packet
<1>3. /\ ingressSP' = ingressSP + size
      /\ ingressPG' = [ingressPG EXCEPT ![in] = ingressPG[in] + size]
      /\ headroom' = IF InHeadroom(size) THEN [headroom EXCEPT ![in] = headroom[in] + size]
                                         ELSE headroom
  BY DEF Store, UpdateIngressAdmission
<1>4. /\ egressQMin' = [egressQMin EXCEPT ![out] = egressQMin[out] + size - shared]
      /\ egressShared' = [egressShared EXCEPT ![out] = egressShared[out] + shared]
      /\ egressSP' = egressSP + shared
      /\ egressPort' = [egressPort EXCEPT ![out] = egressPort[out] + size]
  BY DEF Store, UpdateEgressAdmission
<1>5. /\ ingressPG \in [Ports -> Nat] /\ ingressSP \in Nat /\ headroom \in [Ports -> Nat]
      /\ egressQMin \in [Ports -> 0 .. QMin] /\ egressShared \in [Ports -> Nat]
      /\ egressPort \in [Ports -> Nat] /\ egressSP \in Nat
  BY <1>1 DEF TypeParts, CounterType, Counters
<1>6. /\ egressQMin[out] \in 0 .. QMin /\ egressPort[out] \in Nat /\ egressShared[out] \in Nat
      /\ egressQMin[out] = IF egressPort[out] < QMin THEN egressPort[out] ELSE QMin
      /\ egressShared[out] = egressPort[out] - egressQMin[out]
      /\ QMin \in Nat
  BY <1>5, Constants DEF IInv, MinimumFirst
<1>7. shared \in Nat /\ egressQMin[out] + size - shared \in 0 .. QMin
  BY <1>1, <1>6 DEF SharedPart
<1>8. egressQMin[out] + size - shared = IF egressPort[out] + size < QMin
                                        THEN egressPort[out] + size ELSE QMin
  BY <1>1, <1>6 DEF SharedPart
<1>9. egressShared[out] + shared = (egressPort[out] + size) - (egressQMin[out] + size - shared)
  BY <1>1, <1>6, <1>7
<1> HIDE DEF shared
<1>10. CounterType'
  BY <1>1, <1>3, <1>4, <1>5, <1>7 DEF CounterType, Counters
<1>11. PauseType' /\ PausedWhenInHeadroom(in)
  BY <1>1, PfcSent DEF Store, TypeParts
<1>12. TypeParts'
  BY <1>1, <1>2, <1>10, <1>11 DEF TypeParts
<1>13. \A p \in Ports : BytesFrom(p)' = BytesFrom(p) + (IF p = in THEN size ELSE 0)
  <2> SUFFICES ASSUME NEW p \in Ports
               PROVE  BytesFrom(p)' = BytesFrom(p) + (IF p = in THEN size ELSE 0)
    OBVIOUS
  <2> DEFINE q == Append(queue[out], packet)
  <2>0. /\ queue \in [Ports -> Seq(Packets)] /\ q \in Seq(Packets)
        /\ queue'[out] = q /\ \A o \in Ports : o # out => queue'[o] = queue[o]
    BY <1>2
  <2>1. BytesFrom(p)' = QueuedFrom(queue, p) + (BytesOf(q, {p}) - BytesOf(queue[out], {p}))
    <3> HIDE DEF q
    <3>1. QueuedFrom(queue', p) = QueuedFrom(queue, p) + (BytesOf(q, {p}) - BytesOf(queue[out], {p}))
      BY <2>0, QueuedChanged
    <3> QED
      BY <3>1, FromInQueueNext
  <2>2. BytesOf(Append(queue[out], packet), {p}) = BytesOf(queue[out], {p}) + Share(packet, {p})
    BY <1>1, <1>2, BytesAppended
  <2>3. Share(packet, {p}) = IF p = in THEN size ELSE 0
    BY <1>1 DEF Share
  <2>4. BytesOf(queue[out], {p}) \in Nat /\ QueuedFrom(queue, p) \in Nat
    BY <1>2, BytesNat, QueuedFacts
  <2> QED
    BY <1>1, <2>1, <2>2, <2>3, <2>4, FromInQueue
<1>14. \A p \in Ports : BytesOf(queue[p], Ports)'
                          = BytesOf(queue[p], Ports) + (IF p = out THEN size ELSE 0)
  <2>1. BytesOf(Append(queue[out], packet), Ports) = BytesOf(queue[out], Ports) + size
    <3>1. Share(packet, Ports) = size
      BY <1>1 DEF Share
    <3> QED
      BY <1>1, <1>2, <3>1, BytesAppended
  <2>2. \A p \in Ports : BytesOf(queue[p], Ports)' = BytesOf(queue'[p], Ports)
    BY DEF BytesOf, SumTo
  <2>3. \A p \in Ports : BytesOf(queue[p], Ports) \in Nat
    BY <1>2, BytesNat
  <2>4. queue'[out] = Append(queue[out], packet) /\ \A p \in Ports : p # out => queue'[p] = queue[p]
    BY <1>2
  <2>5. ASSUME NEW p \in Ports
        PROVE  BytesOf(queue[p], Ports)' = BytesOf(queue[p], Ports) + (IF p = out THEN size ELSE 0)
    <3>1. CASE p = out
      BY <2>1, <2>2, <2>4, <3>1
    <3>2. CASE p # out
      BY <2>2, <2>3, <2>4, <3>2
    <3> QED
      BY <3>1, <3>2
  <2> QED
    BY <2>5
<1>15. \A p \in Ports : BytesFrom(p) \in Nat /\ BytesOf(queue[p], Ports) \in Nat
  BY <1>2, FromInQueue, QueuedFacts, BytesNat
<1>16. \A p \in Ports : /\ ingressPG'[p] = ingressPG[p] + (IF p = in THEN size ELSE 0)
                        /\ egressPort'[p] = egressPort[p] + (IF p = out THEN size ELSE 0)
                        /\ ingressPG[p] \in Nat /\ egressPort[p] \in Nat
  BY <1>3, <1>4, <1>5
<1>17. QueuedCounted'
  <2>1. QueuedCounted
    BY DEF IInv
  <2> SUFFICES ASSUME NEW p \in Ports
               PROVE  BytesFrom(p)' <= ingressPG'[p] /\ BytesOf(queue[p], Ports)' <= egressPort'[p]
    BY DEF QueuedCounted
  <2>2. BytesFrom(p) <= ingressPG[p] /\ BytesOf(queue[p], Ports) <= egressPort[p]
    BY <2>1 DEF QueuedCounted
  <2> QED
    BY <1>1, <1>13, <1>14, <1>15, <1>16, <2>2
<1>18. ExactWhileUp'
  <2>1. ExactWhileUp /\ linkUp' = linkUp
    BY DEF IInv
  <2> QED
    BY <1>13, <1>14, <1>16, <2>1 DEF ExactWhileUp
<1>19. PoolsAreSums'
  <2>1. Total(ingressPG') = Total(ingressPG) + size
    <3>1. /\ \A p \in Ports : ingressPG[p] \in Int
          /\ ingressPG'[in] = ingressPG[in] + size /\ size \in Int
          /\ \A p \in Ports : p # in => ingressPG'[p] = ingressPG[p]
      BY <1>1, <1>3, <1>5
    <3> QED
      BY <3>1, TotalChanged
  <2>2. Total(egressShared') = Total(egressShared) + shared
    <3>1. /\ \A p \in Ports : egressShared[p] \in Int
          /\ egressShared'[out] = egressShared[out] + shared /\ shared \in Int
          /\ \A p \in Ports : p # out => egressShared'[p] = egressShared[p]
      BY <1>4, <1>5, <1>7
    <3> QED
      BY <3>1, TotalChanged
  <2>3. Total(ingressPG)' = Total(ingressPG') /\ Total(egressShared)' = Total(egressShared')
    BY DEF Total, SumTo
  <2> QED
    BY <1>3, <1>4, <2>1, <2>2, <2>3 DEF IInv, PoolsAreSums
<1>20. MinimumFirst'
  <2>1. MinimumFirst
    BY DEF IInv
  <2> SUFFICES ASSUME NEW p \in Ports
               PROVE  /\ egressQMin'[p] = IF egressPort'[p] < QMin THEN egressPort'[p] ELSE QMin
                      /\ egressShared'[p] = egressPort'[p] - egressQMin'[p]
    BY DEF MinimumFirst
  <2>2. CASE p = out
    BY <1>4, <1>5, <1>8, <1>9, <2>2
  <2>3. CASE p # out
    BY <1>4, <1>5, <2>1, <2>3 DEF MinimumFirst
  <2> QED
    BY <2>2, <2>3
<1>21. \A p \in Ports : /\ headroom'[p] \in {headroom[p], headroom[p] + (IF p = in THEN size ELSE 0)}
                        /\ headroom[p] \in Nat
  BY <1>1, <1>3, <1>5
<1>22. HeadroomWithin'
  BY <1>1, <1>16, <1>21 DEF IInv, HeadroomWithin
<1>23. OverflowInHeadroom'
  <2>1. Total(headroom)' = Total(headroom') /\ Total(headroom) \in Nat /\ Total(headroom') \in Nat
    <3>1. headroom' \in [Ports -> Nat]
      BY <1>10 DEF CounterType, Counters
    <3>2. Total(headroom)' = Total(headroom')
      BY DEF Total, SumTo
    <3> QED
      BY <1>5, <3>1, <3>2, TotalNat
  <2>2. CASE InHeadroom(size)
    <3>0. /\ \A p \in Ports : headroom[p] \in Int
          /\ headroom'[in] = headroom[in] + size /\ size \in Int
          /\ \A p \in Ports : p # in => headroom'[p] = headroom[p]
      BY <1>1, <1>3, <1>5, <2>2
    <3>1. Total(headroom') = Total(headroom) + size
      BY <3>0, TotalChanged
    <3> QED
      BY <1>1, <1>3, <1>5, <2>1, <3>1, Constants DEF IInv, OverflowInHeadroom, SpLimit, OpSharedLimit
  <2>3. CASE ~InHeadroom(size)
    <3>1. ingressSP' <= SpLimit
      BY <1>1, <1>3, <1>5, <2>3, Constants DEF InHeadroom
    <3>2. ingressSP' \in Int
      BY <1>1, <1>3, <1>5
    <3> QED
      BY <2>1, <3>1, <3>2, Constants DEF OverflowInHeadroom
  <2> QED
    BY <2>2, <2>3
<1>24. DeepHeadroomPaused'
  <2> SUFFICES ASSUME NEW p \in Ports, headroom'[p] > 2 * MTU PROVE pauseRemote'[p]
    BY DEF DeepHeadroomPaused
  <2>1. CASE p = in
    <3>1. headroom'[in] <= ingressPG'[in] /\ headroom'[in] \in Nat /\ ingressPG'[in] \in Nat
      BY <1>22, <1>10 DEF HeadroomWithin, CounterType, Counters
    <3>2. ingressPG'[in] > 2 * MTU /\ headroom'[in] # 0
      BY <2>1, <3>1 DEF MTU
    <3> QED
      BY <1>11, <2>1, <3>2 DEF PausedWhenInHeadroom
  <2>2. CASE p # in
    <3>1. headroom'[p] = headroom[p]
      BY <1>3, <1>5, <2>2
    <3> QED
      BY <1>11, <2>2, <3>1 DEF IInv, DeepHeadroomPaused, PausedWhenInHeadroom
  <2> QED
    BY <2>1, <2>2
<1> QED
  BY <1>12, <1>17, <1>18, <1>19, <1>20, <1>22, <1>23, <1>24, TypeInPartsNext DEF IInv

-------------------------------------------------------------------------------
(* A packet leaves.                                                        *)

LEMMA DequeueStep ==
    ASSUME IInv, NEW out \in Ports, SwitchNotifyDequeue(out)
    PROVE  IInv'
<1> DEFINE packet == Head(queue[out])
           in == packet.in
           size == packet.size
           shared == FromShared(egressShared[out], egressQMin[out], size)
           left == HeadroomAfter(headroom[in], size)
<1>1. /\ TypeParts /\ queue \in [Ports -> Seq(Packets)] /\ queue[out] \in Seq(Packets)
      /\ queue[out] # <<>> /\ packet \in Packets /\ Tail(queue[out]) \in Seq(Packets)
  <2>1. TypeParts
    BY TypeInParts DEF IInv
  <2>2. queue \in [Ports -> Seq(Packets)] /\ queue[out] \in Seq(Packets) /\ queue[out] # <<>>
    BY <2>1 DEF TypeParts, SwitchNotifyDequeue
  <2> QED
    BY <2>1, <2>2
<1>2. /\ queue' = [queue EXCEPT ![out] = Tail(queue[out])]
      /\ queue' \in [Ports -> Seq(Packets)]
      /\ UNCHANGED <<stopped, linkUp>>
  BY <1>1 DEF SwitchNotifyDequeue
<1>3. /\ ingressSP' = ingressSP - size
      /\ ingressPG' = [ingressPG EXCEPT ![in] = ingressPG[in] - size]
      /\ headroom' = [headroom EXCEPT ![in] = left]
  BY DEF SwitchNotifyDequeue, RemoveFromIngressAdmission
<1>4. /\ egressQMin' = [egressQMin EXCEPT ![out] = egressQMin[out] - (size - shared)]
      /\ egressShared' = [egressShared EXCEPT ![out] = egressShared[out] - shared]
      /\ egressSP' = egressSP - shared
      /\ egressPort' = [egressPort EXCEPT ![out] = egressPort[out] - size]
  BY DEF SwitchNotifyDequeue, RemoveFromEgressAdmission
<1>5. CheckAndSendResume(in)
  BY DEF SwitchNotifyDequeue
<1>6. in \in Ports /\ size \in Nat
  BY <1>1, PacketFacts
<1>7. \A ports : BytesOf(queue[out], ports) = Share(packet, ports) + BytesOf(Tail(queue[out]), ports)
  BY <1>1, BytesTaken
<1>8. \A p \in Ports : Share(packet, {p}) = IF p = in THEN size ELSE 0
  BY DEF Share
<1>9. Share(packet, Ports) = size
  BY <1>6 DEF Share
<1> HIDE DEF packet, in, size
<1>10. /\ ingressPG \in [Ports -> Nat] /\ ingressSP \in Nat /\ headroom \in [Ports -> Nat]
       /\ egressQMin \in [Ports -> 0 .. QMin] /\ egressShared \in [Ports -> Nat]
       /\ egressPort \in [Ports -> Nat] /\ egressSP \in Nat
  BY <1>1 DEF TypeParts, CounterType, Counters
<1>11. \A p \in Ports : BytesFrom(p)' = BytesFrom(p) - (IF p = in THEN size ELSE 0)
  <2> SUFFICES ASSUME NEW p \in Ports
               PROVE  BytesFrom(p)' = BytesFrom(p) - (IF p = in THEN size ELSE 0)
    OBVIOUS
  <2> DEFINE q == Tail(queue[out])
  <2>0. /\ queue \in [Ports -> Seq(Packets)] /\ q \in Seq(Packets)
        /\ queue'[out] = q /\ \A o \in Ports : o # out => queue'[o] = queue[o]
    BY <1>1, <1>2
  <2>1. BytesFrom(p)' = QueuedFrom(queue, p) + (BytesOf(q, {p}) - BytesOf(queue[out], {p}))
    <3> HIDE DEF q
    <3>1. QueuedFrom(queue', p) = QueuedFrom(queue, p) + (BytesOf(q, {p}) - BytesOf(queue[out], {p}))
      BY <2>0, QueuedChanged
    <3> QED
      BY <3>1, FromInQueueNext
  <2>2. BytesOf(queue[out], {p}) = (IF p = in THEN size ELSE 0) + BytesOf(q, {p})
    BY <1>7, <1>8
  <2>3. BytesOf(queue[out], {p}) \in Nat /\ BytesOf(q, {p}) \in Nat /\ QueuedFrom(queue, p) \in Nat
    BY <1>1, BytesNat, QueuedFacts
  <2> HIDE DEF q
  <2> QED
    BY <1>6, <2>1, <2>2, <2>3, FromInQueue
<1>12. \A p \in Ports : BytesOf(queue[p], Ports)'
                          = BytesOf(queue[p], Ports) - (IF p = out THEN size ELSE 0)
  <2>1. BytesOf(queue[out], Ports) = size + BytesOf(Tail(queue[out]), Ports)
    BY <1>7, <1>9
  <2>2. \A p \in Ports : BytesOf(queue[p], Ports)' = BytesOf(queue'[p], Ports)
    BY DEF BytesOf, SumTo
  <2>3. /\ \A p \in Ports : BytesOf(queue[p], Ports) \in Nat
        /\ BytesOf(Tail(queue[out]), Ports) \in Nat
    BY <1>1, BytesNat
  <2>4. queue'[out] = Tail(queue[out]) /\ \A p \in Ports : p # out => queue'[p] = queue[p]
    BY <1>1, <1>2
  <2>5. ASSUME NEW p \in Ports
        PROVE  BytesOf(queue[p], Ports)' = BytesOf(queue[p], Ports) - (IF p = out THEN size ELSE 0)
    <3>1. CASE p = out
      BY <1>6, <2>1, <2>2, <2>3, <2>4, <3>1
    <3>2. CASE p # out
      BY <2>2, <2>3, <2>4, <3>2
    <3> QED
      BY <3>1, <3>2
  <2> QED
    BY <2>5
<1>13. size <= ingressPG[in] /\ size <= egressPort[out]
  <2>1. /\ BytesOf(queue[out], {in}) = size + BytesOf(Tail(queue[out]), {in})
        /\ BytesOf(queue[out], Ports) = size + BytesOf(Tail(queue[out]), Ports)
    BY <1>6, <1>7, <1>8, <1>9
  <2>2. /\ BytesOf(Tail(queue[out]), {in}) \in Nat /\ BytesOf(Tail(queue[out]), Ports) \in Nat
        /\ BytesOf(queue[out], {in}) \in Nat /\ BytesOf(queue[out], Ports) \in Nat
    BY <1>1, BytesNat
  <2>3. BytesOf(queue[out], {in}) <= BytesFrom(in) /\ BytesFrom(in) \in Nat
    BY <1>1, <1>6, FromInQueue, QueuedFacts
  <2>4. BytesFrom(in) <= ingressPG[in] /\ BytesOf(queue[out], Ports) <= egressPort[out]
    BY <1>6 DEF IInv, QueuedCounted
  <2>5. ingressPG[in] \in Nat /\ egressPort[out] \in Nat
    BY <1>6, <1>10
  <2> QED
    BY <1>6, <2>1, <2>2, <2>3, <2>4, <2>5
<1>14. /\ egressQMin[out] \in 0 .. QMin /\ egressPort[out] \in Nat /\ egressShared[out] \in Nat
       /\ egressQMin[out] = IF egressPort[out] < QMin THEN egressPort[out] ELSE QMin
       /\ egressShared[out] = egressPort[out] - egressQMin[out]
       /\ QMin \in Nat
  BY <1>10, Constants DEF IInv, MinimumFirst
<1>15. /\ shared \in Nat /\ shared <= egressShared[out]
       /\ egressQMin[out] - (size - shared) \in 0 .. QMin
  BY <1>6, <1>13, <1>14 DEF FromShared
<1>16. egressQMin[out] - (size - shared) = IF egressPort[out] - size < QMin
                                           THEN egressPort[out] - size ELSE QMin
  BY <1>6, <1>13, <1>14 DEF FromShared
<1>17. egressShared[out] - shared = (egressPort[out] - size) - (egressQMin[out] - (size - shared))
  BY <1>6, <1>14, <1>15
<1> HIDE DEF shared
<1>18. headroom[in] \in Nat /\ headroom[in] <= ingressPG[in] /\ ingressPG[in] \in Nat
  BY <1>6, <1>10 DEF IInv, HeadroomWithin
<1>19. /\ left \in Nat /\ left <= headroom[in] /\ headroom[in] - size <= left
       /\ left <= ingressPG[in] - size
  BY <1>6, <1>13, <1>18 DEF HeadroomAfter
<1> HIDE DEF left
<1>20. /\ ingressPG' \in [Ports -> Nat] /\ headroom' \in [Ports -> Nat]
       /\ egressQMin' \in [Ports -> 0 .. QMin] /\ egressShared' \in [Ports -> Nat]
       /\ egressPort' \in [Ports -> Nat]
  <2>1. /\ ingressPG[in] - size \in Nat /\ egressShared[out] - shared \in Nat
        /\ egressPort[out] - size \in Nat
    BY <1>6, <1>13, <1>14, <1>15, <1>18
  <2> QED
    BY <1>3, <1>4, <1>10, <1>15, <1>19, <2>1
<1>21. /\ Total(ingressPG') = Total(ingressPG) + (0 - size)
       /\ Total(egressShared') = Total(egressShared) + (0 - shared)
       /\ Total(headroom') = Total(headroom) + (left - headroom[in])
  <2>1. /\ \A p \in Ports : ingressPG[p] \in Int
        /\ ingressPG'[in] = ingressPG[in] + (0 - size) /\ 0 - size \in Int
        /\ \A p \in Ports : p # in => ingressPG'[p] = ingressPG[p]
    BY <1>3, <1>6, <1>10
  <2>2. /\ \A p \in Ports : egressShared[p] \in Int
        /\ egressShared'[out] = egressShared[out] + (0 - shared) /\ 0 - shared \in Int
        /\ \A p \in Ports : p # out => egressShared'[p] = egressShared[p]
    BY <1>4, <1>10, <1>15
  <2>3. /\ \A p \in Ports : headroom[p] \in Int
        /\ headroom'[in] = headroom[in] + (left - headroom[in]) /\ left - headroom[in] \in Int
        /\ \A p \in Ports : p # in => headroom'[p] = headroom[p]
    BY <1>3, <1>6, <1>10, <1>19
  <2>4. Total(ingressPG') = Total(ingressPG) + (0 - size)
    BY <1>6, <2>1, TotalChanged
  <2>5. Total(egressShared') = Total(egressShared) + (0 - shared)
    BY <2>2, TotalChanged
  <2>6. Total(headroom') = Total(headroom) + (left - headroom[in])
    BY <1>6, <2>3, TotalChanged
  <2> QED
    BY <2>4, <2>5, <2>6
<1>22. /\ Total(ingressPG)' = Total(ingressPG') /\ Total(egressShared)' = Total(egressShared')
       /\ Total(headroom)' = Total(headroom')
  BY DEF Total, SumTo
<1>23. PoolsAreSums'
  BY <1>3, <1>4, <1>6, <1>10, <1>15, <1>21, <1>22 DEF IInv, PoolsAreSums
<1>24. CounterType'
  <2>1. Total(ingressPG') \in Nat /\ Total(egressShared') \in Nat
    BY <1>20, TotalNat
  <2>2. ingressSP' \in Nat /\ egressSP' \in Nat
    BY <1>22, <1>23, <2>1 DEF PoolsAreSums
  <2> QED
    BY <1>20, <2>2 DEF CounterType, Counters
<1>25. PauseType' /\ pauseRemote' = pauseRemote
  BY <1>1, <1>5, <1>6, ResumeSent DEF TypeParts
<1>26. TypeParts'
  BY <1>1, <1>2, <1>24, <1>25 DEF TypeParts
<1>27. \A p \in Ports : /\ ingressPG'[p] = ingressPG[p] - (IF p = in THEN size ELSE 0)
                        /\ egressPort'[p] = egressPort[p] - (IF p = out THEN size ELSE 0)
                        /\ ingressPG[p] \in Nat /\ egressPort[p] \in Nat
                        /\ BytesFrom(p) \in Nat /\ BytesOf(queue[p], Ports) \in Nat
  <2>1. \A p \in Ports : BytesFrom(p) \in Nat /\ BytesOf(queue[p], Ports) \in Nat
    BY <1>1, FromInQueue, QueuedFacts, BytesNat
  <2>2. \A p \in Ports : /\ ingressPG'[p] = ingressPG[p] - (IF p = in THEN size ELSE 0)
                         /\ egressPort'[p] = egressPort[p] - (IF p = out THEN size ELSE 0)
                         /\ ingressPG[p] \in Nat /\ egressPort[p] \in Nat
    BY <1>3, <1>4, <1>6, <1>10
  <2> QED
    BY <2>1, <2>2
<1>28. QueuedCounted'
  <2>1. QueuedCounted
    BY DEF IInv
  <2> SUFFICES ASSUME NEW p \in Ports
               PROVE  BytesFrom(p)' <= ingressPG'[p] /\ BytesOf(queue[p], Ports)' <= egressPort'[p]
    BY DEF QueuedCounted
  <2>2. BytesFrom(p) <= ingressPG[p] /\ BytesOf(queue[p], Ports) <= egressPort[p]
    BY <2>1 DEF QueuedCounted
  <2> QED
    BY <1>6, <1>11, <1>12, <1>27, <2>2
<1>29. ExactWhileUp'
  <2>1. ExactWhileUp /\ linkUp' = linkUp
    BY <1>2 DEF IInv
  <2> QED
    BY <1>11, <1>12, <1>27, <2>1 DEF ExactWhileUp
<1>30. MinimumFirst'
  <2>1. MinimumFirst
    BY DEF IInv
  <2> SUFFICES ASSUME NEW p \in Ports
               PROVE  /\ egressQMin'[p] = IF egressPort'[p] < QMin THEN egressPort'[p] ELSE QMin
                      /\ egressShared'[p] = egressPort'[p] - egressQMin'[p]
    BY DEF MinimumFirst
  <2>2. CASE p = out
    BY <1>4, <1>10, <1>16, <1>17, <2>2
  <2>3. CASE p # out
    BY <1>4, <1>10, <2>1, <2>3 DEF MinimumFirst
  <2> QED
    BY <2>2, <2>3
<1>31. HeadroomWithin'
  <2> SUFFICES ASSUME NEW p \in Ports PROVE headroom'[p] <= ingressPG'[p]
    BY DEF HeadroomWithin
  <2>1. CASE p = in
    BY <1>3, <1>10, <1>19, <2>1
  <2>2. CASE p # in
    BY <1>3, <1>10, <2>2 DEF IInv, HeadroomWithin
  <2> QED
    BY <2>1, <2>2
<1>32. OverflowInHeadroom'
  <2>1. Total(headroom) \in Nat
    BY <1>10, TotalNat
  <2>2. ingressSP - SpLimit <= Total(headroom)
    BY DEF IInv, OverflowInHeadroom
  <2>3. SpLimit \in Int /\ SpLimit' = SpLimit
    BY Constants DEF SpLimit, OpSharedLimit
  <2>4. (ingressSP - size) - SpLimit <= Total(headroom) + (left - headroom[in])
    BY <1>6, <1>10, <1>18, <1>19, <2>1, <2>2, <2>3
  <2> QED
    BY <1>3, <1>21, <1>22, <2>3, <2>4 DEF OverflowInHeadroom
<1>33. DeepHeadroomPaused'
  <2> SUFFICES ASSUME NEW p \in Ports, headroom'[p] > 2 * MTU PROVE pauseRemote[p]
    BY <1>25 DEF DeepHeadroomPaused
  <2>1. headroom'[p] <= headroom[p] /\ headroom[p] \in Nat /\ headroom'[p] \in Nat
    BY <1>3, <1>10, <1>19, <1>20
  <2>2. headroom[p] > 2 * MTU
    BY <2>1 DEF MTU
  <2> QED
    BY <2>2 DEF IInv, DeepHeadroomPaused
<1> QED
  BY <1>23, <1>26, <1>28, <1>29, <1>30, <1>31, <1>32, <1>33, TypeInPartsNext DEF IInv

-------------------------------------------------------------------------------
(* A link goes down, and the steps that leave the buffer alone.            *)

\* The invariant of the buffer, when no counter changes.
LEMMA CountersStay ==
    ASSUME IInv, UNCHANGED <<ingressVars, egressVars>>
    PROVE  /\ CounterType' /\ PoolsAreSums' /\ MinimumFirst' /\ HeadroomWithin'
           /\ OverflowInHeadroom'
           /\ pauseRemote' = pauseRemote => DeepHeadroomPaused'
<1>1. CounterType
  BY TypeInParts DEF IInv, TypeParts
<1>2. /\ Total(ingressPG)' = Total(ingressPG) /\ Total(egressShared)' = Total(egressShared)
      /\ Total(headroom)' = Total(headroom)
  BY DEF ingressVars, egressVars, Total, SumTo
<1>3. CounterType'
  BY <1>1 DEF CounterType, ingressVars, egressVars
<1>4. PoolsAreSums' /\ MinimumFirst' /\ HeadroomWithin'
  BY <1>2 DEF IInv, PoolsAreSums, MinimumFirst, HeadroomWithin, ingressVars, egressVars
<1>5. OverflowInHeadroom'
  BY <1>2 DEF IInv, OverflowInHeadroom, ingressVars
<1>6. pauseRemote' = pauseRemote => DeepHeadroomPaused'
  BY DEF IInv, DeepHeadroomPaused, ingressVars
<1> QED
  BY <1>3, <1>4, <1>5, <1>6

LEMMA BufferStays ==
    ASSUME IInv, UNCHANGED <<queue, ingressVars, egressVars, pauseRemote, linkUp>>,
           PauseType', stopped' \in FlagSets
    PROVE  IInv'
<1>1. TypeParts
  BY TypeInParts DEF IInv
<1>2. /\ CounterType' /\ PoolsAreSums' /\ MinimumFirst' /\ HeadroomWithin'
      /\ OverflowInHeadroom' /\ DeepHeadroomPaused'
  BY CountersStay
<1>3. TypeParts'
  BY <1>1, <1>2 DEF TypeParts
<1>4. \A p \in Ports : /\ BytesFrom(p)' = BytesFrom(p)
                       /\ BytesOf(queue[p], Ports)' = BytesOf(queue[p], Ports)
  BY DEF BytesFrom, Total, SumTo, BytesOf
<1>5. QueuedCounted' /\ ExactWhileUp'
  BY <1>4 DEF IInv, QueuedCounted, ExactWhileUp, ingressVars, egressVars
<1> QED
  BY <1>2, <1>3, <1>5, TypeInPartsNext DEF IInv

LEMMA TakeDownStep ==
    ASSUME IInv, NEW out \in Ports, TakeDown(out)
    PROVE  IInv'
<1>1. /\ linkUp[out] /\ linkUp' = [linkUp EXCEPT ![out] = FALSE]
      /\ queue' = [queue EXCEPT ![out] = <<>>]
      /\ frames' = [frames EXCEPT ![out] = <<>>]
      /\ \E still \in BOOLEAN : stopped' = [stopped EXCEPT ![out] = @ /\ still]
      /\ UNCHANGED <<ingressVars, egressVars, pauseVars>>
  BY DEF TakeDown
<1>2. /\ CounterType' /\ PoolsAreSums' /\ MinimumFirst' /\ HeadroomWithin'
      /\ OverflowInHeadroom' /\ DeepHeadroomPaused'
  BY <1>1, CountersStay DEF pauseVars
<1>3. TypeParts /\ queue \in [Ports -> Seq(Packets)] /\ linkUp \in FlagSets
  BY TypeInParts DEF IInv, TypeParts
<1>4. queue' \in [Ports -> Seq(Packets)] /\ queue'[out] = <<>> /\ <<>> \in Seq(Packets)
      /\ \A o \in Ports : o # out => queue'[o] = queue[o]
  BY <1>1, <1>3
<1>5. TypeParts'
  <2>1. PauseType'
    BY <1>1, <1>3 DEF TypeParts, PauseType, pauseVars
  <2>2. stopped' \in FlagSets /\ linkUp' \in FlagSets
    BY <1>1, <1>3 DEF TypeParts, FlagSets
  <2> QED
    BY <1>2, <1>4, <2>1, <2>2 DEF TypeParts
<1>6. \A p \in Ports : BytesFrom(p)' <= BytesFrom(p) /\ BytesFrom(p) \in Nat /\ BytesFrom(p)' \in Nat
  <2> SUFFICES ASSUME NEW p \in Ports
               PROVE  BytesFrom(p)' <= BytesFrom(p) /\ BytesFrom(p) \in Nat /\ BytesFrom(p)' \in Nat
    OBVIOUS
  <2>1. QueuedFrom(queue', p)
           = QueuedFrom(queue, p) + (BytesOf(queue'[out], {p}) - BytesOf(queue[out], {p}))
    BY <1>3, <1>4, QueuedChanged
  <2>2. BytesOf(queue'[out], {p}) = 0
    BY <1>4, BytesOfNone
  <2>3. BytesOf(queue[out], {p}) \in Nat
    BY <1>3, BytesNat
  <2>4. QueuedFrom(queue, p) \in Nat /\ QueuedFrom(queue', p) \in Nat
    BY <1>3, <1>4, QueuedFacts
  <2> QED
    BY <2>1, <2>2, <2>3, <2>4, FromInQueue, FromInQueueNext
<1>7. \A p \in Ports : /\ BytesOf(queue[p], Ports)' <= BytesOf(queue[p], Ports)
                       /\ BytesOf(queue[p], Ports) \in Nat /\ BytesOf(queue[p], Ports)' \in Nat
  <2>1. \A p \in Ports : BytesOf(queue[p], Ports)' = BytesOf(queue'[p], Ports)
    BY DEF BytesOf, SumTo
  <2>2. \A p \in Ports : BytesOf(queue[p], Ports) \in Nat /\ BytesOf(queue'[p], Ports) \in Nat
    BY <1>3, <1>4, BytesNat
  <2>3. BytesOf(queue'[out], Ports) = 0
    BY <1>4, BytesOfNone
  <2>4. ASSUME NEW p \in Ports PROVE BytesOf(queue'[p], Ports) <= BytesOf(queue[p], Ports)
    <3>1. CASE p = out
      BY <2>2, <2>3, <3>1
    <3>2. CASE p # out
      BY <1>4, <2>2, <3>2
    <3> QED
      BY <3>1, <3>2
  <2> QED
    BY <2>1, <2>2, <2>4
<1>8. QueuedCounted'
  <2>1. \A p \in Ports : /\ ingressPG'[p] = ingressPG[p] /\ egressPort'[p] = egressPort[p]
                         /\ ingressPG[p] \in Nat /\ egressPort[p] \in Nat
    BY <1>1, <1>3 DEF ingressVars, egressVars, TypeParts, CounterType, Counters
  <2> QED
    BY <1>6, <1>7, <2>1 DEF IInv, QueuedCounted
<1>9. ExactWhileUp'
  BY <1>1, <1>3 DEF ExactWhileUp, FlagSets
<1> QED
  BY <1>2, <1>5, <1>8, <1>9, TypeInPartsNext DEF IInv

LEMMA StepInv == IInv /\ [Next]_vars => IInv'
<1> SUFFICES ASSUME IInv, [Next]_vars PROVE IInv'
  OBVIOUS
<1>0. TypeParts /\ PauseType /\ stopped \in FlagSets
  BY TypeInParts DEF IInv, TypeParts
<1>1. ASSUME NEW r \in Routes, NEW z \in Sizes, DoSwitchSend(r[1], r[2], z) PROVE IInv'
  <2>1. r[1] \in Ports /\ r[2] \in Ports
    BY MmuAssumption
  <2>2. UNCHANGED <<stopped, linkUp>>
    BY <1>1 DEF DoSwitchSend
  <2>3. \/ \E size \in Sizes \cup {HeaderBytes} : Store(r[1], r[2], size)
        \/ UNCHANGED <<queue, ingressVars, egressVars, pauseVars, frames>>
    BY <1>1 DEF DoSwitchSend
  <2>4. CASE \E size \in Sizes \cup {HeaderBytes} : Store(r[1], r[2], size)
    BY <2>1, <2>2, <2>4, StoreStep
  <2>5. CASE UNCHANGED <<queue, ingressVars, egressVars, pauseVars, frames>>
    <3>1. PauseType' /\ UNCHANGED <<queue, ingressVars, egressVars, pauseRemote, linkUp>>
          /\ stopped' \in FlagSets
      BY <1>0, <2>2, <2>5 DEF PauseType, pauseVars
    <3> QED
      BY <3>1, BufferStays
  <2> QED
    BY <2>3, <2>4, <2>5
<1>2. ASSUME NEW p \in Ports, SwitchNotifyDequeue(p) PROVE IInv'
  BY <1>2, DequeueStep
<1>3. ASSUME NEW p \in Ports, PauseExpires(p) PROVE IInv'
  <2>1. /\ PauseType' /\ UNCHANGED <<queue, ingressVars, egressVars, pauseRemote, linkUp>>
        /\ stopped' \in FlagSets
    BY <1>0, <1>3 DEF PauseExpires, PauseType, FlagSets
  <2> QED
    BY <2>1, BufferStays
<1>4. ASSUME NEW p \in Ports, ReceivePfc(p) PROVE IInv'
  <2>1. Tail(frames[p]) \in Seq({"PAUSE", "RESUME"})
    BY <1>0, <1>4 DEF ReceivePfc, PauseType
  <2>2. /\ PauseType' /\ UNCHANGED <<queue, ingressVars, egressVars, pauseRemote, linkUp>>
        /\ stopped' \in FlagSets
    BY <1>0, <1>4, <2>1 DEF ReceivePfc, PauseType, FlagSets, pauseVars
  <2> QED
    BY <2>2, BufferStays
<1>5. ASSUME NEW p \in Ports, StopExpires(p) PROVE IInv'
  <2>1. /\ PauseType' /\ UNCHANGED <<queue, ingressVars, egressVars, pauseRemote, linkUp>>
        /\ stopped' \in FlagSets
    BY <1>0, <1>5 DEF StopExpires, PauseType, FlagSets, pauseVars
  <2> QED
    BY <2>1, BufferStays
<1>6. ASSUME NEW p \in Ports, TakeDown(p) PROVE IInv'
  BY <1>6, TakeDownStep
<1>7. CASE UNCHANGED vars
  <2>1. /\ PauseType' /\ UNCHANGED <<queue, ingressVars, egressVars, pauseRemote, linkUp>>
        /\ stopped' \in FlagSets
    BY <1>0, <1>7 DEF vars, PauseType, pauseVars
  <2> QED
    BY <2>1, BufferStays
<1> QED
  BY <1>1, <1>2, <1>3, <1>4, <1>5, <1>6, <1>7 DEF Next

\* The invariant holds in every reachable state.
THEOREM Invariance == Spec => []IInv
<1> QED
  BY InitInv, StepInv, PTL DEF Spec

\* Type correctness: no counter is ever negative, so nothing "illegal" is ever
\* removed, also after links went down (RemoveFromIngressAdmission,
\* RemoveFromEgressAdmission).
THEOREM TypeCorrect == Spec => []TypeOK
<1>1. IInv => TypeOK
  BY DEF IInv
<1> QED
  BY <1>1, Invariance, PTL

\* Until a link is taken down the counters are what the queues hold, whatever
\* is stored, trimmed, dropped and sent (UpdateIngressAdmission and the other
\* three).
THEOREM CountersCorrect == Spec => []CountersExactWhileUp
<1>1. IInv => CountersExactWhileUp
  <2> SUFFICES ASSUME IInv, \A p \in Ports : linkUp[p] PROVE IngressExact /\ EgressExact
    BY DEF CountersExactWhileUp
  <2>1. \A p \in Ports : ingressPG[p] = BytesFrom(p) /\ egressPort[p] = BytesOf(queue[p], Ports)
    BY DEF IInv, ExactWhileUp
  <2>2. \A p \in Ports : 0 <= headroom[p] /\ headroom[p] <= ingressPG[p]
    BY TypeInParts DEF IInv, TypeParts, CounterType, Counters, HeadroomWithin
  <2> QED
    BY <2>1, <2>2 DEF IInv, PoolsAreSums, MinimumFirst, IngressExact, EgressExact
<1> QED
  BY <1>1, Invariance, PTL

\* Each byte over the limit of the service pool is charged to a port's
\* headroom (UpdateIngressAdmission).
THEOREM OverflowCharged == Spec => []OverflowInHeadroom
<1>1. IInv => OverflowInHeadroom
  BY DEF IInv
<1> QED
  BY <1>1, Invariance, PTL

\* A port whose packets use more headroom than two packets has been told to
\* pause (CheckAndSendPfc, called after the packet has been counted).
THEOREM NeighboursWarned == Spec => []DeepHeadroomPaused
<1>1. IInv => DeepHeadroomPaused
  BY DEF IInv
<1> QED
  BY <1>1, Invariance, PTL
===============================================================================
