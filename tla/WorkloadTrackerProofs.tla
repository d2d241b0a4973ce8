------------------------- MODULE WorkloadTrackerProofs -------------------------
(***************************************************************************)
(* Theorems about the ring, the all-to-all and the tree workloads of       *)
(* WorkloadTracker, for any number of groups, nodes and rounds.            *)
(***************************************************************************)
EXTENDS WorkloadTracker, FiniteSetTheorems, FunctionTheorems, TLAPS

-------------------------------------------------------------------------------
(* The shape of a ring.                                                    *)

LEMMA NodeShape ==
    ASSUME NEW n \in Nodes
    PROVE  /\ n = <<n[1], n[2]>>
           /\ n[1] \in GroupIds /\ n[2] \in 0 .. Size - 1
    BY DEF Nodes, Places

\* Succ goes round the group and meets no node twice.
LEMMA SuccType ==
    ASSUME NEW n \in Nodes
    PROVE  /\ Succ(n) \in Nodes /\ Succ(n) # n
           /\ GroupOf(Succ(n)) = GroupOf(n)
           /\ <<n, Succ(n)>> \in Links
<1>1. n[1] \in GroupIds /\ n[2] \in 0 .. Size - 1 /\ Size \in Nat \ {0, 1}
    BY WorkloadAssumption, NodeShape
<1>2. Succ(n)[1] = n[1] /\ Succ(n)[2] \in 0 .. Size - 1 /\ Succ(n)[2] # n[2]
    BY <1>1 DEF Succ
<1>3. Succ(n) \in Nodes
    BY <1>1, <1>2 DEF Nodes, Places, Succ
<1>4. Succ(n) # n
    BY <1>2
<1> QED
    BY <1>2, <1>3, <1>4 DEF Links, GroupOf

LEMMA SuccInjective ==
    ASSUME NEW m \in Nodes, NEW n \in Nodes, Succ(m) = Succ(n)
    PROVE  m = n
<1>1. /\ m[2] \in 0 .. Size - 1 /\ n[2] \in 0 .. Size - 1 /\ Size \in Nat \ {0, 1}
      /\ m = <<m[1], m[2]>> /\ n = <<n[1], n[2]>>
    BY WorkloadAssumption, NodeShape
<1>2. m[1] = n[1]
    BY DEF Succ
<1>3. (IF m[2] + 1 = Size THEN 0 ELSE m[2] + 1) = (IF n[2] + 1 = Size THEN 0 ELSE n[2] + 1)
    BY DEF Succ
<1>4. m[2] = n[2]
    BY <1>1, <1>3
<1> QED
    BY <1>1, <1>2, <1>4

LEMMA SuccOnto ==
    ASSUME NEW n \in Nodes
    PROVE  \E p \in Nodes : Succ(p) = n
<1> DEFINE p == <<n[1], IF n[2] = 0 THEN Size - 1 ELSE n[2] - 1>>
<1>1. /\ n = <<n[1], n[2]>> /\ n[1] \in GroupIds /\ n[2] \in 0 .. Size - 1
      /\ Size \in Nat \ {0, 1}
    BY WorkloadAssumption, NodeShape
<1>2. p[1] = n[1] /\ p[2] \in 0 .. Size - 1
    BY <1>1
<1>3. p \in Nodes
    BY <1>1, <1>2 DEF Nodes, Places
<1>4. (IF p[2] + 1 = Size THEN 0 ELSE p[2] + 1) = n[2]
    BY <1>1
<1>5. Succ(p) = n
    BY <1>1, <1>2, <1>4 DEF Succ
<1> QED
    BY <1>3, <1>5

LEMMA LinkShape ==
    ASSUME NEW l \in Links
    PROVE  l = <<l[1], l[2]>> /\ l[1] \in Nodes /\ l[2] \in Nodes
    BY DEF Links

LEMMA NodesFinite == IsFiniteSet(Nodes)
<1>1. IsFiniteSet(GroupIds) /\ IsFiniteSet(Places)
    BY FS_Interval, WorkloadAssumption DEF GroupIds, Places
<1> QED
    BY <1>1, FS_Product DEF Nodes

\* The nodes of a group.
Group(g) == {n \in Nodes : GroupOf(n) = g}

LEMMA GroupSize ==
    ASSUME NEW g \in GroupIds
    PROVE  IsFiniteSet(Group(g)) /\ Cardinality(Group(g)) = Size
<1>1. IsFiniteSet(Places) /\ Cardinality(Places) = Size
    BY FS_Interval, WorkloadAssumption DEF Places
<1>2. IsFiniteSet({g}) /\ Cardinality({g}) = 1
    BY FS_Singleton
<1>3. Group(g) = {g} \X Places
    BY DEF Group, Nodes, GroupOf
<1>4. Cardinality({g} \X Places) = 1 * Size
    BY <1>1, <1>2, FS_Product
<1> QED
    BY <1>1, <1>2, <1>3, <1>4, FS_Product, WorkloadAssumption

-------------------------------------------------------------------------------
(* The states of the nodes, whichever flows are looked at.                 *)

\* What a node has sent: the flow in flight is one of them.
SentOf(s) == s.finished + (IF s.sending THEN 1 ELSE 0)

\* Each step is one flow, and the last one ends the round of the node.
StateOK(s) ==
    /\ s.step < Steps => SentOf(s) = s.step + 1
    /\ s.step >= Steps => ~s.sending /\ s.finished = Steps
    /\ s.done <=> s.finished = Steps

\* What a node has got, its own data included, it has sent or still has.
DataOK(nd) ==
    \A n \in Nodes : nd[Succ(n)].data + SentOf(nd[Succ(n)]) = 1 + nd[n].finished

RingOK(nd) ==
    /\ nd \in [Nodes -> NodeState]
    /\ \A n \in Nodes : StateOK(nd[n])
    /\ DataOK(nd)

LEMMA StepsType == Steps \in Nat /\ Steps >= 2
    BY WorkloadAssumption DEF Steps

LEMMA NextStepOK ==
    ASSUME NEW s \in NodeState, StateOK(s), IsReadyForNextStep(s)
    PROVE  /\ NextStep(s) \in NodeState /\ StateOK(NextStep(s))
           /\ NextStep(s).finished = s.finished /\ NextStep(s).done = s.done
           /\ NextStep(s).data + SentOf(NextStep(s)) = s.data + SentOf(s)
<1>1. /\ s.step \in Nat /\ s.finished \in 0 .. Steps /\ s.data \in Nat /\ s.data > 0
      /\ s.sending = FALSE /\ s.done \in BOOLEAN /\ Steps \in Nat
    BY StepsType DEF NodeState, IsReadyForNextStep
<1>2. CASE s.step + 1 < Steps
    <2>1. NextStep(s) = [step |-> s.step + 1, finished |-> s.finished, sending |-> TRUE,
                         data |-> s.data - 1, done |-> s.done]
        BY <1>1, <1>2 DEF NextStep, NodeState
    <2>2. SentOf(s) = s.step + 1 /\ SentOf(s) = s.finished
        BY <1>1, <1>2 DEF StateOK, SentOf
    <2>3. SentOf(NextStep(s)) = s.finished + 1
        BY <2>1 DEF SentOf
    <2>4. s.done <=> s.finished = Steps
        BY DEF StateOK
    <2>5. StateOK(NextStep(s))
        BY <1>1, <1>2, <2>1, <2>2, <2>3, <2>4 DEF StateOK
    <2>6. NextStep(s) \in NodeState
        BY <1>1, <2>1 DEF NodeState
    <2> QED
        BY <1>1, <2>1, <2>2, <2>3, <2>5, <2>6
<1>3. CASE ~(s.step + 1 < Steps)
    <2>1. NextStep(s) = [step |-> s.step + 1, finished |-> s.finished, sending |-> FALSE,
                         data |-> s.data, done |-> s.done]
        BY <1>1, <1>3 DEF NextStep, NodeState
    <2>2. s.finished = Steps
        BY <1>1, <1>3 DEF StateOK, SentOf
    <2>3. SentOf(NextStep(s)) = SentOf(s)
        BY <1>1, <2>1 DEF SentOf
    <2>4. s.done <=> s.finished = Steps
        BY DEF StateOK
    <2>5. StateOK(NextStep(s))
        BY <1>1, <1>3, <2>1, <2>2, <2>4 DEF StateOK
    <2>6. NextStep(s) \in NodeState
        BY <1>1, <2>1 DEF NodeState
    <2> QED
        BY <1>1, <2>1, <2>3, <2>5, <2>6
<1> QED
    BY <1>2, <1>3

\* A node that is triggered stays consistent with its neighbours.
LEMMA TriggeredOK ==
    ASSUME NEW nd, RingOK(nd), NEW n \in Nodes
    PROVE  /\ RingOK(Triggered(nd, n))
           /\ \A m \in Nodes : /\ Triggered(nd, n)[m].finished = nd[m].finished
                               /\ Triggered(nd, n)[m].done = nd[m].done
                               /\ nd[m].sending => Triggered(nd, n)[m].sending
<1>1. nd \in [Nodes -> NodeState] /\ nd[n] \in NodeState /\ StateOK(nd[n])
    BY DEF RingOK
<1>2. CASE ~IsReadyForNextStep(nd[n])
    BY <1>2 DEF Triggered
<1>3. CASE IsReadyForNextStep(nd[n])
    <2>1. Triggered(nd, n) = [nd EXCEPT ![n] = NextStep(nd[n])]
        BY <1>3 DEF Triggered
    <2> DEFINE t == NextStep(nd[n])
               td == [nd EXCEPT ![n] = t]
    <2>2. /\ t \in NodeState /\ StateOK(t)
          /\ t.finished = nd[n].finished /\ t.done = nd[n].done
          /\ t.data + SentOf(t) = nd[n].data + SentOf(nd[n])
        BY <1>1, <1>3, NextStepOK
    <2>3. \A m \in Nodes : td[m] = IF m = n THEN t ELSE nd[m]
        BY <1>1
    <2> HIDE DEF t
    <2>4. td \in [Nodes -> NodeState]
        BY <1>1, <2>2
    <2>5. \A m \in Nodes : StateOK(td[m])
        BY <2>2, <2>3 DEF RingOK
    <2>6. \A m \in Nodes : /\ td[m].finished = nd[m].finished
                           /\ td[m].data + SentOf(td[m]) = nd[m].data + SentOf(nd[m])
        BY <2>2, <2>3
    <2>7. DataOK(td)
        BY <2>6, SuccType DEF DataOK, RingOK
    <2>8. \A m \in Nodes : td[m].done = nd[m].done
        BY <2>2, <2>3
    <2>9. \A m \in Nodes : nd[m].sending => td[m].sending
        BY <1>3, <2>3 DEF IsReadyForNextStep
    <2> QED
        BY <2>1, <2>4, <2>5, <2>6, <2>7, <2>8, <2>9 DEF RingOK, t
<1> QED
    BY <1>2, <1>3

\* The states of the nodes after the first step of OnFlowComplete.
NotedDone(l) == [Noted(l) EXCEPT ![l[1]].done = @ \/ Finishes(l)]

SendingAfter(l, m) == IF m = l[1] THEN FALSE ELSE node[m].sending
DoneAfter(l, m) == IF m = l[1] THEN node[m].done \/ Finishes(l) ELSE node[m].done

LEMMA NotedShape ==
    ASSUME node \in [Nodes -> NodeState], NEW l \in Links
    PROVE  \A m \in Nodes :
             NotedDone(l)[m] =
               [step |-> node[m].step,
                finished |-> IF m = l[1] THEN node[m].finished + 1 ELSE node[m].finished,
                sending |-> SendingAfter(l, m),
                data |-> IF m = l[2] THEN node[m].data + 1 ELSE node[m].data,
                done |-> DoneAfter(l, m)]
<1>1. l[1] \in Nodes /\ l[2] \in Nodes /\ l[1] # l[2]
    BY DEF Links
<1> DEFINE sent == [node EXCEPT ![l[1]].sending = FALSE, ![l[1]].finished = @ + 1]
           got == [sent EXCEPT ![l[2]].data = @ + 1]
<1>2. Noted(l) = got
    BY DEF Noted, Receiver
<1>3. NotedDone(l) = [got EXCEPT ![l[1]].done = @ \/ Finishes(l)]
    BY <1>2 DEF NotedDone
<1>4. \A m \in Nodes : node[m] \in NodeState
    OBVIOUS
<1>5. \A m \in Nodes : m # l[1] => sent[m] = node[m]
    BY <1>1
<1>6. sent[l[1]] = [step |-> node[l[1]].step, finished |-> node[l[1]].finished + 1,
                    sending |-> FALSE, data |-> node[l[1]].data, done |-> node[l[1]].done]
    BY <1>1, <1>4 DEF NodeState
<1>7. DOMAIN sent = Nodes /\ DOMAIN got = Nodes
    OBVIOUS
<1> HIDE DEF sent
<1>8. \A m \in Nodes : m # l[2] => got[m] = sent[m]
    BY <1>1, <1>7
<1>9. got[l[2]] = [step |-> node[l[2]].step, finished |-> node[l[2]].finished,
                   sending |-> node[l[2]].sending, data |-> node[l[2]].data + 1,
                   done |-> node[l[2]].done]
    BY <1>1, <1>4, <1>5, <1>7 DEF NodeState
<1> HIDE DEF got
<1>10. \A m \in Nodes : m # l[1] => NotedDone(l)[m] = got[m]
    BY <1>1, <1>3, <1>7
<1>11. NotedDone(l)[l[1]] = [got[l[1]] EXCEPT !.done = @ \/ Finishes(l)]
    BY <1>1, <1>3, <1>7
<1>12. got[l[1]] = sent[l[1]]
    BY <1>1, <1>8
<1> TAKE m \in Nodes
<1>13. CASE m = l[1]
    <2>1. got[m] = [step |-> node[m].step, finished |-> node[m].finished + 1,
                    sending |-> FALSE, data |-> node[m].data, done |-> node[m].done]
        BY <1>6, <1>12, <1>13
    <2> DEFINE ends == node[m].done \/ Finishes(l)
               off == FALSE
    <2>2. NotedDone(l)[m] = [got[m] EXCEPT !.done = ends]
        <3>1. got[m].done = node[m].done
            BY <2>1
        <3> QED
            BY <1>11, <1>13, <3>1
    <2>3. got[m] = [step |-> node[m].step, finished |-> node[m].finished + 1,
                    sending |-> off, data |-> node[m].data, done |-> node[m].done]
        BY <2>1
    <2> HIDE DEF ends, off
    <2>4. NotedDone(l)[m] = [step |-> node[m].step, finished |-> node[m].finished + 1,
                             sending |-> off, data |-> node[m].data, done |-> ends]
        BY <2>2, <2>3
    <2> QED
        <3>1. SendingAfter(l, m) = off /\ DoneAfter(l, m) = ends
            BY <1>13 DEF SendingAfter, DoneAfter, off, ends
        <3> QED
            BY <1>1, <1>13, <2>4, <3>1
<1>14. CASE m = l[2]
    <2>1. SendingAfter(l, m) = node[m].sending /\ DoneAfter(l, m) = node[m].done
        BY <1>1, <1>14 DEF SendingAfter, DoneAfter
    <2> QED
        BY <1>1, <1>9, <1>10, <1>14, <2>1
<1>15. CASE m # l[1] /\ m # l[2]
    <2>1. NotedDone(l)[m] = node[m]
        BY <1>5, <1>8, <1>10, <1>15
    <2>2. node[m] = [step |-> node[m].step, finished |-> node[m].finished,
                     sending |-> node[m].sending, data |-> node[m].data,
                     done |-> node[m].done]
        BY <1>4 DEF NodeState
    <2>3. SendingAfter(l, m) = node[m].sending /\ DoneAfter(l, m) = node[m].done
        BY <1>15 DEF SendingAfter, DoneAfter
    <2> QED
        BY <1>15, <2>1, <2>2, <2>3
<1> QED
    BY <1>13, <1>14, <1>15

LEMMA SenderState ==
    ASSUME RingOK(node), NEW l \in Links, node[l[1]].sending
    PROVE  /\ node[l[1]].finished \in Nat /\ node[l[1]].step \in Nat
           /\ node[l[1]].finished = node[l[1]].step
           /\ node[l[1]].finished + 1 <= Steps
           /\ ~node[l[1]].done
           /\ Finishes(l) <=> node[l[1]].finished + 1 = Steps
<1> DEFINE s == node[l[1]]
<1>1. s \in NodeState /\ StateOK(s)
    BY LinkShape DEF RingOK
<1>2. s.finished \in 0 .. Steps /\ s.step \in Nat /\ Steps \in Nat
    BY <1>1, StepsType DEF NodeState
<1>3. s.step < Steps
    BY <1>1, <1>2 DEF StateOK
<1>4. s.finished + 1 = s.step + 1
    BY <1>1, <1>3 DEF StateOK, SentOf
<1>5. ~s.done
    BY <1>1, <1>2, <1>3, <1>4 DEF StateOK
<1> QED
    BY <1>2, <1>3, <1>4, <1>5 DEF Finishes

LEMMA NotedOK ==
    ASSUME RingOK(node), NEW l \in Links, l[2] = Succ(l[1]), node[l[1]].sending
    PROVE  RingOK(NotedDone(l))
<1> DEFINE nd == NotedDone(l)
<1>1. /\ node \in [Nodes -> NodeState] /\ l[1] \in Nodes /\ l[2] \in Nodes /\ l[1] # l[2]
      /\ Steps \in Nat
    BY StepsType DEF RingOK, Links
<1>2. \A m \in Nodes : node[m] \in NodeState /\ StateOK(node[m])
    BY DEF RingOK
<1>3. \A m \in Nodes :
        nd[m] = [step |-> node[m].step,
                 finished |-> IF m = l[1] THEN node[m].finished + 1 ELSE node[m].finished,
                 sending |-> SendingAfter(l, m),
                 data |-> IF m = l[2] THEN node[m].data + 1 ELSE node[m].data,
                 done |-> DoneAfter(l, m)]
    BY <1>1, NotedShape
<1>4. DOMAIN nd = Nodes
    BY <1>1 DEF NotedDone, Noted
<1> HIDE DEF nd
<1>5. \A m \in Nodes :
        /\ nd[m].step = node[m].step
        /\ nd[m].finished = IF m = l[1] THEN node[m].finished + 1 ELSE node[m].finished
        /\ nd[m].sending <=> m # l[1] /\ node[m].sending
        /\ nd[m].data = IF m = l[2] THEN node[m].data + 1 ELSE node[m].data
        /\ nd[m].done <=> node[m].done \/ (m = l[1] /\ Finishes(l))
    <2> TAKE m \in Nodes
    <2>0. nd[m] = [step |-> node[m].step,
                   finished |-> IF m = l[1] THEN node[m].finished + 1 ELSE node[m].finished,
                   sending |-> SendingAfter(l, m),
                   data |-> IF m = l[2] THEN node[m].data + 1 ELSE node[m].data,
                   done |-> DoneAfter(l, m)]
        BY <1>3
    <2>1. /\ nd[m].step = node[m].step
          /\ nd[m].finished = IF m = l[1] THEN node[m].finished + 1 ELSE node[m].finished
          /\ nd[m].data = IF m = l[2] THEN node[m].data + 1 ELSE node[m].data
        BY <2>0
    <2>2. nd[m].sending = SendingAfter(l, m)
        BY <2>0
    <2>3. nd[m].done = DoneAfter(l, m)
        BY <2>0
    <2>4. nd[m].sending <=> m # l[1] /\ node[m].sending
        BY <2>2 DEF SendingAfter
    <2>5. nd[m].done <=> node[m].done \/ (m = l[1] /\ Finishes(l))
        BY <2>3 DEF DoneAfter
    <2> QED
        BY <2>1, <2>4, <2>5
<1>6. \A m \in Nodes : nd[m] \in NodeState
    <2> TAKE m \in Nodes
    <2>1. /\ node[m].step \in Nat /\ node[m].finished \in 0 .. Steps
          /\ node[m].sending \in BOOLEAN /\ node[m].data \in Nat /\ node[m].done \in BOOLEAN
        BY <1>2 DEF NodeState
    <2>2. (IF m = l[1] THEN node[m].finished + 1 ELSE node[m].finished) \in 0 .. Steps
        BY <1>1, <2>1, SenderState
    <2>3. SendingAfter(l, m) \in BOOLEAN
        BY <2>1 DEF SendingAfter
    <2>4. (IF m = l[2] THEN node[m].data + 1 ELSE node[m].data) \in Nat
        BY <2>1
    <2>5. DoneAfter(l, m) \in BOOLEAN
        BY <2>1 DEF DoneAfter, Finishes
    <2>6. nd[m] = [step |-> node[m].step,
                   finished |-> IF m = l[1] THEN node[m].finished + 1 ELSE node[m].finished,
                   sending |-> SendingAfter(l, m),
                   data |-> IF m = l[2] THEN node[m].data + 1 ELSE node[m].data,
                   done |-> DoneAfter(l, m)]
        BY <1>3
    <2> DEFINE finished == IF m = l[1] THEN node[m].finished + 1 ELSE node[m].finished
               sending == SendingAfter(l, m)
               data == IF m = l[2] THEN node[m].data + 1 ELSE node[m].data
               done == DoneAfter(l, m)
    <2>7. nd[m] = [step |-> node[m].step, finished |-> finished, sending |-> sending,
                   data |-> data, done |-> done]
        BY <2>6
    <2>8. finished \in 0 .. Steps /\ sending \in BOOLEAN /\ data \in Nat /\ done \in BOOLEAN
        BY <2>2, <2>3, <2>4, <2>5
    <2> HIDE DEF finished, sending, data, done
    <2> QED
        BY <2>1, <2>7, <2>8 DEF NodeState
<1>7. nd \in [Nodes -> NodeState]
    <2>1. nd = [m \in Nodes |-> nd[m]]
        <3> DEFINE noted == Noted(l)
        <3>1. nd = [noted EXCEPT ![l[1]].done = @ \/ Finishes(l)]
            BY DEF nd, NotedDone
        <3> HIDE DEF noted
        <3>2. nd = [m \in DOMAIN nd |-> nd[m]]
            BY <3>1
        <3> QED
            BY <1>4, <3>2
    <2> QED
        BY <1>6, <2>1
<1>8. \A m \in Nodes : SentOf(nd[m]) = SentOf(node[m])
    <2> TAKE m \in Nodes
    <2>1. node[m].finished \in Nat
        BY <1>2, <1>1 DEF NodeState
    <2> QED
        BY <1>5, <2>1 DEF SentOf
<1>9. \A m \in Nodes : StateOK(nd[m])
    <2> TAKE m \in Nodes
    <2>1. CASE m = l[1]
        <3>1. /\ nd[m].step < Steps /\ SentOf(nd[m]) = nd[m].step + 1
              /\ nd[m].done <=> nd[m].finished = Steps
            BY <1>1, <1>5, <2>1, SenderState DEF SentOf
        <3>2. nd[m].step \in Nat
            BY <1>6 DEF NodeState
        <3> QED
            BY <1>1, <3>1, <3>2 DEF StateOK
    <2>2. CASE m # l[1]
        <3>1. /\ nd[m].step = node[m].step /\ nd[m].finished = node[m].finished
              /\ nd[m].sending <=> node[m].sending
              /\ nd[m].done <=> node[m].done
            BY <1>5, <2>2
        <3> QED
            BY <1>2, <1>8, <3>1 DEF StateOK
    <2> QED
        BY <2>1, <2>2
<1>10. DataOK(nd)
    <2> SUFFICES ASSUME NEW n \in Nodes
                 PROVE  nd[Succ(n)].data + SentOf(nd[Succ(n)]) = 1 + nd[n].finished
        BY DEF DataOK
    <2>1. Succ(n) \in Nodes
        BY SuccType
    <2>2. Succ(n) = l[2] <=> n = l[1]
        BY <1>1, SuccInjective
    <2>3. node[Succ(n)].data + SentOf(node[Succ(n)]) = 1 + node[n].finished
        BY DEF RingOK, DataOK
    <2>4. /\ node[Succ(n)].data \in Nat /\ node[n].finished \in Nat
          /\ SentOf(node[Succ(n)]) \in Nat
        BY <1>1, <1>2, <2>1 DEF NodeState, SentOf
    <2>5. SentOf(nd[Succ(n)]) = SentOf(node[Succ(n)])
        BY <1>8, <2>1
    <2> QED
        BY <1>5, <2>1, <2>2, <2>3, <2>4, <2>5
<1> QED
    BY <1>7, <1>9, <1>10 DEF RingOK, nd

-------------------------------------------------------------------------------
(* The flows in flight of a ring.                                          *)

\* A flow is in flight where a node sends, to its successor.
Flying(nd) == [l \in Links |-> IF l[2] = Succ(l[1]) /\ nd[l[1]].sending THEN 1 ELSE 0]

Started(nd, td) == {k \in Links : k[2] = Succ(k[1]) /\ ~nd[k[1]].sending /\ td[k[1]].sending}

LEMMA FlyingAfter ==
    ASSUME flows = Flying(node), NEW nd, NEW td, NEW l \in Links, flows[l] > 0,
           \A m \in Nodes : nd[m].sending <=> m # l[1] /\ node[m].sending,
           \A m \in Nodes : nd[m].sending => td[m].sending
    PROVE  With(Without(l), Started(nd, td)) = Flying(td)
<1>1. l[2] = Succ(l[1]) /\ node[l[1]].sending /\ flows[l] = 1
    BY DEF Flying
<1>2. Without(l) = [flows EXCEPT ![l] = 0]
    BY <1>1 DEF Without
<1>3. \A k \in Links : k[2] = Succ(k[1]) /\ k[1] = l[1] => k = l
    BY <1>1, LinkShape
<1>4. \A k \in Links : Without(l)[k] = IF k[2] = Succ(k[1]) /\ nd[k[1]].sending THEN 1 ELSE 0
    BY <1>1, <1>2, <1>3, LinkShape DEF Flying
<1>5. \A k \in Links : Without(l)[k] + (IF k \in Started(nd, td) THEN 1 ELSE 0)
                         = IF k[2] = Succ(k[1]) /\ td[k[1]].sending THEN 1 ELSE 0
    BY <1>4, LinkShape DEF Started
<1> QED
    BY <1>5 DEF With, Flying

-------------------------------------------------------------------------------
(* The invariant of a ring.                                                *)

DoneNodes(nd) == {n \in Nodes : nd[n].done}
DoneIn(nd, g) == {n \in Group(g) : nd[n].done}

NoFlows == [l \in Links |-> 0]

\* The counters are the sizes of sets of nodes, and a line is written when
\* the group has no node left.
CountersOK ==
    /\ roundNodes = Cardinality(DoneNodes(node))
    /\ \A g \in GroupIds : groupDone[g] = Cardinality(DoneIn(node, g))
    /\ \A g \in GroupIds : jct[<<round, g>>] > 0 => DoneIn(node, g) = Group(g)

FutureUnlogged ==
    \A r \in 1 .. TotalRounds, g \in GroupIds : r > round => jct[<<r, g>>] = 0

RingInv ==
    /\ TypeOK
    /\ round = 0 => flows = NoFlows
    /\ round > 0 => RingOK(node) /\ flows = Flying(node) /\ CountersOK
    /\ FutureUnlogged

\* The states of the nodes after OnFlowComplete, unless a round starts.
After(l) == BothTriggered(NotedDone(l), l)

LEMMA CompletedOK ==
    ASSUME RingInv, NEW l \in Links, flows[l] > 0
    PROVE  /\ round > 0
           /\ RingOK(After(l))
           /\ With(Without(l), Started(NotedDone(l), After(l))) = Flying(After(l))
           /\ ~node[l[1]].done
           /\ \A m \in Nodes : After(l)[m].done <=> node[m].done \/ (m = l[1] /\ Finishes(l))
<1> DEFINE nd == NotedDone(l)
           sd == Triggered(nd, l[1])
<1>1. round > 0
    BY DEF RingInv, TypeOK, NoFlows
<1>2. RingOK(node) /\ flows = Flying(node) /\ l[1] \in Nodes /\ l[2] \in Nodes
    BY <1>1, LinkShape DEF RingInv
<1>3. l[2] = Succ(l[1]) /\ node[l[1]].sending
    BY <1>2 DEF Flying
<1>4. RingOK(nd)
    BY <1>2, <1>3, NotedOK
<1>5. \A m \in Nodes : /\ nd[m].sending <=> m # l[1] /\ node[m].sending
                       /\ nd[m].done <=> node[m].done \/ (m = l[1] /\ Finishes(l))
    <2> TAKE m \in Nodes
    <2>1. node \in [Nodes -> NodeState]
        BY <1>2 DEF RingOK
    <2>2. nd[m] = [step |-> node[m].step,
                   finished |-> IF m = l[1] THEN node[m].finished + 1 ELSE node[m].finished,
                   sending |-> SendingAfter(l, m),
                   data |-> IF m = l[2] THEN node[m].data + 1 ELSE node[m].data,
                   done |-> DoneAfter(l, m)]
        BY <2>1, NotedShape
    <2>3. nd[m].sending = SendingAfter(l, m) /\ nd[m].done = DoneAfter(l, m)
        BY <2>2
    <2>4. nd[m].sending <=> m # l[1] /\ node[m].sending
        BY <2>3 DEF SendingAfter
    <2>5. nd[m].done <=> node[m].done \/ (m = l[1] /\ Finishes(l))
        BY <2>3 DEF DoneAfter
    <2> QED
        BY <2>4, <2>5
<1>6. ~node[l[1]].done
    BY <1>2, <1>3, SenderState
<1> HIDE DEF nd
<1>7. /\ RingOK(sd)
      /\ \A m \in Nodes : sd[m].done = nd[m].done /\ (nd[m].sending => sd[m].sending)
    BY <1>2, <1>4, TriggeredOK
<1> HIDE DEF sd
<1>8. /\ RingOK(Triggered(sd, l[2]))
      /\ \A m \in Nodes : /\ Triggered(sd, l[2])[m].done = sd[m].done
                          /\ sd[m].sending => Triggered(sd, l[2])[m].sending
    BY <1>2, <1>7, TriggeredOK
<1>9. After(l) = Triggered(sd, l[2])
    BY DEF After, BothTriggered, sd, nd
<1>10. \A m \in Nodes : nd[m].sending => After(l)[m].sending
    BY <1>7, <1>8, <1>9
<1>11. With(Without(l), Started(nd, After(l))) = Flying(After(l))
    BY <1>2, <1>5, <1>10, FlyingAfter
<1>12. \A m \in Nodes : After(l)[m].done <=> node[m].done \/ (m = l[1] /\ Finishes(l))
    BY <1>5, <1>7, <1>8, <1>9
<1> QED
    BY <1>1, <1>6, <1>8, <1>9, <1>11, <1>12 DEF nd

\* The counters after a flow has completed are again sizes of sets.
LEMMA CountedOK ==
    ASSUME RingInv, NEW l \in Links, flows[l] > 0
    PROVE  /\ roundNodes + (IF Finishes(l) THEN 1 ELSE 0) = Cardinality(DoneNodes(After(l)))
           /\ \A g \in GroupIds :
                groupDone[g] + (IF g = GroupOf(l[1]) /\ Finishes(l) THEN 1 ELSE 0)
                  = Cardinality(DoneIn(After(l), g))
           /\ \A g \in GroupIds : DoneIn(node, g) \subseteq DoneIn(After(l), g)
<1> DEFINE td == After(l)
<1>1. /\ round > 0 /\ ~node[l[1]].done /\ l[1] \in Nodes
      /\ \A m \in Nodes : td[m].done <=> node[m].done \/ (m = l[1] /\ Finishes(l))
    BY CompletedOK, LinkShape
<1> HIDE DEF td
<1>2. CountersOK
    BY <1>1 DEF RingInv
<1>3. IsFiniteSet(DoneNodes(node)) /\ Cardinality(DoneNodes(node)) \in Nat
    BY NodesFinite, FS_Subset, FS_CardinalityType DEF DoneNodes
<1>4. roundNodes + (IF Finishes(l) THEN 1 ELSE 0) = Cardinality(DoneNodes(td))
    <2>1. CASE Finishes(l)
        <3>1. DoneNodes(td) = DoneNodes(node) \cup {l[1]} /\ l[1] \notin DoneNodes(node)
            BY <1>1, <2>1 DEF DoneNodes
        <3> QED
            BY <1>2, <1>3, <2>1, <3>1, FS_AddElement DEF CountersOK
    <2>2. CASE ~Finishes(l)
        <3>1. DoneNodes(td) = DoneNodes(node)
            BY <1>1, <2>2 DEF DoneNodes
        <3> QED
            BY <1>2, <1>3, <2>2, <3>1 DEF CountersOK
    <2> QED
        BY <2>1, <2>2
<1>5. ASSUME NEW g \in GroupIds
      PROVE  groupDone[g] + (IF g = GroupOf(l[1]) /\ Finishes(l) THEN 1 ELSE 0)
               = Cardinality(DoneIn(td, g))
    <2>1. IsFiniteSet(DoneIn(node, g)) /\ Cardinality(DoneIn(node, g)) \in Nat
        BY GroupSize, FS_Subset, FS_CardinalityType DEF DoneIn
    <2>2. CASE g = GroupOf(l[1]) /\ Finishes(l)
        <3>1. DoneIn(td, g) = DoneIn(node, g) \cup {l[1]} /\ l[1] \notin DoneIn(node, g)
            <4>1. l[1] \in Group(g) /\ \A m \in Group(g) : td[m].done <=> node[m].done \/ m = l[1]
                BY <1>1, <2>2 DEF Group
            <4> QED
                BY <1>1, <4>1 DEF DoneIn
        <3>2. Cardinality(DoneIn(td, g)) = Cardinality(DoneIn(node, g)) + 1
            BY <2>1, <3>1, FS_AddElement
        <3>3. groupDone[g] = Cardinality(DoneIn(node, g))
            BY <1>2 DEF CountersOK
        <3> QED
            BY <2>2, <3>2, <3>3
    <2>3. CASE ~(g = GroupOf(l[1]) /\ Finishes(l))
        <3>1. DoneIn(td, g) = DoneIn(node, g)
            BY <1>1, <2>3 DEF DoneIn, Group
        <3> QED
            BY <1>2, <2>1, <2>3, <3>1 DEF CountersOK
    <2> QED
        BY <2>2, <2>3
<1>6. \A g \in GroupIds : DoneIn(node, g) \subseteq DoneIn(td, g)
    BY <1>1 DEF DoneIn, Group
<1> QED
    BY <1>4, <1>5, <1>6 DEF td

-------------------------------------------------------------------------------
(* The steps.                                                              *)

\* A node that is done has no flow in flight.
LEMMA DoneIsSilent ==
    ASSUME NEW nd, RingOK(nd), NEW n \in Nodes, nd[n].done
    PROVE  ~nd[n].sending
<1>1. nd[n] \in NodeState /\ StateOK(nd[n])
    BY DEF RingOK
<1>2. nd[n].step \in Nat /\ nd[n].finished = Steps /\ Steps \in Nat
    BY <1>1, StepsType DEF NodeState, StateOK
<1> QED
    BY <1>1, <1>2 DEF StateOK, SentOf

\* When all nodes are done nothing is in flight.
LEMMA LastOK ==
    ASSUME NEW nd, RingOK(nd), Cardinality(DoneNodes(nd)) >= Cardinality(Nodes)
    PROVE  Flying(nd) = NoFlows
<1>1. DoneNodes(nd) = Nodes
    <2>1. DoneNodes(nd) \subseteq Nodes
        BY DEF DoneNodes
    <2>2. IsFiniteSet(DoneNodes(nd)) /\ Cardinality(DoneNodes(nd)) <= Cardinality(Nodes)
        BY <2>1, NodesFinite, FS_Subset
    <2>3. Cardinality(DoneNodes(nd)) \in Nat /\ Cardinality(Nodes) \in Nat
        BY <2>2, NodesFinite, FS_CardinalityType
    <2>4. Cardinality(Nodes) = Cardinality(DoneNodes(nd))
        BY <2>2, <2>3
    <2> QED
        BY <2>1, <2>4, NodesFinite, FS_Subset
<1>2. \A n \in Nodes : ~nd[n].sending
    BY <1>1, DoneIsSilent DEF DoneNodes
<1> QED
    BY <1>2, LinkShape DEF Flying, NoFlows

LEMMA StartOK ==
    ASSUME Ring, TypeOK, round < TotalRounds, ScheduleNextRound(NoFlows),
           jct' \in [(1 .. TotalRounds) \X GroupIds -> Nat],
           \A r \in 1 .. TotalRounds, g \in GroupIds : r > round => jct'[<<r, g>>] = 0,
           workload' = workload
    PROVE  RingInv' /\ RoundsApartStep
<1> DEFINE nd == [n \in Nodes |-> AtFirstStep]
<1>1. round' = round + 1 /\ round \in Nat /\ TotalRounds \in Nat /\ round' \in 1 .. TotalRounds
    BY WorkloadAssumption DEF ScheduleNextRound, TypeOK
<1>2. node' = nd
    BY DEF ScheduleNextRound
<1>3. Steps \in Nat /\ Steps >= 2
    BY StepsType
<1>4. AtFirstStep \in NodeState /\ StateOK(AtFirstStep)
    BY <1>3 DEF AtFirstStep, NodeState, StateOK, SentOf
<1>5. RingOK(nd)
    <2>1. \A n \in Nodes : Succ(n) \in Nodes
        BY SuccType
    <2>2. \A n \in Nodes : nd[n] = AtFirstStep
        OBVIOUS
    <2>3. AtFirstStep.data = 0 /\ AtFirstStep.finished = 0 /\ SentOf(AtFirstStep) = 1
        BY DEF AtFirstStep, SentOf
    <2>4. DataOK(nd)
        BY <2>1, <2>2, <2>3 DEF DataOK
    <2> QED
        BY <1>4, <2>4 DEF RingOK
<1>6. flows' = With(NoFlows, FirstFlows)
    BY DEF ScheduleNextRound
<1>7. With(NoFlows, FirstFlows) = Flying(nd)
    <2>1. FirstFlows = {l \in Links : l[2] = Succ(l[1])}
        BY DEF FirstFlows, AllToAll, Ring, Tree
    <2>2. \A l \in Links : nd[l[1]].sending
        BY LinkShape DEF AtFirstStep
    <2>3. \A l \in Links : NoFlows[l] + (IF l \in FirstFlows THEN 1 ELSE 0)
                             = IF l[2] = Succ(l[1]) THEN 1 ELSE 0
        BY <2>1 DEF NoFlows
    <2> QED
        BY <2>2, <2>3 DEF With, Flying
<1>8. CountersOK'
    <2>1. DoneNodes(nd) = {} /\ \A g \in GroupIds : DoneIn(nd, g) = {}
        BY DEF DoneNodes, DoneIn, Group, AtFirstStep
    <2>2. roundNodes' = 0 /\ \A g \in GroupIds : groupDone'[g] = 0
        BY DEF ScheduleNextRound, FreshGroups
    <2>3. \A g \in GroupIds : jct'[<<round', g>>] = 0
        BY <1>1
    <2> QED
        BY <1>2, <2>1, <2>2, <2>3, FS_EmptySet, SMTT(40) DEF CountersOK
<1>9. FutureUnlogged'
    BY <1>1 DEF FutureUnlogged
<1>10. TypeOK'
    <2>1. Cardinality(Nodes) \in Nat
        BY NodesFinite, FS_CardinalityType
    <2>2. roundFlows' = 0 /\ roundNodes' = 0 /\ groupDone' = [g \in GroupIds |-> 0]
        BY DEF ScheduleNextRound, FreshGroups
    <2>3. tree' \in [Nodes -> TreeNodeState]
        BY DEF ScheduleNextRound, TypeOK, TreeNodeState
    <2>4. flows' \in [Links -> Nat]
        BY <1>6, <1>7 DEF Flying
    <2>5. node' \in [Nodes -> NodeState]
        BY <1>2, <1>5 DEF RingOK
    <2> QED
        BY <1>1, <2>1, <2>2, <2>3, <2>4, <2>5 DEF TypeOK
<1>11. RoundsApartStep
    BY <1>6 DEF RoundsApartStep, NoFlows
<1> QED
    BY <1>1, <1>2, <1>5, <1>6, <1>7, <1>8, <1>9, <1>10, <1>11 DEF RingInv

\* The line of a group is written when its last node is done.
LEMMA LoggedOK ==
    ASSUME RingInv, NEW l \in Links, flows[l] > 0,
           jct' = IF Finishes(l)
                  THEN Logged(GroupOf(l[1]), groupDone[GroupOf(l[1])] + 1, Size) ELSE jct
    PROVE  /\ jct' \in [(1 .. TotalRounds) \X GroupIds -> Nat]
           /\ \A r \in 1 .. TotalRounds, g \in GroupIds : r > round => jct'[<<r, g>>] = 0
           /\ \A g \in GroupIds : jct'[<<round, g>>] > 0 => DoneIn(After(l), g) = Group(g)
<1> DEFINE h == GroupOf(l[1])
<1>1. /\ round \in 1 .. TotalRounds /\ h \in GroupIds /\ <<round, h>> \in (1 .. TotalRounds) \X GroupIds
      /\ jct \in [(1 .. TotalRounds) \X GroupIds -> Nat]
    BY CompletedOK, LinkShape, NodeShape DEF RingInv, TypeOK, GroupOf
<1>2. \/ jct' = jct
      \/ /\ jct' = [jct EXCEPT ![<<round, h>>] = @ + 1]
         /\ Finishes(l) /\ groupDone[h] + 1 = Size
    BY DEF Logged
<1>3. jct' \in [(1 .. TotalRounds) \X GroupIds -> Nat]
    <2>1. jct[<<round, h>>] + 1 \in Nat
        BY <1>1
    <2> QED
        BY <1>1, <1>2, <2>1
<1>4. ASSUME NEW r \in 1 .. TotalRounds, NEW g \in GroupIds, r > round
      PROVE  jct'[<<r, g>>] = 0
    <2>1. jct[<<r, g>>] = 0
        BY <1>4 DEF RingInv, FutureUnlogged
    <2>2. <<r, g>> # <<round, h>>
        BY <1>1, <1>4
    <2>3. <<r, g>> \in (1 .. TotalRounds) \X GroupIds
        OBVIOUS
    <2> QED
        BY <1>1, <1>2, <2>1, <2>2, <2>3
<1>5. ASSUME NEW g \in GroupIds, jct'[<<round, g>>] > 0
      PROVE  DoneIn(After(l), g) = Group(g)
    <2>1. DoneIn(After(l), g) \subseteq Group(g)
        BY DEF DoneIn
    <2>2. CASE jct[<<round, g>>] > 0
        <3>1. DoneIn(node, g) = Group(g)
            BY <1>1, <2>2, CompletedOK DEF RingInv, CountersOK
        <3> QED
            BY <2>1, <3>1, CountedOK
    <2>3. CASE ~(jct[<<round, g>>] > 0)
        <3>1. <<round, g>> \in (1 .. TotalRounds) \X GroupIds
            BY <1>1
        <3>2. jct' # jct
            BY <1>5, <2>3
        <3>3. /\ jct' = [jct EXCEPT ![<<round, h>>] = @ + 1]
              /\ Finishes(l) /\ groupDone[h] + 1 = Size
            BY <1>2, <3>2
        <3>4. g = h
            BY <1>1, <1>5, <2>3, <3>1, <3>3
        <3>5. Cardinality(DoneIn(After(l), g)) = Size
            BY <3>3, <3>4, CountedOK
        <3>6. IsFiniteSet(Group(g)) /\ Cardinality(Group(g)) = Size
            BY GroupSize
        <3>7. \A T \in SUBSET Group(g) : Cardinality(Group(g)) = Cardinality(T) => Group(g) = T
            BY <3>6, FS_Subset
        <3> QED
            BY <2>1, <3>5, <3>6, <3>7
    <2> QED
        BY <2>2, <2>3
<1> QED
    BY <1>3, <1>4, <1>5

LEMMA RingCompleteOK ==
    ASSUME Ring, RingInv, NEW l \in Links, flows[l] > 0, OnRingComplete(l),
           workload' = workload
    PROVE  RingInv' /\ RoundsApartStep
<1> DEFINE h == GroupOf(l[1])
           more == IF Finishes(l) THEN 1 ELSE 0
           td == After(l)
<1>1. /\ round > 0 /\ RingOK(td) /\ TypeOK
      /\ With(Without(l), Started(NotedDone(l), td)) = Flying(td)
    BY CompletedOK DEF RingInv
<1>2. jct' = IF Finishes(l) THEN Logged(h, groupDone[h] + 1, Size) ELSE jct
    BY SMTT(40) DEF OnRingComplete
<1>3. \/ /\ roundNodes + more >= Cardinality(Nodes) /\ round < TotalRounds
         /\ ScheduleNextRound(Flying(td))
      \/ /\ roundNodes' = roundNodes + more
         /\ groupDone' = [groupDone EXCEPT ![h] = @ + more]
         /\ node' = td /\ flows' = Flying(td)
         /\ UNCHANGED <<round, roundFlows, tree>>
    BY <1>1 DEF OnRingComplete, NotedDone, After, Started
<1>4. /\ jct' \in [(1 .. TotalRounds) \X GroupIds -> Nat]
      /\ \A r \in 1 .. TotalRounds, g \in GroupIds : r > round => jct'[<<r, g>>] = 0
      /\ \A g \in GroupIds : jct'[<<round, g>>] > 0 => DoneIn(td, g) = Group(g)
    BY <1>2, LoggedOK
<1>5. /\ roundNodes + more = Cardinality(DoneNodes(td))
      /\ \A g \in GroupIds :
           groupDone[g] + (IF g = h /\ Finishes(l) THEN 1 ELSE 0) = Cardinality(DoneIn(td, g))
    BY CountedOK
<1> HIDE DEF td
<1>6. CASE /\ roundNodes + more >= Cardinality(Nodes) /\ round < TotalRounds
           /\ ScheduleNextRound(Flying(td))
    <2>1. Flying(td) = NoFlows
        BY <1>1, <1>5, <1>6, LastOK
    <2>2. ScheduleNextRound(NoFlows)
        BY <1>6, <2>1
    <2> QED
        BY <1>1, <1>4, <1>6, <2>2, StartOK
<1>7. CASE /\ roundNodes' = roundNodes + more
           /\ groupDone' = [groupDone EXCEPT ![h] = @ + more]
           /\ node' = td /\ flows' = Flying(td)
           /\ UNCHANGED <<round, roundFlows, tree>>
    <2>1. groupDone \in [GroupIds -> Nat] /\ h \in GroupIds
        BY <1>1, LinkShape, NodeShape DEF TypeOK, GroupOf
    <2>2. \A g \in GroupIds : groupDone'[g] = Cardinality(DoneIn(td, g))
        BY <1>5, <1>7, <2>1
    <2>3. CountersOK'
        BY <1>4, <1>5, <1>7, <2>2 DEF CountersOK
    <2>4. FutureUnlogged'
        BY <1>4, <1>7 DEF FutureUnlogged
    <2>5. roundNodes' \in 0 .. Cardinality(Nodes)
        <3>1. DoneNodes(td) \subseteq Nodes
            BY DEF DoneNodes
        <3>2. /\ IsFiniteSet(DoneNodes(td))
              /\ Cardinality(DoneNodes(td)) <= Cardinality(Nodes)
            BY <3>1, NodesFinite, FS_Subset
        <3>3. Cardinality(DoneNodes(td)) \in Nat /\ Cardinality(Nodes) \in Nat
            BY <3>2, NodesFinite, FS_CardinalityType
        <3> QED
            BY <1>5, <1>7, <3>2, <3>3
    <2>6. groupDone' \in [GroupIds -> Nat]
        <3>1. more \in Nat
            OBVIOUS
        <3>2. groupDone[h] + more \in Nat
            BY <2>1, <3>1
        <3> QED
            BY <1>7, <2>1, <3>2
    <2>7. flows' \in [Links -> Nat]
        BY <1>7 DEF Flying
    <2>8. node' \in [Nodes -> NodeState]
        BY <1>1, <1>7 DEF RingOK
    <2>9. TypeOK'
        BY <1>1, <1>4, <1>7, <2>5, <2>6, <2>7, <2>8 DEF TypeOK
    <2>10. RoundsApartStep
        BY <1>7 DEF RoundsApartStep
    <2> QED
        BY <1>1, <1>7, <2>3, <2>4, <2>9, <2>10 DEF RingInv
<1> QED
    BY <1>3, <1>6, <1>7

LEMMA TypeInit == Init => TypeOK
<1> SUFFICES ASSUME Init PROVE TypeOK
    OBVIOUS
<1>1. Cardinality(Nodes) \in Nat /\ Steps \in Nat
    BY NodesFinite, FS_CardinalityType, StepsType
<1>2. node \in [Nodes -> NodeState]
    BY <1>1 DEF Init, NodeState
<1>3. tree \in [Nodes -> TreeNodeState]
    BY DEF Init, TreeNodeState
<1>4. round = 0 /\ TotalRounds \in Nat
    BY WorkloadAssumption DEF Init
<1> QED
    BY <1>1, <1>2, <1>3, <1>4 DEF Init, TypeOK

LEMMA RingInit == Init => RingInv
<1> SUFFICES ASSUME Init PROVE RingInv
    OBVIOUS
<1>1. TypeOK
    BY TypeInit
<1>2. FutureUnlogged
    BY DEF Init, FutureUnlogged
<1> QED
    BY <1>1, <1>2 DEF Init, RingInv, NoFlows

LEMMA RingStep == Ring /\ RingInv /\ [Next]_vars => RingInv' /\ [RoundsApartStep]_vars
<1> SUFFICES ASSUME Ring, RingInv, [Next]_vars PROVE RingInv' /\ [RoundsApartStep]_vars
    OBVIOUS
<1>1. CASE StartFirstRound
    <2>1. /\ TypeOK /\ flows = NoFlows /\ round = 0 /\ UNCHANGED <<workload, jct>>
          /\ ScheduleNextRound(NoFlows)
        BY <1>1 DEF StartFirstRound, RingInv
    <2>2. round < TotalRounds
        BY <2>1, WorkloadAssumption
    <2>3. /\ jct' \in [(1 .. TotalRounds) \X GroupIds -> Nat]
          /\ \A r \in 1 .. TotalRounds, g \in GroupIds : r > round => jct'[<<r, g>>] = 0
        BY <2>1 DEF RingInv, FutureUnlogged, TypeOK
    <2> QED
        BY <2>1, <2>2, <2>3, StartOK
<1>2. CASE \E l \in Links : OnFlowComplete(l)
    <2> PICK l \in Links : OnFlowComplete(l)
        BY <1>2
    <2>1. flows[l] > 0 /\ OnRingComplete(l) /\ workload' = workload
        BY DEF OnFlowComplete, AllToAll, Ring, Tree
    <2> QED
        BY <2>1, RingCompleteOK
<1>3. CASE UNCHANGED vars
    BY <1>3 DEF vars, RingInv, TypeOK, RingOK, StateOK, SentOf, DataOK, Flying, NoFlows,
                CountersOK, FutureUnlogged, DoneNodes, DoneIn
<1> QED
    BY <1>1, <1>2, <1>3 DEF Next

-------------------------------------------------------------------------------
(* What the invariant of a ring says.                                      *)

LEMMA InvSends == Ring /\ RingInv => SendsWhatItHas
<1> SUFFICES ASSUME Ring, RingInv, round > 0, NEW n \in Nodes
             PROVE  Sent(Succ(n)) <= 1 + node[n].finished
    BY DEF SendsWhatItHas
<1>1. RingOK(node) /\ flows = Flying(node)
    BY DEF RingInv
<1> DEFINE m == Succ(n)
<1>2. m \in Nodes /\ <<m, Succ(m)>> \in Links
    BY SuccType
<1>3. node[m].data + SentOf(node[m]) = 1 + node[n].finished
    BY <1>1 DEF RingOK, DataOK
<1>4. node[m].data \in Nat /\ node[m].finished \in Nat /\ node[n].finished \in Nat
    BY <1>1, <1>2, StepsType DEF RingOK, NodeState
<1> HIDE DEF m
<1>5. flows[<<m, Succ(m)>>] = IF node[m].sending THEN 1 ELSE 0
    BY <1>1, <1>2 DEF Flying
<1>6. Sent(m) = SentOf(node[m])
    BY <1>5 DEF Sent, SentOf
<1> QED
    BY <1>3, <1>4, <1>5, <1>6 DEF SentOf, m

LEMMA InvHonest == Ring /\ RingInv => JctHonest
<1> SUFFICES ASSUME Ring, RingInv, NEW g \in GroupIds, round > 0, jct[<<round, g>>] > 0,
                    NEW l \in Links, GroupOf(l[1]) = g
             PROVE  flows[l] = 0
    BY DEF JctHonest
<1>1. RingOK(node) /\ flows = Flying(node) /\ CountersOK
    BY DEF RingInv
<1>2. DoneIn(node, g) = Group(g)
    BY <1>1 DEF CountersOK
<1>3. node[l[1]].done
    BY <1>2, LinkShape DEF DoneIn, Group
<1>4. ~node[l[1]].sending
    BY <1>1, <1>3, LinkShape, DoneIsSilent
<1> QED
    BY <1>1, <1>4 DEF Flying

-------------------------------------------------------------------------------
(* The lines of a ring.                                                    *)

\* Each group has one line for each round that is over, and one for this
\* round when it is done.
LinesOK(done) ==
    \A r \in 1 .. TotalRounds, g \in GroupIds :
        jct[<<r, g>>] = IF r < round \/ (r = round /\ g \in done) THEN 1 ELSE 0

\* What the call for a completed flow of group h leaves in the JCT file.
LEMMA LineWritten ==
    ASSUME NEW done, NEW now, LinesOK(done), TypeOK, round \in 1 .. TotalRounds,
           NEW h \in GroupIds, h \notin done,
           \A g \in GroupIds : g # h => (g \in now <=> g \in done),
           jct' = IF h \in now THEN [jct EXCEPT ![<<round, h>>] = @ + 1] ELSE jct
    PROVE  /\ jct' \in [(1 .. TotalRounds) \X GroupIds -> Nat]
           /\ \A r \in 1 .. TotalRounds, g \in GroupIds :
                jct'[<<r, g>>] = IF r < round \/ (r = round /\ g \in now) THEN 1 ELSE 0
<1>1. /\ jct \in [(1 .. TotalRounds) \X GroupIds -> Nat]
      /\ <<round, h>> \in (1 .. TotalRounds) \X GroupIds /\ round \in Nat
    BY DEF TypeOK
<1>2. jct[<<round, h>>] = 0
    BY <1>1 DEF LinesOK
<1>3. jct' \in [(1 .. TotalRounds) \X GroupIds -> Nat]
    BY <1>1, <1>2
<1>4. ASSUME NEW r \in 1 .. TotalRounds, NEW g \in GroupIds
      PROVE  jct'[<<r, g>>] = IF r < round \/ (r = round /\ g \in now) THEN 1 ELSE 0
    <2>1. <<r, g>> \in (1 .. TotalRounds) \X GroupIds
        OBVIOUS
    <2>2. jct[<<r, g>>] = IF r < round \/ (r = round /\ g \in done) THEN 1 ELSE 0
        BY DEF LinesOK
    <2>3. CASE r = round /\ g = h
        BY <1>1, <1>2, <2>1, <2>3
    <2>4. CASE ~(r = round /\ g = h)
        <3>1. jct'[<<r, g>>] = jct[<<r, g>>]
            BY <1>1, <2>1, <2>4
        <3> QED
            BY <2>2, <2>4, <3>1
    <2> QED
        BY <2>3, <2>4
<1> QED
    BY <1>3, <1>4

\* The groups all nodes of which are done.
GroupsDone(nd) == {g \in GroupIds : DoneIn(nd, g) = Group(g)}

LEMMA GroupNonEmpty == ASSUME NEW g \in GroupIds PROVE <<g, 0>> \in Group(g)
    BY WorkloadAssumption DEF Group, Nodes, Places, GroupOf

LEMMA RingLinesStep ==
    ASSUME Ring, RingInv, LinesOK(GroupsDone(node)), [Next]_vars
    PROVE  LinesOK(GroupsDone(node))'
<1>1. ASSUME NEW q, ScheduleNextRound(q), TypeOK,
             \A r \in 1 .. TotalRounds, g \in GroupIds :
                 jct'[<<r, g>>] = IF r <= round THEN 1 ELSE 0
      PROVE  LinesOK(GroupsDone(node))'
    <2>1. round' = round + 1 /\ round \in Nat /\ node' = [n \in Nodes |-> AtFirstStep]
        BY <1>1, WorkloadAssumption DEF ScheduleNextRound, TypeOK
    <2>2. \A g \in GroupIds : <<g, 0>> \in Group(g) /\ <<g, 0>> \in Nodes
        BY GroupNonEmpty DEF Group
    <2>3. \A g \in GroupIds : DoneIn(node', g) # Group(g)
        BY <2>1, <2>2 DEF DoneIn, AtFirstStep
    <2>4. GroupsDone(node') = {}
        BY <2>3 DEF GroupsDone
    <2>5. \A r \in 1 .. TotalRounds : r <= round <=> r < round'
        BY <2>1
    <2> QED
        BY <1>1, <2>4, <2>5 DEF LinesOK, GroupsDone, DoneIn
<1>2. CASE StartFirstRound
    <2>1. \A r \in 1 .. TotalRounds, g \in GroupIds : jct'[<<r, g>>] = IF r <= round THEN 1 ELSE 0
        <3> TAKE r \in 1 .. TotalRounds, g \in GroupIds
        <3>1. jct'[<<r, g>>] = IF r < round \/ (r = round /\ g \in GroupsDone(node)) THEN 1 ELSE 0
            BY <1>2 DEF StartFirstRound, LinesOK
        <3>2. round = 0 /\ r \in Int /\ r >= 1
            BY <1>2, WorkloadAssumption DEF StartFirstRound
        <3> QED
            BY <3>1, <3>2
    <2> QED
        BY <1>1, <1>2, <2>1 DEF StartFirstRound, RingInv
<1>3. CASE \E l \in Links : OnFlowComplete(l)
    <2> PICK l \in Links : OnFlowComplete(l)
        BY <1>3
    <2> DEFINE h == GroupOf(l[1])
               td == After(l)
               more == IF Finishes(l) THEN 1 ELSE 0
    <2>1. flows[l] > 0 /\ OnRingComplete(l) /\ workload' = workload
        BY DEF OnFlowComplete, AllToAll, Ring, Tree
    <2>2. /\ round > 0 /\ TypeOK /\ h \in GroupIds /\ l[1] \in Nodes
          /\ RingOK(td) /\ ~node[l[1]].done
          /\ \A m \in Nodes : td[m].done <=> node[m].done \/ (m = l[1] /\ Finishes(l))
        BY <2>1, CompletedOK, LinkShape, NodeShape DEF RingInv, GroupOf
    <2>3. /\ roundNodes + more = Cardinality(DoneNodes(td))
          /\ \A g \in GroupIds :
               groupDone[g] + (IF g = h /\ Finishes(l) THEN 1 ELSE 0) = Cardinality(DoneIn(td, g))
        BY <2>1, CountedOK
    <2>4. jct' = IF Finishes(l) THEN Logged(h, groupDone[h] + 1, Size) ELSE jct
        BY <2>1 DEF OnRingComplete
    <2>5. \/ /\ roundNodes + more >= Cardinality(Nodes)
             /\ \E q : ScheduleNextRound(q)
          \/ node' = td /\ round' = round
        BY <2>1 DEF OnRingComplete, NotedDone, After
    <2> HIDE DEF td
    <2>6. l[1] \in Group(h) /\ h \notin GroupsDone(node)
        BY <2>2 DEF Group, GroupsDone, DoneIn
    <2>7. \A g \in GroupIds : g # h => (g \in GroupsDone(td) <=> g \in GroupsDone(node))
        BY <2>2 DEF GroupsDone, DoneIn, Group
    <2>8. h \in GroupsDone(td) <=> Finishes(l) /\ groupDone[h] + 1 = Size
        <3>1. IsFiniteSet(Group(h)) /\ Cardinality(Group(h)) = Size
            BY <2>2, GroupSize
        <3>2. DoneIn(td, h) \subseteq Group(h)
            BY DEF DoneIn
        <3>3. Cardinality(DoneIn(td, h)) = Size => DoneIn(td, h) = Group(h)
            BY <3>1, <3>2, FS_Subset
        <3>4. CASE Finishes(l)
            BY <2>2, <2>3, <3>1, <3>3, <3>4 DEF GroupsDone
        <3>5. CASE ~Finishes(l)
            BY <2>2, <2>6, <3>5 DEF GroupsDone, DoneIn, Group
        <3> QED
            BY <3>4, <3>5
    <2>9. jct' = IF h \in GroupsDone(td) THEN [jct EXCEPT ![<<round, h>>] = @ + 1] ELSE jct
        BY <2>4, <2>8 DEF Logged
    <2>10. round \in 1 .. TotalRounds
        BY <2>2 DEF TypeOK
    <2>11. \A r \in 1 .. TotalRounds, g \in GroupIds :
             jct'[<<r, g>>] = IF r < round \/ (r = round /\ g \in GroupsDone(td)) THEN 1 ELSE 0
        <3> DEFINE done == GroupsDone(node)
                   now == GroupsDone(td)
        <3>1. /\ LinesOK(done) /\ TypeOK /\ round \in 1 .. TotalRounds /\ h \in GroupIds
              /\ h \notin done /\ \A g \in GroupIds : g # h => (g \in now <=> g \in done)
              /\ jct' = IF h \in now THEN [jct EXCEPT ![<<round, h>>] = @ + 1] ELSE jct
            BY <2>2, <2>6, <2>7, <2>9, <2>10
        <3> HIDE DEF done, now, h
        <3>2. \A r \in 1 .. TotalRounds, g \in GroupIds :
                jct'[<<r, g>>] = IF r < round \/ (r = round /\ g \in now) THEN 1 ELSE 0
            BY <3>1, LineWritten
        <3> QED
            BY <3>2 DEF now
    <2>12. CASE node' = td /\ round' = round
        BY <2>11, <2>12 DEF LinesOK, GroupsDone, DoneIn
    <2>13. CASE roundNodes + more >= Cardinality(Nodes) /\ \E q : ScheduleNextRound(q)
        <3>1. DoneNodes(td) = Nodes
            <4>1. DoneNodes(td) \subseteq Nodes
                BY DEF DoneNodes
            <4>2. /\ IsFiniteSet(DoneNodes(td)) /\ Cardinality(DoneNodes(td)) <= Cardinality(Nodes)
                BY <4>1, NodesFinite, FS_Subset
            <4>3. Cardinality(DoneNodes(td)) \in Nat /\ Cardinality(Nodes) \in Nat
                BY <4>2, NodesFinite, FS_CardinalityType
            <4>4. Cardinality(Nodes) = Cardinality(DoneNodes(td))
                BY <2>3, <2>13, <4>2, <4>3
            <4> QED
                BY <4>1, <4>4, NodesFinite, FS_Subset
        <3>2. \A g \in GroupIds : g \in GroupsDone(td)
            BY <3>1 DEF DoneNodes, GroupsDone, DoneIn, Group
        <3>3. \A r \in 1 .. TotalRounds, g \in GroupIds : jct'[<<r, g>>] = IF r <= round THEN 1 ELSE 0
            <4> TAKE r \in 1 .. TotalRounds, g \in GroupIds
            <4>1. jct'[<<r, g>>] = IF r < round \/ (r = round /\ g \in GroupsDone(td)) THEN 1 ELSE 0
                BY <2>11
            <4>2. round \in Int /\ r \in Int /\ g \in GroupsDone(td)
                BY <2>10, <3>2, WorkloadAssumption
            <4> QED
                BY <4>1, <4>2
        <3> QED
            BY <1>1, <2>2, <2>13, <3>3
    <2> QED
        BY <2>5, <2>12, <2>13
<1>4. CASE UNCHANGED vars
    BY <1>4 DEF vars, LinesOK, GroupsDone, DoneIn
<1> QED
    BY <1>2, <1>3, <1>4 DEF Next

LEMMA LinesOnce ==
    ASSUME NEW done, LinesOK(done)
    PROVE  JctOncePerRound
<1> SUFFICES ASSUME NEW r \in 1 .. TotalRounds, NEW g \in GroupIds
             PROVE  IF r < round THEN jct[<<r, g>>] = 1 ELSE jct[<<r, g>>] <= 1
    BY DEF JctOncePerRound
<1>1. jct[<<r, g>>] = IF r < round \/ (r = round /\ g \in done) THEN 1 ELSE 0
    BY DEF LinesOK
<1> QED
    BY <1>1

-------------------------------------------------------------------------------
(* All-to-all and all-to-all-v: the pairs of a group.                      *)

LinksOf(g) == {l \in Links : GroupOf(l[1]) = g}
PlacePairs == {d \in Places \X Places : d[1] # d[2]}

LEMMA PlacePairsCounted ==
    IsFiniteSet(PlacePairs) /\ Cardinality(PlacePairs) = FlowsOfGroup
<1> DEFINE same == {d \in Places \X Places : d[1] = d[2]}
           f == [p \in Places |-> <<p, p>>]
<1>1. IsFiniteSet(Places) /\ Cardinality(Places) = Size /\ Size \in Nat
    BY FS_Interval, WorkloadAssumption DEF Places
<1>2. IsFiniteSet(Places \X Places) /\ Cardinality(Places \X Places) = Size * Size
    BY <1>1, FS_Product
<1>3. f \in Bijection(Places, same)
    <2>1. f \in [Places -> same] /\ \A a, b \in Places : f[a] = f[b] => a = b
        OBVIOUS
    <2>2. \A d \in same : \E p \in Places : f[p] = d
        <3> TAKE d \in same
        <3>1. d[1] \in Places /\ d = <<d[1], d[1]>>
            OBVIOUS
        <3> QED
            BY <3>1
    <2> QED
        BY <2>1, <2>2, Fun_IsBij
<1>4. ExistsBijection(Places, same)
    BY <1>3, Fun_ExistsBij
<1>5. IsFiniteSet(same) /\ Cardinality(same) = Size
    BY <1>1, <1>4, FS_Bijection
<1>6. PlacePairs = (Places \X Places) \ same /\ (Places \X Places) \cap same = same
    BY DEF PlacePairs
<1> HIDE DEF same, f
<1>7. IsFiniteSet(PlacePairs) /\ Cardinality(PlacePairs) = Size * Size - Size
    <2> DEFINE all == Places \X Places
    <2>1. IsFiniteSet(all) /\ Cardinality(all) = Size * Size
        BY <1>2
    <2>2. PlacePairs = all \ same /\ all \cap same = same
        BY <1>6
    <2> HIDE DEF all
    <2>3. IsFiniteSet(all \ same) /\ Cardinality(all \ same) = Cardinality(all) - Cardinality(all \cap same)
        BY <2>1, FS_Difference
    <2> QED
        BY <1>5, <2>1, <2>2, <2>3
<1>8. Size * (Size - 1) = Size * Size - Size
    BY <1>1
<1> QED
    BY <1>7, <1>8 DEF FlowsOfGroup

LEMMA LinkOfPlaces ==
    ASSUME NEW g \in GroupIds, NEW d \in PlacePairs
    PROVE  <<<<g, d[1]>>, <<g, d[2]>>>> \in LinksOf(g)
    BY DEF PlacePairs, LinksOf, Links, Nodes, GroupOf

LEMMA PlacesOfLink ==
    ASSUME NEW l \in Links
    PROVE  /\ GroupOf(l[1]) \in GroupIds /\ <<l[1][2], l[2][2]>> \in PlacePairs
           /\ l = <<<<GroupOf(l[1]), l[1][2]>>, <<GroupOf(l[1]), l[2][2]>>>>
<1>1. l = <<l[1], l[2]>> /\ l[1] \in Nodes /\ l[2] \in Nodes
    BY LinkShape
<1>2. /\ l[1] = <<l[1][1], l[1][2]>> /\ l[1][1] \in GroupIds /\ l[1][2] \in Places
      /\ l[2] = <<l[2][1], l[2][2]>> /\ l[2][1] \in GroupIds /\ l[2][2] \in Places
    BY <1>1 DEF Nodes
<1>3. l[1][1] = l[2][1] /\ l[1] # l[2]
    BY DEF Links, GroupOf
<1>4. l[1][2] # l[2][2]
    BY <1>2, <1>3
<1> QED
    BY <1>1, <1>2, <1>3, <1>4 DEF PlacePairs, GroupOf

\* A group has m_total_flows_per_group pairs.
LEMMA LinksOfCounted ==
    ASSUME NEW g \in GroupIds
    PROVE  IsFiniteSet(LinksOf(g)) /\ Cardinality(LinksOf(g)) = FlowsOfGroup
<1> DEFINE f == [d \in PlacePairs |-> <<<<g, d[1]>>, <<g, d[2]>>>>]
<1>1. f \in [PlacePairs -> LinksOf(g)]
    BY LinkOfPlaces
<1>2. \A a, b \in PlacePairs : f[a] = f[b] => a = b
    <2> TAKE a, b \in PlacePairs
    <2>1. a = <<a[1], a[2]>> /\ b = <<b[1], b[2]>>
        BY DEF PlacePairs
    <2> QED
        BY <2>1
<1>3. \A l \in LinksOf(g) : \E d \in PlacePairs : f[d] = l
    <2> TAKE l \in LinksOf(g)
    <2>1. l \in Links /\ GroupOf(l[1]) = g
        BY DEF LinksOf
    <2>2. <<l[1][2], l[2][2]>> \in PlacePairs /\ f[<<l[1][2], l[2][2]>>] = l
        BY <2>1, PlacesOfLink
    <2> QED
        BY <2>2
<1>4. ExistsBijection(PlacePairs, LinksOf(g))
    BY <1>1, <1>2, <1>3, Fun_IsBij, Fun_ExistsBij
<1> QED
    BY <1>4, PlacePairsCounted, FS_Bijection

LEMMA LinksCounted == IsFiniteSet(Links) /\ Cardinality(Links) = NumGroups * FlowsOfGroup
<1> DEFINE f == [x \in GroupIds \X PlacePairs |-> <<<<x[1], x[2][1]>>, <<x[1], x[2][2]>>>>]
<1>1. f \in [GroupIds \X PlacePairs -> Links]
    BY LinkOfPlaces DEF LinksOf
<1>2. \A a, b \in GroupIds \X PlacePairs : f[a] = f[b] => a = b
    <2> TAKE a, b \in GroupIds \X PlacePairs
    <2>1. /\ a = <<a[1], a[2]>> /\ a[2] = <<a[2][1], a[2][2]>>
          /\ b = <<b[1], b[2]>> /\ b[2] = <<b[2][1], b[2][2]>>
        BY DEF PlacePairs
    <2> HAVE f[a] = f[b]
    <2>2. a[1] = b[1] /\ a[2][1] = b[2][1] /\ a[2][2] = b[2][2]
        OBVIOUS
    <2> QED
        BY <2>1, <2>2
<1>3. \A l \in Links : \E x \in GroupIds \X PlacePairs : f[x] = l
    <2> TAKE l \in Links
    <2> DEFINE d == <<l[1][2], l[2][2]>>
    <2>1. <<GroupOf(l[1]), d>> \in GroupIds \X PlacePairs
        BY PlacesOfLink
    <2>2. f[<<GroupOf(l[1]), d>>] = l
        BY <2>1, PlacesOfLink
    <2> QED
        BY <2>1, <2>2
<1> HIDE DEF f
<1>4. ExistsBijection(GroupIds \X PlacePairs, Links)
    <2>1. f \in Bijection(GroupIds \X PlacePairs, Links)
        BY <1>1, <1>2, <1>3, Fun_IsBij
    <2> QED
        BY <2>1, Fun_ExistsBij
<1>5. IsFiniteSet(GroupIds) /\ Cardinality(GroupIds) = NumGroups
    BY FS_Interval, WorkloadAssumption DEF GroupIds
<1> QED
    BY <1>4, <1>5, PlacePairsCounted, FS_Product, FS_Bijection

-------------------------------------------------------------------------------
(* The invariant of all-to-all.                                            *)

\* The pairs whose flow of this round has completed; a pair without data
\* has no flow and is never one of them.
Ended(fl) == {l \in Links \ NoData : fl[l] = 0}
EndedIn(fl, g) == {l \in LinksOf(g) \ NoData : fl[l] = 0}
GroupsEnded(fl) == {g \in GroupIds : EndedIn(fl, g) = LinksOf(g)}

PairInv ==
    /\ TypeOK
    /\ \A l \in Links : flows[l] \in {0, 1} /\ (l \in NoData => flows[l] = 0)
    /\ round = 0 => flows = NoFlows
    /\ round > 0 => /\ roundFlows = Cardinality(Ended(flows))
                    /\ \A g \in GroupIds : groupDone[g] = Cardinality(EndedIn(flows, g))
    /\ LinesOK(GroupsEnded(flows))

LEMMA PairInit == Init => PairInv
<1> SUFFICES ASSUME Init PROVE PairInv
    OBVIOUS
<1>1. TypeOK /\ round = 0 /\ flows = NoFlows
    BY TypeInit DEF Init, NoFlows
<1>2. ASSUME NEW r \in 1 .. TotalRounds PROVE ~(r < round) /\ r # round
    BY <1>1, WorkloadAssumption
<1>3. LinesOK(GroupsEnded(flows))
    BY <1>2 DEF Init, LinesOK
<1> QED
    BY <1>1, <1>3 DEF PairInv, NoFlows

\* A round starts with a flow on each pair that has data.
LEMMA PairStartOK ==
    ASSUME AllToAll, TypeOK, round < TotalRounds, ScheduleNextRound(NoFlows),
           jct' \in [(1 .. TotalRounds) \X GroupIds -> Nat],
           \A r \in 1 .. TotalRounds, g \in GroupIds :
               jct'[<<r, g>>] = IF r <= round THEN 1 ELSE 0,
           workload' = workload
    PROVE  PairInv' /\ RoundsApartStep
<1>0. NoData' = NoData
    BY DEF NoData
<1>1. round' = round + 1 /\ round \in Nat /\ round' \in 1 .. TotalRounds
    BY WorkloadAssumption DEF ScheduleNextRound, TypeOK
<1>2. flows' = With(NoFlows, FirstFlows) /\ FirstFlows = Links \ NoData
    BY DEF ScheduleNextRound, FirstFlows, AllToAll, Ring, Tree
<1>3. \A l \in Links : flows'[l] = IF l \in NoData THEN 0 ELSE 1
    BY <1>2 DEF With, NoFlows
<1>4. Ended(flows') = {} /\ \A g \in GroupIds : EndedIn(flows', g) = {}
    BY <1>3 DEF Ended, EndedIn, LinksOf
<1>5. \A g \in GroupIds : LinksOf(g) # {}
    <2> TAKE g \in GroupIds
    <2>1. <<0, 1>> \in PlacePairs
        BY WorkloadAssumption DEF PlacePairs, Places
    <2> QED
        BY <2>1, LinkOfPlaces
<1>6. GroupsEnded(flows') = {}
    BY <1>4, <1>5 DEF GroupsEnded
<1>7. roundFlows' = 0 /\ roundNodes' = 0 /\ groupDone' = [g \in GroupIds |-> 0]
      /\ node' = node
    BY DEF ScheduleNextRound, FreshGroups, AllToAll
<1>8. LinesOK(GroupsEnded(flows))'
    <2>1. ASSUME NEW r \in 1 .. TotalRounds PROVE r < round' <=> r <= round
        BY <1>1, WorkloadAssumption
    <2> QED
        BY <1>0, <1>6, <2>1 DEF LinesOK, GroupsEnded, EndedIn
<1>9. TypeOK'
    <2>1. tree' \in [Nodes -> TreeNodeState]
        BY DEF ScheduleNextRound, TypeOK, TreeNodeState
    <2>2. flows' \in [Links -> Nat]
        BY <1>2, <1>3 DEF With
    <2>3. Cardinality(Nodes) \in Nat /\ TotalRounds \in Nat
        BY NodesFinite, FS_CardinalityType, WorkloadAssumption
    <2> QED
        BY <1>1, <1>7, <2>1, <2>2, <2>3 DEF TypeOK
<1>10. /\ roundFlows' = Cardinality(Ended(flows'))
       /\ \A g \in GroupIds : groupDone'[g] = Cardinality(EndedIn(flows', g))
    BY <1>4, <1>7, FS_EmptySet
<1>11. RoundsApartStep
    BY <1>2 DEF RoundsApartStep, NoFlows
<1> QED
    BY <1>0, <1>1, <1>3, <1>8, <1>9, <1>10, <1>11 DEF PairInv, Ended, EndedIn

LEMMA PairCompleteOK ==
    ASSUME AllToAll, PairInv, NEW l \in Links, flows[l] > 0, OnAllToAllComplete(l),
           workload' = workload
    PROVE  PairInv' /\ RoundsApartStep
<1> DEFINE h == GroupOf(l[1])
           fl == Without(l)
<1>0. NoData' = NoData
    BY DEF NoData
<1>1. /\ TypeOK /\ round > 0 /\ round \in 1 .. TotalRounds /\ round \in Int
      /\ h \in GroupIds /\ l \in LinksOf(h) /\ l \notin NoData /\ flows[l] = 1
    <2>1. flows[l] = 1 /\ l \notin NoData /\ round # 0
        BY DEF PairInv, NoFlows
    <2>2. TypeOK /\ round \in 0 .. TotalRounds /\ TotalRounds \in Nat
        BY WorkloadAssumption DEF PairInv, TypeOK
    <2>3. h \in GroupIds /\ l \in LinksOf(h)
        BY PlacesOfLink DEF LinksOf
    <2> HIDE DEF h
    <2>4. round > 0 /\ round \in 1 .. TotalRounds /\ round \in Int
        BY <2>1, <2>2
    <2> QED
        BY <2>1, <2>2, <2>3, <2>4
<1>2. /\ fl \in [Links -> Nat]
      /\ \A k \in Links : fl[k] = IF k = l THEN 0 ELSE flows[k]
    BY <1>1 DEF Without, TypeOK
<1>3. \A k \in Links : fl[k] \in {0, 1} /\ (k \in NoData => fl[k] = 0)
    BY <1>1, <1>2 DEF PairInv
<1> HIDE DEF fl, h
<1>4. Ended(fl) = Ended(flows) \cup {l} /\ l \notin Ended(flows)
    BY <1>1, <1>2 DEF Ended
<1>5. EndedIn(fl, h) = EndedIn(flows, h) \cup {l} /\ l \notin EndedIn(flows, h)
    BY <1>1, <1>2 DEF EndedIn, LinksOf
<1>6. \A g \in GroupIds : g # h => EndedIn(fl, g) = EndedIn(flows, g)
    BY <1>1, <1>2 DEF EndedIn, LinksOf, h
<1>7. roundFlows + 1 = Cardinality(Ended(fl))
    <2>1. IsFiniteSet(Ended(flows))
        BY LinksCounted, FS_Subset DEF Ended
    <2> QED
        BY <1>1, <1>4, <2>1, FS_AddElement DEF PairInv
<1>8. groupDone[h] + 1 = Cardinality(EndedIn(fl, h))
    <2>1. IsFiniteSet(EndedIn(flows, h))
        BY <1>1, LinksOfCounted, FS_Subset DEF EndedIn
    <2>2. Cardinality(EndedIn(fl, h)) = Cardinality(EndedIn(flows, h)) + 1
        BY <1>5, <2>1, FS_AddElement
    <2>3. groupDone[h] = Cardinality(EndedIn(flows, h))
        BY <1>1 DEF PairInv
    <2> QED
        BY <2>2, <2>3
<1>9. groupDone[h] + 1 = FlowsOfGroup <=> h \in GroupsEnded(fl)
    <2>1. EndedIn(fl, h) \subseteq LinksOf(h)
        BY DEF EndedIn
    <2>2. Cardinality(EndedIn(fl, h)) = Cardinality(LinksOf(h)) => EndedIn(fl, h) = LinksOf(h)
        BY <1>1, <2>1, LinksOfCounted, FS_Subset
    <2> QED
        BY <1>1, <1>8, <2>2, LinksOfCounted DEF GroupsEnded
<1>10. /\ h \notin GroupsEnded(flows)
       /\ \A g \in GroupIds : g # h => (g \in GroupsEnded(fl) <=> g \in GroupsEnded(flows))
    BY <1>1, <1>5, <1>6 DEF GroupsEnded
<1>11. jct' = IF h \in GroupsEnded(fl) THEN [jct EXCEPT ![<<round, h>>] = @ + 1] ELSE jct
    BY <1>9 DEF OnAllToAllComplete, Logged, h
<1>12. /\ jct' \in [(1 .. TotalRounds) \X GroupIds -> Nat]
       /\ \A r \in 1 .. TotalRounds, g \in GroupIds :
            jct'[<<r, g>>] = IF r < round \/ (r = round /\ g \in GroupsEnded(fl)) THEN 1 ELSE 0
    <2> DEFINE done == GroupsEnded(flows)
               now == GroupsEnded(fl)
    <2>1. /\ LinesOK(done) /\ TypeOK /\ round \in 1 .. TotalRounds /\ h \in GroupIds
          /\ h \notin done /\ \A g \in GroupIds : g # h => (g \in now <=> g \in done)
          /\ jct' = IF h \in now THEN [jct EXCEPT ![<<round, h>>] = @ + 1] ELSE jct
        BY <1>1, <1>10, <1>11 DEF PairInv
    <2> HIDE DEF done, now
    <2>2. /\ jct' \in [(1 .. TotalRounds) \X GroupIds -> Nat]
          /\ \A r \in 1 .. TotalRounds, g \in GroupIds :
               jct'[<<r, g>>] = IF r < round \/ (r = round /\ g \in now) THEN 1 ELSE 0
        BY <2>1, LineWritten
    <2> QED
        BY <2>2 DEF now
<1>13. \/ /\ roundFlows + 1 >= NumGroups * FlowsOfGroup /\ round < TotalRounds
          /\ ScheduleNextRound(fl)
       \/ /\ roundFlows' = roundFlows + 1
          /\ groupDone' = [groupDone EXCEPT ![h] = @ + 1]
          /\ flows' = fl
          /\ UNCHANGED <<round, roundNodes, node, tree>>
    BY DEF OnAllToAllComplete, fl, h
<1>14. CASE /\ roundFlows + 1 >= NumGroups * FlowsOfGroup /\ round < TotalRounds
            /\ ScheduleNextRound(fl)
    <2>1. Ended(fl) = Links
        <3>1. Ended(fl) \subseteq Links
            BY DEF Ended
        <3>2. IsFiniteSet(Ended(fl)) /\ Cardinality(Ended(fl)) <= Cardinality(Links)
            BY <3>1, LinksCounted, FS_Subset
        <3>3. Cardinality(Ended(fl)) \in Nat /\ Cardinality(Links) \in Nat
            BY <3>2, LinksCounted, FS_CardinalityType
        <3>4. Cardinality(Links) = Cardinality(Ended(fl))
            BY <1>7, <1>14, <3>2, <3>3, LinksCounted
        <3> QED
            BY <3>1, <3>4, LinksCounted, FS_Subset
    <2>2. \A k \in Links : fl[k] = 0 /\ k \notin NoData
        BY <2>1 DEF Ended
    <2>3. fl = NoFlows
        BY <1>2, <2>2 DEF NoFlows
    <2>4. \A g \in GroupIds : g \in GroupsEnded(fl)
        BY <2>2 DEF GroupsEnded, EndedIn, LinksOf
    <2>5. \A r \in 1 .. TotalRounds, g \in GroupIds :
            jct'[<<r, g>>] = IF r <= round THEN 1 ELSE 0
        <3> TAKE r \in 1 .. TotalRounds, g \in GroupIds
        <3>1. jct'[<<r, g>>] = IF r < round \/ (r = round /\ g \in GroupsEnded(fl)) THEN 1 ELSE 0
            BY <1>12
        <3>2. r \in Int /\ g \in GroupsEnded(fl)
            BY <2>4, WorkloadAssumption
        <3> QED
            BY <1>1, <3>1, <3>2
    <2>6. ScheduleNextRound(NoFlows)
        BY <1>14, <2>3
    <2> QED
        BY <1>1, <1>12, <1>14, <2>5, <2>6, PairStartOK
<1>15. CASE /\ roundFlows' = roundFlows + 1
            /\ groupDone' = [groupDone EXCEPT ![h] = @ + 1]
            /\ flows' = fl
            /\ UNCHANGED <<round, roundNodes, node, tree>>
    <2>1. groupDone \in [GroupIds -> Nat] /\ roundFlows \in Nat
        BY <1>1 DEF TypeOK
    <2>2. groupDone' \in [GroupIds -> Nat] /\ roundFlows' \in Nat
        BY <1>1, <1>15, <2>1
    <2>3. TypeOK'
        BY <1>1, <1>2, <1>12, <1>15, <2>2 DEF TypeOK
    <2>4. \A g \in GroupIds : groupDone'[g] = Cardinality(EndedIn(flows', g))
        BY <1>1, <1>6, <1>8, <1>15, <2>1 DEF PairInv
    <2>5. LinesOK(GroupsEnded(flows))'
        BY <1>0, <1>12, <1>15 DEF LinesOK, GroupsEnded, EndedIn
    <2>6. RoundsApartStep
        BY <1>15 DEF RoundsApartStep
    <2> QED
        BY <1>0, <1>1, <1>3, <1>7, <1>15, <2>3, <2>4, <2>5, <2>6 DEF PairInv, Ended, EndedIn
<1> QED
    BY <1>13, <1>14, <1>15

LEMMA PairStep == AllToAll /\ PairInv /\ [Next]_vars => PairInv' /\ [RoundsApartStep]_vars
<1> SUFFICES ASSUME AllToAll, PairInv, [Next]_vars PROVE PairInv' /\ [RoundsApartStep]_vars
    OBVIOUS
<1>1. CASE StartFirstRound
    <2>1. /\ TypeOK /\ round = 0 /\ flows = NoFlows /\ UNCHANGED <<workload, jct>>
          /\ ScheduleNextRound(NoFlows)
        BY <1>1 DEF StartFirstRound, PairInv
    <2>2. round < TotalRounds /\ jct' \in [(1 .. TotalRounds) \X GroupIds -> Nat]
        BY <2>1, WorkloadAssumption DEF TypeOK
    <2>3. \A r \in 1 .. TotalRounds, g \in GroupIds :
            jct'[<<r, g>>] = IF r <= round THEN 1 ELSE 0
        <3> TAKE r \in 1 .. TotalRounds, g \in GroupIds
        <3>1. jct'[<<r, g>>] = IF r < round \/ (r = round /\ g \in GroupsEnded(flows)) THEN 1 ELSE 0
            BY <2>1 DEF PairInv, LinesOK
        <3>2. r \in Int /\ r >= 1
            BY WorkloadAssumption
        <3> QED
            BY <2>1, <3>1, <3>2
    <2> QED
        BY <2>1, <2>2, <2>3, PairStartOK
<1>2. CASE \E l \in Links : OnFlowComplete(l)
    BY <1>2, PairCompleteOK DEF OnFlowComplete, AllToAll
<1>3. CASE UNCHANGED vars
    BY <1>3 DEF vars, NoData, PairInv, TypeOK, NoFlows, LinesOK, GroupsEnded, EndedIn, Ended
<1> QED
    BY <1>1, <1>2, <1>3 DEF Next

LEMMA PairsHonest == PairInv => JctHonest
<1> SUFFICES ASSUME PairInv, NEW g \in GroupIds, round > 0, jct[<<round, g>>] > 0,
                    NEW l \in Links, GroupOf(l[1]) = g
             PROVE  flows[l] = 0
    BY DEF JctHonest
<1>1. round \in 1 .. TotalRounds /\ round \in Int
    BY WorkloadAssumption DEF PairInv, TypeOK
<1>2. g \in GroupsEnded(flows)
    BY <1>1 DEF PairInv, LinesOK
<1> QED
    BY <1>2 DEF GroupsEnded, EndedIn, LinksOf

-------------------------------------------------------------------------------
(* A tree: the nodes that are marked as finished, and their count.         *)

Marked(t, g) == {n \in Nodes : GroupOf(n) = g /\ t[n].castDone}

TreeInv ==
    /\ tree \in [Nodes -> TreeNodeState]
    /\ groupDone \in [GroupIds -> Nat]
    /\ \A g \in GroupIds : groupDone[g] = Cardinality(Marked(tree, g))

\* No node is marked when a round starts.
LEMMA UnmarkedOK ==
    ASSUME Tree, tree' \in [Nodes -> TreeNodeState],
           \A n \in Nodes : ~tree'[n].castDone,
           groupDone' = [g \in GroupIds |-> 0]
    PROVE  TreeInv'
<1>1. \A g \in GroupIds : Marked(tree', g) = {}
    BY DEF Marked
<1> QED
    BY <1>1, FS_EmptySet DEF TreeInv

LEMMA TreeInit == Tree /\ Init => TreeInv
<1> SUFFICES ASSUME Tree, Init PROVE TreeInv
    OBVIOUS
<1>1. tree \in [Nodes -> TreeNodeState] /\ \A n \in Nodes : ~tree[n].castDone
    BY DEF Init, TreeNodeState
<1>2. \A g \in GroupIds : Marked(tree, g) = {}
    BY <1>1 DEF Marked
<1> QED
    BY <1>1, <1>2, FS_EmptySet DEF TreeInv, Init

LEMMA TreeStartOK ==
    ASSUME Tree, TreeInv, StartFirstRound
    PROVE  TreeInv'
<1>1. /\ tree' = [n \in Nodes |-> [tree[n] EXCEPT !.castDone = FALSE]]
      /\ groupDone' = [g \in GroupIds |-> 0]
    BY DEF StartFirstRound, ScheduleNextRound, FreshGroups
<1>2. tree' \in [Nodes -> TreeNodeState] /\ \A n \in Nodes : ~tree'[n].castDone
    BY <1>1 DEF TreeInv, TreeNodeState
<1> QED
    BY <1>1, <1>2, UnmarkedOK

LEMMA FromParentOK ==
    ASSUME Tree, TreeInv, NEW l \in Links, FromParent(l)
    PROVE  TreeInv'
<1>1. l[1] \in Nodes /\ l[2] \in Nodes /\ l[1] # l[2]
    BY LinkShape DEF Links
<1>2. /\ tree' = [tree EXCEPT ![l[2]].gotChildren = @ + 1, ![l[1]].sentParent = TRUE]
      /\ UNCHANGED groupDone
    BY DEF FromParent
<1>3. /\ tree' \in [Nodes -> TreeNodeState]
      /\ \A n \in Nodes : tree'[n].castDone = tree[n].castDone
    <2>1. tree' = [n \in Nodes |-> IF n = l[2] THEN [tree[n] EXCEPT !.gotChildren = @ + 1]
                                   ELSE IF n = l[1] THEN [tree[n] EXCEPT !.sentParent = TRUE]
                                   ELSE tree[n]]
        BY <1>1, <1>2 DEF TreeInv
    <2>2. SUFFICES ASSUME NEW n \in Nodes
                   PROVE  tree'[n] \in TreeNodeState /\ tree'[n].castDone = tree[n].castDone
        BY <2>1
    <2>3. tree[n] \in TreeNodeState
        BY DEF TreeInv
    <2>4. CASE n = l[2]
        <3>1. tree'[n] = [tree[n] EXCEPT !.gotChildren = @ + 1]
            BY <1>1, <2>1, <2>4
        <3> QED
            BY <2>3, <3>1 DEF TreeNodeState
    <2>5. CASE n # l[2] /\ n = l[1]
        <3>1. tree'[n] = [tree[n] EXCEPT !.sentParent = TRUE]
            BY <1>1, <2>1, <2>5
        <3> QED
            BY <2>3, <3>1 DEF TreeNodeState
    <2>6. CASE n # l[2] /\ n # l[1]
        BY <2>1, <2>3, <2>6
    <2> QED
        BY <2>4, <2>5, <2>6
<1>4. \A g \in GroupIds : Marked(tree', g) = Marked(tree, g)
    BY <1>3 DEF Marked
<1> QED
    BY <1>2, <1>3, <1>4 DEF TreeInv

\* A flow from a child marks its parent at most, and counts it when it was
\* not marked.
LEMMA FromChildOK ==
    ASSUME Tree, TreeInv, NEW l \in Links, FromChild(l)
    PROVE  TreeInv'
<1> DEFINE g == GroupOf(l[2])
           ends == CastEnds(l[2])
<1>1. l[1] \in Nodes /\ l[2] \in Nodes /\ l[1] # l[2] /\ g \in GroupIds
    BY LinkShape, NodeShape DEF Links, GroupOf
<1>2. ends \in BOOLEAN
    BY DEF CastEnds
<1>3. /\ tree' = [tree EXCEPT ![l[1]].sentChildren = @ + 1,
                              ![l[2]].gotParent = TRUE,
                              ![l[2]].castDone = @ \/ ends]
      /\ groupDone' = IF ends THEN [groupDone EXCEPT ![g] = @ + 1] ELSE groupDone
    BY DEF FromChild
<1>4. ends => ~tree[l[2]].castDone
    BY DEF CastEnds
<1> HIDE DEF ends
<1>5. /\ tree' \in [Nodes -> TreeNodeState]
      /\ \A n \in Nodes : tree'[n].castDone <=> tree[n].castDone \/ (n = l[2] /\ ends)
    <2>1. tree' = [n \in Nodes |->
                      IF n = l[2] THEN [tree[n] EXCEPT !.gotParent = TRUE, !.castDone = @ \/ ends]
                      ELSE IF n = l[1] THEN [tree[n] EXCEPT !.sentChildren = @ + 1]
                      ELSE tree[n]]
        BY <1>1, <1>3 DEF TreeInv, TreeNodeState
    <2>2. SUFFICES ASSUME NEW n \in Nodes
                   PROVE  /\ tree'[n] \in TreeNodeState
                          /\ tree'[n].castDone <=> tree[n].castDone \/ (n = l[2] /\ ends)
        BY <2>1
    <2>3. tree[n] \in TreeNodeState
        BY DEF TreeInv
    <2>4. CASE n = l[2]
        <3>1. tree'[n] = [tree[n] EXCEPT !.gotParent = TRUE, !.castDone = @ \/ ends]
            BY <1>1, <2>1, <2>4
        <3> QED
            BY <1>2, <2>3, <2>4, <3>1 DEF TreeNodeState
    <2>5. CASE n # l[2] /\ n = l[1]
        <3>1. tree'[n] = [tree[n] EXCEPT !.sentChildren = @ + 1]
            BY <1>1, <2>1, <2>5
        <3> QED
            BY <2>3, <2>5, <3>1 DEF TreeNodeState
    <2>6. CASE n # l[2] /\ n # l[1]
        BY <2>1, <2>3, <2>6
    <2> QED
        BY <2>4, <2>5, <2>6
<1>6. \A h \in GroupIds : IsFiniteSet(Marked(tree, h))
    BY NodesFinite, FS_Subset DEF Marked
<1>7. CASE ends
    <2>1. l[2] \notin Marked(tree, g) /\ Marked(tree', g) = Marked(tree, g) \cup {l[2]}
        BY <1>1, <1>4, <1>5, <1>7 DEF Marked
    <2>2. Cardinality(Marked(tree', g)) = Cardinality(Marked(tree, g)) + 1
        BY <1>1, <1>6, <2>1, FS_AddElement
    <2>3. \A h \in GroupIds : h # g => Marked(tree', h) = Marked(tree, h)
        BY <1>5 DEF Marked
    <2> HIDE DEF g
    <2>4. /\ groupDone' = [groupDone EXCEPT ![g] = @ + 1]
          /\ groupDone' \in [GroupIds -> Nat]
        BY <1>1, <1>3, <1>7 DEF TreeInv
    <2> QED
        BY <1>1, <1>5, <2>2, <2>3, <2>4 DEF TreeInv
<1>8. CASE ~ends
    <2>1. \A h \in GroupIds : Marked(tree', h) = Marked(tree, h)
        BY <1>5, <1>8 DEF Marked
    <2> QED
        BY <1>3, <1>5, <1>8, <2>1 DEF TreeInv
<1> QED
    BY <1>7, <1>8

LEMMA TreeStep == Tree /\ TreeInv /\ [Next]_vars => TreeInv'
<1> SUFFICES ASSUME Tree, TreeInv, [Next]_vars PROVE TreeInv'
    OBVIOUS
<1>1. CASE StartFirstRound
    BY <1>1, TreeStartOK
<1>2. CASE \E l \in Links : OnFlowComplete(l)
    <2> PICK l \in Links : OnFlowComplete(l)
        BY <1>2
    <2>1. FromParent(l) \/ FromChild(l)
        BY DEF OnFlowComplete, OnTreeComplete, AllToAll, Ring, Tree
    <2> QED
        BY <2>1, FromParentOK, FromChildOK
<1>3. CASE UNCHANGED vars
    BY <1>3 DEF vars, TreeInv, Marked
<1> QED
    BY <1>1, <1>2, <1>3 DEF Next

\* The rest of the state keeps its types, too.
LEMMA TreeTypeStep == Tree /\ TypeOK /\ TreeInv /\ [Next]_vars => TypeOK'
<1> SUFFICES ASSUME Tree, TypeOK, TreeInv, [Next]_vars PROVE TypeOK'
    OBVIOUS
<1>1. /\ tree' \in [Nodes -> TreeNodeState] /\ groupDone' \in [GroupIds -> Nat]
      /\ workload' \in Workloads
    BY TreeStep DEF TreeInv, TypeOK, Next, StartFirstRound, OnFlowComplete, vars
<1>2. ASSUME NEW before \in [Links -> Nat], NEW more
      PROVE  With(before, more) \in [Links -> Nat]
    BY DEF With
<1>3. CASE StartFirstRound
    <2>1. /\ round = 0 /\ round' = round + 1 /\ roundFlows' = 0 /\ roundNodes' = 0
          /\ node' = node /\ flows' = With(flows, FirstFlows) /\ jct' = jct
        BY <1>3 DEF StartFirstRound, ScheduleNextRound, Ring, Tree
    <2>2. round' \in 0 .. TotalRounds
        BY <2>1, WorkloadAssumption DEF TypeOK
    <2>3. roundNodes' \in 0 .. Cardinality(Nodes)
        BY <2>1, NodesFinite, FS_CardinalityType
    <2>4. flows' \in [Links -> Nat]
        BY <1>2, <2>1 DEF TypeOK
    <2> QED
        BY <1>1, <2>1, <2>2, <2>3, <2>4 DEF TypeOK
<1>4. CASE \E l \in Links : OnFlowComplete(l)
    <2> PICK l \in Links : OnFlowComplete(l)
        BY <1>4
    <2>1. /\ flows[l] > 0 /\ roundFlows' = roundFlows + 1
          /\ UNCHANGED <<round, roundNodes, node>>
          /\ FromParent(l) \/ FromChild(l)
        BY DEF OnFlowComplete, OnTreeComplete, AllToAll, Ring, Tree
    <2>2. Without(l) \in [Links -> Nat]
        BY <2>1 DEF TypeOK, Without
    <2>3. \E more : flows' = With(Without(l), more)
        BY <2>1 DEF FromParent, FromChild
    <2>4. jct' \in [(1 .. TotalRounds) \X GroupIds -> Nat]
        <3>1. ASSUME NEW g, NEW count, NEW total
              PROVE  Logged(g, count, total) \in [(1 .. TotalRounds) \X GroupIds -> Nat]
            <4> DEFINE Lines == (1 .. TotalRounds) \X GroupIds
                       x == <<round, g>>
            <4> SUFFICES Logged(g, count, total) \in [Lines -> Nat]
                OBVIOUS
            <4>1. jct \in [Lines -> Nat]
                BY DEF TypeOK
            <4>2. Logged(g, count, total) = jct \/ Logged(g, count, total) = [jct EXCEPT ![x] = @ + 1]
                BY DEF Logged
            <4> HIDE DEF Lines, x
            <4>3. CASE x \in Lines
                BY <4>1, <4>2, <4>3
            <4>4. CASE x \notin Lines
                <5>1. [jct EXCEPT ![x] = @ + 1] = jct
                    BY <4>1, <4>4
                <5> QED
                    BY <4>1, <4>2, <5>1
            <4> QED
                BY <4>3, <4>4
        <3>2. jct' = jct \/ \E g, count, total : jct' = Logged(g, count, total)
            BY <2>1 DEF FromParent, FromChild
        <3> QED
            BY <3>1, <3>2 DEF TypeOK
    <2> QED
        BY <1>1, <1>2, <2>1, <2>2, <2>3, <2>4 DEF TypeOK
<1>5. CASE UNCHANGED vars
    BY <1>5 DEF vars, TypeOK
<1> QED
    BY <1>3, <1>4, <1>5 DEF Next

-------------------------------------------------------------------------------
(* The theorems, for every workload.                                       *)

RingLines == LinesOK(GroupsDone(node))

IInv ==
    /\ Ring => RingInv /\ RingLines
    /\ AllToAll => PairInv
    /\ Tree => TypeOK /\ TreeInv

LEMMA InitIInv == Init => IInv
<1> SUFFICES ASSUME Init PROVE IInv
    OBVIOUS
<1>1. round = 0 /\ \A r \in 1 .. TotalRounds : ~(r < 0) /\ r # 0
    BY WorkloadAssumption DEF Init
<1>2. RingLines
    BY <1>1 DEF Init, RingLines, LinesOK
<1> QED
    BY <1>2, RingInit, PairInit, TreeInit, TypeInit DEF IInv

\* The workload stays, and each workload keeps its invariant.
LEMMA StepIInv == IInv /\ [Next]_vars => IInv' /\ [RoundsApartStep]_vars
<1> SUFFICES ASSUME IInv, [Next]_vars PROVE IInv' /\ [RoundsApartStep]_vars
    OBVIOUS
<1>1. workload' = workload
    BY DEF Next, StartFirstRound, OnFlowComplete, vars
<1>2. (Ring' <=> Ring) /\ (AllToAll' <=> AllToAll) /\ (Tree' <=> Tree)
    BY <1>1 DEF Ring, AllToAll, Tree
<1>3. CASE Ring
    <2>1. RingInv' /\ RingLines' /\ [RoundsApartStep]_vars
        BY <1>3, RingStep, RingLinesStep DEF IInv, RingLines
    <2> QED
        BY <1>2, <1>3, <2>1 DEF IInv, Ring, AllToAll, Tree
<1>4. CASE AllToAll
    <2>1. PairInv' /\ [RoundsApartStep]_vars
        BY <1>4, PairStep DEF IInv
    <2> QED
        BY <1>2, <1>4, <2>1 DEF IInv, AllToAll
<1>5. CASE Tree
    <2>1. TypeOK' /\ TreeInv' /\ [RoundsApartStep]_vars
        BY <1>5, TreeStep, TreeTypeStep DEF IInv, RoundsApartStep
    <2> QED
        BY <1>2, <1>5, <2>1 DEF IInv, Ring, AllToAll, Tree
<1> QED
    BY <1>3, <1>4, <1>5 DEF AllToAll

\* The inductive invariant: that of the workload which runs.
THEOREM Invariance == Spec => []IInv
    BY InitIInv, StepIInv, PTL DEF Spec

\* The counters of the tracker keep their ranges under every workload: in a
\* ring no node finishes more steps than it has, no more nodes finish than
\* there are, no flow completes that is not in flight and no round starts
\* after the last.
THEOREM TypeCorrect == Spec => []TypeOK
<1>1. IInv => TypeOK
    BY DEF IInv, RingInv, PairInv, AllToAll
<1> QED
    BY <1>1, Invariance, PTL

\* In a ring of any size no node sends more often than its predecessor has
\* delivered, and its own data once, whatever order flows complete in: the
\* test of need_to_send_datas is enough.
THEOREM SendsInOrder == Spec => []SendsWhatItHas
<1>1. IInv => SendsWhatItHas
    BY InvSends DEF IInv, SendsWhatItHas
<1> QED
    BY <1>1, Invariance, PTL

\* A round of a ring or of all-to-all starts when the last flow of the round
\* before has completed, in every group, however fast some nodes of a ring
\* are.  In all-to-all-v with an empty message none starts after the first.
THEOREM RoundsKeptApart == Spec => RoundsApart
    BY Invariance, StepIInv, PTL DEF Spec, RoundsApart

\* In a ring and in all-to-all, with or without empty messages, the
\* completion time of a group is logged with none of its flows in flight; a
\* round that is over has left one line for each group, and the round at hand
\* at most one.
THEOREM JctCorrect == Spec => []LoggedOnceWhenDone
<1>1. IInv => LoggedOnceWhenDone
    <2> SUFFICES ASSUME IInv, ~Tree PROVE JctHonest /\ JctOncePerRound
        BY DEF LoggedOnceWhenDone
    <2>1. CASE Ring
        BY <2>1, InvHonest, LinesOnce DEF IInv, RingLines
    <2>2. CASE AllToAll
        BY <2>2, PairsHonest, LinesOnce DEF IInv, PairInv
    <2> QED
        BY <2>1, <2>2 DEF AllToAll
<1> QED
    BY <1>1, Invariance, PTL

\* In a tree of any size no node is counted as finished twice, although its
\* flows breed flows: the count of a group is that of its marked nodes
\* (broadcast_phase_complete).
THEOREM CountedCorrect == Spec => []CountedOnce
<1>1. IInv => CountedOnce
    BY DEF IInv, TreeInv, CountedOnce, Marked
<1> QED
    BY <1>1, Invariance, PTL
================================================================================
