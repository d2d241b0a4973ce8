---------------------------- MODULE TestbedRunProofs ----------------------------
(***************************************************************************)
(* Theorems about TestbedRun, for any plan, any number of controllers and  *)
(* any number of faults.                                                   *)
(***************************************************************************)
EXTENDS TestbedRun, TLAPS

\* A controller between its start and its end.
Busy == Steps \ {"off"}

\* Where it works on an attempt, that has a number.
InAttempt == {"prepare", "validate"} \cup Traffic \cup Cleanup

\* The process can still send: it runs, or may come to run.
Live(s) == proc[s] \in {"inflight", "starting", "running"}

-------------------------------------------------------------------------------
(* What one step does to a controller.                                     *)

\* No other controller moves.
OthersStay(c) ==
    \A b \in Controllers : b # c => pc'[b] = pc[b] /\ ctl'[b] = ctl[b]

LEMMA PlanFacts ==
    /\ Len(Plan) \in Nat
    /\ \A i \in 1 .. Len(Plan) : Plan[i] \in Tasks
    /\ \A t \in Tasks : \E i \in 1 .. Len(Plan) : Plan[i] = t
    /\ \A i, j \in 1 .. Len(Plan) : Plan[i] = Plan[j] => i = j
    /\ NumControllers \in Nat /\ MaxFaults \in Nat
    /\ Controllers \subseteq Nat \ {0} /\ 0 \notin Controllers
BY TestbedAssumption DEF Tasks, Controllers

LEMMA FreshType == Fresh \in Entry /\ NoCtl \in Ctl
<1>1. Fresh \in Entry
    BY DEF Fresh, Entry
<1> QED
    BY <1>1, PlanFacts DEF NoCtl, Ctl, Roles

LEMMA CtlType ==
    ASSUME TypeOK, NEW c \in Controllers
    PROVE  /\ ctl[c] \in Ctl
           /\ ctl[c].mem \in [Tasks -> Entry] /\ ctl[c].task \in 1 .. Len(Plan) + 1
           /\ ctl[c].old \in Entry /\ ctl[c].role \in Roles
           /\ ctl[c].todo \in SUBSET Roles /\ ctl[c].errors \in SUBSET Errors
           /\ ctl[c].someFailed \in BOOLEAN
BY DEF TypeOK, Ctl

LEMMA GotoPoint ==
    ASSUME TypeOK, NEW c \in Controllers, NEW step, NEW m, Goto(c, step, m)
    PROVE  /\ pc'[c] = step /\ ctl'[c] = m /\ lock' = lock
           /\ OthersStay(c)
BY DEF Goto, OthersStay, TypeOK

LEMMA EndAsPoint ==
    ASSUME TypeOK, NEW c \in Controllers, NEW result, EndAs(c, result)
    PROVE  /\ pc'[c] = result /\ ctl'[c] \in Ctl /\ ctl'[c].task = ctl[c].task
           /\ lock' = (IF lock = c THEN 0 ELSE lock)
           /\ OthersStay(c)
<1>1. ctl'[c] = [NoCtl EXCEPT !.task = ctl[c].task]
    BY DEF EndAs, TypeOK
<1>2. ctl'[c] \in Ctl /\ ctl'[c].task = ctl[c].task
    BY <1>1, FreshType, CtlType DEF Ctl
<1> QED
    BY <1>2 DEF EndAs, OthersStay, TypeOK

LEMMA WithPoint ==
    ASSUME TypeOK, NEW c \in Controllers, NEW e \in Entry, Current(c) \in Tasks
    PROVE  /\ With(c, e) \in Ctl
           /\ With(c, e).mem = [ctl[c].mem EXCEPT ![Current(c)] = e]
           /\ With(c, e).task = ctl[c].task /\ With(c, e).old = ctl[c].old
           /\ With(c, e).role = ctl[c].role /\ With(c, e).todo = ctl[c].todo
           /\ With(c, e).errors = ctl[c].errors
           /\ With(c, e).someFailed = ctl[c].someFailed
<1>1. ctl[c] \in Ctl
    BY CtlType
<1>2. [ctl[c].mem EXCEPT ![Current(c)] = e] \in [Tasks -> Entry]
    BY CtlType
<1>3. With(c, e) = [ctl[c] EXCEPT !.mem = [ctl[c].mem EXCEPT ![Current(c)] = e]]
    BY DEF With
<1> QED
    BY <1>1, <1>2, <1>3 DEF Ctl

LEMMA ToCleanupPoint ==
    ASSUME TypeOK, NEW c \in Controllers, NEW es \in SUBSET Errors, ToCleanup(c, es)
    PROVE  /\ pc'[c] = "stop" /\ lock' = lock /\ OthersStay(c)
           /\ ctl'[c] \in Ctl
           /\ ctl'[c].mem = ctl[c].mem /\ ctl'[c].task = ctl[c].task
           /\ ctl'[c].old = ctl[c].old /\ ctl'[c].role = ctl[c].role
           /\ ctl'[c].todo = Launched(c) /\ ctl'[c].errors = ctl[c].errors \cup es
           /\ ctl'[c].someFailed = ctl[c].someFailed
<1>1. ctl[c] \in Ctl /\ Launched(c) \in SUBSET Roles
    BY CtlType DEF Launched
<1>2. /\ pc'[c] = "stop" /\ lock' = lock /\ OthersStay(c)
      /\ ctl'[c] = [ctl[c] EXCEPT !.errors = ctl[c].errors \cup es, !.todo = Launched(c)]
    BY GotoPoint DEF ToCleanup
<1> QED
    BY <1>1, <1>2 DEF Ctl

LEMMA CompletedPoint ==
    ASSUME TypeOK, NEW c \in Controllers, NEW e \in Entry, ctl[c].task <= Len(Plan),
           Completed(c, e)
    PROVE  /\ pc'[c] = "settle" /\ lock' = lock /\ OthersStay(c) /\ disk' = disk
           /\ ctl'[c] \in Ctl
           /\ ctl'[c].mem = [ctl[c].mem EXCEPT ![Current(c)] = e]
           /\ ctl'[c].task = ctl[c].task /\ ctl'[c].someFailed = ctl[c].someFailed
<1>1. Current(c) \in Tasks
    BY PlanFacts, CtlType DEF Current
<1>2. Goto(c, "settle", With(c, e)) /\ disk' = disk
    BY DEF Completed
<1> QED
    BY <1>1, <1>2, WithPoint, GotoPoint

LEMMA FailedPoint ==
    ASSUME TypeOK, NEW c \in Controllers, NEW goesOn \in BOOLEAN, ctl[c].task <= Len(Plan),
           Failed(c, goesOn)
    PROVE  /\ pc'[c] = (IF goesOn THEN "settle" ELSE "raise")
           /\ lock' = lock /\ OthersStay(c) /\ disk' = disk
           /\ ctl'[c] \in Ctl
           /\ ctl'[c].mem = [ctl[c].mem EXCEPT ![Current(c)] =
                                [ctl[c].mem[Current(c)] EXCEPT !.st = "failed"]]
           /\ ctl'[c].task = ctl[c].task /\ ctl'[c].someFailed = ctl[c].someFailed
<1> DEFINE e == [ctl[c].mem[Current(c)] EXCEPT !.st = "failed"]
<1>1. Current(c) \in Tasks
    BY PlanFacts, CtlType DEF Current
<1>2. e \in Entry
    BY <1>1, CtlType DEF Entry
<1>3. Goto(c, IF goesOn THEN "settle" ELSE "raise", With(c, e)) /\ disk' = disk
    BY DEF Failed
<1> HIDE DEF e
<1>4. /\ pc'[c] = (IF goesOn THEN "settle" ELSE "raise") /\ ctl'[c] = With(c, e)
      /\ lock' = lock /\ OthersStay(c)
    BY <1>3, GotoPoint
<1> QED
    BY <1>1, <1>2, <1>3, <1>4, WithPoint DEF e

\* The next task is at hand: the same memory, with its number and its failures.
LEMMA NextTaskPoint ==
    ASSUME NEW m \in Ctl, m.task <= Len(Plan), NEW failed \in BOOLEAN
    PROVE  /\ NextTask(m, failed) \in Ctl
           /\ NextTask(m, failed).mem = m.mem
           /\ NextTask(m, failed).task = m.task + 1
           /\ NextTask(m, failed).someFailed = (m.someFailed \/ failed)
<1>1. m.task + 1 \in 1 .. Len(Plan) + 1
    BY PlanFacts DEF Ctl
<1>2. (m.someFailed \/ failed) \in BOOLEAN
    OBVIOUS
<1> QED
    BY <1>1, <1>2 DEF NextTask, Ctl

\* The memory of the task at hand stays: its number, the entries, the role.
SameTask(c) ==
    /\ ctl'[c].mem = ctl[c].mem /\ ctl'[c].task = ctl[c].task
    /\ ctl'[c].old = ctl[c].old /\ ctl'[c].someFailed = ctl[c].someFailed

LEMMA AdvancePoint ==
    ASSUME TypeOK, NEW c \in Controllers, NEW step, Advance(c, step)
    PROVE  /\ pc'[c] = step /\ ctl'[c] = ctl[c] /\ ctl'[c] \in Ctl /\ lock' = lock
           /\ OthersStay(c)
BY GotoPoint, CtlType DEF Advance

LEMMA BeginPoint ==
    ASSUME TypeOK, NEW c \in Controllers, ctl[c].task <= Len(Plan),
           Goto(c, "attempt", [ctl[c] EXCEPT !.old = ctl[c].mem[Current(c)], !.errors = {},
                                             !.role = "receiver"])
    PROVE  /\ Current(c) \in Tasks
           /\ pc'[c] = "attempt" /\ lock' = lock /\ OthersStay(c)
           /\ ctl'[c] \in Ctl
           /\ ctl'[c].mem = ctl[c].mem /\ ctl'[c].task = ctl[c].task
           /\ ctl'[c].old = ctl[c].mem[Current(c)]
           /\ ctl'[c].someFailed = ctl[c].someFailed
           /\ ctl'[c].errors = {}
<1> DEFINE old == ctl[c].mem[Current(c)]
<1>1. Current(c) \in Tasks
    BY PlanFacts, CtlType DEF Current
<1>2. ctl[c] \in Ctl /\ old \in Entry
    BY <1>1, CtlType
<1>3. Goto(c, "attempt", [ctl[c] EXCEPT !.old = old, !.errors = {}, !.role = "receiver"])
    OBVIOUS
<1>4. ctl'[c] = [ctl[c] EXCEPT !.old = old, !.errors = {}, !.role = "receiver"]
    BY <1>3, GotoPoint
<1>5. pc'[c] = "attempt" /\ lock' = lock /\ OthersStay(c)
    BY <1>3, GotoPoint
<1> HIDE DEF old
<1>6. /\ ctl'[c] \in Ctl
      /\ ctl'[c].mem = ctl[c].mem /\ ctl'[c].task = ctl[c].task
      /\ ctl'[c].old = old
      /\ ctl'[c].someFailed = ctl[c].someFailed
      /\ ctl'[c].errors = {}
    <2>1. {} \in SUBSET Errors /\ "receiver" \in Roles
        BY DEF Roles
    <2>2. ctl'[c] \in Ctl
        BY <1>2, <1>4, <2>1 DEF Ctl
    <2> QED
        BY <1>2, <1>4, <2>2 DEF Ctl
<1> QED
    BY <1>1, <1>5, <1>6 DEF old

LEMMA NewAttemptPoint ==
    ASSUME TypeOK, NEW c \in Controllers, NewAttempt(c), ctl[c].task <= Len(Plan),
           count[Current(c)] < NumControllers
    PROVE  /\ Current(c) \in Tasks
           /\ count' = [count EXCEPT ![Current(c)] = count[Current(c)] + 1]
           /\ count[Current(c)] + 1 \in Attempts
           /\ ctl'[c].mem = [ctl[c].mem EXCEPT ![Current(c)] =
                [ctl[c].old EXCEPT !.st = "running", !.attempt = count[Current(c)] + 1]]
           /\ disk' = ctl'[c].mem
           /\ pc'[c] = "prepare" /\ lock' = lock /\ OthersStay(c)
           /\ ctl'[c] \in Ctl
           /\ ctl'[c].task = ctl[c].task /\ ctl'[c].old = ctl[c].old
           /\ ctl'[c].someFailed = ctl[c].someFailed
<1> DEFINE n == count[Current(c)] + 1
           e == [ctl[c].old EXCEPT !.st = "running", !.attempt = n]
<1>1. Current(c) \in Tasks
    BY PlanFacts, CtlType DEF Current
<1>2. n \in Attempts
    BY <1>1, PlanFacts DEF TypeOK, Attempts
<1>3. e \in Entry
    <2> HIDE DEF n
    <2> QED
        BY <1>2, CtlType DEF Entry
<1>4. count' = [count EXCEPT ![Current(c)] = n] /\ disk' = With(c, e).mem
      /\ Goto(c, "prepare", With(c, e))
    BY DEF NewAttempt, Persist
<1>5. pc'[c] = "prepare" /\ lock' = lock /\ OthersStay(c) /\ ctl'[c] = With(c, e)
    BY <1>4, GotoPoint
<1> HIDE DEF e
<1>6. /\ With(c, e) \in Ctl
      /\ With(c, e).mem = [ctl[c].mem EXCEPT ![Current(c)] = e]
      /\ With(c, e).task = ctl[c].task /\ With(c, e).old = ctl[c].old
      /\ With(c, e).someFailed = ctl[c].someFailed
    BY <1>1, <1>3, WithPoint
<1> QED
    BY <1>1, <1>2, <1>4, <1>5, <1>6 DEF e

-------------------------------------------------------------------------------
(* The inductive invariant, in parts.                                      *)

\* Who holds the lock is busy, and who is busy holds it; before, it is blank.
Holder == \A c \in Controllers : pc[c] \in Busy <=> lock = c
OffBlank == \A c \in Controllers : pc[c] = "off" => ctl[c] = NoCtl
InOrder == \A b, c \in Controllers : pc[b] = "off" /\ pc[c] # "off" => c < b

\* The task at hand is one of the plan.
TaskThere ==
    \A c \in Controllers :
        pc[c] \in {"attempt"} \cup InAttempt \cup Outcome => ctl[c].task <= Len(Plan)

\* Every controller makes at most one attempt of a task.
AttemptsBounded ==
    /\ \A c \in Controllers, t \in Tasks : pc[c] = "off" => count[t] < c
    /\ \A c \in Controllers : pc[c] \in Busy => \A i \in 1 .. Len(Plan) :
          /\ count[Plan[i]] <= c
          /\ (i > ctl[c].task \/ (i = ctl[c].task /\ pc[c] \notin InAttempt \cup Outcome))
                => count[Plan[i]] < c

\* The memory of the busy controller is on disk, but for a task that begins and
\* for an outcome that is not written.
MemOnDisk ==
    \A c \in Controllers : pc[c] \in Busy =>
       IF pc[c] = "attempt"
       THEN /\ ctl[c].old = ctl[c].mem[Current(c)]
            /\ disk = [ctl[c].mem EXCEPT ![Current(c)].st = "running"]
       ELSE IF pc[c] \in Outcome
       THEN \A t \in Tasks \ {Current(c)} : disk[t] = ctl[c].mem[t]
       ELSE disk = ctl[c].mem

\* The attempt at hand is the last one, and new: no entry has its checksums.
AttemptCurrent ==
    \A c \in Controllers : pc[c] \in InAttempt =>
        /\ AttemptOf(c) = count[Current(c)] /\ count[Current(c)] # 0
        /\ ctl[c].mem[Current(c)].st = "running"
        /\ ctl[c].mem[Current(c)].files = ctl[c].old.files
        /\ ctl[c].old.attempt < count[Current(c)] /\ ctl[c].old.files < count[Current(c)]
        /\ <<Current(c), count[Current(c)]>> \notin damaged
AttemptsKnown ==
    /\ \A t \in Tasks : disk[t].attempt <= count[t] /\ disk[t].files <= count[t]
    /\ \A d \in damaged : d[2] <= count[d[1]]
    /\ \A c \in Controllers : pc[c] \in Outcome =>
          /\ ctl[c].mem[Current(c)].attempt <= count[Current(c)]
          /\ ctl[c].mem[Current(c)].files <= count[Current(c)]

\* No process without an entry in the journal, and none of an attempt to come.
LaunchesKnown ==
    /\ \A s \in Slots : s[2] > count[s[1]] => s \notin journal
    /\ \A s \in Slots : proc[s] # "none" => s \in journal
    /\ \A c \in Controllers : pc[c] = "send" => Slot(c, ctl[c].role) \in journal

\* The attempt of an entry ran to its end.
Over(t) == IF t \in Bandwidth THEN {"killed", "broke"} ELSE {"exited"}
Ended(t, e) ==
    /\ e.files = e.attempt /\ e.attempt # 0
    /\ \A r \in Roles : proc[<<t, e.attempt, r>>] \in Over(t)
HonestDone ==
    /\ \A t \in Tasks : disk[t].st = "completed" => Ended(t, disk[t])
    /\ \A c \in Controllers :
          pc[c] \in {"attempt"} \cup InAttempt /\ ctl[c].old.st = "completed"
             => Ended(Current(c), ctl[c].old)
    /\ \A c \in Controllers :
          pc[c] \in Outcome /\ ctl[c].mem[Current(c)].st = "completed"
             => Ended(Current(c), ctl[c].mem[Current(c)])

\* Without an error, the attempt at hand has ended or is being stopped.
CleanRun ==
    \A c \in Controllers : pc[c] \in Cleanup \cup {"validate"} =>
        /\ pc[c] = "validate" => ctl[c].errors = {}
        /\ ctl[c].errors = {} => \A r \in Roles :
              \/ proc[Slot(c, r)] \in Over(Current(c))
              \/ /\ pc[c] = "stop" /\ r \in ctl[c].todo /\ Current(c) \in Bandwidth
                 /\ proc[Slot(c, r)] = "running"

\* A request on its way is waited for, or an error tells of it.
NoStray ==
    \A c \in Controllers : pc[c] \in {"prepare"} \cup Traffic \cup Cleanup =>
        \A r \in Roles : proc[Slot(c, r)] = "inflight" =>
            \/ pc[c] = "answer" /\ r = ctl[c].role
            \/ pc[c] \in Cleanup /\ ctl[c].errors \cap {"transport", "interrupt"} # {}

\* What can still send was passed over by a recovery, or is at the hand of the
\* busy controller: to be recovered, of its attempt, or left by an error that
\* ends the run.
Quieted ==
    \A c \in Controllers : pc[c] \in Busy => \A s \in Slots : Live(s) /\ s \notin missed =>
        \/ pc[c] = "raise"
        \/ pc[c] = "recover" /\ (s[3] \in ctl[c].todo \/ ctl[c].errors # {})
        \/ /\ pc[c] \in Traffic \cup Cleanup
           /\ <<s[1], s[2]>> = <<Current(c), AttemptOf(c)>>
           /\ pc[c] = "collect" => ~CanContinue(ctl[c].errors)

\* The tasks before the one at hand are completed, when none has failed; what
\* the run goes on from is one or the other.
Progress ==
    \A c \in Controllers :
        /\ pc[c] = "settle" => ctl[c].mem[Current(c)].st \in {"completed", "failed"}
        /\ pc[c] \in Busy /\ ~ctl[c].someFailed => \A i \in 1 .. Len(Plan) :
              i < ctl[c].task => ctl[c].mem[Plan[i]].st = "completed"

\* A controller ended at this task and could not say so.
LostAt(i) ==
    \E c \in Controllers : pc[c] \in {"unsaved", "crashed"} /\ ctl[c].task = i

\* What a busy controller knows to be running is its own, or was lost before.
Settled ==
    /\ StatusSettled
    /\ \A c \in Controllers : pc[c] \in Busy => \A i \in 1 .. Len(Plan) :
          ctl[c].mem[Plan[i]].st = "running"
             => LostAt(i) \/ (pc[c] \in InAttempt /\ i = ctl[c].task)

\* What the effect of a step rests on.
Ready ==
    /\ TypeOK /\ Holder /\ OffBlank /\ InOrder
    /\ TaskThere /\ AttemptsBounded /\ AttemptCurrent

LEMMA AtTask ==
    ASSUME Ready, NEW c \in Controllers, pc[c] \in {"attempt"} \cup InAttempt \cup Outcome
    PROVE  /\ ctl[c].task \in 1 .. Len(Plan) /\ ctl[c].task <= Len(Plan)
           /\ Current(c) = Plan[ctl[c].task] /\ Current(c) \in Tasks
<1>1. ctl[c].task \in 1 .. Len(Plan) + 1 /\ ctl[c].task <= Len(Plan)
    BY CtlType DEF Ready, TaskThere
<1> QED
    BY <1>1, PlanFacts DEF Current

LEMMA AtAttempt ==
    ASSUME Ready, NEW c \in Controllers, pc[c] \in InAttempt
    PROVE  /\ Current(c) \in Tasks /\ AttemptOf(c) \in Attempts
           /\ \A r \in Roles : Slot(c, r) \in Slots
           /\ ctl[c].role \in Roles /\ Slot(c, ctl[c].role) \in Slots
           /\ Launched(c) \subseteq Roles
           /\ \A s \in Slots : <<s[1], s[2]>> = <<Current(c), AttemptOf(c)>>
                                  => s[3] \in Roles /\ s = Slot(c, s[3])
<1>1. Current(c) \in Tasks
    BY AtTask
<1>2. count[Current(c)] \in 0 .. NumControllers /\ AttemptOf(c) = count[Current(c)]
      /\ count[Current(c)] # 0
    BY <1>1 DEF Ready, TypeOK, AttemptCurrent
<1>3. AttemptOf(c) \in Attempts
    BY <1>2, PlanFacts DEF Attempts
<1>4. ctl[c].role \in Roles
    BY CtlType DEF Ready
<1>5. \A r \in Roles : Slot(c, r) \in Slots
    BY <1>1, <1>3 DEF Slots, Slot
<1> QED
    BY <1>1, <1>3, <1>4, <1>5 DEF Slots, Slot, Launched

-------------------------------------------------------------------------------
(* The kinds of steps: what an action does, as the proofs use it.          *)

TypeCtl == lock \in {0} \cup Controllers /\ pc \in [Controllers -> Steps \cup Ends]
               /\ ctl \in [Controllers -> Ctl]

LEMMA GotoType ==
    ASSUME TypeOK, NEW c \in Controllers, NEW step \in Steps, NEW m \in Ctl,
           Goto(c, step, m)
    PROVE  TypeCtl'
BY DEF Goto, TypeOK, TypeCtl

LEMMA EndAsType ==
    ASSUME TypeOK, NEW c \in Controllers, NEW result \in Ends, EndAs(c, result)
    PROVE  TypeCtl'
<1>1. [NoCtl EXCEPT !.task = ctl[c].task] \in Ctl
    BY FreshType, CtlType DEF Ctl
<1> QED
    BY <1>1 DEF EndAs, TypeOK, TypeCtl

\* A controller starts with the lock in its hand.
DidStart(c) ==
    /\ pc[c] = "off" /\ \A b \in Controllers : b < c => pc[b] # "off"
    /\ lock = 0 /\ lock' = c
    /\ pc'[c] = IF c > 1 THEN "recover" ELSE "shared"
    /\ ctl'[c].mem = disk /\ ctl'[c].todo = Roles
    /\ ctl'[c].task = ctl[c].task /\ ctl'[c].errors = ctl[c].errors
    /\ ctl'[c].someFailed = ctl[c].someFailed
    /\ OthersStay(c) /\ UNCHANGED <<fileVars, hostVars>>

\* Only running processes end, by a stop of the controller.
OnlyStops == \A s \in Slots : proc'[s] = proc[s] \/ (proc[s] = "running" /\ proc'[s] = "killed")

\* A controller ends and leaves the files as they are.
DidEnd(c) ==
    /\ pc[c] \notin Ends /\ pc'[c] \in Ends /\ ctl'[c].task = ctl[c].task
    /\ lock' = IF lock = c THEN 0 ELSE lock
    /\ pc[c] = "off" => (\A b \in Controllers : b < c => pc[b] # "off") /\ lock # 0
    /\ \/ pc'[c] = "crashed"
       \/ pc[c] \in Outcome /\ pc'[c] = "unsaved"
       \/ pc[c] \in {"off", "recover", "shared", "begin"}
    /\ pc'[c] = "succeeded" => /\ pc[c] = "begin" /\ ctl[c].task = Len(Plan) + 1
                               /\ ~ctl[c].someFailed
    /\ OthersStay(c) /\ UNCHANGED fileVars
    /\ OnlyStops /\ missed \subseteq missed'
    /\ pc[c] # "recover" => UNCHANGED hostVars

\* It recovers the processes of one host.
DidRecover(c) ==
    /\ pc[c] = "recover" /\ pc'[c] \in {"recover", "shared"}
    /\ SameTask(c) /\ OthersStay(c) /\ lock' = lock
    /\ UNCHANGED fileVars /\ OnlyStops /\ missed \subseteq missed'
    /\ ctl[c].errors \subseteq ctl'[c].errors
    /\ \E r \in ctl[c].todo :
          /\ ctl'[c].todo = ctl[c].todo \ {r}
          /\ ctl'[c].errors = {} =>
                \A s \in journal : s[3] = r /\ Live(s)' => s \in missed'
    /\ pc'[c] = "shared" => ctl'[c].todo = {} /\ ctl'[c].errors = {}

DidShare(c) ==
    /\ pc[c] = "shared" /\ pc'[c] = "begin"
    /\ ctl'[c] = ctl[c] /\ OthersStay(c) /\ lock' = lock
    /\ UNCHANGED <<fileVars, hostVars>>

\* The task at hand goes to running on disk, then gets its attempt.
DidBegin(c) ==
    /\ pc[c] = "begin" /\ pc'[c] = "attempt" /\ lock' = lock /\ OthersStay(c)
    /\ ctl[c].task <= Len(Plan)
    /\ disk' = [ctl[c].mem EXCEPT ![Current(c)].st = "running"]
    /\ ctl'[c].mem = ctl[c].mem /\ ctl'[c].task = ctl[c].task
    /\ ctl'[c].old = ctl[c].mem[Current(c)]
    /\ ctl'[c].someFailed = ctl[c].someFailed
    /\ ctl'[c].errors = {}
    /\ UNCHANGED <<count, journal, damaged, hostVars>>

DidNumber(c) ==
    /\ pc[c] = "attempt" /\ pc'[c] = "prepare" /\ lock' = lock /\ OthersStay(c)
    /\ count' = [count EXCEPT ![Current(c)] = count[Current(c)] + 1]
    /\ count[Current(c)] + 1 \in Attempts
    /\ disk' = ctl'[c].mem
    /\ ctl'[c].mem = [ctl[c].mem EXCEPT ![Current(c)] =
          [ctl[c].old EXCEPT !.st = "running", !.attempt = count[Current(c)] + 1]]
    /\ ctl'[c].task = ctl[c].task /\ ctl'[c].old = ctl[c].old
    /\ ctl'[c].someFailed = ctl[c].someFailed
    /\ UNCHANGED <<journal, damaged, hostVars>>

\* The task at hand is judged, in memory.
Judges(c) ==
    /\ pc[c] \in {"begin", "attempt", "settle"} \cup InAttempt /\ pc'[c] \in Outcome
    /\ ctl[c].task <= Len(Plan) /\ Current(c) \in Tasks
    /\ ctl'[c].task = ctl[c].task /\ ctl'[c].someFailed = ctl[c].someFailed
    /\ lock' = lock /\ OthersStay(c) /\ UNCHANGED <<fileVars, hostVars>>

\* It is completed, with the entry e.
DidComplete(c, e) ==
    /\ Judges(c) /\ pc'[c] = "settle"
    /\ \/ pc[c] = "prepare" /\ e = ctl[c].old /\ Intact(Current(c), e)
       \/ pc[c] = "validate" /\ e.attempt = AttemptOf(c) /\ e.files = AttemptOf(c)
    /\ e.st = "completed"
    /\ ctl'[c].mem = [ctl[c].mem EXCEPT ![Current(c)] = e]

\* It has failed.
DidFail(c, goesOn) ==
    /\ Judges(c) /\ pc'[c] = IF goesOn THEN "settle" ELSE "raise"
    /\ goesOn => pc[c] = "validate" \/ (pc[c] = "collect" /\ CanContinue(ctl[c].errors))
    /\ ctl'[c].mem = [ctl[c].mem EXCEPT ![Current(c)] =
                         [ctl[c].mem[Current(c)] EXCEPT !.st = "failed"]]

DidJudge(c) ==
    \/ \E e \in Entry : DidComplete(c, e)
    \/ \E goesOn \in BOOLEAN : DidFail(c, goesOn)

\* The outcome is written: the next task is at hand, or the controller ends.
DidWrite(c) ==
    /\ disk' = ctl[c].mem /\ OthersStay(c)
    /\ \/ /\ pc[c] = "settle" /\ pc'[c] = "begin" /\ lock' = lock
          /\ ctl'[c].mem = ctl[c].mem /\ ctl'[c].task = ctl[c].task + 1
          /\ ctl'[c].someFailed =
                (ctl[c].someFailed \/ ctl[c].mem[Current(c)].st = "failed")
       \/ /\ pc[c] = "raise" /\ pc'[c] = "failed"
          /\ lock' = IF lock = c THEN 0 ELSE lock
    /\ UNCHANGED <<count, journal, damaged, hostVars>>

\* A step inside an attempt.
Within(c) ==
    /\ pc[c] \in InAttempt /\ pc'[c] \in InAttempt \ {"prepare"}
    /\ SameTask(c) /\ OthersStay(c) /\ lock' = lock
    /\ UNCHANGED <<disk, count, damaged, missed>>

\* The next step of the measurement, with no new error.
DidGoOn(c) ==
    /\ Within(c) /\ ctl'[c].errors = ctl[c].errors
    /\ \/ /\ pc[c] = "prepare" /\ pc'[c] = "ports" /\ UNCHANGED <<proc, journal>>
       \/ /\ pc[c] = "ports" /\ pc'[c] = "journal" /\ UNCHANGED <<proc, journal>>
       \/ /\ pc[c] = "journal" /\ pc'[c] = "send" /\ UNCHANGED proc
          /\ ctl'[c].role = ctl[c].role
          /\ journal' = journal \cup {Slot(c, ctl[c].role)}
       \/ /\ pc[c] = "send" /\ pc'[c] = "answer" /\ UNCHANGED journal
          /\ ctl'[c].role = ctl[c].role
          /\ proc' = [proc EXCEPT ![Slot(c, ctl[c].role)] = "inflight"]
       \/ /\ pc[c] = "answer" /\ pc'[c] \in {"ready", "wait"}
          /\ proc[Slot(c, ctl[c].role)] # "inflight" /\ UNCHANGED <<proc, journal>>
       \/ /\ pc[c] = "ready" /\ pc'[c] = "journal" /\ UNCHANGED <<proc, journal>>
       \/ /\ pc[c] = "collect" /\ pc'[c] = "validate" /\ ctl[c].errors = {}
          /\ UNCHANGED <<proc, journal>>

\* The measurement ends, with the errors es.
DidLeave(c, es) ==
    /\ Within(c) /\ pc[c] \in Traffic /\ pc'[c] = "stop"
    /\ ctl'[c].errors = ctl[c].errors \cup es /\ ctl'[c].todo = Launched(c)
    /\ es = {} => pc[c] = "wait" /\ Finished(c)
    /\ pc[c] = "answer" /\ proc[Slot(c, ctl[c].role)] = "inflight" =>
          es \cap {"transport", "interrupt"} # {}
    /\ UNCHANGED <<proc, journal>>

\* The process of one role is stopped, or that has failed.
DidStop(c, r) ==
    /\ Within(c) /\ pc[c] = "stop" /\ pc'[c] = "stop"
    /\ ctl[c].errors \subseteq ctl'[c].errors
    /\ r \in ctl[c].todo /\ ctl'[c].todo = ctl[c].todo \ {r}
    /\ OnlyStops /\ \A s \in Slots : proc'[s] # proc[s] => s = Slot(c, r)
    /\ "cleanup" \notin ctl'[c].errors => proc'[Slot(c, r)] # "running"
    /\ UNCHANGED journal

\* The cleanup is over, then it is verified.
DidVerify(c) ==
    /\ Within(c) /\ ctl[c].errors \subseteq ctl'[c].errors
    /\ \/ pc[c] = "stop" /\ pc'[c] = "verify" /\ ctl[c].todo = {}
       \/ /\ pc[c] = "verify" /\ pc'[c] = "collect"
          /\ "cleanup" \notin ctl'[c].errors => Seen(c) = {}
    /\ UNCHANGED <<proc, journal>>

\* Hosts and faults.
DidHost(s) ==
    /\ \E q \in {"starting", "running", "exited", "broke"} :
          /\ q = "starting" => proc[s] = "inflight"
          /\ q = "running" => proc[s] = "starting"
          /\ q = "exited" => s[1] \notin Bandwidth
          /\ proc' = [proc EXCEPT ![s] = q]
    /\ Live(s)
    /\ UNCHANGED <<lock, fileVars, pc, ctl, missed>>

DidDamage(t) ==
    /\ disk[t].files # 0
    /\ damaged' = damaged \cup {<<t, disk[t].files>>}
    /\ UNCHANGED <<lock, disk, count, journal, hostVars, pc, ctl>>

Did(c) ==
    \/ DidStart(c) \/ DidEnd(c) \/ DidRecover(c) \/ DidShare(c) \/ DidBegin(c)
    \/ DidNumber(c) \/ DidGoOn(c) \/ DidVerify(c) \/ DidJudge(c) \/ DidWrite(c)
    \/ \E es \in SUBSET Errors : DidLeave(c, es)
    \/ \E r \in Roles : DidStop(c, r)

LEMMA JudgeFacts ==
    ASSUME NEW c \in Controllers, DidJudge(c)
    PROVE  Judges(c)
BY DEF DidJudge, DidComplete, DidFail

-------------------------------------------------------------------------------
(* Each action is of a kind, and keeps the types.                          *)

\* The types of what is not a controller's own.
TypeWorld ==
    /\ disk \in [Tasks -> Entry]
    /\ count \in [Tasks -> 0 .. NumControllers]
    /\ proc \in [Slots -> ProcStates]
    /\ journal \in SUBSET Slots /\ missed \in SUBSET Slots
    /\ damaged \in SUBSET (Tasks \X Attempts)
    /\ faults \in 0 .. MaxFaults

LEMMA TypeParts ==
    ASSUME TypeCtl', TypeWorld'
    PROVE  TypeOK'
BY DEF TypeOK, TypeCtl, TypeWorld

LEMMA FaultType ==
    ASSUME TypeOK, Fault \/ NoFault
    PROVE  faults' \in 0 .. MaxFaults
BY PlanFacts DEF TypeOK, Fault, NoFault

\* Where only the controllers and the faults change.
LEMMA WorldStays ==
    ASSUME TypeOK, Fault \/ NoFault, UNCHANGED <<fileVars, hostVars>>
    PROVE  TypeWorld'
BY FaultType DEF TypeOK, TypeWorld, fileVars, hostVars

LEMMA StartKind ==
    ASSUME Ready, NEW c \in Controllers, Start(c)
    PROVE  TypeOK' /\ Did(c)
<1>1. TypeWorld'
    BY WorldStays DEF Ready, Start
<1>2. ctl[c] = NoCtl /\ pc[c] = "off" /\ (\A b \in Controllers : b < c => pc[b] # "off")
    BY DEF Ready, OffBlank, Busy, Start
<1>3. CASE lock = 0
    <2>1. /\ lock' = c
          /\ ctl' = [ctl EXCEPT ![c] = [ctl[c] EXCEPT !.mem = disk, !.todo = Roles]]
          /\ pc' = [pc EXCEPT ![c] = IF c > 1 THEN "recover" ELSE "shared"]
        BY <1>3 DEF Start, LockFree, Resumed
    <2>2. disk \in [Tasks -> Entry] /\ Roles \in SUBSET Roles /\ ctl[c] \in Ctl
        BY CtlType DEF Ready, TypeOK
    <2>3. [ctl[c] EXCEPT !.mem = disk, !.todo = Roles] \in Ctl
        BY <2>2 DEF Ctl
    <2>4. TypeCtl'
        BY <2>1, <2>3 DEF Ready, TypeOK, TypeCtl, Steps
    <2>5. ctl'[c] = [ctl[c] EXCEPT !.mem = disk, !.todo = Roles]
        BY <2>1 DEF Ready, TypeOK
    <2>6. /\ ctl'[c].mem = disk /\ ctl'[c].todo = Roles
          /\ ctl'[c].task = ctl[c].task /\ ctl'[c].errors = ctl[c].errors
          /\ ctl'[c].someFailed = ctl[c].someFailed
        BY <2>2, <2>5 DEF Ctl
    <2>7. OthersStay(c) /\ pc'[c] = IF c > 1 THEN "recover" ELSE "shared"
        BY <2>1 DEF Ready, TypeOK, OthersStay
    <2>8. DidStart(c)
        BY <1>2, <1>3, <2>1, <2>6, <2>7 DEF DidStart, Start
    <2> QED
        BY <1>1, <2>4, <2>8, TypeParts DEF Did
<1>4. CASE lock # 0
    <2>1. EndAs(c, "failed")
        BY <1>4 DEF Start, LockFree
    <2>2. TypeCtl'
        BY <2>1, EndAsType DEF Ready, Ends
    <2>3. DidEnd(c)
        BY <1>2, <1>4, <2>1, EndAsPoint
            DEF Ready, DidEnd, Start, Ends, OnlyStops, hostVars
    <2> QED
        BY <1>1, <2>2, <2>3, TypeParts DEF Did
<1> QED
    BY <1>3, <1>4

LEMMA StopsOnly ==
    ASSUME TypeOK, NEW slots, Stops(slots) \/ StopsSome(slots)
    PROVE  /\ OnlyStops /\ proc' \in [Slots -> ProcStates]
           /\ \A s \in Slots : proc'[s] # proc[s] => s \in slots
           /\ Stops(slots) => (\A s \in Slots : s \in slots => proc'[s] # "running")
<1>1. "killed" \in ProcStates /\ "killed" # "running"
    BY DEF ProcStates
<1>2. CASE Stops(slots)
    BY <1>1, <1>2 DEF Stops, OnlyStops, TypeOK
<1>3. CASE StopsSome(slots)
    <2>1. PICK gone \in SUBSET {s \in slots : proc[s] = "running"} :
              proc' = [s \in Slots |-> IF s \in gone THEN "killed" ELSE proc[s]]
        BY <1>3 DEF StopsSome
    <2>2. \A s \in Slots : proc'[s] = (IF s \in gone THEN "killed" ELSE proc[s])
        BY <2>1
    <2>3. OnlyStops /\ proc' \in [Slots -> ProcStates]
        BY <1>1, <2>1, <2>2 DEF OnlyStops, TypeOK
    <2>4. \A s \in Slots : proc'[s] # proc[s] => s \in slots
        BY <2>2
    <2>5. Stops(slots) => (\A s \in Slots : s \in slots => proc'[s] # "running")
        BY <1>1 DEF Stops
    <2> QED
        BY <2>3, <2>4, <2>5
<1> QED
    BY <1>2, <1>3

LEMMA RecoverKind ==
    ASSUME Ready, NEW c \in Controllers, Recover(c)
    PROVE  TypeOK' /\ Did(c)
<1>1. PICK r \in ctl[c].todo, fails \in BOOLEAN :
         LET left == ctl[c].todo \ {r}
             errors == ctl[c].errors \cup IF fails THEN {"cleanup"} ELSE {}
         IN  /\ IF fails THEN Fault /\ StopsSome(Journaled(r)) /\ UNCHANGED missed
                ELSE /\ NoFault /\ Stops(Journaled(r))
                     /\ missed' = missed \cup
                          {s \in Journaled(r) : proc[s] \in {"inflight", "starting"}}
             /\ IF left = {} /\ errors # {} THEN EndAs(c, "failed")
                ELSE Goto(c, IF left = {} THEN "shared" ELSE "recover",
                          [ctl[c] EXCEPT !.todo = left, !.errors = errors])
    BY DEF Recover
<1> DEFINE left == ctl[c].todo \ {r}
           errors == ctl[c].errors \cup IF fails THEN {"cleanup"} ELSE {}
           m == [ctl[c] EXCEPT !.todo = left, !.errors = errors]
<1>2. TypeOK /\ pc[c] = "recover" /\ UNCHANGED fileVars
    BY DEF Ready, Recover
<1>3. /\ ctl[c] \in Ctl /\ left \in SUBSET Roles /\ errors \in SUBSET Errors
    BY <1>2, CtlType DEF Errors
<1>4. OnlyStops /\ proc' \in [Slots -> ProcStates]
    BY <1>1, <1>2, StopsOnly
<1>5. missed \subseteq missed' /\ missed' \in SUBSET Slots
    BY <1>1, <1>2 DEF TypeOK, Journaled
<1>6. TypeWorld'
    BY <1>1, <1>2, <1>4, <1>5, FaultType DEF TypeOK, TypeWorld, fileVars
<1>7. errors = {} => \A s \in journal : s[3] = r /\ Live(s)' => s \in missed'
    <2> SUFFICES ASSUME errors = {}, NEW s \in journal, s[3] = r, Live(s)'
                 PROVE  s \in missed'
        OBVIOUS
    <2>1. ~fails
        OBVIOUS
    <2>2. /\ Stops(Journaled(r))
          /\ missed' = missed \cup
                {q \in Journaled(r) : proc[q] \in {"inflight", "starting"}}
        BY <1>1, <2>1
    <2>3. s \in Journaled(r) /\ s \in Slots
        BY <1>2 DEF Journaled, TypeOK
    <2>4. proc'[s] # "running" /\ (proc'[s] = proc[s] \/ proc'[s] = "killed")
        <3>1. \A q \in Slots : q \in Journaled(r) => proc'[q] # "running"
            <4>1. "killed" # "running"
                OBVIOUS
            <4> QED
                BY <2>2, <4>1 DEF Stops
        <3> QED
            BY <1>4, <2>3, <3>1 DEF OnlyStops
    <2>5. proc[s] \in {"inflight", "starting"}
        BY <2>4 DEF Live
    <2> QED
        BY <2>2, <2>3, <2>5
<1>8. CASE left = {} /\ errors # {}
    <2>1. EndAs(c, "failed")
        BY <1>1, <1>8
    <2>2. TypeCtl'
        BY <1>2, <2>1, EndAsType DEF Ends
    <2>3. DidEnd(c)
        BY <1>2, <1>4, <1>5, <2>1, EndAsPoint DEF DidEnd, Ends
    <2> QED
        BY <1>6, <2>2, <2>3, TypeParts DEF Did
<1>9. CASE ~(left = {} /\ errors # {})
    <2>1. Goto(c, IF left = {} THEN "shared" ELSE "recover", m)
        BY <1>1, <1>9
    <2> HIDE DEF left, errors
    <2>2. m \in Ctl
        BY <1>3 DEF Ctl
    <2>3. /\ pc'[c] = (IF left = {} THEN "shared" ELSE "recover")
          /\ ctl'[c] = m /\ lock' = lock /\ OthersStay(c)
        BY <1>2, <2>1, GotoPoint
    <2>4. /\ m.mem = ctl[c].mem /\ m.task = ctl[c].task /\ m.old = ctl[c].old
          /\ m.someFailed = ctl[c].someFailed /\ m.todo = left /\ m.errors = errors
        BY <1>3 DEF Ctl
    <2>5. TypeCtl'
        <3>1. (IF left = {} THEN "shared" ELSE "recover") \in Steps
            BY DEF Steps
        <3> HIDE DEF m
        <3> QED
            BY <1>2, <2>1, <2>2, <3>1, GotoType
    <2>6. SameTask(c)
        BY <2>3, <2>4 DEF SameTask
    <2>7. ctl[c].errors \subseteq errors
        BY DEF errors
    <2>8. pc'[c] = "shared" => left = {} /\ errors = {}
        BY <1>9, <2>3
    <2> HIDE DEF m
    <2>9. \E q \in ctl[c].todo :
              /\ ctl'[c].todo = ctl[c].todo \ {q}
              /\ ctl'[c].errors = {} =>
                    \A s \in journal : s[3] = q /\ Live(s)' => s \in missed'
        BY <1>7, <2>3, <2>4 DEF left
    <2>10. DidRecover(c)
        BY <1>2, <1>4, <1>5, <2>3, <2>4, <2>6, <2>7, <2>8, <2>9 DEF DidRecover
    <2> QED
        BY <1>6, <2>5, <2>10, TypeParts DEF Did
<1> QED
    BY <1>8, <1>9

LEMMA DiskWorld ==
    ASSUME TypeOK, Fault \/ NoFault, disk' \in [Tasks -> Entry],
           UNCHANGED <<count, journal, damaged, hostVars>>
    PROVE  TypeWorld'
BY FaultType DEF TypeOK, TypeWorld, hostVars

LEMMA SharedKind ==
    ASSUME Ready, NEW c \in Controllers, PrepareShared(c)
    PROVE  TypeOK' /\ Did(c)
<1>1. TypeOK /\ pc[c] = "shared" /\ UNCHANGED <<fileVars, hostVars>>
    BY DEF Ready, PrepareShared
<1>2. TypeWorld'
    BY <1>1, WorldStays DEF PrepareShared
<1>3. CASE Advance(c, "begin")
    <2>1. DidShare(c)
        BY <1>1, <1>3, AdvancePoint DEF DidShare
    <2>2. TypeCtl'
        BY <1>1, <1>3, GotoType, CtlType DEF Advance, Steps
    <2> QED
        BY <1>2, <2>1, <2>2, TypeParts DEF Did
<1>4. CASE EndAs(c, "failed")
    <2>1. DidEnd(c)
        BY <1>1, <1>4, EndAsPoint DEF DidEnd, Ends, OnlyStops, hostVars
    <2>2. TypeCtl'
        BY <1>1, <1>4, EndAsType DEF Ends
    <2> QED
        BY <1>2, <2>1, <2>2, TypeParts DEF Did
<1> QED
    BY <1>3, <1>4 DEF PrepareShared

LEMMA FailKind ==
    ASSUME Ready, NEW c \in Controllers, NEW goesOn \in BOOLEAN, Failed(c, goesOn),
           pc[c] \in {"begin", "attempt", "settle"} \cup InAttempt,
           ctl[c].task <= Len(Plan), Fault \/ NoFault,
           goesOn => pc[c] = "validate" \/ (pc[c] = "collect" /\ CanContinue(ctl[c].errors)),
           UNCHANGED <<count, journal, damaged, hostVars>>
    PROVE  TypeOK' /\ Did(c)
<1>1. TypeOK /\ Current(c) \in Tasks
    BY CtlType, PlanFacts DEF Ready, Current
<1>2. DidFail(c, goesOn) /\ disk' = disk /\ ctl'[c] \in Ctl
    BY <1>1, FailedPoint DEF DidFail, Judges, Outcome, fileVars
<1>3. TypeWorld'
    BY <1>1, <1>2, DiskWorld DEF TypeOK
<1>4. TypeCtl'
    <2>1. PICK m : Goto(c, IF goesOn THEN "settle" ELSE "raise", m)
        BY DEF Failed
    <2>2. m \in Ctl
        BY <1>1, <1>2, <2>1, GotoPoint
    <2> QED
        BY <1>1, <2>1, <2>2, GotoType DEF Steps, Outcome
<1>5. DidJudge(c)
    BY <1>2 DEF DidJudge
<1> QED
    BY <1>3, <1>4, <1>5, TypeParts DEF Did

LEMMA BeginKind ==
    ASSUME Ready, NEW c \in Controllers, Begin(c)
    PROVE  TypeOK' /\ Did(c)
<1>1. TypeOK /\ pc[c] = "begin" /\ UNCHANGED <<count, journal, damaged, hostVars>>
    BY DEF Ready, Begin
<1>2. CASE ctl[c].task <= Len(Plan) /\ NoFault
           /\ disk' = [ctl[c].mem EXCEPT ![Current(c)].st = "running"]
           /\ Goto(c, "attempt", [ctl[c] EXCEPT !.old = ctl[c].mem[Current(c)],
                                                !.errors = {}, !.role = "receiver"])
    <2>1. DidBegin(c)
        BY <1>1, <1>2, BeginPoint DEF DidBegin
    <2>2. Current(c) \in Tasks /\ ctl'[c] \in Ctl /\ ctl[c].mem \in [Tasks -> Entry]
        BY <1>1, <1>2, BeginPoint, CtlType
    <2>3. disk' \in [Tasks -> Entry]
        <3>1. [ctl[c].mem[Current(c)] EXCEPT !.st = "running"] \in Entry
            BY <2>2 DEF Entry
        <3> QED
            BY <2>1, <2>2, <3>1 DEF DidBegin
    <2>4. TypeWorld'
        BY <1>1, <1>2, <2>3, DiskWorld
    <2>5. TypeCtl'
        <3>1. PICK m : Goto(c, "attempt", m)
            BY <1>2
        <3>2. m \in Ctl
            BY <1>1, <2>2, <3>1, GotoPoint
        <3> QED
            BY <1>1, <3>1, <3>2, GotoType DEF Steps
    <2> QED
        BY <2>1, <2>4, <2>5, TypeParts DEF Did
<1>3. CASE ctl[c].task <= Len(Plan) /\ Fault /\ Failed(c, FALSE)
    BY <1>1, <1>3, FailKind
<1>4. CASE ~(ctl[c].task <= Len(Plan))
    <2>1. EndAs(c, Result(c)) /\ UNCHANGED disk /\ NoFault /\ Result(c) \in Ends
        BY <1>4 DEF Begin, Result, Ends
    <2>2. ctl[c].task = Len(Plan) + 1
        BY <1>1, <1>4, CtlType, PlanFacts
    <2>3. Result(c) = "succeeded" => ~ctl[c].someFailed
        BY DEF Result
    <2>4. DidEnd(c)
        BY <1>1, <2>1, <2>2, <2>3, EndAsPoint DEF DidEnd, Ends, OnlyStops, hostVars, fileVars
    <2>5. TypeCtl'
        BY <1>1, <2>1, EndAsType
    <2>6. TypeWorld'
        BY <1>1, <2>1, DiskWorld DEF TypeOK
    <2> QED
        BY <2>4, <2>5, <2>6, TypeParts DEF Did
<1> QED
    BY <1>2, <1>3, <1>4 DEF Begin

LEMMA NumberKind ==
    ASSUME Ready, NEW c \in Controllers, NewAttempt(c)
    PROVE  TypeOK' /\ Did(c)
<1>1. TypeOK /\ pc[c] = "attempt" /\ NoFault /\ UNCHANGED <<journal, damaged, hostVars>>
    BY DEF Ready, NewAttempt
<1>2. /\ ctl[c].task \in 1 .. Len(Plan) /\ ctl[c].task <= Len(Plan)
      /\ Current(c) = Plan[ctl[c].task] /\ Current(c) \in Tasks
    BY <1>1, AtTask
<1>3. count[Current(c)] < c
    BY <1>1, <1>2 DEF Ready, AttemptsBounded, Busy, InAttempt, Steps, Traffic, Cleanup,
                     Outcome
<1>4. count[Current(c)] < NumControllers /\ count[Current(c)] \in 0 .. NumControllers
    BY <1>1, <1>2, <1>3, PlanFacts, SMTT(40) DEF TypeOK, Controllers
<1>5. DidNumber(c)
    BY <1>1, <1>2, <1>4, NewAttemptPoint DEF DidNumber
<1>6. ctl'[c] \in Ctl
    BY <1>1, <1>2, <1>4, NewAttemptPoint
<1>7. TypeCtl'
    <2>1. PICK m : Goto(c, "prepare", m)
        BY DEF NewAttempt
    <2>2. m \in Ctl
        BY <1>1, <1>6, <2>1, GotoPoint
    <2> QED
        BY <1>1, <2>1, <2>2, GotoType DEF Steps
<1>8. TypeWorld'
    <2>1. disk' \in [Tasks -> Entry]
        BY <1>5, <1>6 DEF DidNumber, Ctl
    <2>2. count' \in [Tasks -> 0 .. NumControllers]
        BY <1>1, <1>2, <1>4, <1>5, PlanFacts DEF DidNumber, TypeOK
    <2>3. UNCHANGED <<proc, missed>> /\ faults' \in 0 .. MaxFaults
        BY <1>1, FaultType DEF hostVars
    <2> QED
        BY <1>1, <2>1, <2>2, <2>3 DEF TypeOK, TypeWorld
<1> QED
    BY <1>5, <1>7, <1>8, TypeParts DEF Did

LEMMA CompleteKind ==
    ASSUME Ready, NEW c \in Controllers, NEW e \in Entry, Completed(c, e),
           \/ pc[c] = "prepare" /\ e = ctl[c].old /\ Intact(Current(c), e)
           \/ pc[c] = "validate" /\ e.attempt = AttemptOf(c) /\ e.files = AttemptOf(c),
           e.st = "completed", Fault \/ NoFault,
           UNCHANGED <<count, journal, damaged, hostVars>>
    PROVE  TypeOK' /\ Did(c)
<1>1. /\ TypeOK /\ ctl[c].task <= Len(Plan) /\ pc[c] \in {"prepare", "validate"}
      /\ Current(c) \in Tasks
    BY AtTask DEF Ready, InAttempt
<1>2. DidComplete(c, e) /\ disk' = disk /\ ctl'[c] \in Ctl
    BY <1>1, CompletedPoint DEF DidComplete, Judges, Outcome, InAttempt, fileVars
<1>3. TypeWorld'
    BY <1>1, <1>2, DiskWorld DEF TypeOK
<1>4. TypeCtl'
    <2>1. PICK m : Goto(c, "settle", m)
        BY DEF Completed
    <2>2. m \in Ctl
        BY <1>1, <1>2, <2>1, GotoPoint
    <2> QED
        BY <1>1, <2>1, <2>2, GotoType DEF Steps, Outcome
<1>5. DidJudge(c)
    BY <1>2 DEF DidJudge
<1> QED
    BY <1>3, <1>4, <1>5, TypeParts DEF Did

LEMMA WriteKind ==
    ASSUME Ready, NEW c \in Controllers, WriteOutcome(c)
    PROVE  TypeOK' /\ Did(c)
<1>1. /\ TypeOK /\ pc[c] \in Outcome /\ disk' = ctl[c].mem /\ ctl[c] \in Ctl
      /\ NoFault /\ UNCHANGED <<count, journal, damaged, hostVars>>
    BY CtlType DEF Ready, WriteOutcome, Persist
<1>2. TypeWorld'
    BY <1>1, DiskWorld, CtlType
<1>3. CASE pc[c] = "raise"
    <2>1. EndAs(c, "failed")
        BY <1>3 DEF WriteOutcome
    <2>2. DidWrite(c)
        BY <1>1, <1>3, <2>1, EndAsPoint DEF DidWrite
    <2>3. TypeCtl'
        BY <1>1, <2>1, EndAsType DEF Ends
    <2> QED
        BY <1>2, <2>2, <2>3, TypeParts DEF Did
<1>4. CASE pc[c] = "settle"
    <2> DEFINE failed == ctl[c].mem[Current(c)].st = "failed"
               m == NextTask(ctl[c], failed)
    <2>1. ctl[c].task <= Len(Plan)
        BY <1>1 DEF Ready, TaskThere
    <2>2. failed \in BOOLEAN
        OBVIOUS
    <2>3. Goto(c, "begin", m)
        BY <1>4 DEF WriteOutcome
    <2> HIDE DEF failed
    <2>4. /\ m \in Ctl /\ m.mem = ctl[c].mem /\ m.task = ctl[c].task + 1
          /\ m.someFailed = (ctl[c].someFailed \/ failed)
        BY <1>1, <2>1, <2>2, NextTaskPoint
    <2> HIDE DEF m
    <2>5. pc'[c] = "begin" /\ ctl'[c] = m /\ lock' = lock /\ OthersStay(c)
        BY <1>1, <2>3, GotoPoint
    <2>6. DidWrite(c)
        BY <1>1, <1>4, <2>4, <2>5 DEF DidWrite, failed
    <2>7. TypeCtl'
        BY <1>1, <2>3, <2>4, GotoType DEF Steps
    <2> QED
        BY <1>2, <2>6, <2>7, TypeParts DEF Did
<1> QED
    BY <1>1, <1>3, <1>4 DEF Outcome

LEMMA PrepareKind ==
    ASSUME Ready, NEW c \in Controllers, Prepare(c)
    PROVE  TypeOK' /\ Did(c)
<1>1. /\ TypeOK /\ pc[c] = "prepare" /\ UNCHANGED <<count, journal, damaged, hostVars>>
      /\ pc[c] \in InAttempt /\ ctl[c].old \in Entry /\ ctl[c] \in Ctl
      /\ ctl[c].task <= Len(Plan)
    BY CtlType, AtTask DEF Ready, Prepare, InAttempt
<1>2. CASE NoFault /\ Completed(c, ctl[c].old) /\ ctl[c].old.st = "completed"
           /\ Intact(Current(c), ctl[c].old)
    BY <1>1, <1>2, CompleteKind
<1>3. CASE NoFault /\ Advance(c, "ports") /\ UNCHANGED disk
    <2>1. Within(c) /\ ctl'[c].errors = ctl[c].errors /\ pc'[c] = "ports"
        BY <1>1, <1>3, AdvancePoint DEF Within, SameTask, InAttempt, Traffic, hostVars
    <2>2. DidGoOn(c)
        BY <1>1, <2>1 DEF DidGoOn, hostVars
    <2>3. TypeCtl'
        BY <1>1, <1>3, GotoType DEF Advance, Steps, Traffic
    <2>4. TypeWorld'
        BY <1>1, <1>3, DiskWorld DEF TypeOK
    <2> QED
        BY <2>2, <2>3, <2>4, TypeParts DEF Did
<1>4. CASE Fault /\ Failed(c, FALSE)
    BY <1>1, <1>4, FailKind
<1> QED
    BY <1>1, <1>2, <1>3, <1>4 DEF Prepare

LEMMA LeaveKind ==
    ASSUME Ready, NEW c \in Controllers, NEW es \in SUBSET Errors, ToCleanup(c, es),
           pc[c] \in Traffic, Fault \/ NoFault,
           es = {} => pc[c] = "wait" /\ Finished(c),
           pc[c] = "answer" /\ proc[Slot(c, ctl[c].role)] = "inflight" =>
              es \cap {"transport", "interrupt"} # {},
           UNCHANGED <<fileVars, hostVars>>
    PROVE  TypeOK' /\ Did(c)
<1>1. TypeOK
    BY DEF Ready
<1>2. Within(c) /\ pc'[c] = "stop"
    BY <1>1, ToCleanupPoint DEF Within, SameTask, InAttempt, Cleanup, fileVars, hostVars
<1>3. ctl'[c].errors = ctl[c].errors \cup es /\ ctl'[c].todo = Launched(c) /\ ctl'[c] \in Ctl
    BY <1>1, ToCleanupPoint
<1>4. DidLeave(c, es)
    BY <1>2, <1>3 DEF DidLeave, fileVars, hostVars
<1>5. TypeCtl'
    <2>1. PICK m : Goto(c, "stop", m)
        BY DEF ToCleanup
    <2>2. m \in Ctl
        BY <1>1, <1>3, <2>1, GotoPoint
    <2> QED
        BY <1>1, <2>1, <2>2, GotoType DEF Steps, Cleanup
<1>6. TypeWorld'
    BY <1>1, WorldStays
<1> QED
    BY <1>4, <1>5, <1>6, TypeParts DEF Did

\* The errors named in the actions.
LEMMA ErrorSets ==
    /\ \A e \in {"error", "transport"} : {e} \in SUBSET Errors /\ {e} # {}
    /\ {"interrupt"} \in SUBSET Errors /\ {} \in SUBSET Errors
    /\ {"transport"} \cap {"transport", "interrupt"} # {}
    /\ {"interrupt"} \cap {"transport", "interrupt"} # {}
BY DEF Errors

LEMMA PortsKind ==
    ASSUME Ready, NEW c \in Controllers, CheckPorts(c)
    PROVE  TypeOK' /\ Did(c)
<1>1. TypeOK /\ pc[c] = "ports" /\ UNCHANGED <<fileVars, hostVars>> /\ pc[c] \in Traffic
    BY DEF Ready, CheckPorts, Traffic
<1>2. CASE NoFault /\ Advance(c, "journal")
    <2>1. Within(c) /\ ctl'[c].errors = ctl[c].errors /\ pc'[c] = "journal"
        BY <1>1, <1>2, AdvancePoint
            DEF Within, SameTask, InAttempt, Traffic, hostVars, fileVars
    <2>2. DidGoOn(c)
        BY <1>1, <2>1 DEF DidGoOn, hostVars, fileVars
    <2>3. TypeCtl'
        BY <1>1, <1>2, GotoType, CtlType DEF Advance, Steps, Traffic
    <2>4. TypeWorld'
        BY <1>1, <1>2, WorldStays
    <2> QED
        BY <2>2, <2>3, <2>4, TypeParts DEF Did
<1>3. CASE NoFault /\ ToCleanup(c, {"error"})
    BY <1>1, <1>3, LeaveKind, ErrorSets
<1>4. CASE Fails(c)
    BY <1>1, <1>4, LeaveKind, ErrorSets DEF Fails
<1> QED
    BY <1>1, <1>2, <1>3, <1>4 DEF CheckPorts

LEMMA JournalKind ==
    ASSUME Ready, NEW c \in Controllers, Journal(c)
    PROVE  TypeOK' /\ Did(c)
<1>1. /\ TypeOK /\ pc[c] = "journal" /\ Advance(c, "send") /\ NoFault
      /\ UNCHANGED <<disk, count, damaged, hostVars>>
      /\ journal' = journal \cup {Slot(c, ctl[c].role)}
    BY DEF Ready, Journal, Intents
<1>2. Slot(c, ctl[c].role) \in Slots
    BY <1>1, AtAttempt DEF InAttempt, Traffic
<1>3. Within(c) /\ ctl'[c].errors = ctl[c].errors /\ pc'[c] = "send"
      /\ ctl'[c].role = ctl[c].role
    BY <1>1, AdvancePoint DEF Within, SameTask, InAttempt, Traffic, hostVars
<1>4. DidGoOn(c)
    BY <1>1, <1>3 DEF DidGoOn, hostVars
<1>5. TypeCtl'
    BY <1>1, GotoType, CtlType DEF Advance, Steps, Traffic
<1>6. TypeWorld'
    BY <1>1, <1>2, FaultType DEF TypeOK, TypeWorld, hostVars
<1> QED
    BY <1>4, <1>5, <1>6, TypeParts DEF Did

LEMMA SendKind ==
    ASSUME Ready, NEW c \in Controllers, Send(c)
    PROVE  TypeOK' /\ Did(c)
<1>1. /\ TypeOK /\ pc[c] = "send" /\ Advance(c, "answer") /\ NoFault
      /\ UNCHANGED <<fileVars, missed>>
      /\ proc' = [proc EXCEPT ![Slot(c, ctl[c].role)] = "inflight"]
    BY DEF Ready, Send
<1>2. Within(c) /\ ctl'[c].errors = ctl[c].errors /\ pc'[c] = "answer"
      /\ ctl'[c].role = ctl[c].role
    BY <1>1, AdvancePoint DEF Within, SameTask, InAttempt, Traffic, fileVars
<1>3. DidGoOn(c)
    BY <1>1, <1>2 DEF DidGoOn, fileVars
<1>4. TypeCtl'
    BY <1>1, GotoType, CtlType DEF Advance, Steps, Traffic
<1>5. TypeWorld'
    BY <1>1, FaultType DEF TypeOK, TypeWorld, fileVars, ProcStates
<1> QED
    BY <1>3, <1>4, <1>5, TypeParts DEF Did

LEMMA AnswerKind ==
    ASSUME Ready, NEW c \in Controllers, Answer(c)
    PROVE  TypeOK' /\ Did(c)
<1>1. /\ TypeOK /\ pc[c] = "answer" /\ UNCHANGED <<fileVars, hostVars>> /\ pc[c] \in Traffic
    BY DEF Ready, Answer, Traffic
<1> DEFINE next == IF ctl[c].role = "receiver" THEN "ready" ELSE "wait"
           s == Slot(c, ctl[c].role)
<1>2. CASE NoFault /\ proc[s] \in {"running", "exited", "broke"} /\ Advance(c, next)
    <2>1. next \in {"ready", "wait"}
        OBVIOUS
    <2> HIDE DEF next
    <2>2. Within(c) /\ ctl'[c].errors = ctl[c].errors /\ pc'[c] = next
        BY <1>1, <1>2, <2>1, AdvancePoint
            DEF Within, SameTask, InAttempt, Traffic, hostVars, fileVars
    <2>3. DidGoOn(c)
        BY <1>1, <1>2, <2>1, <2>2 DEF DidGoOn, hostVars, fileVars
    <2>4. TypeCtl'
        BY <1>1, <1>2, <2>1, GotoType, CtlType DEF Advance, Steps, Traffic
    <2>5. TypeWorld'
        BY <1>1, <1>2, WorldStays
    <2> QED
        BY <2>3, <2>4, <2>5, TypeParts DEF Did
<1>3. CASE proc[s] = "broke" /\ NoFault /\ ToCleanup(c, {"error"})
    BY <1>1, <1>3, LeaveKind, ErrorSets
<1>4. CASE proc[s] # "inflight" /\ Fault /\ ToCleanup(c, {"error"})
    BY <1>1, <1>4, LeaveKind, ErrorSets
<1>5. CASE Fault /\ ToCleanup(c, {"transport"})
    BY <1>1, <1>5, LeaveKind, ErrorSets
<1> QED
    BY <1>1, <1>2, <1>3, <1>4, <1>5 DEF Answer

LEMMA ReadyKind ==
    ASSUME Ready, NEW c \in Controllers, WaitReady(c)
    PROVE  TypeOK' /\ Did(c)
<1>1. /\ TypeOK /\ pc[c] = "ready" /\ UNCHANGED <<fileVars, hostVars>> /\ pc[c] \in Traffic
      /\ ctl[c] \in Ctl
    BY CtlType DEF Ready, WaitReady, Traffic
<1>2. CASE NoFault /\ Goto(c, "journal", [ctl[c] EXCEPT !.role = "sender"])
    <2>1. [ctl[c] EXCEPT !.role = "sender"] \in Ctl
        BY <1>1 DEF Ctl, Roles
    <2>2. /\ pc'[c] = "journal" /\ ctl'[c] = [ctl[c] EXCEPT !.role = "sender"]
          /\ lock' = lock /\ OthersStay(c)
        BY <1>1, <1>2, GotoPoint
    <2>3. SameTask(c) /\ ctl'[c].errors = ctl[c].errors
        BY <1>1, <2>2 DEF SameTask, Ctl
    <2>4. Within(c)
        BY <1>1, <2>2, <2>3 DEF Within, InAttempt, Traffic, hostVars, fileVars
    <2>5. DidGoOn(c)
        BY <1>1, <2>2, <2>3, <2>4 DEF DidGoOn, hostVars, fileVars
    <2>6. TypeCtl'
        BY <1>1, <1>2, <2>1, GotoType DEF Steps, Traffic
    <2>7. TypeWorld'
        BY <1>1, <1>2, WorldStays
    <2> QED
        BY <2>5, <2>6, <2>7, TypeParts DEF Did
<1>3. CASE NoFault /\ ToCleanup(c, {"error"})
    BY <1>1, <1>3, LeaveKind, ErrorSets
<1>4. CASE Fails(c)
    BY <1>1, <1>4, LeaveKind, ErrorSets DEF Fails
<1> QED
    BY <1>1, <1>2, <1>3, <1>4 DEF WaitReady

LEMMA WaitKind ==
    ASSUME Ready, NEW c \in Controllers, Wait(c)
    PROVE  TypeOK' /\ Did(c)
<1>1. /\ TypeOK /\ pc[c] = "wait" /\ UNCHANGED <<fileVars, hostVars>> /\ pc[c] \in Traffic
    BY DEF Ready, Wait, Traffic
<1>2. CASE NoFault /\ Finished(c) /\ ToCleanup(c, {})
    BY <1>1, <1>2, LeaveKind, ErrorSets
<1>3. CASE NoFault /\ EndedEarly(c) /\ ToCleanup(c, {"error"})
    BY <1>1, <1>3, LeaveKind, ErrorSets
<1>4. CASE Fails(c)
    BY <1>1, <1>4, LeaveKind, ErrorSets DEF Fails
<1> QED
    BY <1>1, <1>2, <1>3, <1>4 DEF Wait

\* The process of a role is handled: its host leaves the list.
LEMMA HandledKind ==
    ASSUME Ready, NEW c \in Controllers, NEW r \in ctl[c].todo, NEW es \in SUBSET Errors,
           pc[c] = "stop", Fault \/ NoFault,
           Goto(c, "stop", [ctl[c] EXCEPT !.todo = @ \ {r}, !.errors = @ \cup es]),
           \/ Stops({Slot(c, r)})
           \/ StopsSome({Slot(c, r)}) /\ "cleanup" \in es,
           UNCHANGED <<fileVars, missed>>
    PROVE  TypeOK' /\ Did(c)
<1>1. TypeOK /\ ctl[c] \in Ctl /\ r \in Roles /\ ctl[c].todo \in SUBSET Roles
      /\ ctl[c].errors \in SUBSET Errors
    BY CtlType DEF Ready
<1>2. Slot(c, r) \in Slots
    BY <1>1, AtAttempt DEF InAttempt, Cleanup
<1> DEFINE m == [ctl[c] EXCEPT !.todo = ctl[c].todo \ {r}, !.errors = ctl[c].errors \cup es]
<1>3. /\ m \in Ctl /\ m.mem = ctl[c].mem /\ m.task = ctl[c].task /\ m.old = ctl[c].old
      /\ m.someFailed = ctl[c].someFailed
      /\ m.todo = ctl[c].todo \ {r} /\ m.errors = ctl[c].errors \cup es
    BY <1>1 DEF Ctl
<1>4. Goto(c, "stop", m)
    OBVIOUS
<1> HIDE DEF m
<1>5. pc'[c] = "stop" /\ ctl'[c] = m /\ lock' = lock /\ OthersStay(c)
    BY <1>1, <1>4, GotoPoint
<1>6. Within(c)
    BY <1>3, <1>5 DEF Within, SameTask, InAttempt, Cleanup, fileVars
<1>7. OnlyStops /\ proc' \in [Slots -> ProcStates]
      /\ \A s \in Slots : proc'[s] # proc[s] => s \in {Slot(c, r)}
    <2>1. "killed" \in ProcStates
        BY DEF ProcStates
    <2>2. CASE Stops({Slot(c, r)})
        BY <1>1, <2>1, <2>2 DEF Stops, OnlyStops, TypeOK
    <2>3. CASE StopsSome({Slot(c, r)})
        <3>1. PICK gone \in SUBSET {s \in {Slot(c, r)} : proc[s] = "running"} :
                  proc' = [s \in Slots |-> IF s \in gone THEN "killed" ELSE proc[s]]
            BY <2>3 DEF StopsSome
        <3> QED
            BY <1>1, <2>1, <3>1 DEF OnlyStops, TypeOK
    <2> QED
        BY <2>2, <2>3
<1>8. "cleanup" \notin ctl'[c].errors => proc'[Slot(c, r)] # "running"
    <2>1. SUFFICES ASSUME "cleanup" \notin es PROVE proc'[Slot(c, r)] # "running"
        BY <1>3, <1>5
    <2>2. Stops({Slot(c, r)}) /\ "killed" # "running"
        BY <2>1
    <2> QED
        BY <1>2, <2>2 DEF Stops
<1>9. DidStop(c, r)
    BY <1>3, <1>5, <1>6, <1>7, <1>8 DEF DidStop, fileVars
<1>10. TypeCtl'
    BY <1>1, <1>3, <1>4, GotoType, SMTT(40) DEF Steps, Cleanup
<1>11. TypeWorld'
    BY <1>1, <1>7, FaultType DEF TypeOK, TypeWorld, fileVars
<1> QED
    BY <1>1, <1>9, <1>10, <1>11, TypeParts DEF Did

LEMMA StopKind ==
    ASSUME Ready, NEW c \in Controllers, Stop(c)
    PROVE  TypeOK' /\ Did(c)
<1>1. TypeOK /\ pc[c] = "stop" /\ UNCHANGED <<fileVars, missed>>
    BY DEF Ready, Stop
<1>2. CASE ctl[c].todo = {} /\ NoFault /\ Advance(c, "verify") /\ UNCHANGED proc
    <2>1. Within(c) /\ ctl'[c].errors = ctl[c].errors /\ pc'[c] = "verify"
        BY <1>1, <1>2, AdvancePoint
            DEF Within, SameTask, InAttempt, Cleanup, fileVars
    <2>2. DidVerify(c)
        BY <1>1, <1>2, <2>1 DEF DidVerify, fileVars
    <2>3. TypeCtl'
        BY <1>1, <1>2, GotoType, CtlType DEF Advance, Steps, Cleanup
    <2>4. TypeWorld'
        BY <1>1, <1>2, WorldStays DEF hostVars
    <2> QED
        BY <2>2, <2>3, <2>4, TypeParts DEF Did
<1>3. ASSUME NEW r \in ctl[c].todo, NEW es \in SUBSET Errors,
             Goto(c, "stop", [ctl[c] EXCEPT !.todo = @ \ {r}, !.errors = @ \cup es]),
             Fault \/ NoFault,
             \/ Stops({Slot(c, r)})
             \/ StopsSome({Slot(c, r)}) /\ "cleanup" \in es
      PROVE  TypeOK' /\ Did(c)
    BY <1>1, <1>3, HandledKind
<1>4. \A es \in {{}, {"error"}, {"transport"}, {"cleanup"}, {"cleanup", "transport"}} :
          es \in SUBSET Errors
    BY DEF Errors
<1>5. ASSUME NEW r \in ctl[c].todo, NEW es,
             Goto(c, "stop", [ctl[c] EXCEPT !.todo = @ \ {r}, !.errors = @ \cup es]),
             \/ NoFault /\ Stops({Slot(c, r)}) /\ es = {}
             \/ Fault /\ Stops({Slot(c, r)}) /\ es \in {{"error"}, {"transport"}}
             \/ /\ Fault /\ StopsSome({Slot(c, r)})
                /\ es \in {{"cleanup"}, {"cleanup", "transport"}}
      PROVE  TypeOK' /\ Did(c)
    <2>1. es \in SUBSET Errors
        BY <1>4, <1>5
    <2>2. es \in {{"cleanup"}, {"cleanup", "transport"}} => "cleanup" \in es
        OBVIOUS
    <2> QED
        BY <1>3, <1>5, <2>1, <2>2
<1> QED
    BY <1>2, <1>5, ZenonT(40) DEF Stop

LEMMA VerifyKind ==
    ASSUME Ready, NEW c \in Controllers, Verify(c)
    PROVE  TypeOK' /\ Did(c)
<1>1. TypeOK /\ pc[c] = "verify" /\ UNCHANGED <<fileVars, hostVars>> /\ ctl[c] \in Ctl
    BY CtlType DEF Ready, Verify
<1>2. PICK es \in {IF Seen(c) = {} THEN {} ELSE {"cleanup"}, {"cleanup", "transport"}} :
          Goto(c, "collect", [ctl[c] EXCEPT !.errors = @ \cup es])
    BY DEF Verify
<1>3. es \in SUBSET Errors /\ ("cleanup" \notin es => Seen(c) = {})
    BY <1>2 DEF Errors
<1>4. Fault \/ NoFault
    BY DEF Verify
<1> DEFINE m == [ctl[c] EXCEPT !.errors = ctl[c].errors \cup es]
<1>5. /\ m \in Ctl /\ m.mem = ctl[c].mem /\ m.task = ctl[c].task /\ m.old = ctl[c].old
      /\ m.someFailed = ctl[c].someFailed /\ m.errors = ctl[c].errors \cup es
    BY <1>1, <1>3 DEF Ctl
<1>6. Goto(c, "collect", m)
    BY <1>2
<1> HIDE DEF m
<1>7. pc'[c] = "collect" /\ ctl'[c] = m /\ lock' = lock /\ OthersStay(c)
    BY <1>1, <1>6, GotoPoint
<1>8. Within(c)
    BY <1>1, <1>5, <1>7 DEF Within, SameTask, InAttempt, Cleanup, fileVars, hostVars
<1>9. DidVerify(c)
    BY <1>1, <1>3, <1>5, <1>7, <1>8 DEF DidVerify, fileVars, hostVars
<1>10. TypeCtl'
    BY <1>1, <1>5, <1>6, GotoType DEF Steps, Cleanup
<1>11. TypeWorld'
    BY <1>1, <1>4, WorldStays
<1> QED
    BY <1>9, <1>10, <1>11, TypeParts DEF Did

LEMMA CollectKind ==
    ASSUME Ready, NEW c \in Controllers, Collect(c)
    PROVE  TypeOK' /\ Did(c)
<1>1. /\ TypeOK /\ pc[c] = "collect" /\ UNCHANGED <<count, journal, damaged, hostVars>>
      /\ pc[c] \in InAttempt /\ ctl[c].task <= Len(Plan)
    BY AtTask DEF Ready, Collect, InAttempt, Cleanup
<1>2. CASE NoFault /\ ctl[c].errors = {} /\ Advance(c, "validate") /\ UNCHANGED disk
    <2>1. Within(c) /\ ctl'[c].errors = ctl[c].errors /\ pc'[c] = "validate"
        BY <1>1, <1>2, AdvancePoint DEF Within, SameTask, InAttempt, hostVars
    <2>2. DidGoOn(c)
        BY <1>1, <1>2, <2>1 DEF DidGoOn, hostVars
    <2>3. TypeCtl'
        BY <1>1, <1>2, GotoType, CtlType DEF Advance, Steps
    <2>4. TypeWorld'
        BY <1>1, <1>2, DiskWorld DEF TypeOK
    <2> QED
        BY <2>2, <2>3, <2>4, TypeParts DEF Did
<1>3. CASE NoFault /\ Failed(c, CanContinue(ctl[c].errors))
    <2> DEFINE goesOn == CanContinue(ctl[c].errors)
    <2>1. goesOn \in BOOLEAN
        BY DEF CanContinue
    <2>2. goesOn => CanContinue(ctl[c].errors)
        OBVIOUS
    <2> HIDE DEF goesOn
    <2>3. Failed(c, goesOn)
        BY <1>3 DEF goesOn
    <2> QED
        BY <1>1, <1>3, <2>1, <2>2, <2>3, FailKind
<1>4. ASSUME NEW e \in {"error", "transport"}, Fault,
             Failed(c, CanContinue(ctl[c].errors \cup {e}))
      PROVE  TypeOK' /\ Did(c)
    <2> DEFINE goesOn == CanContinue(ctl[c].errors \cup {e})
    <2>1. goesOn \in BOOLEAN
        BY DEF CanContinue
    <2>2. goesOn => CanContinue(ctl[c].errors)
        BY DEF CanContinue
    <2> HIDE DEF goesOn
    <2>3. Failed(c, goesOn)
        BY <1>4 DEF goesOn
    <2> QED
        BY <1>1, <1>4, <2>1, <2>2, <2>3, FailKind
<1> QED
    BY <1>2, <1>3, <1>4 DEF Collect, Accepted

LEMMA ValidateKind ==
    ASSUME Ready, NEW c \in Controllers, Validate(c)
    PROVE  TypeOK' /\ Did(c)
<1>1. /\ TypeOK /\ pc[c] = "validate" /\ UNCHANGED <<count, journal, damaged, hostVars>>
      /\ pc[c] \in InAttempt /\ ctl[c].task <= Len(Plan)
    BY AtTask DEF Ready, Validate, InAttempt
<1> DEFINE e == [st |-> "completed", attempt |-> AttemptOf(c), files |-> AttemptOf(c)]
<1>2. e \in Entry
    BY <1>1, AtAttempt DEF Entry
<1>3. CASE NoFault /\ Completed(c, e)
    <2>1. e.attempt = AttemptOf(c) /\ e.files = AttemptOf(c) /\ e.st = "completed"
        OBVIOUS
    <2> HIDE DEF e
    <2> QED
        BY <1>1, <1>2, <1>3, <2>1, CompleteKind
<1>4. CASE Fault /\ Failed(c, TRUE)
    BY <1>1, <1>4, FailKind
<1> QED
    BY <1>3, <1>4 DEF Validate

LEMMA CrashKind ==
    ASSUME Ready, NEW c \in Controllers, Crash(c)
    PROVE  TypeOK' /\ Did(c)
<1>1. /\ TypeOK /\ pc[c] \notin {"off"} \cup Ends /\ EndAs(c, "crashed") /\ Fault
      /\ UNCHANGED <<fileVars, hostVars>>
    BY DEF Ready, Crash
<1>2. DidEnd(c)
    BY <1>1, EndAsPoint DEF DidEnd, Ends, OnlyStops, hostVars
<1>3. TypeCtl'
    BY <1>1, EndAsType DEF Ends
<1>4. TypeWorld'
    BY <1>1, WorldStays
<1> QED
    BY <1>2, <1>3, <1>4, TypeParts DEF Did

LEMMA InterruptKind ==
    ASSUME Ready, NEW c \in Controllers, Interrupt(c)
    PROVE  TypeOK' /\ Did(c)
<1>1. TypeOK /\ Fault /\ UNCHANGED <<count, journal, damaged, hostVars>>
    BY DEF Ready, Interrupt
<1>2. CASE pc[c] \in Traffic /\ ToCleanup(c, {"interrupt"}) /\ UNCHANGED disk
    <2>1. UNCHANGED <<fileVars, hostVars>>
        BY <1>1, <1>2 DEF fileVars
    <2> QED
        BY <1>1, <1>2, <2>1, LeaveKind, ErrorSets
<1>3. CASE pc[c] \in Cleanup \cup {"attempt", "prepare", "validate"} /\ Failed(c, FALSE)
    <2>1. pc[c] \in {"attempt"} \cup InAttempt /\ ctl[c].task <= Len(Plan)
        BY <1>3, AtTask DEF InAttempt
    <2> QED
        BY <1>1, <1>3, <2>1, FailKind
<1>a. CASE pc[c] = "settle" /\ Failed(c, FALSE)
    <2>1. ctl[c].task <= Len(Plan)
        BY <1>a, AtTask DEF Outcome
    <2> QED
        BY <1>1, <1>a, <2>1, FailKind
<1>b. CASE pc[c] \in Outcome /\ EndAs(c, "unsaved") /\ UNCHANGED disk
    <2>1. DidEnd(c)
        BY <1>1, <1>b, EndAsPoint DEF DidEnd, Ends, Outcome, OnlyStops, hostVars, fileVars
    <2>2. TypeCtl'
        BY <1>1, <1>b, EndAsType DEF Ends
    <2>3. TypeWorld'
        BY <1>1, <1>b, DiskWorld DEF TypeOK
    <2> QED
        BY <2>1, <2>2, <2>3, TypeParts DEF Did
<1>4. CASE pc[c] \in {"recover", "shared", "begin"} /\ EndAs(c, "failed") /\ UNCHANGED disk
    <2>1. DidEnd(c)
        BY <1>1, <1>4, EndAsPoint DEF DidEnd, Ends, OnlyStops, hostVars, fileVars
    <2>2. TypeCtl'
        BY <1>1, <1>4, EndAsType DEF Ends
    <2>3. TypeWorld'
        BY <1>1, <1>4, DiskWorld DEF TypeOK
    <2> QED
        BY <2>1, <2>2, <2>3, TypeParts DEF Did
<1> QED
    BY <1>2, <1>3, <1>4, <1>a, <1>b DEF Interrupt

LEMMA HostKind ==
    ASSUME Ready, NEW s \in Slots, Hosts(s) \/ Break(s)
    PROVE  TypeOK' /\ DidHost(s)
<1>1. TypeOK
    BY DEF Ready
<1>2. /\ Live(s) /\ UNCHANGED <<lock, fileVars, pc, ctl, missed>> /\ (Fault \/ NoFault)
      /\ \E q \in {"starting", "running", "exited", "broke"} :
            /\ q = "starting" => proc[s] = "inflight"
            /\ q = "running" => proc[s] = "starting"
            /\ q = "exited" => s[1] \notin Bandwidth
            /\ proc' = [proc EXCEPT ![s] = q]
    <2>1. CASE Land(s)
        BY <2>1 DEF Land, Live
    <2>2. CASE WritePid(s)
        BY <2>2 DEF WritePid, Live
    <2>3. CASE Exit(s)
        BY <2>3 DEF Exit, Live
    <2>4. CASE Break(s)
        BY <2>4 DEF Break, Live
    <2> QED
        BY <2>1, <2>2, <2>3, <2>4 DEF Hosts
<1>3. DidHost(s)
    BY <1>2 DEF DidHost
<1>4. proc' \in [Slots -> ProcStates]
    BY <1>1, <1>2 DEF TypeOK, ProcStates
<1> QED
    BY <1>1, <1>2, <1>3, <1>4, FaultType DEF TypeOK, fileVars

LEMMA DamageKind ==
    ASSUME Ready, NEW t \in Tasks, Damage(t)
    PROVE  TypeOK' /\ DidDamage(t)
<1>1. TypeOK
    BY DEF Ready
<1>2. DidDamage(t)
    BY DEF Damage, DidDamage
<1>3. disk[t].files \in Attempts
    BY <1>1 DEF TypeOK, Entry, Damage
<1>4. damaged' \in SUBSET (Tasks \X Attempts)
    BY <1>1, <1>3 DEF TypeOK, Damage
<1> QED
    BY <1>1, <1>2, <1>4, FaultType DEF TypeOK, Damage, hostVars

LEMMA StillKind ==
    ASSUME TypeOK, UNCHANGED vars
    PROVE  TypeOK'
BY DEF TypeOK, vars, fileVars, hostVars

\* Every step is of one of the kinds.
LEMMA Kinds ==
    ASSUME Ready, [Next]_vars
    PROVE  /\ TypeOK'
           /\ \/ \E c \in Controllers : Did(c)
              \/ \E s \in Slots : DidHost(s)
              \/ \E t \in Tasks : DidDamage(t)
              \/ UNCHANGED vars
<1>1. CASE UNCHANGED vars
    BY <1>1, StillKind DEF Ready
<1>2. ASSUME NEW c \in Controllers, Start(c) \/ Work(c) \/ Crash(c) \/ Interrupt(c)
      PROVE  TypeOK' /\ Did(c)
    BY <1>2, StartKind, RecoverKind, SharedKind, BeginKind, NumberKind, PrepareKind,
       PortsKind, JournalKind, SendKind, AnswerKind, ReadyKind, WaitKind, StopKind,
       VerifyKind, CollectKind, ValidateKind, WriteKind, CrashKind, InterruptKind DEF Work
<1>3. ASSUME NEW s \in Slots, Hosts(s) \/ Break(s)
      PROVE  TypeOK' /\ DidHost(s)
    BY <1>3, HostKind
<1>4. ASSUME NEW t \in Tasks, Damage(t)
      PROVE  TypeOK' /\ DidDamage(t)
    BY <1>4, DamageKind
<1> QED
    BY <1>1, <1>2, <1>3, <1>4 DEF Next

-------------------------------------------------------------------------------
(* The lock: one busy controller, and the order of the controllers.        *)

\* The sets of steps, for the provers.
LEMMA StepSets ==
    /\ Traffic \subseteq InAttempt /\ Cleanup \subseteq InAttempt
    /\ InAttempt \subseteq Busy /\ Busy \cap Ends = {} /\ "off" \notin Busy /\ "off" \notin Ends
    /\ {"recover", "shared", "begin", "attempt"} \cup Outcome \subseteq Busy
    /\ ({"recover", "shared", "begin", "attempt"} \cup Outcome) \cap InAttempt = {}
    /\ Outcome = {"settle", "raise"} /\ {"failed", "unsaved", "crashed"} \subseteq Ends
    /\ \A step \in Steps \cup Ends : step \in Busy \/ step = "off" \/ step \in Ends
BY DEF InAttempt, Traffic, Cleanup, Outcome, Busy, Steps, Ends

\* A controller that found the lock held.
Refused(c) ==
    /\ pc[c] = "off" /\ pc'[c] \in Ends /\ OthersStay(c)
    /\ lock' = lock /\ UNCHANGED <<fileVars, hostVars>>

\* The step of a controller that has the lock, or takes it.
Coarse(c) ==
    /\ OthersStay(c)
    /\ pc[c] = "off" => \A b \in Controllers : b < c => pc[b] # "off"
    /\ \/ pc[c] = "off" /\ lock = 0 /\ lock' = c /\ pc'[c] \in Busy
       \/ pc[c] \in Busy /\ pc'[c] \in Ends /\ lock' = 0
       \/ pc[c] \in Busy /\ pc'[c] \in Busy /\ lock' = lock

LEMMA CoarseKind ==
    ASSUME Ready, NEW c \in Controllers, Did(c)
    PROVE  \/ /\ Refused(c)
              /\ \A b \in Controllers : b < c => pc[b] # "off"
           \/ Coarse(c)
<1>1. /\ pc[c] \in Steps \cup Ends
      /\ pc[c] \in Busy <=> lock = c
      /\ 0 \notin Controllers
    BY PlanFacts DEF Ready, TypeOK, Holder
<1> USE StepSets
<1>2. CASE DidStart(c)
    BY <1>1, <1>2 DEF DidStart, Coarse
<1>3. CASE DidEnd(c)
    BY <1>1, <1>3 DEF DidEnd, Coarse, Refused
<1>4. CASE DidRecover(c)
    BY <1>1, <1>4 DEF DidRecover, Coarse
<1>5. CASE DidShare(c)
    BY <1>1, <1>5 DEF DidShare, Coarse
<1>6. CASE DidBegin(c)
    BY <1>1, <1>6 DEF DidBegin, Coarse
<1>7. CASE DidNumber(c)
    BY <1>1, <1>7 DEF DidNumber, Coarse, InAttempt
<1>8. ASSUME Within(c) PROVE Coarse(c)
    BY <1>1, <1>8 DEF Within, Coarse
<1>9. CASE DidJudge(c)
    BY <1>1, <1>9, JudgeFacts DEF Judges, Coarse
<1>10. CASE DidWrite(c)
    BY <1>1, <1>10 DEF DidWrite, Coarse
<1> QED
    BY <1>2, <1>3, <1>4, <1>5, <1>6, <1>7, <1>8, <1>9, <1>10
        DEF Did, DidGoOn, DidVerify, DidLeave, DidStop

\* Beside the controller that steps, another one is busy only if that one is
\* refused.
LEMMA OneBusy ==
    ASSUME Ready, NEW c \in Controllers, Coarse(c)
    PROVE  \A b \in Controllers : b # c => pc[b] \notin Busy /\ pc'[b] \notin Busy
<1> SUFFICES ASSUME NEW b \in Controllers, b # c
             PROVE  pc[b] \notin Busy /\ pc'[b] \notin Busy
    OBVIOUS
<1>1. (pc[b] \in Busy <=> lock = b) /\ (pc[c] \in Busy <=> lock = c) /\ b # 0
    BY PlanFacts DEF Ready, Holder
<1> QED
    BY <1>1 DEF Coarse, OthersStay

LEMMA LockKept ==
    ASSUME Ready, TypeOK', NEW c \in Controllers, Did(c)
    PROVE  Holder' /\ OffBlank' /\ InOrder'
<1>1. CASE Coarse(c)
    <2>1. \A b \in Controllers : b # c => pc[b] \notin Busy /\ pc'[b] \notin Busy
                                   /\ pc'[b] = pc[b] /\ ctl'[b] = ctl[b]
        BY <1>1, OneBusy DEF Coarse, OthersStay
    <2>2. (pc[c] \in Busy <=> lock = c) /\ 0 \notin Controllers
        BY PlanFacts DEF Ready, Holder
    <2>3. Holder'
        BY <1>1, <2>1, <2>2, StepSets DEF Coarse, Holder
    <2>4. OffBlank'
        BY <1>1, <2>1, StepSets DEF Coarse, OffBlank, Ready
    <2>5. InOrder'
        <3> SUFFICES ASSUME NEW a \in Controllers, NEW b \in Controllers,
                            pc'[a] = "off", pc'[b] # "off"
                     PROVE  b < a
            BY DEF InOrder
        <3>1. a # c /\ pc[a] = "off"
            BY <1>1, <2>1, StepSets DEF Coarse
        <3>2. CASE pc[b] # "off"
            BY <3>1, <3>2 DEF Ready, InOrder
        <3>3. CASE pc[b] = "off"
            <4>1. b = c /\ ~(a < c)
                BY <1>1, <2>1, <3>1, <3>3 DEF Coarse
            <4> QED
                BY <3>1, <4>1, PlanFacts
        <3> QED
            BY <3>2, <3>3
    <2> QED
        BY <2>3, <2>4, <2>5
<1>2. CASE Refused(c) /\ \A b \in Controllers : b < c => pc[b] # "off"
    <2>1. Holder' /\ OffBlank'
        BY <1>2, StepSets DEF Refused, Holder, OffBlank, OthersStay, Ready
    <2>2. InOrder'
        <3> SUFFICES ASSUME NEW a \in Controllers, NEW b \in Controllers,
                            pc'[a] = "off", pc'[b] # "off"
                     PROVE  b < a
            BY DEF InOrder
        <3>1. a # c /\ pc[a] = "off"
            BY <1>2, StepSets DEF Refused, OthersStay
        <3>2. CASE pc[b] # "off"
            BY <3>1, <3>2 DEF Ready, InOrder
        <3>3. CASE pc[b] = "off"
            <4>1. b = c /\ ~(a < c)
                BY <1>2, <3>1, <3>3 DEF Refused, OthersStay
            <4> QED
                BY <3>1, <4>1, PlanFacts
        <3> QED
            BY <3>2, <3>3
    <2> QED
        BY <2>1, <2>2
<1> QED
    BY <1>1, <1>2, CoarseKind

\* Who is busy after the step: the controller itself, or one that stays.
LEMMA WhoIsBusy ==
    ASSUME Ready, NEW c \in Controllers, Did(c), NEW b \in Controllers, pc'[b] \in Busy
    PROVE  \/ b = c /\ Coarse(c)
           \/ /\ b # c /\ Refused(c) /\ UNCHANGED <<fileVars, hostVars>>
              /\ pc'[b] = pc[b] /\ ctl'[b] = ctl[b] /\ pc[b] \in Busy
<1>1. CASE Coarse(c)
    BY <1>1, OneBusy
<1>2. CASE Refused(c)
    BY <1>2, StepSets DEF Refused, OthersStay
<1> QED
    BY <1>1, <1>2, CoarseKind

-------------------------------------------------------------------------------
(* The task at hand.                                                       *)

LEMMA TaskKept ==
    ASSUME Ready, TypeOK', NEW c \in Controllers, Did(c)
    PROVE  TaskThere'
<1> SUFFICES ASSUME NEW b \in Controllers,
                    pc'[b] \in {"attempt"} \cup InAttempt \cup Outcome
             PROVE  ctl'[b].task <= Len(Plan)
    BY DEF TaskThere
<1>1. pc'[b] \in Busy
    BY StepSets
<1>2. CASE b # c
    BY <1>1, <1>2, WhoIsBusy DEF Ready, TaskThere
<1>3. CASE b = c
    <2>1. pc[c] \in {"attempt"} \cup InAttempt => ctl[c].task <= Len(Plan)
        BY DEF Ready, TaskThere
    <2> USE <1>3, <2>1, StepSets
    <2>2. ~DidStart(c) /\ ~DidEnd(c) /\ ~DidRecover(c) /\ ~DidShare(c) /\ ~DidWrite(c)
        BY DEF DidStart, DidEnd, DidRecover, DidShare, DidWrite
    <2>3. CASE DidBegin(c)
        BY <2>3 DEF DidBegin
    <2>4. CASE DidNumber(c)
        BY <2>4 DEF DidNumber
    <2>5. CASE Within(c)
        BY <2>5 DEF Within, SameTask
    <2>6. CASE DidJudge(c)
        BY <2>6, JudgeFacts DEF Judges
    <2> QED
        BY <2>2, <2>3, <2>4, <2>5, <2>6
            DEF Did, DidGoOn, DidVerify, DidLeave, DidStop
<1> QED
    BY <1>2, <1>3

\* What a step may do to the counts.
LEMMA CountKind ==
    ASSUME Ready, NEW c \in Controllers, Did(c)
    PROVE  \/ UNCHANGED count
           \/ DidNumber(c)
BY JudgeFacts DEF Did, DidStart, DidEnd, DidRecover, DidShare, DidBegin, DidWrite, Judges,
       DidGoOn, DidVerify, DidLeave, DidStop, Within, fileVars

LEMMA NumberFacts ==
    ASSUME Ready, NEW c \in Controllers, DidNumber(c)
    PROVE  /\ ctl[c].task \in 1 .. Len(Plan) /\ Current(c) = Plan[ctl[c].task]
           /\ Current(c) \in Tasks
           /\ count[Current(c)] \in Nat /\ count[Current(c)] < c
           /\ count'[Current(c)] = count[Current(c)] + 1
           /\ \A t \in Tasks : t # Current(c) => count'[t] = count[t]
           /\ \A i \in 1 .. Len(Plan) : i # ctl[c].task => Plan[i] \in Tasks /\ Plan[i] # Current(c)
<1>1. pc[c] = "attempt"
    BY DEF DidNumber
<1>2. /\ ctl[c].task \in 1 .. Len(Plan) /\ Current(c) = Plan[ctl[c].task]
      /\ Current(c) \in Tasks
    BY <1>1, AtTask
<1>3. count[Current(c)] < c
    BY <1>1, <1>2, StepSets DEF Ready, AttemptsBounded
<1>4. /\ count \in [Tasks -> 0 .. NumControllers]
      /\ count' = [count EXCEPT ![Current(c)] = count[Current(c)] + 1]
    BY DEF Ready, TypeOK, DidNumber
<1>5. count[Current(c)] \in Nat
    BY <1>2, <1>4, PlanFacts
<1> QED
    BY <1>2, <1>3, <1>4, <1>5, PlanFacts

LEMMA BoundKept ==
    ASSUME Ready, TypeOK', NEW c \in Controllers, Did(c)
    PROVE  AttemptsBounded'
<1>1. ASSUME NEW b \in Controllers, NEW t \in Tasks, pc'[b] = "off"
      PROVE  count'[t] < b
    <2>1. pc[b] = "off" /\ b # c
        <3>1. CASE Coarse(c)
            BY <1>1, <3>1, StepSets DEF Coarse, OthersStay
        <3>2. CASE Refused(c)
            BY <1>1, <3>2, StepSets DEF Refused, OthersStay
        <3> QED
            BY <3>1, <3>2, CoarseKind
    <2>2. count[t] < b
        BY <2>1 DEF Ready, AttemptsBounded
    <2>3. CASE UNCHANGED count
        BY <2>2, <2>3
    <2>4. CASE DidNumber(c)
        <3>1. c < b
            BY <2>1, <2>4 DEF DidNumber, Ready, InOrder
        <3>2. CASE t = Current(c)
            BY <2>4, <3>1, <3>2, NumberFacts, PlanFacts
        <3>3. CASE t # Current(c)
            BY <2>2, <2>4, <3>3, NumberFacts
        <3> QED
            BY <3>2, <3>3
    <2> QED
        BY <2>3, <2>4, CountKind
<1>2. ASSUME NEW b \in Controllers, pc'[b] \in Busy, NEW i \in 1 .. Len(Plan)
      PROVE  /\ count'[Plan[i]] <= b
             /\ (i > ctl'[b].task \/ (i = ctl'[b].task /\ pc'[b] \notin InAttempt \cup Outcome))
                   => count'[Plan[i]] < b
    <2>1. CASE b # c
        BY <1>2, <2>1, WhoIsBusy DEF Ready, AttemptsBounded, fileVars
    <2>2. CASE b = c
        <3> USE <2>2, <1>2, StepSets
        <3>1. pc[c] \in Busy =>
                /\ count[Plan[i]] <= c
                /\ (i > ctl[c].task \/ (i = ctl[c].task /\ pc[c] \notin InAttempt \cup Outcome))
                      => count[Plan[i]] < c
            BY DEF Ready, AttemptsBounded
        <3>2. /\ ctl[c].task \in Nat /\ ctl'[c].task \in Nat /\ c \in Nat
              /\ count[Plan[i]] \in Nat /\ i \in Nat
            <4>1. TypeOK /\ Plan[i] \in Tasks
                BY PlanFacts DEF Ready
            <4>2. ctl[c] \in Ctl /\ ctl'[c] \in Ctl
                BY <4>1 DEF TypeOK
            <4>3. ctl[c].task \in 1 .. Len(Plan) + 1 /\ ctl'[c].task \in 1 .. Len(Plan) + 1
                BY <4>2 DEF Ctl
            <4> QED
                BY <4>1, <4>3, PlanFacts DEF TypeOK
        <3>3. CASE DidStart(c)
            <4>1. count[Plan[i]] < c
                BY <3>3, PlanFacts DEF DidStart, Ready, AttemptsBounded
            <4> QED
                BY <3>2, <3>3, <4>1 DEF DidStart, fileVars
        <3>4. CASE DidEnd(c)
            BY <3>4 DEF DidEnd
        <3>5. CASE DidRecover(c)
            BY <3>1, <3>5 DEF DidRecover, SameTask, fileVars
        <3>6. CASE DidShare(c)
            BY <3>1, <3>6 DEF DidShare, fileVars
        <3>7. CASE DidBegin(c)
            BY <3>1, <3>7 DEF DidBegin
        <3>8. CASE DidNumber(c)
            <4>1. CASE i = ctl[c].task
                <5>1. pc'[c] \in InAttempt /\ ctl'[c].task = ctl[c].task
                    BY <3>8 DEF DidNumber, InAttempt
                <5> QED
                    BY <3>2, <3>8, <4>1, <5>1, NumberFacts
            <4>2. CASE i # ctl[c].task
                <5>1. count'[Plan[i]] = count[Plan[i]]
                    BY <3>8, <4>2, NumberFacts
                <5>2. pc[c] = "attempt" /\ pc'[c] \in InAttempt /\ ctl'[c].task = ctl[c].task
                    BY <3>8 DEF DidNumber, InAttempt
                <5> QED
                    BY <3>1, <3>2, <5>1, <5>2
            <4> QED
                BY <4>1, <4>2
        <3>9. CASE Within(c)
            BY <3>1, <3>9 DEF Within, SameTask
        <3>10. CASE DidJudge(c)
            <4>1. /\ pc[c] \in Busy /\ pc'[c] \in Outcome /\ UNCHANGED count
                  /\ ctl'[c].task = ctl[c].task
                BY <3>10, JudgeFacts DEF Judges, fileVars
            <4> QED
                BY <3>1, <3>2, <4>1
        <3>11. CASE DidWrite(c)
            <4>1. pc[c] \in Busy /\ UNCHANGED count /\ ctl'[c].task = ctl[c].task + 1
                BY <3>11 DEF DidWrite
            <4> QED
                BY <3>1, <3>2, <4>1
        <3> QED
            BY <3>3, <3>4, <3>5, <3>6, <3>7, <3>8, <3>9, <3>10, <3>11
                DEF Did, DidGoOn, DidVerify, DidLeave, DidStop
    <2> QED
        BY <2>1, <2>2
<1> QED
    BY <1>1, <1>2 DEF AttemptsBounded

-------------------------------------------------------------------------------
(* The inductive invariant, and the files.                                 *)

IInv ==
    /\ Ready /\ MemOnDisk /\ AttemptsKnown /\ LaunchesKnown
    /\ HonestDone /\ CleanRun /\ NoStray /\ Quieted /\ Progress /\ Settled

\* The names of the task and the attempt at hand, after the step.
LEMMA SameNames ==
    ASSUME NEW c \in Controllers, ctl'[c].task = ctl[c].task
    PROVE  /\ Current(c)' = Current(c)
           /\ AttemptOf(c)' = ctl'[c].mem[Current(c)].attempt
BY DEF Current, AttemptOf

LEMMA WithinNames ==
    ASSUME NEW c \in Controllers, Within(c)
    PROVE  /\ Current(c)' = Current(c) /\ AttemptOf(c)' = AttemptOf(c)
           /\ \A r \in Roles : Slot(c, r)' = Slot(c, r)
BY DEF Within, SameTask, Current, AttemptOf, Slot

LEMMA MemKept ==
    ASSUME Ready, MemOnDisk, TypeOK', NEW c \in Controllers, Did(c)
    PROVE  MemOnDisk'
<1> SUFFICES ASSUME NEW b \in Controllers, pc'[b] \in Busy
             PROVE  IF pc'[b] = "attempt"
                    THEN /\ ctl'[b].old = ctl'[b].mem[Current(b)']
                         /\ disk' = [ctl'[b].mem EXCEPT ![Current(b)'].st = "running"]
                    ELSE IF pc'[b] \in Outcome
                    THEN \A t \in Tasks \ {Current(b)'} : disk'[t] = ctl'[b].mem[t]
                    ELSE disk' = ctl'[b].mem
    BY DEF MemOnDisk
<1>1. CASE b # c
    <2>1. /\ pc'[b] = pc[b] /\ ctl'[b] = ctl[b] /\ pc[b] \in Busy /\ disk' = disk
          /\ Current(b)' = Current(b)
        BY <1>1, WhoIsBusy DEF fileVars, Current
    <2> QED
        BY <2>1 DEF MemOnDisk
<1>2. CASE b = c
    <2> USE <1>2, StepSets
    <2>0. TypeOK /\ ctl[c].mem \in [Tasks -> Entry]
        BY CtlType DEF Ready
    <2>1. pc[c] \in Busy /\ pc[c] # "attempt" /\ pc[c] \notin Outcome => disk = ctl[c].mem
        BY DEF MemOnDisk
    <2>2. CASE DidStart(c)
        BY <2>2 DEF DidStart, fileVars
    <2>3. CASE DidEnd(c)
        BY <2>3 DEF DidEnd
    <2>4. CASE DidRecover(c)
        BY <2>1, <2>4 DEF DidRecover, SameTask, fileVars
    <2>5. CASE DidShare(c)
        BY <2>1, <2>5 DEF DidShare, fileVars
    <2>6. CASE DidBegin(c)
        BY <2>6, SameNames DEF DidBegin
    <2>7. CASE DidNumber(c)
        BY <2>7 DEF DidNumber
    <2>8. CASE Within(c)
        BY <2>1, <2>8 DEF Within, SameTask
    <2>9. CASE DidJudge(c)
        <3>1. /\ Judges(c) /\ pc'[c] \in Outcome /\ disk' = disk /\ Current(c) \in Tasks
              /\ ctl'[c].task = ctl[c].task
            BY <2>9, JudgeFacts DEF Judges, fileVars
        <3>2. Current(c)' = Current(c)
            BY <3>1, SameNames
        <3>3. PICK e : ctl'[c].mem = [ctl[c].mem EXCEPT ![Current(c)] = e]
            BY <2>9 DEF DidJudge, DidComplete, DidFail
        <3>4. \A t \in Tasks \ {Current(c)} : ctl'[c].mem[t] = ctl[c].mem[t]
            BY <2>0, <3>3
        <3>5. \A t \in Tasks \ {Current(c)} : disk[t] = ctl[c].mem[t]
            <4>1. CASE pc[c] = "attempt"
                <5>1. disk = [ctl[c].mem EXCEPT ![Current(c)].st = "running"]
                    BY <4>1 DEF MemOnDisk
                <5> QED
                    BY <2>0, <5>1
            <4>2. CASE pc[c] \in Outcome
                BY <4>2 DEF MemOnDisk
            <4>3. CASE pc[c] # "attempt" /\ pc[c] \notin Outcome
                BY <2>1, <3>1, <4>3 DEF Judges
            <4> QED
                BY <4>1, <4>2, <4>3
        <3> QED
            BY <3>1, <3>2, <3>4, <3>5
    <2>10. CASE DidWrite(c)
        BY <2>10 DEF DidWrite
    <2> QED
        BY <2>2, <2>3, <2>4, <2>5, <2>6, <2>7, <2>8, <2>9, <2>10
            DEF Did, DidGoOn, DidVerify, DidLeave, DidStop
<1> QED
    BY <1>1, <1>2

\* Only the entry of the task at hand changes on disk.
LEMMA DiskPoint ==
    ASSUME IInv, NEW c \in Controllers, Did(c)
    PROVE  \/ UNCHANGED disk
           \/ /\ pc[c] \in Busy /\ ctl[c].task <= Len(Plan) /\ Current(c) \in Tasks
              /\ \A t \in Tasks \ {Current(c)} : disk'[t] = disk[t]
              /\ \/ /\ disk'[Current(c)].attempt = disk[Current(c)].attempt
                    /\ disk'[Current(c)].files = disk[Current(c)].files
                    /\ disk'[Current(c)].st = "running" /\ DidBegin(c)
                 \/ /\ DidNumber(c) /\ disk'[Current(c)].st = "running"
                    /\ disk'[Current(c)].attempt = count[Current(c)] + 1
                    /\ disk'[Current(c)].files = disk[Current(c)].files
                 \/ /\ DidWrite(c) /\ pc[c] \in Outcome
                    /\ disk'[Current(c)] = ctl[c].mem[Current(c)]
<1>0. /\ TypeOK /\ ctl[c].mem \in [Tasks -> Entry] /\ ctl[c].old \in Entry
    BY CtlType DEF IInv, Ready
<1>1. CASE DidBegin(c)
    <2>1. /\ pc[c] = "begin" /\ ctl[c].task <= Len(Plan)
          /\ disk' = [ctl[c].mem EXCEPT ![Current(c)].st = "running"]
        BY <1>1 DEF DidBegin
    <2>2. Current(c) \in Tasks /\ pc[c] \in Busy
        BY <1>0, <2>1, CtlType, PlanFacts, StepSets DEF Current
    <2>3. disk = ctl[c].mem
        BY <2>1, <2>2, StepSets DEF IInv, MemOnDisk
    <2>4. ctl[c].mem[Current(c)] \in Entry
        BY <1>0, <2>2
    <2>5. disk'[Current(c)] = [ctl[c].mem[Current(c)] EXCEPT !.st = "running"]
          /\ \A t \in Tasks \ {Current(c)} : disk'[t] = ctl[c].mem[t]
        BY <1>0, <2>1, <2>2
    <2>6. /\ disk'[Current(c)].attempt = disk[Current(c)].attempt
          /\ disk'[Current(c)].files = disk[Current(c)].files
          /\ disk'[Current(c)].st = "running"
        BY <2>3, <2>4, <2>5 DEF Entry
    <2> QED
        BY <1>1, <2>1, <2>2, <2>3, <2>5, <2>6
<1>2. CASE DidNumber(c)
    <2>1. pc[c] = "attempt" /\ pc[c] \in Busy /\ ctl[c].task <= Len(Plan) /\ Current(c) \in Tasks
        BY <1>2, StepSets, AtTask DEF DidNumber, IInv
    <2>2. /\ disk = [ctl[c].mem EXCEPT ![Current(c)].st = "running"]
          /\ ctl[c].old = ctl[c].mem[Current(c)]
        BY <2>1 DEF IInv, MemOnDisk
    <2>3. disk' = [ctl[c].mem EXCEPT ![Current(c)] =
              [ctl[c].old EXCEPT !.st = "running", !.attempt = count[Current(c)] + 1]]
        BY <1>2 DEF DidNumber
    <2>4. /\ disk'[Current(c)] =
                [ctl[c].old EXCEPT !.st = "running", !.attempt = count[Current(c)] + 1]
          /\ disk[Current(c)] = [ctl[c].old EXCEPT !.st = "running"]
          /\ \A t \in Tasks \ {Current(c)} : disk'[t] = disk[t]
        BY <1>0, <2>1, <2>2, <2>3
    <2>5. /\ disk'[Current(c)].st = "running"
          /\ disk'[Current(c)].attempt = count[Current(c)] + 1
          /\ disk'[Current(c)].files = disk[Current(c)].files
        BY <1>0, <2>4 DEF Entry
    <2> QED
        BY <1>2, <2>1, <2>4, <2>5
<1>3. CASE DidWrite(c)
    <2>1. pc[c] \in Outcome /\ pc[c] \in Busy /\ disk' = ctl[c].mem
        BY <1>3, StepSets DEF DidWrite
    <2>2. Current(c) \in Tasks /\ ctl[c].task <= Len(Plan)
        BY <2>1, AtTask DEF IInv
    <2>3. \A t \in Tasks \ {Current(c)} : disk[t] = ctl[c].mem[t]
        BY <2>1, StepSets DEF IInv, MemOnDisk
    <2> QED
        BY <1>3, <2>1, <2>2, <2>3
<1>4. \/ UNCHANGED disk
      \/ DidBegin(c) \/ DidNumber(c) \/ DidWrite(c)
    BY JudgeFacts DEF Did, DidStart, DidEnd, DidRecover, DidShare, DidGoOn, DidVerify,
           DidLeave, DidStop, Judges, Within, fileVars
<1> QED
    BY <1>1, <1>2, <1>3, <1>4

LEMMA CountsGrow ==
    ASSUME Ready, NEW c \in Controllers, Did(c)
    PROVE  \A t \in Tasks : count[t] \in Nat /\ count'[t] \in Nat /\ count[t] <= count'[t]
<1>1. \A t \in Tasks : count[t] \in Nat
    BY PlanFacts DEF Ready, TypeOK
<1>2. CASE UNCHANGED count
    BY <1>1, <1>2
<1>3. CASE DidNumber(c)
    <2> SUFFICES ASSUME NEW t \in Tasks
                 PROVE  count[t] \in Nat /\ count'[t] \in Nat /\ count[t] <= count'[t]
        OBVIOUS
    <2>1. CASE t = Current(c)
        BY <1>1, <1>3, <2>1, NumberFacts
    <2>2. CASE t # Current(c)
        BY <1>1, <1>3, <2>2, NumberFacts
    <2> QED
        BY <2>1, <2>2
<1> QED
    BY <1>2, <1>3, CountKind

LEMMA EntryFacts ==
    ASSUME NEW e \in Entry
    PROVE  e.attempt \in Nat /\ e.files \in Nat
BY PlanFacts, SMTT(40) DEF Entry, Attempts

LEMMA DidKeepsDamaged ==
    ASSUME NEW c \in Controllers, Did(c)
    PROVE  damaged' = damaged
BY JudgeFacts DEF Did, DidStart, DidEnd, DidRecover, DidShare, DidBegin, DidNumber, DidWrite,
       Judges, DidGoOn, DidVerify, DidLeave, DidStop, Within, fileVars

\* What a controller knows of its tasks, it has from the disk or has made.
LEMMA MemKnown ==
    ASSUME IInv, NEW c \in Controllers, pc[c] \in Busy, Current(c) \in Tasks
    PROVE  /\ ctl[c].mem[Current(c)].attempt <= count[Current(c)]
           /\ ctl[c].mem[Current(c)].files <= count[Current(c)]
<1>0. /\ Ready /\ TypeOK /\ ctl[c].mem \in [Tasks -> Entry]
      /\ ctl[c].mem[Current(c)] \in Entry
    BY CtlType DEF IInv, Ready
<1>1. /\ disk[Current(c)].attempt <= count[Current(c)]
      /\ disk[Current(c)].files <= count[Current(c)]
    BY DEF IInv, AttemptsKnown
<1>2. CASE pc[c] = "attempt"
    <2>1. disk[Current(c)] = [ctl[c].mem[Current(c)] EXCEPT !.st = "running"]
        BY <1>0, <1>2 DEF IInv, MemOnDisk
    <2>2. /\ disk[Current(c)].attempt = ctl[c].mem[Current(c)].attempt
          /\ disk[Current(c)].files = ctl[c].mem[Current(c)].files
        BY <1>0, <2>1 DEF Entry
    <2> QED
        BY <1>1, <2>2
<1>3. CASE pc[c] \in Outcome
    BY <1>3 DEF IInv, AttemptsKnown
<1>4. CASE pc[c] # "attempt" /\ pc[c] \notin Outcome
    BY <1>1, <1>4 DEF IInv, MemOnDisk
<1> QED
    BY <1>2, <1>3, <1>4

LEMMA KnownKept ==
    ASSUME IInv, TypeOK', NEW c \in Controllers, Did(c)
    PROVE  AttemptsKnown'
<1>0. Ready /\ TypeOK
    BY DEF IInv, Ready
<1>1. ASSUME NEW t \in Tasks
      PROVE  disk'[t].attempt <= count'[t] /\ disk'[t].files <= count'[t]
    <2>1. /\ count[t] \in Nat /\ count'[t] \in Nat /\ count[t] <= count'[t]
          /\ disk[t].attempt \in Nat /\ disk[t].files \in Nat
          /\ disk[t].attempt <= count[t] /\ disk[t].files <= count[t]
        BY <1>0, CountsGrow, EntryFacts DEF IInv, AttemptsKnown, TypeOK
    <2>2. CASE disk'[t] = disk[t]
        BY <2>1, <2>2
    <2>3. CASE t = Current(c) /\ DidNumber(c) /\ disk'[t].attempt = count[t] + 1
                  /\ disk'[t].files = disk[t].files
        BY <1>0, <2>1, <2>3, NumberFacts
    <2>4. CASE disk'[t].attempt = disk[t].attempt /\ disk'[t].files = disk[t].files
        BY <2>1, <2>4
    <2>5. CASE t = Current(c) /\ DidWrite(c) /\ pc[c] \in Outcome
               /\ disk'[t] = ctl[c].mem[t]
        <3>1. ctl[c].mem[t].attempt <= count[t] /\ ctl[c].mem[t].files <= count[t]
            BY <2>5 DEF IInv, AttemptsKnown
        <3> QED
            BY <2>5, <3>1 DEF DidWrite
    <2> QED
        BY <2>2, <2>3, <2>4, <2>5, DiskPoint
<1>2. ASSUME NEW d \in damaged'
      PROVE  d[2] <= count'[d[1]]
    <2>1. d \in damaged /\ d \in Tasks \X Attempts
        BY <1>0, <1>2, DidKeepsDamaged DEF TypeOK
    <2>2. d[1] \in Tasks /\ d[2] \in Nat /\ d[2] <= count[d[1]]
        BY <2>1 DEF IInv, AttemptsKnown, Attempts
    <2> QED
        BY <1>0, <2>2, CountsGrow
<1>3. ASSUME NEW b \in Controllers, pc'[b] \in Outcome
      PROVE  /\ ctl'[b].mem[Current(b)'].attempt <= count'[Current(b)']
             /\ ctl'[b].mem[Current(b)'].files <= count'[Current(b)']
    <2>1. pc'[b] \in Busy
        BY <1>3, StepSets
    <2>2. CASE b # c
        <3>1. /\ pc[b] \in Outcome /\ ctl'[b] = ctl[b] /\ count' = count
              /\ Current(b)' = Current(b)
            BY <1>0, <1>3, <2>1, <2>2, WhoIsBusy DEF fileVars, Current
        <3> QED
            BY <3>1 DEF IInv, AttemptsKnown
    <2>3. CASE b = c
        <3>1. DidJudge(c)
            BY <1>3, <2>3, StepSets
                DEF Did, DidStart, DidEnd, DidRecover, DidShare, DidBegin, DidNumber,
                    DidWrite, DidGoOn, DidVerify, DidLeave, DidStop, Within
        <3>2. /\ Judges(c) /\ pc[c] \in Busy /\ Current(c) \in Tasks /\ count' = count
              /\ Current(c)' = Current(c)
            BY <3>1, JudgeFacts, StepSets, SameNames DEF Judges, fileVars
        <3>3. ctl[c].mem \in [Tasks -> Entry] /\ ctl[c].mem[Current(c)] \in Entry
            BY <1>0, <3>2, CtlType
        <3>4. /\ ctl[c].mem[Current(c)].attempt <= count[Current(c)]
              /\ ctl[c].mem[Current(c)].files <= count[Current(c)]
            BY <3>2, MemKnown
        <3>5. ASSUME NEW goesOn \in BOOLEAN, DidFail(c, goesOn)
              PROVE  /\ ctl'[c].mem[Current(c)].attempt = ctl[c].mem[Current(c)].attempt
                     /\ ctl'[c].mem[Current(c)].files = ctl[c].mem[Current(c)].files
            <4>1. ctl'[c].mem[Current(c)] = [ctl[c].mem[Current(c)] EXCEPT !.st = "failed"]
                BY <3>2, <3>3, <3>5 DEF DidFail
            <4> QED
                BY <3>3, <4>1 DEF Entry
        <3>6. ASSUME NEW e \in Entry, DidComplete(c, e)
              PROVE  /\ ctl'[c].mem[Current(c)].attempt <= count[Current(c)]
                     /\ ctl'[c].mem[Current(c)].files <= count[Current(c)]
            <4>1. pc[c] \in InAttempt /\ ctl'[c].mem[Current(c)] = e
                BY <3>2, <3>3, <3>6 DEF DidComplete, InAttempt
            <4>2. /\ AttemptOf(c) = count[Current(c)]
                  /\ ctl[c].old.attempt < count[Current(c)]
                  /\ ctl[c].old.files < count[Current(c)]
                BY <1>0, <4>1 DEF Ready, AttemptCurrent
            <4>4. count[Current(c)] \in Nat
                BY <1>0, <3>2, CountsGrow
            <4>3. ctl[c].old.attempt \in Nat /\ ctl[c].old.files \in Nat
                BY <1>0, CtlType, EntryFacts
            <4> QED
                BY <3>6, <4>1, <4>2, <4>3, <4>4 DEF DidComplete
        <3> QED
            BY <2>3, <3>1, <3>2, <3>4, <3>5, <3>6 DEF DidJudge
    <2> QED
        BY <2>2, <2>3
<1> QED
    BY <1>1, <1>2, <1>3 DEF AttemptsKnown

LEMMA CurrentKept ==
    ASSUME IInv, TypeOK', NEW c \in Controllers, Did(c)
    PROVE  AttemptCurrent'
<1> DEFINE P(b) ==
        /\ AttemptOf(b)' = count'[Current(b)'] /\ count'[Current(b)'] # 0
        /\ ctl'[b].mem[Current(b)'].st = "running"
        /\ ctl'[b].mem[Current(b)'].files = ctl'[b].old.files
        /\ ctl'[b].old.attempt < count'[Current(b)']
        /\ ctl'[b].old.files < count'[Current(b)']
        /\ <<Current(b)', count'[Current(b)']>> \notin damaged'
<1> SUFFICES ASSUME NEW b \in Controllers, pc'[b] \in InAttempt
             PROVE  P(b)
    BY DEF AttemptCurrent
<1>0. Ready /\ TypeOK /\ damaged' = damaged
    BY DidKeepsDamaged DEF IInv, Ready
<1>1. CASE b # c
    <2>1. /\ pc'[b] = pc[b] /\ ctl'[b] = ctl[b] /\ count' = count
          /\ Current(b)' = Current(b) /\ AttemptOf(b)' = AttemptOf(b)
        BY <1>0, <1>1, WhoIsBusy, StepSets DEF fileVars, Current, AttemptOf
    <2> QED
        BY <1>0, <2>1 DEF Ready, AttemptCurrent
<1>2. CASE b = c
    <2> USE <1>2, StepSets
    <2>1. CASE DidNumber(c)
        <3>1. /\ pc[c] = "attempt" /\ ctl'[c].task = ctl[c].task /\ ctl'[c].old = ctl[c].old
              /\ ctl'[c].mem = [ctl[c].mem EXCEPT ![Current(c)] =
                  [ctl[c].old EXCEPT !.st = "running", !.attempt = count[Current(c)] + 1]]
            BY <2>1 DEF DidNumber
        <3>2. /\ Current(c) \in Tasks /\ count[Current(c)] \in Nat
              /\ count'[Current(c)] = count[Current(c)] + 1
            BY <1>0, <2>1, NumberFacts
        <3>3. ctl[c].mem \in [Tasks -> Entry] /\ ctl[c].old \in Entry
            BY <1>0, CtlType
        <3>4. ctl'[c].mem[Current(c)] =
                 [ctl[c].old EXCEPT !.st = "running", !.attempt = count[Current(c)] + 1]
            BY <3>1, <3>2, <3>3
        <3>5. /\ ctl'[c].mem[Current(c)].st = "running"
              /\ ctl'[c].mem[Current(c)].attempt = count[Current(c)] + 1
              /\ ctl'[c].mem[Current(c)].files = ctl[c].old.files
            BY <3>3, <3>4 DEF Entry
        <3>6. /\ disk[Current(c)].attempt <= count[Current(c)]
              /\ disk[Current(c)].files <= count[Current(c)]
            BY <3>2 DEF IInv, AttemptsKnown
        <3>7. ctl[c].old.attempt = disk[Current(c)].attempt
              /\ ctl[c].old.files = disk[Current(c)].files
            <4>1. /\ disk = [ctl[c].mem EXCEPT ![Current(c)].st = "running"]
                  /\ ctl[c].old = ctl[c].mem[Current(c)]
                BY <3>1 DEF IInv, MemOnDisk
            <4>2. disk[Current(c)] = [ctl[c].old EXCEPT !.st = "running"]
                BY <3>2, <3>3, <4>1
            <4> QED
                BY <3>3, <4>2 DEF Entry
        <3>8. ctl[c].old.attempt \in Nat /\ ctl[c].old.files \in Nat
            BY <3>3, EntryFacts
        <3>9. <<Current(c), count[Current(c)] + 1>> \notin damaged
            <4> SUFFICES ASSUME <<Current(c), count[Current(c)] + 1>> \in damaged PROVE FALSE
                OBVIOUS
            <4>1. count[Current(c)] + 1 <= count[Current(c)]
                BY DEF IInv, AttemptsKnown
            <4> QED
                BY <3>2, <4>1
        <3>10. /\ Current(c)' = Current(c)
               /\ AttemptOf(c)' = count[Current(c)] + 1
            BY <3>1, <3>5, SameNames
        <3> QED
            BY <1>0, <3>1, <3>2, <3>5, <3>6, <3>7, <3>8, <3>9, <3>10
    <2>2. CASE Within(c)
        <3>1. /\ pc[c] \in InAttempt /\ count' = count /\ ctl'[c].mem = ctl[c].mem
              /\ ctl'[c].old = ctl[c].old
            BY <2>2 DEF Within, SameTask
        <3> QED
            BY <1>0, <2>2, <3>1, WithinNames DEF Ready, AttemptCurrent
    <2>3. ~DidStart(c) /\ ~DidEnd(c) /\ ~DidRecover(c) /\ ~DidShare(c) /\ ~DidBegin(c)
        BY DEF DidStart, DidEnd, DidRecover, DidShare, DidBegin
    <2>4. ~DidJudge(c)
        BY JudgeFacts DEF Judges
    <2>5. ~DidWrite(c)
        BY DEF DidWrite
    <2> HIDE DEF P
    <2> QED
        BY <2>1, <2>2, <2>3, <2>4, <2>5
            DEF Did, DidGoOn, DidVerify, DidLeave, DidStop
<1> QED
    BY <1>1, <1>2

\* What a step may do to the journal and to the processes.
LEMMA JournalChange ==
    ASSUME NEW c \in Controllers, Did(c)
    PROVE  \/ UNCHANGED journal
           \/ /\ Within(c) /\ pc[c] = "journal" /\ pc'[c] = "send" /\ UNCHANGED proc
              /\ ctl'[c].role = ctl[c].role
              /\ journal' = journal \cup {Slot(c, ctl[c].role)}
BY JudgeFacts, SMTT(40) DEF Did, DidStart, DidEnd, DidRecover, DidShare, DidBegin, DidNumber, DidWrite,
       Judges, DidGoOn, DidVerify, DidLeave, DidStop, Within, fileVars

LEMMA ProcChange ==
    ASSUME NEW c \in Controllers, Did(c)
    PROVE  \/ OnlyStops
           \/ /\ Within(c) /\ pc[c] = "send" /\ pc'[c] = "answer" /\ UNCHANGED journal
              /\ ctl'[c].role = ctl[c].role
              /\ proc' = [proc EXCEPT ![Slot(c, ctl[c].role)] = "inflight"]
<1>1. UNCHANGED proc => OnlyStops
    BY DEF OnlyStops
<1> QED
    BY <1>1, JudgeFacts DEF Did, DidStart, DidEnd, DidRecover, DidShare, DidBegin, DidNumber, DidWrite,
       Judges, DidGoOn, DidVerify, DidLeave, DidStop, hostVars

LEMMA LaunchesKept ==
    ASSUME IInv, TypeOK', NEW c \in Controllers, Did(c)
    PROVE  LaunchesKnown'
<1>0. Ready /\ TypeOK
    BY DEF IInv, Ready
<1>1. ASSUME NEW s \in Slots, s[2] > count'[s[1]]
      PROVE  s \notin journal'
    <2>1. s[1] \in Tasks /\ s[2] \in Nat /\ s = <<s[1], s[2], s[3]>>
        BY DEF Slots, Attempts
    <2>2. count[s[1]] \in Nat /\ count'[s[1]] \in Nat /\ count[s[1]] <= count'[s[1]]
        BY <1>0, <2>1, CountsGrow
    <2>3. s \notin journal
        BY <1>1, <2>1, <2>2 DEF IInv, LaunchesKnown
    <2>4. ASSUME Within(c), s = Slot(c, ctl[c].role) PROVE FALSE
        <3>1. pc[c] \in InAttempt /\ count' = count
            BY <2>4 DEF Within
        <3>2. s[1] = Current(c) /\ s[2] = AttemptOf(c)
            BY <2>4 DEF Slot
        <3>3. s[2] = count[s[1]]
            BY <1>0, <3>1, <3>2 DEF Ready, AttemptCurrent
        <3> QED
            BY <1>1, <2>1, <2>2, <3>1, <3>3
    <2> QED
        BY <2>3, <2>4, JournalChange
<1>2. journal \subseteq journal'
    BY JournalChange
<1>3. ASSUME NEW b \in Controllers, pc'[b] = "send"
      PROVE  Slot(b, ctl[b].role)' \in journal'
    <2>1. pc'[b] \in Busy
        BY <1>3 DEF Busy, Steps, Traffic
    <2>2. CASE b # c
        <3>1. pc[b] = "send" /\ ctl'[b] = ctl[b]
            BY <1>0, <1>3, <2>1, <2>2, WhoIsBusy
        <3>2. Slot(b, ctl[b].role)' = Slot(b, ctl[b].role)
            BY <3>1 DEF Slot, Current, AttemptOf
        <3> QED
            BY <1>2, <3>1, <3>2 DEF IInv, LaunchesKnown
    <2>3. CASE b = c
        <3>1. /\ Within(c) /\ ctl'[c].role = ctl[c].role
              /\ journal' = journal \cup {Slot(c, ctl[c].role)}
            BY <1>3, <2>3, StepSets, JudgeFacts
                DEF Did, DidStart, DidEnd, DidRecover, DidShare, DidBegin, DidNumber,
                    DidWrite, Judges, DidGoOn, DidVerify, DidLeave, DidStop, Ends
        <3>2. Slot(c, ctl[c].role)' = Slot(c, ctl[c].role)
            BY <3>1 DEF Within, SameTask, Slot, Current, AttemptOf
        <3> QED
            BY <2>3, <3>1, <3>2, SMTT(40)
    <2> QED
        BY <2>2, <2>3
<1>4. ASSUME NEW s \in Slots, proc'[s] # "none"
      PROVE  s \in journal'
    <2>1. CASE OnlyStops
        <3>1. proc[s] # "none"
            BY <1>4, <2>1 DEF OnlyStops
        <3> QED
            BY <1>2, <3>1 DEF IInv, LaunchesKnown
    <2>2. CASE /\ pc[c] = "send"
               /\ proc' = [proc EXCEPT ![Slot(c, ctl[c].role)] = "inflight"]
        <3>1. Slot(c, ctl[c].role) \in journal
            BY <2>2 DEF IInv, LaunchesKnown
        <3>2. s # Slot(c, ctl[c].role) => proc'[s] = proc[s]
            BY <1>0, <2>2 DEF TypeOK
        <3>3. proc[s] # "none" => s \in journal
            BY DEF IInv, LaunchesKnown
        <3> QED
            BY <1>2, <1>4, <3>1, <3>2, <3>3
    <2> QED
        BY <2>1, <2>2, ProcChange
<1> QED
    BY <1>1, <1>3, <1>4 DEF LaunchesKnown

-------------------------------------------------------------------------------
(* The processes of the attempts.                                          *)

\* A process that has ended stays so, unless it is the one about to be sent.
LEMMA OverStays ==
    ASSUME TypeOK, NEW c \in Controllers, Did(c), NEW s \in Slots,
           proc[s] \in {"killed", "broke", "exited"},
           pc[c] = "send" => <<s[1], s[2]>> # <<Current(c), AttemptOf(c)>>
    PROVE  proc'[s] = proc[s]
<1>1. CASE OnlyStops
    BY <1>1 DEF OnlyStops
<1>2. CASE pc[c] = "send" /\ proc' = [proc EXCEPT ![Slot(c, ctl[c].role)] = "inflight"]
    <2>1. s # Slot(c, ctl[c].role)
        BY <1>2 DEF Slot
    <2> QED
        BY <1>2, <2>1 DEF TypeOK
<1> QED
    BY <1>1, <1>2, ProcChange

LEMMA EndedFacts ==
    ASSUME NEW t \in Tasks, NEW e \in Entry, Ended(t, e)
    PROVE  /\ e.files = e.attempt /\ e.attempt # 0 /\ e.attempt \in Attempts
           /\ \A r \in Roles : /\ <<t, e.attempt, r>> \in Slots
                               /\ proc[<<t, e.attempt, r>>] \in Over(t)
                               /\ proc[<<t, e.attempt, r>>] \in {"killed", "broke", "exited"}
<1>1. e.attempt \in Attempts
    BY DEF Ended, Entry
<1> QED
    BY <1>1 DEF Ended, Over, Slots

\* An attempt that ran to its end stays so.
LEMMA EndedStays ==
    ASSUME TypeOK, NEW c \in Controllers, Did(c), NEW t \in Tasks, NEW e \in Entry, Ended(t, e),
           pc[c] = "send" => <<t, e.attempt>> # <<Current(c), AttemptOf(c)>>
    PROVE  /\ e.files = e.attempt /\ e.attempt # 0
           /\ \A r \in Roles : proc'[<<t, e.attempt, r>>] \in Over(t)
<1> SUFFICES ASSUME NEW r \in Roles
             PROVE  proc'[<<t, e.attempt, r>>] \in Over(t)
    BY EndedFacts
<1> DEFINE s == <<t, e.attempt, r>>
<1>1. s \in Slots /\ proc[s] \in Over(t) /\ proc[s] \in {"killed", "broke", "exited"}
    BY EndedFacts
<1>2. s[1] = t /\ s[2] = e.attempt
    OBVIOUS
<1> HIDE DEF s
<1>3. proc'[s] = proc[s]
    BY <1>1, <1>2, OverStays
<1> QED
    BY <1>1, <1>3 DEF s

LEMMA HonestKept ==
    ASSUME IInv, TypeOK', NEW c \in Controllers, Did(c)
    PROVE  HonestDone'
<1>0. Ready /\ TypeOK
    BY DEF IInv, Ready
<1>1. \A t \in Tasks, e \in Entry :
         Ended(t, e) /\ (pc[c] = "send" => <<t, e.attempt>> # <<Current(c), AttemptOf(c)>>)
            => /\ e.files = e.attempt /\ e.attempt # 0
               /\ \A r \in Roles : proc'[<<t, e.attempt, r>>] \in Over(t)
    BY <1>0, EndedStays
<1>2. \A t \in Tasks : disk[t].st = "completed" => Ended(t, disk[t])
    BY DEF IInv, HonestDone
<1>3. pc[c] \in {"attempt"} \cup InAttempt /\ ctl[c].old.st = "completed"
         => Ended(Current(c), ctl[c].old)
    BY DEF IInv, HonestDone
<1>4. ctl[c].old \in Entry /\ \A t \in Tasks : disk[t] \in Entry
    BY <1>0, CtlType DEF TypeOK
<1>5. pc[c] = "send" => disk[Current(c)].st = "running"
    <2> SUFFICES ASSUME pc[c] = "send" PROVE disk[Current(c)].st = "running"
        OBVIOUS
    <2>1. pc[c] \in InAttempt /\ pc[c] \in Busy
        BY StepSets DEF Traffic
    <2>2. ctl[c].mem[Current(c)].st = "running"
        BY <1>0, <2>1 DEF Ready, AttemptCurrent
    <2> QED
        BY <2>1, <2>2, StepSets DEF IInv, MemOnDisk
<1>6. ASSUME NEW t \in Tasks, disk'[t].st = "completed"
      PROVE  Ended(t, disk[t])'
    <2>1. CASE disk'[t] = disk[t]
        <3>1. Ended(t, disk[t]) /\ (pc[c] = "send" => t # Current(c))
            BY <1>2, <1>5, <1>6, <2>1
        <3> QED
            BY <1>1, <1>4, <2>1, <3>1 DEF Ended
    <2>2. CASE t = Current(c) /\ DidWrite(c) /\ pc[c] \in Outcome
               /\ disk'[t] = ctl[c].mem[t]
        <3>1. proc' = proc
            BY <2>2 DEF DidWrite, hostVars
        <3>2. Ended(t, ctl[c].mem[t])
            BY <1>6, <2>2 DEF IInv, HonestDone
        <3> QED
            BY <2>2, <3>1, <3>2 DEF Ended
    <2> QED
        BY <1>6, <2>1, <2>2, DiskPoint
<1>7. ASSUME NEW b \in Controllers, pc'[b] \in {"attempt"} \cup InAttempt,
             ctl'[b].old.st = "completed"
      PROVE  Ended(Current(b), ctl[b].old)'
    <2>1. pc'[b] \in Busy
        BY <1>7, StepSets
    <2>2. CASE b # c
        <3>1. /\ pc'[b] = pc[b] /\ ctl'[b] = ctl[b] /\ proc' = proc
              /\ Current(b)' = Current(b)
            BY <1>0, <2>1, <2>2, WhoIsBusy DEF hostVars, Current
        <3>2. Ended(Current(b), ctl[b].old)
            BY <1>7, <3>1 DEF IInv, HonestDone
        <3> QED
            BY <3>1, <3>2 DEF Ended
    <2>3. CASE b = c
        <3> USE <2>3, StepSets
        <3>1. CASE DidBegin(c)
            <4>1. /\ pc[c] = "begin" /\ ctl'[c].old = ctl[c].mem[Current(c)] /\ proc' = proc
                  /\ ctl[c].task <= Len(Plan) /\ ctl'[c].task = ctl[c].task
                BY <3>1 DEF DidBegin, hostVars
            <4>2. disk = ctl[c].mem /\ Current(c) \in Tasks /\ Current(c)' = Current(c)
                <5>1. Current(c) \in Tasks
                    BY <1>0, <4>1, CtlType, PlanFacts DEF Current
                <5> QED
                    BY <4>1, <5>1, SameNames DEF IInv, MemOnDisk
            <4>3. Ended(Current(c), ctl'[c].old)
                BY <1>2, <1>7, <4>1, <4>2
            <4> QED
                BY <4>1, <4>2, <4>3 DEF Ended
        <3>2. CASE DidNumber(c)
            <4>1. /\ pc[c] = "attempt" /\ ctl'[c].old = ctl[c].old /\ proc' = proc
                  /\ Current(c)' = Current(c)
                BY <3>2, SameNames DEF DidNumber, hostVars
            <4>2. Ended(Current(c), ctl[c].old)
                BY <1>3, <1>7, <4>1
            <4> QED
                BY <4>1, <4>2 DEF Ended
        <3>3. CASE Within(c)
            <4>1. /\ pc[c] \in InAttempt /\ ctl'[c].old = ctl[c].old
                  /\ Current(c)' = Current(c)
                BY <3>3, WithinNames DEF Within, SameTask
            <4>2. Ended(Current(c), ctl[c].old)
                BY <1>3, <1>7, <4>1
            <4>3. ctl[c].old.attempt # AttemptOf(c) /\ Current(c) \in Tasks
                <5>1. /\ ctl[c].old.attempt < count[Current(c)]
                      /\ AttemptOf(c) = count[Current(c)] /\ Current(c) \in Tasks
                    BY <1>0, <4>1, AtAttempt DEF Ready, AttemptCurrent
                <5>2. ctl[c].old.attempt \in Nat /\ count[Current(c)] \in Nat
                    BY <1>0, <1>4, <5>1, EntryFacts, PlanFacts DEF TypeOK
                <5> QED
                    BY <5>1, <5>2
            <4> QED
                BY <1>1, <1>4, <4>1, <4>2, <4>3 DEF Ended
        <3>4. ~DidStart(c) /\ ~DidEnd(c) /\ ~DidRecover(c) /\ ~DidShare(c)
            BY <1>7 DEF DidStart, DidEnd, DidRecover, DidShare
        <3>5. ~DidJudge(c) /\ ~DidWrite(c)
            BY <1>7, JudgeFacts DEF Judges, DidWrite
        <3> QED
            BY <3>1, <3>2, <3>3, <3>4, <3>5
                DEF Did, DidGoOn, DidVerify, DidLeave, DidStop
    <2> QED
        BY <2>2, <2>3
<1>8. ASSUME NEW b \in Controllers, pc'[b] \in Outcome,
             ctl'[b].mem[Current(b)'].st = "completed"
      PROVE  Ended(Current(b), ctl[b].mem[Current(b)])'
    <2>1. pc'[b] \in Busy
        BY <1>8, StepSets
    <2>2. CASE b # c
        <3>1. /\ pc[b] \in Outcome /\ ctl'[b] = ctl[b] /\ proc' = proc
              /\ Current(b)' = Current(b)
            BY <1>0, <1>8, <2>1, <2>2, WhoIsBusy DEF hostVars, Current
        <3>2. Ended(Current(b), ctl[b].mem[Current(b)])
            BY <1>8, <3>1 DEF IInv, HonestDone
        <3> QED
            BY <3>1, <3>2 DEF Ended
    <2>3. CASE b = c
        <3>1. DidJudge(c)
            BY <1>8, <2>3, StepSets
                DEF Did, DidStart, DidEnd, DidRecover, DidShare, DidBegin, DidNumber,
                    DidWrite, DidGoOn, DidVerify, DidLeave, DidStop, Within
        <3>2. /\ Judges(c) /\ Current(c) \in Tasks /\ proc' = proc
              /\ Current(c)' = Current(c)
            BY <3>1, JudgeFacts, SameNames DEF Judges, hostVars
        <3>3. ctl[c].mem \in [Tasks -> Entry] /\ ctl[c].mem[Current(c)] \in Entry
            BY <1>0, <3>2, CtlType
        <3>4. ASSUME NEW goesOn \in BOOLEAN, DidFail(c, goesOn)
              PROVE  FALSE
            <4>1. ctl'[c].mem[Current(c)] = [ctl[c].mem[Current(c)] EXCEPT !.st = "failed"]
                BY <3>2, <3>3, <3>4 DEF DidFail
            <4>2. ctl'[c].mem[Current(c)].st = "failed"
                BY <3>3, <4>1 DEF Entry
            <4> QED
                BY <1>8, <2>3, <3>2, <4>2
        <3>5. PICK e \in Entry : DidComplete(c, e)
            BY <3>1, <3>4 DEF DidJudge
        <3>6. ctl'[c].mem[Current(c)] = e /\ e.st = "completed"
            BY <3>2, <3>3, <3>5 DEF DidComplete
        <3>7. Ended(Current(c), e)
            <4>1. CASE pc[c] = "prepare" /\ e = ctl[c].old
                BY <1>3, <3>6, <4>1 DEF InAttempt
            <4>2. CASE pc[c] = "validate" /\ e.attempt = AttemptOf(c) /\ e.files = AttemptOf(c)
                <5>1. pc[c] \in InAttempt
                    BY <4>2 DEF InAttempt
                <5>2. AttemptOf(c) # 0
                    BY <1>0, <5>1 DEF Ready, AttemptCurrent
                <5>3. \A r \in Roles : proc[Slot(c, r)] \in Over(Current(c))
                    BY <4>2 DEF IInv, CleanRun
                <5> QED
                    BY <4>2, <5>2, <5>3 DEF Ended, Slot
            <4> QED
                BY <3>5, <4>1, <4>2 DEF DidComplete
        <3> QED
            BY <2>3, <3>2, <3>6, <3>7 DEF Ended
    <2> QED
        BY <2>2, <2>3
<1> QED
    BY <1>6, <1>7, <1>8 DEF HonestDone

\* The steps that come into the cleanup, or go on in it.
LEMMA CleanupStep ==
    ASSUME NEW c \in Controllers, Did(c), pc'[c] \in Cleanup \cup {"validate"}
    PROVE  /\ Within(c) /\ ctl[c].errors \subseteq ctl'[c].errors
           /\ \/ \E es \in SUBSET Errors : DidLeave(c, es)
              \/ \E r \in Roles : DidStop(c, r)
              \/ DidVerify(c)
              \/ /\ pc[c] = "collect" /\ pc'[c] = "validate" /\ ctl[c].errors = {}
                 /\ ctl'[c].errors = {} /\ UNCHANGED <<proc, journal>>
<1>1. \A step \in {"off", "recover", "shared", "begin", "attempt", "prepare", "settle",
                   "raise"} \cup Ends \cup Traffic :
         step \notin Cleanup \cup {"validate"}
    BY DEF Ends, Cleanup, Traffic
<1>2. "ports" \in Traffic /\ "journal" \in Traffic /\ "send" \in Traffic /\ "answer" \in Traffic
      /\ "ready" \in Traffic /\ "wait" \in Traffic
    BY DEF Traffic
<1>3. ~DidStart(c) /\ ~DidEnd(c) /\ ~DidRecover(c) /\ ~DidShare(c) /\ ~DidBegin(c)
      /\ ~DidNumber(c)
    BY <1>1 DEF DidStart, DidEnd, DidRecover, DidShare, DidBegin, DidNumber
<1>4. ~DidJudge(c)
    BY <1>1, JudgeFacts DEF Judges, Outcome
<1>5. ~DidWrite(c)
    BY <1>1 DEF DidWrite, Ends
<1>6. CASE DidGoOn(c)
    BY <1>1, <1>2, <1>6 DEF DidGoOn
<1>7. ASSUME NEW es \in SUBSET Errors, DidLeave(c, es)
      PROVE  Within(c) /\ ctl[c].errors \subseteq ctl'[c].errors
    BY <1>7 DEF DidLeave
<1>8. ASSUME NEW r \in Roles, DidStop(c, r)
      PROVE  Within(c) /\ ctl[c].errors \subseteq ctl'[c].errors
    BY <1>8 DEF DidStop
<1>9. DidVerify(c) => Within(c) /\ ctl[c].errors \subseteq ctl'[c].errors
    BY DEF DidVerify
<1> QED
    BY <1>3, <1>4, <1>5, <1>6, <1>7, <1>8, <1>9 DEF Did

LEMMA CleanKept ==
    ASSUME IInv, TypeOK', NEW c \in Controllers, Did(c)
    PROVE  CleanRun'
<1> DEFINE P(b) ==
        /\ pc'[b] = "validate" => ctl'[b].errors = {}
        /\ ctl'[b].errors = {} => \A r \in Roles :
              \/ proc'[Slot(b, r)'] \in Over(Current(b)')
              \/ /\ pc'[b] = "stop" /\ r \in ctl'[b].todo /\ Current(b)' \in Bandwidth
                 /\ proc'[Slot(b, r)'] = "running"
<1> SUFFICES ASSUME NEW b \in Controllers, pc'[b] \in Cleanup \cup {"validate"}
             PROVE  P(b)
    BY DEF CleanRun, Over
<1>0. Ready /\ TypeOK
    BY DEF IInv, Ready
<1>a. pc'[b] \in Busy
    BY StepSets DEF InAttempt
<1>1. CASE b # c
    <2>1. /\ pc'[b] = pc[b] /\ ctl'[b] = ctl[b] /\ proc' = proc
        BY <1>0, <1>a, <1>1, WhoIsBusy DEF hostVars
    <2>2. Current(b)' = Current(b) /\ \A r \in Roles : Slot(b, r)' = Slot(b, r)
        BY <2>1 DEF Current, Slot, AttemptOf
    <2> QED
        BY <2>1, <2>2 DEF IInv, CleanRun
<1>2. CASE b = c
    <2> USE <1>2
    <2>1. Within(c)
        BY CleanupStep
    <2>2. Current(c)' = Current(c) /\ \A r \in Roles : Slot(c, r)' = Slot(c, r)
        BY <2>1, WithinNames
    <2>3. pc[c] \in Cleanup /\ ctl[c].errors = {} => \A r \in Roles :
              \/ proc[Slot(c, r)] \in Over(Current(c))
              \/ /\ pc[c] = "stop" /\ r \in ctl[c].todo /\ Current(c) \in Bandwidth
                 /\ proc[Slot(c, r)] = "running"
        BY DEF IInv, CleanRun
    <2>4. ASSUME NEW es \in SUBSET Errors, DidLeave(c, es)
          PROVE  P(c)
        <3>1. pc'[c] = "stop" /\ proc' = proc /\ ctl'[c].todo = Launched(c)
              /\ (ctl'[c].errors = {} => Finished(c))
            BY <2>4 DEF DidLeave
        <3>2. ASSUME NEW r \in Roles, Finished(c)
              PROVE  \/ proc[Slot(c, r)] \in Over(Current(c))
                     \/ /\ r \in Launched(c) /\ Current(c) \in Bandwidth
                        /\ proc[Slot(c, r)] = "running"
            <4>1. proc[Slot(c, r)] = IF Current(c) \in Bandwidth THEN "running" ELSE "exited"
                BY <3>2 DEF Finished
            <4>2. Slot(c, r) \in Slots
                BY <1>0, <2>1, AtAttempt DEF Within
            <4>3. proc[Slot(c, r)] = "running" => Slot(c, r) \in journal
                BY <4>2 DEF IInv, LaunchesKnown
            <4> QED
                BY <4>1, <4>3 DEF Launched, Over
        <3> QED
            BY <2>2, <3>1, <3>2
    <2>5. ASSUME NEW r \in Roles, DidStop(c, r)
          PROVE  P(c)
        <3>1. /\ pc[c] = "stop" /\ pc'[c] = "stop" /\ ctl[c].errors \subseteq ctl'[c].errors
              /\ ctl'[c].todo = ctl[c].todo \ {r} /\ OnlyStops
              /\ \A s \in Slots : proc'[s] # proc[s] => s = Slot(c, r)
              /\ "cleanup" \notin ctl'[c].errors => proc'[Slot(c, r)] # "running"
            BY <2>5 DEF DidStop
        <3>2. ASSUME NEW q \in Roles, ctl'[c].errors = {}
              PROVE  \/ proc'[Slot(c, q)] \in Over(Current(c))
                     \/ /\ q \in ctl'[c].todo /\ Current(c) \in Bandwidth
                        /\ proc'[Slot(c, q)] = "running"
            <4>1. \/ proc[Slot(c, q)] \in Over(Current(c))
                  \/ /\ q \in ctl[c].todo /\ Current(c) \in Bandwidth
                     /\ proc[Slot(c, q)] = "running"
                BY <2>3, <3>1, <3>2 DEF Cleanup
            <4>2. Slot(c, q) \in Slots
                BY <1>0, <2>1, AtAttempt DEF Within
            <4>3. \/ proc'[Slot(c, q)] = proc[Slot(c, q)]
                  \/ proc[Slot(c, q)] = "running" /\ proc'[Slot(c, q)] = "killed"
                BY <3>1, <4>2 DEF OnlyStops
            <4>4. "running" \notin Over(Current(c))
                  /\ (Current(c) \in Bandwidth => "killed" \in Over(Current(c)))
                BY DEF Over
            <4>5. q = r => proc'[Slot(c, q)] # "running"
                BY <3>1, <3>2
            <4> QED
                BY <3>1, <4>1, <4>3, <4>4, <4>5
        <3> QED
            BY <2>2, <3>1, <3>2
    <2>6. CASE DidVerify(c)
        <3>1. /\ ctl[c].errors \subseteq ctl'[c].errors /\ proc' = proc
              /\ pc[c] \in Cleanup /\ pc'[c] # "validate"
              /\ pc[c] = "stop" => ctl[c].todo = {}
            BY <2>6 DEF DidVerify, Cleanup
        <3> QED
            BY <2>2, <2>3, <3>1
    <2>7. CASE pc[c] = "collect" /\ pc'[c] = "validate" /\ ctl[c].errors = {}
               /\ ctl'[c].errors = {} /\ proc' = proc
        BY <2>2, <2>3, <2>7 DEF Cleanup
    <2> HIDE DEF P
    <2> QED
        BY <2>4, <2>5, <2>6, <2>7, CleanupStep
<1> QED
    BY <1>1, <1>2

LEMMA StrayKept ==
    ASSUME IInv, TypeOK', NEW c \in Controllers, Did(c)
    PROVE  NoStray'
<1> DEFINE P(b, r) ==
        \/ pc'[b] = "answer" /\ r = ctl'[b].role
        \/ pc'[b] \in Cleanup /\ ctl'[b].errors \cap {"transport", "interrupt"} # {}
<1> SUFFICES ASSUME NEW b \in Controllers, pc'[b] \in {"prepare"} \cup Traffic \cup Cleanup,
                    NEW r \in Roles, proc'[Slot(b, r)'] = "inflight"
             PROVE  P(b, r)
    BY DEF NoStray
<1>0. Ready /\ TypeOK
    BY DEF IInv, Ready
<1>a. pc'[b] \in Busy /\ pc'[b] \in InAttempt
    BY StepSets DEF InAttempt
<1>1. CASE b # c
    <2>1. /\ pc'[b] = pc[b] /\ ctl'[b] = ctl[b] /\ proc' = proc
        BY <1>0, <1>a, <1>1, WhoIsBusy DEF hostVars
    <2>2. Slot(b, r)' = Slot(b, r)
        BY <2>1 DEF Current, Slot, AttemptOf
    <2> QED
        BY <2>1, <2>2 DEF IInv, NoStray
<1>2. CASE b = c
    <2> USE <1>2
    <2>1. CASE DidNumber(c)
        <3>1. /\ pc'[c] = "prepare" /\ proc' = proc /\ ctl'[c].task = ctl[c].task
              /\ count[Current(c)] + 1 \in Attempts
              /\ count'[Current(c)] = count[Current(c)] + 1
              /\ Current(c) \in Tasks /\ count[Current(c)] \in Nat
            BY <1>0, <2>1, NumberFacts DEF DidNumber, hostVars
        <3>2. AttemptOf(c)' = count[Current(c)] + 1 /\ Current(c)' = Current(c)
            <4>1. AttemptCurrent'
                BY CurrentKept
            <4>2. AttemptOf(c)' = count'[Current(c)']
                BY <1>a, <4>1 DEF AttemptCurrent
            <4> QED
                BY <3>1, <4>2, SameNames
        <3> DEFINE s == <<Current(c), count[Current(c)] + 1, r>>
        <3>3. Slot(c, r)' = s /\ s \in Slots /\ s[1] = Current(c) /\ s[2] = count[Current(c)] + 1
            BY <3>1, <3>2 DEF Slot, Slots
        <3> HIDE DEF s
        <3>4. s[2] > count[s[1]]
            BY <3>1, <3>3
        <3>5. proc[s] = "none"
            BY <3>3, <3>4 DEF IInv, LaunchesKnown
        <3> QED
            BY <3>1, <3>3, <3>5
    <2>2. CASE Within(c)
        <3>1. pc[c] \in InAttempt /\ Slot(c, r)' = Slot(c, r) /\ Slot(c, r) \in Slots
              /\ Slot(c, ctl[c].role) \in Slots
            BY <1>0, <2>2, WithinNames, AtAttempt DEF Within
        <3>2. pc[c] \in {"prepare"} \cup Traffic \cup Cleanup /\ proc[Slot(c, r)] = "inflight" =>
                \/ pc[c] = "answer" /\ r = ctl[c].role
                \/ pc[c] \in Cleanup /\ ctl[c].errors \cap {"transport", "interrupt"} # {}
            BY DEF IInv, NoStray
        <3>3. CASE DidGoOn(c)
            <4>1. CASE pc[c] = "send" /\ pc'[c] = "answer" /\ ctl'[c].role = ctl[c].role
                       /\ proc' = [proc EXCEPT ![Slot(c, ctl[c].role)] = "inflight"]
                <5>1. CASE r = ctl[c].role
                    BY <4>1, <5>1
                <5>2. CASE r # ctl[c].role
                    <6>1. Slot(c, r) # Slot(c, ctl[c].role)
                        BY <5>2 DEF Slot
                    <6>2. proc[Slot(c, r)] = "inflight"
                        BY <1>0, <3>1, <4>1, <6>1 DEF TypeOK
                    <6> QED
                        BY <3>2, <4>1, <6>2 DEF Traffic, Cleanup
                <5> QED
                    BY <5>1, <5>2
            <4>2. CASE pc[c] \in {"prepare", "ports", "journal", "ready"} /\ proc' = proc
                BY <3>1, <3>2, <4>2 DEF Traffic, Cleanup
            <4>3. CASE pc[c] = "answer" /\ proc[Slot(c, ctl[c].role)] # "inflight" /\ proc' = proc
                BY <3>1, <3>2, <4>3 DEF Traffic, Cleanup
            <4>4. pc'[c] # "validate"
                BY DEF Traffic, Cleanup
            <4> QED
                BY <3>3, <4>1, <4>2, <4>3, <4>4 DEF DidGoOn
        <3>4. ASSUME NEW es \in SUBSET Errors, DidLeave(c, es) PROVE P(c, r)
            <4>1. /\ pc[c] \in Traffic /\ pc'[c] = "stop" /\ proc' = proc
                  /\ ctl'[c].errors = ctl[c].errors \cup es
                  /\ pc[c] = "answer" /\ proc[Slot(c, ctl[c].role)] = "inflight" =>
                       es \cap {"transport", "interrupt"} # {}
                BY <3>4 DEF DidLeave
            <4> QED
                BY <3>1, <3>2, <4>1 DEF Traffic, Cleanup
        <3>5. ASSUME NEW q \in Roles, DidStop(c, q) PROVE P(c, r)
            <4>1. /\ pc[c] = "stop" /\ pc'[c] = "stop" /\ OnlyStops
                  /\ ctl[c].errors \subseteq ctl'[c].errors
                BY <3>5 DEF DidStop
            <4>2. proc[Slot(c, r)] = "inflight"
                BY <3>1, <4>1 DEF OnlyStops
            <4> QED
                BY <3>2, <4>1, <4>2 DEF Cleanup
        <3>6. CASE DidVerify(c)
            <4>1. /\ pc[c] \in Cleanup /\ pc'[c] \in Cleanup /\ proc' = proc /\ pc[c] # "answer"
                  /\ ctl[c].errors \subseteq ctl'[c].errors
                BY <3>6 DEF DidVerify, Cleanup
            <4> QED
                BY <3>1, <3>2, <4>1
        <3>7. ~DidStart(c) /\ ~DidEnd(c) /\ ~DidRecover(c) /\ ~DidShare(c) /\ ~DidBegin(c)
              /\ ~DidNumber(c)
            BY <1>a, <3>1, StepSets DEF DidStart, DidEnd, DidRecover, DidShare, DidBegin, DidNumber
        <3>8. ~DidJudge(c) /\ ~DidWrite(c)
            BY <1>a, StepSets, JudgeFacts DEF Judges, DidWrite
        <3> HIDE DEF P
        <3> QED
            BY <3>3, <3>4, <3>5, <3>6, <3>7, <3>8 DEF Did
    <2>3. ~DidStart(c) /\ ~DidEnd(c) /\ ~DidRecover(c) /\ ~DidShare(c) /\ ~DidBegin(c)
        BY <1>a, StepSets DEF DidStart, DidEnd, DidRecover, DidShare, DidBegin
    <2>4. ~DidJudge(c) /\ ~DidWrite(c)
        BY <1>a, StepSets, JudgeFacts DEF Judges, DidWrite
    <2> HIDE DEF P
    <2> QED
        BY <2>1, <2>2, <2>3, <2>4 DEF Did, DidGoOn, DidVerify, DidLeave, DidStop
<1> QED
    BY <1>1, <1>2

LEMMA SlotFacts ==
    ASSUME NEW s \in Slots
    PROVE  s[1] \in Tasks /\ s[2] \in Attempts /\ s[3] \in Roles /\ s = <<s[1], s[2], s[3]>>
BY DEF Slots

LEMMA QuietKept ==
    ASSUME IInv, TypeOK', NEW c \in Controllers, Did(c)
    PROVE  Quieted'
<1> DEFINE P(b, s) ==
        \/ pc'[b] = "raise"
        \/ pc'[b] = "recover" /\ (s[3] \in ctl'[b].todo \/ ctl'[b].errors # {})
        \/ /\ pc'[b] \in Traffic \cup Cleanup
           /\ <<s[1], s[2]>> = <<Current(b)', AttemptOf(b)'>>
           /\ pc'[b] = "collect" => ~CanContinue(ctl'[b].errors)
<1> SUFFICES ASSUME NEW b \in Controllers, pc'[b] \in Busy,
                    NEW s \in Slots, Live(s)', s \notin missed'
             PROVE  P(b, s)
    BY DEF Quieted, CanContinue
<1>0. Ready /\ TypeOK
    BY DEF IInv, Ready
<1>1. CASE b # c
    <2>1. /\ pc'[b] = pc[b] /\ ctl'[b] = ctl[b] /\ proc' = proc /\ missed' = missed
          /\ pc[b] \in Busy
        BY <1>0, <1>1, WhoIsBusy DEF hostVars
    <2>2. Current(b)' = Current(b) /\ AttemptOf(b)' = AttemptOf(b) /\ Live(s)
        BY <2>1 DEF Current, AttemptOf, Live
    <2> QED
        BY <2>1, <2>2 DEF IInv, Quieted
<1>2. CASE b = c
    <2> USE <1>2
    <2>1. missed \subseteq missed' /\ s \notin missed
        BY JudgeFacts DEF Did, DidStart, DidEnd, DidRecover, DidShare, DidBegin, DidNumber,
               DidWrite, Judges, DidGoOn, DidVerify, DidLeave, DidStop, Within, hostVars
    <2>2. OnlyStops => Live(s)
        BY DEF OnlyStops, Live
    <2>3. pc[c] \in Busy /\ Live(s) =>
            \/ pc[c] = "raise"
            \/ pc[c] = "recover" /\ (s[3] \in ctl[c].todo \/ ctl[c].errors # {})
            \/ /\ pc[c] \in Traffic \cup Cleanup
               /\ <<s[1], s[2]>> = <<Current(c), AttemptOf(c)>>
               /\ pc[c] = "collect" => ~CanContinue(ctl[c].errors)
        BY <2>1 DEF IInv, Quieted
    <2>4. Live(s) => s \in journal /\ s[2] <= count[s[1]]
        <3>1. s[2] \in Nat /\ count[s[1]] \in Nat
            BY <1>0, SlotFacts, PlanFacts DEF Attempts, TypeOK
        <3> QED
            BY <3>1 DEF Live, IInv, LaunchesKnown
    <2>5. CASE DidStart(c)
        <3>1. Live(s)
            BY <2>5 DEF DidStart, hostVars, Live
        <3>2. pc[c] = "off" /\ ctl'[c].todo = Roles
              /\ pc'[c] = IF c > 1 THEN "recover" ELSE "shared"
            BY <2>5 DEF DidStart
        <3>3. c > 1
            <4>1. count[s[1]] < c /\ s[2] <= count[s[1]] /\ s[2] \in Nat \ {0}
                  /\ count[s[1]] \in Nat /\ c \in Nat
                BY <1>0, <2>4, <3>1, <3>2, SlotFacts, PlanFacts
                    DEF Ready, AttemptsBounded, Attempts, TypeOK
            <4> QED
                BY <4>1
        <3> QED
            BY <3>2, <3>3, SlotFacts
    <2>6. CASE DidEnd(c)
        BY <2>6, StepSets DEF DidEnd
    <2>7. CASE DidRecover(c)
        <3>1. Live(s) /\ pc[c] = "recover" /\ pc[c] \in Busy
            BY <2>2, <2>7, StepSets DEF DidRecover
        <3>2. s[3] \in ctl[c].todo \/ ctl[c].errors # {}
            BY <2>3, <3>1 DEF Traffic, Cleanup
        <3>3. PICK r \in ctl[c].todo :
                  /\ ctl'[c].todo = ctl[c].todo \ {r}
                  /\ ctl'[c].errors = {} =>
                        \A q \in journal : q[3] = r /\ Live(q)' => q \in missed'
            BY <2>7 DEF DidRecover
        <3>4. s[3] \in ctl'[c].todo \/ ctl'[c].errors # {}
            BY <2>4, <2>7, <3>1, <3>2, <3>3 DEF DidRecover
        <3> QED
            BY <2>7, <3>4 DEF DidRecover
    <2>8. CASE DidShare(c) \/ DidBegin(c) \/ DidNumber(c)
        <3>1. Live(s)
            BY <2>8 DEF DidShare, DidBegin, DidNumber, hostVars, Live
        <3>2. pc[c] \in {"shared", "begin", "attempt"}
            BY <2>8 DEF DidShare, DidBegin, DidNumber
        <3> QED
            BY <2>3, <3>1, <3>2, StepSets
    <2>9. ASSUME DidJudge(c), pc'[c] # "raise" PROVE FALSE
        <3>1. Live(s) /\ pc[c] \in Busy
            BY <2>9, JudgeFacts, StepSets DEF Judges, hostVars, Live
        <3>2. pc[c] \in {"prepare", "validate"} \/ (pc[c] = "collect" /\ CanContinue(ctl[c].errors))
            BY <2>9 DEF DidJudge, DidComplete, DidFail
        <3> QED
            BY <2>3, <3>1, <3>2, StepSets DEF InAttempt, Traffic, Cleanup
    <2>10. ASSUME DidWrite(c) PROVE FALSE
        <3>1. Live(s) /\ pc'[c] = "begin" /\ pc[c] = "settle"
            BY <2>10, StepSets DEF DidWrite, hostVars, Live
        <3> QED
            BY <2>3, <3>1, StepSets
    <2>11. CASE Within(c)
        <3>1. /\ pc[c] \in InAttempt /\ pc[c] \in Busy /\ pc'[c] \in InAttempt
              /\ Current(c)' = Current(c) /\ AttemptOf(c)' = AttemptOf(c)
            BY <2>11, WithinNames, StepSets DEF Within
        <3>2. pc[c] # "recover" /\ pc[c] # "raise"
            BY <3>1, StepSets
        <3>3. CASE DidGoOn(c)
            <4>1. CASE pc[c] = "send" /\ pc'[c] = "answer"
                       /\ proc' = [proc EXCEPT ![Slot(c, ctl[c].role)] = "inflight"]
                <5>1. CASE s = Slot(c, ctl[c].role)
                    BY <3>1, <4>1, <5>1 DEF Slot, Traffic
                <5>2. CASE s # Slot(c, ctl[c].role)
                    <6>1. Live(s)
                        BY <1>0, <4>1, <5>2 DEF TypeOK, Live
                    <6> QED
                        BY <2>3, <3>1, <3>2, <4>1, <6>1 DEF Traffic
                <5> QED
                    BY <5>1, <5>2
            <4>2. CASE pc[c] # "send"
                <5>1. proc' = proc
                    BY <3>3, <4>2 DEF DidGoOn
                <5>2. Live(s)
                    BY <5>1 DEF Live
                <5>3. pc[c] # "collect"
                    <6>1. pc[c] = "collect" => ctl[c].errors = {}
                        BY <3>3 DEF DidGoOn
                    <6> QED
                        BY <2>3, <3>1, <3>2, <5>2, <6>1 DEF CanContinue
                <5>4. pc'[c] \in Traffic
                    BY <3>3, <4>2, <5>3 DEF DidGoOn, Traffic
                <5> QED
                    BY <2>3, <3>1, <3>2, <5>2, <5>4 DEF Traffic
            <4> QED
                BY <3>3, <4>1, <4>2 DEF DidGoOn
        <3>4. ASSUME NEW es \in SUBSET Errors, DidLeave(c, es) PROVE P(c, s)
            <4>1. proc' = proc /\ pc'[c] = "stop"
                BY <3>4 DEF DidLeave
            <4>2. Live(s)
                BY <4>1 DEF Live
            <4> QED
                BY <2>3, <3>1, <3>2, <4>1, <4>2 DEF Cleanup
        <3>5. ASSUME NEW r \in Roles, DidStop(c, r) PROVE P(c, s)
            <4>1. OnlyStops /\ pc'[c] = "stop"
                BY <3>5 DEF DidStop
            <4> QED
                BY <2>2, <2>3, <3>1, <3>2, <4>1 DEF Cleanup
        <3>6. CASE DidVerify(c)
            <4>1. proc' = proc /\ pc'[c] \in Cleanup
                BY <3>6 DEF DidVerify, Cleanup
            <4>2. Live(s)
                BY <4>1 DEF Live
            <4>3. <<s[1], s[2]>> = <<Current(c), AttemptOf(c)>>
                BY <2>3, <3>1, <3>2, <4>2
            <4>4. s[3] \in Roles /\ s = Slot(c, s[3])
                BY <1>0, <3>1, <4>3, AtAttempt
            <4>5. pc'[c] = "collect" => ~CanContinue(ctl'[c].errors)
                <5> SUFFICES ASSUME pc'[c] = "collect", CanContinue(ctl'[c].errors)
                             PROVE  FALSE
                    OBVIOUS
                <5>1. pc[c] = "verify" /\ ctl[c].errors \subseteq ctl'[c].errors
                      /\ ("cleanup" \notin ctl'[c].errors => Seen(c) = {})
                    BY <3>6 DEF DidVerify
                <5>2. "cleanup" \notin ctl'[c].errors
                      /\ ctl[c].errors \cap {"transport", "interrupt"} = {}
                    BY <5>1 DEF CanContinue
                <5>3. s[3] \in Launched(c)
                    BY <2>4, <4>2, <4>4 DEF Launched
                <5>4. ~Alive(s)
                    BY <4>4, <5>1, <5>2, <5>3 DEF Seen
                <5>5. proc[s] = "inflight"
                    BY <4>2, <5>4 DEF Live, Alive
                <5>6. pc[c] \in Cleanup /\ pc[c] # "answer"
                    BY <5>1 DEF Cleanup
                <5> QED
                    BY <4>4, <5>2, <5>5, <5>6 DEF IInv, NoStray
            <4> QED
                BY <3>1, <4>1, <4>3, <4>5
        <3>7. ~DidStart(c) /\ ~DidEnd(c) /\ ~DidRecover(c) /\ ~DidShare(c) /\ ~DidBegin(c)
              /\ ~DidNumber(c)
            BY <3>1, StepSets DEF DidStart, DidEnd, DidRecover, DidShare, DidBegin, DidNumber
        <3>8. pc'[c] # "raise"
            BY <3>1, StepSets
        <3> HIDE DEF P
        <3> QED
            BY <2>9, <2>10, <3>3, <3>4, <3>5, <3>6, <3>7, <3>8 DEF Did
    <2>12. pc'[c] = "raise" => P(c, s)
        OBVIOUS
    <2> HIDE DEF P
    <2> QED
        BY <2>12, <2>5, <2>6, <2>7, <2>8, <2>9, <2>10, <2>11, SMTT(40)
            DEF Did, DidGoOn, DidVerify, DidLeave, DidStop
<1> QED
    BY <1>1, <1>2

LEMMA ProgressKept ==
    ASSUME IInv, TypeOK', NEW c \in Controllers, Did(c)
    PROVE  Progress'
<1>a. ASSUME NEW b \in Controllers, pc'[b] = "settle"
      PROVE  ctl'[b].mem[Current(b)'].st \in {"completed", "failed"}
    <2>0. Ready /\ TypeOK /\ pc'[b] \in Busy
        BY <1>a, StepSets DEF IInv, Ready
    <2>1. CASE b # c
        <3>1. pc[b] = "settle" /\ ctl'[b] = ctl[b] /\ Current(b)' = Current(b)
            BY <1>a, <2>0, <2>1, WhoIsBusy DEF Current
        <3> QED
            BY <3>1 DEF IInv, Progress
    <2>2. CASE b = c
        <3>1. DidJudge(c)
            BY <1>a, <2>2, StepSets
                DEF Did, DidStart, DidEnd, DidRecover, DidShare, DidBegin, DidNumber,
                    DidWrite, DidGoOn, DidVerify, DidLeave, DidStop, Within
        <3>2. Current(c) \in Tasks /\ Current(c)' = Current(c)
            BY <3>1, JudgeFacts, SameNames DEF Judges
        <3>3. ctl[c].mem \in [Tasks -> Entry] /\ ctl[c].mem[Current(c)] \in Entry
            BY <2>0, <3>2, CtlType
        <3>4. PICK e \in Entry : /\ ctl'[c].mem = [ctl[c].mem EXCEPT ![Current(c)] = e]
                                 /\ e.st \in {"completed", "failed"}
            <4>1. [ctl[c].mem[Current(c)] EXCEPT !.st = "failed"] \in Entry
                  /\ [ctl[c].mem[Current(c)] EXCEPT !.st = "failed"].st = "failed"
                BY <3>3 DEF Entry
            <4> QED
                BY <3>1, <4>1 DEF DidJudge, DidComplete, DidFail
        <3> QED
            BY <2>2, <3>2, <3>3, <3>4
    <2> QED
        BY <2>1, <2>2
<1> SUFFICES ASSUME NEW b \in Controllers, pc'[b] \in Busy, ~ctl'[b].someFailed,
                    NEW i \in 1 .. Len(Plan), i < ctl'[b].task
             PROVE  ctl'[b].mem[Plan[i]].st = "completed"
    BY <1>a DEF Progress
<1>0. Ready /\ TypeOK
    BY DEF IInv, Ready
<1>1. CASE b # c
    BY <1>0, <1>1, WhoIsBusy DEF IInv, Progress
<1>2. CASE b = c
    <2> USE <1>2, StepSets
    <2>1. pc[c] \in Busy /\ ~ctl[c].someFailed /\ i < ctl[c].task
             => ctl[c].mem[Plan[i]].st = "completed"
        BY DEF IInv, Progress
    <2>2. /\ ctl[c].task \in Nat /\ ctl[c].mem \in [Tasks -> Entry] /\ Plan[i] \in Tasks
          /\ i \in Nat
        BY <1>0, CtlType, PlanFacts
    <2>3. CASE DidStart(c)
        <3>1. ctl'[c].task = 1
            BY <1>0, <2>3 DEF DidStart, Ready, OffBlank, NoCtl
        <3> QED
            BY <2>2, <3>1
    <2>4. CASE DidEnd(c)
        BY <2>4 DEF DidEnd
    <2>5. CASE DidRecover(c)
        BY <2>1, <2>5 DEF DidRecover, SameTask
    <2>6. CASE DidShare(c)
        BY <2>1, <2>6 DEF DidShare
    <2>7. CASE DidBegin(c)
        BY <2>1, <2>7 DEF DidBegin
    <2>8. CASE DidNumber(c)
        <3>1. Plan[i] # Current(c)
            <4>1. i # ctl[c].task
                BY <2>2, <2>8 DEF DidNumber
            <4> QED
                BY <1>0, <2>8, <4>1, NumberFacts
        <3> QED
            BY <2>1, <2>2, <2>8, <3>1 DEF DidNumber
    <2>9. CASE Within(c)
        BY <2>1, <2>9 DEF Within, SameTask
    <2>10. CASE DidJudge(c)
        <3>1. /\ pc[c] \in Busy /\ ctl'[c].task = ctl[c].task
              /\ ctl'[c].someFailed = ctl[c].someFailed
            BY <2>10, JudgeFacts DEF Judges
        <3>2. PICK e : ctl'[c].mem = [ctl[c].mem EXCEPT ![Current(c)] = e]
            BY <2>10 DEF DidJudge, DidComplete, DidFail
        <3>3. Plan[i] # Current(c)
            <4>1. i # ctl[c].task /\ ctl[c].task \in 1 .. Len(Plan)
                <5>1. ctl[c].task \in 1 .. Len(Plan) + 1 /\ ctl[c].task <= Len(Plan)
                    BY <1>0, <2>10, JudgeFacts, CtlType DEF Judges
                <5> QED
                    BY <2>2, <3>1, <5>1, PlanFacts
            <4> QED
                BY <4>1, PlanFacts DEF Current
        <3>4. ctl'[c].mem[Plan[i]] = ctl[c].mem[Plan[i]]
            BY <2>2, <3>2, <3>3
        <3> QED
            BY <2>1, <3>1, <3>4
    <2>11. CASE DidWrite(c)
        <3>1. /\ pc[c] = "settle" /\ pc[c] \in Busy /\ ctl'[c].mem = ctl[c].mem
              /\ ctl'[c].task = ctl[c].task + 1
              /\ ctl'[c].someFailed =
                    (ctl[c].someFailed \/ ctl[c].mem[Current(c)].st = "failed")
            BY <2>11 DEF DidWrite
        <3>2. ctl[c].mem[Current(c)].st \in {"completed", "failed"}
            BY <3>1 DEF IInv, Progress
        <3>3. CASE i = ctl[c].task
            BY <3>1, <3>2, <3>3 DEF Current
        <3>4. CASE i < ctl[c].task
            BY <2>1, <3>1, <3>4
        <3> QED
            BY <2>2, <3>1, <3>3, <3>4
    <2> QED
        BY <2>3, <2>4, <2>5, <2>6, <2>7, <2>8, <2>9, <2>10, <2>11
            DEF Did, DidGoOn, DidVerify, DidLeave, DidStop
<1> QED
    BY <1>1, <1>2

\* What is settled when a controller gives its lock back.
LEMMA SettledKept ==
    ASSUME IInv, TypeOK', NEW c \in Controllers, Did(c)
    PROVE  Settled'
<1> USE StepSets
<1>0. Ready /\ TypeOK /\ 0 \notin Controllers /\ ctl[c].mem \in [Tasks -> Entry]
      /\ (pc[c] \in Busy <=> lock = c) /\ \A i \in 1 .. Len(Plan) : Plan[i] \in Tasks
    BY CtlType, PlanFacts DEF IInv, Ready, Holder
<1>1. OthersStay(c) /\ (pc[c] = "off" \/ pc[c] \in Busy)
    BY <1>0, CoarseKind DEF Coarse, Refused
<1>2. \A i : LostAt(i) => LostAt(i)'
    <2>1. pc[c] \notin {"unsaved", "crashed"}
        BY <1>1
    <2> QED
        BY <1>1, <2>1 DEF LostAt, OthersStay
<1>3. /\ lock = 0 => \A i \in 1 .. Len(Plan) : disk[Plan[i]].st = "running" => LostAt(i)
      /\ \A b \in Controllers : pc[b] \in Busy => \A i \in 1 .. Len(Plan) :
            ctl[b].mem[Plan[i]].st = "running"
               => LostAt(i) \/ (pc[b] \in InAttempt /\ i = ctl[b].task)
    BY DEF IInv, Settled, StatusSettled, LostAt
<1>4. ASSUME NEW b \in Controllers, b # c, pc'[b] \in Busy, NEW i \in 1 .. Len(Plan),
             ctl'[b].mem[Plan[i]].st = "running"
      PROVE  LostAt(i)' \/ (pc'[b] \in InAttempt /\ i = ctl'[b].task)
    <2>1. pc'[b] = pc[b] /\ ctl'[b] = ctl[b] /\ pc[b] \in Busy
        BY <1>0, <1>4, WhoIsBusy
    <2> QED
        BY <1>2, <1>3, <1>4, <2>1
<1> DEFINE P == \A i \in 1 .. Len(Plan) :
                    /\ lock' = 0 /\ disk'[Plan[i]].st = "running" => LostAt(i)'
                    /\ pc'[c] \in Busy /\ ctl'[c].mem[Plan[i]].st = "running"
                          => LostAt(i)' \/ (pc'[c] \in InAttempt /\ i = ctl'[c].task)
<1>5. ASSUME DidStart(c)
      PROVE  P
    <2>1. lock = 0 /\ lock' = c /\ ctl'[c].mem = disk
        BY <1>5 DEF DidStart
    <2> QED
        BY <1>0, <1>2, <1>3, <2>1
<1>6. ASSUME DidEnd(c)
      PROVE  P
    <2>1. /\ pc'[c] \in Ends /\ pc'[c] \notin Busy /\ disk' = disk
          /\ ctl'[c].task = ctl[c].task
          /\ lock' = IF lock = c THEN 0 ELSE lock
          /\ pc[c] = "off" => lock # 0
          /\ \/ pc'[c] \in {"unsaved", "crashed"}
             \/ pc[c] \in {"off", "recover", "shared", "begin"}
        BY <1>6 DEF DidEnd, fileVars
    <2> SUFFICES ASSUME NEW i \in 1 .. Len(Plan), lock' = 0, disk[Plan[i]].st = "running"
                 PROVE  LostAt(i)'
        BY <2>1
    <2>2. pc[c] \in Busy
        BY <1>0, <1>1, <2>1
    <2>3. CASE ctl[c].task = i /\ pc'[c] \in {"unsaved", "crashed"}
        BY <2>1, <2>3 DEF LostAt
    <2>4. CASE pc[c] \in {"recover", "shared", "begin"}
        <3>1. disk = ctl[c].mem
            BY <2>2, <2>4 DEF IInv, MemOnDisk
        <3> QED
            BY <1>2, <1>3, <2>2, <2>4, <3>1
    <2>5. CASE ctl[c].task # i /\ pc[c] \notin {"recover", "shared", "begin"}
        <3>1. /\ ctl[c].task \in 1 .. Len(Plan) /\ Current(c) = Plan[ctl[c].task]
              /\ Current(c) \in Tasks
            <4>1. pc[c] \in {"attempt"} \cup InAttempt \cup Outcome
                BY <2>2, <2>5 DEF Busy, Steps, InAttempt
            <4> QED
                BY <1>0, <4>1, AtTask
        <3>2. Plan[i] # Current(c) /\ Plan[i] \in Tasks
            BY <2>5, <3>1, PlanFacts
        <3>3. disk[Plan[i]] = ctl[c].mem[Plan[i]]
            <4>1. CASE pc[c] = "attempt"
                <5>1. disk = [ctl[c].mem EXCEPT ![Current(c)].st = "running"]
                    BY <4>1 DEF IInv, MemOnDisk
                <5> QED
                    BY <1>0, <3>2, <5>1
            <4>2. CASE pc[c] # "attempt"
                BY <2>2, <3>2, <4>2 DEF IInv, MemOnDisk
            <4> QED
                BY <4>1, <4>2
        <3> QED
            BY <1>2, <1>3, <2>2, <2>5, <3>3
    <2> QED
        BY <2>1, <2>2, <2>3, <2>4, <2>5
<1>7. ASSUME pc[c] \in Busy, lock' = lock, ctl'[c].mem = ctl[c].mem,
             pc[c] \notin InAttempt \/ (pc'[c] \in InAttempt /\ ctl'[c].task = ctl[c].task)
      PROVE  P
    BY <1>0, <1>2, <1>3, <1>7
<1>8. ASSUME DidRecover(c)
      PROVE  P
    BY <1>7, <1>8 DEF DidRecover, SameTask
<1>9. ASSUME DidShare(c)
      PROVE  P
    BY <1>7, <1>9 DEF DidShare
<1>10. ASSUME DidBegin(c)
      PROVE  P
    BY <1>7, <1>10 DEF DidBegin
<1>11. ASSUME Within(c)
      PROVE  P
    BY <1>7, <1>11 DEF Within, SameTask
<1>12. ASSUME DidNumber(c)
      PROVE  P
    <2>1. /\ pc[c] = "attempt" /\ pc'[c] = "prepare" /\ pc'[c] \in InAttempt /\ lock' = lock
          /\ ctl'[c].mem = [ctl[c].mem EXCEPT ![Current(c)] =
                [ctl[c].old EXCEPT !.st = "running", !.attempt = count[Current(c)] + 1]]
          /\ ctl'[c].task = ctl[c].task
        BY <1>12 DEF DidNumber, InAttempt
    <2>2. \A i \in 1 .. Len(Plan) : i # ctl[c].task => Plan[i] # Current(c)
        BY <1>0, <1>12, NumberFacts
    <2>3. \A i \in 1 .. Len(Plan) : i # ctl[c].task =>
             ctl'[c].mem[Plan[i]] = ctl[c].mem[Plan[i]]
        BY <1>0, <2>1, <2>2
    <2>4. pc[c] \in Busy /\ lock' # 0
        BY <1>0, <2>1
    <2>5. ASSUME NEW i \in 1 .. Len(Plan), ctl'[c].mem[Plan[i]].st = "running",
                 i # ctl[c].task
          PROVE  LostAt(i)'
        <3>1. LostAt(i)
            BY <1>3, <2>3, <2>4, <2>5
        <3> QED
            BY <1>2, <3>1
    <2> QED
        BY <2>1, <2>4, <2>5
<1>13. ASSUME DidJudge(c)
       PROVE  P
    <2>1. /\ pc[c] \in Busy /\ lock' = lock /\ Current(c) \in Tasks
          /\ ctl'[c].task = ctl[c].task /\ ctl[c].task <= Len(Plan)
        BY <1>13, JudgeFacts DEF Judges
    <2>2. ctl[c].mem[Current(c)] \in Entry /\ ctl[c].task \in 1 .. Len(Plan)
        BY <1>0, <2>1, CtlType, PlanFacts
    <2>3. PICK e : /\ ctl'[c].mem = [ctl[c].mem EXCEPT ![Current(c)] = e]
                   /\ e.st # "running"
        <3>1. [ctl[c].mem[Current(c)] EXCEPT !.st = "failed"].st = "failed"
            BY <2>2 DEF Entry
        <3> QED
            BY <1>13, <3>1 DEF DidJudge, DidComplete, DidFail
    <2>4. \A i \in 1 .. Len(Plan) :
             IF i = ctl[c].task THEN ctl'[c].mem[Plan[i]].st # "running"
                                ELSE ctl'[c].mem[Plan[i]] = ctl[c].mem[Plan[i]]
        <3>1. Plan[ctl[c].task] = Current(c)
            BY DEF Current
        <3>2. \A i \in 1 .. Len(Plan) : i # ctl[c].task => Plan[i] # Current(c)
            BY <2>2, <3>1, PlanFacts
        <3> QED
            BY <1>0, <2>1, <2>3, <3>1, <3>2
    <2> QED
        BY <1>0, <1>2, <1>3, <2>1, <2>4
<1>14. ASSUME DidWrite(c)
       PROVE  P
    <2>1. /\ pc[c] \in Outcome /\ pc[c] \in Busy /\ pc[c] \notin InAttempt
          /\ disk' = ctl[c].mem
          /\ pc'[c] \in Busy => ctl'[c].mem = ctl[c].mem
        BY <1>14 DEF DidWrite
    <2> QED
        BY <1>2, <1>3, <2>1
<1> QED
    <2>1. P
        <3> HIDE DEF P
        <3> QED
            BY <1>5, <1>6, <1>8, <1>9, <1>10, <1>11, <1>12, <1>13, <1>14
                DEF Did, DidGoOn, DidVerify, DidLeave, DidStop
    <2> QED
        BY <1>4, <2>1 DEF Settled, StatusSettled, LostAt

-------------------------------------------------------------------------------
(* The hosts, and damage.                                                  *)

LEMMA HostKept ==
    ASSUME IInv, TypeOK', NEW s \in Slots, DidHost(s)
    PROVE  IInv'
<1>0. /\ Ready /\ TypeOK /\ Live(s)
      /\ lock' = lock /\ disk' = disk /\ count' = count /\ journal' = journal
      /\ damaged' = damaged /\ pc' = pc /\ ctl' = ctl /\ missed' = missed
    BY DEF IInv, Ready, DidHost, fileVars
<1>1. PICK q \in {"starting", "running", "exited", "broke"} :
          /\ q = "starting" => proc[s] = "inflight"
          /\ q = "running" => proc[s] = "starting"
          /\ q = "exited" => s[1] \notin Bandwidth
          /\ proc' = [proc EXCEPT ![s] = q]
    BY DEF DidHost
<1>2. proc'[s] = q /\ \A x \in Slots : x # s => proc'[x] = proc[x]
    BY <1>0, <1>1 DEF TypeOK
<1>3. \A b \in Controllers : /\ Current(b)' = Current(b) /\ AttemptOf(b)' = AttemptOf(b)
                             /\ \A r \in Roles : Slot(b, r)' = Slot(b, r)
    BY <1>0 DEF Current, AttemptOf, Slot
<1>4. Ready'
    BY <1>0, <1>3 DEF Ready, Holder, OffBlank, InOrder, TaskThere, AttemptsBounded, AttemptCurrent
<1>5. MemOnDisk' /\ AttemptsKnown'
    BY <1>0, <1>3 DEF IInv, MemOnDisk, AttemptsKnown
<1>6. Progress' /\ Settled'
    BY <1>0, <1>3 DEF IInv, Progress, Settled, StatusSettled, LostAt
<1>7. \A x \in Slots : Live(x)' => Live(x)
    BY <1>0, <1>2 DEF Live
<1>8. LaunchesKnown'
    <2>1. \A x \in Slots : proc'[x] # "none" => x \in journal
        BY <1>0, <1>2 DEF IInv, LaunchesKnown, Live
    <2>2. \A b \in Controllers : Slot(b, ctl[b].role)' = Slot(b, ctl[b].role)
        BY <1>0 DEF Slot, Current, AttemptOf
    <2> QED
        BY <1>0, <2>1, <2>2 DEF IInv, LaunchesKnown
<1>9. \A x \in Slots : proc[x] \in {"killed", "broke", "exited"} => proc'[x] = proc[x]
    BY <1>0, <1>2 DEF Live
<1>10. ASSUME NEW t \in Tasks, NEW e \in Entry, Ended(t, e)
       PROVE  /\ e.files = e.attempt /\ e.attempt # 0
              /\ \A r \in Roles : proc'[<<t, e.attempt, r>>] \in Over(t)
    BY <1>9, <1>10, EndedFacts
<1>11. HonestDone'
    <2>1. ASSUME NEW t \in Tasks, disk[t].st = "completed"
          PROVE  Ended(t, disk[t])'
        <3>1. Ended(t, disk[t]) /\ disk[t] \in Entry
            BY <1>0, <2>1 DEF IInv, HonestDone, TypeOK
        <3> QED
            BY <1>0, <1>10, <3>1 DEF Ended
    <2>2. ASSUME NEW b \in Controllers, pc[b] \in {"attempt"} \cup InAttempt,
                 ctl[b].old.st = "completed"
          PROVE  Ended(Current(b), ctl[b].old)'
        <3>1. Ended(Current(b), ctl[b].old) /\ ctl[b].old \in Entry /\ Current(b) \in Tasks
            BY <1>0, <2>2, CtlType, AtTask DEF IInv, HonestDone
        <3> QED
            BY <1>0, <1>3, <1>10, <3>1 DEF Ended
    <2>3. ASSUME NEW b \in Controllers, pc[b] \in Outcome,
                 ctl[b].mem[Current(b)].st = "completed"
          PROVE  Ended(Current(b), ctl[b].mem[Current(b)])'
        <3>1. Current(b) \in Tasks /\ ctl[b].mem \in [Tasks -> Entry]
            BY <1>0, <2>3, CtlType, AtTask
        <3>2. /\ Ended(Current(b), ctl[b].mem[Current(b)])
              /\ ctl[b].mem[Current(b)] \in Entry
            BY <2>3, <3>1 DEF IInv, HonestDone
        <3> QED
            BY <1>0, <1>3, <1>10, <3>1, <3>2 DEF Ended
    <2> QED
        BY <1>0, <1>3, <2>1, <2>2, <2>3 DEF HonestDone
<1>12. CleanRun'
    <2> SUFFICES ASSUME NEW b \in Controllers, pc[b] \in Cleanup \cup {"validate"},
                        ctl[b].errors = {}, NEW r \in Roles
                 PROVE  \/ proc'[Slot(b, r)] \in Over(Current(b))
                        \/ /\ pc[b] = "stop" /\ r \in ctl[b].todo /\ Current(b) \in Bandwidth
                           /\ proc'[Slot(b, r)] = "running"
        <3>1. \A b \in Controllers : pc[b] = "validate" => ctl[b].errors = {}
            BY DEF IInv, CleanRun
        <3> QED
            BY <1>0, <1>3, <3>1 DEF IInv, CleanRun, Over
    <2>1. pc[b] \in InAttempt
        BY DEF InAttempt
    <2>2. Slot(b, r) \in Slots /\ Slot(b, r)[1] = Current(b)
        BY <1>0, <2>1, AtAttempt DEF Slot
    <2>3. \/ proc[Slot(b, r)] \in Over(Current(b))
          \/ /\ pc[b] = "stop" /\ r \in ctl[b].todo /\ Current(b) \in Bandwidth
             /\ proc[Slot(b, r)] = "running"
        BY DEF IInv, CleanRun
    <2>4. CASE proc[Slot(b, r)] \in Over(Current(b))
        BY <1>9, <2>2, <2>4 DEF Over
    <2>5. CASE /\ pc[b] = "stop" /\ r \in ctl[b].todo /\ Current(b) \in Bandwidth
               /\ proc[Slot(b, r)] = "running"
        <3>1. proc'[Slot(b, r)] \in {"running", "broke"}
            BY <1>1, <1>2, <2>2, <2>5
        <3> QED
            BY <2>5, <3>1 DEF Over
    <2> QED
        BY <2>3, <2>4, <2>5
<1>13. NoStray'
    <2> SUFFICES ASSUME NEW b \in Controllers, pc[b] \in {"prepare"} \cup Traffic \cup Cleanup,
                        NEW r \in Roles, proc'[Slot(b, r)] = "inflight"
                 PROVE  proc[Slot(b, r)] = "inflight"
        BY <1>0, <1>3 DEF IInv, NoStray
    <2>1. pc[b] \in InAttempt
        BY DEF InAttempt
    <2>2. Slot(b, r) \in Slots
        BY <1>0, <2>1, AtAttempt
    <2> QED
        BY <1>2, <2>2
<1>14. Quieted'
    <2>1. \A b \in Controllers, x \in Slots :
             pc[b] \in Busy /\ Live(x)' /\ x \notin missed =>
                \/ pc[b] = "raise"
                \/ pc[b] = "recover" /\ (x[3] \in ctl[b].todo \/ ctl[b].errors # {})
                \/ /\ pc[b] \in Traffic \cup Cleanup
                   /\ <<x[1], x[2]>> = <<Current(b), AttemptOf(b)>>
                   /\ pc[b] = "collect" => ~CanContinue(ctl[b].errors)
        BY <1>7 DEF IInv, Quieted
    <2> QED
        BY <1>0, <1>3, <2>1 DEF Quieted, CanContinue
<1> QED
    BY <1>4, <1>5, <1>6, <1>8, <1>11, <1>12, <1>13, <1>14 DEF IInv

\* The busy controller holds an entry with older files than its attempt.
LEMMA DamageKept ==
    ASSUME IInv, TypeOK', NEW t \in Tasks, DidDamage(t)
    PROVE  IInv'
<1>0. /\ Ready /\ TypeOK
      /\ lock' = lock /\ disk' = disk /\ count' = count /\ journal' = journal
      /\ proc' = proc /\ pc' = pc /\ ctl' = ctl /\ missed' = missed
      /\ damaged' = damaged \cup {<<t, disk[t].files>>}
    BY DEF IInv, Ready, DidDamage, hostVars
<1>1. \A b \in Controllers : /\ Current(b)' = Current(b) /\ AttemptOf(b)' = AttemptOf(b)
                             /\ \A r \in Roles : Slot(b, r)' = Slot(b, r)
    BY <1>0 DEF Current, AttemptOf, Slot
<1>2. AttemptCurrent'
    <2> SUFFICES ASSUME NEW b \in Controllers, pc[b] \in InAttempt
                 PROVE  <<Current(b), count[Current(b)]>> \notin damaged'
        BY <1>0, <1>1 DEF Ready, AttemptCurrent
    <2>1. /\ ctl[b].mem[Current(b)].files = ctl[b].old.files
          /\ ctl[b].old.files < count[Current(b)]
          /\ <<Current(b), count[Current(b)]>> \notin damaged
        BY <1>0 DEF Ready, AttemptCurrent
    <2>2. disk = ctl[b].mem /\ Current(b) \in Tasks
        BY <1>0, StepSets, AtTask DEF IInv, MemOnDisk
    <2>3. ctl[b].old.files \in Nat /\ count[Current(b)] \in Nat
        BY <1>0, <2>2, CtlType, EntryFacts, PlanFacts DEF TypeOK
    <2>4. disk[Current(b)].files # count[Current(b)]
        BY <2>1, <2>2, <2>3
    <2> QED
        BY <1>0, <2>1, <2>4
<1>3. Ready'
    BY <1>0, <1>1, <1>2 DEF Ready, Holder, OffBlank, InOrder, TaskThere, AttemptsBounded
<1>4. AttemptsKnown'
    BY <1>0, <1>1 DEF IInv, AttemptsKnown
<1>5. MemOnDisk' /\ Progress' /\ Settled'
    BY <1>0, <1>1 DEF IInv, MemOnDisk, Progress, Settled, StatusSettled, LostAt
<1>6. LaunchesKnown'
    <2>1. \A b \in Controllers : Slot(b, ctl[b].role)' = Slot(b, ctl[b].role)
        BY <1>0 DEF Slot, Current, AttemptOf
    <2> QED
        BY <1>0, <2>1 DEF IInv, LaunchesKnown
<1>7. HonestDone'
    BY <1>0, <1>1 DEF IInv, HonestDone, Ended
<1>8. CleanRun' /\ NoStray'
    BY <1>0, <1>1 DEF IInv, CleanRun, NoStray, Over
<1>9. Quieted'
    BY <1>0, <1>1 DEF IInv, Quieted, Live, CanContinue
<1> QED
    BY <1>3, <1>4, <1>5, <1>6, <1>7, <1>8, <1>9 DEF IInv

LEMMA StillKept ==
    ASSUME IInv, UNCHANGED vars
    PROVE  IInv'
<1>0. /\ lock' = lock /\ disk' = disk /\ count' = count /\ journal' = journal
      /\ proc' = proc /\ pc' = pc /\ ctl' = ctl /\ missed' = missed
      /\ damaged' = damaged /\ faults' = faults
    BY DEF vars, fileVars, hostVars
<1>1. \A b \in Controllers : /\ Current(b)' = Current(b) /\ AttemptOf(b)' = AttemptOf(b)
                             /\ Slot(b, ctl[b].role)' = Slot(b, ctl[b].role)
                             /\ \A r \in Roles : Slot(b, r)' = Slot(b, r)
    BY <1>0 DEF Current, AttemptOf, Slot
<1>2. Ready'
    BY <1>0, <1>1, StillKind DEF IInv, Ready, Holder, OffBlank, InOrder, TaskThere,
                                 AttemptsBounded, AttemptCurrent, vars, fileVars, hostVars
<1>3. MemOnDisk' /\ AttemptsKnown' /\ LaunchesKnown'
    BY <1>0, <1>1 DEF IInv, MemOnDisk, AttemptsKnown, LaunchesKnown
<1>4. HonestDone' /\ Progress' /\ Settled'
    BY <1>0, <1>1 DEF IInv, HonestDone, Ended, Progress, Settled, StatusSettled, LostAt
<1>5. CleanRun' /\ NoStray'
    BY <1>0, <1>1 DEF IInv, CleanRun, NoStray, Over
<1>6. Quieted'
    BY <1>0, <1>1 DEF IInv, Quieted, Live, CanContinue
<1> QED
    BY <1>2, <1>3, <1>4, <1>5, <1>6 DEF IInv

-------------------------------------------------------------------------------
(* The invariance, and what follows.                                       *)

LEMMA InitInvariant ==
    ASSUME Init
    PROVE  IInv
<1>0. /\ lock = 0 /\ disk = [t \in Tasks |-> Fresh] /\ count = [t \in Tasks |-> 0]
      /\ proc = [s \in Slots |-> "none"] /\ journal = {} /\ missed = {} /\ damaged = {}
      /\ pc = [c \in Controllers |-> "off"] /\ ctl = [c \in Controllers |-> NoCtl]
      /\ faults = 0
    BY DEF Init
<1>1. \A c \in Controllers : pc[c] = "off" /\ pc[c] \notin Busy /\ pc[c] \notin InAttempt
         /\ pc[c] # "attempt" /\ pc[c] # "send" /\ pc[c] \notin Outcome /\ ctl[c] = NoCtl
    BY <1>0, StepSets DEF InAttempt, Traffic, Cleanup
<1>2. TypeOK
    BY <1>0, FreshType, PlanFacts DEF TypeOK, ProcStates, Steps
<1>3. Ready
    <2>1. Holder
        BY <1>0, <1>1, PlanFacts DEF Holder
    <2>2. OffBlank /\ InOrder
        BY <1>1 DEF OffBlank, InOrder
    <2>3. TaskThere /\ AttemptCurrent
        BY <1>1 DEF TaskThere, AttemptCurrent
    <2>4. AttemptsBounded
        <3>1. \A c \in Controllers : 0 < c
            BY PlanFacts
        <3>2. \A t \in Tasks : count[t] = 0
            BY <1>0
        <3> QED
            BY <1>1, <3>1, <3>2 DEF AttemptsBounded
    <2> QED
        BY <1>2, <2>1, <2>2, <2>3, <2>4 DEF Ready
<1>4. MemOnDisk /\ AttemptsKnown /\ LaunchesKnown
    BY <1>0, <1>1, PlanFacts DEF MemOnDisk, AttemptsKnown, LaunchesKnown, Fresh
<1>5. HonestDone /\ CleanRun /\ NoStray /\ Quieted /\ Progress /\ Settled
    <2>1. \A c \in Controllers : pc[c] \notin Traffic \cup Cleanup \cup {"prepare", "validate"}
        BY <1>1 DEF InAttempt
    <2>2. \A t \in Tasks : disk[t].st = "pending"
        BY <1>0 DEF Fresh
    <2>3. HonestDone /\ CleanRun /\ NoStray /\ Quieted /\ Progress
        BY <1>1, <2>1, <2>2, StepSets DEF HonestDone, CleanRun, NoStray, Quieted, Progress
    <2>4. Settled
        BY <1>1, <2>2, PlanFacts DEF Settled, StatusSettled
    <2> QED
        BY <2>3, <2>4
<1> QED
    BY <1>3, <1>4, <1>5 DEF IInv

LEMMA StepInvariant ==
    ASSUME IInv, [Next]_vars
    PROVE  IInv'
<1>1. /\ TypeOK'
      /\ \/ \E c \in Controllers : Did(c)
         \/ \E s \in Slots : DidHost(s)
         \/ \E t \in Tasks : DidDamage(t)
         \/ UNCHANGED vars
    BY Kinds DEF IInv
<1>2. ASSUME NEW c \in Controllers, Did(c)
      PROVE  IInv'
    <2>1. Ready'
        BY <1>1, <1>2, LockKept, TaskKept, BoundKept, CurrentKept DEF IInv, Ready
    <2>2. MemOnDisk'
        BY <1>1, <1>2, MemKept DEF IInv
    <2> QED
        BY <1>1, <1>2, <2>1, <2>2, KnownKept, LaunchesKept, HonestKept, CleanKept,
           StrayKept, QuietKept, ProgressKept, SettledKept DEF IInv
<1> QED
    BY <1>1, <1>2, HostKept, DamageKept, StillKept

THEOREM Invariance == Spec => []IInv
<1>1. Init => IInv
    BY InitInvariant
<1>2. IInv /\ [Next]_vars => IInv'
    BY StepInvariant
<1> QED
    BY <1>1, <1>2, PTL DEF Spec

\* The program keeps to its types.
THEOREM TypeCorrect == Spec => []TypeOK
<1>1. IInv => TypeOK
    BY DEF IInv, Ready
<1> QED
    BY <1>1, Invariance, PTL

\* What is alive while an attempt starts or measures is of that attempt, or a
\* recovery passed it over: the controller before has stopped the rest, or the
\* recovery has, or the run has ended (recover_processes, execute_connections).
THEOREM AloneCorrect == Spec => []TrafficAlone
<1>1. IInv => TrafficAlone
    <2> SUFFICES ASSUME IInv, NEW c \in Controllers, pc[c] \in Traffic \ {"ports"},
                        NEW s \in Slots, Alive(s), s \notin missed
                 PROVE  <<s[1], s[2]>> = <<Current(c), AttemptOf(c)>>
        BY DEF TrafficAlone
    <2>1. pc[c] \in Busy /\ pc[c] \notin {"recover", "raise"} /\ Live(s)
        BY StepSets DEF Alive, Live, Traffic
    <2> QED
        BY <2>1 DEF IInv, Quieted
<1> QED
    BY <1>1, Invariance, PTL

\* An entry says "completed" only of an attempt that ran to its end, with the
\* checksums of that attempt (collect_and_validate, the reuse in run_task).
THEOREM CompletedCorrect == Spec => []CompletedHonest
<1>1. IInv => CompletedHonest
    BY DEF IInv, HonestDone, Ended, Over, CompletedHonest
<1> QED
    BY <1>1, Invariance, PTL

\* A task that says "running" while nobody works on the run is one at which some
\* controller crashed or could not write the outcome (the loop of the runner:
\* persist after run_task, and in the handler of its errors).
THEOREM SettledCorrect == Spec => []StatusSettled
<1>1. IInv => StatusSettled
    BY DEF IInv, Settled
<1> QED
    BY <1>1, Invariance, PTL

\* The runner ends with success only when every task is completed and nothing
\* it could see can still send.
THEOREM SuccessCorrect == Spec => SuccessHonest
<1>1. IInv /\ [Next]_vars => SuccessStep
    <2> SUFFICES ASSUME IInv, [Next]_vars, NEW b \in Controllers,
                        pc'[b] = "succeeded", pc[b] # "succeeded"
                 PROVE  /\ AllCompleted
                        /\ \A s \in Slots : Alive(s) \/ proc[s] = "inflight" => s \in missed
        BY DEF SuccessStep
    <2>0. Ready /\ TypeOK
        BY DEF IInv, Ready
    <2>1. PICK c \in Controllers : Did(c)
        <3>1. pc' # pc
            OBVIOUS
        <3> QED
            BY <2>0, <3>1, Kinds DEF DidHost, DidDamage, vars
    <2>2. b = c
        BY <2>0, <2>1, CoarseKind DEF Coarse, Refused, OthersStay
    <2>3. "succeeded" \notin Steps
        BY DEF Steps, Traffic, Cleanup, Outcome
    <2>4. "succeeded" \notin Busy /\ "succeeded" \notin InAttempt
        BY <2>3, StepSets DEF Busy
    <2>5. DidEnd(c)
        <3>1. ~DidStart(c) /\ ~DidRecover(c) /\ ~DidShare(c) /\ ~DidBegin(c) /\ ~DidNumber(c)
            BY <2>2 DEF DidStart, DidRecover, DidShare, DidBegin, DidNumber
        <3>2. ~Within(c)
            BY <2>2, <2>4 DEF Within
        <3>3. ~DidJudge(c) /\ ~DidWrite(c)
            BY <2>2, <2>4, StepSets, JudgeFacts DEF Judges, DidWrite
        <3> QED
            BY <2>1, <3>1, <3>2, <3>3
                DEF Did, DidGoOn, DidVerify, DidLeave, DidStop
    <2>6. pc[c] = "begin" /\ pc[c] \in Busy /\ ctl[c].task = Len(Plan) + 1
          /\ ~ctl[c].someFailed
        BY <2>2, <2>5, StepSets DEF DidEnd
    <2>7. AllCompleted
        <3> SUFFICES ASSUME NEW t \in Tasks PROVE disk[t].st = "completed"
            BY DEF AllCompleted
        <3>1. PICK i \in 1 .. Len(Plan) : Plan[i] = t
            BY PlanFacts
        <3>2. i < ctl[c].task
            BY <2>6, PlanFacts
        <3> QED
            BY <2>6, <3>1, <3>2, StepSets DEF IInv, MemOnDisk, Progress
    <2>8. ASSUME NEW s \in Slots, Alive(s) \/ proc[s] = "inflight"
          PROVE  s \in missed
        <3>1. Live(s)
            BY <2>8 DEF Alive, Live
        <3>2. pc[c] # "recover" /\ pc[c] # "raise" /\ pc[c] \notin Traffic \cup Cleanup
            BY <2>6, StepSets
        <3> QED
            BY <2>6, <3>1, <3>2 DEF IInv, Quieted
    <2> QED
        BY <2>7, <2>8
<1> QED
    BY <1>1, Invariance, PTL DEF Spec, SuccessHonest

\* A controller accepts a task only with files that nobody has changed since
\* they were measured: a resumed run checks them again before it takes the
\* earlier result over (intact, in run_task).
THEOREM ReuseCorrect == Spec => ReuseChecked
<1>1. IInv /\ [Next]_vars => ReuseStep
    <2> SUFFICES ASSUME IInv, [Next]_vars, NEW b \in Controllers,
                        pc'[b] = "settle", pc[b] # "settle",
                        ctl'[b].mem[Current(b)].st = "completed"
                 PROVE  <<Current(b), ctl'[b].mem[Current(b)].attempt>> \notin damaged
        BY DEF ReuseStep
    <2>0. Ready /\ TypeOK
        BY DEF IInv, Ready
    <2>1. PICK c \in Controllers : Did(c)
        <3>1. pc' # pc
            OBVIOUS
        <3> QED
            BY <2>0, <3>1, Kinds DEF DidHost, DidDamage, vars
    <2>2. b = c
        BY <2>0, <2>1, CoarseKind DEF Coarse, Refused, OthersStay
    <2>3. DidJudge(c)
        BY <2>1, <2>2, StepSets
            DEF Did, DidStart, DidEnd, DidRecover, DidShare, DidBegin, DidNumber,
                DidWrite, DidGoOn, DidVerify, DidLeave, DidStop, Within
    <2>4. Current(c) \in Tasks /\ ctl[c].mem \in [Tasks -> Entry]
          /\ ctl[c].mem[Current(c)] \in Entry
        BY <2>0, <2>3, JudgeFacts, CtlType DEF Judges
    <2>5. ASSUME NEW goesOn \in BOOLEAN, DidFail(c, goesOn)
          PROVE  FALSE
        <3>1. ctl'[c].mem[Current(c)] = [ctl[c].mem[Current(c)] EXCEPT !.st = "failed"]
            BY <2>4, <2>5 DEF DidFail
        <3>2. ctl'[c].mem[Current(c)].st = "failed"
            BY <2>4, <3>1 DEF Entry
        <3> QED
            BY <2>2, <3>2
    <2>6. PICK e \in Entry : DidComplete(c, e)
        BY <2>3, <2>5 DEF DidJudge
    <2>7. ctl'[c].mem[Current(c)] = e
        BY <2>4, <2>6 DEF DidComplete
    <2>8. CASE pc[c] = "prepare" /\ Intact(Current(c), e)
        BY <2>2, <2>7, <2>8 DEF Intact
    <2>9. CASE pc[c] = "validate" /\ e.attempt = AttemptOf(c)
        BY <2>0, <2>2, <2>7, <2>9 DEF Ready, AttemptCurrent, InAttempt
    <2> QED
        BY <2>6, <2>8, <2>9 DEF DidComplete
<1> QED
    BY <1>1, Invariance, PTL DEF Spec, ReuseChecked
===============================================================================
