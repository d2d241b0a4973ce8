------------------------------ MODULE TestbedRun ------------------------------
(***************************************************************************)
(* One run id of the testbed (framework/runner.py): the controllers that   *)
(* run its tasks one after the other and are started again with --resume,  *)
(* the attempts they make (dcn_workload/scripts/run.py), and the processes *)
(* they start on the hosts over SSH (rdma/run_test.py, remote.py).         *)
(*                                                                         *)
(* A process goes none -> inflight (the SSH request that launches it is on *)
(* its way) -> starting (it runs, its PID file is not written) -> running, *)
(* and ends as exited, broke (a nonzero exit code, or never launched) or   *)
(* killed.  A request that timed out at the controller can still arrive.   *)
(* An attempt is looked at with one connection: a receiver, a sender.      *)
(*                                                                         *)
(* The outcome of a task is in the memory of its controller first, and in  *)
(* status.json with a step of its own: a controller may end between them.  *)
(***************************************************************************)
EXTENDS Integers, Sequences, FiniteSets

CONSTANTS
    Plan,            \* the tasks of the run, in order
    Bandwidth,       \* those with endless traffic and a fixed window
    NumControllers,  \* bound: invocations of the runner for this run id
    MaxFaults        \* bound: failures, crashes, interrupts, damaged files

Tasks == {Plan[i] : i \in 1 .. Len(Plan)}
Controllers == 1 .. NumControllers
Attempts == 1 .. NumControllers  \* a controller makes one attempt of a task
Roles == {"receiver", "sender"}
Slots == Tasks \X Attempts \X Roles

ASSUME TestbedAssumption ==
    /\ Plan \in Seq(Tasks)
    /\ \A i, j \in 1 .. Len(Plan) : Plan[i] = Plan[j] => i = j
    /\ Bandwidth \subseteq Tasks
    /\ NumControllers \in Nat /\ MaxFaults \in Nat

\* An entry of status.json: state, attempt directory, and the attempt whose
\* checksums it has (0: none).
Entry == [st : {"pending", "running", "completed", "failed"},
          attempt : {0} \cup Attempts, files : {0} \cup Attempts]

VARIABLES
    lock,      \* the controller that holds testbed.lock, or 0
    disk,      \* status.json
    count,     \* attempt directories of each task
    proc,      \* the process of each slot
    journal,   \* slots in the processes.jsonl of the attempts
    damaged,   \* attempts whose files were changed since
    pc,        \* where each controller stands
    ctl,       \* its memory, and the task number it ended with
    faults,    \* bounded
    missed     \* history: processes that a recovery could not see

fileVars == <<disk, count, journal, damaged>>
hostVars == <<proc, missed>>
vars == <<lock, fileVars, hostVars, pc, ctl, faults>>

Traffic == {"ports", "journal", "send", "answer", "ready", "wait"}
Cleanup == {"stop", "verify", "collect"}
\* The outcome is in memory: the run goes on, or ends, once it is written.
Outcome == {"settle", "raise"}
Steps == {"off", "recover", "shared", "begin", "attempt", "prepare", "validate"}
             \cup Traffic \cup Cleanup \cup Outcome
\* Ended while the outcome of a task was being written: unsaved.
Ends == {"succeeded", "failed", "unsaved", "crashed"}
Errors == {"error", "transport", "cleanup", "interrupt"}
ProcStates == {"none", "inflight", "starting", "running",
               "exited", "broke", "killed"}

Ctl == [mem : [Tasks -> Entry],          \* status
        task : 1 .. Len(Plan) + 1,       \* task_number
        old : Entry,                     \* previous
        role : Roles,                    \* what is being launched
        todo : SUBSET Roles,             \* hosts still to be handled
        errors : SUBSET Errors,          \* errors, transport_failed, ...
        someFailed : BOOLEAN]            \* failed_tasks

Fresh == [st |-> "pending", attempt |-> 0, files |-> 0]
NoCtl == [mem |-> [t \in Tasks |-> Fresh], task |-> 1, old |-> Fresh,
          role |-> "receiver", todo |-> {}, errors |-> {}, someFailed |-> FALSE]

TypeOK ==
    /\ lock \in {0} \cup Controllers
    /\ disk \in [Tasks -> Entry]
    /\ count \in [Tasks -> 0 .. NumControllers]
    /\ proc \in [Slots -> ProcStates]
    /\ journal \in SUBSET Slots /\ missed \in SUBSET Slots
    /\ damaged \in SUBSET (Tasks \X Attempts)
    /\ pc \in [Controllers -> Steps \cup Ends]
    /\ ctl \in [Controllers -> Ctl]
    /\ faults \in 0 .. MaxFaults

Init ==
    /\ lock = 0
    /\ disk = [t \in Tasks |-> Fresh]
    /\ count = [t \in Tasks |-> 0]
    /\ proc = [s \in Slots |-> "none"]
    /\ journal = {} /\ missed = {} /\ damaged = {}
    /\ pc = [c \in Controllers |-> "off"]
    /\ ctl = [c \in Controllers |-> NoCtl]
    /\ faults = 0

-------------------------------------------------------------------------------
(* Helpers.                                                                *)

Current(c) == Plan[ctl[c].task]
AttemptOf(c) == ctl[c].mem[Current(c)].attempt
Slot(c, r) == <<Current(c), AttemptOf(c), r>>
Launched(c) == {r \in Roles : Slot(c, r) \in journal}
Alive(s) == proc[s] \in {"starting", "running"}
Resumed(c) == c > 1
AllCompleted == \A t \in Tasks : disk[t].st = "completed"

\* Something fails that need not.
Fault == faults < MaxFaults /\ faults' = faults + 1
NoFault == UNCHANGED faults

\* The controller goes on at a step with the memory m.
Goto(c, step, m) ==
    /\ pc' = [pc EXCEPT ![c] = step]
    /\ ctl' = [ctl EXCEPT ![c] = m]
    /\ UNCHANGED lock

Advance(c, step) == Goto(c, step, ctl[c])

\* The controller ends, and with it its memory and its lock; which task it was
\* at is kept as history.
EndAs(c, result) ==
    /\ pc' = [pc EXCEPT ![c] = result]
    /\ ctl' = [ctl EXCEPT ![c] = [NoCtl EXCEPT !.task = ctl[c].task]]
    /\ lock' = IF lock = c THEN 0 ELSE lock

-------------------------------------------------------------------------------
(* The run: device_lock, recovery, the loop over the plan.                 *)

\* flock with LOCK_NB: a controller that finds the lock held gives up.
LockFree == lock = 0

Start(c) ==
    /\ pc[c] = "off" /\ \A b \in Controllers : b < c => pc[b] # "off"
    /\ IF LockFree
       THEN /\ lock' = c
            /\ ctl' = [ctl EXCEPT ![c].mem = disk, ![c].todo = Roles]
            /\ pc' = [pc EXCEPT ![c] = IF Resumed(c) THEN "recover" ELSE "shared"]
       ELSE EndAs(c, "failed")
    /\ NoFault /\ UNCHANGED <<fileVars, hostVars>>

\* stop_many reports success: a missing PID file passes for a process that
\* is gone.
Stops(slots) ==
    proc' = [s \in Slots |-> IF s \in slots /\ proc[s] = "running" THEN "killed"
                             ELSE proc[s]]

\* stop_many fails: a process withstands, or the request does.
StopsSome(slots) ==
    \E gone \in SUBSET {s \in slots : proc[s] = "running"} :
        proc' = [s \in Slots |-> IF s \in gone THEN "killed" ELSE proc[s]]

\* What the journals of all attempts of the run say about a host.
Journaled(r) == {s \in journal : s[3] = r}

\* recover_processes, host by host: it goes on after an error and gives up
\* at the end.
Recover(c) ==
    /\ pc[c] = "recover"
    /\ \E r \in ctl[c].todo, fails \in BOOLEAN :
         LET left == ctl[c].todo \ {r}
             errors == ctl[c].errors \cup IF fails THEN {"cleanup"} ELSE {}
         IN  /\ IF fails THEN Fault /\ StopsSome(Journaled(r)) /\ UNCHANGED missed
                ELSE /\ NoFault /\ Stops(Journaled(r))
                     /\ missed' = missed \cup
                          {s \in Journaled(r) : proc[s] \in {"inflight", "starting"}}
             /\ IF left = {} /\ errors # {} THEN EndAs(c, "failed")
                ELSE Goto(c, IF left = {} THEN "shared" ELSE "recover",
                          [ctl[c] EXCEPT !.todo = left, !.errors = errors])
    /\ UNCHANGED fileVars

\* The environment of all tasks is prepared before the first one.
PrepareShared(c) ==
    /\ pc[c] = "shared"
    /\ \/ NoFault /\ Advance(c, "begin")
       \/ Fault /\ EndAs(c, "failed")
    /\ UNCHANGED <<fileVars, hostVars>>

\* After the last task the run ends.
Result(c) == IF ctl[c].someFailed THEN "failed" ELSE "succeeded"

\* The memory of c with its current entry replaced; persist writes it.
With(c, e) == [ctl[c] EXCEPT !.mem[Current(c)] = e]
Persist(m) == disk' = m.mem

\* Mutant: the run ends without a word on the failed task.
Failed_Unrecorded(c, goesOn) ==
    /\ UNCHANGED disk
    /\ IF goesOn
       THEN Goto(c, "settle", With(c, [ctl[c].mem[Current(c)] EXCEPT !.st = "failed"]))
       ELSE EndAs(c, "failed")

\* Mutant: a word for the failure that the status does not know.
Failed_OtherWord(c, goesOn) ==
    /\ Goto(c, IF goesOn THEN "settle" ELSE "raise",
            With(c, [ctl[c].mem[Current(c)] EXCEPT !.st = "aborted"]))
    /\ UNCHANGED disk

\* The task has failed, in memory: the run goes on with the next one, or ends.
Failed(c, goesOn) ==
    /\ Goto(c, IF goesOn THEN "settle" ELSE "raise",
            With(c, [ctl[c].mem[Current(c)] EXCEPT !.st = "failed"]))
    /\ UNCHANGED disk

\* The task is completed, in memory.
Completed(c, e) == Goto(c, "settle", With(c, e)) /\ UNCHANGED disk

\* "running" goes to the file before any remote work; the memory keeps the
\* previous state.
Begin(c) ==
    /\ pc[c] = "begin"
    /\ IF ctl[c].task <= Len(Plan)
       THEN LET old == ctl[c].mem[Current(c)]
            IN  \/ /\ disk' = [ctl[c].mem EXCEPT ![Current(c)].st = "running"]
                   /\ Goto(c, "attempt", [ctl[c] EXCEPT !.old = old, !.errors = {},
                                                        !.role = "receiver"])
                   /\ NoFault
                \/ Fault /\ Failed(c, FALSE)
       ELSE EndAs(c, Result(c)) /\ UNCHANGED disk /\ NoFault
    /\ UNCHANGED <<count, journal, damaged, hostVars>>

\* Mutant: the run goes on and forgets that a task has failed.
NextTask_Forgets(m, failed) == [m EXCEPT !.task = @ + 1]

\* The next task, when this one went well or may be left behind.
NextTask(m, failed) == [m EXCEPT !.task = @ + 1, !.someFailed = @ \/ failed]

\* The outcome is written after the task, or by the handler of its error, both
\* outside of the try block; then the run goes on, or the error ends it.
WriteOutcome(c) ==
    /\ pc[c] \in Outcome
    /\ Persist(ctl[c])
    /\ IF pc[c] = "raise" THEN EndAs(c, "failed")
       ELSE Goto(c, "begin", NextTask(ctl[c], ctl[c].mem[Current(c)].st = "failed"))
    /\ NoFault /\ UNCHANGED <<count, journal, damaged, hostVars>>

-------------------------------------------------------------------------------
(* One attempt (run_task).                                                 *)

\* A new attempt directory, then its number in the state.
NewAttempt(c) ==
    /\ pc[c] = "attempt"
    /\ LET n == count[Current(c)] + 1
           m == With(c, [ctl[c].old EXCEPT !.st = "running", !.attempt = n])
       IN  /\ count' = [count EXCEPT ![Current(c)] = n]
           /\ Persist(m) /\ Goto(c, "prepare", m)
    /\ NoFault /\ UNCHANGED <<journal, damaged, hostVars>>

\* Mutant: a completed task is taken as it is.
Intact_Unchecked(t, e) == TRUE

\* intact: every checksummed file is there and unchanged.
Intact(t, e) ==
    /\ e.files # 0 /\ e.files = e.attempt
    /\ <<t, e.attempt>> \notin damaged

\* Switches, NICs and inputs are prepared for every task.  Then a resumed run
\* takes over what was completed and is intact, and measures the rest.
Prepare(c) ==
    /\ pc[c] = "prepare"
    /\ \/ /\ NoFault
          /\ LET old == ctl[c].old
             IN  IF Resumed(c) /\ old.st = "completed" /\ Intact(Current(c), old)
                 THEN Completed(c, old)
                 ELSE Advance(c, "ports") /\ UNCHANGED disk
       \/ Fault /\ Failed(c, FALSE)
    /\ UNCHANGED <<count, journal, damaged, hostVars>>

-------------------------------------------------------------------------------
(* execute_connections: traffic, cleanup, verdict.                         *)

\* To the cleanup, with an error to be reported or with none.
ToCleanup(c, es) ==
    Goto(c, "stop", [ctl[c] EXCEPT !.errors = @ \cup es, !.todo = Launched(c)])

\* An error that need not happen; a failed or timed-out SSH request is one
\* of the transport.
Fails(c) == Fault /\ \E e \in {"error", "transport"} : ToCleanup(c, {e})

\* A receiver that still runs may hold the port.
CheckPorts(c) ==
    /\ pc[c] = "ports"
    /\ \/ NoFault /\ Advance(c, "journal")
       \/ /\ NoFault /\ ToCleanup(c, {"error"})
          /\ \E s \in Slots : s[3] = "receiver" /\ proc[s] = "running"
       \/ Fails(c)
    /\ UNCHANGED <<fileVars, hostVars>>

\* Mutant: a launch is written down once its process has started.
Intents_Started(c) == {Slot(c, r) : r \in {q \in Roles : proc[Slot(c, q)] = "running"}}

\* The launches about to be requested.
Intents(c) == {Slot(c, ctl[c].role)}

\* start_many writes the intent down before it sends the request.
Journal(c) ==
    /\ pc[c] = "journal"
    /\ journal' = journal \cup Intents(c)
    /\ Advance(c, "send")
    /\ NoFault /\ UNCHANGED <<disk, count, damaged, hostVars>>

Send(c) ==
    /\ pc[c] = "send"
    /\ proc' = [proc EXCEPT ![Slot(c, ctl[c].role)] = "inflight"]
    /\ Advance(c, "answer")
    /\ NoFault /\ UNCHANGED <<fileVars, missed>>

\* The request answers once the PID file is there, or fails after five
\* seconds without one; it may also be lost on the way.
Answer(c) ==
    /\ pc[c] = "answer"
    /\ LET s == Slot(c, ctl[c].role)
       IN  \/ /\ NoFault /\ proc[s] \in {"running", "exited", "broke"}
              /\ Advance(c, IF ctl[c].role = "receiver" THEN "ready" ELSE "wait")
           \/ proc[s] = "broke" /\ NoFault /\ ToCleanup(c, {"error"})
           \/ proc[s] # "inflight" /\ Fault /\ ToCleanup(c, {"error"})
           \/ Fault /\ ToCleanup(c, {"transport"})
    /\ UNCHANGED <<fileVars, hostVars>>

\* wait_ready_many, then the senders.
WaitReady(c) ==
    /\ pc[c] = "ready"
    /\ \/ /\ NoFault /\ proc[Slot(c, "receiver")] = "running"
          /\ Goto(c, "journal", [ctl[c] EXCEPT !.role = "sender"])
       \/ /\ NoFault /\ proc[Slot(c, "receiver")] # "running"
          /\ ToCleanup(c, {"error"})
       \/ Fails(c)
    /\ UNCHANGED <<fileVars, hostVars>>

\* Mutant: the receivers are not waited for.
Finished_SenderOnly(c) == proc[Slot(c, "sender")] \in {"exited", "running"}

\* The exit codes are all 0; endless traffic has survived its window.
Finished(c) ==
    \A r \in Roles :
        proc[Slot(c, r)] = IF Current(c) \in Bandwidth THEN "running" ELSE "exited"

\* A nonzero exit code, or any where the traffic should go on.
EndedEarly(c) ==
    \E r \in Roles : \/ proc[Slot(c, r)] = "broke"
                     \/ proc[Slot(c, r)] = "exited" /\ Current(c) \in Bandwidth

Wait(c) ==
    /\ pc[c] = "wait"
    /\ \/ NoFault /\ Finished(c) /\ ToCleanup(c, {})
       \/ NoFault /\ EndedEarly(c) /\ ToCleanup(c, {"error"})
       \/ Fails(c)
    /\ UNCHANGED <<fileVars, hostVars>>

\* The finally block, host by host: final exit codes, then stop_many, also
\* when the exit codes could not be read.
Stop(c) ==
    /\ pc[c] = "stop"
    /\ \/ ctl[c].todo = {} /\ NoFault /\ Advance(c, "verify") /\ UNCHANGED proc
       \/ \E r \in ctl[c].todo :
            LET Done(es) == Goto(c, "stop", [ctl[c] EXCEPT !.todo = @ \ {r},
                                                           !.errors = @ \cup es])
            IN  \/ NoFault /\ Stops({Slot(c, r)}) /\ Done({})
                \/ /\ Fault /\ Stops({Slot(c, r)})
                   /\ \E e \in {"error", "transport"} : Done({e})
                \/ /\ Fault /\ StopsSome({Slot(c, r)})
                   /\ \E es \in {{"cleanup"}, {"cleanup", "transport"}} : Done(es)
    /\ UNCHANGED <<fileVars, missed>>

\* The processes whose environment holds a token of this attempt.
Seen(c) == {r \in Launched(c) : Alive(Slot(c, r))}

\* verify_traffic_stopped.
Verify(c) ==
    /\ pc[c] = "verify"
    /\ \/ /\ NoFault
          /\ Goto(c, "collect", [ctl[c] EXCEPT !.errors =
                 @ \cup IF Seen(c) = {} THEN {} ELSE {"cleanup"}])
       \/ Fault /\ Goto(c, "collect", [ctl[c] EXCEPT !.errors =
                 @ \cup {"cleanup", "transport"}])
    /\ UNCHANGED <<fileVars, hostVars>>

\* Mutant: a lost connection does not end the run.
CanContinue_AnyTransport(es) == es \cap {"cleanup", "interrupt"} = {}

\* Only errors that leave no process behind let the run go on.
CanContinue(es) == es \cap {"cleanup", "transport", "interrupt"} = {}

Accepted(es) == es = {}

\* Counters and logs are collected; any error so far fails the task.
Collect(c) ==
    /\ pc[c] = "collect"
    /\ \/ /\ NoFault
          /\ IF Accepted(ctl[c].errors) THEN Advance(c, "validate") /\ UNCHANGED disk
             ELSE Failed(c, CanContinue(ctl[c].errors))
       \/ \E e \in {"error", "transport"} :
              Fault /\ Failed(c, CanContinue(ctl[c].errors \cup {e}))
    /\ UNCHANGED <<count, journal, damaged, hostVars>>

\* collect_and_validate; what it refuses fails the task, not the run.
Validate(c) ==
    /\ pc[c] = "validate"
    /\ \/ /\ NoFault
          /\ Completed(c, [st |-> "completed", attempt |-> AttemptOf(c),
                           files |-> AttemptOf(c)])
       \/ Fault /\ Failed(c, TRUE)
    /\ UNCHANGED <<count, journal, damaged, hostVars>>

-------------------------------------------------------------------------------
(* The hosts, and what can happen at any time.                             *)

\* A request arrives, also one nobody waits for any more.
Land(s) ==
    /\ proc[s] = "inflight"
    /\ proc' = [proc EXCEPT ![s] = "starting"]
    /\ NoFault /\ UNCHANGED <<lock, fileVars, pc, ctl, missed>>

WritePid(s) ==
    /\ proc[s] = "starting"
    /\ proc' = [proc EXCEPT ![s] = "running"]
    /\ NoFault /\ UNCHANGED <<lock, fileVars, pc, ctl, missed>>

\* The trace is sent, then received.
Exit(s) ==
    /\ proc[s] = "running" /\ s[1] \notin Bandwidth
    /\ s[3] = "receiver" => proc[<<s[1], s[2], "sender">>] = "exited"
    /\ proc' = [proc EXCEPT ![s] = "exited"]
    /\ NoFault /\ UNCHANGED <<lock, fileVars, pc, ctl, missed>>

Break(s) ==
    /\ proc[s] \in {"inflight", "starting", "running"} /\ Fault
    /\ proc' = [proc EXCEPT ![s] = "broke"]
    /\ UNCHANGED <<lock, fileVars, pc, ctl, missed>>

\* A file of an attempt that some entry has checksums of is changed.
Damage(t) ==
    /\ disk[t].files # 0 /\ Fault
    /\ damaged' = damaged \cup {<<t, disk[t].files>>}
    /\ UNCHANGED <<lock, disk, count, journal, hostVars, pc, ctl>>

\* The machine of the controller goes down, or its process is killed.
Crash(c) ==
    /\ pc[c] \notin {"off"} \cup Ends /\ Fault
    /\ EndAs(c, "crashed")
    /\ UNCHANGED <<fileVars, hostVars>>

\* KeyboardInterrupt, or a write to the state file that fails.  During traffic
\* the cleanup still runs; during the cleanup, or elsewhere in run_task up to
\* its return, nothing more does, and the task fails; outside of it the
\* controller ends.
Interrupt(c) ==
    /\ Fault
    /\ \/ pc[c] \in Traffic /\ ToCleanup(c, {"interrupt"}) /\ UNCHANGED disk
       \/ pc[c] \in Cleanup \cup {"attempt", "prepare", "validate"} /\ Failed(c, FALSE)
       \/ /\ pc[c] = "settle" /\ ctl[c].mem[Current(c)].st = "completed"
          /\ Failed(c, FALSE)
       \/ pc[c] \in {"recover", "shared", "begin"} /\ EndAs(c, "failed") /\ UNCHANGED disk
       \/ pc[c] \in Outcome /\ EndAs(c, "unsaved") /\ UNCHANGED disk
    /\ UNCHANGED <<count, journal, damaged, hostVars>>

\* The controller at work, while nothing goes wrong that need not.
Work(c) ==
    \/ Recover(c) \/ PrepareShared(c) \/ Begin(c) \/ NewAttempt(c) \/ Prepare(c)
    \/ CheckPorts(c) \/ Journal(c) \/ Send(c) \/ Answer(c) \/ WaitReady(c) \/ Wait(c)
    \/ Stop(c) \/ Verify(c) \/ Collect(c) \/ Validate(c) \/ WriteOutcome(c)

Hosts(s) == Land(s) \/ WritePid(s) \/ Exit(s)

Next ==
    \/ \E c \in Controllers : Start(c) \/ Work(c) \/ Crash(c) \/ Interrupt(c)
    \/ \E s \in Slots : Hosts(s) \/ Break(s)
    \/ \E t \in Tasks : Damage(t)

Spec == Init /\ [][Next]_vars

\* A controller waits for the answer to the request for s.
Awaited(s) == \E c \in Controllers : pc[c] = "answer" /\ s = Slot(c, ctl[c].role)

\* A controller goes on, and so do the processes on the hosts: the launcher
\* writes its PID file and a trace comes to its end.  A request arrives while
\* its controller waits for the answer; one that does not times out, a fault.
FairSpec ==
    /\ Spec
    /\ \A c \in Controllers : WF_vars(Work(c))
    /\ WF_vars(\E s \in Slots : WritePid(s) \/ Exit(s))
    /\ WF_vars(\E s \in Slots : Land(s) /\ Awaited(s))

-------------------------------------------------------------------------------
(* Properties.                                                             *)

\* While an attempt starts or measures, no process of another attempt is
\* alive, unless a recovery passed it over because it had no PID file yet:
\* whatever failed, crashed or was interrupted before.
TrafficAlone ==
    \A c \in Controllers : pc[c] \in Traffic \ {"ports"} =>
        \A s \in Slots : Alive(s) => \/ s \in missed
                                     \/ <<s[1], s[2]>> = <<Current(c), AttemptOf(c)>>

\* A completed task has the checksums of its own attempt, and that attempt
\* ran to its end: its trace was sent and received, or its endless traffic
\* was stopped by the controller and not before.
CompletedHonest ==
    \A t \in Tasks : disk[t].st = "completed" =>
        /\ disk[t].files = disk[t].attempt
        /\ \A r \in Roles :
              LET p == proc[<<t, disk[t].attempt, r>>]
              IN  IF t \in Bandwidth THEN p \in {"killed", "broke"} ELSE p = "exited"

\* A task that says "running" while nobody runs tells where a controller crashed,
\* or ended while it was writing the outcome of that very task: all other ends,
\* by an error, an interrupt or a failed write before, settle the task at hand.
StatusSettled ==
    \A i \in 1 .. Len(Plan) : lock = 0 /\ disk[Plan[i]].st = "running" =>
        \E c \in Controllers : pc[c] \in {"unsaved", "crashed"} /\ ctl[c].task = i

\* The runner reports success only when every task is completed and nothing
\* it started, nor anything started before, is still on a host or on its way.
SuccessStep ==
    \A c \in Controllers : pc'[c] = "succeeded" /\ pc[c] # "succeeded" =>
        /\ AllCompleted
        /\ \A s \in Slots : Alive(s) \/ proc[s] = "inflight" => s \in missed
SuccessHonest == [][SuccessStep]_vars

\* Data that was changed on disk is never taken for completed: when a controller
\* accepts a task, its files are as they were when it was measured.
ReuseStep ==
    \A c \in Controllers :
        pc'[c] = "settle" /\ pc[c] # "settle" /\ ctl'[c].mem[Current(c)].st = "completed" =>
            <<Current(c), ctl'[c].mem[Current(c)].attempt>> \notin damaged
ReuseChecked == [][ReuseStep]_vars

\* When nothing more goes wrong, the next resumed run completes every task,
\* whatever the earlier ones left behind, except for processes that its
\* recovery could not see: those may hold a port.
Recovering(c) == pc[c] = "recover" /\ ctl[c].errors = {} /\ faults = MaxFaults
ResumeCompletes ==
    (\E c \in Controllers : Recovering(c)) ~> (AllCompleted \/ missed # {})
===============================================================================
