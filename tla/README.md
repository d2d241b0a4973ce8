# Formal model of the RevisitPS artifact

TLA+ modules for the program of this repository, the TLC configurations that model-check
them, and proofs that TLAPS checks. They cover the transports, the switch buffer and the AI
workloads of the ns-3 simulator, the Python and shell code that runs its experiments, and the
controller of the testbed. All source paths are relative to `src/`; `model/` stands for
`simulation/src/point-to-point/model/`, `nlb/` for
`simulation/scratch/network-load-balance/`.

- [System inventory](#system-inventory)
- [Modules](#modules)
- [Runs](#runs)
- [Proofs](#proofs)
- [Disagreements found](#disagreements-found)
- [Order of the work](#order-of-the-work)
- [Not modelled](#not-modelled)

## System inventory

The repository compares load balancing schemes (per-flow ECMP, packet spraying, DRILL,
adaptive routing, Conga, Letflow, ConWeave) for RDMA networks under several loss-recovery
schemes, lossy or lossless. It holds a modified ns-3.19 simulator (`simulation/`), a testbed
runner for real switches (`testbed/`) and plotting code (`plot/`). The simulator's own logic
is about 13 000 lines in `model/` and `nlb/`; the rest of the C++ is stock ns-3.

| Component | State | Operations | What makes it correct |
| --- | --- | --- | --- |
| Sender queue pair (`rdma-hw.cc`, `rdma-queue-pair.*`) | `snd_nxt`, `snd_una`, timer, per-mode records of lost and selectively acknowledged packets | `AddQueuePair`, `GetNxtPacket`, `PktSent`, `ReceiveAck`, `HandleTimeout`, `NotifyPacketDrop`, `QpComplete` | never believes that more has arrived than has; sends again what is lost; completes once, after everything has arrived |
| Receiver queue pair (`rdma-hw.cc`) | expected number, NACK state, received blocks | `ReceiveUdp` with `ReceiverCheckSeq`, `GetRxQp`, `DeleteRxQp` | the expected number is the end of the received prefix; each reply is honest |
| Interval lists (`rdma-queue-pair.cc`) | sorted blocks | `sack`, `discardUpTo`, `peekFrontBlock`, `Insert`, `GetNextExpectedSeq` | the list is the canonical form of a set |
| Server NIC (`qbb-net-device.cc`) | round-robin position, pause flags, ACK queue | `GetNextQindex`, `DequeueAndTransmit`, `Receive`, `Resume`, `TakeDown` | only eligible queue pairs send; none starves |
| Switch buffer and PFC (`switch-mmu.cc`, `switch-node.cc`, `qbb-net-device.cc`) | byte counters, pause flags, PFC frames, egress queues | `DoSwitchSend`, `SwitchNotifyDequeue`, `CheckAndSendPfc`, `CheckAndSendResume`, pause timers, link failure | counters equal what is queued; overflow is charged to headroom; neighbours are warned before they overflow it |
| AI workload (`nlb/ai-workload-scheduler.cc`, `nlb/ai-workload-tracker.cc`) | round, state of each node, counters, JCT file | `StartFirstRound`, `OnFlowComplete`, `ScheduleNextRound`, `CheckGroupCompletionAndLogJct` | a node sends only what it has; rounds do not overlap and all end; a completion time is logged once, when the group is done |
| Experiment runner (`run.py`, `artifact/common/`) | `status.json`, `status`, manifest, history, output directories, `.status.lock` | init, resume, update, finalize, reset-tasks, task-skippable; drawing of config ids | a run reported completed is; no result is lost; a result can be traced to its output |
| Flow file (`run.py`, `traffic_gen.py`) | the file, its `.lock` | look, lock, generate, wait | generated once, read whole |
| Testbed (`testbed/framework`, `testbed/experiments/dcn_workload`) | `status.json` of a run id, attempts with journals, `testbed.lock`, processes on hosts | run, resume, recover, launch, wait, stop, verify, collect | no foreign traffic beside a measurement; a result is what was measured; success means success |
| Rate control (`rdma-hw.cc`) | rate stages and timers per queue pair, destination or lane | CNP handling, timers, `WakeupNextQpInLane` | rates stay in their range |
| Forwarding (`switch-node.cc`, `conga-*`, `letflow-*`, `conweave-*`) | flowlet tables, ConWeave epochs, reorder queues | route choice, flowlet aging, TAIL and reply packets | every packet is forwarded; reorder queues are flushed |

Interactions. A NIC polls its queue pairs (`GetNextQindex`) and sends what `GetNxtPacket`
builds. Switches forward packets in any order that load balancing produces; a switch without
room drops a packet and calls `NotifyPacketDrop` on the sender directly, or trims it to its
header (`DoSwitchSend`). The receiver answers; `ReceiveAck` may complete the queue pair, and
the completion callback `qp_finish` (`nlb/main.cc:834`) deletes the receiver's queue pair at
once, without a message, and tells the `WorkloadTracker`, which may start the next flows. A
switch port over its threshold sends PAUSE to its neighbour, whose device stops its data queue
until a RESUME or a timer.

`run_experiments.sh` opens a run directory, starts `run.py` in a background subshell for each
task and waits for them; the subshells, `run.py` and the commands of `run_status.py` share
files under several locks. On the testbed one controller at a time works on a run id; it
launches processes on hosts over SSH and learns from files and exit codes what became of them.

What is hard. The simulator runs on one thread, but its events interleave as in a distributed
system: messages of one flow overtake each other, timers race answers, queue pairs are deleted
while packets are on their way. The experiment runner is concurrent in the ordinary sense and
its machine may stop at any time. The testbed adds requests that time out and are carried out
later, hosts that fail one by one, and interrupts. `PROJECT.json` lists the
hazards at their lines.

## Modules

| Module | Models | Source |
| --- | --- | --- |
| `ReliableTransfer` | abstract service: packets arrive in any order, completion is reported once, when all have arrived | what `qp_finish` records |
| `RoceTransport` | loss recovery 0 (go-back-N) and 3 (ideal), back-to-zero, adaptive-routing receiver | `model/rdma-hw.cc`, `model/rdma-queue-pair.cc` |
| `IrnTransport` | loss recovery 1 (IRN) | the same |
| `DcpTransport` | loss recovery 2 and 4 (DCP, DCP with ACK optimisation) | the same, and `model/switch-node.cc` for trimming |
| `SackBlocks` | `IrnSackManager` and `RecvBlockTracker` as lists of blocks, next to sets; a pass of a loop is a step | `model/rdma-queue-pair.cc` |
| `SwitchMmu` | buffer accounting, admission, PFC with one neighbour per port | `model/switch-mmu.cc`, `switch-node.cc`, `qbb-net-device.cc` |
| `WorkloadTracker` | rounds of all-to-all(-v), ring and tree all-reduce | `nlb/ai-workload-*.cc` |
| `RunStatus` | a run directory shared by drivers, workers and reset-tasks | `artifact/common/run_status.py`, `run_manifest.py`, `run_tracking.sh`, `run.py` |
| `TrafficFile` | the flow file and its lock file | `run.py`, `traffic_gen/traffic_gen.py` |
| `TestbedRun` | the controllers, attempts and processes of one testbed run | `testbed/framework/`, `testbed/experiments/dcn_workload/scripts/run.py` |
| `MC...` | instances for TLC: several settings in one run, values of constants | |
| `MCTransportLive` | the three transports side by side, for liveness | |
| `RoceTransportProofs`, `IrnTransportProofs`, `DcpTransportProofs`, `SackBlocksProofs`, `SwitchMmuProofs`, `RunStatusProofs` (with the flow file), `TestbedRunProofs`, `WorkloadTrackerProofs` | theorems | |

### The transports

Each models one queue pair end to end: sender, network, receiver. The state is that of
`RdmaQueuePair` and `RdmaRxQueuePair`, the number of copies of each data packet and each
reply in the network, and a history variable `delivered`. Actions are the handlers:
`GetNxtPacket` (with `PktSent`), `ReceiveAck` (with `QpComplete` and `qp_finish`),
`HandleTimeout`, `ReceiveUdp` (one operator per branch of `ReceiverCheckSeq`), and the
switch's `SwitchDrop` or `Trim` with the call to `NotifyPacketDrop`; `LoseData`, `LoseAck`
and `LoseHeader` are silent link losses (`QbbNetDevice::Receive`).

Abstractions, and why they keep what the properties tell apart:

- Sequence numbers count packets. The sender cuts a flow into `min(mtu, bytes left)` and
  every number in a packet or reply is one of these boundaries. Chunks are whole numbers of
  packets, as in the artifact (4000 bytes of 1000).
- The network delivers any copy at any time, which covers every load balancing scheme and
  every queueing delay.
- Timers are untimed: a running timer may expire at any moment. Timeouts that are too early
  are therefore always possible, also with PFC.
- Rates (`m_nextAvail`, `UpdateNextAvail`) and PFC pauses only delay `GetNxtPacket`. No
  safety property depends on them, and under fairness the queue pair is served in the end.
- `m_irn_sack_`, `irn.m_sack` and `m_recvTracker` are sets. `SackBlocks` runs the loops of the
  code's lists, a pass to a step, and it is proved that between two calls the lists are such
  sets and that the queries return what the transports assume.
- `m_milestone_rx` is reset to the ACK interval by `ReceiveUdp` on every packet, so it
  carries no state.
- `irn.m_recovery_seq` is not initialised by the constructor: `IrnTransport!Init` lets it be
  any number. `GetOnTheFly` and `GetIrnBytesInFlight` keep their unsigned wrap where they
  can reach it.
- A completed queue pair keeps its variables, because the NIC's group still holds it;
  `SilentStep` says that nothing of it is sent again, but for a drop that was reported before.
- The NS_ASSERTs of the code are compiled out of the optimised build that the README of the
  repository uses, so the models go on where they would stop; the ones that say something
  about the protocol are properties (`SndOrder`, `RxSackAboveExpected`, `RetransmissionKnown`).

### The switch buffer

`SwitchMmu` keeps the code's counters, one queue per egress port, the pause flags, the
scheduled resume events, and, for each port, the PFC frames on the way to the neighbour and
the neighbour's pause flag. `DoSwitchSend` checks both admissions, then stores, trims or
drops; `Store` updates both sides and runs `CheckAndSendPfc`; `SwitchNotifyDequeue` removes
and runs `CheckAndSendResume`; `PauseExpires` and `StopExpires` are the timers at the two
ends; `TakeDown` is a link failure. Byte values are the code's (MTU 1048, header 48).
`m_buffer_cell_limit_sp` is computed as `InitSwitch` does it, with its sum over the ports
0 .. n-1. `paused` and `m_pause_remote` are never initialised: with `Garbage` they start
with any value.

One data class is enough because all flows are of priority group 3 and queue 0 bypasses the
accounting; two pairs of counters then coincide and are kept once. Arrivals do not depend
on whether the neighbour is stopped, since packets may be on the wire for any time. PFC
frames are not lost.

### The AI workloads

`WorkloadTracker` keeps the workload, which is chosen at the start, the round, the counters of the
round and of each group, the `NodeState` of a ring and the `TreeNodeState` of a tree, the number
of flows in flight on each ordered pair of nodes, and the JCT lines. `OnFlowComplete(l)` is one
call of the tracker for a completed flow of pair `l`, with everything it starts: the next flows of
the two nodes it touches, the count of finished nodes, the JCT line, and, at the end of a round,
`ScheduleNextRound`. A flow completes at any time. That a transport reports a flow once, after all
its packets have arrived, is what `ReliableTransfer` promises. Data is counted, not identified:
`data` is how many pieces a node has and has not sent. A node is its group and its place; nodes of
different groups exchange nothing.

### The experiment runner

`RunStatus` is one run directory. A driver goes through `artifact_tracking_init` (`Open` or
`Resume`), `PrepareFiles`, `Submit` for each task, and `Finalize` at the end or on a signal
(`Interrupt`). The subshell of a task (worker) marks it running, draws a config id, makes the
output directory, appends history and manifest, simulates and records the outcome. Each step
is one critical section or one file operation, so that every interleaving of the code's
critical sections is one of the model: `command_update` takes two steps because `save_state`
replaces `status.json` and then `status`; `reset-tasks` takes four. `run.py` looks for a free
config id long before it makes the directory (`DrawConfig`, `MakeDir`).

`Crash` ends every process and frees the locks (they are `flock`s). Files that are replaced by
`atomic_write` survive; a file that is truncated and written again (manifest, history) may be
found empty. Locks on the manifest and the history are held for one write only and are part
of the step that makes it.

`TrafficFile` is the loop of `run.py` around the flow file: look, make the lock file with
`O_EXCL`, look again, run `traffic_gen.py`, remove the lock; the others look for the file and
for the lock file in two steps. `traffic_gen.py` opens the file and closes it much later. A
process may be killed at any point, and a generation may fail; the lock file then stays, or is
removed by the `finally`.

### The testbed

`TestbedRun` is one run id. A controller takes `testbed.lock` or gives up, recovers what the
journals of earlier attempts name if it was started with `--resume`, prepares, and works
through the plan: it writes "running", makes an attempt directory, takes over the results of a
completed task when their checksums still match, else runs the attempt (`execute_connections`:
ports, receivers, senders, wait, stop, verify, collect). What came of it is in the memory of
the controller first (`Completed`, `Failed`) and goes to `status.json` in a step of its own
(`WriteOutcome`), which in the code is a `persist` outside of the try block: after it
(`runner.py:512`) or in its handler (`runner.py:505`). Between the two a controller may crash,
or end by an interrupt or a failed write ("unsaved"), and the file still says "running". A
launch is four steps: the intent in the journal, the request, its arrival at the host (`Land`),
the PID file (`WritePid`); a request may time out at the controller and arrive afterwards.
`Exit` and `Break` are the ends of the traffic programs. Any step that can fail in the code can
fail in the model, at one host or both; `Interrupt` is Ctrl-C, or a write of the state file
that fails: during traffic it leads to the cleanup, elsewhere in `run_task`, up to its return,
it fails the task, and anywhere else it ends the controller at once; `Crash` loses the
controller's memory and its lock, and leaves the hosts as they are; `Damage` changes result
files on the disk.

One connection per attempt is enough for the order of steps and for partial failures of two
hosts. Text parsing is abstracted to "the output is complete or it is not".

## Runs

Every cfg names its bounds. The MC modules look at several settings in one run: a variable is
chosen at the start and never changes, and each setting is an `INSTANCE` of the component with
other options. A property that holds under some settings only says so in the MC module.

| Run | Instance | Shows |
| --- | --- | --- |
| `RoceSafety` | 3 packets, 2 copies; go-back-N with window 3, drops and link loss; back-to-zero with chunks of 2 and of the whole flow; adaptive routing with delayed ACKs; ideal recovery: five settings | `NoFalseAck`, refinement of the service; silence after completion; drop reports lose no packet; a timeout counted as spurious has lost nothing |
| `IrnSafety` | 4 packets, BDP 2; both receivers, the plain one with link loss or PFC, the adaptive one with and without PFC; block lists over 0 .. 5 | beliefs of the sender, `BdpLimit`, both assertions, refinement; the lists are canonical sets and their queries agree |
| `DcpSafety` | 3 packets, no link loss; adaptive with window 2, plain and mode 4 with window 3 | beliefs, known retransmissions, nothing forgotten by trimming, silence after completion, refinement, under early timeouts |
| `TransportLive` | RoCE 3 packets (go-back-N with link loss, adaptive, ideal); IRN 3 packets (four settings); DCP 2 packets (adaptive over lossy links, mode 4 without a window) | every flow completes; with ideal recovery although the timer need not fire, with PFC although the timer of IRN has no effect, in mode 4 without any timeout |
| `MmuSafety` | 3 ports, incast; PFC with packets of two sizes (2 per queue); PFC with any initial flags and trimming without PFC (4 per queue); links that fail (3 per queue) | exact counters while links are up, overflow charged to headroom, warned neighbours; the last two also after link failures |
| `RunStatus` | 2 tasks of 2 recipes, 2 drivers, 3 config ids, 2 troubles (crashes, signals, resets, overlapping starts), a new run or one of an earlier release; flow file with 3 processes and 2 failures | a completed run is complete; config ids are distinct; completed tasks can be traced; results are kept; reset-tasks spares what is running; a quiet run is closed; the flow file is never rewritten and never missing |
| `Testbed` | 2 tasks (a trace, a bandwidth test), 3 controllers, 2 faults | no foreign traffic beside a measurement; a completed task was measured to its end; "running" is left only by a crash, or at the task whose outcome was being written; success is honest; damaged results are not reused; a resumed run completes |
| `Workload` | ring, all-to-all and all-to-all-v with an empty message: 3 nodes in 2 groups, 3 rounds; tree of one group of 5, up to 12 flows | a node sends what it has; rounds do not overlap and all end; JCT lines once and honest; no node of a tree is counted twice |

The other four runs, `DcpSndOrder`, `FlowFile`, `RunStatusResume` and `WorkloadTree`, each
find one violation, see [Disagreements found](#disagreements-found).

Bounds and why they are enough. `MaxCopies` bounds the copies of one message in the network:
an action that would exceed it waits. One copy is enough for loss, reordering and for a
retransmission that crosses an old reply; the safety run of RoCE has two. Flows have two to
four packets: enough for a hole, a packet beyond it, and one before it. In the switch runs the
pool holds two packets, so that the pause and the resume threshold, the pool limit and the
headroom limit are all crossed with at most eight packets; the formulas are the code's. In
`RunStatus` two drivers with two tasks reach a worker of an ended driver beside those of the
next one, a resumed run, and a reset between them; its symmetry set is the two config ids
that no earlier run has. Three controllers are a first run, one that fails while recovering
or reusing, and one that completes; two faults are one in the attempt and one in its cleanup.
A ring of three has a node that neither sent nor received the completed flow; two groups make
the end of one group and of the round different events. The tree has five nodes because two
flows can end the same broadcast only at a node that is not the root and has two children, and
12 flows are enough to get there. `DcpSafety` has a window and no link loss because two
of its properties need both; the others are proved without these hypotheses, and `TransportLive`
runs DCP with lossy links and without a window. The lists over 0 .. 5 hold three blocks that do
not touch, so that a new block can cover one, end in another and begin in a third.

`CHECK_DEADLOCK FALSE` is set wherever the system ends: a completed flow with an empty network
has nothing left to do, all links may be down, all drivers or controllers have ended, the last
round is over.

Fairness.

- Transports. The NIC drains an eligible queue pair (its round robin visits every one): weak
  fairness of `GetNxtPacket`. A message that is sent again and again is delivered at some
  time: strong fairness of each receive action, per sequence number; loss of every copy is not
  something the simulator's random error model does, and a switch queue drains in the end. A
  scheduled timer event runs: weak fairness of `HandleTimeout`, left out where the code
  promises to do without it (ideal recovery, mode 4). Back-to-zero is not in `TransportLive`: a
  last chunk that the flow does not fill is never acknowledged, and an untimed timer that
  always runs out before the last packet of a chunk keeps the flow from completing, which a
  timer of milliseconds does not do.
- Workloads. A started flow completes (`TransportLive` shows it of the transports): weak
  fairness of `OnFlowComplete` per pair, and of the start of the first round.
- Testbed. A controller that is at work goes on (`Work(c)`), hosts write PID files and end
  traces (`WritePid`, `Exit`), and a request that a controller waits for arrives (`Land` with
  `Awaited`): weak fairness of each. Requests that were given up, starts of controllers, faults
  and interrupts have none.

## Proofs

| Module | Theorem | Statement |
| --- | --- | --- |
| `RoceTransportProofs` | `Invariance`, `TypeCorrect`, `SendOrderKept`, `NoFalseAcknowledgement` | `IInv`, `TypeOK`, `SndOrder`, `NoFalseAck` always hold |
| | `Refinement` | `Spec => ImplementsReliableTransfer` |
| | `CompletedSilent` | `CompletedStaysSilent`, in every mode |
| | `IdealForgetsNothing`, `TimeoutsCorrect` | `NothingForgotten`, with ideal recovery and adaptive routing; `SpuriousStep`; both without link loss |
| `IrnTransportProofs` | `Invariance`, `TypeCorrect`, `BeliefsCorrect`, `AssertionsCorrect`, `BdpLimitCorrect` | `IInv`, `TypeOK`, `BeliefsHonest`, `AssertionsHold`, `BdpLimit` always hold, for both receivers |
| | `Refinement`, `CompletedSilent` | `ImplementsReliableTransfer`; a completed queue pair never sends |
| `DcpTransportProofs` | `Invariance`, `TypeCorrect`, `BeliefsCorrect` | `IInv`, `TypeOK`, `BeliefsHonest` always hold |
| | `TrimmingForgetsNothing`, `SilentWithWindow` | `NothingForgotten` without link loss; `SilentStep` with a window |
| | `Refinement` | `Spec => ImplementsReliableTransfer` |
| `SackBlocksProofs` | `Invariance`, `TypeCorrect` | `IInv`, `BlocksTypeOK` always hold |
| | `ListCorrect`, `TrackerCorrect`, `AssertionsHold`, `QueriesCorrect`, `ExpectedCorrect` | `ListIsSet`, `TrackerIsSet`, `SackAssertions`, `QueriesAgree`, `ExpectedIsFirstGap` always hold |
| | `ListsAreSets` | all of these: `ListsCorrect` |
| `SwitchMmuProofs` | `Invariance`, `TypeCorrect`, `CountersCorrect`, `OverflowCharged`, `NeighboursWarned` | `IInv`, `TypeOK`, `CountersExactWhileUp`, `OverflowInHeadroom`, `DeepHeadroomPaused` always hold |
| `RunStatusProofs` | `Invariance`, `TypeCorrect`, `CompletedCorrect`, `MutualExclusion`, `StatusFilesAgree` | `IInv`, `TypeOK`, `CompletedIsComplete`, `OneOwner`, `StatusAgrees` always hold |
| | `ConfigsCorrect`, `TraceCorrect`, `ResetCorrect`, `QuietCorrect`, `ResultsCorrect` | `ConfigsDistinct`, `Traceable`, `ResetSparesRunning`, `QuietIsClosed`; `ResultsKept` |
| | `GenerationExclusive`, `NobodyWaitsInVain`, `FileIsThere`, `CompleteKept` | of the flow file: `OneGenerator`, `WaitersServed`, `StartsWithFile`; `NeverRewritten` |
| `TestbedRunProofs` | `Invariance`, `TypeCorrect`, `AloneCorrect`, `CompletedCorrect`, `SettledCorrect` | `IInv`, `TypeOK`, `TrafficAlone`, `CompletedHonest`, `StatusSettled` always hold |
| | `SuccessCorrect`, `ReuseCorrect` | `SuccessHonest`, `ReuseChecked` |
| `WorkloadTrackerProofs` | `Invariance`, `TypeCorrect` | `IInv`, `TypeOK` always hold, for all four workloads |
| | `SendsInOrder`, `RoundsKeptApart`, `JctCorrect` | `SendsWhatItHas`, `RoundsApart`, `LoggedOnceWhenDone` |
| | `CountedCorrect` | `CountedOnce` of a tree |

They hold for all values of the constants that the modules' assumptions allow (`RoceAssumption`,
`IrnAssumption`, `DcpAssumption`, `SackAssumption`, `MmuAssumption`, `RunAssumption` with
`OldRunAssumption`, `TrafficFileAssumption`, `TestbedAssumption`, `WorkloadAssumption`): any flow
size, window, BDP limit, chunk, options and number of copies; blocks of any numbers; any number of
ports, routes, packet sizes up to the MTU, buffer and headroom limits and initial pause flags; any
tasks, drivers, config ids, earlier run and number of troubles; any number of processes and kills;
any plan, controllers and faults; any number of groups, nodes and rounds. No theorem uses
fairness. Each inductive invariant was checked by TLC on the instance of its run before it was
proved.

**RoCE.** `NoFalseAck` is not inductive. `IInv` adds that every number below the receiver's
expectation has been delivered, that every ACK and NACK in the network carries a number that,
rounded as the sender will round it, is at most the rounded expectation, and that a completed flow
has delivered every packet. Back-to-zero is what makes this delicate: the receiver rolls its
expectation back by rounding down, so an ACK on its way may be ahead of it, and only the sender's
rounding closes the gap; the chunk lemmas carry that argument. In ideal mode a drop that was
reported and not yet sent again may be left at completion, and its retransmission goes out if the
window still allows it; `CompletedSilent` says that nothing else does, in any mode.
`IdealForgetsNothing` and `TimeoutsCorrect` concern packets that are lost. Both rest on three
facts: a receiver with adaptive routing discards nothing, an acknowledgement or a timeout adds
nothing to what is outstanding, and a packet joins it on its way. The records of drops do the
rest, `dropped` packet by packet, and `arDrop` because a missing packet is never past it
(`DropsRecorded`): it is cleared only by an acknowledgement that passed it, or by a timeout that
takes everything back.

**IRN.** The invariant ties three views of the flow together. The receiver's: it has taken what
lies below its expectation and what it holds, and the expected packet is missing (`Taken`,
`ReceiverExact`, `RxSackAboveExpected`). The replies': a cumulative number never exceeds the
expectation, and a packet that is named has been taken (`RepliesHonest`). The sender's:
`highestAck <= sndUna <= sndNxt` (`SenderOrder`) and no packet past `maxSeq` was ever sent
(`SentUpTo`). From these follow the beliefs, including the case in which the sender jumps over
a block of its list because its first packet is the one a reply acknowledges: that the block's
end is at most the receiver's expectation is where all three views are needed. `BdpLimit` is
kept by the skip in `GetBytesLeft` because it passes over acknowledged packets, which have been
delivered and do not count. Where the code takes the end of a block, the definitions choose the
least packet that is not in a set; that there is one is proved from the well-foundedness of `<`
(`LeastNatural`), and what the choice returns is all the proofs use.

**Interval lists.** Each loop has an invariant over the list as one pass leaves it. While `sack`
looks for the place (`PlaceInv`), the blocks are in order, all that were passed end before the
rest of the new block, and either no two blocks touch or the rest begins where the block just
passed ends: the code puts in pieces that touch their neighbours, and the early return, which
skips the merging, is sound only because in that second case no block can contain the rest. The
merging (`MergeInv`) leaves what it has passed apart, and the rest in order, which is the code's
assertion. `Insert` walks on while blocks can reach the growing one; what it has passed ends
before both the growing block and all that is to come (`AbsorbInv`), so starting one block before
`lower_bound` and breaking at the first block beyond the end loses nothing. With each goes the
equation between the history set and the blocks plus what is still to be put in. Between calls the
list is thus the canonical form of its set, and `QueriesAgree` and `ExpectedIsFirstGap` follow:
the end of a block is in no block (`GapAfter`), so a run of consecutive numbers cannot leave the
block it begins in.

**DCP.** What makes a NACK count is the sender's record of sizes in flight, so the invariant
keeps every outstanding packet in that record (`OutstandingKnown`): a timeout empties the record
and takes `snd_nxt` back to `snd_una` in the same step. With it, no number in the network ahead of the
receiver (`AcksBounded`), and completion exactly at the end of the flow (`DoneAtEnd`),
`NothingForgotten` is inductive without link loss. With link loss, or without a window for the
silence after completion, the statements are false, which is what the two hypotheses say.

**Switch buffer.** The counters are updated one packet at a time, so the proof has to say how a
sum over a queue, and a sum over the ports, changes with one of its terms. `SumTo` is a recursive
function; that its partial sums exist, are unique and grow, change, extend and shift with their
terms (`SumsExist`, `SumsUnique`, `SumChanged`, `SumExtended`, `SumShifted`) is proved by looking
at the least index where it would be otherwise (`LeastNatural`), since a proof by induction is
out of reach. The invariant then says that the counters are never less than what is queued
(`QueuedCounted`), because `TakeDown` drops packets and leaves their bytes counted, and that they
are equal while no link was down (`ExactWhileUp`); that the pools are the sums of the ports
(`PoolsAreSums`); that the guaranteed minimum of a queue is filled first and emptied last
(`MinimumFirst`), which is why a packet that was split between minimum and shared pool on entry
can be split anew on exit; and that a port's headroom is part of its bytes (`HeadroomWithin`),
although the packet that leaves need not be the one that was charged. `DeepHeadroomPaused` rests
on the last: a port that uses more headroom than two packets has more bytes than its two minima,
so the `CheckAndSendPfc` that follows the counting sends the PAUSE, and only one that sees an
empty headroom clears `m_pause_remote`.

**Run directory.** `CompletedIsComplete` rests on the guard of `command_update` (a run that is
not "running" takes no update) and on the recount in `command_finalize`, `command_resume` and
`reset-tasks`. `OneOwner` (who is between two writes of `save_state` holds the lock, and nobody
else is) is what lets a second write copy the first one's state: no other command has changed it
in between. On this basis there are three layers.

- Any run: `RunningHasWorker` and `OpenHasDriver`, that an entry that says running has a worker
  and an open run a driver while nothing crashes and nobody interrupts; they give `QuietIsClosed`.
- As long as no reset ran beside a simulation it does not know of: `ConfigsOwned`, that a config
  id belongs to one entry or one worker, and has a directory; `ConfigsDistinct` follows. The look
  for a free id and the making of the directory are apart, and it is the exclusive `mkdir` that
  decides.
- Drivers that come one after the other (`Alone`): `AloneInv` follows a config id from the
  worker to the manifest, the history and the entry (`RowOfWorker`, `RowsToCome`, `RowsTraced`,
  `CompletedTraced`), and says that `reset-tasks`, once it has looked, removes nothing that is
  running (`ResetCareful`). It gives `Traceable`, `ResetSparesRunning` and `ResultsKept`.

`OldRunAssumption` says what a run directory of an earlier release looks like when it is taken
over: closed, with config ids drawn apart. The third layer starts from it.

**Flow file.** The invariant says that the lock file belongs to the process that generates
(`OwnerGenerates`), that only the owner's file is partial (`WriterAlone`), that who has seen
the file can rely on it while nothing fails (`FileFound`), and the properties themselves.
That the file is complete and not written again follows from the second look under the lock.

**Testbed.** At most one controller is between its start and its end, and it holds the lock
(`Holder`). Its memory is what is on the disk, but for the task that it begins and, until the
outcome is written, the one it has just ended (`MemOnDisk`); its attempt has the highest number
of its task, so no earlier entry names it (`AttemptCurrent`, `AttemptsKnown`); and no process
exists that no journal names (`LaunchesKnown`). On this rest

- `Quieted`: a process that can still send was passed over by a recovery, or the controller at
  work will recover it, or it is of the attempt at hand, and once the attempt is being
  collected the errors keep the controller from going on; it may be left when the error ends
  the run. Hence `TrafficAlone` and half of `SuccessHonest`. The other half of the argument is
  `NoStray`: a request that nobody waits for any more left a transport error or an interrupt
  behind.
- `HonestDone` and `CleanRun`: an attempt without an error has ended, or is bandwidth traffic
  that the controller is about to stop; what is completed in memory only has ended as well.
  Hence `CompletedHonest`.
- `Progress` and `Settled`: the tasks before the one at hand are completed if none has failed,
  the outcome at hand is one or the other, and what a controller knows to be running is its
  own task or one at which an earlier controller was lost: it crashed, or could not write the
  outcome (`LostAt`). Hence the rest of `SuccessHonest`, and `StatusSettled`.

The steps of a controller are many and change much at once. The proof names for each kind of
step what all invariants need to know of it (`DidStart`, `DidBegin`, `DidGoOn`, `DidStop`,
`DidJudge`, `DidWrite`, ...); `Kinds` shows that every step is of one kind, and each invariant
is shown to be kept by the kinds.

**Ring.** `RingInv` relates a node to its predecessor: the data a node has, and has sent, is one
more than what its predecessor has finished; a pair has one flow in flight exactly when its
first node is sending; the counters are the cardinalities of the sets of nodes that are done.
A node that is done has finished all its steps and sends nothing, so when the last one is
counted no flow of the round is left, which is `RoundsApart`; the same within a group is
`JctHonest`. That a line is written once (`JctOncePerRound`) needs the converse too: a group whose
nodes are all done has been logged, and the node that is counted was not done before (`LinesOK`).

**All-to-all.** `PairInv` counts pairs instead of nodes: a pair has at most one flow in flight,
the counters are the numbers of pairs with data whose flow has ended, and a group has its line
exactly when these are all its pairs. The code compares with a product, `m_total_flows_per_group`;
that a group has n (n - 1) pairs, and all groups together the product with their number, is shown
by bijections (`LinksOfCounted`, `LinksCounted`). With an empty message the count stays below it,
so `LoggedOnceWhenDone` says of all-to-all-v that nothing is logged early; that such a round never
ends is in the list of disagreements below.

**Tree.** A tree has more flows in flight than its edges account for, so what can be relied on is
the mark of a node and not the flows: the count of a group is the number of its nodes whose
broadcast is done (`TreeInv`), because the handler looks at the mark before it counts
(`CastEnds`). Hence `CountedOnce`, although two flows may end the broadcast of one node.

Only model-checked is liveness: `EventuallyComplete`, `ResumeCompletes` and `AllRoundsEnd` (fairness
is out of the prover's reach here). Three properties of runs are definitions of an MC module,
because they hold under some of its settings or on an instance with other constants, and the
theorem is about what they wrap: `IdealForgetsNothing` (theorem `IdealForgetsNothing`),
`AdaptiveTimeoutsClassified` (`TimeoutsCorrect`) and `TreeCountedOnce` (`CountedCorrect`).
Conversely, the type invariants of RoCE, DCP, `SackBlocks`, `RunStatus` and `WorkloadTracker`,
`SndOrder` of RoCE, the silence of IRN, `OneOwner` and `StatusAgrees` of `RunStatus`, and
`OneGenerator` and `WaitersServed` of `TrafficFile` are proved and not listed in a cfg.

## Disagreements found

Four runs show the program disagreeing with an assertion, a comment or a document:

- `DcpSndOrder`: the assertion of `GetOnTheFly` fails in DCP after an early timeout.
- `FlowFile`: "with file locking for concurrent safety" (`run.py:666`): a second simulation
  starts with a flow file that is still being written.
- `RunStatusResume`: "To continue an interrupted run ... add `--resume`" (`README.md:66`):
  after a crash a resumed run skips the tasks that were running, which nobody works on.
- `WorkloadTree`: "2*(N-1)" flows per group (`ai-workload-tracker.cc:101`): the tree
  all-reduce takes a flow to a child for one to a parent, and starts more.

Noted while modelling and not a run:

- `rdma-hw.cc:418` says "just drop", but late data recreates a deleted receive queue pair.
- `switch-mmu.cc:142`: headroom is limited by a test before the packet is added, so it may
  exceed its limit; a RESUME may reach a queue that is no longer paused, against the assertion
  in `QbbNetDevice::Resume`; `TakeDown` leaves the bytes of the packets it drops in the
  switch's counters; the loop that sums headroom skips the last port.
- `discardUpTo` returns bytes where its comment (`rdma-queue-pair.h:56`) says blocks.
- An IRN receiver with adaptive routing answers with ACKs, and the IRN sender asserts NACKs
  (`rdma-hw.cc:693`). IRN with PFC on a link that silently loses packets never recovers.
- Plain DCP without adaptive routing cannot get past a window smaller than the flow.
- Ctrl-C or a failed write in the `persist` after a task (`runner.py:512`), or in the one of the
  handler (`runner.py:505`), ends the testbed runner with "running" in `status.json`, even when
  the task was completed; the next `--resume` measures it again. `StatusSettled` says that
  nothing else but a crash does this, and only to that task.
- A killed process leaves the lock file of a flow file for good (`run.py:676`); a resumed
  testbed run prepares before it looks whether a task is completed (`runner.py:495`), so that
  a failed preparation turns a completed task into a failed one; processes of the check stage
  have journals that the recovery does not read.
- Workload 4 has no branch in the scheduler (`main.cc:2713`), a tree round never ends
  (`ai-workload-tracker.cc:418` is reached by rings only), and an all-to-all-v with an empty
  message never ends, because the message is counted and not sent.

## Order of the work

`ReliableTransfer`, `RoceTransport` with its proofs, `IrnTransport`, `DcpTransport`,
`SackBlocks` and `SwitchMmu` came first: they decide whether the simulator's results mean
anything. Then `RunStatus`, `TrafficFile` and `TestbedRun`, where real concurrency and crashes
are, and `WorkloadTracker`, which composes flows. Every safety
property that a run checks now has its theorem; what is left is liveness, which stays with TLC,
and the parts below.

## Not modelled

- Stock ns-3, which is most of the repository's lines (nearly all of its Python are generated
  bindings, `modulegen__gcc_*.py`): third-party code that the artifact does not change. Of the
  Python that the authors wrote, the analysis and plotting scripts are stateless conversions.
- Rate values of DCQCN, HPCC, TIMELY and DCTCP are real arithmetic; they, the destination
  count `m_activeQps` and the lane scheduler only delay `GetNxtPacket`.
- Forwarding, Conga and Letflow choose paths by hashes, random numbers and measured load; the
  transports assume any order of delivery, which covers all of them. What ConWeave does is
  decided by deadlines in nanoseconds, and a deadline missed means reordering, not an error;
  an untimed model would allow everything.
- Time on links: whether the configured headroom makes PFC lossless is a matter of delays.
  Static PFC thresholds are implemented and unused (`USE_DYNAMIC_PFC_THRESHOLD 1`).
- The round robin of a NIC over several queue pairs; serialisation of headers; traces,
  statistics.
- The configuration text that `run.py` fills in, `experiment_manager.py` and the paper matrix,
  which start one run after the other; the number of flows in the first line of a flow file.
- The check and prepare stages of the testbed with their caches, switch and NIC
  configuration, parsing of results, the runner for AI workloads.
- The tree in chunks of the AI workload: the code is never reached.
