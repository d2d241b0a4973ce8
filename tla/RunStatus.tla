------------------------------- MODULE RunStatus -------------------------------
(***************************************************************************)
(* One managed run directory of the artifact: status.json and status       *)
(* (run_status.py), manifest.csv (run_manifest.py), history/all.history    *)
(* and the output directories (run.py), shared by several processes:       *)
(*   - drivers: invocations of run_experiments.sh, which open the run      *)
(*     (init or resume), submit its tasks and finalize it;                 *)
(*   - workers: the background subshell of one task, which marks it        *)
(*     running, lets run.py draw a config id, make the output directory,   *)
(*     append its rows and simulate, and records the outcome;              *)
(*   - reset-tasks, called by the user.                                    *)
(* A command of run_status.py holds .status.lock from its load to the end  *)
(* of save_state, which replaces status.json and then status.  The other   *)
(* files have locks of their own.  A crash (container stopped, machine     *)
(* lost) ends every process at once and frees the locks.                   *)
(***************************************************************************)
EXTENDS Integers, FiniteSets

CONSTANTS
    Tasks,         \* task ids that run_experiments.sh lists
    Expected,      \* the expected count that it passes to init and resume
    LegacyIds,     \* task ids of an earlier release, in an old status.json
    OldRun,        \* the entries of that status.json
    OldRows,       \* its manifest: [Tasks -> config or NoConfig]
    Recipes, RecipeOf,  \* recipe of each task, the unit of reset-tasks
    Configs,       \* config ids that run.py can draw
    NoConfig,      \* no config id
    NumDrivers,    \* bound: invocations of run_experiments.sh
    MaxTroubles    \* bound: crashes, resets, signals and overlapping starts

Drivers == 1 .. NumDrivers
Ids == Tasks \cup LegacyIds
TaskStates == {"none", "running", "completed", "failed"}
Entry == [status : TaskStates, config : Configs \cup {NoConfig}]
NoEntry == [status |-> "none", config |-> NoConfig]

ASSUME RunAssumption ==
    /\ NoConfig \notin Configs
    /\ Tasks \cap LegacyIds = {}
    /\ Expected \in Nat /\ NumDrivers \in Nat
    /\ MaxTroubles \in Nat
    /\ OldRun \in [Ids -> Entry]
    /\ OldRows \in [Tasks -> Configs \cup {NoConfig}]
    /\ Recipes # {} /\ RecipeOf \in [Tasks -> Recipes]

\* The run of the earlier release was finalized with nothing running, its
\* config ids were drawn apart, and a task it completed under a current id
\* has its row in the manifest; an id that an entry has is some task's row.
ASSUME OldRunAssumption ==
    /\ \A i \in Ids : /\ OldRun[i].status # "running"
                      /\ OldRun[i].status = "none" => OldRun[i] = NoEntry
    /\ \A i, j \in Ids : i # j /\ OldRun[i].config = OldRun[j].config
                           => OldRun[i].config = NoConfig
    /\ \A t, u \in Tasks : t # u /\ OldRows[t] = OldRows[u]
                             => OldRows[t] = NoConfig
    /\ \A i \in Ids : OldRun[i].config # NoConfig
                        => \E t \in Tasks : OldRows[t] = OldRun[i].config
    /\ \A t \in Tasks : OldRun[t].status = "completed"
                          => OldRun[t].config # NoConfig /\ OldRows[t] = OldRun[t].config

VARIABLES
    st,          \* status.json: state, or "absent"
    tasks,       \* status.json: tasks
    text,        \* the file status
    locked,      \* somebody holds .status.lock
    manifest,    \* manifest.csv: config_id of each task's row
    history,     \* history/all.history: config ids of its rows
    filesReady,  \* both files were created (artifact_result_files_init)
    dirs,        \* mix/output: one directory for each config id
    driver,      \* where each run_experiments.sh stands
    resuming,    \* the drivers that were started with --resume
    worker,      \* the subshell of each driver and task
    reset,       \* the running reset-tasks command
    crashes,     \* how often the machine was lost
    resets,      \* how often reset-tasks ran while the run was quiet
    strays,      \* how often it ran while the run was not quiet
    interrupts,  \* how often a driver was ended by a signal
    overlaps,    \* how often a driver started while the run was not quiet
    textTorn,    \* history: a crash hit between the two writes of save_state
    torn         \* history: a crash lost rows or cut reset-tasks in two

statusVars == <<st, tasks, text, locked, textTorn>>
fileVars   == <<manifest, history, filesReady, dirs, torn>>
procVars   == <<driver, resuming, worker, reset>>
countVars  == <<crashes, resets, strays, interrupts, overlaps>>
vars == <<statusVars, fileVars, procVars, countVars>>

DriverStates == {"off", "opened", "preparing", "submitting", "finalizing",
                 "closed", "ended"}
WorkerStates == {"idle", "skipped", "begun", "marked", "started", "drawn",
                 "made", "listed", "simulating", "exited", "recorded", "ended"}
Worker == [pc : WorkerStates, config : Configs \cup {NoConfig}, ok : BOOLEAN]
ResetStates == {"idle", "manifest", "saved", "history"}
NoReset == [pc |-> "idle", recipe |-> CHOOSE r \in Recipes : TRUE, gone |-> {}]

StatusTypeOK ==
    /\ st \in {"absent", "running", "completed", "failed"}
    /\ text \in {"absent", "running", "completed", "failed"}
    /\ tasks \in [Ids -> Entry]
    /\ locked \in BOOLEAN /\ textTorn \in BOOLEAN
FileTypeOK ==
    /\ manifest \in [Tasks -> Configs \cup {NoConfig}]
    /\ history \in SUBSET Configs /\ dirs \in SUBSET Configs
    /\ filesReady \in BOOLEAN /\ torn \in BOOLEAN
ProcTypeOK ==
    /\ driver \in [Drivers -> DriverStates]
    /\ resuming \in SUBSET Drivers
    /\ worker \in [Drivers -> [Tasks -> Worker]]
    /\ reset \in [pc : ResetStates, recipe : Recipes, gone : SUBSET Configs]
CountTypeOK ==
    /\ crashes \in Nat /\ resets \in Nat /\ strays \in Nat
    /\ interrupts \in Nat /\ overlaps \in Nat
TypeOK == StatusTypeOK /\ FileTypeOK /\ ProcTypeOK /\ CountTypeOK

-------------------------------------------------------------------------------
(* Helpers.                                                                *)

With(status) == {i \in Ids : tasks[i].status = status}

\* calculate_summary, as finalize uses it.
Succeeded == Cardinality(With("completed")) = Expected /\ With("failed") = {}

Rows(c) == {t \in Tasks : manifest[t] = c}

WorkerAlive(d, t) == worker[d][t].pc \notin {"idle", "skipped", "ended"}
DriverAlive(d) == driver[d] \notin {"off", "ended"}
Quiet == \A d \in Drivers :
            ~DriverAlive(d) /\ \A t \in Tasks : ~WorkerAlive(d, t)

\* A command of run_status.py got the lock, replaced status.json and still
\* has the file status to write.
Save(newSt, newTasks) ==
    /\ ~locked /\ locked' = TRUE
    /\ st' = newSt /\ tasks' = newTasks
    /\ UNCHANGED <<text, textTorn>>

\* The second write of save_state and the end of the locked block.
WriteText ==
    /\ text' = st
    /\ locked' = FALSE /\ textTorn' = FALSE
    /\ UNCHANGED <<st, tasks>>

\* The command found the state unfit under the lock and wrote nothing.
Refused == ~locked /\ UNCHANGED statusVars

\* The bound on what a user or the machine does to a run.
MoreTrouble == crashes + resets + strays + interrupts + overlaps < MaxTroubles

DriverTo(d, pc) == driver' = [driver EXCEPT ![d] = pc]
WorkerTo(d, t, pc) == worker' = [worker EXCEPT ![d][t].pc = pc]
At(pc) == [pc |-> pc, config |-> NoConfig, ok |-> FALSE]
SetWorker(d, t, w) == worker' = [worker EXCEPT ![d][t] = w]
-------------------------------------------------------------------------------
(* Drivers: run_experiments.sh with run_tracking.sh.                       *)

\* The next invocation.  One that finds the run unfit ends without effect.
MayStart(d) ==
    /\ driver[d] = "off"
    /\ \A e \in Drivers : e < d => driver[e] # "off"
    /\ IF Quiet THEN UNCHANGED overlaps
       ELSE MoreTrouble /\ overlaps' = overlaps + 1
    /\ UNCHANGED <<crashes, resets, strays, interrupts>>

\* command_init: the run directory is new.
Open(d) ==
    /\ MayStart(d)
    /\ st = "absent" /\ ~filesReady
    /\ Save("running", [i \in Ids |-> NoEntry])
    /\ DriverTo(d, "opened")
    /\ UNCHANGED <<fileVars, resuming, worker, reset>>

Present == {i \in Ids : tasks[i].status # "none"}

\* The task id that the manifest has for an entry's config id, if any.
Canonical(i) ==
    IF tasks[i].config # NoConfig /\ Rows(tasks[i].config) # {}
    THEN CHOOSE t \in Rows(tasks[i].config) : TRUE
    ELSE i

\* Mutant: of two entries of one task any may be kept.
Kept_Any(i) == {j \in Present : Canonical(j) = Canonical(i)}

\* Of the entries of one task a completed one is kept.
Kept(i) ==
    LET same == {j \in Present : Canonical(j) = Canonical(i)}
        done == {j \in same : tasks[j].status = "completed"}
    IN  IF done # {} THEN done ELSE same

\* command_resume: entries under old ids move to the ids of the manifest.
Resume(d) ==
    /\ MayStart(d)
    /\ st # "absent" /\ filesReady
    /\ Cardinality({Canonical(i) : i \in Present}) <= Expected
    /\ \E new \in [Ids -> {tasks[i] : i \in Ids} \cup {NoEntry}] :
         /\ \A k \in Ids :
              LET from == {i \in Present : Canonical(i) = k}
              IN  IF from = {} THEN new[k] = NoEntry
                  ELSE \E i \in from : \E j \in Kept(i) : new[k] = tasks[j]
         /\ Save("running", new)
    /\ DriverTo(d, "opened")
    /\ resuming' = resuming \cup {d}
    /\ UNCHANGED <<fileVars, worker, reset>>

Opened(d) ==
    /\ driver[d] = "opened"
    /\ WriteText
    /\ DriverTo(d, "preparing")
    /\ UNCHANGED <<fileVars, resuming, worker, reset, countVars>>

\* artifact_result_files_init.  A resumed run is given up when its history has
\* no row, or its manifest not even the header (a crash truncated it); the
\* trap on EXIT finalizes it.
PrepareFiles(d) ==
    /\ driver[d] = "preparing"
    /\ IF d \in resuming
       THEN /\ \/ history # {} /\ DriverTo(d, "submitting")
               \/ (history = {} \/ torn) /\ DriverTo(d, "finalizing")
            /\ UNCHANGED <<manifest, history, filesReady>>
       ELSE /\ manifest' = [t \in Tasks |-> NoConfig]
            /\ history' = {}
            /\ filesReady' = TRUE
            /\ DriverTo(d, "submitting")
    /\ UNCHANGED <<statusVars, dirs, torn, resuming, worker, reset, countVars>>

\* command_task_skippable, read without the lock.
Skippable(t) == tasks[t].status \in {"running", "completed"}

\* artifact_run_background: look, then start the subshell.
Submit(d, t) ==
    /\ driver[d] = "submitting"
    /\ worker[d][t].pc = "idle"
    /\ WorkerTo(d, t, IF d \in resuming /\ Skippable(t) THEN "skipped"
                      ELSE "begun")
    /\ UNCHANGED <<statusVars, fileVars, driver, resuming, reset, countVars>>

\* A signal ends the script while its background subshells go on; the trap
\* on EXIT still finalizes.
Interrupt(d) ==
    /\ MoreTrouble
    /\ driver[d] \in {"preparing", "submitting"}
    /\ DriverTo(d, "finalizing")
    /\ interrupts' = interrupts + 1
    /\ UNCHANGED <<statusVars, fileVars, resuming, worker, reset, crashes,
                   resets, strays, overlaps>>

AllHandled(d) == \A t \in Tasks : worker[d][t].pc \in {"skipped", "ended"}

\* Mutant: a run with tasks still running is closed as well.
Outcome_IgnoresRunning == IF Succeeded THEN "completed" ELSE "failed"

\* The state that command_finalize leaves.
Outcome ==
    IF With("running") # {} THEN "running"
    ELSE IF Succeeded THEN "completed" ELSE "failed"

\* artifact_wait_for_tasks, then command_finalize.
Finalize(d) ==
    /\ \/ driver[d] = "finalizing"
       \/ driver[d] = "submitting" /\ AllHandled(d)
    /\ Save(Outcome, tasks)
    /\ DriverTo(d, "closed")
    /\ UNCHANGED <<fileVars, resuming, worker, reset, countVars>>

Closed(d) ==
    /\ driver[d] = "closed"
    /\ WriteText
    /\ DriverTo(d, "ended")
    /\ UNCHANGED <<fileVars, resuming, worker, reset, countVars>>

-------------------------------------------------------------------------------
(* Workers: the subshell of artifact_run_background and run.py.            *)

\* Mutant: a run that was closed takes updates as well.
Accepts_Always == st # "absent"

\* command_update refuses a run that is not running.
Accepts == st = "running"

\* artifact_update_task running.  Its failure stops nothing: the simulation
\* is started whether the update was taken or not.
MarkRunning(d, t) ==
    /\ worker[d][t].pc = "begun"
    /\ IF Accepts
       THEN /\ Save(st, [tasks EXCEPT ![t] = [status |-> "running",
                                              config |-> NoConfig]])
            /\ WorkerTo(d, t, "marked")
       ELSE Refused /\ WorkerTo(d, t, "started")
    /\ UNCHANGED <<fileVars, driver, resuming, reset, countVars>>

Marked(d, t) ==
    /\ worker[d][t].pc = "marked"
    /\ WriteText
    /\ WorkerTo(d, t, "started")
    /\ UNCHANGED <<fileVars, driver, resuming, reset, countVars>>

\* run.py draws ids until mix/output has no directory of that name.
DrawConfig(d, t) ==
    /\ worker[d][t].pc = "started"
    /\ \E c \in Configs \ dirs :
         SetWorker(d, t, [At("drawn") EXCEPT !.config = c])
    /\ UNCHANGED <<statusVars, fileVars, driver, resuming, reset, countVars>>

\* Mutant: an existing directory is taken over.
MakeDir_Shared(d, t) ==
    /\ worker[d][t].pc = "drawn"
    /\ dirs' = dirs \cup {worker[d][t].config}
    /\ WorkerTo(d, t, "made")
    /\ UNCHANGED <<statusVars, manifest, history, filesReady, torn, driver,
                   resuming, reset, countVars>>

\* The directory is made much later.  When another simulation made it first
\* (run.py seeds with the time in seconds), run.py stops before it printed
\* the config file name.
MakeDir(d, t) ==
    /\ worker[d][t].pc = "drawn"
    /\ LET c == worker[d][t].config
       IN  IF c \in dirs
           THEN /\ SetWorker(d, t, At("exited"))
                /\ UNCHANGED dirs
           ELSE dirs' = dirs \cup {c} /\ WorkerTo(d, t, "made")
    /\ UNCHANGED <<statusVars, manifest, history, filesReady, torn, driver,
                   resuming, reset, countVars>>

AppendHistory(d, t) ==
    /\ worker[d][t].pc = "made"
    /\ history' = history \cup {worker[d][t].config}
    /\ WorkerTo(d, t, "listed")
    /\ UNCHANGED <<statusVars, manifest, filesReady, dirs, torn, driver,
                   resuming, reset, countVars>>

\* Mutant: a task keeps the row of its first attempt.
RowFor_First(t, c) == IF manifest[t] = NoConfig THEN c ELSE manifest[t]

\* append_manifest_row replaces the row of the task.
RowFor(t, c) == c

AppendManifest(d, t) ==
    /\ worker[d][t].pc = "listed"
    /\ manifest' = [manifest EXCEPT ![t] = RowFor(t, worker[d][t].config)]
    /\ WorkerTo(d, t, "simulating")
    /\ UNCHANGED <<statusVars, history, filesReady, dirs, torn, driver,
                   resuming, reset, countVars>>

Simulate(d, t) ==
    /\ worker[d][t].pc = "simulating"
    /\ \E ok \in BOOLEAN :
         SetWorker(d, t, [worker[d][t] EXCEPT !.pc = "exited", !.ok = ok])
    /\ UNCHANGED <<statusVars, fileVars, driver, resuming, reset, countVars>>

\* run.py can fail before it makes a directory (its options, its inputs).
Fail(d, t) ==
    /\ worker[d][t].pc = "started"
    /\ WorkerTo(d, t, "exited")
    /\ UNCHANGED <<statusVars, fileVars, driver, resuming, reset, countVars>>

\* artifact_update_task completed or failed.  An update without a config id
\* leaves the one the entry has.
Recorded(d, t) ==
    LET w == worker[d][t]
    IN  [status |-> IF w.ok THEN "completed" ELSE "failed",
         config |-> IF w.config # NoConfig THEN w.config ELSE tasks[t].config]

Record(d, t) ==
    /\ worker[d][t].pc = "exited"
    /\ IF Accepts
       THEN /\ Save(st, [tasks EXCEPT ![t] = Recorded(d, t)])
            /\ WorkerTo(d, t, "recorded")
       ELSE Refused /\ SetWorker(d, t, At("ended"))
    /\ UNCHANGED <<fileVars, driver, resuming, reset, countVars>>

RecordedText(d, t) ==
    /\ worker[d][t].pc = "recorded"
    /\ WriteText
    /\ SetWorker(d, t, At("ended"))
    /\ UNCHANGED <<fileVars, driver, resuming, reset, countVars>>
-------------------------------------------------------------------------------
(* reset-tasks: drop every trace of a recipe, under .status.lock.          *)

Ours(r) == {t \in Tasks : RecipeOf[t] = r}
RowConfigs(r) == {manifest[t] : t \in Ours(r)} \ {NoConfig}
Matching(r, gone) ==
    {i \in Present : i \in Ours(r) \/ tasks[i].config \in gone}

\* Mutant: tasks of the recipe that are running do not stop it.
NoneRunning_Unchecked(r) == TRUE

NoneRunning(r) ==
    \A i \in Matching(r, RowConfigs(r)) : tasks[i].status # "running"

ResetManifest(r) ==
    /\ reset.pc = "idle" /\ MoreTrouble
    /\ ~locked /\ st # "absent" /\ filesReady
    /\ NoneRunning(r)
    /\ locked' = TRUE
    /\ manifest' = [t \in Tasks |->
                      IF t \in Ours(r) THEN NoConfig ELSE manifest[t]]
    /\ reset' = [pc |-> "manifest", recipe |-> r, gone |-> RowConfigs(r)]
    /\ IF Quiet THEN resets' = resets + 1 /\ UNCHANGED strays
       ELSE strays' = strays + 1 /\ UNCHANGED resets
    /\ UNCHANGED <<st, tasks, text, textTorn, history, filesReady, dirs, torn,
                   driver, resuming, worker, crashes, interrupts, overlaps>>

ResetState ==
    /\ reset.pc = "manifest"
    /\ LET out == Matching(reset.recipe, reset.gone)
       IN  /\ tasks' = [i \in Ids |-> IF i \in out THEN NoEntry ELSE tasks[i]]
           /\ st' = IF With("running") \ out # {} THEN "running" ELSE "failed"
    /\ reset' = [reset EXCEPT !.pc = "saved"]
    /\ UNCHANGED <<text, locked, textTorn, fileVars, driver, resuming, worker,
                   countVars>>

ResetText ==
    /\ reset.pc = "saved"
    /\ text' = st /\ textTorn' = FALSE
    /\ reset' = [reset EXCEPT !.pc = "history"]
    /\ UNCHANGED <<st, tasks, locked, fileVars, driver, resuming, worker,
                   countVars>>

\* rewrite_history and the removal of the output directories.
ResetHistory ==
    /\ reset.pc = "history"
    /\ history' = history \ reset.gone
    /\ dirs' = dirs \ reset.gone
    /\ locked' = FALSE
    /\ reset' = NoReset
    /\ UNCHANGED <<st, tasks, text, textTorn, manifest, filesReady, torn,
                   driver, resuming, worker, countVars>>

-------------------------------------------------------------------------------
(* Crash.  A file that is rewritten in place can be found truncated.       *)

TearManifest ==
    \/ reset.pc = "idle" /\ \E d \in Drivers, t \in Tasks : worker[d][t].pc = "listed"
    \/ reset.pc = "manifest"

TearHistory == reset.pc = "history"

Crash ==
    /\ MoreTrouble /\ crashes' = crashes + 1
    /\ locked' = FALSE
    /\ textTorn' = (textTorn \/ text # st)
    /\ \/ UNCHANGED manifest
       \/ TearManifest /\ manifest' = [t \in Tasks |-> NoConfig]
    /\ \/ UNCHANGED history
       \/ TearHistory /\ history' = {}
    /\ torn' = (torn \/ reset.pc # "idle" \/ manifest' # manifest)
    /\ driver' = [d \in Drivers |-> IF DriverAlive(d) THEN "ended" ELSE driver[d]]
    /\ worker' = [d \in Drivers |-> [t \in Tasks |->
          IF WorkerAlive(d, t) THEN At("ended") ELSE worker[d][t]]]
    /\ reset' = NoReset
    /\ UNCHANGED <<st, tasks, text, filesReady, dirs, resuming, resets,
                   strays, interrupts, overlaps>>

-------------------------------------------------------------------------------
NewRun ==
    /\ st = "absent" /\ text = "absent" /\ filesReady = FALSE
    /\ tasks = [i \in Ids |-> NoEntry]
    /\ manifest = [t \in Tasks |-> NoConfig]
    /\ history = {} /\ dirs = {}

\* A run that an earlier release left behind, to be resumed.
LegacyRun ==
    /\ st = "failed" /\ text = "failed" /\ filesReady = TRUE
    /\ tasks = OldRun
    /\ manifest = OldRows
    /\ history = {OldRows[t] : t \in Tasks} \ {NoConfig}
    /\ dirs = history

Init ==
    /\ NewRun \/ LegacyRun
    /\ locked = FALSE
    /\ driver = [d \in Drivers |-> "off"]
    /\ resuming = {}
    /\ worker = [d \in Drivers |-> [t \in Tasks |-> At("idle")]]
    /\ reset = NoReset
    /\ crashes = 0 /\ resets = 0 /\ strays = 0 /\ interrupts = 0 /\ overlaps = 0
    /\ textTorn = FALSE /\ torn = FALSE

DriverStep(d) ==
    \/ Opened(d) \/ PrepareFiles(d) \/ Finalize(d) \/ Closed(d)
    \/ \E t \in Tasks : Submit(d, t)

WorkerStep(d, t) ==
    \/ MarkRunning(d, t) \/ Marked(d, t) \/ DrawConfig(d, t) \/ MakeDir(d, t)
    \/ AppendHistory(d, t) \/ AppendManifest(d, t) \/ Simulate(d, t)
    \/ Fail(d, t)
    \/ Record(d, t) \/ RecordedText(d, t)

ResetStep == ResetState \/ ResetText \/ ResetHistory

Next ==
    \/ \E d \in Drivers : Open(d) \/ Resume(d) \/ Interrupt(d) \/ DriverStep(d)
    \/ \E d \in Drivers, t \in Tasks : WorkerStep(d, t)
    \/ \E r \in Recipes : ResetManifest(r)
    \/ ResetStep
    \/ Crash

Spec == Init /\ [][Next]_vars

-------------------------------------------------------------------------------
(* Properties.                                                             *)

\* A run that is reported completed is: the expected number of tasks is
\* recorded completed and none failed, whatever workers of an earlier or a
\* concurrent driver still do (command_finalize against command_update,
\* resume and reset-tasks).
CompletedIsComplete == st = "completed" => Succeeded /\ With("running") = {}

\* The file status says what status.json says, except while a command is
\* between the two writes or a crash hit there (save_state).
StatusAgrees == ~locked /\ ~textTorn => text = st

\* No two tasks, recorded or simulating, share a config id and with it an
\* output directory, although the directory is looked for long before it
\* is made (run.py).  A reset that runs beside simulations it does not know
\* of is excepted: it removes their directories.
HasDir(d, t) == worker[d][t].pc \in {"made", "listed", "simulating"}
Alone == overlaps = 0 /\ interrupts = 0
ConfigsDistinct ==
  strays = 0 =>
    /\ \A i, j \in Ids : i # j /\ tasks[i].config = tasks[j].config
                           => tasks[i].config = NoConfig
    /\ \A d, e \in Drivers : \A t, u \in Tasks :
         <<d, t>> # <<e, u>> /\ HasDir(d, t) /\ HasDir(e, u)
            => worker[d][t].config # worker[e][u].config

\* A completed task can be traced: the manifest has the config id of its
\* entry under its own id and the history has the row (select_history.py
\* reads the figures' inputs this way).  Entries under old ids excepted.
Traceable ==
    Alone /\ ~torn /\ reset.pc = "idle" =>
        \A t \in Tasks : tasks[t].status = "completed" =>
            /\ tasks[t].config # NoConfig
            /\ manifest[t] = tasks[t].config
            /\ tasks[t].config \in history \cap dirs

\* No result gets lost: as long as no second driver runs at the same time,
\* only reset-tasks removes a completed entry (resume moves it to its
\* canonical id, updates leave it alone).
Results(entries) ==
    {entries[i].config : i \in {j \in Ids : entries[j].status = "completed"}}
Dropped ==
    IF reset.pc = "manifest"
    THEN reset.gone \cup {tasks[t].config : t \in Ours(reset.recipe)}
    ELSE {}
KeepStep ==
    Alone =>
        Results(tasks) \subseteq Results(tasks') \cup Dropped
ResultsKept == [][KeepStep]_vars

\* reset-tasks never takes the rows or the output directory of a simulation
\* whose task is recorded as running.
ResetSparesRunning ==
    \A d \in Drivers, t \in Tasks :
        /\ worker[d][t].pc = "simulating"
        /\ tasks[t].status = "running" /\ Alone /\ ~torn
        => manifest[t] = worker[d][t].config /\ worker[d][t].config \in dirs

\* A run whose processes have all ended without crash or signal is closed.
QuietIsClosed ==
    Quiet /\ crashes = 0 /\ interrupts = 0 /\ ~locked => st # "running"

\* The lock has one owner, a living command of run_status.py: two commands
\* never overlap, and a crash leaves no lock behind (locked, atomic_write).
DriverHolds(d) == driver[d] \in {"opened", "closed"}
WorkerHolds(d, t) == worker[d][t].pc \in {"marked", "recorded"}
ResetHolds == reset.pc # "idle"
OneOwner ==
    /\ locked => \/ ResetHolds
                 \/ \E d \in Drivers : DriverHolds(d)
                 \/ \E d \in Drivers, t \in Tasks : WorkerHolds(d, t)
    /\ ResetHolds => locked
    /\ \A d \in Drivers : DriverHolds(d) =>
         /\ locked /\ ~ResetHolds
         /\ \A e \in Drivers : DriverHolds(e) => e = d
         /\ \A e \in Drivers, t \in Tasks : ~WorkerHolds(e, t)
    /\ \A d \in Drivers, t \in Tasks : WorkerHolds(d, t) =>
         /\ locked /\ ~ResetHolds
         /\ \A e \in Drivers, u \in Tasks :
              WorkerHolds(e, u) => e = d /\ u = t

\* "To continue an interrupted run or rerun only failed and missing tasks,
\* add --resume" (README.md): what a resumed run leaves out is completed or
\* somebody is working on it.
SkipStep ==
    \A d \in Drivers, t \in Tasks :
        worker[d][t].pc = "idle" /\ worker'[d][t].pc = "skipped" =>
            \/ tasks[t].status = "completed"
            \/ \E e \in Drivers : WorkerAlive(e, t)
SkippedIsDoneOrAlive == [][SkipStep]_vars
===============================================================================
