---------------------------- MODULE RunStatusProofs ----------------------------
(***************************************************************************)
(* Theorems about RunStatus, for any number of tasks, drivers, crashes,    *)
(* resets, signals and overlapping starts, and about TrafficFile, for any  *)
(* number of processes and of failures.                                    *)
(***************************************************************************)
EXTENDS RunStatus, TrafficFile, TLAPS

-------------------------------------------------------------------------------
(* Types.                                                                  *)

LEMMA NoResetType == NoReset \in [pc : ResetStates, recipe : Recipes, gone : SUBSET Configs]
<1>1. \E r \in Recipes : TRUE
    BY RunAssumption
<1>2. (CHOOSE r \in Recipes : TRUE) \in Recipes
    BY <1>1
<1> QED
    BY <1>2 DEF NoReset, ResetStates

LEMMA TypeInit == Init => TypeOK
<1> SUFFICES ASSUME Init PROVE TypeOK
    OBVIOUS
<1>1. NoEntry \in Entry
    BY DEF NoEntry, Entry, TaskStates
<1>2. StatusTypeOK
    <2>1. CASE NewRun
        BY <1>1, <2>1 DEF Init, NewRun, StatusTypeOK
    <2>2. CASE LegacyRun
        BY RunAssumption, <2>2 DEF Init, LegacyRun, StatusTypeOK
    <2> QED
        BY <2>1, <2>2 DEF Init
<1>3. FileTypeOK
    <2>1. CASE NewRun
        BY <2>1 DEF Init, NewRun, FileTypeOK
    <2>2. CASE LegacyRun
        BY RunAssumption, <2>2 DEF Init, LegacyRun, FileTypeOK
    <2> QED
        BY <2>1, <2>2 DEF Init
<1>4. ProcTypeOK
    <2>1. At("idle") \in Worker
        BY DEF At, Worker, WorkerStates
    <2> QED
        BY <2>1, NoResetType DEF Init, ProcTypeOK, DriverStates
<1>5. CountTypeOK
    BY DEF Init, CountTypeOK
<1> QED
    BY <1>2, <1>3, <1>4, <1>5 DEF TypeOK

LEMMA OutcomeType == Outcome \in {"running", "completed", "failed"}
    BY DEF Outcome

LEMMA RecordedType ==
    ASSUME TypeOK, NEW d \in Drivers, NEW t \in Tasks
    PROVE  Recorded(d, t) \in Entry
<1>1. tasks[t] \in Entry /\ worker[d][t] \in Worker
    BY DEF TypeOK, StatusTypeOK, ProcTypeOK, Ids
<1> QED
    BY <1>1 DEF Recorded, Entry, Worker, TaskStates

LEMMA StatusTypeStep == TypeOK /\ [Next]_vars => StatusTypeOK'
<1> SUFFICES ASSUME TypeOK, [Next]_vars PROVE StatusTypeOK'
    OBVIOUS
<1>0. /\ StatusTypeOK /\ NoEntry \in Entry
      /\ [status |-> "running", config |-> NoConfig] \in Entry
    BY DEF TypeOK, NoEntry, Entry, TaskStates
<1> USE <1>0 DEF StatusTypeOK
<1>1. ASSUME NEW d \in Drivers, Open(d) PROVE StatusTypeOK'
    BY <1>1 DEF Open, Save
<1>2. ASSUME NEW d \in Drivers, Resume(d) PROVE StatusTypeOK'
    <2>1. PICK new \in [Ids -> {tasks[i] : i \in Ids} \cup {NoEntry}] : Save("running", new)
        BY <1>2 DEF Resume
    <2>2. new \in [Ids -> Entry]
        OBVIOUS
    <2> QED
        BY <2>1, <2>2 DEF Save
<1>3. ASSUME NEW d \in Drivers, Interrupt(d) PROVE StatusTypeOK'
    BY <1>3 DEF Interrupt, statusVars
<1>4. ASSUME NEW d \in Drivers, Opened(d) PROVE StatusTypeOK'
    BY <1>4 DEF Opened, WriteText
<1>5. ASSUME NEW d \in Drivers, PrepareFiles(d) PROVE StatusTypeOK'
    BY <1>5 DEF PrepareFiles, statusVars
<1>6. ASSUME NEW d \in Drivers, Finalize(d) PROVE StatusTypeOK'
    BY OutcomeType, <1>6 DEF Finalize, Save
<1>7. ASSUME NEW d \in Drivers, Closed(d) PROVE StatusTypeOK'
    BY <1>7 DEF Closed, WriteText
<1>8. ASSUME NEW d \in Drivers, NEW t \in Tasks, Submit(d, t) PROVE StatusTypeOK'
    BY <1>8 DEF Submit, statusVars
<1>9. ASSUME NEW d \in Drivers, NEW t \in Tasks, MarkRunning(d, t) PROVE StatusTypeOK'
    BY <1>9 DEF MarkRunning, Save, Refused, statusVars, Ids
<1>10. ASSUME NEW d \in Drivers, NEW t \in Tasks, Marked(d, t) PROVE StatusTypeOK'
    BY <1>10 DEF Marked, WriteText
<1>11. ASSUME NEW d \in Drivers, NEW t \in Tasks, DrawConfig(d, t) PROVE StatusTypeOK'
    BY <1>11 DEF DrawConfig, statusVars
<1>12. ASSUME NEW d \in Drivers, NEW t \in Tasks, MakeDir(d, t) PROVE StatusTypeOK'
    BY <1>12 DEF MakeDir, statusVars
<1>13. ASSUME NEW d \in Drivers, NEW t \in Tasks, AppendHistory(d, t) PROVE StatusTypeOK'
    BY <1>13 DEF AppendHistory, statusVars
<1>14. ASSUME NEW d \in Drivers, NEW t \in Tasks, AppendManifest(d, t) PROVE StatusTypeOK'
    BY <1>14 DEF AppendManifest, statusVars
<1>15. ASSUME NEW d \in Drivers, NEW t \in Tasks, Simulate(d, t) PROVE StatusTypeOK'
    BY <1>15 DEF Simulate, statusVars
<1>16. ASSUME NEW d \in Drivers, NEW t \in Tasks, Fail(d, t) PROVE StatusTypeOK'
    BY <1>16 DEF Fail, statusVars
<1>17. ASSUME NEW d \in Drivers, NEW t \in Tasks, Record(d, t) PROVE StatusTypeOK'
    BY RecordedType, <1>17 DEF Record, Save, Refused, statusVars, Ids
<1>18. ASSUME NEW d \in Drivers, NEW t \in Tasks, RecordedText(d, t) PROVE StatusTypeOK'
    BY <1>18 DEF RecordedText, WriteText
<1>19. ASSUME NEW r \in Recipes, ResetManifest(r) PROVE StatusTypeOK'
    BY <1>19 DEF ResetManifest
<1>20. CASE ResetState
    BY <1>20 DEF ResetState
<1>21. CASE ResetText
    BY <1>21 DEF ResetText
<1>22. CASE ResetHistory
    BY <1>22 DEF ResetHistory
<1>23. CASE Crash
    BY <1>23 DEF Crash
<1>24. CASE UNCHANGED vars
    BY <1>24 DEF vars, statusVars
<1> QED
    BY <1>1, <1>2, <1>3, <1>4, <1>5, <1>6, <1>7, <1>8, <1>9, <1>10, <1>11, <1>12, <1>13, <1>14, <1>15, <1>16, <1>17, <1>18, <1>19, <1>20, <1>21, <1>22, <1>23, <1>24
       DEF Next, DriverStep, WorkerStep, ResetStep

\* A worker with an output directory has a config id.
LEMMA WorkerType ==
    ASSUME TypeOK, NEW d \in Drivers, NEW t \in Tasks
    PROVE  /\ worker[d][t].pc \in WorkerStates
           /\ worker[d][t].config \in Configs \cup {NoConfig}
           /\ worker[d][t].ok \in BOOLEAN
           /\ worker[d][t] = [pc |-> worker[d][t].pc,
                  config |-> worker[d][t].config, ok |-> worker[d][t].ok]
<1>1. worker[d][t] \in Worker
    BY DEF TypeOK, ProcTypeOK
<1> QED
    BY <1>1 DEF Worker

\* A worker that prepares or uses an output directory has a config id.
WorkersHaveConfig ==
    \A d \in Drivers, t \in Tasks :
        worker[d][t].pc \in {"drawn", "made", "listed", "simulating"}
            => worker[d][t].config \in Configs

\* What the steps of a worker do to the function of all workers.
LEMMA SetWorkerType ==
    ASSUME TypeOK, NEW d \in Drivers, NEW t \in Tasks, NEW w \in Worker,
           SetWorker(d, t, w)
    PROVE  worker' \in [Drivers -> [Tasks -> Worker]]
BY DEF SetWorker, TypeOK, ProcTypeOK

LEMMA WorkerToType ==
    ASSUME TypeOK, NEW d \in Drivers, NEW t \in Tasks,
           NEW to \in WorkerStates, WorkerTo(d, t, to)
    PROVE  worker' \in [Drivers -> [Tasks -> Worker]]
<1>1. worker \in [Drivers -> [Tasks -> Worker]]
    BY DEF TypeOK, ProcTypeOK
<1>2. worker[d][t] \in Worker
    BY <1>1
<1>3. [worker[d][t] EXCEPT !.pc = to] \in Worker
    BY <1>2 DEF Worker
<1> QED
    BY <1>1, <1>3 DEF WorkerTo

LEMMA FileTypeStep == TypeOK /\ WorkersHaveConfig /\ [Next]_vars => FileTypeOK'
<1> SUFFICES ASSUME TypeOK, WorkersHaveConfig, [Next]_vars PROVE FileTypeOK'
    OBVIOUS
<1>0. StatusTypeOK /\ FileTypeOK /\ WorkersHaveConfig
    BY DEF TypeOK
<1> USE <1>0 DEF FileTypeOK, WorkersHaveConfig
<1>1. ASSUME NEW d \in Drivers, Open(d) PROVE FileTypeOK'
    BY <1>1 DEF Open, fileVars
<1>2. ASSUME NEW d \in Drivers, Resume(d) PROVE FileTypeOK'
    BY <1>2 DEF Resume, fileVars
<1>3. ASSUME NEW d \in Drivers, Interrupt(d) PROVE FileTypeOK'
    BY <1>3 DEF Interrupt, fileVars
<1>4. ASSUME NEW d \in Drivers, Opened(d) PROVE FileTypeOK'
    BY <1>4 DEF Opened, fileVars
<1>5. ASSUME NEW d \in Drivers, PrepareFiles(d) PROVE FileTypeOK'
    BY <1>5 DEF PrepareFiles, fileVars
<1>6. ASSUME NEW d \in Drivers, Finalize(d) PROVE FileTypeOK'
    BY <1>6 DEF Finalize, fileVars
<1>7. ASSUME NEW d \in Drivers, Closed(d) PROVE FileTypeOK'
    BY <1>7 DEF Closed, fileVars
<1>8. ASSUME NEW d \in Drivers, NEW t \in Tasks, Submit(d, t) PROVE FileTypeOK'
    BY <1>8 DEF Submit, fileVars
<1>9. ASSUME NEW d \in Drivers, NEW t \in Tasks, MarkRunning(d, t) PROVE FileTypeOK'
    BY <1>9 DEF MarkRunning, fileVars
<1>10. ASSUME NEW d \in Drivers, NEW t \in Tasks, Marked(d, t) PROVE FileTypeOK'
    BY <1>10 DEF Marked, fileVars
<1>11. ASSUME NEW d \in Drivers, NEW t \in Tasks, DrawConfig(d, t) PROVE FileTypeOK'
    BY <1>11 DEF DrawConfig, fileVars
<1>12. ASSUME NEW d \in Drivers, NEW t \in Tasks, MakeDir(d, t) PROVE FileTypeOK'
    BY <1>12 DEF MakeDir
<1>13. ASSUME NEW d \in Drivers, NEW t \in Tasks, AppendHistory(d, t) PROVE FileTypeOK'
    BY <1>13 DEF AppendHistory
<1>14. ASSUME NEW d \in Drivers, NEW t \in Tasks, AppendManifest(d, t) PROVE FileTypeOK'
    BY WorkerType, <1>14 DEF AppendManifest, RowFor
<1>15. ASSUME NEW d \in Drivers, NEW t \in Tasks, Simulate(d, t) PROVE FileTypeOK'
    BY <1>15 DEF Simulate, fileVars
<1>16. ASSUME NEW d \in Drivers, NEW t \in Tasks, Fail(d, t) PROVE FileTypeOK'
    BY <1>16 DEF Fail, fileVars
<1>17. ASSUME NEW d \in Drivers, NEW t \in Tasks, Record(d, t) PROVE FileTypeOK'
    BY <1>17 DEF Record, fileVars
<1>18. ASSUME NEW d \in Drivers, NEW t \in Tasks, RecordedText(d, t) PROVE FileTypeOK'
    BY <1>18 DEF RecordedText, fileVars
<1>19. ASSUME NEW r \in Recipes, ResetManifest(r) PROVE FileTypeOK'
    BY <1>19 DEF ResetManifest
<1>20. CASE ResetState
    BY <1>20 DEF ResetState, fileVars
<1>21. CASE ResetText
    BY <1>21 DEF ResetText, fileVars
<1>22. CASE ResetHistory
    BY <1>22 DEF ResetHistory
<1>23. CASE Crash
    BY <1>23 DEF Crash
<1>24. CASE UNCHANGED vars
    BY <1>24 DEF vars, fileVars
<1> QED
    BY <1>1, <1>2, <1>3, <1>4, <1>5, <1>6, <1>7, <1>8, <1>9, <1>10, <1>11,
       <1>12, <1>13, <1>14, <1>15, <1>16, <1>17, <1>18, <1>19, <1>20,
       <1>21, <1>22, <1>23, <1>24
       DEF Next, DriverStep, WorkerStep, ResetStep

LEMMA ProcTypeStep == TypeOK /\ [Next]_vars => ProcTypeOK'
<1> SUFFICES ASSUME TypeOK, [Next]_vars PROVE ProcTypeOK'
    OBVIOUS
<1>0. /\ ProcTypeOK
      /\ At("ended") \in Worker /\ At("exited") \in Worker
      /\ \A c \in DriverStates : \A d \in Drivers :
           DriverTo(d, c) => driver' \in [Drivers -> DriverStates]
    BY DEF TypeOK, ProcTypeOK, At, Worker, WorkerStates, DriverTo
<1> USE <1>0 DEF ProcTypeOK
<1>1. ASSUME NEW d \in Drivers, Open(d) PROVE ProcTypeOK'
    BY <1>1 DEF Open, DriverStates
<1>2. ASSUME NEW d \in Drivers, Resume(d) PROVE ProcTypeOK'
    BY <1>2 DEF Resume, DriverStates
<1>3. ASSUME NEW d \in Drivers, Interrupt(d) PROVE ProcTypeOK'
    BY <1>3 DEF Interrupt, DriverStates
<1>4. ASSUME NEW d \in Drivers, Opened(d) PROVE ProcTypeOK'
    BY <1>4 DEF Opened, DriverStates
<1>5. ASSUME NEW d \in Drivers, PrepareFiles(d) PROVE ProcTypeOK'
    BY <1>5 DEF PrepareFiles, DriverStates
<1>6. ASSUME NEW d \in Drivers, Finalize(d) PROVE ProcTypeOK'
    BY <1>6 DEF Finalize, DriverStates
<1>7. ASSUME NEW d \in Drivers, Closed(d) PROVE ProcTypeOK'
    BY <1>7 DEF Closed, DriverStates
<1>8. ASSUME NEW d \in Drivers, NEW t \in Tasks, Submit(d, t) PROVE ProcTypeOK'
    BY WorkerToType, <1>8 DEF Submit, WorkerStates
<1>9. ASSUME NEW d \in Drivers, NEW t \in Tasks, MarkRunning(d, t) PROVE ProcTypeOK'
    BY WorkerToType, <1>9 DEF MarkRunning, WorkerStates
<1>10. ASSUME NEW d \in Drivers, NEW t \in Tasks, Marked(d, t) PROVE ProcTypeOK'
    BY WorkerToType, <1>10 DEF Marked, WorkerStates
<1>11. ASSUME NEW d \in Drivers, NEW t \in Tasks, DrawConfig(d, t) PROVE ProcTypeOK'
    <2>1. PICK c \in Configs : SetWorker(d, t, [At("drawn") EXCEPT !.config = c])
        BY <1>11 DEF DrawConfig
    <2>2. [At("drawn") EXCEPT !.config = c] \in Worker
        BY DEF At, Worker, WorkerStates
    <2> QED
        BY SetWorkerType, <1>11, <2>1, <2>2 DEF DrawConfig
<1>12. ASSUME NEW d \in Drivers, NEW t \in Tasks, MakeDir(d, t) PROVE ProcTypeOK'
    BY WorkerToType, SetWorkerType, <1>12 DEF MakeDir, WorkerStates
<1>13. ASSUME NEW d \in Drivers, NEW t \in Tasks, AppendHistory(d, t) PROVE ProcTypeOK'
    BY WorkerToType, <1>13 DEF AppendHistory, WorkerStates
<1>14. ASSUME NEW d \in Drivers, NEW t \in Tasks, AppendManifest(d, t) PROVE ProcTypeOK'
    BY WorkerToType, <1>14 DEF AppendManifest, WorkerStates
<1>15. ASSUME NEW d \in Drivers, NEW t \in Tasks, Simulate(d, t) PROVE ProcTypeOK'
    <2>1. PICK ok \in BOOLEAN :
             SetWorker(d, t, [worker[d][t] EXCEPT !.pc = "exited", !.ok = ok])
        BY <1>15 DEF Simulate
    <2>2. worker[d][t] \in Worker
        OBVIOUS
    <2>3. [worker[d][t] EXCEPT !.pc = "exited", !.ok = ok] \in Worker
        BY <2>2 DEF Worker, WorkerStates
    <2> QED
        BY SetWorkerType, <1>15, <2>1, <2>3 DEF Simulate
<1>16. ASSUME NEW d \in Drivers, NEW t \in Tasks, Fail(d, t) PROVE ProcTypeOK'
    BY WorkerToType, <1>16 DEF Fail, WorkerStates
<1>17. ASSUME NEW d \in Drivers, NEW t \in Tasks, Record(d, t) PROVE ProcTypeOK'
    BY WorkerToType, SetWorkerType, <1>17 DEF Record, WorkerStates
<1>18. ASSUME NEW d \in Drivers, NEW t \in Tasks, RecordedText(d, t) PROVE ProcTypeOK'
    BY WorkerToType, SetWorkerType, <1>18 DEF RecordedText, WorkerStates
<1>19. ASSUME NEW r \in Recipes, ResetManifest(r) PROVE ProcTypeOK'
    <2>1. RowConfigs(r) \in SUBSET Configs
        BY DEF RowConfigs, Ours, TypeOK, FileTypeOK
    <2> QED
        BY <1>19, <2>1 DEF ResetManifest, ResetStates
<1>20. CASE ResetState
    BY <1>20 DEF ResetState, ResetStates
<1>21. CASE ResetText
    BY <1>21 DEF ResetText, ResetStates
<1>22. CASE ResetHistory
    BY NoResetType, <1>22 DEF ResetHistory
<1>23. CASE Crash
    BY NoResetType, <1>23 DEF Crash, DriverStates
<1>24. CASE UNCHANGED vars
    BY <1>24 DEF vars, procVars
<1> QED
    BY <1>1, <1>2, <1>3, <1>4, <1>5, <1>6, <1>7, <1>8, <1>9, <1>10, <1>11,
       <1>12, <1>13, <1>14, <1>15, <1>16, <1>17, <1>18, <1>19, <1>20,
       <1>21, <1>22, <1>23, <1>24
       DEF Next, DriverStep, WorkerStep, ResetStep

LEMMA CountTypeStep == TypeOK /\ [Next]_vars => CountTypeOK'
<1> SUFFICES ASSUME TypeOK, [Next]_vars PROVE CountTypeOK'
    OBVIOUS
<1>0. CountTypeOK
    BY DEF TypeOK
<1> USE <1>0 DEF CountTypeOK
<1>1. ASSUME NEW d \in Drivers, Open(d) PROVE CountTypeOK'
    BY <1>1 DEF Open, MayStart
<1>2. ASSUME NEW d \in Drivers, Resume(d) PROVE CountTypeOK'
    BY <1>2 DEF Resume, MayStart
<1>3. ASSUME NEW d \in Drivers, Interrupt(d) PROVE CountTypeOK'
    BY <1>3 DEF Interrupt
<1>4. ASSUME NEW d \in Drivers, Opened(d) PROVE CountTypeOK'
    BY <1>4 DEF Opened, countVars
<1>5. ASSUME NEW d \in Drivers, PrepareFiles(d) PROVE CountTypeOK'
    BY <1>5 DEF PrepareFiles, countVars
<1>6. ASSUME NEW d \in Drivers, Finalize(d) PROVE CountTypeOK'
    BY <1>6 DEF Finalize, countVars
<1>7. ASSUME NEW d \in Drivers, Closed(d) PROVE CountTypeOK'
    BY <1>7 DEF Closed, countVars
<1>8. ASSUME NEW d \in Drivers, NEW t \in Tasks, Submit(d, t) PROVE CountTypeOK'
    BY <1>8 DEF Submit, countVars
<1>9. ASSUME NEW d \in Drivers, NEW t \in Tasks, MarkRunning(d, t) PROVE CountTypeOK'
    BY <1>9 DEF MarkRunning, countVars
<1>10. ASSUME NEW d \in Drivers, NEW t \in Tasks, Marked(d, t) PROVE CountTypeOK'
    BY <1>10 DEF Marked, countVars
<1>11. ASSUME NEW d \in Drivers, NEW t \in Tasks, DrawConfig(d, t) PROVE CountTypeOK'
    BY <1>11 DEF DrawConfig, countVars
<1>12. ASSUME NEW d \in Drivers, NEW t \in Tasks, MakeDir(d, t) PROVE CountTypeOK'
    BY <1>12 DEF MakeDir, countVars
<1>13. ASSUME NEW d \in Drivers, NEW t \in Tasks, AppendHistory(d, t) PROVE CountTypeOK'
    BY <1>13 DEF AppendHistory, countVars
<1>14. ASSUME NEW d \in Drivers, NEW t \in Tasks, AppendManifest(d, t) PROVE CountTypeOK'
    BY <1>14 DEF AppendManifest, countVars
<1>15. ASSUME NEW d \in Drivers, NEW t \in Tasks, Simulate(d, t) PROVE CountTypeOK'
    BY <1>15 DEF Simulate, countVars
<1>16. ASSUME NEW d \in Drivers, NEW t \in Tasks, Fail(d, t) PROVE CountTypeOK'
    BY <1>16 DEF Fail, countVars
<1>17. ASSUME NEW d \in Drivers, NEW t \in Tasks, Record(d, t) PROVE CountTypeOK'
    BY <1>17 DEF Record, countVars
<1>18. ASSUME NEW d \in Drivers, NEW t \in Tasks, RecordedText(d, t) PROVE CountTypeOK'
    BY <1>18 DEF RecordedText, countVars
<1>19. ASSUME NEW r \in Recipes, ResetManifest(r) PROVE CountTypeOK'
    BY <1>19 DEF ResetManifest
<1>20. CASE ResetState
    BY <1>20 DEF ResetState, countVars
<1>21. CASE ResetText
    BY <1>21 DEF ResetText, countVars
<1>22. CASE ResetHistory
    BY <1>22 DEF ResetHistory, countVars
<1>23. CASE Crash
    BY <1>23 DEF Crash
<1>24. CASE UNCHANGED vars
    BY <1>24 DEF vars, countVars
<1> QED
    BY <1>1, <1>2, <1>3, <1>4, <1>5, <1>6, <1>7, <1>8, <1>9, <1>10, <1>11,
       <1>12, <1>13, <1>14, <1>15, <1>16, <1>17, <1>18, <1>19, <1>20,
       <1>21, <1>22, <1>23, <1>24
       DEF Next, DriverStep, WorkerStep, ResetStep

LEMMA TypeStep == TypeOK /\ WorkersHaveConfig /\ [Next]_vars => TypeOK'
    BY StatusTypeStep, FileTypeStep, ProcTypeStep, CountTypeStep DEF TypeOK

LEMMA WorkersHaveConfigStep == TypeOK /\ WorkersHaveConfig /\ [Next]_vars => WorkersHaveConfig'
<1> SUFFICES ASSUME TypeOK, WorkersHaveConfig, [Next]_vars PROVE WorkersHaveConfig'
    OBVIOUS
<1>0. ProcTypeOK /\ WorkersHaveConfig
    BY DEF TypeOK
<1> USE <1>0 DEF WorkersHaveConfig, ProcTypeOK
<1>1. ASSUME NEW d \in Drivers, Open(d) PROVE WorkersHaveConfig'
    BY <1>1 DEF Open
<1>2. ASSUME NEW d \in Drivers, Resume(d) PROVE WorkersHaveConfig'
    BY <1>2 DEF Resume
<1>3. ASSUME NEW d \in Drivers, Interrupt(d) PROVE WorkersHaveConfig'
    BY <1>3 DEF Interrupt
<1>4. ASSUME NEW d \in Drivers, Opened(d) PROVE WorkersHaveConfig'
    BY <1>4 DEF Opened
<1>5. ASSUME NEW d \in Drivers, PrepareFiles(d) PROVE WorkersHaveConfig'
    BY <1>5 DEF PrepareFiles
<1>6. ASSUME NEW d \in Drivers, Finalize(d) PROVE WorkersHaveConfig'
    BY <1>6 DEF Finalize
<1>7. ASSUME NEW d \in Drivers, Closed(d) PROVE WorkersHaveConfig'
    BY <1>7 DEF Closed
<1>8. ASSUME NEW d \in Drivers, NEW t \in Tasks, Submit(d, t) PROVE WorkersHaveConfig'
    BY <1>8 DEF Submit, WorkerTo
<1>9. ASSUME NEW d \in Drivers, NEW t \in Tasks, MarkRunning(d, t) PROVE WorkersHaveConfig'
    <2>1. worker[d][t].pc = "begun" /\ UNCHANGED <<driver, reset>>
        BY <1>9 DEF MarkRunning
    <2>2. CASE WorkerTo(d, t, "marked") /\ ~locked /\ locked'
        BY <2>1, <2>2 DEF WorkerTo, SetWorker, At
    <2>3. CASE WorkerTo(d, t, "started") /\ UNCHANGED locked
        BY <2>1, <2>3 DEF WorkerTo, SetWorker, At
    <2> QED
        BY <1>9, <2>2, <2>3 DEF MarkRunning, Save, Refused, statusVars
<1>10. ASSUME NEW d \in Drivers, NEW t \in Tasks, Marked(d, t) PROVE WorkersHaveConfig'
    BY <1>10 DEF Marked, WorkerTo
<1>11. ASSUME NEW d \in Drivers, NEW t \in Tasks, DrawConfig(d, t) PROVE WorkersHaveConfig'
    BY <1>11 DEF DrawConfig, WorkerTo, SetWorker, At
<1>12. ASSUME NEW d \in Drivers, NEW t \in Tasks, MakeDir(d, t) PROVE WorkersHaveConfig'
    <2>1. worker[d][t].pc = "drawn" /\ UNCHANGED <<driver, reset>>
        BY <1>12 DEF MakeDir
    <2>2. CASE SetWorker(d, t, At("exited")) /\ UNCHANGED locked
        BY <2>1, <2>2 DEF WorkerTo, SetWorker, At
    <2>3. CASE WorkerTo(d, t, "made") /\ UNCHANGED locked
        BY <2>1, <2>3 DEF WorkerTo, SetWorker, At
    <2> QED
        BY <1>12, <2>2, <2>3 DEF MakeDir, Save, Refused, statusVars
<1>13. ASSUME NEW d \in Drivers, NEW t \in Tasks, AppendHistory(d, t) PROVE WorkersHaveConfig'
    BY <1>13 DEF AppendHistory, WorkerTo
<1>14. ASSUME NEW d \in Drivers, NEW t \in Tasks, AppendManifest(d, t) PROVE WorkersHaveConfig'
    BY <1>14 DEF AppendManifest, WorkerTo
<1>15. ASSUME NEW d \in Drivers, NEW t \in Tasks, Simulate(d, t) PROVE WorkersHaveConfig'
    BY <1>15 DEF Simulate, WorkerTo, SetWorker, At
<1>16. ASSUME NEW d \in Drivers, NEW t \in Tasks, Fail(d, t) PROVE WorkersHaveConfig'
    BY <1>16 DEF Fail, WorkerTo
<1>17. ASSUME NEW d \in Drivers, NEW t \in Tasks, Record(d, t) PROVE WorkersHaveConfig'
    <2>1. worker[d][t].pc = "exited" /\ UNCHANGED <<driver, reset>>
        BY <1>17 DEF Record
    <2>2. CASE WorkerTo(d, t, "recorded") /\ ~locked /\ locked'
        BY <2>1, <2>2 DEF WorkerTo, SetWorker, At
    <2>3. CASE SetWorker(d, t, At("ended")) /\ UNCHANGED locked
        BY <2>1, <2>3 DEF WorkerTo, SetWorker, At
    <2> QED
        BY <1>17, <2>2, <2>3 DEF Record, Save, Refused, statusVars
<1>18. ASSUME NEW d \in Drivers, NEW t \in Tasks, RecordedText(d, t) PROVE WorkersHaveConfig'
    BY <1>18 DEF RecordedText, WorkerTo, SetWorker, At
<1>19. ASSUME NEW r \in Recipes, ResetManifest(r) PROVE WorkersHaveConfig'
    BY <1>19 DEF ResetManifest
<1>20. CASE ResetState
    BY <1>20 DEF ResetState
<1>21. CASE ResetText
    BY <1>21 DEF ResetText
<1>22. CASE ResetHistory
    BY <1>22 DEF ResetHistory
<1>23. CASE Crash
    BY <1>23 DEF Crash, At
<1>24. CASE UNCHANGED vars
    BY <1>24, SMTT(40) DEF vars, procVars
<1> QED
    BY <1>1, <1>2, <1>3, <1>4, <1>5, <1>6, <1>7, <1>8, <1>9, <1>10, <1>11,
       <1>12, <1>13, <1>14, <1>15, <1>16, <1>17, <1>18, <1>19, <1>20,
       <1>21, <1>22, <1>23, <1>24
       DEF Next, DriverStep, WorkerStep, ResetStep

LEMMA OneOwnerStep == TypeOK /\ OneOwner /\ [Next]_vars => OneOwner'
<1> SUFFICES ASSUME TypeOK, OneOwner, [Next]_vars PROVE OneOwner'
    OBVIOUS
<1>0. ProcTypeOK /\ OneOwner
    BY DEF TypeOK
<1> USE <1>0 DEF OneOwner, DriverHolds, WorkerHolds, ResetHolds, ProcTypeOK
<1>1. ASSUME NEW d \in Drivers, Open(d) PROVE OneOwner'
    BY <1>1 DEF Open, DriverTo, Save
<1>2. ASSUME NEW d \in Drivers, Resume(d) PROVE OneOwner'
    BY <1>2 DEF Resume, DriverTo, Save
<1>3. ASSUME NEW d \in Drivers, Interrupt(d) PROVE OneOwner'
    BY <1>3 DEF Interrupt, DriverTo, statusVars
<1>4. ASSUME NEW d \in Drivers, Opened(d) PROVE OneOwner'
    BY <1>4 DEF Opened, DriverTo, WriteText
<1>5. ASSUME NEW d \in Drivers, PrepareFiles(d) PROVE OneOwner'
    BY <1>5 DEF PrepareFiles, DriverTo, statusVars
<1>6. ASSUME NEW d \in Drivers, Finalize(d) PROVE OneOwner'
    BY <1>6 DEF Finalize, DriverTo, Save
<1>7. ASSUME NEW d \in Drivers, Closed(d) PROVE OneOwner'
    BY <1>7 DEF Closed, DriverTo, WriteText
<1>8. ASSUME NEW d \in Drivers, NEW t \in Tasks, Submit(d, t) PROVE OneOwner'
    BY <1>8 DEF Submit, WorkerTo, SetWorker, At, statusVars
<1>9. ASSUME NEW d \in Drivers, NEW t \in Tasks, MarkRunning(d, t) PROVE OneOwner'
    <2>1. worker[d][t].pc = "begun" /\ UNCHANGED <<driver, reset>>
        BY <1>9 DEF MarkRunning
    <2>2. CASE WorkerTo(d, t, "marked") /\ ~locked /\ locked'
        BY <2>1, <2>2 DEF WorkerTo, SetWorker, At
    <2>3. CASE WorkerTo(d, t, "started") /\ UNCHANGED locked
        BY <2>1, <2>3 DEF WorkerTo, SetWorker, At
    <2> QED
        BY <1>9, <2>2, <2>3 DEF MarkRunning, Save, Refused, statusVars
<1>10. ASSUME NEW d \in Drivers, NEW t \in Tasks, Marked(d, t) PROVE OneOwner'
    BY <1>10 DEF Marked, WorkerTo, SetWorker, At, WriteText
<1>11. ASSUME NEW d \in Drivers, NEW t \in Tasks, DrawConfig(d, t) PROVE OneOwner'
    BY <1>11 DEF DrawConfig, WorkerTo, SetWorker, At, statusVars
<1>12. ASSUME NEW d \in Drivers, NEW t \in Tasks, MakeDir(d, t) PROVE OneOwner'
    <2>1. worker[d][t].pc = "drawn" /\ UNCHANGED <<driver, reset>>
        BY <1>12 DEF MakeDir
    <2>2. CASE SetWorker(d, t, At("exited")) /\ UNCHANGED locked
        BY <2>1, <2>2 DEF WorkerTo, SetWorker, At
    <2>3. CASE WorkerTo(d, t, "made") /\ UNCHANGED locked
        BY <2>1, <2>3 DEF WorkerTo, SetWorker, At
    <2> QED
        BY <1>12, <2>2, <2>3 DEF MakeDir, Save, Refused, statusVars
<1>13. ASSUME NEW d \in Drivers, NEW t \in Tasks, AppendHistory(d, t) PROVE OneOwner'
    BY <1>13 DEF AppendHistory, WorkerTo, SetWorker, At, statusVars
<1>14. ASSUME NEW d \in Drivers, NEW t \in Tasks, AppendManifest(d, t) PROVE OneOwner'
    BY <1>14 DEF AppendManifest, WorkerTo, SetWorker, At, statusVars
<1>15. ASSUME NEW d \in Drivers, NEW t \in Tasks, Simulate(d, t) PROVE OneOwner'
    BY <1>15 DEF Simulate, WorkerTo, SetWorker, At, statusVars
<1>16. ASSUME NEW d \in Drivers, NEW t \in Tasks, Fail(d, t) PROVE OneOwner'
    BY <1>16 DEF Fail, WorkerTo, SetWorker, At, statusVars
<1>17. ASSUME NEW d \in Drivers, NEW t \in Tasks, Record(d, t) PROVE OneOwner'
    <2>1. worker[d][t].pc = "exited" /\ UNCHANGED <<driver, reset>>
        BY <1>17 DEF Record
    <2>2. CASE WorkerTo(d, t, "recorded") /\ ~locked /\ locked'
        BY <2>1, <2>2 DEF WorkerTo, SetWorker, At
    <2>3. CASE SetWorker(d, t, At("ended")) /\ UNCHANGED locked
        BY <2>1, <2>3 DEF WorkerTo, SetWorker, At
    <2> QED
        BY <1>17, <2>2, <2>3 DEF Record, Save, Refused, statusVars
<1>18. ASSUME NEW d \in Drivers, NEW t \in Tasks, RecordedText(d, t) PROVE OneOwner'
    BY <1>18 DEF RecordedText, WorkerTo, SetWorker, At, WriteText
<1>19. ASSUME NEW r \in Recipes, ResetManifest(r) PROVE OneOwner'
    BY <1>19 DEF ResetManifest
<1>20. CASE ResetState
    BY <1>20 DEF ResetState
<1>21. CASE ResetText
    BY <1>21 DEF ResetText
<1>22. CASE ResetHistory
    BY <1>22 DEF ResetHistory, NoReset
<1>23. CASE Crash
    BY <1>23 DEF Crash, NoReset, At, DriverAlive, WorkerAlive
<1>24. CASE UNCHANGED vars
    BY <1>24 DEF vars, statusVars, procVars
<1> QED
    BY <1>1, <1>2, <1>3, <1>4, <1>5, <1>6, <1>7, <1>8, <1>9, <1>10, <1>11,
       <1>12, <1>13, <1>14, <1>15, <1>16, <1>17, <1>18, <1>19, <1>20,
       <1>21, <1>22, <1>23, <1>24
       DEF Next, DriverStep, WorkerStep, ResetStep

\* Between the writes of reset-tasks nobody else writes, so that at its end
\* the file status is the one of status.json.
TextWritten ==
    /\ StatusAgrees
    /\ reset.pc = "history" /\ ~textTorn => text = st

LEMMA TextWrittenStep == OneOwner /\ TextWritten /\ [Next]_vars => TextWritten'
<1> SUFFICES ASSUME OneOwner, TextWritten, [Next]_vars PROVE TextWritten'
    OBVIOUS
<1>0. OneOwner /\ TextWritten
    OBVIOUS
<1> USE <1>0 DEF TextWritten, StatusAgrees, OneOwner, ResetHolds
<1>1. ASSUME NEW d \in Drivers, Open(d) PROVE TextWritten'
    BY <1>1 DEF Open, Save
<1>2. ASSUME NEW d \in Drivers, Resume(d) PROVE TextWritten'
    BY <1>2 DEF Resume, Save
<1>3. ASSUME NEW d \in Drivers, Interrupt(d) PROVE TextWritten'
    BY <1>3 DEF Interrupt, DriverTo, statusVars
<1>4. ASSUME NEW d \in Drivers, Opened(d) PROVE TextWritten'
    BY <1>4 DEF Opened, WriteText
<1>5. ASSUME NEW d \in Drivers, PrepareFiles(d) PROVE TextWritten'
    BY <1>5 DEF PrepareFiles, DriverTo, statusVars
<1>6. ASSUME NEW d \in Drivers, Finalize(d) PROVE TextWritten'
    BY <1>6 DEF Finalize, Save
<1>7. ASSUME NEW d \in Drivers, Closed(d) PROVE TextWritten'
    BY <1>7 DEF Closed, WriteText
<1>8. ASSUME NEW d \in Drivers, NEW t \in Tasks, Submit(d, t) PROVE TextWritten'
    BY <1>8 DEF Submit, statusVars
<1>9. ASSUME NEW d \in Drivers, NEW t \in Tasks, MarkRunning(d, t) PROVE TextWritten'
    <2>1. UNCHANGED <<st, text, textTorn, reset>> /\ (locked' \/ UNCHANGED locked)
        BY <1>9 DEF MarkRunning, Save, Refused, statusVars
    <2> QED
        BY <2>1, <1>0 DEF TextWritten, StatusAgrees
<1>10. ASSUME NEW d \in Drivers, NEW t \in Tasks, Marked(d, t) PROVE TextWritten'
    BY <1>10 DEF Marked, WriteText
<1>11. ASSUME NEW d \in Drivers, NEW t \in Tasks, DrawConfig(d, t) PROVE TextWritten'
    BY <1>11 DEF DrawConfig, statusVars
<1>12. ASSUME NEW d \in Drivers, NEW t \in Tasks, MakeDir(d, t) PROVE TextWritten'
    BY <1>12 DEF MakeDir, statusVars
<1>13. ASSUME NEW d \in Drivers, NEW t \in Tasks, AppendHistory(d, t) PROVE TextWritten'
    BY <1>13 DEF AppendHistory, statusVars
<1>14. ASSUME NEW d \in Drivers, NEW t \in Tasks, AppendManifest(d, t) PROVE TextWritten'
    BY <1>14 DEF AppendManifest, statusVars
<1>15. ASSUME NEW d \in Drivers, NEW t \in Tasks, Simulate(d, t) PROVE TextWritten'
    BY <1>15 DEF Simulate, statusVars
<1>16. ASSUME NEW d \in Drivers, NEW t \in Tasks, Fail(d, t) PROVE TextWritten'
    BY <1>16 DEF Fail, statusVars
<1>17. ASSUME NEW d \in Drivers, NEW t \in Tasks, Record(d, t) PROVE TextWritten'
    <2>1. UNCHANGED <<st, text, textTorn, reset>> /\ (locked' \/ UNCHANGED locked)
        BY <1>17 DEF Record, Save, Refused, statusVars
    <2> QED
        BY <2>1, <1>0 DEF TextWritten, StatusAgrees
<1>18. ASSUME NEW d \in Drivers, NEW t \in Tasks, RecordedText(d, t) PROVE TextWritten'
    BY <1>18 DEF RecordedText, WriteText
<1>19. ASSUME NEW r \in Recipes, ResetManifest(r) PROVE TextWritten'
    BY <1>19 DEF ResetManifest
<1>20. CASE ResetState
    BY <1>20 DEF ResetState
<1>21. CASE ResetText
    BY <1>21 DEF ResetText
<1>22. CASE ResetHistory
    BY <1>22 DEF ResetHistory, NoReset
<1>23. CASE Crash
    BY <1>23 DEF Crash, NoReset
<1>24. CASE UNCHANGED vars
    BY <1>24 DEF vars, statusVars, procVars
<1> QED
    BY <1>1, <1>2, <1>3, <1>4, <1>5, <1>6, <1>7, <1>8, <1>9, <1>10, <1>11,
       <1>12, <1>13, <1>14, <1>15, <1>16, <1>17, <1>18, <1>19, <1>20,
       <1>21, <1>22, <1>23, <1>24
       DEF Next, DriverStep, WorkerStep, ResetStep

LEMMA CompletedStep == CompletedIsComplete /\ [Next]_vars => CompletedIsComplete'
<1> SUFFICES ASSUME CompletedIsComplete, [Next]_vars PROVE CompletedIsComplete'
    OBVIOUS
<1>0. CompletedIsComplete
    OBVIOUS
<1>a. ASSUME UNCHANGED <<st, tasks>> PROVE CompletedIsComplete'
    BY <1>0, <1>a DEF CompletedIsComplete, Succeeded, With
<1>b. ASSUME st' # "completed" PROVE CompletedIsComplete'
    BY <1>b DEF CompletedIsComplete
<1>1. ASSUME NEW d \in Drivers, Open(d) PROVE CompletedIsComplete'
    BY <1>b, <1>1 DEF Open, Save
<1>2. ASSUME NEW d \in Drivers, Resume(d) PROVE CompletedIsComplete'
    BY <1>b, <1>2 DEF Resume, Save
<1>3. ASSUME NEW d \in Drivers, Interrupt(d) PROVE CompletedIsComplete'
    BY <1>a, <1>3 DEF Interrupt, statusVars
<1>4. ASSUME NEW d \in Drivers, Opened(d) PROVE CompletedIsComplete'
    BY <1>a, <1>4 DEF Opened, WriteText
<1>5. ASSUME NEW d \in Drivers, PrepareFiles(d) PROVE CompletedIsComplete'
    BY <1>a, <1>5 DEF PrepareFiles, statusVars
<1>6. ASSUME NEW d \in Drivers, Finalize(d) PROVE CompletedIsComplete'
    <2>1. st' = Outcome /\ tasks' = tasks
        BY <1>6 DEF Finalize, Save
    <2> QED
        BY <2>1 DEF Outcome, CompletedIsComplete, Succeeded, With
<1>7. ASSUME NEW d \in Drivers, Closed(d) PROVE CompletedIsComplete'
    BY <1>a, <1>7 DEF Closed, WriteText
<1>8. ASSUME NEW d \in Drivers, NEW t \in Tasks, Submit(d, t) PROVE CompletedIsComplete'
    BY <1>a, <1>8 DEF Submit, statusVars
<1>9. ASSUME NEW d \in Drivers, NEW t \in Tasks, MarkRunning(d, t) PROVE CompletedIsComplete'
    <2>1. CASE Accepts
        <3>1. st' = "running"
            BY <1>9, <2>1 DEF MarkRunning, Save, Accepts
        <3> QED
            BY <1>b, <3>1
    <2>2. CASE ~Accepts
        <3>1. UNCHANGED <<st, tasks>>
            BY <1>9, <2>2 DEF MarkRunning, Refused, statusVars
        <3> QED
            BY <1>a, <3>1
    <2> QED
        BY <2>1, <2>2
<1>10. ASSUME NEW d \in Drivers, NEW t \in Tasks, Marked(d, t) PROVE CompletedIsComplete'
    BY <1>a, <1>10 DEF Marked, WriteText
<1>11. ASSUME NEW d \in Drivers, NEW t \in Tasks, DrawConfig(d, t) PROVE CompletedIsComplete'
    BY <1>a, <1>11 DEF DrawConfig, statusVars
<1>12. ASSUME NEW d \in Drivers, NEW t \in Tasks, MakeDir(d, t) PROVE CompletedIsComplete'
    BY <1>a, <1>12 DEF MakeDir, statusVars
<1>13. ASSUME NEW d \in Drivers, NEW t \in Tasks, AppendHistory(d, t) PROVE CompletedIsComplete'
    BY <1>a, <1>13 DEF AppendHistory, statusVars
<1>14. ASSUME NEW d \in Drivers, NEW t \in Tasks, AppendManifest(d, t) PROVE CompletedIsComplete'
    BY <1>a, <1>14 DEF AppendManifest, statusVars
<1>15. ASSUME NEW d \in Drivers, NEW t \in Tasks, Simulate(d, t) PROVE CompletedIsComplete'
    BY <1>a, <1>15 DEF Simulate, statusVars
<1>16. ASSUME NEW d \in Drivers, NEW t \in Tasks, Fail(d, t) PROVE CompletedIsComplete'
    BY <1>a, <1>16 DEF Fail, statusVars
<1>17. ASSUME NEW d \in Drivers, NEW t \in Tasks, Record(d, t) PROVE CompletedIsComplete'
    <2>1. CASE Accepts
        <3>1. st' = "running"
            BY <1>17, <2>1 DEF Record, Save, Accepts
        <3> QED
            BY <1>b, <3>1
    <2>2. CASE ~Accepts
        <3>1. UNCHANGED <<st, tasks>>
            BY <1>17, <2>2 DEF Record, Refused, statusVars
        <3> QED
            BY <1>a, <3>1
    <2> QED
        BY <2>1, <2>2
<1>18. ASSUME NEW d \in Drivers, NEW t \in Tasks, RecordedText(d, t) PROVE CompletedIsComplete'
    BY <1>a, <1>18 DEF RecordedText, WriteText
<1>19. ASSUME NEW r \in Recipes, ResetManifest(r) PROVE CompletedIsComplete'
    BY <1>a, <1>19 DEF ResetManifest
<1>20. CASE ResetState
    BY <1>b, <1>20 DEF ResetState
<1>21. CASE ResetText
    BY <1>a, <1>21 DEF ResetText
<1>22. CASE ResetHistory
    BY <1>a, <1>22 DEF ResetHistory
<1>23. CASE Crash
    BY <1>a, <1>23 DEF Crash
<1>24. CASE UNCHANGED vars
    BY <1>a, <1>24 DEF vars, statusVars
<1> QED
    BY <1>1, <1>2, <1>3, <1>4, <1>5, <1>6, <1>7, <1>8, <1>9, <1>10, <1>11,
       <1>12, <1>13, <1>14, <1>15, <1>16, <1>17, <1>18, <1>19, <1>20,
       <1>21, <1>22, <1>23, <1>24
       DEF Next, DriverStep, WorkerStep, ResetStep

-------------------------------------------------------------------------------
(* What one step does, read at single workers, drivers and entries.        *)

\* No worker but that of t under d moves.
OthersStay(d, t) ==
    \A e \in Drivers, u \in Tasks :
        e # d \/ u # t => worker'[e][u] = worker[e][u]

LEMMA WorkerToPoint ==
    ASSUME TypeOK, NEW d \in Drivers, NEW t \in Tasks, NEW to, WorkerTo(d, t, to)
    PROVE  /\ worker'[d][t].pc = to
           /\ worker'[d][t].config = worker[d][t].config
           /\ worker'[d][t].ok = worker[d][t].ok
           /\ OthersStay(d, t)
<1>1. worker \in [Drivers -> [Tasks -> Worker]] /\ worker[d][t] \in Worker
    BY DEF TypeOK, ProcTypeOK
<1>2. worker'[d][t] = [worker[d][t] EXCEPT !.pc = to] /\ OthersStay(d, t)
    BY <1>1 DEF WorkerTo, OthersStay
<1> QED
    BY <1>1, <1>2 DEF Worker

LEMMA SetWorkerPoint ==
    ASSUME TypeOK, NEW d \in Drivers, NEW t \in Tasks, NEW w, SetWorker(d, t, w)
    PROVE  worker'[d][t] = w /\ OthersStay(d, t)
BY DEF SetWorker, OthersStay, TypeOK, ProcTypeOK

LEMMA DriverToPoint ==
    ASSUME TypeOK, NEW d \in Drivers, NEW to, DriverTo(d, to)
    PROVE  /\ driver'[d] = to
           /\ \A e \in Drivers : e # d => driver'[e] = driver[e]
BY DEF DriverTo, TypeOK, ProcTypeOK

\* An update is taken and changes the entry of t alone, or nothing at all.
Updates(t, entry) ==
    IF Accepts
    THEN /\ ~locked /\ locked'
         /\ tasks'[t] = entry /\ st' = st
         /\ \A i \in Ids : i # t => tasks'[i] = tasks[i]
    ELSE UNCHANGED statusVars

LEMMA MarkRunningPoint ==
    ASSUME TypeOK, NEW d \in Drivers, NEW t \in Tasks, MarkRunning(d, t)
    PROVE  /\ worker[d][t].pc = "begun"
           /\ worker'[d][t].pc = IF Accepts THEN "marked" ELSE "started"
           /\ worker'[d][t].config = worker[d][t].config
           /\ worker'[d][t].ok = worker[d][t].ok
           /\ OthersStay(d, t)
           /\ Updates(t, [status |-> "running", config |-> NoConfig])
           /\ UNCHANGED <<fileVars, driver, resuming, reset, countVars>>
<1>1. tasks \in [Ids -> Entry] /\ t \in Ids
    BY DEF TypeOK, StatusTypeOK, Ids
<1>2. CASE Accepts
    <2>1. WorkerTo(d, t, "marked")
        BY <1>2 DEF MarkRunning
    <2> QED
        BY <1>1, <1>2, <2>1, WorkerToPoint DEF MarkRunning, Save, Updates
<1>3. CASE ~Accepts
    <2>1. WorkerTo(d, t, "started")
        BY <1>3 DEF MarkRunning
    <2> QED
        BY <1>3, <2>1, WorkerToPoint DEF MarkRunning, Refused, Updates
<1> QED
    BY <1>2, <1>3

LEMMA DrawConfigPoint ==
    ASSUME TypeOK, NEW d \in Drivers, NEW t \in Tasks, DrawConfig(d, t)
    PROVE  /\ worker[d][t].pc = "started" /\ worker'[d][t].pc = "drawn"
           /\ worker'[d][t].config \in Configs \ dirs
           /\ ~worker'[d][t].ok
           /\ OthersStay(d, t)
           /\ UNCHANGED <<statusVars, fileVars, driver, resuming, reset, countVars>>
<1>1. PICK c \in Configs \ dirs : SetWorker(d, t, [At("drawn") EXCEPT !.config = c])
    BY DEF DrawConfig
<1>2. worker'[d][t] = [At("drawn") EXCEPT !.config = c] /\ OthersStay(d, t)
    BY <1>1, SetWorkerPoint
<1>3. worker'[d][t].pc = "drawn" /\ worker'[d][t].config = c /\ ~worker'[d][t].ok
    BY <1>2 DEF At
<1> QED
    BY <1>1, <1>2, <1>3 DEF DrawConfig

LEMMA MakeDirPoint ==
    ASSUME TypeOK, NEW d \in Drivers, NEW t \in Tasks, MakeDir(d, t)
    PROVE  /\ worker[d][t].pc = "drawn"
           /\ \/ /\ worker[d][t].config \in dirs
                 /\ worker'[d][t] = At("exited") /\ dirs' = dirs
              \/ /\ worker[d][t].config \notin dirs
                 /\ dirs' = dirs \cup {worker[d][t].config}
                 /\ worker'[d][t].pc = "made"
                 /\ worker'[d][t].config = worker[d][t].config
                 /\ worker'[d][t].ok = worker[d][t].ok
           /\ OthersStay(d, t)
           /\ UNCHANGED <<statusVars, manifest, history, filesReady, torn, driver,
                          resuming, reset, countVars>>
<1>1. CASE worker[d][t].config \in dirs
    BY <1>1, SetWorkerPoint DEF MakeDir
<1>2. CASE worker[d][t].config \notin dirs
    BY <1>2, WorkerToPoint DEF MakeDir
<1> QED
    BY <1>1, <1>2

LEMMA SimulatePoint ==
    ASSUME TypeOK, NEW d \in Drivers, NEW t \in Tasks, Simulate(d, t)
    PROVE  /\ worker[d][t].pc = "simulating" /\ worker'[d][t].pc = "exited"
           /\ worker'[d][t].config = worker[d][t].config
           /\ OthersStay(d, t)
           /\ UNCHANGED <<statusVars, fileVars, driver, resuming, reset, countVars>>
<1>1. PICK ok \in BOOLEAN :
         SetWorker(d, t, [worker[d][t] EXCEPT !.pc = "exited", !.ok = ok])
    BY DEF Simulate
<1>2. worker'[d][t] = [worker[d][t] EXCEPT !.pc = "exited", !.ok = ok]
    BY <1>1, SetWorkerPoint
<1>3. worker[d][t] \in Worker
    BY DEF TypeOK, ProcTypeOK
<1> QED
    BY <1>1, <1>2, <1>3, SetWorkerPoint DEF Simulate, Worker

LEMMA RecordedPoint ==
    ASSUME TypeOK, NEW d \in Drivers, NEW t \in Tasks
    PROVE  /\ Recorded(d, t).status \in {"completed", "failed"}
           /\ Recorded(d, t).status = "completed" => worker[d][t].ok
           /\ Recorded(d, t).config = IF worker[d][t].config # NoConfig
                                      THEN worker[d][t].config ELSE tasks[t].config
<1>1. CASE worker[d][t].ok
    BY <1>1 DEF Recorded
<1>2. CASE ~worker[d][t].ok
    BY <1>2 DEF Recorded
<1> QED
    BY <1>1, <1>2

LEMMA RecordPoint ==
    ASSUME TypeOK, NEW d \in Drivers, NEW t \in Tasks, Record(d, t)
    PROVE  /\ worker[d][t].pc = "exited"
           /\ Accepts => /\ worker'[d][t].pc = "recorded"
                         /\ worker'[d][t].config = worker[d][t].config
                         /\ worker'[d][t].ok = worker[d][t].ok
           /\ ~Accepts => worker'[d][t] = At("ended")
           /\ OthersStay(d, t)
           /\ Updates(t, Recorded(d, t))
           /\ UNCHANGED <<fileVars, driver, resuming, reset, countVars>>
<1>1. tasks \in [Ids -> Entry] /\ t \in Ids
    BY DEF TypeOK, StatusTypeOK, Ids
<1>2. CASE Accepts
    <2>1. WorkerTo(d, t, "recorded")
        BY <1>2 DEF Record
    <2> QED
        BY <1>1, <1>2, <2>1, WorkerToPoint DEF Record, Save, Updates
<1>3. CASE ~Accepts
    <2>1. SetWorker(d, t, At("ended"))
        BY <1>3 DEF Record
    <2> QED
        BY <1>3, <2>1, SetWorkerPoint DEF Record, Refused, Updates
<1> QED
    BY <1>2, <1>3

\* Every entry that resume leaves is an entry of the same task from before:
\* under an id that is not empty, its canonical one.
LEMMA ResumePoint ==
    ASSUME TypeOK, NEW d \in Drivers, Resume(d)
    PROVE  /\ \A k \in Ids : \/ tasks'[k] = NoEntry
                             \/ \E i \in Present : /\ Canonical(i) = k
                                                   /\ tasks'[k] = tasks[i]
           /\ st # "absent" /\ st' = "running" /\ ~locked /\ locked'
           /\ driver[d] = "off" /\ DriverTo(d, "opened")
           /\ UNCHANGED <<fileVars, worker, reset>>
           /\ UNCHANGED <<crashes, resets, strays, interrupts>>
           /\ ~Quiet => overlaps' = overlaps + 1
           /\ Quiet => overlaps' = overlaps
<1>1. PICK new \in [Ids -> {tasks[i] : i \in Ids} \cup {NoEntry}] :
        /\ \A k \in Ids :
              LET from == {i \in Present : Canonical(i) = k}
              IN  IF from = {} THEN new[k] = NoEntry
                  ELSE \E i \in from : \E j \in Kept(i) : new[k] = tasks[j]
        /\ Save("running", new)
    BY DEF Resume
<1>2. ASSUME NEW i \in Present, NEW j \in Kept(i)
      PROVE  j \in Present /\ Canonical(j) = Canonical(i)
    BY <1>2 DEF Kept
<1>3. \A k \in Ids : \/ new[k] = NoEntry
                     \/ \E i \in Present : Canonical(i) = k /\ new[k] = tasks[i]
    <2> SUFFICES ASSUME NEW k \in Ids, new[k] # NoEntry
                 PROVE  \E i \in Present : Canonical(i) = k /\ new[k] = tasks[i]
        OBVIOUS
    <2>1. PICK i \in {i \in Present : Canonical(i) = k} :
                \E j \in Kept(i) : new[k] = tasks[j]
        BY <1>1
    <2> QED
        BY <1>2, <2>1
<1> QED
    BY <1>1, <1>3 DEF Resume, Save, MayStart

-------------------------------------------------------------------------------
(* A run that is quiet is closed.                                          *)

\* A run with a running entry takes updates.
RunningKeepsOpen ==
    \A i \in Ids : tasks[i].status = "running" => st = "running"

LEMMA RunningKeepsOpenStep == TypeOK /\ RunningKeepsOpen /\ [Next]_vars => RunningKeepsOpen'
<1> SUFFICES ASSUME TypeOK, RunningKeepsOpen, [Next]_vars PROVE RunningKeepsOpen'
    OBVIOUS
<1>0. RunningKeepsOpen
    OBVIOUS
<1>a. ASSUME UNCHANGED <<st, tasks>> PROVE RunningKeepsOpen'
    BY <1>0, <1>a DEF RunningKeepsOpen
<1>b. ASSUME st' = "running" PROVE RunningKeepsOpen'
    BY <1>b DEF RunningKeepsOpen
<1>1. ASSUME NEW d \in Drivers, Open(d) PROVE RunningKeepsOpen'
    BY <1>b, <1>1 DEF Open, Save
<1>2. ASSUME NEW d \in Drivers, Resume(d) PROVE RunningKeepsOpen'
    BY <1>b, <1>2 DEF Resume, Save
<1>3. ASSUME NEW d \in Drivers, Interrupt(d) PROVE RunningKeepsOpen'
    BY <1>a, <1>3 DEF Interrupt, statusVars
<1>4. ASSUME NEW d \in Drivers, Opened(d) PROVE RunningKeepsOpen'
    BY <1>a, <1>4 DEF Opened, WriteText
<1>5. ASSUME NEW d \in Drivers, PrepareFiles(d) PROVE RunningKeepsOpen'
    BY <1>a, <1>5 DEF PrepareFiles, statusVars
<1>6. ASSUME NEW d \in Drivers, Finalize(d) PROVE RunningKeepsOpen'
    BY <1>6 DEF Finalize, Save, Outcome, With, RunningKeepsOpen
<1>7. ASSUME NEW d \in Drivers, Closed(d) PROVE RunningKeepsOpen'
    BY <1>a, <1>7 DEF Closed, WriteText
<1>8. ASSUME NEW d \in Drivers, NEW t \in Tasks, Submit(d, t) PROVE RunningKeepsOpen'
    BY <1>a, <1>8 DEF Submit, statusVars
<1>9. ASSUME NEW d \in Drivers, NEW t \in Tasks, MarkRunning(d, t) PROVE RunningKeepsOpen'
    BY <1>0, <1>9, MarkRunningPoint DEF Updates, Accepts, statusVars, RunningKeepsOpen
<1>10. ASSUME NEW d \in Drivers, NEW t \in Tasks, Marked(d, t) PROVE RunningKeepsOpen'
    BY <1>a, <1>10 DEF Marked, WriteText
<1>11. ASSUME NEW d \in Drivers, NEW t \in Tasks, DrawConfig(d, t) PROVE RunningKeepsOpen'
    BY <1>a, <1>11 DEF DrawConfig, statusVars
<1>12. ASSUME NEW d \in Drivers, NEW t \in Tasks, MakeDir(d, t) PROVE RunningKeepsOpen'
    BY <1>a, <1>12 DEF MakeDir, statusVars
<1>13. ASSUME NEW d \in Drivers, NEW t \in Tasks, AppendHistory(d, t) PROVE RunningKeepsOpen'
    BY <1>a, <1>13 DEF AppendHistory, statusVars
<1>14. ASSUME NEW d \in Drivers, NEW t \in Tasks, AppendManifest(d, t) PROVE RunningKeepsOpen'
    BY <1>a, <1>14 DEF AppendManifest, statusVars
<1>15. ASSUME NEW d \in Drivers, NEW t \in Tasks, Simulate(d, t) PROVE RunningKeepsOpen'
    BY <1>a, <1>15 DEF Simulate, statusVars
<1>16. ASSUME NEW d \in Drivers, NEW t \in Tasks, Fail(d, t) PROVE RunningKeepsOpen'
    BY <1>a, <1>16 DEF Fail, statusVars
<1>17. ASSUME NEW d \in Drivers, NEW t \in Tasks, Record(d, t) PROVE RunningKeepsOpen'
    BY <1>0, <1>17, RecordPoint DEF Updates, Accepts, statusVars, RunningKeepsOpen
<1>18. ASSUME NEW d \in Drivers, NEW t \in Tasks, RecordedText(d, t) PROVE RunningKeepsOpen'
    BY <1>a, <1>18 DEF RecordedText, WriteText
<1>19. ASSUME NEW r \in Recipes, ResetManifest(r) PROVE RunningKeepsOpen'
    BY <1>a, <1>19 DEF ResetManifest, statusVars
<1>20. CASE ResetState
    <2> SUFFICES ASSUME NEW i \in Ids, tasks'[i].status = "running"
                 PROVE  st' = "running"
        BY DEF RunningKeepsOpen
    <2>1. tasks'[i] = NoEntry \/ i \in With("running") \ Matching(reset.recipe, reset.gone)
        BY <1>20 DEF ResetState, With
    <2> QED
        BY <1>20, <2>1 DEF ResetState, NoEntry
<1>21. CASE ResetText
    BY <1>a, <1>21 DEF ResetText, statusVars
<1>22. CASE ResetHistory
    BY <1>a, <1>22 DEF ResetHistory, statusVars
<1>23. CASE Crash
    BY <1>a, <1>23 DEF Crash, statusVars
<1>24. CASE UNCHANGED vars
    BY <1>a, <1>24 DEF vars, statusVars
<1> QED
    BY <1>1, <1>2, <1>3, <1>4, <1>5, <1>6, <1>7, <1>8, <1>9, <1>10, <1>11,
       <1>12, <1>13, <1>14, <1>15, <1>16, <1>17, <1>18, <1>19, <1>20,
       <1>21, <1>22, <1>23, <1>24
       DEF Next, DriverStep, WorkerStep, ResetStep

\* Without a signal the subshells live no longer than the loop of their driver.
WorkersDriven ==
    interrupts = 0 =>
        \A d \in Drivers, t \in Tasks : WorkerAlive(d, t) => driver[d] = "submitting"

LEMMA WorkersDrivenStep == TypeOK /\ WorkersDriven /\ [Next]_vars => WorkersDriven'
<1> SUFFICES ASSUME TypeOK, WorkersDriven, [Next]_vars PROVE WorkersDriven'
    OBVIOUS
<1>0. WorkersDriven /\ ProcTypeOK /\ CountTypeOK
    BY DEF TypeOK
<1>a. ASSUME UNCHANGED <<driver, worker, interrupts>> PROVE WorkersDriven'
    BY <1>0, <1>a DEF WorkersDriven, WorkerAlive
<1>b. ASSUME NEW d \in Drivers, NEW to \in {"opened", "preparing", "submitting", "ended"},
             driver[d] # "submitting",
             DriverTo(d, to), UNCHANGED <<worker, interrupts>>
      PROVE  WorkersDriven'
    BY <1>0, <1>b, DriverToPoint DEF WorkersDriven, WorkerAlive
<1>c. ASSUME NEW d \in Drivers, NEW t \in Tasks, OthersStay(d, t),
             WorkerAlive(d, t) \/ ~WorkerAlive(d, t)' \/ driver[d] = "submitting",
             UNCHANGED <<driver, interrupts>>
      PROVE  WorkersDriven'
    BY <1>0, <1>c DEF WorkersDriven, WorkerAlive, OthersStay
<1>1. ASSUME NEW d \in Drivers, Open(d) PROVE WorkersDriven'
    BY <1>b, <1>1 DEF Open, MayStart
<1>2. ASSUME NEW d \in Drivers, Resume(d) PROVE WorkersDriven'
    BY <1>b, <1>2 DEF Resume, MayStart
<1>3. ASSUME NEW d \in Drivers, Interrupt(d) PROVE WorkersDriven'
    BY <1>0, <1>3 DEF Interrupt, CountTypeOK, WorkersDriven
<1>4. ASSUME NEW d \in Drivers, Opened(d) PROVE WorkersDriven'
    BY <1>b, <1>4 DEF Opened, countVars
<1>5. ASSUME NEW d \in Drivers, PrepareFiles(d) PROVE WorkersDriven'
    BY <1>0, <1>5, DriverToPoint DEF PrepareFiles, countVars, WorkersDriven, WorkerAlive
<1>6. ASSUME NEW d \in Drivers, Finalize(d) PROVE WorkersDriven'
    BY <1>0, <1>6, DriverToPoint DEF Finalize, AllHandled, countVars, WorkersDriven, WorkerAlive
<1>7. ASSUME NEW d \in Drivers, Closed(d) PROVE WorkersDriven'
    BY <1>b, <1>7 DEF Closed, countVars
<1>8. ASSUME NEW d \in Drivers, NEW t \in Tasks, Submit(d, t) PROVE WorkersDriven'
    BY <1>c, <1>8, WorkerToPoint DEF Submit, countVars
<1>9. ASSUME NEW d \in Drivers, NEW t \in Tasks, MarkRunning(d, t) PROVE WorkersDriven'
    BY <1>c, <1>9, MarkRunningPoint DEF WorkerAlive, countVars
<1>10. ASSUME NEW d \in Drivers, NEW t \in Tasks, Marked(d, t) PROVE WorkersDriven'
    BY <1>c, <1>10, WorkerToPoint DEF Marked, WorkerAlive, countVars
<1>11. ASSUME NEW d \in Drivers, NEW t \in Tasks, DrawConfig(d, t) PROVE WorkersDriven'
    BY <1>c, <1>11, SetWorkerPoint DEF DrawConfig, WorkerAlive, countVars
<1>12. ASSUME NEW d \in Drivers, NEW t \in Tasks, MakeDir(d, t) PROVE WorkersDriven'
    BY <1>c, <1>12, SetWorkerPoint, WorkerToPoint DEF MakeDir, WorkerAlive, countVars
<1>13. ASSUME NEW d \in Drivers, NEW t \in Tasks, AppendHistory(d, t) PROVE WorkersDriven'
    BY <1>c, <1>13, WorkerToPoint DEF AppendHistory, WorkerAlive, countVars
<1>14. ASSUME NEW d \in Drivers, NEW t \in Tasks, AppendManifest(d, t) PROVE WorkersDriven'
    BY <1>c, <1>14, WorkerToPoint DEF AppendManifest, WorkerAlive, countVars
<1>15. ASSUME NEW d \in Drivers, NEW t \in Tasks, Simulate(d, t) PROVE WorkersDriven'
    BY <1>c, <1>15, SetWorkerPoint DEF Simulate, WorkerAlive, countVars
<1>16. ASSUME NEW d \in Drivers, NEW t \in Tasks, Fail(d, t) PROVE WorkersDriven'
    BY <1>c, <1>16, WorkerToPoint DEF Fail, WorkerAlive, countVars
<1>17. ASSUME NEW d \in Drivers, NEW t \in Tasks, Record(d, t) PROVE WorkersDriven'
    BY <1>c, <1>17, RecordPoint DEF WorkerAlive, countVars
<1>18. ASSUME NEW d \in Drivers, NEW t \in Tasks, RecordedText(d, t) PROVE WorkersDriven'
    BY <1>c, <1>18, SetWorkerPoint DEF RecordedText, WorkerAlive, countVars
<1>19. ASSUME NEW r \in Recipes, ResetManifest(r) PROVE WorkersDriven'
    BY <1>a, <1>19 DEF ResetManifest, procVars, countVars
<1>20. CASE ResetState
    BY <1>a, <1>20 DEF ResetState, procVars, countVars
<1>21. CASE ResetText
    BY <1>a, <1>21 DEF ResetText, procVars, countVars
<1>22. CASE ResetHistory
    BY <1>a, <1>22 DEF ResetHistory, procVars, countVars
<1>23. CASE Crash
    BY <1>23 DEF Crash, WorkersDriven, WorkerAlive, At
<1>24. CASE UNCHANGED vars
    BY <1>a, <1>24 DEF vars, procVars, countVars
<1> QED
    BY <1>1, <1>2, <1>3, <1>4, <1>5, <1>6, <1>7, <1>8, <1>9, <1>10, <1>11,
       <1>12, <1>13, <1>14, <1>15, <1>16, <1>17, <1>18, <1>19, <1>20,
       <1>21, <1>22, <1>23, <1>24
       DEF Next, DriverStep, WorkerStep, ResetStep


\* The worker of t has marked it, or tried to, and not recorded an outcome.
Active(d, t) ==
    worker[d][t].pc \in {"marked", "started", "drawn", "made", "listed",
                         "simulating", "exited"}

\* Without a crash or a signal a running entry has a worker, and an open run
\* a driver that will finalize it.
RunningHasWorker ==
    crashes = 0 /\ interrupts = 0 =>
        \A i \in Ids : tasks[i].status = "running" =>
            /\ i \in Tasks /\ tasks[i].config = NoConfig
            /\ \E d \in Drivers : Active(d, i)
OpenHasDriver ==
    crashes = 0 /\ interrupts = 0 /\ st = "running" =>
        \E d \in Drivers :
            driver[d] \in {"opened", "preparing", "submitting", "finalizing"}

LEMMA RunningHasWorkerStep ==
    TypeOK /\ RunningKeepsOpen /\ RunningHasWorker
        /\ [Next]_vars => RunningHasWorker'
<1> SUFFICES ASSUME TypeOK, RunningKeepsOpen, RunningHasWorker, [Next]_vars PROVE RunningHasWorker'
    OBVIOUS
<1>0. RunningHasWorker /\ RunningKeepsOpen /\ ProcTypeOK /\ CountTypeOK
    BY DEF TypeOK
<1>a. ASSUME UNCHANGED <<tasks, worker, crashes, interrupts>> PROVE RunningHasWorker'
    BY <1>0, <1>a DEF RunningHasWorker, Active
<1>c. ASSUME NEW d \in Drivers, NEW t \in Tasks, OthersStay(d, t),
             Active(d, t) => Active(d, t)',
             UNCHANGED <<tasks, crashes, interrupts>>
      PROVE  RunningHasWorker'
    <2> SUFFICES ASSUME crashes = 0, interrupts = 0, NEW i \in Ids, tasks[i].status = "running"
                 PROVE  i \in Tasks /\ tasks[i].config = NoConfig /\ \E e \in Drivers : Active(e, i)'
        BY <1>c DEF RunningHasWorker
    <2>1. i \in Tasks /\ tasks[i].config = NoConfig
        BY <1>0 DEF RunningHasWorker
    <2>2. PICK e \in Drivers : Active(e, i)
        BY <1>0 DEF RunningHasWorker
    <2>3. Active(e, i)'
        BY <1>c, <2>1, <2>2 DEF OthersStay, Active
    <2> QED
        BY <2>1, <2>3
<1>1. ASSUME NEW d \in Drivers, Open(d) PROVE RunningHasWorker'
    BY <1>1 DEF Open, Save, NoEntry, RunningHasWorker
<1>2. ASSUME NEW d \in Drivers, Resume(d) PROVE RunningHasWorker'
    <2> SUFFICES ASSUME crashes = 0, interrupts = 0, NEW k \in Ids, tasks'[k].status = "running"
                 PROVE  k \in Tasks /\ tasks'[k].config = NoConfig /\ \E e \in Drivers : Active(e, k)
        BY <1>2, ResumePoint DEF RunningHasWorker, Active
    <2>1. PICK i \in Present : Canonical(i) = k /\ tasks'[k] = tasks[i]
        BY <1>2, ResumePoint DEF NoEntry
    <2>2. i \in Ids /\ tasks[i].status = "running" /\ tasks[i].config = NoConfig
        BY <1>0, <2>1 DEF RunningHasWorker, Present
    <2>3. i = k
        BY <2>1, <2>2 DEF Canonical
    <2> QED
        BY <1>0, <2>1, <2>2, <2>3 DEF RunningHasWorker
<1>3. ASSUME NEW d \in Drivers, Interrupt(d) PROVE RunningHasWorker'
    BY <1>0, <1>3 DEF Interrupt, CountTypeOK, RunningHasWorker
<1>4. ASSUME NEW d \in Drivers, Opened(d) PROVE RunningHasWorker'
    BY <1>a, <1>4 DEF Opened, WriteText, countVars
<1>5. ASSUME NEW d \in Drivers, PrepareFiles(d) PROVE RunningHasWorker'
    BY <1>a, <1>5 DEF PrepareFiles, statusVars, procVars, countVars
<1>6. ASSUME NEW d \in Drivers, Finalize(d) PROVE RunningHasWorker'
    BY <1>a, <1>6 DEF Finalize, Save, countVars
<1>7. ASSUME NEW d \in Drivers, Closed(d) PROVE RunningHasWorker'
    BY <1>a, <1>7 DEF Closed, WriteText, countVars
<1>8. ASSUME NEW d \in Drivers, NEW t \in Tasks, Submit(d, t) PROVE RunningHasWorker'
    BY <1>c, <1>8, WorkerToPoint DEF Submit, Active, statusVars, countVars
<1>9. ASSUME NEW d \in Drivers, NEW t \in Tasks, MarkRunning(d, t) PROVE RunningHasWorker'
    <2>1. CASE Accepts
        <3> SUFFICES ASSUME crashes = 0, interrupts = 0, NEW i \in Ids, tasks'[i].status = "running"
                     PROVE  i \in Tasks /\ tasks'[i].config = NoConfig /\ \E e \in Drivers : Active(e, i)'
            BY <1>9, MarkRunningPoint DEF RunningHasWorker, countVars
        <3>1. CASE i = t
            BY <1>9, <2>1, <3>1, MarkRunningPoint DEF Updates, Active
        <3>2. CASE i # t
            <4>1. tasks[i].status = "running" /\ tasks[i] = tasks'[i]
                BY <1>9, <2>1, <3>2, MarkRunningPoint DEF Updates
            <4>2. i \in Tasks /\ tasks[i].config = NoConfig
                BY <1>0, <4>1 DEF RunningHasWorker
            <4>3. PICK e \in Drivers : Active(e, i)
                BY <1>0, <4>1 DEF RunningHasWorker
            <4>4. Active(e, i)'
                BY <1>9, <3>2, <4>2, <4>3, MarkRunningPoint DEF OthersStay, Active
            <4> QED
                BY <4>1, <4>2, <4>4
        <3> QED
            BY <3>1, <3>2
    <2>2. CASE ~Accepts
        BY <1>c, <1>9, <2>2, MarkRunningPoint DEF Updates, Active, statusVars, countVars
    <2> QED
        BY <2>1, <2>2
<1>10. ASSUME NEW d \in Drivers, NEW t \in Tasks, Marked(d, t) PROVE RunningHasWorker'
    BY <1>c, <1>10, WorkerToPoint DEF Marked, Active, WriteText, countVars
<1>11. ASSUME NEW d \in Drivers, NEW t \in Tasks, DrawConfig(d, t) PROVE RunningHasWorker'
    BY <1>c, <1>11, DrawConfigPoint DEF Active, statusVars, countVars
<1>12. ASSUME NEW d \in Drivers, NEW t \in Tasks, MakeDir(d, t) PROVE RunningHasWorker'
    BY <1>c, <1>12, SetWorkerPoint, WorkerToPoint DEF MakeDir, Active, At, statusVars, countVars
<1>13. ASSUME NEW d \in Drivers, NEW t \in Tasks, AppendHistory(d, t) PROVE RunningHasWorker'
    BY <1>c, <1>13, WorkerToPoint DEF AppendHistory, Active, statusVars, countVars
<1>14. ASSUME NEW d \in Drivers, NEW t \in Tasks, AppendManifest(d, t) PROVE RunningHasWorker'
    BY <1>c, <1>14, WorkerToPoint DEF AppendManifest, Active, statusVars, countVars
<1>15. ASSUME NEW d \in Drivers, NEW t \in Tasks, Simulate(d, t) PROVE RunningHasWorker'
    BY <1>c, <1>15, SimulatePoint DEF Active, statusVars, countVars
<1>16. ASSUME NEW d \in Drivers, NEW t \in Tasks, Fail(d, t) PROVE RunningHasWorker'
    BY <1>c, <1>16, WorkerToPoint DEF Fail, Active, statusVars, countVars
<1>17. ASSUME NEW d \in Drivers, NEW t \in Tasks, Record(d, t) PROVE RunningHasWorker'
    <2>1. CASE Accepts
        <3> SUFFICES ASSUME crashes = 0, interrupts = 0, NEW i \in Ids, tasks'[i].status = "running"
                     PROVE  i \in Tasks /\ tasks'[i].config = NoConfig /\ \E e \in Drivers : Active(e, i)'
            BY <1>17, RecordPoint DEF RunningHasWorker, countVars
        <3>1. CASE i = t
            BY <1>17, <2>1, <3>1, RecordPoint, RecordedPoint DEF Updates
        <3>2. CASE i # t
            <4>1. tasks[i].status = "running" /\ tasks[i] = tasks'[i]
                BY <1>17, <2>1, <3>2, RecordPoint DEF Updates
            <4>2. i \in Tasks /\ tasks[i].config = NoConfig
                BY <1>0, <4>1 DEF RunningHasWorker
            <4>3. PICK e \in Drivers : Active(e, i)
                BY <1>0, <4>1 DEF RunningHasWorker
            <4>4. Active(e, i)'
                BY <1>17, <3>2, <4>2, <4>3, RecordPoint DEF OthersStay, Active
            <4> QED
                BY <4>1, <4>2, <4>4
        <3> QED
            BY <3>1, <3>2
    <2>2. CASE ~Accepts
        <3>1. \A i \in Ids : tasks[i].status # "running"
            BY <1>0, <2>2 DEF Accepts, RunningKeepsOpen
        <3>2. tasks' = tasks
            BY <1>17, <2>2, RecordPoint DEF Updates, statusVars
        <3> QED
            BY <3>1, <3>2 DEF RunningHasWorker
    <2> QED
        BY <2>1, <2>2
<1>18. ASSUME NEW d \in Drivers, NEW t \in Tasks, RecordedText(d, t) PROVE RunningHasWorker'
    BY <1>c, <1>18, SetWorkerPoint DEF RecordedText, Active, At, WriteText, countVars
<1>19. ASSUME NEW r \in Recipes, ResetManifest(r) PROVE RunningHasWorker'
    BY <1>a, <1>19 DEF ResetManifest, statusVars, procVars, countVars
<1>20. CASE ResetState
    <2>1. \A i \in Ids : tasks'[i] = NoEntry \/ tasks'[i] = tasks[i]
        BY <1>20 DEF ResetState
    <2> QED
        BY <1>0, <1>20, <2>1 DEF ResetState, NoEntry, countVars, RunningHasWorker, Active
<1>21. CASE ResetText
    BY <1>a, <1>21 DEF ResetText, statusVars, procVars, countVars
<1>22. CASE ResetHistory
    BY <1>a, <1>22 DEF ResetHistory, statusVars, procVars, countVars
<1>23. CASE Crash
    BY <1>0, <1>23 DEF Crash, CountTypeOK, RunningHasWorker
<1>24. CASE UNCHANGED vars
    BY <1>a, <1>24 DEF vars, statusVars, procVars, countVars
<1> QED
    BY <1>1, <1>2, <1>3, <1>4, <1>5, <1>6, <1>7, <1>8, <1>9, <1>10, <1>11,
       <1>12, <1>13, <1>14, <1>15, <1>16, <1>17, <1>18, <1>19, <1>20,
       <1>21, <1>22, <1>23, <1>24
       DEF Next, DriverStep, WorkerStep, ResetStep

LEMMA OpenHasDriverStep ==
    TypeOK /\ WorkersDriven /\ RunningHasWorker /\ OpenHasDriver
        /\ [Next]_vars => OpenHasDriver'
<1> SUFFICES ASSUME TypeOK, WorkersDriven, RunningHasWorker, OpenHasDriver, [Next]_vars
      PROVE  OpenHasDriver'
    OBVIOUS
<1>0. /\ OpenHasDriver /\ WorkersDriven /\ RunningHasWorker
      /\ ProcTypeOK /\ CountTypeOK
    BY DEF TypeOK
<1>a. ASSUME UNCHANGED <<st, driver, crashes, interrupts>> PROVE OpenHasDriver'
    BY <1>0, <1>a DEF OpenHasDriver
<1>b. ASSUME NEW d \in Drivers, DriverTo(d, "opened") \/ DriverTo(d, "preparing")
               \/ DriverTo(d, "submitting") \/ DriverTo(d, "finalizing")
      PROVE  OpenHasDriver'
    BY <1>b, DriverToPoint DEF OpenHasDriver
<1>1. ASSUME NEW d \in Drivers, Open(d) PROVE OpenHasDriver'
    BY <1>b, <1>1 DEF Open
<1>2. ASSUME NEW d \in Drivers, Resume(d) PROVE OpenHasDriver'
    BY <1>b, <1>2 DEF Resume
<1>3. ASSUME NEW d \in Drivers, Interrupt(d) PROVE OpenHasDriver'
    BY <1>b, <1>3 DEF Interrupt
<1>4. ASSUME NEW d \in Drivers, Opened(d) PROVE OpenHasDriver'
    BY <1>b, <1>4 DEF Opened
<1>5. ASSUME NEW d \in Drivers, PrepareFiles(d) PROVE OpenHasDriver'
    BY <1>b, <1>5 DEF PrepareFiles
<1>6. ASSUME NEW d \in Drivers, Finalize(d) PROVE OpenHasDriver'
    <2> SUFFICES ASSUME crashes = 0, interrupts = 0, Outcome = "running"
                 PROVE  \E e \in Drivers : driver'[e] \in {"opened", "preparing", "submitting", "finalizing"}
        BY <1>6 DEF Finalize, Save, countVars, OpenHasDriver
    <2>1. PICK i \in Ids : tasks[i].status = "running"
        BY DEF Outcome, With, Succeeded
    <2>2. PICK e \in Drivers : i \in Tasks /\ Active(e, i)
        BY <1>0, <2>1 DEF RunningHasWorker
    <2>3. driver[e] = "submitting" /\ worker[e][i].pc \notin {"skipped", "ended"}
        BY <1>0, <2>2 DEF WorkersDriven, WorkerAlive, Active
    <2>4. e # d
        BY <1>6, <2>2, <2>3 DEF Finalize, AllHandled
    <2> QED
        BY <1>6, <2>3, <2>4, DriverToPoint DEF Finalize
<1>7. ASSUME NEW d \in Drivers, Closed(d) PROVE OpenHasDriver'
    BY <1>0, <1>7, DriverToPoint DEF Closed, WriteText, countVars, OpenHasDriver
<1>8. ASSUME NEW d \in Drivers, NEW t \in Tasks, Submit(d, t) PROVE OpenHasDriver'
    BY <1>a, <1>8 DEF Submit, statusVars, procVars, countVars
<1>9. ASSUME NEW d \in Drivers, NEW t \in Tasks, MarkRunning(d, t) PROVE OpenHasDriver'
    BY <1>a, <1>9, MarkRunningPoint DEF Updates, statusVars, countVars
<1>10. ASSUME NEW d \in Drivers, NEW t \in Tasks, Marked(d, t) PROVE OpenHasDriver'
    BY <1>a, <1>10 DEF Marked, WriteText, countVars
<1>11. ASSUME NEW d \in Drivers, NEW t \in Tasks, DrawConfig(d, t) PROVE OpenHasDriver'
    BY <1>a, <1>11 DEF DrawConfig, statusVars, procVars, countVars
<1>12. ASSUME NEW d \in Drivers, NEW t \in Tasks, MakeDir(d, t) PROVE OpenHasDriver'
    BY <1>a, <1>12 DEF MakeDir, statusVars, procVars, countVars
<1>13. ASSUME NEW d \in Drivers, NEW t \in Tasks, AppendHistory(d, t) PROVE OpenHasDriver'
    BY <1>a, <1>13 DEF AppendHistory, statusVars, procVars, countVars
<1>14. ASSUME NEW d \in Drivers, NEW t \in Tasks, AppendManifest(d, t) PROVE OpenHasDriver'
    BY <1>a, <1>14 DEF AppendManifest, statusVars, procVars, countVars
<1>15. ASSUME NEW d \in Drivers, NEW t \in Tasks, Simulate(d, t) PROVE OpenHasDriver'
    BY <1>a, <1>15 DEF Simulate, statusVars, procVars, countVars
<1>16. ASSUME NEW d \in Drivers, NEW t \in Tasks, Fail(d, t) PROVE OpenHasDriver'
    BY <1>a, <1>16 DEF Fail, statusVars, procVars, countVars
<1>17. ASSUME NEW d \in Drivers, NEW t \in Tasks, Record(d, t) PROVE OpenHasDriver'
    BY <1>a, <1>17, RecordPoint DEF Updates, statusVars, countVars
<1>18. ASSUME NEW d \in Drivers, NEW t \in Tasks, RecordedText(d, t) PROVE OpenHasDriver'
    BY <1>a, <1>18 DEF RecordedText, WriteText, countVars
<1>19. ASSUME NEW r \in Recipes, ResetManifest(r) PROVE OpenHasDriver'
    BY <1>a, <1>19 DEF ResetManifest, statusVars, procVars, countVars
<1>20. CASE ResetState
    <2> SUFFICES ASSUME crashes = 0, interrupts = 0, st' = "running"
                 PROVE  \E e \in Drivers : driver[e] \in {"opened", "preparing", "submitting", "finalizing"}
        BY <1>20 DEF ResetState, countVars, OpenHasDriver
    <2>1. PICK i \in Ids : tasks[i].status = "running"
        BY <1>20 DEF ResetState, With
    <2>2. PICK e \in Drivers : i \in Tasks /\ Active(e, i)
        BY <1>0, <2>1 DEF RunningHasWorker
    <2> QED
        BY <1>0, <2>2 DEF WorkersDriven, WorkerAlive, Active
<1>21. CASE ResetText
    BY <1>a, <1>21 DEF ResetText, statusVars, procVars, countVars
<1>22. CASE ResetHistory
    BY <1>a, <1>22 DEF ResetHistory, statusVars, procVars, countVars
<1>23. CASE Crash
    BY <1>0, <1>23 DEF Crash, CountTypeOK, OpenHasDriver
<1>24. CASE UNCHANGED vars
    BY <1>a, <1>24 DEF vars, statusVars, procVars, countVars
<1> QED
    BY <1>1, <1>2, <1>3, <1>4, <1>5, <1>6, <1>7, <1>8, <1>9, <1>10, <1>11,
       <1>12, <1>13, <1>14, <1>15, <1>16, <1>17, <1>18, <1>19, <1>20,
       <1>21, <1>22, <1>23, <1>24
       DEF Next, DriverStep, WorkerStep, ResetStep

LEMMA QuietClosed == OpenHasDriver => QuietIsClosed
BY DEF OpenHasDriver, QuietIsClosed, Quiet, DriverAlive
-------------------------------------------------------------------------------
(* Config ids.                                                             *)

\* What workers hold at each place, and that none is started before its
\* driver submits.
BlankWorkers ==
    \A d \in Drivers, t \in Tasks :
        /\ worker[d][t].pc \in {"idle", "skipped", "begun", "marked", "started", "ended"}
             => worker[d][t].config = NoConfig
        /\ worker[d][t].pc \notin {"exited", "recorded"} => ~worker[d][t].ok
        /\ worker[d][t].pc = "exited" /\ worker[d][t].ok => worker[d][t].config # NoConfig
        /\ driver[d] \in {"off", "opened", "preparing"} => worker[d][t].pc = "idle"

LEMMA BlankWorkersStep ==
    TypeOK /\ WorkersHaveConfig /\ BlankWorkers
        /\ [Next]_vars => BlankWorkers'
<1> SUFFICES ASSUME TypeOK, WorkersHaveConfig, BlankWorkers, [Next]_vars PROVE BlankWorkers'
    OBVIOUS
<1>0. BlankWorkers /\ WorkersHaveConfig /\ RunAssumption
    BY RunAssumption
<1>a. ASSUME UNCHANGED <<driver, worker>> PROVE BlankWorkers'
    BY <1>0, <1>a DEF BlankWorkers
<1>b. ASSUME NEW d \in Drivers, NEW to \in DriverStates, DriverTo(d, to), UNCHANGED worker,
             to \in {"opened", "preparing"} => driver[d] \in {"off", "opened", "preparing"},
             to # "off"
      PROVE  BlankWorkers'
    BY <1>0, <1>b, DriverToPoint DEF BlankWorkers
<1>c. ASSUME NEW d \in Drivers, NEW t \in Tasks, OthersStay(d, t), UNCHANGED driver,
             worker[d][t].pc # "idle" \/ driver[d] = "submitting",
             /\ worker'[d][t].pc \in {"idle", "skipped", "begun", "marked", "started", "ended"}
                  => worker'[d][t].config = NoConfig
             /\ worker'[d][t].pc \notin {"exited", "recorded"} => ~worker'[d][t].ok
             /\ worker'[d][t].pc = "exited" /\ worker'[d][t].ok => worker'[d][t].config # NoConfig
      PROVE  BlankWorkers'
    BY <1>0, <1>c DEF BlankWorkers, OthersStay
<1>1. ASSUME NEW d \in Drivers, Open(d) PROVE BlankWorkers'
    BY <1>b, <1>1 DEF Open, MayStart, DriverStates
<1>2. ASSUME NEW d \in Drivers, Resume(d) PROVE BlankWorkers'
    BY <1>b, <1>2 DEF Resume, MayStart, DriverStates
<1>3. ASSUME NEW d \in Drivers, Interrupt(d) PROVE BlankWorkers'
    BY <1>b, <1>3 DEF Interrupt, MayStart, DriverStates
<1>4. ASSUME NEW d \in Drivers, Opened(d) PROVE BlankWorkers'
    BY <1>b, <1>4 DEF Opened, MayStart, DriverStates
<1>5. ASSUME NEW d \in Drivers, PrepareFiles(d) PROVE BlankWorkers'
    BY <1>b, <1>5 DEF PrepareFiles, MayStart, DriverStates
<1>6. ASSUME NEW d \in Drivers, Finalize(d) PROVE BlankWorkers'
    BY <1>b, <1>6 DEF Finalize, MayStart, DriverStates
<1>7. ASSUME NEW d \in Drivers, Closed(d) PROVE BlankWorkers'
    BY <1>b, <1>7 DEF Closed, MayStart, DriverStates
<1>8. ASSUME NEW d \in Drivers, NEW t \in Tasks, Submit(d, t) PROVE BlankWorkers'
    BY <1>0, <1>c, <1>8, WorkerToPoint DEF Submit, BlankWorkers
<1>9. ASSUME NEW d \in Drivers, NEW t \in Tasks, MarkRunning(d, t) PROVE BlankWorkers'
    BY <1>0, <1>c, <1>9, MarkRunningPoint DEF BlankWorkers, At
<1>10. ASSUME NEW d \in Drivers, NEW t \in Tasks, Marked(d, t) PROVE BlankWorkers'
    BY <1>0, <1>c, <1>10, WorkerToPoint DEF Marked, BlankWorkers
<1>11. ASSUME NEW d \in Drivers, NEW t \in Tasks, DrawConfig(d, t) PROVE BlankWorkers'
    BY <1>0, <1>c, <1>11, DrawConfigPoint DEF BlankWorkers, At
<1>12. ASSUME NEW d \in Drivers, NEW t \in Tasks, MakeDir(d, t) PROVE BlankWorkers'
    BY <1>0, <1>c, <1>12, MakeDirPoint DEF BlankWorkers, At
<1>13. ASSUME NEW d \in Drivers, NEW t \in Tasks, AppendHistory(d, t) PROVE BlankWorkers'
    BY <1>0, <1>c, <1>13, WorkerToPoint DEF AppendHistory, BlankWorkers
<1>14. ASSUME NEW d \in Drivers, NEW t \in Tasks, AppendManifest(d, t) PROVE BlankWorkers'
    BY <1>0, <1>c, <1>14, WorkerToPoint DEF AppendManifest, BlankWorkers
<1>15. ASSUME NEW d \in Drivers, NEW t \in Tasks, Simulate(d, t) PROVE BlankWorkers'
    BY <1>0, <1>c, <1>15, SimulatePoint DEF BlankWorkers, WorkersHaveConfig
<1>16. ASSUME NEW d \in Drivers, NEW t \in Tasks, Fail(d, t) PROVE BlankWorkers'
    BY <1>0, <1>c, <1>16, WorkerToPoint DEF Fail, BlankWorkers
<1>17. ASSUME NEW d \in Drivers, NEW t \in Tasks, Record(d, t) PROVE BlankWorkers'
    BY <1>0, <1>c, <1>17, RecordPoint DEF BlankWorkers, At
<1>18. ASSUME NEW d \in Drivers, NEW t \in Tasks, RecordedText(d, t) PROVE BlankWorkers'
    BY <1>0, <1>c, <1>18, SetWorkerPoint DEF RecordedText, BlankWorkers, At
<1>19. ASSUME NEW r \in Recipes, ResetManifest(r) PROVE BlankWorkers'
    BY <1>a, <1>19 DEF ResetManifest, procVars
<1>20. CASE ResetState
    BY <1>a, <1>20 DEF ResetState, procVars
<1>21. CASE ResetText
    BY <1>a, <1>21 DEF ResetText, procVars
<1>22. CASE ResetHistory
    BY <1>a, <1>22 DEF ResetHistory, procVars
<1>23. CASE Crash
    BY <1>0, <1>23 DEF Crash, BlankWorkers, At, DriverAlive, WorkerAlive
<1>24. CASE UNCHANGED vars
    BY <1>a, <1>24 DEF vars, procVars
<1> QED
    BY <1>1, <1>2, <1>3, <1>4, <1>5, <1>6, <1>7, <1>8, <1>9, <1>10, <1>11,
       <1>12, <1>13, <1>14, <1>15, <1>16, <1>17, <1>18, <1>19, <1>20,
       <1>21, <1>22, <1>23, <1>24
       DEF Next, DriverStep, WorkerStep, ResetStep


\* An id without a state has no config id.
AbsentBlank == \A i \in Ids : tasks[i].status = "none" => tasks[i] = NoEntry

LEMMA AbsentBlankStep == TypeOK /\ AbsentBlank /\ [Next]_vars => AbsentBlank'
<1> SUFFICES ASSUME TypeOK, AbsentBlank, [Next]_vars PROVE AbsentBlank'
    OBVIOUS
<1>0. AbsentBlank
    OBVIOUS
<1>a. ASSUME UNCHANGED tasks PROVE AbsentBlank'
    BY <1>0, <1>a DEF AbsentBlank
<1>1. ASSUME NEW d \in Drivers, Open(d) PROVE AbsentBlank'
    BY <1>1 DEF Open, Save, AbsentBlank
<1>2. ASSUME NEW d \in Drivers, Resume(d) PROVE AbsentBlank'
    BY <1>0, <1>2, ResumePoint DEF AbsentBlank, Present
<1>3. ASSUME NEW d \in Drivers, Interrupt(d) PROVE AbsentBlank'
    BY <1>a, <1>3 DEF Interrupt, statusVars
<1>4. ASSUME NEW d \in Drivers, Opened(d) PROVE AbsentBlank'
    BY <1>a, <1>4 DEF Opened, WriteText
<1>5. ASSUME NEW d \in Drivers, PrepareFiles(d) PROVE AbsentBlank'
    BY <1>a, <1>5 DEF PrepareFiles, statusVars
<1>6. ASSUME NEW d \in Drivers, Finalize(d) PROVE AbsentBlank'
    BY <1>a, <1>6 DEF Finalize, Save
<1>7. ASSUME NEW d \in Drivers, Closed(d) PROVE AbsentBlank'
    BY <1>a, <1>7 DEF Closed, WriteText
<1>8. ASSUME NEW d \in Drivers, NEW t \in Tasks, Submit(d, t) PROVE AbsentBlank'
    BY <1>a, <1>8 DEF Submit, statusVars
<1>9. ASSUME NEW d \in Drivers, NEW t \in Tasks, MarkRunning(d, t) PROVE AbsentBlank'
    BY <1>0, <1>9, MarkRunningPoint DEF Updates, statusVars, AbsentBlank
<1>10. ASSUME NEW d \in Drivers, NEW t \in Tasks, Marked(d, t) PROVE AbsentBlank'
    BY <1>a, <1>10 DEF Marked, WriteText
<1>11. ASSUME NEW d \in Drivers, NEW t \in Tasks, DrawConfig(d, t) PROVE AbsentBlank'
    BY <1>a, <1>11 DEF DrawConfig, statusVars
<1>12. ASSUME NEW d \in Drivers, NEW t \in Tasks, MakeDir(d, t) PROVE AbsentBlank'
    BY <1>a, <1>12 DEF MakeDir, statusVars
<1>13. ASSUME NEW d \in Drivers, NEW t \in Tasks, AppendHistory(d, t) PROVE AbsentBlank'
    BY <1>a, <1>13 DEF AppendHistory, statusVars
<1>14. ASSUME NEW d \in Drivers, NEW t \in Tasks, AppendManifest(d, t) PROVE AbsentBlank'
    BY <1>a, <1>14 DEF AppendManifest, statusVars
<1>15. ASSUME NEW d \in Drivers, NEW t \in Tasks, Simulate(d, t) PROVE AbsentBlank'
    BY <1>a, <1>15 DEF Simulate, statusVars
<1>16. ASSUME NEW d \in Drivers, NEW t \in Tasks, Fail(d, t) PROVE AbsentBlank'
    BY <1>a, <1>16 DEF Fail, statusVars
<1>17. ASSUME NEW d \in Drivers, NEW t \in Tasks, Record(d, t) PROVE AbsentBlank'
    BY <1>0, <1>17, RecordPoint, RecordedPoint DEF Updates, statusVars, AbsentBlank
<1>18. ASSUME NEW d \in Drivers, NEW t \in Tasks, RecordedText(d, t) PROVE AbsentBlank'
    BY <1>a, <1>18 DEF RecordedText, WriteText
<1>19. ASSUME NEW r \in Recipes, ResetManifest(r) PROVE AbsentBlank'
    BY <1>a, <1>19 DEF ResetManifest, statusVars
<1>20. CASE ResetState
    BY <1>0, <1>20 DEF ResetState, AbsentBlank
<1>21. CASE ResetText
    BY <1>a, <1>21 DEF ResetText, statusVars
<1>22. CASE ResetHistory
    BY <1>a, <1>22 DEF ResetHistory, statusVars
<1>23. CASE Crash
    BY <1>a, <1>23 DEF Crash, statusVars
<1>24. CASE UNCHANGED vars
    BY <1>a, <1>24 DEF vars, statusVars
<1> QED
    BY <1>1, <1>2, <1>3, <1>4, <1>5, <1>6, <1>7, <1>8, <1>9, <1>10, <1>11,
       <1>12, <1>13, <1>14, <1>15, <1>16, <1>17, <1>18, <1>19, <1>20,
       <1>21, <1>22, <1>23, <1>24
       DEF Next, DriverStep, WorkerStep, ResetStep


\* As long as reset-tasks ran only while the run was quiet: an entry's config
\* id has a directory and is no other entry's.
Owns(d, t) ==
    /\ worker[d][t].pc \in {"made", "listed", "simulating", "exited"}
    /\ worker[d][t].config # NoConfig
EntriesOwn ==
    \A i \in Ids : tasks[i].config # NoConfig =>
        /\ tasks[i].config \in dirs
        /\ \A j \in Ids : tasks[j].config = tasks[i].config => i = j

\* So is that of a simulation, which no entry has yet.
WorkersOwn ==
    \A d \in Drivers, t \in Tasks : Owns(d, t) =>
        /\ worker[d][t].config \in dirs
        /\ \A i \in Ids : tasks[i].config # worker[d][t].config
        /\ \A e \in Drivers, u \in Tasks :
             Owns(e, u) /\ worker[e][u].config = worker[d][t].config => e = d /\ u = t

\* reset-tasks works undisturbed, and rid the entries of what it will delete.
ResetQuiet ==
    /\ reset.pc # "idle" => Quiet
    /\ reset.pc \in {"saved", "history"} =>
         \A i \in Ids : tasks[i].config \notin reset.gone

ConfigsOwned == strays = 0 => ResetQuiet /\ EntriesOwn /\ WorkersOwn


\* The counts of trouble only grow.
Grows(n, m) == m = n \/ m = n + 1
CountsGrow ==
    /\ Grows(strays, strays') /\ Grows(interrupts, interrupts')
    /\ Grows(overlaps, overlaps') /\ Grows(crashes, crashes')

LEMMA CountsGrowStep == TypeOK /\ [Next]_vars => CountsGrow
<1> SUFFICES ASSUME TypeOK, [Next]_vars PROVE CountsGrow
    OBVIOUS
<1>1. ASSUME NEW d \in Drivers, Open(d) PROVE CountsGrow
    BY <1>1 DEF Open, MayStart, CountsGrow, Grows
<1>2. ASSUME NEW d \in Drivers, Resume(d) PROVE CountsGrow
    BY <1>2 DEF Resume, MayStart, CountsGrow, Grows
<1>3. ASSUME NEW d \in Drivers, Interrupt(d) PROVE CountsGrow
    BY <1>3 DEF Interrupt, countVars, CountsGrow, Grows
<1>4. ASSUME NEW d \in Drivers, Opened(d) PROVE CountsGrow
    BY <1>4 DEF Opened, countVars, CountsGrow, Grows
<1>5. ASSUME NEW d \in Drivers, PrepareFiles(d) PROVE CountsGrow
    BY <1>5 DEF PrepareFiles, countVars, CountsGrow, Grows
<1>6. ASSUME NEW d \in Drivers, Finalize(d) PROVE CountsGrow
    BY <1>6 DEF Finalize, countVars, CountsGrow, Grows
<1>7. ASSUME NEW d \in Drivers, Closed(d) PROVE CountsGrow
    BY <1>7 DEF Closed, countVars, CountsGrow, Grows
<1>8. ASSUME NEW d \in Drivers, NEW t \in Tasks, Submit(d, t) PROVE CountsGrow
    BY <1>8 DEF Submit, countVars, CountsGrow, Grows
<1>9. ASSUME NEW d \in Drivers, NEW t \in Tasks, MarkRunning(d, t) PROVE CountsGrow
    BY <1>9 DEF MarkRunning, countVars, CountsGrow, Grows
<1>10. ASSUME NEW d \in Drivers, NEW t \in Tasks, Marked(d, t) PROVE CountsGrow
    BY <1>10 DEF Marked, countVars, CountsGrow, Grows
<1>11. ASSUME NEW d \in Drivers, NEW t \in Tasks, DrawConfig(d, t) PROVE CountsGrow
    BY <1>11 DEF DrawConfig, countVars, CountsGrow, Grows
<1>12. ASSUME NEW d \in Drivers, NEW t \in Tasks, MakeDir(d, t) PROVE CountsGrow
    BY <1>12 DEF MakeDir, countVars, CountsGrow, Grows
<1>13. ASSUME NEW d \in Drivers, NEW t \in Tasks, AppendHistory(d, t) PROVE CountsGrow
    BY <1>13 DEF AppendHistory, countVars, CountsGrow, Grows
<1>14. ASSUME NEW d \in Drivers, NEW t \in Tasks, AppendManifest(d, t) PROVE CountsGrow
    BY <1>14 DEF AppendManifest, countVars, CountsGrow, Grows
<1>15. ASSUME NEW d \in Drivers, NEW t \in Tasks, Simulate(d, t) PROVE CountsGrow
    BY <1>15 DEF Simulate, countVars, CountsGrow, Grows
<1>16. ASSUME NEW d \in Drivers, NEW t \in Tasks, Fail(d, t) PROVE CountsGrow
    BY <1>16 DEF Fail, countVars, CountsGrow, Grows
<1>17. ASSUME NEW d \in Drivers, NEW t \in Tasks, Record(d, t) PROVE CountsGrow
    BY <1>17 DEF Record, countVars, CountsGrow, Grows
<1>18. ASSUME NEW d \in Drivers, NEW t \in Tasks, RecordedText(d, t) PROVE CountsGrow
    BY <1>18 DEF RecordedText, countVars, CountsGrow, Grows
<1>19. ASSUME NEW r \in Recipes, ResetManifest(r) PROVE CountsGrow
    BY <1>19 DEF ResetManifest, countVars, CountsGrow, Grows
<1>20. CASE ResetState
    BY <1>20 DEF ResetState, countVars, CountsGrow, Grows
<1>21. CASE ResetText
    BY <1>21 DEF ResetText, countVars, CountsGrow, Grows
<1>22. CASE ResetHistory
    BY <1>22 DEF ResetHistory, countVars, CountsGrow, Grows
<1>23. CASE Crash
    BY <1>23 DEF Crash, countVars, CountsGrow, Grows
<1>24. CASE UNCHANGED vars
    BY <1>24 DEF vars, countVars, CountsGrow, Grows
<1> QED
    BY <1>1, <1>2, <1>3, <1>4, <1>5, <1>6, <1>7, <1>8, <1>9, <1>10, <1>11,
       <1>12, <1>13, <1>14, <1>15, <1>16, <1>17, <1>18, <1>19, <1>20,
       <1>21, <1>22, <1>23, <1>24
       DEF Next, DriverStep, WorkerStep, ResetStep

LEMMA ConfigsOwnedStep ==
    TypeOK /\ OneOwner /\ WorkersHaveConfig /\ BlankWorkers /\ AbsentBlank /\ ConfigsOwned
        /\ [Next]_vars => ConfigsOwned'
<1> SUFFICES ASSUME TypeOK, OneOwner, WorkersHaveConfig, BlankWorkers, AbsentBlank, ConfigsOwned, [Next]_vars
      PROVE  ConfigsOwned'
    OBVIOUS
<1> SUFFICES ASSUME strays' = 0 PROVE (ResetQuiet /\ EntriesOwn /\ WorkersOwn)'
    BY DEF ConfigsOwned
<1>s. strays = 0
    BY CountsGrowStep DEF CountsGrow, Grows, TypeOK, CountTypeOK
<1>0. /\ TypeOK /\ ResetQuiet /\ EntriesOwn /\ WorkersOwn
      /\ OneOwner /\ WorkersHaveConfig /\ BlankWorkers /\ AbsentBlank
    BY <1>s DEF ConfigsOwned
<1>f. RunAssumption /\ FileTypeOK /\ StatusTypeOK
    BY RunAssumption DEF TypeOK
<1>r. reset.pc # "idle" => Quiet /\ locked
    BY <1>0 DEF ResetQuiet, OneOwner, ResetHolds
<1>a. ASSUME reset.pc = "idle", UNCHANGED <<tasks, dirs, reset>>,
             \A e \in Drivers, u \in Tasks : Owns(e, u)' =>
                 Owns(e, u) /\ worker'[e][u].config = worker[e][u].config
      PROVE  (ResetQuiet /\ EntriesOwn /\ WorkersOwn)'
    <2>1. ResetQuiet'
        BY <1>a DEF ResetQuiet
    <2>2. EntriesOwn'
        BY <1>0, <1>a DEF EntriesOwn
    <2>3. WorkersOwn'
        BY <1>0, <1>a DEF WorkersOwn
    <2> QED
        BY <2>1, <2>2, <2>3
<1>d. ASSUME NEW d \in Drivers, DriverAlive(d), UNCHANGED <<tasks, dirs, reset, worker>>
      PROVE  (ResetQuiet /\ EntriesOwn /\ WorkersOwn)'
    BY <1>r, <1>a, <1>d DEF Quiet, Owns
<1>w. ASSUME NEW d \in Drivers, NEW t \in Tasks, WorkerAlive(d, t) \/ DriverAlive(d),
             UNCHANGED <<tasks, dirs, reset>>, OthersStay(d, t),
             Owns(d, t)' => Owns(d, t) /\ worker'[d][t].config = worker[d][t].config
      PROVE  (ResetQuiet /\ EntriesOwn /\ WorkersOwn)'
    <2>1. reset.pc = "idle"
        BY <1>r, <1>w DEF Quiet
    <2> QED
        BY <2>1, <1>a, <1>w DEF OthersStay, Owns
<1>1. ASSUME NEW d \in Drivers, Open(d) PROVE (ResetQuiet /\ EntriesOwn /\ WorkersOwn)'
    <2>1. reset.pc = "idle" /\ UNCHANGED <<dirs, reset, worker>> /\ \A i \in Ids : tasks'[i] = NoEntry
        BY <1>r, <1>1 DEF Open, Save, fileVars
    <2>2. ResetQuiet'
        BY <2>1 DEF ResetQuiet
    <2>3. EntriesOwn'
        BY <2>1 DEF EntriesOwn, NoEntry
    <2>4. WorkersOwn'
        BY <1>0, <2>1 DEF WorkersOwn, Owns, NoEntry
    <2> QED
        BY <2>2, <2>3, <2>4
<1>2. ASSUME NEW d \in Drivers, Resume(d) PROVE (ResetQuiet /\ EntriesOwn /\ WorkersOwn)'
    <2>1. /\ reset.pc = "idle" /\ UNCHANGED <<dirs, reset, worker>>
          /\ \A k \in Ids : \/ tasks'[k] = NoEntry
                            \/ \E i \in Ids : Canonical(i) = k /\ tasks'[k] = tasks[i]
        BY <1>r, <1>2, ResumePoint DEF fileVars, Present
    <2>2. ResetQuiet'
        BY <2>1 DEF ResetQuiet
    <2>3. EntriesOwn'
        BY <1>0, <2>1 DEF EntriesOwn, NoEntry
    <2>4. WorkersOwn'
        BY <1>0, <2>1 DEF WorkersOwn, Owns, NoEntry
    <2> QED
        BY <2>2, <2>3, <2>4
<1>3. ASSUME NEW d \in Drivers, Interrupt(d) PROVE (ResetQuiet /\ EntriesOwn /\ WorkersOwn)'
    BY <1>d, <1>3 DEF Interrupt, statusVars, fileVars, DriverAlive
<1>4. ASSUME NEW d \in Drivers, Opened(d) PROVE (ResetQuiet /\ EntriesOwn /\ WorkersOwn)'
    BY <1>d, <1>4 DEF Opened, WriteText, fileVars, DriverAlive
<1>5. ASSUME NEW d \in Drivers, PrepareFiles(d) PROVE (ResetQuiet /\ EntriesOwn /\ WorkersOwn)'
    BY <1>d, <1>5 DEF PrepareFiles, statusVars, fileVars, DriverAlive
<1>6. ASSUME NEW d \in Drivers, Finalize(d) PROVE (ResetQuiet /\ EntriesOwn /\ WorkersOwn)'
    BY <1>d, <1>6 DEF Finalize, Save, fileVars, DriverAlive
<1>7. ASSUME NEW d \in Drivers, Closed(d) PROVE (ResetQuiet /\ EntriesOwn /\ WorkersOwn)'
    BY <1>d, <1>7 DEF Closed, WriteText, fileVars, DriverAlive
<1>8. ASSUME NEW d \in Drivers, NEW t \in Tasks, Submit(d, t)
      PROVE  (ResetQuiet /\ EntriesOwn /\ WorkersOwn)'
    BY <1>w, <1>8, WorkerToPoint DEF Submit, statusVars, fileVars, DriverAlive, Owns
<1>9. ASSUME NEW d \in Drivers, NEW t \in Tasks, MarkRunning(d, t)
      PROVE  (ResetQuiet /\ EntriesOwn /\ WorkersOwn)'
    <2>1. CASE Accepts
        <3>1. /\ OthersStay(d, t) /\ UNCHANGED <<dirs, reset>>
              /\ worker[d][t].pc = "begun" /\ worker'[d][t].pc = "marked"
              /\ tasks'[t].config = NoConfig
              /\ \A i \in Ids : i # t => tasks'[i] = tasks[i]
            BY <1>9, <2>1, MarkRunningPoint DEF Updates, fileVars
        <3>2. reset.pc = "idle"
            BY <1>r, <3>1 DEF Quiet, WorkerAlive
        <3>3. ResetQuiet'
            BY <3>1, <3>2 DEF ResetQuiet
        <3>4. EntriesOwn'
            BY <1>0, <3>1 DEF EntriesOwn
        <3>5. WorkersOwn'
            BY <1>0, <3>1 DEF WorkersOwn, Owns, OthersStay
        <3> QED
            BY <3>3, <3>4, <3>5
    <2>2. CASE ~Accepts
        BY <1>w, <1>9, <2>2, MarkRunningPoint DEF Updates, statusVars, fileVars, WorkerAlive, Owns
    <2> QED
        BY <2>1, <2>2
<1>10. ASSUME NEW d \in Drivers, NEW t \in Tasks, Marked(d, t)
      PROVE  (ResetQuiet /\ EntriesOwn /\ WorkersOwn)'
    BY <1>w, <1>10, WorkerToPoint DEF Marked, WriteText, fileVars, WorkerAlive, Owns
<1>11. ASSUME NEW d \in Drivers, NEW t \in Tasks, DrawConfig(d, t)
      PROVE  (ResetQuiet /\ EntriesOwn /\ WorkersOwn)'
    BY <1>w, <1>11, DrawConfigPoint DEF statusVars, fileVars, WorkerAlive, Owns
<1>12. ASSUME NEW d \in Drivers, NEW t \in Tasks, MakeDir(d, t)
      PROVE  (ResetQuiet /\ EntriesOwn /\ WorkersOwn)'
    <2>1. CASE worker[d][t].config \in dirs
        BY <1>w, <1>12, <2>1, MakeDirPoint DEF statusVars, WorkerAlive, Owns, At
    <2>2. CASE worker[d][t].config \notin dirs
        <3> DEFINE c == worker[d][t].config
        <3>1. /\ dirs' = dirs \cup {c} /\ UNCHANGED <<tasks, reset>>
              /\ worker'[d][t].config = c /\ OthersStay(d, t) /\ worker[d][t].pc = "drawn"
            BY <1>12, <2>2, MakeDirPoint DEF statusVars
        <3>2. reset.pc = "idle" /\ c # NoConfig
            BY <1>0, <1>f, <1>r, <3>1 DEF Quiet, WorkerAlive, WorkersHaveConfig
        <3>3. \A i \in Ids : tasks[i].config # c
            BY <1>0, <2>2, <3>2 DEF EntriesOwn
        <3>4. ResetQuiet'
            BY <3>1, <3>2 DEF ResetQuiet
        <3>5. EntriesOwn'
            BY <1>0, <3>1 DEF EntriesOwn
        <3>6. WorkersOwn'
            BY <1>0, <2>2, <3>1, <3>3 DEF WorkersOwn, Owns, OthersStay
        <3> QED
            BY <3>4, <3>5, <3>6
    <2> QED
        BY <2>1, <2>2
<1>13. ASSUME NEW d \in Drivers, NEW t \in Tasks, AppendHistory(d, t)
      PROVE  (ResetQuiet /\ EntriesOwn /\ WorkersOwn)'
    BY <1>w, <1>13, WorkerToPoint DEF AppendHistory, statusVars, fileVars, WorkerAlive, Owns
<1>14. ASSUME NEW d \in Drivers, NEW t \in Tasks, AppendManifest(d, t)
      PROVE  (ResetQuiet /\ EntriesOwn /\ WorkersOwn)'
    BY <1>w, <1>14, WorkerToPoint DEF AppendManifest, statusVars, fileVars, WorkerAlive, Owns
<1>15. ASSUME NEW d \in Drivers, NEW t \in Tasks, Simulate(d, t)
      PROVE  (ResetQuiet /\ EntriesOwn /\ WorkersOwn)'
    BY <1>w, <1>15, SimulatePoint DEF statusVars, fileVars, WorkerAlive, Owns
<1>16. ASSUME NEW d \in Drivers, NEW t \in Tasks, Fail(d, t)
      PROVE  (ResetQuiet /\ EntriesOwn /\ WorkersOwn)'
    BY <1>0, <1>w, <1>16, WorkerToPoint
       DEF Fail, statusVars, fileVars, WorkerAlive, Owns, BlankWorkers
<1>17. ASSUME NEW d \in Drivers, NEW t \in Tasks, Record(d, t)
      PROVE  (ResetQuiet /\ EntriesOwn /\ WorkersOwn)'
    <2>1. CASE Accepts
        <3> DEFINE c == worker[d][t].config
        <3>1. /\ OthersStay(d, t) /\ UNCHANGED <<dirs, reset>>
              /\ worker[d][t].pc = "exited" /\ worker'[d][t].pc = "recorded"
              /\ tasks'[t].config = IF c # NoConfig THEN c ELSE tasks[t].config
              /\ \A i \in Ids : i # t => tasks'[i] = tasks[i]
            BY <1>17, <2>1, RecordPoint, RecordedPoint DEF Updates, fileVars
        <3>2. reset.pc = "idle" /\ t \in Ids
            BY <1>r, <3>1 DEF Quiet, WorkerAlive, Ids
        <3>3. ResetQuiet'
            BY <3>1, <3>2 DEF ResetQuiet
        <3>4. EntriesOwn' /\ WorkersOwn'
            <4>1. CASE c = NoConfig
                BY <1>0, <3>1, <4>1 DEF EntriesOwn, WorkersOwn, Owns, OthersStay
            <4>2. CASE c # NoConfig
                <5>1. Owns(d, t) /\ tasks'[t].config = c
                    BY <3>1, <4>2 DEF Owns
                <5>2. EntriesOwn'
                    BY <1>0, <3>1, <5>1 DEF EntriesOwn, WorkersOwn
                <5>3. WorkersOwn'
                    BY <1>0, <3>1, <5>1 DEF WorkersOwn, Owns, OthersStay
                <5> QED
                    BY <5>2, <5>3
            <4> QED
                BY <4>1, <4>2
        <3> QED
            BY <3>3, <3>4
    <2>2. CASE ~Accepts
        BY <1>w, <1>17, <2>2, RecordPoint DEF Updates, statusVars, fileVars, WorkerAlive, Owns, At
    <2> QED
        BY <2>1, <2>2
<1>18. ASSUME NEW d \in Drivers, NEW t \in Tasks, RecordedText(d, t)
      PROVE  (ResetQuiet /\ EntriesOwn /\ WorkersOwn)'
    BY <1>w, <1>18, SetWorkerPoint DEF RecordedText, At, WriteText, fileVars, WorkerAlive, Owns
<1>19. ASSUME NEW r \in Recipes, ResetManifest(r) PROVE (ResetQuiet /\ EntriesOwn /\ WorkersOwn)'
    <2>1. /\ Quiet /\ reset'.pc = "manifest" /\ UNCHANGED <<tasks, dirs, worker, driver>>
        BY <1>s, <1>19 DEF ResetManifest, TypeOK, CountTypeOK
    <2>2. ResetQuiet'
        BY <2>1 DEF ResetQuiet, Quiet, DriverAlive, WorkerAlive
    <2>3. EntriesOwn'
        BY <1>0, <2>1 DEF EntriesOwn
    <2>4. WorkersOwn'
        BY <1>0, <2>1 DEF WorkersOwn, Owns
    <2> QED
        BY <2>2, <2>3, <2>4
<1>20. CASE ResetState
    <2>1. /\ Quiet /\ reset'.gone = reset.gone /\ UNCHANGED <<dirs, worker, driver>>
          /\ NoConfig \notin reset.gone
        BY <1>f, <1>r, <1>20 DEF ResetState, TypeOK, ProcTypeOK, fileVars
    <2>2. ASSUME NEW i \in Ids
          PROVE  tasks'[i] = NoEntry \/ (tasks'[i] = tasks[i] /\ tasks[i].config \notin reset.gone)
        BY <1>0, <1>f, <2>1, <1>20 DEF ResetState, Matching, Present, AbsentBlank, NoEntry
    <2>3. ResetQuiet'
        BY <2>1, <2>2 DEF ResetQuiet, Quiet, DriverAlive, WorkerAlive, NoEntry
    <2>4. EntriesOwn'
        BY <1>0, <2>1, <2>2 DEF EntriesOwn, NoEntry
    <2>5. WorkersOwn'
        BY <1>0, <2>1, <2>2 DEF WorkersOwn, Owns, NoEntry
    <2> QED
        BY <2>3, <2>4, <2>5
<1>21. CASE ResetText
    <2>1. /\ reset'.gone = reset.gone /\ reset.pc = "saved"
          /\ UNCHANGED <<tasks, dirs, worker, driver>>
        BY <1>21 DEF ResetText, TypeOK, ProcTypeOK, fileVars
    <2>2. ResetQuiet'
        BY <1>0, <2>1 DEF ResetQuiet, Quiet, DriverAlive, WorkerAlive
    <2>3. EntriesOwn'
        BY <1>0, <2>1 DEF EntriesOwn
    <2>4. WorkersOwn'
        BY <1>0, <2>1 DEF WorkersOwn, Owns
    <2> QED
        BY <2>2, <2>3, <2>4
<1>22. CASE ResetHistory
    <2>1. /\ Quiet /\ reset'.pc = "idle" /\ UNCHANGED <<tasks, worker, driver>>
          /\ dirs' = dirs \ reset.gone /\ \A i \in Ids : tasks[i].config \notin reset.gone
        BY <1>0, <1>22 DEF ResetHistory, ResetQuiet, NoReset
    <2>2. ResetQuiet'
        BY <2>1 DEF ResetQuiet
    <2>3. EntriesOwn'
        BY <1>0, <2>1 DEF EntriesOwn
    <2>4. WorkersOwn'
        BY <2>1 DEF WorkersOwn, Owns, Quiet, WorkerAlive
    <2> QED
        BY <2>2, <2>3, <2>4
<1>23. CASE Crash
    <2>1. /\ reset'.pc = "idle" /\ UNCHANGED <<tasks, dirs>>
          /\ \A e \in Drivers, u \in Tasks : ~Owns(e, u)'
        BY <1>23 DEF Crash, NoReset, Owns, WorkerAlive, At
    <2>2. ResetQuiet'
        BY <2>1 DEF ResetQuiet
    <2>3. EntriesOwn'
        BY <1>0, <2>1 DEF EntriesOwn
    <2>4. WorkersOwn'
        BY <2>1 DEF WorkersOwn
    <2> QED
        BY <2>2, <2>3, <2>4
<1>24. CASE UNCHANGED vars
    <2>1. UNCHANGED <<tasks, dirs, reset, worker, driver>>
        BY <1>24 DEF vars, statusVars, fileVars, procVars
    <2> QED
        BY <1>0, <2>1 DEF ResetQuiet, EntriesOwn, WorkersOwn, Owns, Quiet, DriverAlive, WorkerAlive
<1> QED
    BY <1>1, <1>2, <1>3, <1>4, <1>5, <1>6, <1>7, <1>8, <1>9, <1>10, <1>11,
       <1>12, <1>13, <1>14, <1>15, <1>16, <1>17, <1>18, <1>19, <1>20,
       <1>21, <1>22, <1>23, <1>24
       DEF Next, DriverStep, WorkerStep, ResetStep

LEMMA OwnedDistinct == TypeOK /\ WorkersHaveConfig /\ ConfigsOwned => ConfigsDistinct
<1> SUFFICES ASSUME TypeOK, WorkersHaveConfig, ConfigsOwned, strays = 0
             PROVE  ConfigsDistinct
    BY DEF ConfigsDistinct
<1>1. EntriesOwn /\ WorkersOwn
    BY DEF ConfigsOwned
<1>2. \A d \in Drivers, t \in Tasks : HasDir(d, t) => Owns(d, t)
    BY RunAssumption DEF HasDir, Owns, WorkersHaveConfig
<1>3. \A i, j \in Ids : i # j /\ tasks[i].config = tasks[j].config => tasks[i].config = NoConfig
    BY <1>1 DEF EntriesOwn
<1>4. ASSUME NEW d \in Drivers, NEW e \in Drivers, NEW t \in Tasks, NEW u \in Tasks,
             <<d, t>> # <<e, u>>, HasDir(d, t), HasDir(e, u)
      PROVE  worker[d][t].config # worker[e][u].config
    BY <1>1, <1>2, <1>4 DEF WorkersOwn
<1> QED
    BY <1>3, <1>4 DEF ConfigsDistinct
-------------------------------------------------------------------------------
(* Drivers that never overlap and are not signalled.                       *)

\* Drivers that start only while the run is quiet live one at a time.
OneDriver ==
    overlaps = 0 =>
        \A d, e \in Drivers : DriverAlive(d) /\ DriverAlive(e) => d = e

\* A run without status.json has no entries.
AbsentEmpty == st = "absent" => \A i \in Ids : tasks[i] = NoEntry

LEMMA OneDriverStep == TypeOK /\ OneDriver /\ [Next]_vars => OneDriver'
<1> SUFFICES ASSUME TypeOK, OneDriver, [Next]_vars PROVE OneDriver'
    OBVIOUS
<1>0. OneDriver /\ CountTypeOK
    BY DEF TypeOK
<1>a. ASSUME overlaps' = 0 => overlaps = 0,
             \A e \in Drivers : DriverAlive(e)' => DriverAlive(e)
      PROVE  OneDriver'
    BY <1>0, <1>a DEF OneDriver
<1>b. ASSUME NEW d \in Drivers, MayStart(d), DriverTo(d, "opened") PROVE OneDriver'
    <2>1. CASE Quiet
        BY <1>b, <2>1, DriverToPoint DEF Quiet, DriverAlive, OneDriver
    <2>2. CASE ~Quiet
        BY <1>0, <1>b, <2>2 DEF MayStart, CountTypeOK, OneDriver
    <2> QED
        BY <2>1, <2>2
<1>1. ASSUME NEW d \in Drivers, Open(d) PROVE OneDriver'
    BY <1>b, <1>1 DEF Open
<1>2. ASSUME NEW d \in Drivers, Resume(d) PROVE OneDriver'
    BY <1>b, <1>2 DEF Resume
<1>3. ASSUME NEW d \in Drivers, Interrupt(d) PROVE OneDriver'
    BY <1>a, <1>3, DriverToPoint DEF Interrupt, DriverAlive, countVars
<1>4. ASSUME NEW d \in Drivers, Opened(d) PROVE OneDriver'
    BY <1>a, <1>4, DriverToPoint DEF Opened, DriverAlive, countVars
<1>5. ASSUME NEW d \in Drivers, PrepareFiles(d) PROVE OneDriver'
    BY <1>a, <1>5, DriverToPoint DEF PrepareFiles, DriverAlive, countVars
<1>6. ASSUME NEW d \in Drivers, Finalize(d) PROVE OneDriver'
    BY <1>a, <1>6, DriverToPoint DEF Finalize, DriverAlive, countVars
<1>7. ASSUME NEW d \in Drivers, Closed(d) PROVE OneDriver'
    BY <1>a, <1>7, DriverToPoint DEF Closed, DriverAlive, countVars
<1>8. ASSUME NEW d \in Drivers, NEW t \in Tasks, Submit(d, t) PROVE OneDriver'
    BY <1>a, <1>8 DEF Submit, DriverAlive, procVars, countVars
<1>9. ASSUME NEW d \in Drivers, NEW t \in Tasks, MarkRunning(d, t) PROVE OneDriver'
    BY <1>a, <1>9 DEF MarkRunning, DriverAlive, procVars, countVars
<1>10. ASSUME NEW d \in Drivers, NEW t \in Tasks, Marked(d, t) PROVE OneDriver'
    BY <1>a, <1>10 DEF Marked, DriverAlive, procVars, countVars
<1>11. ASSUME NEW d \in Drivers, NEW t \in Tasks, DrawConfig(d, t) PROVE OneDriver'
    BY <1>a, <1>11 DEF DrawConfig, DriverAlive, procVars, countVars
<1>12. ASSUME NEW d \in Drivers, NEW t \in Tasks, MakeDir(d, t) PROVE OneDriver'
    BY <1>a, <1>12 DEF MakeDir, DriverAlive, procVars, countVars
<1>13. ASSUME NEW d \in Drivers, NEW t \in Tasks, AppendHistory(d, t) PROVE OneDriver'
    BY <1>a, <1>13 DEF AppendHistory, DriverAlive, procVars, countVars
<1>14. ASSUME NEW d \in Drivers, NEW t \in Tasks, AppendManifest(d, t) PROVE OneDriver'
    BY <1>a, <1>14 DEF AppendManifest, DriverAlive, procVars, countVars
<1>15. ASSUME NEW d \in Drivers, NEW t \in Tasks, Simulate(d, t) PROVE OneDriver'
    BY <1>a, <1>15 DEF Simulate, DriverAlive, procVars, countVars
<1>16. ASSUME NEW d \in Drivers, NEW t \in Tasks, Fail(d, t) PROVE OneDriver'
    BY <1>a, <1>16 DEF Fail, DriverAlive, procVars, countVars
<1>17. ASSUME NEW d \in Drivers, NEW t \in Tasks, Record(d, t) PROVE OneDriver'
    BY <1>a, <1>17 DEF Record, DriverAlive, procVars, countVars
<1>18. ASSUME NEW d \in Drivers, NEW t \in Tasks, RecordedText(d, t) PROVE OneDriver'
    BY <1>a, <1>18 DEF RecordedText, DriverAlive, procVars, countVars
<1>19. ASSUME NEW r \in Recipes, ResetManifest(r) PROVE OneDriver'
    BY <1>a, <1>19 DEF ResetManifest, DriverAlive, procVars, countVars
<1>20. CASE ResetState
    BY <1>a, <1>20 DEF ResetState, DriverAlive, procVars, countVars
<1>21. CASE ResetText
    BY <1>a, <1>21 DEF ResetText, DriverAlive, procVars, countVars
<1>22. CASE ResetHistory
    BY <1>a, <1>22 DEF ResetHistory, DriverAlive, procVars, countVars
<1>23. CASE Crash
    BY <1>a, <1>23 DEF Crash, DriverAlive, procVars, countVars
<1>24. CASE UNCHANGED vars
    BY <1>a, <1>24 DEF vars, DriverAlive, procVars, countVars
<1> QED
    BY <1>1, <1>2, <1>3, <1>4, <1>5, <1>6, <1>7, <1>8, <1>9, <1>10, <1>11,
       <1>12, <1>13, <1>14, <1>15, <1>16, <1>17, <1>18, <1>19, <1>20,
       <1>21, <1>22, <1>23, <1>24
       DEF Next, DriverStep, WorkerStep, ResetStep

LEMMA AbsentEmptyStep == TypeOK /\ AbsentEmpty /\ [Next]_vars => AbsentEmpty'
<1> SUFFICES ASSUME TypeOK, AbsentEmpty, [Next]_vars PROVE AbsentEmpty'
    OBVIOUS
<1>0. AbsentEmpty /\ StatusTypeOK
    BY DEF TypeOK
<1>a. ASSUME UNCHANGED <<st, tasks>> PROVE AbsentEmpty'
    BY <1>0, <1>a DEF AbsentEmpty
<1>1. ASSUME NEW d \in Drivers, Open(d) PROVE AbsentEmpty'
    BY <1>1 DEF Open, Save, AbsentEmpty
<1>2. ASSUME NEW d \in Drivers, Resume(d) PROVE AbsentEmpty'
    BY <1>2 DEF Resume, Save, AbsentEmpty
<1>3. ASSUME NEW d \in Drivers, Interrupt(d) PROVE AbsentEmpty'
    BY <1>a, <1>3 DEF Interrupt, statusVars
<1>4. ASSUME NEW d \in Drivers, Opened(d) PROVE AbsentEmpty'
    BY <1>a, <1>4 DEF Opened, WriteText
<1>5. ASSUME NEW d \in Drivers, PrepareFiles(d) PROVE AbsentEmpty'
    BY <1>a, <1>5 DEF PrepareFiles, statusVars
<1>6. ASSUME NEW d \in Drivers, Finalize(d) PROVE AbsentEmpty'
    BY OutcomeType, <1>6 DEF Finalize, Save, AbsentEmpty
<1>7. ASSUME NEW d \in Drivers, Closed(d) PROVE AbsentEmpty'
    BY <1>a, <1>7 DEF Closed, WriteText
<1>8. ASSUME NEW d \in Drivers, NEW t \in Tasks, Submit(d, t) PROVE AbsentEmpty'
    BY <1>a, <1>8 DEF Submit, statusVars
<1>9. ASSUME NEW d \in Drivers, NEW t \in Tasks, MarkRunning(d, t) PROVE AbsentEmpty'
    BY <1>0, <1>a, <1>9, MarkRunningPoint DEF Updates, Accepts, statusVars, AbsentEmpty
<1>10. ASSUME NEW d \in Drivers, NEW t \in Tasks, Marked(d, t) PROVE AbsentEmpty'
    BY <1>a, <1>10 DEF Marked, WriteText
<1>11. ASSUME NEW d \in Drivers, NEW t \in Tasks, DrawConfig(d, t) PROVE AbsentEmpty'
    BY <1>a, <1>11 DEF DrawConfig, statusVars
<1>12. ASSUME NEW d \in Drivers, NEW t \in Tasks, MakeDir(d, t) PROVE AbsentEmpty'
    BY <1>a, <1>12 DEF MakeDir, statusVars
<1>13. ASSUME NEW d \in Drivers, NEW t \in Tasks, AppendHistory(d, t) PROVE AbsentEmpty'
    BY <1>a, <1>13 DEF AppendHistory, statusVars
<1>14. ASSUME NEW d \in Drivers, NEW t \in Tasks, AppendManifest(d, t) PROVE AbsentEmpty'
    BY <1>a, <1>14 DEF AppendManifest, statusVars
<1>15. ASSUME NEW d \in Drivers, NEW t \in Tasks, Simulate(d, t) PROVE AbsentEmpty'
    BY <1>a, <1>15 DEF Simulate, statusVars
<1>16. ASSUME NEW d \in Drivers, NEW t \in Tasks, Fail(d, t) PROVE AbsentEmpty'
    BY <1>a, <1>16 DEF Fail, statusVars
<1>17. ASSUME NEW d \in Drivers, NEW t \in Tasks, Record(d, t) PROVE AbsentEmpty'
    BY <1>0, <1>a, <1>17, RecordPoint DEF Updates, Accepts, statusVars, AbsentEmpty
<1>18. ASSUME NEW d \in Drivers, NEW t \in Tasks, RecordedText(d, t) PROVE AbsentEmpty'
    BY <1>a, <1>18 DEF RecordedText, WriteText
<1>19. ASSUME NEW r \in Recipes, ResetManifest(r) PROVE AbsentEmpty'
    BY <1>a, <1>19 DEF ResetManifest, statusVars
<1>20. CASE ResetState
    BY <1>20 DEF ResetState, AbsentEmpty
<1>21. CASE ResetText
    BY <1>a, <1>21 DEF ResetText, statusVars
<1>22. CASE ResetHistory
    BY <1>a, <1>22 DEF ResetHistory, statusVars
<1>23. CASE Crash
    BY <1>a, <1>23 DEF Crash, statusVars
<1>24. CASE UNCHANGED vars
    BY <1>a, <1>24 DEF vars, statusVars
<1> QED
    BY <1>1, <1>2, <1>3, <1>4, <1>5, <1>6, <1>7, <1>8, <1>9, <1>10, <1>11,
       <1>12, <1>13, <1>14, <1>15, <1>16, <1>17, <1>18, <1>19, <1>20,
       <1>21, <1>22, <1>23, <1>24
       DEF Next, DriverStep, WorkerStep, ResetStep


\* What every step of such a run may use.
LEMMA AlonePoint ==
    ASSUME TypeOK, OneDriver, WorkersDriven, Alone', [Next]_vars
    PROVE  /\ Alone
           /\ \A d \in Drivers : Open(d) \/ Resume(d) => Quiet
           /\ \A d \in Drivers : ~Interrupt(d)
           /\ \A d, e \in Drivers, t \in Tasks :
                WorkerAlive(d, t) /\ DriverAlive(e) => d = e
           /\ \A d, e \in Drivers, t, u \in Tasks :
                WorkerAlive(d, t) /\ WorkerAlive(e, u) => d = e
<1>1. overlaps \in Nat /\ interrupts \in Nat
    BY DEF TypeOK, CountTypeOK
<1>2. Alone
    BY <1>1, CountsGrowStep DEF CountsGrow, Grows, Alone
<1>3. ASSUME NEW d \in Drivers, Open(d) \/ Resume(d) PROVE Quiet
    BY <1>1, <1>2, <1>3 DEF Open, Resume, MayStart, Alone
<1>4. ASSUME NEW d \in Drivers PROVE ~Interrupt(d)
    BY <1>1, <1>2 DEF Interrupt, Alone
<1>5. \A d \in Drivers, t \in Tasks : WorkerAlive(d, t) => DriverAlive(d)
    BY <1>2 DEF WorkersDriven, Alone, DriverAlive
<1>6. \A d, e \in Drivers : DriverAlive(d) /\ DriverAlive(e) => d = e
    BY <1>2 DEF OneDriver, Alone
<1> QED
    BY <1>2, <1>3, <1>4, <1>5, <1>6

\* While a run takes updates, the entry of a worker that marked its task says
\* running.
ActiveIsRunning ==
    st = "running" =>
        \A d \in Drivers, t \in Tasks : Active(d, t) => tasks[t].status = "running"

\* Nobody works, or will start to work, on a completed task.
Pending(d, t) ==
    \/ Active(d, t) \/ worker[d][t].pc = "begun"
    \/ DriverAlive(d) /\ d \notin resuming /\ worker[d][t].pc = "idle"
PendingUncompleted ==
    \A d \in Drivers, t \in Tasks : Pending(d, t) => tasks[t].status # "completed"

\* The row of a simulation stays as long as its entry says running.
Listed(d, t) ==
    \/ worker[d][t].pc = "simulating"
    \/ worker[d][t].pc = "exited" /\ worker[d][t].ok
RowOfWorker ==
    \A d \in Drivers, t \in Tasks :
        Listed(d, t) /\ tasks[t].status = "running" =>
            manifest[t] = worker[d][t].config /\ worker[d][t].config # NoConfig

\* Rows have config ids of their own, a directory and a history row; so have
\* the simulations that have no row yet.
RowsTraced ==
    /\ \A t, u \in Tasks : t # u /\ manifest[t] = manifest[u] => manifest[t] = NoConfig
    /\ \A t \in Tasks : manifest[t] # NoConfig =>
         /\ manifest[t] \in dirs \ reset.gone
         /\ ~torn => manifest[t] \in history
Unlisted(d, t) == worker[d][t].pc \in {"made", "listed"}
RowsToCome ==
    \A d \in Drivers, t \in Tasks : Unlisted(d, t) =>
        /\ worker[d][t].config \in dirs \ reset.gone
        /\ worker[d][t].pc = "listed" => worker[d][t].config \in history
        /\ \A u \in Tasks : manifest[u] # worker[d][t].config
        /\ \A e \in Drivers, u \in Tasks :
             Unlisted(e, u) /\ worker[e][u].config = worker[d][t].config => e = d /\ u = t

\* reset-tasks found nothing running, and works on directories that exist.
ResetCareful ==
    /\ reset.gone \subseteq dirs
    /\ reset.pc = "manifest" =>
         \A i \in Matching(reset.recipe, reset.gone) : tasks[i].status # "running"

\* The row of a completed task is its own; only a crash in the middle of a
\* rewrite, or the reset that is about to drop the entry, takes it away.
CompletedTraced ==
    \A t \in Tasks : tasks[t].status = "completed" =>
        /\ tasks[t].config # NoConfig
        /\ manifest[t] \in {NoConfig, tasks[t].config}
        /\ ~torn /\ ~(reset.pc = "manifest" /\ t \in Ours(reset.recipe))
             => manifest[t] = tasks[t].config

\* The invariants above that hold in any run, and those of drivers that come
\* one after the other.
Basis ==
    /\ TypeOK /\ OneOwner /\ WorkersHaveConfig /\ RunningKeepsOpen
    /\ WorkersDriven /\ BlankWorkers /\ AbsentBlank /\ AbsentEmpty /\ OneDriver
AloneInv ==
    /\ ActiveIsRunning /\ PendingUncompleted /\ RowOfWorker
    /\ RowsTraced /\ RowsToCome /\ ResetCareful /\ CompletedTraced

LEMMA ActiveIsRunningStep ==
    ASSUME Basis, AloneInv, Alone', [Next]_vars
    PROVE  ActiveIsRunning'
<1>0. /\ TypeOK /\ OneDriver /\ WorkersDriven /\ RunningKeepsOpen /\ ActiveIsRunning /\ ResetCareful
      /\ \A d \in Drivers : Open(d) \/ Resume(d) => Quiet
      /\ \A d, e \in Drivers, t, u \in Tasks :
           WorkerAlive(d, t) /\ WorkerAlive(e, u) => d = e
    BY AlonePoint DEF Basis, AloneInv
<1>a. ASSUME UNCHANGED <<st, tasks, worker>> PROVE ActiveIsRunning'
    BY <1>0, <1>a DEF ActiveIsRunning, Active
<1>q. ASSUME \A d \in Drivers, t \in Tasks : ~WorkerAlive(d, t)' PROVE ActiveIsRunning'
    BY <1>q DEF ActiveIsRunning, Active, WorkerAlive
<1>w. ASSUME NEW d \in Drivers, NEW t \in Tasks, UNCHANGED <<st, tasks>>, OthersStay(d, t),
             Active(d, t)' => Active(d, t)
      PROVE  ActiveIsRunning'
    BY <1>0, <1>w DEF ActiveIsRunning, Active, OthersStay
<1>1. ASSUME NEW d \in Drivers, Open(d) PROVE ActiveIsRunning'
    BY <1>0, <1>q, <1>1 DEF Open, Quiet, WorkerAlive
<1>2. ASSUME NEW d \in Drivers, Resume(d) PROVE ActiveIsRunning'
    BY <1>0, <1>q, <1>2 DEF Resume, Quiet, WorkerAlive
<1>3. ASSUME NEW d \in Drivers, Interrupt(d) PROVE ActiveIsRunning'
    BY <1>a, <1>3 DEF Interrupt, statusVars, procVars
<1>4. ASSUME NEW d \in Drivers, Opened(d) PROVE ActiveIsRunning'
    BY <1>a, <1>4 DEF Opened, WriteText
<1>5. ASSUME NEW d \in Drivers, PrepareFiles(d) PROVE ActiveIsRunning'
    BY <1>a, <1>5 DEF PrepareFiles, statusVars, procVars
<1>6. ASSUME NEW d \in Drivers, Finalize(d) PROVE ActiveIsRunning'
    <2>1. UNCHANGED <<tasks, worker>> /\ st' = Outcome /\ (st' = "running" => st = "running")
        BY <1>0, <1>6 DEF Finalize, Save, Outcome, With, RunningKeepsOpen, Succeeded
    <2> QED
        BY <1>0, <2>1 DEF ActiveIsRunning, Active
<1>7. ASSUME NEW d \in Drivers, Closed(d) PROVE ActiveIsRunning'
    BY <1>a, <1>7 DEF Closed, WriteText
<1>8. ASSUME NEW d \in Drivers, NEW t \in Tasks, Submit(d, t) PROVE ActiveIsRunning'
    BY <1>0, <1>w, <1>8, WorkerToPoint DEF Submit, Active, statusVars
<1>9. ASSUME NEW d \in Drivers, NEW t \in Tasks, MarkRunning(d, t) PROVE ActiveIsRunning'
    <2>1. CASE Accepts
        BY <1>0, <1>9, <2>1, MarkRunningPoint DEF Updates, ActiveIsRunning, Active, OthersStay, Ids
    <2>2. CASE ~Accepts
        BY <1>0, <1>9, <2>2, MarkRunningPoint DEF Updates, Accepts, statusVars, ActiveIsRunning
    <2> QED
        BY <2>1, <2>2
<1>10. ASSUME NEW d \in Drivers, NEW t \in Tasks, Marked(d, t) PROVE ActiveIsRunning'
    BY <1>0, <1>w, <1>10, WorkerToPoint DEF Marked, Active, WriteText
<1>11. ASSUME NEW d \in Drivers, NEW t \in Tasks, DrawConfig(d, t) PROVE ActiveIsRunning'
    BY <1>0, <1>w, <1>11, DrawConfigPoint DEF Active, At, statusVars
<1>12. ASSUME NEW d \in Drivers, NEW t \in Tasks, MakeDir(d, t) PROVE ActiveIsRunning'
    BY <1>0, <1>w, <1>12, MakeDirPoint DEF Active, At, statusVars
<1>13. ASSUME NEW d \in Drivers, NEW t \in Tasks, AppendHistory(d, t) PROVE ActiveIsRunning'
    BY <1>0, <1>w, <1>13, WorkerToPoint DEF AppendHistory, Active, statusVars
<1>14. ASSUME NEW d \in Drivers, NEW t \in Tasks, AppendManifest(d, t) PROVE ActiveIsRunning'
    BY <1>0, <1>w, <1>14, WorkerToPoint DEF AppendManifest, Active, statusVars
<1>15. ASSUME NEW d \in Drivers, NEW t \in Tasks, Simulate(d, t) PROVE ActiveIsRunning'
    BY <1>0, <1>w, <1>15, SimulatePoint DEF Active, At, statusVars
<1>16. ASSUME NEW d \in Drivers, NEW t \in Tasks, Fail(d, t) PROVE ActiveIsRunning'
    BY <1>0, <1>w, <1>16, WorkerToPoint DEF Fail, Active, statusVars
<1>17. ASSUME NEW d \in Drivers, NEW t \in Tasks, Record(d, t) PROVE ActiveIsRunning'
    <2>1. CASE Accepts
        <3>1. /\ worker[d][t].pc = "exited" /\ worker'[d][t].pc = "recorded" /\ OthersStay(d, t)
              /\ st' = st /\ \A i \in Ids : i # t => tasks'[i] = tasks[i]
            BY <1>0, <1>17, <2>1, RecordPoint DEF Updates
        <3>2. \A e \in Drivers : Active(e, t) => e = d
            BY <1>0, <3>1 DEF Active, WorkerAlive
        <3> QED
            BY <1>0, <3>1, <3>2 DEF ActiveIsRunning, Active, OthersStay, Ids
    <2>2. CASE ~Accepts
        BY <1>0, <1>17, <2>2, RecordPoint DEF Updates, Accepts, statusVars, ActiveIsRunning
    <2> QED
        BY <2>1, <2>2
<1>18. ASSUME NEW d \in Drivers, NEW t \in Tasks, RecordedText(d, t) PROVE ActiveIsRunning'
    BY <1>0, <1>w, <1>18, SetWorkerPoint DEF RecordedText, Active, At, WriteText
<1>19. ASSUME NEW r \in Recipes, ResetManifest(r) PROVE ActiveIsRunning'
    BY <1>a, <1>19 DEF ResetManifest, statusVars, procVars
<1>20. CASE ResetState
    <2> DEFINE out == Matching(reset.recipe, reset.gone)
    <2> SUFFICES ASSUME st' = "running", NEW d \in Drivers, NEW t \in Tasks, Active(d, t)
                 PROVE  tasks'[t].status = "running"
        BY <1>20 DEF ResetState, ActiveIsRunning, Active
    <2>1. st = "running" /\ tasks' = [i \in Ids |-> IF i \in out THEN NoEntry ELSE tasks[i]]
        BY <1>0, <1>20 DEF ResetState, With, RunningKeepsOpen
    <2>2. tasks[t].status = "running" /\ t \in Ids
        BY <1>0, <2>1 DEF ActiveIsRunning, Ids
    <2>3. t \notin out
        BY <1>0, <2>2, <1>20 DEF ResetCareful, ResetState
    <2> QED
        BY <2>1, <2>2, <2>3
<1>21. CASE ResetText
    BY <1>a, <1>21 DEF ResetText, statusVars, procVars
<1>22. CASE ResetHistory
    BY <1>a, <1>22 DEF ResetHistory, statusVars, procVars
<1>23. CASE Crash
    BY <1>q, <1>23 DEF Crash, WorkerAlive, At
<1>24. CASE UNCHANGED vars
    BY <1>a, <1>24 DEF vars, statusVars, procVars
<1> QED
    BY <1>1, <1>2, <1>3, <1>4, <1>5, <1>6, <1>7, <1>8, <1>9, <1>10, <1>11,
       <1>12, <1>13, <1>14, <1>15, <1>16, <1>17, <1>18, <1>19, <1>20,
       <1>21, <1>22, <1>23, <1>24
       DEF Next, DriverStep, WorkerStep, ResetStep

LEMMA PendingUncompletedStep ==
    ASSUME Basis, AloneInv, Alone', [Next]_vars
    PROVE  PendingUncompleted'
<1>0. /\ TypeOK /\ BlankWorkers /\ ActiveIsRunning /\ PendingUncompleted
      /\ \A d \in Drivers : Open(d) \/ Resume(d) => Quiet
      /\ \A d \in Drivers : ~Interrupt(d)
      /\ \A d, e \in Drivers, t \in Tasks :
           WorkerAlive(d, t) /\ DriverAlive(e) => d = e
      /\ \A d, e \in Drivers, t, u \in Tasks :
           WorkerAlive(d, t) /\ WorkerAlive(e, u) => d = e
    BY AlonePoint DEF Basis, AloneInv
<1>a. ASSUME UNCHANGED <<tasks, worker, resuming>>,
             \A e \in Drivers : DriverAlive(e)' => DriverAlive(e)
      PROVE PendingUncompleted'
    BY <1>0, <1>a DEF PendingUncompleted, Pending, Active
<1>w. ASSUME NEW d \in Drivers, NEW t \in Tasks, UNCHANGED <<tasks, driver, resuming>>,
             OthersStay(d, t), Pending(d, t)' => Pending(d, t)
      PROVE  PendingUncompleted'
    BY <1>0, <1>w DEF PendingUncompleted, Pending, Active, OthersStay, DriverAlive
<1>1. ASSUME NEW d \in Drivers, Open(d) PROVE PendingUncompleted'
    BY <1>1 DEF Open, Save, NoEntry, PendingUncompleted, Ids
<1>2. ASSUME NEW d \in Drivers, Resume(d) PROVE PendingUncompleted'
    <2>1. Quiet /\ UNCHANGED worker /\ resuming' = resuming \cup {d}
        BY <1>0, <1>2 DEF Resume
    <2>2. \A e \in Drivers : DriverAlive(e)' => e = d
        BY <1>0, <2>1, <1>2, DriverToPoint DEF Resume, Quiet, DriverAlive
    <2>3. \A e \in Drivers, t \in Tasks : ~Pending(e, t)'
        BY <2>1, <2>2 DEF Pending, Active, Quiet, WorkerAlive
    <2> QED
        BY <2>3 DEF PendingUncompleted
<1>3. ASSUME NEW d \in Drivers, Interrupt(d) PROVE PendingUncompleted'
    BY <1>0, <1>3
<1>4. ASSUME NEW d \in Drivers, Opened(d) PROVE PendingUncompleted'
    BY <1>0, <1>a, <1>4, DriverToPoint DEF Opened, WriteText, DriverAlive
<1>5. ASSUME NEW d \in Drivers, PrepareFiles(d) PROVE PendingUncompleted'
    BY <1>0, <1>a, <1>5, DriverToPoint DEF PrepareFiles, statusVars, DriverAlive
<1>6. ASSUME NEW d \in Drivers, Finalize(d) PROVE PendingUncompleted'
    BY <1>0, <1>a, <1>6, DriverToPoint DEF Finalize, Save, DriverAlive
<1>7. ASSUME NEW d \in Drivers, Closed(d) PROVE PendingUncompleted'
    BY <1>0, <1>a, <1>7, DriverToPoint DEF Closed, WriteText, DriverAlive
<1>8. ASSUME NEW d \in Drivers, NEW t \in Tasks, Submit(d, t) PROVE PendingUncompleted'
    <2>1. /\ worker'[d][t].pc \in {"skipped", "begun"} /\ OthersStay(d, t)
          /\ UNCHANGED <<tasks, driver, resuming>>
        BY <1>0, <1>8, WorkerToPoint DEF Submit, statusVars
    <2>2. worker'[d][t].pc = "begun" => tasks[t].status # "completed"
        <3>1. CASE d \in resuming
            BY <1>0, <1>8, <3>1, WorkerToPoint DEF Submit, Skippable
        <3>2. CASE d \notin resuming
            BY <1>0, <1>8, <3>2 DEF Submit, PendingUncompleted, Pending, DriverAlive
        <3> QED
            BY <3>1, <3>2
    <2> QED
        BY <1>0, <2>1, <2>2 DEF PendingUncompleted, Pending, Active, OthersStay, DriverAlive
<1>9. ASSUME NEW d \in Drivers, NEW t \in Tasks, MarkRunning(d, t) PROVE PendingUncompleted'
    <2>1. CASE Accepts
        BY <1>0, <1>9, <2>1, MarkRunningPoint
           DEF Updates, PendingUncompleted, Pending, Active, OthersStay, DriverAlive, Ids
    <2>2. CASE ~Accepts
        BY <1>0, <1>w, <1>9, <2>2, MarkRunningPoint DEF Updates, statusVars, Pending, Active
    <2> QED
        BY <2>1, <2>2
<1>10. ASSUME NEW d \in Drivers, NEW t \in Tasks, Marked(d, t) PROVE PendingUncompleted'
    BY <1>0, <1>w, <1>10, WorkerToPoint DEF Marked, Pending, Active, WriteText
<1>11. ASSUME NEW d \in Drivers, NEW t \in Tasks, DrawConfig(d, t) PROVE PendingUncompleted'
    BY <1>0, <1>w, <1>11, DrawConfigPoint DEF Pending, Active, At, statusVars
<1>12. ASSUME NEW d \in Drivers, NEW t \in Tasks, MakeDir(d, t) PROVE PendingUncompleted'
    BY <1>0, <1>w, <1>12, MakeDirPoint DEF Pending, Active, At, statusVars
<1>13. ASSUME NEW d \in Drivers, NEW t \in Tasks, AppendHistory(d, t) PROVE PendingUncompleted'
    BY <1>0, <1>w, <1>13, WorkerToPoint DEF AppendHistory, Pending, Active, statusVars
<1>14. ASSUME NEW d \in Drivers, NEW t \in Tasks, AppendManifest(d, t) PROVE PendingUncompleted'
    BY <1>0, <1>w, <1>14, WorkerToPoint DEF AppendManifest, Pending, Active, statusVars
<1>15. ASSUME NEW d \in Drivers, NEW t \in Tasks, Simulate(d, t) PROVE PendingUncompleted'
    BY <1>0, <1>w, <1>15, SimulatePoint DEF Pending, Active, At, statusVars
<1>16. ASSUME NEW d \in Drivers, NEW t \in Tasks, Fail(d, t) PROVE PendingUncompleted'
    BY <1>0, <1>w, <1>16, WorkerToPoint DEF Fail, Pending, Active, statusVars
<1>17. ASSUME NEW d \in Drivers, NEW t \in Tasks, Record(d, t) PROVE PendingUncompleted'
    <2>1. CASE Accepts
        <3>1. /\ worker[d][t].pc = "exited" /\ worker'[d][t].pc = "recorded" /\ OthersStay(d, t)
              /\ UNCHANGED <<driver, resuming>> /\ \A i \in Ids : i # t => tasks'[i] = tasks[i]
            BY <1>0, <1>17, <2>1, RecordPoint DEF Updates
        <3>2. \A e \in Drivers : Pending(e, t) => e = d
            BY <1>0, <3>1 DEF Pending, Active, WorkerAlive
        <3> QED
            BY <1>0, <3>1, <3>2
               DEF PendingUncompleted, Pending, Active, OthersStay, DriverAlive, Ids
    <2>2. CASE ~Accepts
        BY <1>0, <1>w, <1>17, <2>2, RecordPoint DEF Updates, statusVars, Pending, Active, At
    <2> QED
        BY <2>1, <2>2
<1>18. ASSUME NEW d \in Drivers, NEW t \in Tasks, RecordedText(d, t) PROVE PendingUncompleted'
    BY <1>0, <1>w, <1>18, SetWorkerPoint DEF RecordedText, Pending, Active, At, WriteText
<1>19. ASSUME NEW r \in Recipes, ResetManifest(r) PROVE PendingUncompleted'
    BY <1>a, <1>19 DEF ResetManifest, statusVars, procVars, DriverAlive
<1>20. CASE ResetState
    <2>1. \A i \in Ids : tasks'[i] = NoEntry \/ tasks'[i] = tasks[i]
        BY <1>20 DEF ResetState
    <2> QED
        BY <1>0, <2>1, <1>20
           DEF ResetState, NoEntry, PendingUncompleted, Pending, Active, DriverAlive, Ids
<1>21. CASE ResetText
    BY <1>a, <1>21 DEF ResetText, statusVars, procVars, DriverAlive
<1>22. CASE ResetHistory
    BY <1>a, <1>22 DEF ResetHistory, statusVars, procVars, DriverAlive
<1>23. CASE Crash
    <2>1. \A e \in Drivers, u \in Tasks : ~Pending(e, u)'
        BY <1>23 DEF Crash, Pending, Active, WorkerAlive, DriverAlive, At
    <2> QED
        BY <2>1 DEF PendingUncompleted
<1>24. CASE UNCHANGED vars
    BY <1>a, <1>24 DEF vars, statusVars, procVars, DriverAlive
<1> QED
    BY <1>1, <1>2, <1>3, <1>4, <1>5, <1>6, <1>7, <1>8, <1>9, <1>10, <1>11,
       <1>12, <1>13, <1>14, <1>15, <1>16, <1>17, <1>18, <1>19, <1>20,
       <1>21, <1>22, <1>23, <1>24
       DEF Next, DriverStep, WorkerStep, ResetStep
LEMMA RowOfWorkerStep ==
    ASSUME Basis, AloneInv, Alone', [Next]_vars
    PROVE  RowOfWorker'
<1>0. /\ TypeOK /\ BlankWorkers /\ WorkersHaveConfig /\ RowOfWorker /\ RunAssumption
      /\ \A d \in Drivers : Open(d) \/ Resume(d) => Quiet
      /\ \A d \in Drivers : ~Interrupt(d)
      /\ \A d, e \in Drivers, t \in Tasks :
           WorkerAlive(d, t) /\ DriverAlive(e) => d = e
      /\ \A d, e \in Drivers, t, u \in Tasks :
           WorkerAlive(d, t) /\ WorkerAlive(e, u) => d = e
    BY AlonePoint, RunAssumption DEF Basis, AloneInv
<1>m. manifest \in [Tasks -> Configs \cup {NoConfig}]
    BY <1>0 DEF TypeOK, FileTypeOK
<1>a. ASSUME UNCHANGED <<tasks, worker, manifest>> PROVE RowOfWorker'
    BY <1>0, <1>a DEF RowOfWorker, Listed
<1>q. ASSUME \A d \in Drivers, t \in Tasks : ~WorkerAlive(d, t)' PROVE RowOfWorker'
    BY <1>q DEF RowOfWorker, Listed, WorkerAlive
<1>w. ASSUME NEW d \in Drivers, NEW t \in Tasks, UNCHANGED <<tasks, manifest>>, OthersStay(d, t),
             Listed(d, t)' => Listed(d, t) /\ worker'[d][t].config = worker[d][t].config
      PROVE  RowOfWorker'
    BY <1>0, <1>w DEF RowOfWorker, Listed, OthersStay
<1>1. ASSUME NEW d \in Drivers, Open(d) PROVE RowOfWorker'
    BY <1>0, <1>q, <1>1 DEF Open, Quiet, WorkerAlive
<1>2. ASSUME NEW d \in Drivers, Resume(d) PROVE RowOfWorker'
    BY <1>0, <1>q, <1>2 DEF Resume, Quiet, WorkerAlive
<1>3. ASSUME NEW d \in Drivers, Interrupt(d) PROVE RowOfWorker'
    BY <1>0, <1>3
<1>4. ASSUME NEW d \in Drivers, Opened(d) PROVE RowOfWorker'
    BY <1>a, <1>4 DEF Opened, WriteText, fileVars
<1>5. ASSUME NEW d \in Drivers, PrepareFiles(d) PROVE RowOfWorker'
    <2>1. \A e \in Drivers, u \in Tasks : ~WorkerAlive(e, u)
        BY <1>0, <1>5 DEF PrepareFiles, BlankWorkers, WorkerAlive, DriverAlive
    <2> QED
        BY <2>1, <1>q, <1>5 DEF PrepareFiles, WorkerAlive
<1>6. ASSUME NEW d \in Drivers, Finalize(d) PROVE RowOfWorker'
    BY <1>a, <1>6 DEF Finalize, Save, fileVars
<1>7. ASSUME NEW d \in Drivers, Closed(d) PROVE RowOfWorker'
    BY <1>a, <1>7 DEF Closed, WriteText, fileVars
<1>8. ASSUME NEW d \in Drivers, NEW t \in Tasks, Submit(d, t) PROVE RowOfWorker'
    BY <1>0, <1>w, <1>8, WorkerToPoint DEF Submit, Listed, statusVars, fileVars
<1>9. ASSUME NEW d \in Drivers, NEW t \in Tasks, MarkRunning(d, t) PROVE RowOfWorker'
    <2>1. CASE Accepts
        <3>1. /\ worker[d][t].pc = "begun" /\ worker'[d][t].pc = "marked" /\ OthersStay(d, t)
              /\ UNCHANGED manifest /\ \A i \in Ids : i # t => tasks'[i] = tasks[i]
            BY <1>0, <1>9, <2>1, MarkRunningPoint DEF Updates, fileVars
        <3>2. \A e \in Drivers : ~Listed(e, t)
            BY <1>0, <3>1 DEF Listed, WorkerAlive
        <3> QED
            BY <1>0, <3>1, <3>2 DEF RowOfWorker, Listed, OthersStay, Ids
    <2>2. CASE ~Accepts
        BY <1>0, <1>w, <1>9, <2>2, MarkRunningPoint DEF Updates, statusVars, fileVars, Listed
    <2> QED
        BY <2>1, <2>2
<1>10. ASSUME NEW d \in Drivers, NEW t \in Tasks, Marked(d, t) PROVE RowOfWorker'
    BY <1>0, <1>w, <1>10, WorkerToPoint DEF Marked, Listed, WriteText, fileVars
<1>11. ASSUME NEW d \in Drivers, NEW t \in Tasks, DrawConfig(d, t) PROVE RowOfWorker'
    BY <1>0, <1>w, <1>11, DrawConfigPoint DEF Listed, At, statusVars, fileVars
<1>12. ASSUME NEW d \in Drivers, NEW t \in Tasks, MakeDir(d, t) PROVE RowOfWorker'
    BY <1>0, <1>w, <1>12, MakeDirPoint DEF Listed, At, statusVars
<1>13. ASSUME NEW d \in Drivers, NEW t \in Tasks, AppendHistory(d, t) PROVE RowOfWorker'
    BY <1>0, <1>w, <1>13, WorkerToPoint DEF AppendHistory, Listed, statusVars, fileVars
<1>14. ASSUME NEW d \in Drivers, NEW t \in Tasks, AppendManifest(d, t) PROVE RowOfWorker'
    <2>1. /\ worker[d][t].pc = "listed" /\ worker'[d][t].config = worker[d][t].config
          /\ OthersStay(d, t) /\ UNCHANGED tasks
          /\ manifest' = [manifest EXCEPT ![t] = worker[d][t].config]
        BY <1>0, <1>14, WorkerToPoint DEF AppendManifest, RowFor, statusVars
    <2>2. \A e \in Drivers : Listed(e, t) => e = d
        BY <1>0, <2>1 DEF Listed, WorkerAlive
    <2>3. worker[d][t].config # NoConfig
        BY <1>0, <2>1 DEF WorkersHaveConfig, RunAssumption
    <2> QED
        BY <1>0, <1>m, <2>1, <2>2, <2>3 DEF RowOfWorker, Listed, OthersStay
<1>15. ASSUME NEW d \in Drivers, NEW t \in Tasks, Simulate(d, t) PROVE RowOfWorker'
    BY <1>0, <1>w, <1>15, SimulatePoint DEF Listed, At, statusVars, fileVars
<1>16. ASSUME NEW d \in Drivers, NEW t \in Tasks, Fail(d, t) PROVE RowOfWorker'
    BY <1>0, <1>w, <1>16, WorkerToPoint DEF Fail, Listed, statusVars, fileVars, BlankWorkers
<1>17. ASSUME NEW d \in Drivers, NEW t \in Tasks, Record(d, t) PROVE RowOfWorker'
    <2>1. CASE Accepts
        <3>1. /\ worker[d][t].pc = "exited" /\ worker'[d][t].pc = "recorded" /\ OthersStay(d, t)
              /\ tasks'[t].status # "running"
              /\ UNCHANGED manifest /\ \A i \in Ids : i # t => tasks'[i] = tasks[i]
            BY <1>0, <1>17, <2>1, RecordPoint, RecordedPoint DEF Updates, fileVars
        <3> QED
            BY <1>0, <3>1 DEF RowOfWorker, Listed, OthersStay, Ids
    <2>2. CASE ~Accepts
        BY <1>0, <1>w, <1>17, <2>2, RecordPoint DEF Updates, statusVars, fileVars, Listed, At
    <2> QED
        BY <2>1, <2>2
<1>18. ASSUME NEW d \in Drivers, NEW t \in Tasks, RecordedText(d, t) PROVE RowOfWorker'
    BY <1>0, <1>w, <1>18, SetWorkerPoint DEF RecordedText, Listed, At, WriteText, fileVars
<1>19. ASSUME NEW r \in Recipes, ResetManifest(r) PROVE RowOfWorker'
    <2>1. ASSUME NEW t \in Tasks, tasks[t].status = "running" PROVE manifest'[t] = manifest[t]
        BY <2>1, <1>19 DEF ResetManifest, NoneRunning, Matching, Present, Ids
    <2> QED
        BY <1>0, <2>1, <1>19 DEF ResetManifest, RowOfWorker, Listed
<1>20. CASE ResetState
    <2>1. \A i \in Ids : tasks'[i] = NoEntry \/ tasks'[i] = tasks[i]
        BY <1>20 DEF ResetState
    <2> QED
        BY <1>0, <2>1, <1>20 DEF ResetState, NoEntry, RowOfWorker, Listed, Ids, fileVars
<1>21. CASE ResetText
    BY <1>a, <1>21 DEF ResetText, statusVars, procVars, fileVars
<1>22. CASE ResetHistory
    BY <1>a, <1>22 DEF ResetHistory, statusVars, procVars, fileVars
<1>23. CASE Crash
    BY <1>q, <1>23 DEF Crash, WorkerAlive, At
<1>24. CASE UNCHANGED vars
    BY <1>a, <1>24 DEF vars, statusVars, procVars, fileVars
<1> QED
    BY <1>1, <1>2, <1>3, <1>4, <1>5, <1>6, <1>7, <1>8, <1>9, <1>10, <1>11,
       <1>12, <1>13, <1>14, <1>15, <1>16, <1>17, <1>18, <1>19, <1>20,
       <1>21, <1>22, <1>23, <1>24
       DEF Next, DriverStep, WorkerStep, ResetStep

LEMMA RowsTracedStep ==
    ASSUME Basis, AloneInv, Alone', [Next]_vars
    PROVE  RowsTraced' /\ RowsToCome'
<1>0. /\ TypeOK /\ BlankWorkers /\ WorkersHaveConfig /\ RowsTraced /\ RowsToCome /\ ResetCareful
      /\ OneOwner /\ RunAssumption
      /\ \A d \in Drivers : Open(d) \/ Resume(d) => Quiet
      /\ \A d \in Drivers : ~Interrupt(d)
      /\ \A d, e \in Drivers, t \in Tasks :
           WorkerAlive(d, t) /\ DriverAlive(e) => d = e
      /\ \A d, e \in Drivers, t, u \in Tasks :
           WorkerAlive(d, t) /\ WorkerAlive(e, u) => d = e
    BY AlonePoint, RunAssumption DEF Basis, AloneInv
<1>m. /\ manifest \in [Tasks -> Configs \cup {NoConfig}] /\ NoConfig \notin Configs
      /\ reset.gone \subseteq Configs
    BY <1>0 DEF TypeOK, FileTypeOK, ProcTypeOK, RunAssumption
<1>a. ASSUME UNCHANGED <<manifest, history, dirs, torn>>, reset'.gone = reset.gone,
             \A d \in Drivers, t \in Tasks : Unlisted(d, t)' =>
                 worker'[d][t] = worker[d][t]
      PROVE  RowsTraced' /\ RowsToCome'
    <2>1. RowsTraced'
        BY <1>0, <1>a DEF RowsTraced
    <2>2. RowsToCome'
        BY <1>0, <1>a DEF RowsToCome, Unlisted
    <2> QED
        BY <2>1, <2>2
<1>w. ASSUME NEW d \in Drivers, NEW t \in Tasks, OthersStay(d, t),
             ~Unlisted(d, t)', UNCHANGED <<manifest, history, dirs, torn, reset>>
      PROVE  RowsTraced' /\ RowsToCome'
    BY <1>a, <1>w DEF OthersStay, Unlisted
<1>1. ASSUME NEW d \in Drivers, Open(d) PROVE RowsTraced' /\ RowsToCome'
    BY <1>a, <1>1 DEF Open, statusVars, procVars, fileVars
<1>2. ASSUME NEW d \in Drivers, Resume(d) PROVE RowsTraced' /\ RowsToCome'
    BY <1>a, <1>2 DEF Resume, statusVars, procVars, fileVars
<1>3. ASSUME NEW d \in Drivers, Interrupt(d) PROVE RowsTraced' /\ RowsToCome'
    BY <1>0, <1>3
<1>4. ASSUME NEW d \in Drivers, Opened(d) PROVE RowsTraced' /\ RowsToCome'
    BY <1>a, <1>4 DEF Opened, statusVars, procVars, fileVars
<1>5. ASSUME NEW d \in Drivers, PrepareFiles(d) PROVE RowsTraced' /\ RowsToCome'
    <2>1. CASE d \in resuming
        BY <1>a, <1>5, <2>1 DEF PrepareFiles
    <2>2. CASE d \notin resuming
        <3>1. \A e \in Drivers, u \in Tasks : ~WorkerAlive(e, u)
            BY <1>0, <1>5 DEF PrepareFiles, BlankWorkers, WorkerAlive, DriverAlive
        <3>2. RowsToCome'
            BY <3>1, <1>5 DEF PrepareFiles, RowsToCome, Unlisted, WorkerAlive
        <3>3. \A t \in Tasks : manifest'[t] = NoConfig
            BY <1>5, <2>2 DEF PrepareFiles
        <3> QED
            BY <3>2, <3>3 DEF RowsTraced
    <2> QED
        BY <2>1, <2>2
<1>6. ASSUME NEW d \in Drivers, Finalize(d) PROVE RowsTraced' /\ RowsToCome'
    BY <1>a, <1>6 DEF Finalize, statusVars, procVars, fileVars
<1>7. ASSUME NEW d \in Drivers, Closed(d) PROVE RowsTraced' /\ RowsToCome'
    BY <1>a, <1>7 DEF Closed, statusVars, procVars, fileVars
<1>8. ASSUME NEW d \in Drivers, NEW t \in Tasks, Submit(d, t) PROVE RowsTraced' /\ RowsToCome'
    BY <1>0, <1>w, <1>8, WorkerToPoint DEF Submit, Unlisted, fileVars
<1>9. ASSUME NEW d \in Drivers, NEW t \in Tasks, MarkRunning(d, t) PROVE RowsTraced' /\ RowsToCome'
    BY <1>0, <1>w, <1>9, MarkRunningPoint DEF Unlisted, At, fileVars
<1>10. ASSUME NEW d \in Drivers, NEW t \in Tasks, Marked(d, t) PROVE RowsTraced' /\ RowsToCome'
    BY <1>0, <1>w, <1>10, WorkerToPoint DEF Marked, Unlisted, fileVars
<1>11. ASSUME NEW d \in Drivers, NEW t \in Tasks, DrawConfig(d, t) PROVE RowsTraced' /\ RowsToCome'
    BY <1>0, <1>w, <1>11, DrawConfigPoint DEF Unlisted, At, fileVars
<1>12. ASSUME NEW d \in Drivers, NEW t \in Tasks, MakeDir(d, t) PROVE RowsTraced' /\ RowsToCome'
    <2> DEFINE c == worker[d][t].config
    <2>1. CASE c \in dirs
        BY <1>0, <1>w, <1>12, <2>1, MakeDirPoint DEF Unlisted, At
    <2>2. CASE c \notin dirs
        <3>1. /\ worker[d][t].pc = "drawn" /\ worker'[d][t].pc = "made" /\ worker'[d][t].config = c
              /\ OthersStay(d, t) /\ UNCHANGED <<manifest, history, torn, reset>>
              /\ dirs' = dirs \cup {c}
            BY <1>0, <1>12, <2>2, MakeDirPoint
        <3>2. /\ c # NoConfig /\ c \notin reset.gone
              /\ \A u \in Tasks : manifest[u] # c
            BY <1>0, <1>m, <2>2, <3>1 DEF WorkersHaveConfig, ResetCareful, RowsTraced
        <3>3. \A e \in Drivers, u \in Tasks : Unlisted(e, u) => worker[e][u].config # c
            BY <1>0, <2>2 DEF RowsToCome
        <3>4. RowsTraced'
            BY <1>0, <3>1 DEF RowsTraced
        <3>5. RowsToCome'
            BY <1>0, <3>1, <3>2, <3>3 DEF RowsToCome, Unlisted, OthersStay
        <3> QED
            BY <3>4, <3>5
    <2> QED
        BY <2>1, <2>2
<1>13. ASSUME NEW d \in Drivers, NEW t \in Tasks, AppendHistory(d, t)
      PROVE  RowsTraced' /\ RowsToCome'
    <2> DEFINE c == worker[d][t].config
    <2>1. /\ worker[d][t].pc = "made" /\ worker'[d][t].pc = "listed" /\ worker'[d][t].config = c
          /\ OthersStay(d, t) /\ UNCHANGED <<manifest, dirs, torn, reset>>
          /\ history' = history \cup {c}
        BY <1>0, <1>13, WorkerToPoint DEF AppendHistory
    <2>2. RowsTraced'
        BY <1>0, <2>1 DEF RowsTraced
    <2>3. RowsToCome'
        BY <1>0, <2>1, SMTT(40) DEF RowsToCome, Unlisted, OthersStay
    <2> QED
        BY <2>2, <2>3
<1>14. ASSUME NEW d \in Drivers, NEW t \in Tasks, AppendManifest(d, t)
      PROVE  RowsTraced' /\ RowsToCome'
    <2> DEFINE c == worker[d][t].config
    <2>1. /\ worker[d][t].pc = "listed" /\ worker'[d][t].pc = "simulating"
          /\ OthersStay(d, t) /\ UNCHANGED <<history, dirs, torn, reset>>
          /\ manifest' = [manifest EXCEPT ![t] = c]
        BY <1>0, <1>14, WorkerToPoint DEF AppendManifest, RowFor
    <2>2. /\ c \in dirs \ reset.gone /\ c \in history
          /\ \A u \in Tasks : manifest[u] # c
        BY <1>0, <2>1 DEF RowsToCome, Unlisted
    <2>3. RowsTraced'
        <3>1. \A u, v \in Tasks : u # v /\ manifest'[u] = manifest'[v] => manifest'[u] = NoConfig
            BY <1>0, <1>m, <2>1, <2>2 DEF RowsTraced
        <3>2. \A u \in Tasks : manifest'[u] # NoConfig =>
                  manifest'[u] \in dirs \ reset.gone /\ (~torn => manifest'[u] \in history)
            BY <1>0, <1>m, <2>1, <2>2 DEF RowsTraced
        <3> QED
            BY <2>1, <3>1, <3>2 DEF RowsTraced
    <2>4. RowsToCome'
        BY <1>0, <1>m, <2>1 DEF RowsToCome, Unlisted, OthersStay
    <2> QED
        BY <2>3, <2>4
<1>15. ASSUME NEW d \in Drivers, NEW t \in Tasks, Simulate(d, t) PROVE RowsTraced' /\ RowsToCome'
    BY <1>0, <1>w, <1>15, SimulatePoint DEF Unlisted, At, fileVars
<1>16. ASSUME NEW d \in Drivers, NEW t \in Tasks, Fail(d, t) PROVE RowsTraced' /\ RowsToCome'
    BY <1>0, <1>w, <1>16, WorkerToPoint DEF Fail, Unlisted, fileVars
<1>17. ASSUME NEW d \in Drivers, NEW t \in Tasks, Record(d, t) PROVE RowsTraced' /\ RowsToCome'
    BY <1>0, <1>w, <1>17, RecordPoint DEF Unlisted, At, fileVars
<1>18. ASSUME NEW d \in Drivers, NEW t \in Tasks, RecordedText(d, t)
      PROVE  RowsTraced' /\ RowsToCome'
    BY <1>0, <1>w, <1>18, SetWorkerPoint DEF RecordedText, Unlisted, At, fileVars
<1>19. ASSUME NEW r \in Recipes, ResetManifest(r) PROVE RowsTraced' /\ RowsToCome'
    <2>1. /\ reset'.gone = RowConfigs(r) /\ UNCHANGED <<history, dirs, torn, worker>>
          /\ \A t \in Tasks : IF t \in Ours(r) THEN manifest'[t] = NoConfig ELSE manifest'[t] = manifest[t]
        BY <1>19 DEF ResetManifest
    <2>2. ASSUME NEW t \in Tasks, t \notin Ours(r), manifest[t] # NoConfig
          PROVE  manifest[t] \notin RowConfigs(r)
        BY <1>0, <2>2 DEF RowConfigs, RowsTraced, Ours
    <2>3. RowsTraced'
        BY <1>0, <2>1, <2>2 DEF RowsTraced
    <2>4. ASSUME NEW d \in Drivers, NEW t \in Tasks, Unlisted(d, t)
          PROVE  worker[d][t].config # NoConfig /\ worker[d][t].config \notin RowConfigs(r)
        BY <1>0, <1>m, <2>4 DEF RowConfigs, RowsToCome, Ours, WorkersHaveConfig, Unlisted
    <2>5. RowsToCome'
        BY <1>0, <2>1, <2>4 DEF RowsToCome, Unlisted
    <2> QED
        BY <2>3, <2>5
<1>20. CASE ResetState
    BY <1>0, <1>a, <1>20 DEF ResetState, fileVars, TypeOK, ProcTypeOK
<1>21. CASE ResetText
    BY <1>0, <1>a, <1>21 DEF ResetText, fileVars, TypeOK, ProcTypeOK
<1>22. CASE ResetHistory
    <2>1. /\ history' = history \ reset.gone /\ dirs' = dirs \ reset.gone /\ reset'.gone = {}
          /\ UNCHANGED <<manifest, torn, worker>>
        BY <1>22 DEF ResetHistory, NoReset
    <2>2. RowsTraced'
        BY <1>0, <2>1 DEF RowsTraced
    <2>3. RowsToCome'
        BY <1>0, <2>1 DEF RowsToCome, Unlisted
    <2> QED
        BY <2>2, <2>3
<1>23. CASE Crash
    <2>1. /\ dirs' = dirs /\ reset'.gone = {}
          /\ manifest' = manifest \/ \A t \in Tasks : manifest'[t] = NoConfig
          /\ history' = history \/ torn'
          /\ torn => torn'
        BY <1>23 DEF Crash, NoReset, TearHistory
    <2>2. RowsTraced'
        BY <1>0, <2>1 DEF RowsTraced
    <2>3. RowsToCome'
        BY <1>23 DEF Crash, RowsToCome, Unlisted, WorkerAlive, At
    <2> QED
        BY <2>2, <2>3
<1>24. CASE UNCHANGED vars
    BY <1>a, <1>24 DEF vars, statusVars, procVars, fileVars
<1> QED
    BY <1>1, <1>2, <1>3, <1>4, <1>5, <1>6, <1>7, <1>8, <1>9, <1>10, <1>11,
       <1>12, <1>13, <1>14, <1>15, <1>16, <1>17, <1>18, <1>19, <1>20,
       <1>21, <1>22, <1>23, <1>24
       DEF Next, DriverStep, WorkerStep, ResetStep
LEMMA ResetCarefulStep ==
    ASSUME Basis, AloneInv, Alone', [Next]_vars
    PROVE  ResetCareful'
<1>0. /\ TypeOK /\ OneOwner /\ RowsTraced /\ ResetCareful /\ RunAssumption
    BY RunAssumption DEF Basis, AloneInv
<1>m. /\ manifest \in [Tasks -> Configs \cup {NoConfig}]
      /\ reset \in [pc : ResetStates, recipe : Recipes, gone : SUBSET Configs]
    BY <1>0 DEF TypeOK, FileTypeOK, ProcTypeOK
<1>r. reset.pc = "manifest" => locked
    BY <1>0 DEF OneOwner, ResetHolds
<1>a. ASSUME dirs \subseteq dirs', UNCHANGED reset, UNCHANGED tasks \/ ~locked
      PROVE  ResetCareful'
    <2>1. CASE UNCHANGED tasks
        BY <1>0, <1>a, <2>1 DEF ResetCareful, Matching, Present
    <2>2. CASE ~locked
        BY <1>0, <1>r, <1>a, <2>2 DEF ResetCareful
    <2> QED
        BY <1>a, <2>1, <2>2
<1>1. ASSUME NEW d \in Drivers, Open(d) PROVE ResetCareful'
    BY <1>a, <1>1 DEF Open, Save, fileVars
<1>2. ASSUME NEW d \in Drivers, Resume(d) PROVE ResetCareful'
    BY <1>0, <1>a, <1>2, ResumePoint DEF fileVars
<1>3. ASSUME NEW d \in Drivers, Interrupt(d) PROVE ResetCareful'
    BY <1>a, <1>3 DEF Interrupt, statusVars, procVars, fileVars
<1>4. ASSUME NEW d \in Drivers, Opened(d) PROVE ResetCareful'
    BY <1>a, <1>4 DEF Opened, WriteText, fileVars
<1>5. ASSUME NEW d \in Drivers, PrepareFiles(d) PROVE ResetCareful'
    BY <1>a, <1>5 DEF PrepareFiles, statusVars, procVars, fileVars
<1>6. ASSUME NEW d \in Drivers, Finalize(d) PROVE ResetCareful'
    BY <1>a, <1>6 DEF Finalize, Save, fileVars
<1>7. ASSUME NEW d \in Drivers, Closed(d) PROVE ResetCareful'
    BY <1>a, <1>7 DEF Closed, WriteText, fileVars
<1>8. ASSUME NEW d \in Drivers, NEW t \in Tasks, Submit(d, t) PROVE ResetCareful'
    BY <1>a, <1>8 DEF Submit, statusVars, procVars, fileVars
<1>9. ASSUME NEW d \in Drivers, NEW t \in Tasks, MarkRunning(d, t) PROVE ResetCareful'
    BY <1>0, <1>a, <1>9, MarkRunningPoint DEF Updates, statusVars, fileVars
<1>10. ASSUME NEW d \in Drivers, NEW t \in Tasks, Marked(d, t) PROVE ResetCareful'
    BY <1>a, <1>10 DEF Marked, WriteText, fileVars
<1>11. ASSUME NEW d \in Drivers, NEW t \in Tasks, DrawConfig(d, t) PROVE ResetCareful'
    BY <1>a, <1>11 DEF DrawConfig, statusVars, procVars, fileVars
<1>12. ASSUME NEW d \in Drivers, NEW t \in Tasks, MakeDir(d, t) PROVE ResetCareful'
    BY <1>0, <1>a, <1>12, MakeDirPoint DEF statusVars
<1>13. ASSUME NEW d \in Drivers, NEW t \in Tasks, AppendHistory(d, t) PROVE ResetCareful'
    BY <1>a, <1>13 DEF AppendHistory, statusVars, procVars, fileVars
<1>14. ASSUME NEW d \in Drivers, NEW t \in Tasks, AppendManifest(d, t) PROVE ResetCareful'
    BY <1>a, <1>14 DEF AppendManifest, statusVars, procVars, fileVars
<1>15. ASSUME NEW d \in Drivers, NEW t \in Tasks, Simulate(d, t) PROVE ResetCareful'
    BY <1>a, <1>15 DEF Simulate, statusVars, procVars, fileVars
<1>16. ASSUME NEW d \in Drivers, NEW t \in Tasks, Fail(d, t) PROVE ResetCareful'
    BY <1>a, <1>16 DEF Fail, statusVars, procVars, fileVars
<1>17. ASSUME NEW d \in Drivers, NEW t \in Tasks, Record(d, t) PROVE ResetCareful'
    BY <1>0, <1>a, <1>17, RecordPoint DEF Updates, statusVars, fileVars
<1>18. ASSUME NEW d \in Drivers, NEW t \in Tasks, RecordedText(d, t) PROVE ResetCareful'
    BY <1>a, <1>18 DEF RecordedText, WriteText, fileVars
<1>19. ASSUME NEW r \in Recipes, ResetManifest(r) PROVE ResetCareful'
    <2>1. /\ reset' = [pc |-> "manifest", recipe |-> r, gone |-> RowConfigs(r)]
          /\ NoneRunning(r) /\ UNCHANGED <<tasks, dirs>>
        BY <1>19 DEF ResetManifest
    <2>2. RowConfigs(r) \subseteq dirs
        BY <1>0 DEF RowConfigs, RowsTraced, Ours
    <2> QED
        BY <2>1, <2>2 DEF ResetCareful, NoneRunning, Matching, Present
<1>20. CASE ResetState
    BY <1>0, <1>m, <1>20 DEF ResetState, ResetCareful, fileVars
<1>21. CASE ResetText
    BY <1>0, <1>m, <1>21 DEF ResetText, ResetCareful, fileVars
<1>22. CASE ResetHistory
    BY <1>22 DEF ResetHistory, NoReset, ResetCareful
<1>23. CASE Crash
    BY <1>23 DEF Crash, NoReset, ResetCareful
<1>24. CASE UNCHANGED vars
    BY <1>a, <1>24 DEF vars, statusVars, procVars, fileVars
<1> QED
    BY <1>1, <1>2, <1>3, <1>4, <1>5, <1>6, <1>7, <1>8, <1>9, <1>10, <1>11,
       <1>12, <1>13, <1>14, <1>15, <1>16, <1>17, <1>18, <1>19, <1>20,
       <1>21, <1>22, <1>23, <1>24
       DEF Next, DriverStep, WorkerStep, ResetStep

LEMMA CompletedTracedStep ==
    ASSUME Basis, AloneInv, Alone', [Next]_vars
    PROVE  CompletedTraced'
<1>0. /\ TypeOK /\ OneOwner /\ BlankWorkers /\ RowsTraced /\ RunAssumption
      /\ ActiveIsRunning /\ PendingUncompleted /\ RowOfWorker /\ CompletedTraced
      /\ \A d \in Drivers : ~Interrupt(d)
    BY AlonePoint, RunAssumption DEF Basis, AloneInv
<1>m. manifest \in [Tasks -> Configs \cup {NoConfig}] /\ Tasks \subseteq Ids
    BY <1>0 DEF TypeOK, FileTypeOK, Ids
<1>l. reset.pc # "idle" => locked
    BY <1>0 DEF OneOwner, ResetHolds
<1>a. ASSUME UNCHANGED <<tasks, manifest, torn, reset>> PROVE CompletedTraced'
    BY <1>0, <1>a DEF CompletedTraced, Ours
<1>1. ASSUME NEW d \in Drivers, Open(d) PROVE CompletedTraced'
    BY <1>m, <1>1 DEF Open, Save, NoEntry, CompletedTraced
<1>2. ASSUME NEW d \in Drivers, Resume(d) PROVE CompletedTraced'
    <2>1. UNCHANGED <<manifest, torn, reset>> /\ reset.pc = "idle"
        BY <1>0, <1>l, <1>2, ResumePoint DEF fileVars
    <2> SUFFICES ASSUME NEW k \in Tasks, tasks'[k].status = "completed"
                 PROVE  /\ tasks'[k].config # NoConfig
                        /\ manifest[k] \in {NoConfig, tasks'[k].config}
                        /\ ~torn => manifest[k] = tasks'[k].config
        BY <2>1 DEF CompletedTraced
    <2>2. PICK i \in Present : Canonical(i) = k /\ tasks'[k] = tasks[i]
        BY <1>0, <1>m, <1>2, ResumePoint DEF NoEntry
    <2>3. CASE tasks[i].config # NoConfig /\ Rows(tasks[i].config) # {}
        <3>1. k \in Rows(tasks[i].config)
            BY <2>2, <2>3 DEF Canonical
        <3> QED
            BY <2>2, <2>3, <3>1 DEF Rows
    <2>4. CASE ~(tasks[i].config # NoConfig /\ Rows(tasks[i].config) # {})
        <3>1. i = k
            BY <2>2, <2>4 DEF Canonical
        <3> QED
            BY <1>0, <2>1, <2>2, <3>1 DEF CompletedTraced
    <2> QED
        BY <2>3, <2>4
<1>3. ASSUME NEW d \in Drivers, Interrupt(d) PROVE CompletedTraced'
    BY <1>0, <1>3
<1>4. ASSUME NEW d \in Drivers, Opened(d) PROVE CompletedTraced'
    BY <1>a, <1>4 DEF Opened, WriteText, fileVars
<1>5. ASSUME NEW d \in Drivers, PrepareFiles(d) PROVE CompletedTraced'
    <2>1. CASE d \in resuming
        BY <1>a, <1>5, <2>1 DEF PrepareFiles, statusVars
    <2>2. CASE d \notin resuming
        <3>1. \A t \in Tasks : tasks[t].status # "completed"
            BY <1>0, <1>5, <2>2
               DEF PrepareFiles, BlankWorkers, PendingUncompleted, Pending, DriverAlive
        <3> QED
            BY <3>1, <1>5 DEF PrepareFiles, statusVars, CompletedTraced
    <2> QED
        BY <2>1, <2>2
<1>6. ASSUME NEW d \in Drivers, Finalize(d) PROVE CompletedTraced'
    BY <1>a, <1>6 DEF Finalize, Save, fileVars
<1>7. ASSUME NEW d \in Drivers, Closed(d) PROVE CompletedTraced'
    BY <1>a, <1>7 DEF Closed, WriteText, fileVars
<1>8. ASSUME NEW d \in Drivers, NEW t \in Tasks, Submit(d, t) PROVE CompletedTraced'
    BY <1>a, <1>8 DEF Submit, statusVars, procVars, fileVars
<1>9. ASSUME NEW d \in Drivers, NEW t \in Tasks, MarkRunning(d, t) PROVE CompletedTraced'
    <2>1. UNCHANGED <<manifest, torn, reset>>
        BY <1>0, <1>9, MarkRunningPoint DEF fileVars
    <2>2. \A u \in Tasks : tasks'[u] = tasks[u] \/ tasks'[u].status = "running"
        BY <1>0, <1>m, <1>9, MarkRunningPoint DEF Updates, statusVars
    <2> QED
        BY <1>0, <2>1, <2>2 DEF CompletedTraced, Ours
<1>10. ASSUME NEW d \in Drivers, NEW t \in Tasks, Marked(d, t) PROVE CompletedTraced'
    BY <1>a, <1>10 DEF Marked, WriteText, fileVars
<1>11. ASSUME NEW d \in Drivers, NEW t \in Tasks, DrawConfig(d, t) PROVE CompletedTraced'
    BY <1>a, <1>11 DEF DrawConfig, statusVars, procVars, fileVars
<1>12. ASSUME NEW d \in Drivers, NEW t \in Tasks, MakeDir(d, t) PROVE CompletedTraced'
    BY <1>a, <1>12 DEF MakeDir, statusVars, procVars, fileVars
<1>13. ASSUME NEW d \in Drivers, NEW t \in Tasks, AppendHistory(d, t) PROVE CompletedTraced'
    BY <1>a, <1>13 DEF AppendHistory, statusVars, procVars, fileVars
<1>14. ASSUME NEW d \in Drivers, NEW t \in Tasks, AppendManifest(d, t) PROVE CompletedTraced'
    <2>1. /\ tasks[t].status # "completed" /\ UNCHANGED <<tasks, torn, reset>>
          /\ \A u \in Tasks : u # t => manifest'[u] = manifest[u]
        BY <1>0, <1>m, <1>14 DEF AppendManifest, statusVars, PendingUncompleted, Pending, Active
    <2> QED
        BY <1>0, <2>1 DEF CompletedTraced, Ours
<1>15. ASSUME NEW d \in Drivers, NEW t \in Tasks, Simulate(d, t) PROVE CompletedTraced'
    BY <1>a, <1>15 DEF Simulate, statusVars, procVars, fileVars
<1>16. ASSUME NEW d \in Drivers, NEW t \in Tasks, Fail(d, t) PROVE CompletedTraced'
    BY <1>a, <1>16 DEF Fail, statusVars, procVars, fileVars
<1>17. ASSUME NEW d \in Drivers, NEW t \in Tasks, Record(d, t) PROVE CompletedTraced'
    <2>1. UNCHANGED <<manifest, torn, reset>>
        BY <1>0, <1>17, RecordPoint DEF fileVars
    <2>2. CASE Accepts
        <3>1. /\ worker[d][t].pc = "exited" /\ tasks'[t] = Recorded(d, t)
              /\ \A i \in Ids : i # t => tasks'[i] = tasks[i]
            BY <1>0, <1>17, <2>2, RecordPoint DEF Updates
        <3>2. tasks[t].status = "running"
            BY <1>0, <2>2, <3>1 DEF ActiveIsRunning, Active, Accepts
        <3>3. ASSUME worker[d][t].ok
              PROVE  manifest[t] = worker[d][t].config /\ worker[d][t].config # NoConfig
            BY <1>0, <3>1, <3>2, <3>3 DEF RowOfWorker, Listed
        <3>4. tasks'[t].status = "completed" =>
                  tasks'[t].config # NoConfig /\ manifest[t] = tasks'[t].config
            BY <1>0, <3>1, <3>3, RecordedPoint
        <3> QED
            BY <1>0, <1>m, <2>1, <3>1, <3>4 DEF CompletedTraced, Ours
    <2>3. CASE ~Accepts
        BY <1>0, <1>a, <1>17, <2>1, <2>3, RecordPoint DEF Updates, statusVars
    <2> QED
        BY <2>2, <2>3
<1>18. ASSUME NEW d \in Drivers, NEW t \in Tasks, RecordedText(d, t) PROVE CompletedTraced'
    BY <1>a, <1>18 DEF RecordedText, WriteText, fileVars
<1>19. ASSUME NEW r \in Recipes, ResetManifest(r) PROVE CompletedTraced'
    <2>1. /\ reset.pc = "idle" /\ reset'.pc = "manifest" /\ reset'.recipe = r /\ UNCHANGED <<tasks, torn>>
          /\ \A t \in Tasks : IF t \in Ours(r) THEN manifest'[t] = NoConfig ELSE manifest'[t] = manifest[t]
        BY <1>19 DEF ResetManifest
    <2> QED
        BY <1>0, <2>1 DEF CompletedTraced, Ours
<1>20. CASE ResetState
    <2>1. ASSUME NEW t \in Tasks, tasks'[t].status = "completed"
          PROVE  tasks'[t] = tasks[t] /\ t \notin Ours(reset.recipe)
        BY <1>m, <1>20, <2>1 DEF ResetState, NoEntry, Matching, Present
    <2>2. UNCHANGED <<manifest, torn>>
        BY <1>20 DEF ResetState, fileVars
    <2> QED
        BY <1>0, <2>1, <2>2 DEF CompletedTraced
<1>21. CASE ResetText
    <2>1. /\ UNCHANGED <<tasks, manifest, torn>> /\ reset.pc = "saved"
        BY <1>21 DEF ResetText, fileVars
    <2> QED
        BY <1>0, <2>1 DEF CompletedTraced
<1>22. CASE ResetHistory
    <2>1. /\ UNCHANGED <<tasks, manifest, torn>> /\ reset.pc = "history"
        BY <1>22 DEF ResetHistory
    <2> QED
        BY <1>0, <2>1 DEF CompletedTraced
<1>23. CASE Crash
    <2>1. /\ UNCHANGED tasks /\ reset'.pc = "idle"
          /\ torn' = (torn \/ reset.pc # "idle" \/ manifest' # manifest)
          /\ manifest' = manifest \/ \A t \in Tasks : manifest'[t] = NoConfig
        BY <1>23 DEF Crash, NoReset
    <2>2. ~torn' => ~torn /\ reset.pc = "idle" /\ manifest' = manifest
        BY <2>1
    <2> QED
        BY <1>0, <2>1, <2>2 DEF CompletedTraced
<1>24. CASE UNCHANGED vars
    BY <1>a, <1>24 DEF vars, statusVars, procVars, fileVars
<1> QED
    BY <1>1, <1>2, <1>3, <1>4, <1>5, <1>6, <1>7, <1>8, <1>9, <1>10, <1>11,
       <1>12, <1>13, <1>14, <1>15, <1>16, <1>17, <1>18, <1>19, <1>20,
       <1>21, <1>22, <1>23, <1>24
       DEF Next, DriverStep, WorkerStep, ResetStep


\* A finished result is dropped by reset-tasks alone.
LEMMA ResumeKeeps ==
    ASSUME TypeOK, CompletedTraced, reset.pc = "idle", RowsTraced, NEW d \in Drivers, Resume(d),
           NEW i \in Ids, tasks[i].status = "completed"
    PROVE  \E k \in Ids : tasks'[k].status = "completed" /\ tasks'[k].config = tasks[i].config
<1>1. PICK new \in [Ids -> {tasks[j] : j \in Ids} \cup {NoEntry}] :
        /\ \A k \in Ids :
              LET from == {j \in Present : Canonical(j) = k}
              IN  IF from = {} THEN new[k] = NoEntry
                  ELSE \E j \in from : \E l \in Kept(j) : new[k] = tasks[l]
        /\ tasks' = new
    BY DEF Resume, Save
<1>2. ASSUME NEW j \in Ids PROVE Canonical(j) \in Ids
    <2>1. CASE tasks[j].config # NoConfig /\ Rows(tasks[j].config) # {}
        <3>1. Canonical(j) \in Rows(tasks[j].config)
            BY <2>1 DEF Canonical
        <3> QED
            BY <3>1 DEF Rows, Ids
    <2>2. CASE ~(tasks[j].config # NoConfig /\ Rows(tasks[j].config) # {})
        BY <2>2 DEF Canonical
    <2> QED
        BY <2>1, <2>2
<1> DEFINE k == Canonical(i)
<1>3. k \in Ids /\ i \in {j \in Present : Canonical(j) = k}
    BY <1>2 DEF Present
<1>4. PICK j \in {j \in Present : Canonical(j) = k} : \E l \in Kept(j) : new[k] = tasks[l]
    BY <1>1, <1>3
<1>5. PICK l \in Kept(j) : new[k] = tasks[l]
    BY <1>4
<1>6. i \in {m \in Present : Canonical(m) = Canonical(j) /\ tasks[m].status = "completed"}
    BY <1>3, <1>4
<1>7. l \in Present /\ Canonical(l) = k /\ tasks[l].status = "completed"
    BY <1>4, <1>5, <1>6 DEF Kept
<1>8. tasks[l].config = tasks[i].config
    <2>1. ASSUME NEW m \in Ids, tasks[m].status = "completed", Canonical(m) = k, m # k
          PROVE  k \in Tasks /\ tasks[m].config = manifest[k] /\ manifest[k] # NoConfig
        <3>1. tasks[m].config # NoConfig /\ Rows(tasks[m].config) # {}
            BY <2>1 DEF Canonical
        <3>2. k \in Rows(tasks[m].config)
            BY <2>1, <3>1 DEF Canonical
        <3> QED
            BY <3>1, <3>2 DEF Rows
    <2>2. ASSUME k \in Tasks, tasks[k].status = "completed", manifest[k] # NoConfig
          PROVE  tasks[k].config = manifest[k]
        BY <2>2 DEF CompletedTraced
    <2>3. l \in Ids
        BY <1>7 DEF Present
    <2> QED
        BY <1>7, <2>1, <2>2, <2>3
<1> QED
    BY <1>1, <1>3, <1>5, <1>7, <1>8

LEMMA ResultsKeptStep ==
    ASSUME Basis, AloneInv, [Next]_vars
    PROVE  KeepStep
<1>0. /\ TypeOK /\ OneOwner /\ AbsentEmpty /\ PendingUncompleted /\ RowsTraced /\ CompletedTraced
    BY DEF Basis, AloneInv
<1>a. ASSUME \A i \in Ids : tasks[i].status = "completed" => tasks'[i] = tasks[i] PROVE KeepStep
    BY <1>a DEF KeepStep, Results
<1>1. ASSUME NEW d \in Drivers, Open(d) PROVE KeepStep
    BY <1>0, <1>a, <1>1 DEF Open, AbsentEmpty, NoEntry
<1>2. ASSUME NEW d \in Drivers, Resume(d) PROVE KeepStep
    <2>1. reset.pc = "idle"
        BY <1>0, <1>2, ResumePoint DEF OneOwner, ResetHolds
    <2> QED
        BY <1>0, <1>2, <2>1, ResumeKeeps DEF KeepStep, Results
<1>3. ASSUME NEW d \in Drivers, Interrupt(d) PROVE KeepStep
    BY <1>a, <1>3 DEF Interrupt, statusVars
<1>4. ASSUME NEW d \in Drivers, Opened(d) PROVE KeepStep
    BY <1>a, <1>4 DEF Opened, WriteText
<1>5. ASSUME NEW d \in Drivers, PrepareFiles(d) PROVE KeepStep
    BY <1>a, <1>5 DEF PrepareFiles, statusVars
<1>6. ASSUME NEW d \in Drivers, Finalize(d) PROVE KeepStep
    BY <1>a, <1>6 DEF Finalize, Save
<1>7. ASSUME NEW d \in Drivers, Closed(d) PROVE KeepStep
    BY <1>a, <1>7 DEF Closed, WriteText
<1>8. ASSUME NEW d \in Drivers, NEW t \in Tasks, Submit(d, t) PROVE KeepStep
    BY <1>a, <1>8 DEF Submit, statusVars
<1>9. ASSUME NEW d \in Drivers, NEW t \in Tasks, MarkRunning(d, t) PROVE KeepStep
    <2>1. tasks[t].status # "completed"
        BY <1>0, <1>9, MarkRunningPoint DEF PendingUncompleted, Pending, Active
    <2> QED
        BY <1>0, <1>a, <1>9, <2>1, MarkRunningPoint DEF Updates, statusVars
<1>10. ASSUME NEW d \in Drivers, NEW t \in Tasks, Marked(d, t) PROVE KeepStep
    BY <1>a, <1>10 DEF Marked, WriteText
<1>11. ASSUME NEW d \in Drivers, NEW t \in Tasks, DrawConfig(d, t) PROVE KeepStep
    BY <1>a, <1>11 DEF DrawConfig, statusVars
<1>12. ASSUME NEW d \in Drivers, NEW t \in Tasks, MakeDir(d, t) PROVE KeepStep
    BY <1>a, <1>12 DEF MakeDir, statusVars
<1>13. ASSUME NEW d \in Drivers, NEW t \in Tasks, AppendHistory(d, t) PROVE KeepStep
    BY <1>a, <1>13 DEF AppendHistory, statusVars
<1>14. ASSUME NEW d \in Drivers, NEW t \in Tasks, AppendManifest(d, t) PROVE KeepStep
    BY <1>a, <1>14 DEF AppendManifest, statusVars
<1>15. ASSUME NEW d \in Drivers, NEW t \in Tasks, Simulate(d, t) PROVE KeepStep
    BY <1>a, <1>15 DEF Simulate, statusVars
<1>16. ASSUME NEW d \in Drivers, NEW t \in Tasks, Fail(d, t) PROVE KeepStep
    BY <1>a, <1>16 DEF Fail, statusVars
<1>17. ASSUME NEW d \in Drivers, NEW t \in Tasks, Record(d, t) PROVE KeepStep
    <2>1. tasks[t].status # "completed"
        BY <1>0, <1>17, RecordPoint DEF PendingUncompleted, Pending, Active
    <2> QED
        BY <1>0, <1>a, <1>17, <2>1, RecordPoint DEF Updates, statusVars
<1>18. ASSUME NEW d \in Drivers, NEW t \in Tasks, RecordedText(d, t) PROVE KeepStep
    BY <1>a, <1>18 DEF RecordedText, WriteText
<1>19. ASSUME NEW r \in Recipes, ResetManifest(r) PROVE KeepStep
    BY <1>a, <1>19 DEF ResetManifest, statusVars
<1>20. CASE ResetState
    <2>1. ASSUME NEW i \in Ids, tasks[i].status = "completed"
          PROVE  tasks'[i] = tasks[i] \/ tasks[i].config \in Dropped
        BY <1>20, <2>1 DEF ResetState, Matching, Dropped, Ours
    <2> QED
        BY <2>1 DEF KeepStep, Results
<1>21. CASE ResetText
    BY <1>a, <1>21 DEF ResetText, statusVars
<1>22. CASE ResetHistory
    BY <1>a, <1>22 DEF ResetHistory, statusVars
<1>23. CASE Crash
    BY <1>a, <1>23 DEF Crash, statusVars
<1>24. CASE UNCHANGED vars
    BY <1>a, <1>24 DEF vars, statusVars
<1> QED
    BY <1>1, <1>2, <1>3, <1>4, <1>5, <1>6, <1>7, <1>8, <1>9, <1>10, <1>11,
       <1>12, <1>13, <1>14, <1>15, <1>16, <1>17, <1>18, <1>19, <1>20,
       <1>21, <1>22, <1>23, <1>24
       DEF Next, DriverStep, WorkerStep, ResetStep

LEMMA TracedGood == Basis /\ (Alone => AloneInv) => Traceable /\ ResetSparesRunning
<1> SUFFICES ASSUME Basis, Alone => AloneInv PROVE Traceable /\ ResetSparesRunning
    OBVIOUS
<1>1. Traceable
    BY DEF Traceable, AloneInv, CompletedTraced, RowsTraced
<1>2. ResetSparesRunning
    BY DEF ResetSparesRunning, AloneInv, RowOfWorker, Listed, RowsTraced
<1> QED
    BY <1>1, <1>2

-------------------------------------------------------------------------------
(* Theorems.                                                               *)

IInv ==
    /\ Basis
    /\ TextWritten /\ CompletedIsComplete
    /\ RunningHasWorker /\ OpenHasDriver
    /\ ConfigsOwned
    /\ Alone => AloneInv

LEMMA InitInv == Init => IInv
<1> SUFFICES ASSUME Init PROVE IInv
    OBVIOUS
<1>1. TypeOK
    BY TypeInit
<1>2. /\ WorkersHaveConfig /\ OneOwner /\ WorkersDriven /\ BlankWorkers /\ OneDriver
      /\ \A d \in Drivers, t \in Tasks : worker[d][t].pc = "idle" /\ driver[d] = "off"
      /\ reset.pc = "idle" /\ reset.gone = {}
    BY DEF Init, WorkersHaveConfig, OneOwner, DriverHolds, WorkerHolds,
           ResetHolds, At, NoReset, WorkersDriven, WorkerAlive, BlankWorkers,
           OneDriver, DriverAlive
<1>3. TextWritten /\ CompletedIsComplete
    BY DEF Init, NewRun, LegacyRun, TextWritten, StatusAgrees, NoReset,
           CompletedIsComplete
<1>4. ASSUME NewRun
      PROVE  /\ RunningKeepsOpen /\ AbsentBlank /\ AbsentEmpty
             /\ RunningHasWorker /\ OpenHasDriver /\ EntriesOwn
             /\ CompletedTraced /\ RowsTraced
    BY <1>2, <1>4 DEF NewRun, NoEntry, RunningKeepsOpen, AbsentBlank, AbsentEmpty,
           RunningHasWorker, OpenHasDriver, EntriesOwn, CompletedTraced, RowsTraced, Ids
<1>5. ASSUME LegacyRun
      PROVE  /\ RunningKeepsOpen /\ AbsentBlank /\ AbsentEmpty
             /\ RunningHasWorker /\ OpenHasDriver /\ EntriesOwn
             /\ CompletedTraced /\ RowsTraced
    <2>1. /\ tasks = OldRun /\ manifest = OldRows /\ st = "failed" /\ ~torn
          /\ history = {OldRows[t] : t \in Tasks} \ {NoConfig} /\ dirs = history
        BY <1>5 DEF Init, LegacyRun
    <2>2. RunningKeepsOpen /\ RunningHasWorker /\ OpenHasDriver /\ AbsentEmpty
        BY <2>1, OldRunAssumption DEF RunningKeepsOpen, RunningHasWorker, OpenHasDriver,
               AbsentEmpty
    <2>3. AbsentBlank
        BY <2>1, OldRunAssumption DEF AbsentBlank
    <2>4. EntriesOwn
        <3> SUFFICES ASSUME NEW i \in Ids, OldRun[i].config # NoConfig
                     PROVE  /\ OldRun[i].config \in dirs
                            /\ \A j \in Ids : OldRun[j].config = OldRun[i].config => i = j
            BY <2>1 DEF EntriesOwn
        <3>1. PICK t \in Tasks : OldRows[t] = OldRun[i].config
            BY OldRunAssumption
        <3> QED
            BY <2>1, <3>1, OldRunAssumption
    <2>5. CompletedTraced
        BY <1>2, <2>1, OldRunAssumption DEF CompletedTraced, Ids
    <2>6. RowsTraced
        BY <1>2, <2>1, OldRunAssumption DEF RowsTraced
    <2> QED
        BY <2>2, <2>3, <2>4, <2>5, <2>6
<1>6. /\ RunningKeepsOpen /\ AbsentBlank /\ AbsentEmpty
      /\ RunningHasWorker /\ OpenHasDriver /\ EntriesOwn
      /\ CompletedTraced /\ RowsTraced
    BY <1>4, <1>5 DEF Init
<1>7. ConfigsOwned
    BY <1>2, <1>6 DEF ConfigsOwned, ResetQuiet, WorkersOwn, Owns
<1>8. AloneInv
    BY <1>2, <1>6 DEF AloneInv, ActiveIsRunning, PendingUncompleted, Pending, Active,
           DriverAlive, RowOfWorker, Listed, RowsToCome, Unlisted, ResetCareful
<1> QED
    BY <1>1, <1>2, <1>3, <1>6, <1>7, <1>8 DEF IInv, Basis

LEMMA BasisStep == Basis /\ [Next]_vars => Basis'
    BY TypeStep, OneOwnerStep, WorkersHaveConfigStep, RunningKeepsOpenStep,
       WorkersDrivenStep, BlankWorkersStep, AbsentBlankStep, AbsentEmptyStep,
       OneDriverStep DEF Basis

LEMMA AloneStep ==
    ASSUME Basis, Alone => AloneInv, [Next]_vars
    PROVE  (Alone => AloneInv)'
<1> SUFFICES ASSUME Alone' PROVE AloneInv'
    OBVIOUS
<1>1. AloneInv
    BY AlonePoint DEF Basis
<1> QED
    BY <1>1, ActiveIsRunningStep, PendingUncompletedStep, RowOfWorkerStep,
       RowsTracedStep, ResetCarefulStep, CompletedTracedStep DEF AloneInv

\* The invariant that the theorems follow from: every conjunct is kept with
\* the help of the ones before it.
THEOREM Invariance == Spec => []IInv
<1>1. IInv /\ [Next]_vars => IInv'
    BY BasisStep, TextWrittenStep, CompletedStep, RunningHasWorkerStep,
       OpenHasDriverStep, ConfigsOwnedStep, AloneStep DEF IInv, Basis
<1> QED
    BY InitInv, <1>1, PTL DEF Spec

\* Every variable keeps its type.
THEOREM TypeCorrect == Spec => []TypeOK
<1>1. IInv => TypeOK
    BY DEF IInv, Basis
<1> QED
    BY Invariance, <1>1, PTL

\* A run that is reported completed has all its tasks completed and none
\* running, with any number of drivers and workers that update, resume,
\* reset and finalize it at the same time, and after any crash.
THEOREM CompletedCorrect == Spec => []CompletedIsComplete
<1>1. IInv => CompletedIsComplete
    BY DEF IInv, Basis
<1> QED
    BY Invariance, <1>1, PTL

\* No two commands of run_status.py are in their locked part together, and
\* the lock is never left behind.
THEOREM MutualExclusion == Spec => []OneOwner
<1>1. IInv => OneOwner
    BY DEF IInv, Basis
<1> QED
    BY Invariance, <1>1, PTL

\* Between commands the file status agrees with status.json, unless a crash
\* hit between the two writes.
THEOREM StatusFilesAgree == Spec => []StatusAgrees
<1>1. IInv => StatusAgrees
    BY DEF IInv, TextWritten, Basis
<1> QED
    BY Invariance, <1>1, PTL

\* Two tasks never have the same config id, recorded or in use, as long as
\* reset-tasks only runs while nothing else does.
THEOREM ConfigsCorrect == Spec => []ConfigsDistinct
<1>1. IInv => ConfigsDistinct
    BY OwnedDistinct DEF IInv, Basis
<1> QED
    BY Invariance, <1>1, PTL

\* A run whose processes have all ended, none by a crash or a signal, is
\* closed.
THEOREM QuietCorrect == Spec => []QuietIsClosed
<1>1. IInv => QuietIsClosed
    BY QuietClosed DEF IInv
<1> QED
    BY Invariance, <1>1, PTL

\* A completed task has its own row in the manifest, a history row and an
\* output directory, whatever crashed, was resumed or reset before.
THEOREM TraceCorrect == Spec => []Traceable
<1>1. IInv => Traceable
    BY TracedGood DEF IInv
<1> QED
    BY Invariance, <1>1, PTL

\* reset-tasks never takes the row or the directory of a running simulation.
THEOREM ResetCorrect == Spec => []ResetSparesRunning
<1>1. IInv => ResetSparesRunning
    BY TracedGood DEF IInv
<1> QED
    BY Invariance, <1>1, PTL

\* No step but that of reset-tasks loses a completed result.
THEOREM ResultsCorrect == Spec => ResultsKept
<1>1. IInv /\ [Next]_vars => [KeepStep]_vars
    <2>1. ASSUME IInv, [Next]_vars, Alone PROVE KeepStep
        BY <2>1, ResultsKeptStep DEF IInv
    <2> QED
        BY <2>1 DEF KeepStep
<1> QED
    BY Invariance, <1>1, PTL DEF Spec, ResultsKept

-------------------------------------------------------------------------------
(* The flow file.                                                          *)

TrafficTypeOK ==
    /\ file \in FileStates
    /\ lockFile \in Procs \cup {Nobody}
    /\ pc \in [Procs -> PcStates]
    /\ read \in [Procs -> FileStates \cup {"none"}]
    /\ troubles \in Nat

\* Who is between the lock and its removal made the lock file.
OwnerGenerates == \A p \in Procs : pc[p] \in Generating => lockFile = p

\* The one who goes to write has seen that the file is not there, and what is
\* being written is not complete.
WriterAlone ==
    \A p \in Procs : /\ pc[p] = "generate" => file = "absent"
                     /\ pc[p] = "writing" => file = "partial"

\* While nothing fails, the file is there when a process starts and once
\* the lock file that a waiting process met is gone.
FileFound ==
    troubles = 0 =>
        \A p \in Procs :
            /\ pc[p] \in {"start", "unlock"} => file # "absent"
            /\ pc[p] \in {"wait", "peek"} /\ lockFile = Nobody => file # "absent"

\* The inductive invariant.
TrafficInv == TrafficTypeOK /\ OwnerGenerates /\ WriterAlone /\ FileFound /\ WaitersServed
            /\ StartsWithFile

LEMMA TrafficInvInit == TrafficInit => TrafficInv
    BY TrafficFileAssumption
    DEF TrafficInit, TrafficInv, TrafficTypeOK, FileStates, PcStates, Generating, OwnerGenerates,
        WriterAlone, FileFound, WaitersServed, StartsWithFile

LEMMA TrafficTypeStep == TrafficTypeOK /\ [TrafficNext]_trafficVars => TrafficTypeOK'
<1> SUFFICES ASSUME TrafficTypeOK, [TrafficNext]_trafficVars PROVE TrafficTypeOK'
    OBVIOUS
<1> USE DEF TrafficTypeOK, FileStates, PcStates, Generating
<1>1. ASSUME NEW p \in Procs, Look(p) PROVE TrafficTypeOK'
    BY <1>1 DEF Look, To
<1>2. ASSUME NEW p \in Procs, TryLock(p) PROVE TrafficTypeOK'
    BY <1>2 DEF TryLock, To, LockFree
<1>3. ASSUME NEW p \in Procs, Check(p) PROVE TrafficTypeOK'
    BY <1>3 DEF Check, To
<1>4. ASSUME NEW p \in Procs, OpenFile(p) PROVE TrafficTypeOK'
    BY <1>4 DEF OpenFile, To, Trouble
<1>5. ASSUME NEW p \in Procs, CloseFile(p) PROVE TrafficTypeOK'
    BY <1>5 DEF CloseFile, To, Trouble
<1>6. ASSUME NEW p \in Procs, Unlock(p) PROVE TrafficTypeOK'
    BY <1>6 DEF Unlock, To
<1>7. ASSUME NEW p \in Procs, Wait(p) PROVE TrafficTypeOK'
    BY <1>7 DEF Wait, To
<1>8. ASSUME NEW p \in Procs, Peek(p) PROVE TrafficTypeOK'
    BY <1>8 DEF Peek, To
<1>9. ASSUME NEW p \in Procs, Start(p) PROVE TrafficTypeOK'
    BY <1>9 DEF Start, To
<1>10. ASSUME NEW p \in Procs, Kill(p) PROVE TrafficTypeOK'
    BY <1>10 DEF Kill, To, Trouble
<1>11. CASE UNCHANGED trafficVars
    BY <1>11 DEF trafficVars
<1> QED
    BY <1>1, <1>2, <1>3, <1>4, <1>5, <1>6, <1>7, <1>8, <1>9, <1>10, <1>11 DEF TrafficNext

LEMMA TrafficInvStep == TrafficInv /\ [TrafficNext]_trafficVars => TrafficInv'
<1> SUFFICES ASSUME TrafficInv, [TrafficNext]_trafficVars PROVE TrafficInv'
    OBVIOUS
<1> USE TrafficFileAssumption
<1>t. TrafficTypeOK'
    BY TrafficTypeStep DEF TrafficInv
<1>1. ASSUME NEW p \in Procs, Look(p) PROVE TrafficInv'
    <2>1. OwnerGenerates'
        BY <1>1 DEF TrafficInv, TrafficTypeOK, Generating, OwnerGenerates, Look, To, Exists
    <2>2. WriterAlone'
        BY <1>1 DEF TrafficInv, TrafficTypeOK, Generating, WriterAlone, OwnerGenerates, Look, To, Exists
    <2>3. FileFound'
        BY <1>1 DEF TrafficInv, TrafficTypeOK, Generating, FileFound, WriterAlone, WaitersServed, OwnerGenerates, Look, To, Exists
    <2>4. WaitersServed'
        BY <1>1 DEF TrafficInv, TrafficTypeOK, Generating, WaitersServed, OwnerGenerates, Look, To, Exists
    <2>5. StartsWithFile'
        BY <1>1 DEF TrafficInv, TrafficTypeOK, Generating, StartsWithFile, FileFound, Look, To, Exists
    <2> QED
        BY <1>t, <2>1, <2>2, <2>3, <2>4, <2>5 DEF TrafficInv
<1>2. ASSUME NEW p \in Procs, TryLock(p) PROVE TrafficInv'
    <2>1. OwnerGenerates'
        BY <1>2 DEF TrafficInv, TrafficTypeOK, Generating, OwnerGenerates, TryLock, To, LockFree
    <2>2. WriterAlone'
        BY <1>2 DEF TrafficInv, TrafficTypeOK, Generating, WriterAlone, OwnerGenerates, TryLock, To, LockFree
    <2>3. FileFound'
        BY <1>2 DEF TrafficInv, TrafficTypeOK, Generating, FileFound, WriterAlone, WaitersServed, OwnerGenerates, TryLock, To, LockFree
    <2>4. WaitersServed'
        BY <1>2 DEF TrafficInv, TrafficTypeOK, Generating, WaitersServed, OwnerGenerates, TryLock, To, LockFree
    <2>5. StartsWithFile'
        BY <1>2 DEF TrafficInv, TrafficTypeOK, Generating, StartsWithFile, FileFound, TryLock, To, LockFree
    <2> QED
        BY <1>t, <2>1, <2>2, <2>3, <2>4, <2>5 DEF TrafficInv
<1>3. ASSUME NEW p \in Procs, Check(p) PROVE TrafficInv'
    <2>1. OwnerGenerates'
        BY <1>3 DEF TrafficInv, TrafficTypeOK, Generating, OwnerGenerates, Check, To, Exists
    <2>2. WriterAlone'
        BY <1>3 DEF TrafficInv, TrafficTypeOK, Generating, WriterAlone, OwnerGenerates, Check, To, Exists
    <2>3. FileFound'
        BY <1>3 DEF TrafficInv, TrafficTypeOK, Generating, FileFound, WriterAlone, WaitersServed, OwnerGenerates, Check, To, Exists
    <2>4. WaitersServed'
        BY <1>3 DEF TrafficInv, TrafficTypeOK, Generating, WaitersServed, OwnerGenerates, Check, To, Exists
    <2>5. StartsWithFile'
        BY <1>3 DEF TrafficInv, TrafficTypeOK, Generating, StartsWithFile, FileFound, Check, To, Exists
    <2> QED
        BY <1>t, <2>1, <2>2, <2>3, <2>4, <2>5 DEF TrafficInv
<1>4. ASSUME NEW p \in Procs, OpenFile(p) PROVE TrafficInv'
    <2>1. OwnerGenerates'
        BY <1>4 DEF TrafficInv, TrafficTypeOK, Generating, OwnerGenerates, OpenFile, To, Trouble
    <2>2. WriterAlone'
        BY <1>4 DEF TrafficInv, TrafficTypeOK, Generating, WriterAlone, OwnerGenerates, OpenFile, To, Trouble
    <2>3. FileFound'
        BY <1>4 DEF TrafficInv, TrafficTypeOK, Generating, FileFound, WriterAlone, WaitersServed, OwnerGenerates, OpenFile, To, Trouble
    <2>4. WaitersServed'
        BY <1>4 DEF TrafficInv, TrafficTypeOK, Generating, WaitersServed, OwnerGenerates, OpenFile, To, Trouble
    <2>5. StartsWithFile'
        BY <1>4 DEF TrafficInv, TrafficTypeOK, Generating, StartsWithFile, FileFound, OpenFile, To, Trouble
    <2> QED
        BY <1>t, <2>1, <2>2, <2>3, <2>4, <2>5 DEF TrafficInv
<1>5. ASSUME NEW p \in Procs, CloseFile(p) PROVE TrafficInv'
    <2>1. OwnerGenerates'
        BY <1>5 DEF TrafficInv, TrafficTypeOK, Generating, OwnerGenerates, CloseFile, To, Trouble
    <2>2. WriterAlone'
        BY <1>5 DEF TrafficInv, TrafficTypeOK, Generating, WriterAlone, OwnerGenerates, CloseFile, To, Trouble
    <2>3. FileFound'
        BY <1>5 DEF TrafficInv, TrafficTypeOK, Generating, FileFound, WriterAlone, WaitersServed, OwnerGenerates, CloseFile, To, Trouble
    <2>4. WaitersServed'
        BY <1>5 DEF TrafficInv, TrafficTypeOK, Generating, WaitersServed, OwnerGenerates, CloseFile, To, Trouble
    <2>5. StartsWithFile'
        BY <1>5 DEF TrafficInv, TrafficTypeOK, Generating, StartsWithFile, FileFound, CloseFile, To, Trouble
    <2> QED
        BY <1>t, <2>1, <2>2, <2>3, <2>4, <2>5 DEF TrafficInv
<1>6. ASSUME NEW p \in Procs, Unlock(p) PROVE TrafficInv'
    <2>1. OwnerGenerates'
        BY <1>6 DEF TrafficInv, TrafficTypeOK, Generating, OwnerGenerates, Unlock, To
    <2>2. WriterAlone'
        BY <1>6 DEF TrafficInv, TrafficTypeOK, Generating, WriterAlone, OwnerGenerates, Unlock, To
    <2>3. FileFound'
        BY <1>6 DEF TrafficInv, TrafficTypeOK, Generating, FileFound, WriterAlone, WaitersServed, OwnerGenerates, Unlock, To
    <2>4. WaitersServed'
        BY <1>6 DEF TrafficInv, TrafficTypeOK, Generating, WaitersServed, OwnerGenerates, Unlock, To
    <2>5. StartsWithFile'
        BY <1>6 DEF TrafficInv, TrafficTypeOK, Generating, StartsWithFile, FileFound, Unlock, To
    <2> QED
        BY <1>t, <2>1, <2>2, <2>3, <2>4, <2>5 DEF TrafficInv
<1>7. ASSUME NEW p \in Procs, Wait(p) PROVE TrafficInv'
    <2>1. OwnerGenerates'
        BY <1>7 DEF TrafficInv, TrafficTypeOK, Generating, OwnerGenerates, Wait, To, Exists
    <2>2. WriterAlone'
        BY <1>7 DEF TrafficInv, TrafficTypeOK, Generating, WriterAlone, OwnerGenerates, Wait, To, Exists
    <2>3. FileFound'
        BY <1>7 DEF TrafficInv, TrafficTypeOK, Generating, FileFound, WriterAlone, WaitersServed, OwnerGenerates, Wait, To, Exists
    <2>4. WaitersServed'
        BY <1>7 DEF TrafficInv, TrafficTypeOK, Generating, WaitersServed, OwnerGenerates, Wait, To, Exists
    <2>5. StartsWithFile'
        BY <1>7 DEF TrafficInv, TrafficTypeOK, Generating, StartsWithFile, FileFound, Wait, To, Exists
    <2> QED
        BY <1>t, <2>1, <2>2, <2>3, <2>4, <2>5 DEF TrafficInv
<1>8. ASSUME NEW p \in Procs, Peek(p) PROVE TrafficInv'
    <2>1. OwnerGenerates'
        BY <1>8 DEF TrafficInv, TrafficTypeOK, Generating, OwnerGenerates, Peek, To
    <2>2. WriterAlone'
        BY <1>8 DEF TrafficInv, TrafficTypeOK, Generating, WriterAlone, OwnerGenerates, Peek, To
    <2>3. FileFound'
        BY <1>8 DEF TrafficInv, TrafficTypeOK, Generating, FileFound, WriterAlone, WaitersServed, OwnerGenerates, Peek, To
    <2>4. WaitersServed'
        BY <1>8 DEF TrafficInv, TrafficTypeOK, Generating, WaitersServed, OwnerGenerates, Peek, To
    <2>5. StartsWithFile'
        BY <1>8 DEF TrafficInv, TrafficTypeOK, Generating, StartsWithFile, FileFound, Peek, To
    <2> QED
        BY <1>t, <2>1, <2>2, <2>3, <2>4, <2>5 DEF TrafficInv
<1>9. ASSUME NEW p \in Procs, Start(p) PROVE TrafficInv'
    <2>1. OwnerGenerates'
        BY <1>9 DEF TrafficInv, TrafficTypeOK, Generating, OwnerGenerates, Start, To
    <2>2. WriterAlone'
        BY <1>9 DEF TrafficInv, TrafficTypeOK, Generating, WriterAlone, OwnerGenerates, Start, To
    <2>3. FileFound'
        BY <1>9 DEF TrafficInv, TrafficTypeOK, Generating, FileFound, WriterAlone, WaitersServed, OwnerGenerates, Start, To
    <2>4. WaitersServed'
        BY <1>9 DEF TrafficInv, TrafficTypeOK, Generating, WaitersServed, OwnerGenerates, Start, To
    <2>5. StartsWithFile'
        BY <1>9 DEF TrafficInv, TrafficTypeOK, Generating, StartsWithFile, FileFound, Start, To
    <2> QED
        BY <1>t, <2>1, <2>2, <2>3, <2>4, <2>5 DEF TrafficInv
<1>10. ASSUME NEW p \in Procs, Kill(p) PROVE TrafficInv'
    <2>1. OwnerGenerates'
        BY <1>10 DEF TrafficInv, TrafficTypeOK, Generating, OwnerGenerates, Kill, To, Trouble
    <2>2. WriterAlone'
        BY <1>10 DEF TrafficInv, TrafficTypeOK, Generating, WriterAlone, OwnerGenerates, Kill, To, Trouble
    <2>3. FileFound'
        BY <1>10 DEF TrafficInv, TrafficTypeOK, Generating, FileFound, WriterAlone, WaitersServed, OwnerGenerates, Kill, To, Trouble
    <2>4. WaitersServed'
        BY <1>10 DEF TrafficInv, TrafficTypeOK, Generating, WaitersServed, OwnerGenerates, Kill, To, Trouble
    <2>5. StartsWithFile'
        BY <1>10 DEF TrafficInv, TrafficTypeOK, Generating, StartsWithFile, FileFound, Kill, To, Trouble
    <2> QED
        BY <1>t, <2>1, <2>2, <2>3, <2>4, <2>5 DEF TrafficInv
<1>11. CASE UNCHANGED trafficVars
    BY <1>11 DEF trafficVars, TrafficInv, TrafficTypeOK, OwnerGenerates, WriterAlone, FileFound, WaitersServed, StartsWithFile
<1> QED
    BY <1>1, <1>2, <1>3, <1>4, <1>5, <1>6, <1>7, <1>8, <1>9, <1>10, <1>11 DEF TrafficNext

\* The inductive invariant holds in every reachable state.
THEOREM TrafficInvariance == TrafficSpec => []TrafficInv
<1>1. TrafficInit => TrafficInv
    BY TrafficInvInit
<1>2. TrafficInv /\ [TrafficNext]_trafficVars => TrafficInv'
    BY TrafficInvStep
<1> QED
    BY <1>1, <1>2, PTL DEF TrafficSpec

\* Two processes never generate the file at once, whoever is killed when.
THEOREM GenerationExclusive == TrafficSpec => []OneGenerator
<1>1. TrafficInv => OneGenerator
    BY DEF TrafficInv, OwnerGenerates, OneGenerator
<1> QED
    BY <1>1, TrafficInvariance, PTL

\* Whoever waits for the lock file waits for a process at work, while nothing
\* fails.
THEOREM NobodyWaitsInVain == TrafficSpec => []WaitersServed
<1>1. TrafficInv => WaitersServed
    BY DEF TrafficInv
<1> QED
    BY <1>1, TrafficInvariance, PTL

\* No simulation starts without the file, while nothing fails.
THEOREM FileIsThere == TrafficSpec => []StartsWithFile
<1>1. TrafficInv => StartsWithFile
    BY DEF TrafficInv
<1> QED
    BY <1>1, TrafficInvariance, PTL

\* A complete file is never written again: the second test under the lock is
\* enough, for any number of processes.
THEOREM CompleteKept == TrafficSpec => NeverRewritten
<1>1. TrafficInv /\ [TrafficNext]_trafficVars => KeepFileStep
    <2> SUFFICES ASSUME TrafficInv, [TrafficNext]_trafficVars PROVE KeepFileStep
        OBVIOUS
    <2>1. ASSUME NEW p \in Procs, OpenFile(p) PROVE KeepFileStep
        BY <2>1 DEF TrafficInv, WriterAlone, OpenFile, KeepFileStep
    <2>2. ASSUME NEW p \in Procs, CloseFile(p) PROVE KeepFileStep
        BY <2>2 DEF CloseFile, KeepFileStep
    <2>3. ASSUME UNCHANGED file PROVE KeepFileStep
        BY <2>3 DEF KeepFileStep
    <2> QED
        BY <2>1, <2>2, <2>3
        DEF TrafficNext, trafficVars, Look, TryLock, Check, Unlock, Wait, Peek, Start, Kill
<1>2. TrafficInv /\ [TrafficNext]_trafficVars => [KeepFileStep]_trafficVars
    BY <1>1
<1> QED
    BY <1>2, TrafficInvariance, PTL DEF TrafficSpec, NeverRewritten
===============================================================================
