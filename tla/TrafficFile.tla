----------------------------- MODULE TrafficFile -----------------------------
(***************************************************************************)
(* The flow file that simulations of one load share (run.py, main): the    *)
(* first process that misses it generates it under a lock file, the others *)
(* wait until it is there.  traffic_gen.py writes the file in place, so it *)
(* is there from the moment it is opened.                                  *)
(***************************************************************************)
EXTENDS Naturals

CONSTANTS
    Procs,        \* processes of run.py that need the file
    Nobody,       \* no process
    MaxFailures   \* bound: killed processes and failed generations

ASSUME TrafficFileAssumption == Nobody \notin Procs /\ MaxFailures \in Nat

VARIABLES
    file,       \* the flow file
    lockFile,   \* who made the file .lock; the code sees that it is there
    pc,         \* where each process stands
    read,       \* the flow file as its simulation found it
    troubles    \* bounded

trafficVars == <<file, lockFile, pc, read, troubles>>

FileStates == {"absent", "partial", "complete"}
Generating == {"check", "generate", "writing", "unlock"}
PcStates == {"look", "lock", "wait", "peek", "start", "ended", "killed"} \cup Generating

TrafficInit ==
    /\ file = "absent" /\ lockFile = Nobody
    /\ pc = [p \in Procs |-> "look"]
    /\ read = [p \in Procs |-> "none"]
    /\ troubles = 0

To(p, step) == pc' = [pc EXCEPT ![p] = step]
Trouble == troubles < MaxFailures /\ troubles' = troubles + 1

\* os.path.exists: a file that is being written exists.
Exists == file # "absent"

Look(p) ==
    /\ pc[p] = "look"
    /\ To(p, IF Exists THEN "start" ELSE "lock")
    /\ UNCHANGED <<file, lockFile, read, troubles>>

LockFree == lockFile = Nobody

\* os.open with O_CREAT and O_EXCL.
TryLock(p) ==
    /\ pc[p] = "lock"
    /\ IF LockFree THEN lockFile' = p /\ To(p, "check")
       ELSE To(p, "wait") /\ UNCHANGED lockFile
    /\ UNCHANGED <<file, read, troubles>>

\* Mutant: the lock alone decides.
Check_Lock(p) ==
    /\ pc[p] = "check"
    /\ To(p, "generate")
    /\ UNCHANGED <<file, lockFile, read, troubles>>

\* "check again if file exists".
Check(p) ==
    /\ pc[p] = "check"
    /\ To(p, IF Exists THEN "unlock" ELSE "generate")
    /\ UNCHANGED <<file, lockFile, read, troubles>>

\* Mutant: the generator is started in the background.
OpenFile_Detached(p) ==
    /\ pc[p] = "generate"
    /\ To(p, "unlock")
    /\ UNCHANGED <<file, lockFile, read, troubles>>

\* traffic_gen.py opens the file for writing; refused options end it before.
\* run.py ignores how it ends.
OpenFile(p) ==
    /\ pc[p] = "generate"
    /\ \/ file' = "partial" /\ To(p, "writing") /\ UNCHANGED troubles
       \/ Trouble /\ To(p, "unlock") /\ UNCHANGED file
    /\ UNCHANGED <<lockFile, read>>

\* Its last write and the close; or it dies.
CloseFile(p) ==
    /\ pc[p] = "writing"
    /\ \/ file' = "complete" /\ UNCHANGED troubles
       \/ Trouble /\ UNCHANGED file
    /\ To(p, "unlock")
    /\ UNCHANGED <<lockFile, read>>

Unlock(p) ==
    /\ pc[p] = "unlock"
    /\ lockFile' = Nobody
    /\ To(p, "start")
    /\ UNCHANGED <<file, read, troubles>>

\* The loop of the others looks at the file, then at the lock file.
Wait(p) ==
    /\ pc[p] = "wait"
    /\ To(p, IF Exists THEN "start" ELSE "peek")
    /\ UNCHANGED <<file, lockFile, read, troubles>>

Peek(p) ==
    /\ pc[p] = "peek"
    /\ To(p, IF lockFile = Nobody THEN "start" ELSE "wait")
    /\ UNCHANGED <<file, lockFile, read, troubles>>

\* The simulator opens the file.
Start(p) ==
    /\ pc[p] = "start"
    /\ read' = [read EXCEPT ![p] = file]
    /\ To(p, "ended")
    /\ UNCHANGED <<file, lockFile, troubles>>

\* A process is killed, its generator with it; the lock file stays.
Kill(p) ==
    /\ pc[p] \notin {"ended", "killed"} /\ Trouble
    /\ To(p, "killed")
    /\ UNCHANGED <<file, lockFile, read>>

TrafficNext ==
    \E p \in Procs :
        \/ Look(p) \/ TryLock(p) \/ Check(p) \/ OpenFile(p) \/ CloseFile(p)
        \/ Unlock(p) \/ Wait(p) \/ Peek(p) \/ Start(p) \/ Kill(p)

TrafficSpec == TrafficInit /\ [][TrafficNext]_trafficVars

-------------------------------------------------------------------------------
(* Properties.                                                             *)

\* Two processes never generate the file at once, also after one was killed
\* and left its lock file.
OneGenerator ==
    \A p, q \in Procs : pc[p] \in Generating /\ pc[q] \in Generating => p = q

\* A complete file is not written again: a simulation that has begun keeps
\* its input ("double-check locking pattern").
KeepFileStep == file = "complete" => file' = "complete"
NeverRewritten == [][KeepFileStep]_trafficVars

\* While nothing fails, whoever waits for the lock file waits for a process
\* that is still at work.
WaitersServed ==
    troubles = 0 /\ lockFile # Nobody => pc[lockFile] \in Generating

\* While nothing fails, no simulation starts without the file, although the
\* waiting loop looks at the file and at the lock file one after the other.
StartsWithFile == troubles = 0 => \A p \in Procs : read[p] # "absent"

\* "with file locking for concurrent safety" (run.py): while nothing fails,
\* every simulation starts with the whole file.
StartsWithWholeFile ==
    troubles = 0 => \A p \in Procs : read[p] \in {"none", "complete"}
==============================================================================
