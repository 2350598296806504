-------------------------- MODULE ModelImportProofs --------------------------
(***************************************************************************)
(* Proofs about ModelImport, for any number of imports, coordinator        *)
(* processes and faults: whose a row is while a task runs, how files       *)
(* follow rows, and that an outcome is final.                              *)
(***************************************************************************)
EXTENDS ModelImport, TLAPS

\* A task has a claim of its process, and a coordinator that waits for it.
ClaimInv(j) ==
    /\ jobs[j].claimedBy <= worker
    /\ Running(j) => IsActive(j) /\ jobs[j].claimedBy = worker /\ Alive

\* What a task remembers of the row: while it transfers, it has never seen an outcome; when it
\* ends, it has decided on one that its phase allows.
ReadInv(j) ==
    LET task == tasks[j]
    IN  /\ task.phase \in {"none", "load", "enter", "finalize"} => task.read = "none"
        /\ task.phase \in {"transfer", "validate", "moved"} =>
              task.read \in {"none"} \cup ActiveStatuses
        /\ task.phase = "failing" => task.read \in {"none", "failed", "canceled"}
        /\ task.phase = "canceling" => task.read \in {"none", "pending", "canceled"}

\* Where the files of a running import are.  Only a fault leaves them in the store without
\* their row.
PhaseInv(j) ==
    LET phase == tasks[j].phase
    IN  /\ phase \in {"load", "enter", "canceling"} => j \notin staging \cup store
        /\ phase \in {"transfer", "validate"} => j \notin store
        /\ phase \in {"moved", "finalize"} => j \in store \ staging
        /\ phase = "failing" => j \notin staging /\ (j \in store => faults > 0)

\* FilesFollowStatus of one import, and what holds before it was created.
FilesInv(j) ==
    /\ jobs[j].status = "ready" <=> j \in assets
    /\ j \in assets => j \in store
    /\ jobs[j].status \in {"none", "pending"} => j \notin staging \cup store
    /\ faults = 0 /\ IsTerminal(j) =>
          j \notin staging /\ (j \in store => jobs[j].status = "ready")

ImportInv(j) == ClaimInv(j) /\ ReadInv(j) /\ PhaseInv(j) /\ FilesInv(j)
IInv == TypeOK /\ \A j \in Imports : ImportInv(j)

-----------------------------------------------------------------------------
(***************************************************************************)
(* Steps about one import.                                                 *)
(***************************************************************************)
\* Nothing of import k changes but its event.
Untouched(k) ==
    /\ jobs'[k] = jobs[k] /\ tasks'[k].phase = tasks[k].phase /\ tasks'[k].read = tasks[k].read
    /\ k \in staging' <=> k \in staging
    /\ k \in store' <=> k \in store
    /\ k \in assets' <=> k \in assets

\* The process goes on, or waits for its tasks.
GoesOn == worker' = worker /\ (Alive => Alive') /\ (faults' = faults \/ faults' > 0)

\* An import that is not touched keeps its invariant while the process goes on.
LEMMA UntouchedKept ==
    ASSUME TypeOK, NEW k \in Imports, ImportInv(k), Untouched(k), GoesOn
    PROVE  ImportInv(k)'
  BY DEF Untouched, GoesOn, ImportInv, ClaimInv, ReadInv, PhaseInv, FilesInv, Running, IsActive,
     IsTerminal, TypeOK

\* A step about one import.
LEMMA OneImport ==
    ASSUME IInv, NEW j \in Imports, TypeOK', ImportInv(j)', GoesOn,
           \A k \in Imports \ {j} : Untouched(k)
    PROVE  IInv'
  BY UntouchedKept DEF IInv

\* A task that goes on has its type.
LEMMA BecomeType ==
    ASSUME TypeOK, NEW j \in Imports, NEW phase \in Phases, Become(j, phase)
    PROVE  /\ tasks' \in [Imports -> [phase : Phases, read : Statuses, event : BOOLEAN]]
           /\ tasks'[j].phase = phase /\ tasks'[j].read = "none" /\ tasks'[j].event = tasks[j].event
           /\ \A k \in Imports \ {j} : tasks'[k] = tasks[k]
  BY DEF Become, TypeOK, Statuses

\* What a task is before it starts and after it ended.
LEMMA NoTaskType == /\ NoTask \in [phase : Phases, read : Statuses, event : BOOLEAN]
                    /\ NoTask.phase = "none" /\ NoTask.read = "none" /\ NoTask.event = FALSE
  BY DEF NoTask, Phases, Statuses

\* What a row is before it is claimed.
LEMMA NewJobType == /\ NewJob \in Jobs /\ NewJob.status = "none" /\ NewJob.claimedBy = 0
                    /\ \A s \in Statuses : /\ [NewJob EXCEPT !.status = s] \in Jobs
                                           /\ [NewJob EXCEPT !.status = s].status = s
                                           /\ [NewJob EXCEPT !.status = s].claimedBy = 0
<1>1. 0 \in 0..MaxWorkers
  BY ImportAssumption
<1>2. NewJob \in Jobs /\ NewJob.status = "none" /\ NewJob.claimedBy = 0
  BY <1>1 DEF NewJob, Jobs, Statuses
<1>3. ASSUME NEW s \in Statuses
      PROVE  /\ [NewJob EXCEPT !.status = s] \in Jobs /\ [NewJob EXCEPT !.status = s].status = s
             /\ [NewJob EXCEPT !.status = s].claimedBy = 0
  BY <1>2 DEF Jobs
<1> QED
  BY <1>2, <1>3

-----------------------------------------------------------------------------
(***************************************************************************)
(* The API.                                                                *)
(***************************************************************************)
\* A cancellation leaves a running import active, and ends one whose directories are clean.
LEMMA ApiIInv ==
    ASSUME IInv, NEW j \in Imports, CreateImport(j) \/ CancelImport(j) \/ ClaimExpires(j)
    PROVE  IInv'
<1>1. PICK s \in Statuses, f \in BOOLEAN :
         /\ jobs'[j].status = s /\ jobs'[j].claimedBy = jobs[j].claimedBy
         /\ jobs' \in [Imports -> Jobs]
         /\ \A k \in Imports \ {j} : jobs'[k] = jobs[k]
         /\ \/ jobs[j].status = "none" /\ s = "pending"
            \/ jobs[j].status = "pending" /\ s = "canceled"
            \/ jobs[j].status \in ActiveStatuses /\ s \in {jobs[j].status, "canceling"}
  <2>1. CASE CreateImport(j)
    BY <2>1 DEF CreateImport, SetStatus, IInv, TypeOK, Jobs, Statuses
  <2>2. CASE CancelImport(j)
    BY <2>2 DEF CancelImport, AfterCancel, SetStatus, IInv, TypeOK, Jobs, Statuses, ActiveStatuses,
       TerminalStatuses
  <2>3. CASE ClaimExpires(j)
    BY <2>3 DEF ClaimExpires, IsActive, IInv, TypeOK, Jobs, Statuses, ActiveStatuses
  <2> QED
    BY <2>1, <2>2, <2>3
<1>2. UNCHANGED <<assets, files, worker, mode, tasks, faults>>
  BY DEF CreateImport, CancelImport, ClaimExpires
<1>3. TypeOK'
  BY <1>1, <1>2 DEF IInv, TypeOK, files
<1>4. ImportInv(j)'
  BY <1>1, <1>2 DEF IInv, ImportInv, ClaimInv, ReadInv, PhaseInv, FilesInv, Running, IsActive,
     IsTerminal, Alive, files, ActiveStatuses, TerminalStatuses
<1>5. GoesOn /\ \A k \in Imports \ {j} : Untouched(k)
  BY <1>1, <1>2 DEF GoesOn, Untouched, Alive, files
<1> QED
  BY <1>3, <1>4, <1>5, OneImport

-----------------------------------------------------------------------------
(***************************************************************************)
(* The task.                                                               *)
(***************************************************************************)
\* The task of import j is at this phase next, and has read this.
Advances(j, phase, read) ==
    /\ tasks' \in [Imports -> [phase : Phases, read : Statuses, event : BOOLEAN]]
    /\ tasks'[j].phase = phase /\ tasks'[j].read = read
    /\ \A k \in Imports \ {j} : tasks'[k].phase = tasks[k].phase /\ tasks'[k].read = tasks[k].read

\* The directories of other imports stay as they are.
OwnFiles(j) ==
    /\ staging' \in {staging, staging \cup {j}, staging \ {j}}
    /\ store' \in {store, store \cup {j}, store \ {j}}

\* A change of phase forgets what was read.
LEMMA BecomeAdvances ==
    ASSUME TypeOK, NEW j \in Imports, NEW phase \in Phases, Become(j, phase)
    PROVE  Advances(j, phase, "none")
  BY BecomeType DEF Advances

\* A step of the thread that changes no row leaves it active and claimed.
LEMMA ThreadStep ==
    ASSUME IInv, NEW j \in Imports, NEW phase \in Phases \ {"none"}, NEW read \in Statuses,
           Running(j), Advances(j, phase, read), OwnFiles(j), UNCHANGED <<database, worker, mode>>,
           faults' \in 0..MaxFaults, faults' = faults \/ faults' > 0,
           ReadInv(j)', PhaseInv(j)'
    PROVE  IInv'
<1>1. TypeOK'
  BY DEF IInv, TypeOK, Advances, OwnFiles, database
<1>2. ImportInv(j) /\ IsActive(j)
  BY DEF IInv, ImportInv, ClaimInv
<1>3. ImportInv(j)'
  <2>1. ClaimInv(j)'
    BY <1>2 DEF ImportInv, ClaimInv, Running, IsActive, Alive, Advances, database
  <2>2. jobs'[j].status \in ActiveStatuses /\ j \notin assets'
    BY <1>2 DEF ImportInv, FilesInv, IsActive, database, ActiveStatuses
  <2>3. FilesInv(j)'
    BY <2>2 DEF FilesInv, IsTerminal, ActiveStatuses, TerminalStatuses
  <2> QED
    BY <2>1, <2>3 DEF ImportInv
<1>4. GoesOn /\ \A k \in Imports \ {j} : Untouched(k)
  BY DEF GoesOn, Untouched, Alive, OwnFiles, Advances, database, IInv
<1> QED
  BY <1>1, <1>3, <1>4, OneImport

\* The thread begins with clean directories and cleans up its staging directory.
LEMMA TransferIInv ==
    ASSUME IInv, NEW j \in Imports, Enter(j) \/ StopTransfer(j) \/ FailTransfer(j) \/ Move(j) \/ TaskFault(j)
    PROVE  IInv'
<1>1. PICK phase \in {"transfer", "moved", "failing", "canceling"} : Become(j, phase)
  BY DEF Enter, StopTransfer, FailTransfer, Move, TaskFault
<1>2. Advances(j, phase, "none") /\ phase \in Phases \ {"none"} /\ "none" \in Statuses
  BY <1>1, BecomeAdvances DEF IInv, Phases, Statuses
<1>3. Running(j) /\ OwnFiles(j) /\ UNCHANGED <<database, worker, mode>>
  BY DEF Enter, StopTransfer, FailTransfer, Move, TaskFault, Running, OwnFiles
<1>4. faults' \in 0..MaxFaults /\ (faults' = faults \/ faults' > 0)
  BY ImportAssumption DEF Enter, StopTransfer, FailTransfer, Move, TaskFault, Fault, IInv, TypeOK
<1>5. ReadInv(j)'
  BY <1>1, <1>2 DEF ReadInv, Advances
<1>6. PhaseInv(j)'
  <2>1. ImportInv(j) /\ tasks'[j].phase = phase
    BY <1>2 DEF IInv, Advances
  <2>2. CASE Enter(j)
    BY <2>1, <2>2, <1>1 DEF Enter, ImportInv, PhaseInv, Become, IInv, TypeOK
  <2>3. CASE StopTransfer(j)
    BY <2>1, <2>3, <1>1 DEF StopTransfer, ImportInv, PhaseInv, Become, IInv, TypeOK
  <2>4. CASE FailTransfer(j)
    BY <2>1, <2>4, <1>1 DEF FailTransfer, ImportInv, PhaseInv, Become, IInv, TypeOK
  <2>5. CASE Move(j)
    BY <2>1, <2>5, <1>1 DEF Move, ImportInv, PhaseInv, Become, IInv, TypeOK
  <2>6. CASE TaskFault(j)
    BY <2>1, <2>6, <1>1 DEF TaskFault, ImportInv, PhaseInv, Become, IInv, TypeOK, Fault
  <2> QED
    BY <2>2, <2>3, <2>4, <2>5, <2>6
<1> QED
  BY <1>2, <1>3, <1>4, <1>5, <1>6, ThreadStep

\* The row is read while the import is active, so what was read is not an outcome; how the import
\* ends is decided by its phase.
LEMMA ReadIInv ==
    ASSUME IInv, NEW j \in Imports, Load(j) \/ ReadForProgress(j) \/ ReadForEnd(j) \/ Signal(j)
    PROVE  IInv'
<1>1. ImportInv(j) /\ tasks \in [Imports -> [phase : Phases, read : Statuses, event : BOOLEAN]]
      /\ jobs[j].status \in Statuses
  BY DEF IInv, TypeOK, Jobs
<1>2. UNCHANGED <<database, files, worker, mode, faults>> /\ Running(j)
  BY DEF Load, ReadForProgress, ReadForEnd, Signal, Running
<1>3. jobs[j].status \in ActiveStatuses
  BY <1>1, <1>2 DEF ImportInv, ClaimInv, IsActive
<1> USE DEF Phases, Statuses, ActiveStatuses, TerminalStatuses
<1>4. PICK phase \in Phases \ {"none"}, read \in Statuses :
         /\ Advances(j, phase, read)
         /\ \/ phase = tasks[j].phase /\ read = tasks[j].read
            \/ tasks[j].phase = "load" /\ phase = "enter" /\ read = "none"
            \/ /\ tasks[j].phase \in {"transfer", "validate", "moved"} /\ read = jobs[j].status
               /\ phase = tasks[j].phase \/ (tasks[j].phase = "transfer" /\ phase = "validate")
            \/ phase = tasks[j].phase /\ phase = "failing" /\ read \in {"failed", "canceled"}
            \/ phase = tasks[j].phase /\ phase = "canceling" /\ read \in {"pending", "canceled"}
  <2>1. CASE Load(j)
    <3>1. tasks[j].phase = "load" /\ tasks[j].read = "none" /\ (jobs[j].status = "canceling") \in BOOLEAN
      BY <1>1, <2>1 DEF Load, ImportInv, ReadInv
    <3>2. Advances(j, "enter", "none")
      BY <1>1, <2>1, <3>1 DEF Load, Advances
    <3> QED
      BY <3>1, <3>2
  <2>2. CASE ReadForProgress(j)
    <3>1. PICK phase \in {tasks[j].phase, "validate"} :
             /\ tasks' = [tasks EXCEPT ![j].phase = phase, ![j].read = jobs[j].status]
             /\ phase = tasks[j].phase \/ tasks[j].phase = "transfer"
             /\ tasks[j].phase \in {"transfer", "validate", "moved"}
      BY <2>2 DEF ReadForProgress
    <3>2. Advances(j, phase, jobs[j].status)
      BY <1>1, <3>1 DEF Advances
    <3> QED
      BY <1>1, <3>1, <3>2
  <2>3. CASE ReadForEnd(j)
    <3>1. tasks' = [tasks EXCEPT ![j].read = Ended(j)] /\ tasks[j].phase \in {"failing", "canceling"}
      BY <2>3 DEF ReadForEnd
    <3>2. /\ tasks[j].phase = "failing" => Ended(j) \in {"failed", "canceled"}
          /\ tasks[j].phase = "canceling" => Ended(j) \in {"pending", "canceled"}
      BY DEF Ended
    <3>3. Ended(j) \in Statuses
      BY <3>1, <3>2
    <3>4. Advances(j, tasks[j].phase, Ended(j))
      BY <1>1, <3>1, <3>3 DEF Advances
    <3> QED
      BY <1>1, <3>1, <3>2, <3>3, <3>4
  <2>4. CASE Signal(j)
    BY <1>1, <2>4 DEF Signal, Advances, Running
  <2> QED
    BY <2>1, <2>2, <2>3, <2>4
<1>5. ReadInv(j)'
  BY <1>1, <1>3, <1>4 DEF Advances, ImportInv, ReadInv
<1>6. PhaseInv(j)'
  BY <1>1, <1>2, <1>4 DEF Advances, ImportInv, PhaseInv, files
<1> QED
  BY <1>2, <1>4, <1>5, <1>6, ThreadStep DEF OwnFiles, files, IInv, TypeOK

\* What a task writes over its row: a status of its stage, or its outcome.
LEMMA RowStep ==
    ASSUME IInv, NEW j \in Imports, NEW row \in Jobs, jobs' = [jobs EXCEPT ![j] = row],
           tasks' \in [Imports -> [phase : Phases, read : Statuses, event : BOOLEAN]],
           \A k \in Imports \ {j} : tasks'[k].phase = tasks[k].phase /\ tasks'[k].read = tasks[k].read,
           assets' \in {assets, assets \cup {j}}, OwnFiles(j),
           UNCHANGED <<worker, mode>>, faults' \in 0..MaxFaults, faults' = faults \/ faults' > 0,
           ImportInv(j)'
    PROVE  IInv'
<1>1. TypeOK'
  BY DEF IInv, TypeOK, OwnFiles
<1>2. \A k \in Imports \ {j} : Untouched(k)
  BY DEF Untouched, OwnFiles, IInv, TypeOK
<1> QED
  BY <1>1, <1>2, OneImport DEF GoesOn, Alive

\* Progress keeps the row active and claimed, whatever it overwrites.
LEMMA ProgressIInv ==
    ASSUME IInv, NEW j \in Imports, WriteProgress(j)
    PROVE  IInv'
<1> USE DEF Phases, Statuses, ActiveStatuses, TerminalStatuses
<1>1. ImportInv(j) /\ Running(j) /\ IsActive(j) /\ jobs[j] \in Jobs
  BY DEF IInv, TypeOK, ImportInv, ClaimInv, WriteProgress, Running
<1>2. /\ Reported(j) \in Jobs /\ Reported(j).status \in ActiveStatuses
      /\ Reported(j).claimedBy = jobs[j].claimedBy
  BY <1>1 DEF Reported, Stage, Jobs, IsActive, ImportInv, ReadInv, WriteProgress
<1>3. PICK phase \in Phases \ {"none"} :
         /\ Become(j, phase) /\ jobs' = [jobs EXCEPT ![j] = Reported(j)]
         /\ UNCHANGED <<assets, files, worker, mode, faults>>
         /\ \/ phase = "finalize" /\ tasks[j].phase = "moved"
            \/ phase = tasks[j].phase /\ phase \in {"transfer", "validate"}
  BY DEF WriteProgress
<1>4. /\ tasks' \in [Imports -> [phase : Phases, read : Statuses, event : BOOLEAN]]
      /\ tasks'[j].phase = phase /\ tasks'[j].read = "none"
      /\ \A k \in Imports \ {j} : tasks'[k] = tasks[k]
  BY <1>3, BecomeType DEF IInv
<1>5. jobs'[j] = Reported(j)
  BY <1>3 DEF IInv, TypeOK
<1> HIDE DEF Reported
<1>6. ImportInv(j)'
  <2>1. ClaimInv(j)'
    BY <1>1, <1>2, <1>3, <1>5 DEF ImportInv, ClaimInv, Running, IsActive, Alive
  <2>2. ReadInv(j)'
    BY <1>3, <1>4 DEF ReadInv
  <2>3. PhaseInv(j)'
    BY <1>1, <1>3, <1>4 DEF ImportInv, PhaseInv, files
  <2>4. FilesInv(j)'
    BY <1>1, <1>2, <1>3, <1>5 DEF ImportInv, FilesInv, IsActive, IsTerminal
  <2> QED
    BY <2>1, <2>2, <2>3, <2>4 DEF ImportInv
<1> QED
  BY <1>2, <1>3, <1>4, <1>6, RowStep DEF OwnFiles, files, IInv, TypeOK

\* A task ends with its row: ready with its asset, or canceled, failed or pending as it decided.
LEMMA EndIInv ==
    ASSUME IInv, NEW j \in Imports, Finalize(j) \/ WriteEnd(j)
    PROVE  IInv'
<1> USE DEF Phases, Statuses, ActiveStatuses, TerminalStatuses
<1>1. ImportInv(j) /\ Running(j) /\ IsActive(j) /\ jobs[j] \in Jobs
  BY DEF IInv, TypeOK, ImportInv, ClaimInv, Finalize, WriteEnd, Running
<1>2. /\ tasks' = [tasks EXCEPT ![j] = NoTask] /\ UNCHANGED <<files, worker, mode, faults>>
  BY DEF Finalize, WriteEnd
<1>3. /\ tasks' \in [Imports -> [phase : Phases, read : Statuses, event : BOOLEAN]]
      /\ tasks'[j] = NoTask /\ \A k \in Imports \ {j} : tasks'[k] = tasks[k]
  BY <1>2, NoTaskType DEF IInv, TypeOK
<1>4. PICK row \in Jobs :
         /\ jobs' = [jobs EXCEPT ![j] = row] /\ row.claimedBy <= worker
         /\ \/ row.status = "ready" /\ tasks[j].phase = "finalize" /\ assets' = assets \cup {j}
            \/ /\ UNCHANGED assets /\ tasks[j].phase \in {"failing", "canceling"}
               /\ row.status \in {"failed", "canceled"}
            \/ UNCHANGED assets /\ tasks[j].phase = "canceling" /\ row.status = "pending"
  <2>1. CASE Finalize(j)
    <3>1. jobs' = [jobs EXCEPT ![j] = [jobs[j] EXCEPT !.status = "ready"]]
      BY <2>1, <1>1 DEF Finalize, SetStatus, IInv, TypeOK, Jobs
    <3>2. /\ [jobs[j] EXCEPT !.status = "ready"] \in Jobs
          /\ [jobs[j] EXCEPT !.status = "ready"].status = "ready"
          /\ [jobs[j] EXCEPT !.status = "ready"].claimedBy = jobs[j].claimedBy
      BY <1>1 DEF Jobs
    <3> QED
      BY <1>1, <2>1, <3>1, <3>2 DEF Finalize, ImportInv, ClaimInv
  <2>2. CASE WriteEnd(j) /\ tasks[j].read = "pending"
    <3>1. /\ jobs' = [jobs EXCEPT ![j] = [NewJob EXCEPT !.status = "pending"]]
          /\ tasks[j].phase = "canceling" /\ UNCHANGED assets
      BY <2>2, <1>1 DEF WriteEnd, ImportInv, ReadInv
    <3>2. 0 <= worker
      BY DEF IInv, TypeOK
    <3> QED
      BY <3>1, <3>2, NewJobType
  <2>3. CASE WriteEnd(j) /\ tasks[j].read # "pending"
    <3>1. /\ jobs' = [jobs EXCEPT ![j] = [jobs[j] EXCEPT !.status = tasks[j].read]]
          /\ tasks[j].phase \in {"failing", "canceling"} /\ UNCHANGED assets
      BY <2>3 DEF WriteEnd
    <3>2. tasks[j].read \in {"failed", "canceled"}
      BY <2>3, <1>1 DEF WriteEnd, ImportInv, ReadInv
    <3>3. /\ [jobs[j] EXCEPT !.status = tasks[j].read] \in Jobs
          /\ [jobs[j] EXCEPT !.status = tasks[j].read].status = tasks[j].read
          /\ [jobs[j] EXCEPT !.status = tasks[j].read].claimedBy = jobs[j].claimedBy
      BY <1>1, <3>2 DEF Jobs
    <3> QED
      BY <1>1, <3>1, <3>2, <3>3 DEF ImportInv, ClaimInv
  <2> QED
    BY <2>1, <2>2, <2>3
<1>5. jobs'[j] = row
  BY <1>4 DEF IInv, TypeOK
<1>6. ImportInv(j)'
  <2>1. ClaimInv(j)' /\ ReadInv(j)' /\ PhaseInv(j)'
    BY <1>2, <1>3, <1>4, <1>5, NoTaskType DEF ClaimInv, ReadInv, PhaseInv, Running
  <2>2. FilesInv(j)'
    BY <1>1, <1>2, <1>4, <1>5 DEF ImportInv, PhaseInv, FilesInv, IsActive, IsTerminal, files
  <2> QED
    BY <2>1, <2>2 DEF ImportInv
<1> QED
  BY <1>2, <1>3, <1>4, <1>6, RowStep DEF OwnFiles, files, IInv, TypeOK

-----------------------------------------------------------------------------
(***************************************************************************)
(* The coordinator's round.                                                *)
(***************************************************************************)
\* A heartbeat only makes claims recent.
LEMMA HeartbeatIInv ==
    ASSUME IInv, Heartbeat
    PROVE  IInv'
<1>1. /\ jobs' \in [Imports -> Jobs] /\ UNCHANGED <<assets, files, worker, mode, tasks, faults>>
      /\ \A j \in Imports : jobs'[j].status = jobs[j].status /\ jobs'[j].claimedBy = jobs[j].claimedBy
  BY DEF Heartbeat, IInv, TypeOK, Jobs
<1>2. TypeOK'
  BY <1>1 DEF IInv, TypeOK, files
<1>3. ASSUME NEW j \in Imports PROVE ImportInv(j)'
  BY <1>1 DEF IInv, ImportInv, ClaimInv, ReadInv, PhaseInv, FilesInv, Running, IsActive, IsTerminal,
     Alive, files
<1> QED
  BY <1>2, <1>3 DEF IInv

\* Recovery touches what belongs to no running task: it removes the files of an import that is
\* neither ready nor running, or has met a fault.
LEMMA RecoverIInv ==
    ASSUME IInv, NEW j \in Imports, Recover(j) \/ RecoverFails(j)
    PROVE  IInv'
<1> USE DEF Statuses, ActiveStatuses, TerminalStatuses
<1>1. ImportInv(j) /\ IsActive(j) /\ ~Running(j) /\ j \notin assets /\ jobs[j] \in Jobs
  BY DEF IInv, TypeOK, ImportInv, ClaimInv, FilesInv, Recover, RecoverFails, IsStale, IsActive
<1> DEFINE Becomes(row) ==
              /\ jobs' = [jobs EXCEPT ![j] = row] /\ row.claimedBy <= worker
              /\ \/ /\ row.status \in {"pending", "canceled"} /\ faults' = faults
                    /\ staging' = staging \ {j} /\ store' = store \ {j}
                 \/ row.status = "failed" /\ faults' > 0
<1>2. PICK row \in Jobs : Becomes(row)
  <2>1. CASE Recover(j)
    <3>1. PICK s \in {"pending", "canceled"} : jobs' = [jobs EXCEPT ![j] = [NewJob EXCEPT !.status = s]]
      BY <2>1 DEF Recover
    <3> DEFINE clean == [NewJob EXCEPT !.status = s]
    <3>2. clean \in Jobs /\ clean.status \in {"pending", "canceled"} /\ clean.claimedBy <= worker
      <4>1. 0 <= worker /\ s \in Statuses
        BY DEF IInv, TypeOK
      <4> QED
        BY <4>1, NewJobType
    <3>3. faults' = faults /\ staging' = staging \ {j} /\ store' = store \ {j}
      BY <2>1 DEF Recover, Leftovers
    <3>4. jobs' = [jobs EXCEPT ![j] = clean]
      BY <3>1
    <3> HIDE DEF clean
    <3>5. Becomes(clean)
      BY <3>2, <3>3, <3>4
    <3> QED
      BY <3>2, <3>5
  <2>2. CASE RecoverFails(j)
    <3> DEFINE failed == [jobs[j] EXCEPT !.status = "failed"]
    <3>1. jobs' = [jobs EXCEPT ![j] = failed]
      BY <1>1, <2>2 DEF RecoverFails, SetStatus, IInv, TypeOK, Jobs
    <3>2. failed \in Jobs /\ failed.status = "failed" /\ failed.claimedBy = jobs[j].claimedBy
      BY <1>1 DEF Jobs
    <3>3. faults' > 0 /\ jobs[j].claimedBy <= worker
      BY <1>1, <2>2 DEF RecoverFails, Fault, ImportInv, ClaimInv, IInv, TypeOK
    <3> HIDE DEF failed
    <3>4. Becomes(failed)
      BY <3>1, <3>2, <3>3
    <3> QED
      BY <3>2, <3>4
  <2> QED
    BY <2>1, <2>2
<1>3. /\ UNCHANGED <<assets, worker, mode, tasks>> /\ OwnFiles(j)
      /\ faults' \in 0..MaxFaults /\ (faults' = faults \/ faults' > 0)
  BY ImportAssumption DEF Recover, RecoverFails, Leftovers, OwnFiles, Fault, IInv, TypeOK
<1>4. jobs'[j] = row
  BY <1>2 DEF IInv, TypeOK
<1>5. ImportInv(j)'
  <2>1. ClaimInv(j)' /\ ReadInv(j)' /\ PhaseInv(j)'
    BY <1>1, <1>2, <1>3, <1>4 DEF ImportInv, ClaimInv, ReadInv, PhaseInv, Running
  <2>2. FilesInv(j)'
    BY <1>1, <1>2, <1>3, <1>4 DEF FilesInv, IsActive, IsTerminal, OwnFiles
  <2> QED
    BY <2>1, <2>2 DEF ImportInv
<1> QED
  BY <1>2, <1>3, <1>5, RowStep DEF IInv, TypeOK

\* A claimed import starts with clean directories.
LEMMA ClaimIInv ==
    ASSUME IInv, NEW j \in Imports, Claim(j)
    PROVE  IInv'
<1> USE DEF Statuses, ActiveStatuses, TerminalStatuses
<1> DEFINE row == [status |-> "transferring", claimedBy |-> worker, fresh |-> TRUE]
           task == [NoTask EXCEPT !.phase = "load"]
<1>1. row \in Jobs
  BY DEF Jobs, IInv, TypeOK
<1>2. /\ task \in [phase : Phases, read : Statuses, event : BOOLEAN]
      /\ task.phase = "load" /\ task.read = "none"
  BY NoTaskType DEF Phases
<1>3. /\ jobs' = [jobs EXCEPT ![j] = row] /\ tasks' = [tasks EXCEPT ![j] = task]
      /\ mode = "up" /\ jobs[j].status = "pending"
      /\ UNCHANGED <<assets, files, worker, mode, faults>>
  BY DEF Claim
<1> HIDE DEF task
<1>4. /\ tasks' \in [Imports -> [phase : Phases, read : Statuses, event : BOOLEAN]]
      /\ tasks'[j] = task /\ \A k \in Imports \ {j} : tasks'[k] = tasks[k]
      /\ jobs'[j] = row
  BY <1>2, <1>3 DEF IInv, TypeOK
<1>5. ImportInv(j)'
  <2>1. ImportInv(j) /\ worker \in Nat
    BY DEF IInv, TypeOK
  <2>2. ClaimInv(j)' /\ ReadInv(j)'
    BY <1>2, <1>3, <1>4, <2>1 DEF ClaimInv, ReadInv, Running, IsActive, Alive
  <2>3. PhaseInv(j)' /\ FilesInv(j)'
    BY <1>2, <1>3, <1>4, <2>1 DEF ImportInv, PhaseInv, FilesInv, IsTerminal, files
  <2> QED
    BY <2>2, <2>3 DEF ImportInv
<1> QED
  BY <1>1, <1>3, <1>4, <1>5, RowStep DEF OwnFiles, files, IInv, TypeOK

-----------------------------------------------------------------------------
(***************************************************************************)
(* The process.                                                            *)
(***************************************************************************)
\* A coordinator that stops sets the events of its tasks, and they go on.
LEMMA DrainedType ==
    ASSUME TypeOK
    PROVE  /\ Drained \in [Imports -> [phase : Phases, read : Statuses, event : BOOLEAN]]
           /\ \A j \in Imports : Drained[j].phase = tasks[j].phase /\ Drained[j].read = tasks[j].read
<1>1. ASSUME NEW j \in Imports
      PROVE  /\ Drained[j] \in [phase : Phases, read : Statuses, event : BOOLEAN]
             /\ Drained[j].phase = tasks[j].phase /\ Drained[j].read = tasks[j].read
  <2>1. Running(j) \in BOOLEAN
    BY DEF Running
  <2>2. Drained[j] = [tasks[j] EXCEPT !.event = Running(j)]
    BY DEF Drained
  <2> QED
    BY <2>1, <2>2 DEF TypeOK
<1> QED
  BY <1>1 DEF Drained

\* Tasks go on or are gone, and at most the leftovers of a stale import are removed.
LEMMA ProcessStep ==
    ASSUME IInv, UNCHANGED database,
           tasks' \in [Imports -> [phase : Phases, read : Statuses, event : BOOLEAN]],
           \A j \in Imports :
              \/ tasks'[j].phase = "none" /\ tasks'[j].read = "none"
              \/ tasks'[j].phase = tasks[j].phase /\ tasks'[j].read = tasks[j].read,
           worker' \in worker..MaxWorkers, mode' \in Modes,
           \A j \in Imports : Running(j)' => Alive' /\ worker' = worker,
           faults' \in 0..MaxFaults, faults' = faults \/ faults' > 0,
           UNCHANGED files \/ \E j \in Imports : /\ IsStale(j)
                                                 /\ staging' = staging \ {j} /\ store' = store \ {j}
    PROVE  IInv'
<1>1. TypeOK'
  BY DEF IInv, TypeOK, database, files
<1>2. ASSUME NEW j \in Imports PROVE ImportInv(j)'
  <2>1. /\ ImportInv(j) /\ jobs'[j] = jobs[j] /\ assets' = assets
        /\ worker \in Nat /\ worker' \in Nat /\ worker <= worker' /\ jobs[j].claimedBy \in Nat
    BY DEF IInv, TypeOK, database, Jobs
  <2>2. ClaimInv(j)' /\ ReadInv(j)'
    BY <2>1 DEF ImportInv, ClaimInv, ReadInv, Running, IsActive
  <2>3. CASE UNCHANGED files
    BY <2>1, <2>2, <2>3 DEF ImportInv, PhaseInv, FilesInv, files, IsTerminal
  <2>4. CASE \E k \in Imports : IsStale(k) /\ staging' = staging \ {k} /\ store' = store \ {k}
    <3>1. PICK k \in Imports : IsStale(k) /\ staging' = staging \ {k} /\ store' = store \ {k}
      BY <2>4
    <3>2. CASE k = j
      <4>1. tasks[j].phase = "none" /\ tasks'[j].phase = "none" /\ j \notin assets
            /\ jobs[j].status \in ActiveStatuses
        BY <2>1, <3>1, <3>2 DEF IsStale, IsActive, Running, ImportInv, ClaimInv, FilesInv, ActiveStatuses
      <4>2. PhaseInv(j)' /\ FilesInv(j)'
        BY <2>1, <3>1, <3>2, <4>1 DEF PhaseInv, FilesInv, IsTerminal, ActiveStatuses, TerminalStatuses
      <4> QED
        BY <2>2, <4>2 DEF ImportInv
    <3>3. CASE k # j
      BY <2>1, <2>2, <3>1, <3>3 DEF ImportInv, PhaseInv, FilesInv, IsTerminal
    <3> QED
      BY <3>2, <3>3
  <2> QED
    BY <2>3, <2>4
<1> QED
  BY <1>1, <1>2 DEF IInv

\* A coordinator starts, stops, fails, dies, or loses a task that could not write its end.
LEMMA ProcessIInv ==
    ASSUME IInv,
           Start \/ ShutDown \/ Exit \/ Crash \/ RoundFails \/ \E j \in Imports : EndFault(j)
    PROVE  IInv'
<1>1. UNCHANGED database
  BY DEF Start, ShutDown, Exit, Crash, RoundFails, EndFault
<1>2. \A j \in Imports : Running(j) => Alive
  BY DEF IInv, ImportInv, ClaimInv
<1>3. worker \in 0..MaxWorkers /\ mode \in Modes /\ TypeOK
  BY DEF IInv, TypeOK
<1>4. worker' \in worker..MaxWorkers /\ mode' \in Modes
  BY <1>3, ImportAssumption DEF Start, ShutDown, Exit, Crash, RoundFails, EndFault, Modes
<1>5. faults' \in 0..MaxFaults /\ (faults' = faults \/ faults' > 0)
  BY <1>3, ImportAssumption DEF Start, ShutDown, Exit, Crash, RoundFails, EndFault, Fault, TypeOK
<1>6. UNCHANGED files \/ \E j \in Imports : /\ IsStale(j)
                                           /\ staging' = staging \ {j} /\ store' = store \ {j}
  BY DEF Start, ShutDown, Exit, Crash, RoundFails, EndFault, Leftovers
<1>7. /\ tasks' \in [Imports -> [phase : Phases, read : Statuses, event : BOOLEAN]]
      /\ \A j \in Imports :
            \/ tasks'[j].phase = "none" /\ tasks'[j].read = "none"
            \/ tasks'[j].phase = tasks[j].phase /\ tasks'[j].read = tasks[j].read
  <2>1. CASE Start \/ Exit
    BY <2>1, <1>3 DEF Start, Exit, TypeOK
  <2>2. CASE ShutDown \/ RoundFails
    BY <2>2, <1>3, DrainedType DEF ShutDown, RoundFails
  <2>3. CASE Crash
    BY <2>3, NoTaskType DEF Crash
  <2>4. CASE \E j \in Imports : EndFault(j)
    <3>1. PICK j \in Imports : EndFault(j)
      BY <2>4
    <3>2. PICK ts \in {tasks, Drained} : tasks' = [ts EXCEPT ![j] = NoTask]
      BY <3>1 DEF EndFault
    <3>3. /\ ts \in [Imports -> [phase : Phases, read : Statuses, event : BOOLEAN]]
          /\ \A k \in Imports : ts[k].phase = tasks[k].phase /\ ts[k].read = tasks[k].read
      BY <1>3, DrainedType DEF TypeOK
    <3>4. \A k \in Imports : tasks'[k] = IF k = j THEN NoTask ELSE ts[k]
      BY <3>2, <3>3
    <3> QED
      BY <3>2, <3>3, <3>4, NoTaskType
  <2> QED
    BY <2>1, <2>2, <2>3, <2>4
<1>8. \A j \in Imports : Running(j)' => Running(j)
  BY <1>7 DEF Running
<1>9. \A j \in Imports : Running(j)' => Alive' /\ worker' = worker
  <2>1. CASE Start
    BY <2>1, <1>2, <1>8 DEF Start, Alive
  <2>2. CASE Exit
    BY <2>2, <1>8 DEF Exit
  <2>3. CASE Crash
    BY <2>3, NoTaskType DEF Crash, Running
  <2>4. CASE ShutDown \/ RoundFails \/ \E j \in Imports : EndFault(j)
    BY <2>4, <1>2, <1>8 DEF ShutDown, RoundFails, EndFault, Alive
  <2> QED
    BY <2>1, <2>2, <2>3, <2>4
<1> QED
  BY <1>1, <1>4, <1>5, <1>6, <1>7, <1>9, ProcessStep

-----------------------------------------------------------------------------
(***************************************************************************)
(* The invariant, and what follows from it.                                *)
(***************************************************************************)
\* Before the first coordinator there is nothing.
LEMMA InitIInv == Init => IInv
<1> SUFFICES ASSUME Init PROVE IInv
  OBVIOUS
<1>1. 0 \in 0..MaxWorkers /\ 0 \in 0..MaxFaults
  BY ImportAssumption
<1>2. TypeOK
  BY <1>1, NewJobType, NoTaskType DEF Init, TypeOK, Modes
<1>3. ASSUME NEW j \in Imports PROVE ImportInv(j)
  <2>1. jobs[j] = NewJob /\ tasks[j] = NoTask
    BY DEF Init
  <2> QED
    BY <2>1, NewJobType, NoTaskType DEF Init, ImportInv, ClaimInv, ReadInv, PhaseInv, FilesInv,
       Running, IsTerminal, TerminalStatuses
<1> QED
  BY <1>2, <1>3 DEF IInv

\* Every step of the API, of a task, of the coordinator and of the process keeps the invariant.
LEMMA NextIInv == IInv /\ [Next]_vars => IInv'
<1> SUFFICES ASSUME IInv, [Next]_vars PROVE IInv'
  OBVIOUS
<1>1. CASE UNCHANGED vars
  BY <1>1 DEF vars, database, files, IInv, TypeOK, ImportInv, ClaimInv, ReadInv, PhaseInv, FilesInv,
     Running, IsActive, IsTerminal, Alive
<1>2. CASE Round
  BY <1>2, HeartbeatIInv, ProcessIInv, RecoverIInv, ClaimIInv, ReadIInv DEF Round
<1>3. ASSUME NEW j \in Imports, Task(j) PROVE IInv'
  BY <1>3, ReadIInv, TransferIInv, ProgressIInv, EndIInv DEF Task
<1> QED
  BY <1>1, <1>2, <1>3, TransferIInv, ProcessIInv, ApiIInv DEF Next

\* The inductive invariant of imports: what a row, its task and its files know of each other.
THEOREM CoordinatorInvariant == Spec => []IInv
  BY InitIInv, NextIInv, PTL DEF Spec

\* Types, for any number of imports, processes and faults.
THEOREM ImportTypes == Spec => []TypeOK
<1>1. IInv => TypeOK
  BY DEF IInv
<1> QED
  BY <1>1, CoordinatorInvariant, PTL

\* The row of a running task is active and claimed by its process, through crashes, recovery,
\* cancellations and retries.
THEOREM ClaimsAreKept == Spec => []TaskOwnsClaim
<1>1. IInv => TaskOwnsClaim
  BY DEF IInv, ImportInv, ClaimInv, TaskOwnsClaim
<1> QED
  BY <1>1, CoordinatorInvariant, PTL

\* Files follow the rows: a ready import has its asset and its files, a queued one starts clean,
\* and without a fault one that ended otherwise has left nothing.
THEOREM FilesAreOwned == Spec => []FilesFollowStatus
<1>1. IInv => FilesFollowStatus
  BY DEF IInv, ImportInv, FilesInv, FilesFollowStatus
<1> QED
  BY <1>1, CoordinatorInvariant, PTL

\* The outcome of an import is final: whoever writes a row without a lock has it claimed, and a
\* claimed row is active.
THEOREM OutcomesAreFinal == Spec => OutcomeIsFinal
<1>1. IInv /\ [Next]_vars => [\A j \in Imports : IsTerminal(j) => jobs'[j].status = jobs[j].status]_vars
  <2> SUFFICES ASSUME IInv, [Next]_vars, NEW j \in Imports, IsTerminal(j)
               PROVE  jobs'[j].status = jobs[j].status
    OBVIOUS
  <2>1. /\ ~Running(j) /\ ~IsActive(j) /\ jobs \in [Imports -> Jobs]
        /\ jobs[j].status \in TerminalStatuses
    BY DEF IInv, ImportInv, ClaimInv, TypeOK, IsActive, IsTerminal, ActiveStatuses, TerminalStatuses
  <2>2. ASSUME NEW k \in Imports, NEW row, jobs' = [jobs EXCEPT ![k] = row], k = j => row.status = jobs[j].status
        PROVE  jobs'[j].status = jobs[j].status
    BY <2>1, <2>2
  <2>3. CASE jobs' = jobs
    BY <2>3
  <2>4. CASE Heartbeat
    BY <2>1, <2>4 DEF Heartbeat
  <2>5. ASSUME NEW k \in Imports, Recover(k) \/ RecoverFails(k) \/ ClaimExpires(k) PROVE k # j
    BY <2>1, <2>5 DEF Recover, RecoverFails, IsStale, ClaimExpires
  <2>6. ASSUME NEW k \in Imports, Claim(k) \/ CreateImport(k) \/ CancelImport(k) PROVE k # j
    BY <2>1, <2>6 DEF Claim, CreateImport, CancelImport, AfterCancel, TerminalStatuses
  <2>7. ASSUME NEW k \in Imports, WriteProgress(k) \/ Finalize(k) \/ WriteEnd(k) PROVE k # j
    BY <2>1, <2>7 DEF WriteProgress, Finalize, WriteEnd, Running
  <2> QED
    BY <2>2, <2>3, <2>4, <2>5, <2>6, <2>7 DEF Next, Round, Task, vars, database, Recover,
       RecoverFails, ClaimExpires, Claim, CreateImport, CancelImport, WriteProgress, Finalize,
       WriteEnd, SetStatus, Start, ShutDown, Exit, Crash, RoundFails, EndFault, TaskFault, Load,
       Enter, ReadForProgress, StopTransfer, FailTransfer, Move, ReadForEnd, Signal
<1> QED
  BY <1>1, CoordinatorInvariant, PTL DEF Spec, OutcomeIsFinal
=============================================================================
