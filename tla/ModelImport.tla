---------------------------- MODULE ModelImport ----------------------------
(***************************************************************************)
(* The model import coordinator.                                           *)
(*                                                                         *)
(* One coordinator, guarded by an advisory lock, claims pending imports in *)
(* the order of their creation.  For each it runs a task on the event loop *)
(* and an importer thread that fills a staging directory, validates it and *)
(* renames it into the store; a transaction then creates the asset.  The   *)
(* API cancels by changing the status; the coordinator sees that when it   *)
(* polls and sets the event the thread checks.  Progress, failures and     *)
(* cancellations are written over a row that was read without a lock.  The *)
(* process may crash, and be started again, at any point.                  *)
(***************************************************************************)
EXTENDS Naturals, FiniteSets

CONSTANTS Imports,     \* the import jobs, numbered in the order of their creation
          Concurrency, \* imports a coordinator runs at once
          MaxWorkers,  \* bound: processes that ever run a coordinator
          MaxFaults    \* bound: failed database calls and failed removals

ASSUME ImportAssumption ==
    /\ Imports \subseteq Nat /\ IsFiniteSet(Imports)
    /\ Concurrency \in Nat \ {0}
    /\ MaxWorkers \in Nat \ {0}
    /\ MaxFaults \in Nat

VARIABLES jobs,     \* import -> its row: status, claimed_by, and whether claimed_at is recent
          assets,   \* the imports whose model asset exists
          staging, store, \* the imports that have a directory there
          worker,   \* number of the coordinator process, 0 before the first
          mode,     \* what that process is doing
          tasks,    \* import -> its task in that process
          faults    \* faults so far

files == <<staging, store>>
database == <<jobs, assets>>
vars == <<database, files, worker, mode, tasks, faults>>

ActiveStatuses == {"transferring", "validating", "canceling"}
TerminalStatuses == {"ready", "failed", "canceled"}
Statuses == ActiveStatuses \cup TerminalStatuses \cup {"none", "pending"}

NewJob == [status |-> "none", claimedBy |-> 0, fresh |-> FALSE]
IsActive(j) == jobs[j].status \in ActiveStatuses
IsTerminal(j) == jobs[j].status \in TerminalStatuses

\* "up" polls; "draining" and "dying" wait for the running tasks, after a request to stop and
\* after an exception; "dead" is the rest of the process without its coordinator.
Modes == {"up", "draining", "dying", "dead", "down"}
Alive == mode \in {"up", "draining", "dying"}

\* A task: its phase, what its last unlocked read saw or decided, the event its thread checks.
Phases == {"none", "load", "enter", "transfer", "validate", "moved", "finalize",
           "failing", "canceling"}
NoTask == [phase |-> "none", read |-> "none", event |-> FALSE]
Running(j) == tasks[j].phase # "none"
Become(j, phase) == tasks' = [tasks EXCEPT ![j].phase = phase, ![j].read = "none"]

\* The end of run_forever sets every cancel event and waits for the tasks.
Drained == [j \in Imports |-> [tasks[j] EXCEPT !.event = Running(j)]]

Fault == faults < MaxFaults /\ faults' = faults + 1
SetStatus(j, s) == jobs' = [jobs EXCEPT ![j].status = s]

Init ==
    /\ jobs = [j \in Imports |-> NewJob]
    /\ assets = {} /\ staging = {} /\ store = {}
    /\ worker = 0 /\ mode = "down"
    /\ tasks = [j \in Imports |-> NoTask]
    /\ faults = 0

-----------------------------------------------------------------------------
(***************************************************************************)
(* API                                                                     *)
(***************************************************************************)
CreateImport(j) ==
    /\ jobs[j].status = "none"
    /\ \A k \in Imports : k < j => jobs[k].status # "none"
    /\ SetStatus(j, "pending")
    /\ UNCHANGED <<assets, files, worker, mode, tasks, faults>>

\* Faulty variant of AfterCancel: what runs is declared canceled at once.
CanceledAtOnce(status) ==
    IF status \in {"pending", "transferring", "validating"} THEN "canceled" ELSE status

\* request_model_import_cancel is one conditional UPDATE.
AfterCancel(status) ==
    CASE status = "pending" -> "canceled"
      [] status \in {"transferring", "validating"} -> "canceling"
      [] OTHER -> status

CancelImport(j) ==
    /\ jobs[j].status # AfterCancel(jobs[j].status)
    /\ SetStatus(j, AfterCancel(jobs[j].status))
    /\ UNCHANGED <<assets, files, worker, mode, tasks, faults>>

-----------------------------------------------------------------------------
(***************************************************************************)
(* The task of an import: _execute and the importer's thread.              *)
(***************************************************************************)
Load(j) ==
    /\ tasks[j].phase = "load"
    /\ tasks' = [tasks EXCEPT ![j].phase = "enter",
                              ![j].event = @ \/ jobs[j].status = "canceling"]
    /\ UNCHANGED <<database, files, worker, mode, faults>>

\* The directories of an import must be its own, from the beginning.
Enter(j) ==
    /\ tasks[j].phase = "enter"
    /\ IF j \in staging \cup store
       THEN Become(j, "failing") /\ UNCHANGED staging
       ELSE \/ Become(j, "transfer") /\ staging' = staging \cup {j}
            \/ Become(j, "failing") /\ UNCHANGED staging    \* the token file is unusable
    /\ UNCHANGED <<database, store, worker, mode, faults>>

\* progress(): the thread waits while the event loop reads the row and, later, writes it.
ReadForProgress(j) ==
    /\ tasks[j].phase \in {"transfer", "validate", "moved"} /\ tasks[j].read = "none"
    /\ \E phase \in {tasks[j].phase} \cup (IF tasks[j].phase = "transfer" THEN {"validate"} ELSE {}) :
          tasks' = [tasks EXCEPT ![j].phase = phase, ![j].read = jobs[j].status]
    /\ UNCHANGED <<database, files, worker, mode, faults>>

\* Faulty variant of Stage: the importer's own word for the stage is stored.
RawStage(j) == tasks[j].phase

\* _record_progress commits the status only where it differs from the one it has read.
Stage(j) == IF tasks[j].phase = "transfer" THEN "transferring" ELSE "validating"
Reported(j) ==
    LET read == tasks[j].read
    IN  CASE read \in TerminalStatuses -> jobs[j]
          [] read \notin TerminalStatuses /\ read \in {"canceling", Stage(j)} ->
                [jobs[j] EXCEPT !.fresh = TRUE]
          [] OTHER -> [jobs[j] EXCEPT !.fresh = TRUE, !.status = Stage(j)]

WriteProgress(j) ==
    /\ tasks[j].phase \in {"transfer", "validate", "moved"} /\ tasks[j].read # "none"
    /\ jobs' = [jobs EXCEPT ![j] = Reported(j)]
    /\ Become(j, IF tasks[j].phase = "moved" THEN "finalize" ELSE tasks[j].phase)
    /\ UNCHANGED <<assets, files, worker, mode, faults>>

\* A checkpoint of the thread: the event is set, so staging is removed.
StopTransfer(j) ==
    /\ tasks[j].phase \in {"transfer", "validate"} /\ tasks[j].read = "none"
    /\ tasks[j].event
    /\ staging' = staging \ {j}
    /\ Become(j, "canceling")
    /\ UNCHANGED <<database, store, worker, mode, faults>>

\* The source, the files or the validation are bad.
FailTransfer(j) ==
    /\ tasks[j].phase \in {"transfer", "validate"} /\ tasks[j].read = "none"
    /\ staging' = staging \ {j}
    /\ Become(j, "failing")
    /\ UNCHANGED <<database, store, worker, mode, faults>>

\* The last checkpoint, then os.replace: the point of publication.
Move(j) ==
    /\ tasks[j].phase = "validate" /\ tasks[j].read = "none"
    /\ ~tasks[j].event
    /\ staging' = staging \ {j}
    /\ store' = store \cup {j}
    /\ Become(j, "moved")
    /\ UNCHANGED <<database, worker, mode, faults>>

\* _finalize_ready locks the row and creates the asset in the same transaction.
Finalize(j) ==
    /\ tasks[j].phase = "finalize"
    /\ SetStatus(j, "ready")
    /\ assets' = assets \cup {j}
    /\ tasks' = [tasks EXCEPT ![j] = NoTask]
    /\ UNCHANGED <<files, worker, mode, faults>>

\* A database call of the task fails: an exception before the end of the import, which cleans
\* up staging but never the store.
TaskFault(j) ==
    /\ \/ tasks[j].phase \in {"load", "finalize", "moved"}
       \/ tasks[j].phase \in {"transfer", "validate"} /\ tasks[j].read # "none"
    /\ Fault
    /\ staging' = staging \ {j}
    /\ Become(j, "failing")
    /\ UNCHANGED <<database, store, worker, mode>>

\* _mark_failed and _mark_canceled_or_retry read the row and decide ...
Ended(j) ==
    CASE tasks[j].phase = "failing" ->
            IF jobs[j].status = "canceling" THEN "canceled" ELSE "failed"
      [] tasks[j].phase = "canceling" ->
            IF mode # "up" /\ jobs[j].status # "canceling" THEN "pending" ELSE "canceled"

ReadForEnd(j) ==
    /\ tasks[j].phase \in {"failing", "canceling"} /\ tasks[j].read = "none"
    /\ tasks' = [tasks EXCEPT ![j].read = Ended(j)]
    /\ UNCHANGED <<database, files, worker, mode, faults>>

\* ... and commit what they have decided.
WriteEnd(j) ==
    /\ tasks[j].phase \in {"failing", "canceling"} /\ tasks[j].read # "none"
    /\ jobs' = [jobs EXCEPT ![j] =
                   IF tasks[j].read = "pending" THEN [NewJob EXCEPT !.status = "pending"]
                                                ELSE [@ EXCEPT !.status = tasks[j].read]]
    /\ tasks' = [tasks EXCEPT ![j] = NoTask]
    /\ UNCHANGED <<assets, files, worker, mode, faults>>

Task(j) ==
    \/ Load(j) \/ Enter(j) \/ ReadForProgress(j) \/ WriteProgress(j)
    \/ StopTransfer(j) \/ FailTransfer(j) \/ Move(j) \/ Finalize(j)
    \/ ReadForEnd(j) \/ WriteEnd(j)

-----------------------------------------------------------------------------
(***************************************************************************)
(* The coordinator's round.  Each of its steps is one transaction.         *)
(***************************************************************************)
Signal(j) ==
    /\ mode = "up" /\ Running(j)
    /\ jobs[j].status = "canceling" /\ ~tasks[j].event
    /\ tasks' = [tasks EXCEPT ![j].event = TRUE]
    /\ UNCHANGED <<database, files, worker, mode, faults>>

Heartbeat ==
    /\ mode = "up"
    /\ \E j \in Imports : Running(j)
    /\ jobs' = [j \in Imports |->
                   IF Running(j) /\ IsActive(j) /\ jobs[j].claimedBy = worker
                   THEN [jobs[j] EXCEPT !.fresh = TRUE] ELSE jobs[j]]
    /\ UNCHANGED <<assets, files, worker, mode, tasks, faults>>

\* Faulty variants of IsStale: recovery does not spare the imports of its own process, and it
\* only knows of interrupted transfers.
IsStaleForAll(j) == IsActive(j) /\ ~jobs[j].fresh
IsStaleTransfer(j) ==
    jobs[j].status = "transferring" /\ ~jobs[j].fresh /\ jobs[j].claimedBy # worker

IsStale(j) == IsActive(j) /\ ~jobs[j].fresh /\ jobs[j].claimedBy # worker

\* Faulty variant of Leftovers: an interrupted publication is overlooked.
LeftInStaging(j) == [staging |-> staging \ {j}, store |-> store]

Leftovers(j) == [staging |-> staging \ {j}, store |-> store \ {j}]

\* recover_stale_model_imports.  A row that has an asset is ready, hence never stale.
Recover(j) ==
    /\ mode = "up" /\ IsStale(j)
    /\ staging' = Leftovers(j).staging
    /\ store' = Leftovers(j).store
    /\ jobs' = [jobs EXCEPT ![j] =
                   [NewJob EXCEPT !.status = IF jobs[j].status = "canceling" THEN "canceled"
                                                                            ELSE "pending"]]
    /\ UNCHANGED <<assets, worker, mode, tasks, faults>>

\* A directory cannot be removed: the import fails and leaves it behind.
RecoverFails(j) ==
    /\ mode = "up" /\ IsStale(j)
    /\ Fault
    /\ staging' \in {staging, Leftovers(j).staging}
    /\ UNCHANGED store
    /\ SetStatus(j, "failed")
    /\ UNCHANGED <<assets, worker, mode, tasks>>

\* claim_next_model_import: the oldest pending import.
Claim(j) ==
    /\ mode = "up"
    /\ Cardinality({k \in Imports : Running(k)}) < Concurrency
    /\ jobs[j].status = "pending"
    /\ \A k \in Imports : jobs[k].status = "pending" => j <= k
    /\ jobs' = [jobs EXCEPT ![j] =
                   [status |-> "transferring", claimedBy |-> worker, fresh |-> TRUE]]
    /\ tasks' = [tasks EXCEPT ![j] = [NoTask EXCEPT !.phase = "load"]]
    /\ UNCHANGED <<assets, files, worker, mode, faults>>

\* An exception of the round, or one that a task could not write down, ends the coordinator;
\* what recovery has removed from the disk stays removed.
RoundFails ==
    /\ mode = "up"
    /\ Fault
    /\ mode' = "dying" /\ tasks' = Drained
    /\ \/ UNCHANGED files
       \/ \E j \in Imports : /\ IsStale(j)
                             /\ staging' = Leftovers(j).staging
                             /\ store' = Leftovers(j).store
    /\ UNCHANGED <<database, worker>>

EndFault(j) ==
    /\ tasks[j].phase \in {"failing", "canceling"}
    /\ Fault
    /\ tasks' = [IF mode = "up" THEN Drained ELSE tasks EXCEPT ![j] = NoTask]
    /\ mode' = IF mode = "up" THEN "dying" ELSE mode
    /\ UNCHANGED <<database, files, worker>>

Round ==
    \/ Heartbeat \/ RoundFails
    \/ \E j \in Imports : Signal(j) \/ Recover(j) \/ RecoverFails(j) \/ Claim(j)

-----------------------------------------------------------------------------
(***************************************************************************)
(* The process.  Its threads end with it; the files and the rows remain.   *)
(***************************************************************************)
Start ==
    /\ mode = "down" /\ worker < MaxWorkers
    /\ mode' = "up" /\ worker' = worker + 1
    /\ UNCHANGED <<database, files, tasks, faults>>

ShutDown ==
    /\ mode = "up" /\ worker < MaxWorkers
    /\ mode' = "draining" /\ tasks' = Drained
    /\ UNCHANGED <<database, files, worker, faults>>

Exit ==
    /\ mode \in {"draining", "dying"}
    /\ \A j \in Imports : ~Running(j)
    /\ mode' = IF mode = "draining" THEN "down" ELSE "dead"
    /\ UNCHANGED <<database, files, worker, tasks, faults>>

Crash ==
    /\ mode # "down" /\ worker < MaxWorkers
    /\ mode' = "down"
    /\ tasks' = [j \in Imports |-> NoTask]
    /\ UNCHANGED <<database, files, worker, faults>>

\* claimed_at grows older than the claim timeout.
ClaimExpires(j) ==
    /\ jobs[j].fresh /\ IsActive(j)
    /\ jobs' = [jobs EXCEPT ![j].fresh = FALSE]
    /\ UNCHANGED <<assets, files, worker, mode, tasks, faults>>

Next ==
    \/ Round
    \/ Start \/ ShutDown \/ Exit \/ Crash
    \/ \E j \in Imports :
          \/ Task(j) \/ TaskFault(j) \/ EndFault(j)
          \/ CreateImport(j) \/ CancelImport(j) \/ ClaimExpires(j)

Spec == Init /\ [][Next]_vars

\* The process is started again when it ended, the loop keeps polling, and a transfer or a
\* validation comes to its end although it reports progress many times.
Advance(j) ==
    \/ ReadForProgress(j) /\ tasks'[j].phase # tasks[j].phase
    \/ StopTransfer(j) \/ Move(j)

Fairness ==
    /\ WF_vars(Start) /\ WF_vars(Exit)
    /\ \A j \in Imports :
          /\ WF_vars(Task(j)) /\ SF_vars(Advance(j))
          /\ WF_vars(Signal(j)) /\ WF_vars(Recover(j)) /\ WF_vars(Claim(j))
          /\ WF_vars(jobs[j].claimedBy # worker /\ ClaimExpires(j))

FairSpec == Spec /\ Fairness

-----------------------------------------------------------------------------
(***************************************************************************)
(* Properties                                                              *)
(***************************************************************************)
Jobs == [status : Statuses, claimedBy : 0..MaxWorkers, fresh : BOOLEAN]

TypeOK ==
    /\ jobs \in [Imports -> Jobs]
    /\ assets \subseteq Imports /\ staging \subseteq Imports /\ store \subseteq Imports
    /\ worker \in 0..MaxWorkers /\ mode \in Modes
    /\ tasks \in [Imports -> [phase : Phases, read : Statuses, event : BOOLEAN]]
    /\ faults \in 0..MaxFaults

\* The row of a running task stays claimed by its process: nobody recovers, retries or ends an
\* import under the hands of its thread (claimed_by # worker_id in recovery).
TaskOwnsClaim ==
    \A j \in Imports : Running(j) => IsActive(j) /\ jobs[j].claimedBy = worker

\* Files follow the rows.  An import is ready exactly when its asset exists, and recovery,
\* retries and late cancellations never take the files of an asset away (_finalize_ready,
\* recovery).  Whatever interrupted an earlier attempt, an import that is queued again starts
\* from clean directories: the importer's FileExistsError is never the answer to a crash.
\* Unless a call failed, an import that ended leaves files only when it is ready, although it
\* may have been canceled after the last checkpoint or interrupted after the move.
FilesFollowStatus ==
    \A j \in Imports :
        /\ jobs[j].status = "ready" <=> j \in assets
        /\ j \in assets => j \in store
        /\ jobs[j].status = "pending" => j \notin staging \cup store
        /\ faults = 0 /\ IsTerminal(j) =>
              j \notin staging /\ (j \in store => jobs[j].status = "ready")

\* The outcome of an import is final: progress, failure and cancellation that were decided on
\* an older row never overwrite it.
OutcomeIsFinal == [][\A j \in Imports : IsTerminal(j) => jobs'[j].status = jobs[j].status]_vars

\* A cancellation is not forgotten: a canceling import is never shown as running or pending
\* again.
CancelIsKept == [][\A j \in Imports :
    jobs[j].status = "canceling" => jobs'[j].status \in TerminalStatuses \cup {"canceling"}]_vars

\* Every import ends, through crashes, shutdowns, retries and cancellations, unless a failed
\* call has ended the coordinator.
ImportsEnd == \A j \in Imports : jobs[j].status # "none" ~> IsTerminal(j) \/ faults > 0
=============================================================================
