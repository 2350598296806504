------------------------------ MODULE Workloads ------------------------------
(***************************************************************************)
(* The rows of the control plane's workload tables and what one            *)
(* transaction does to a row: the API actions on deployments, training     *)
(* jobs and evaluation runs, and the reconciler's observations.            *)
(*                                                                         *)
(* A change is a record: the new row, what happens to queued_at ("keep",   *)
(* "set" to now, "clear"), and whether the GPU leases of the observed      *)
(* generation are released in the same transaction.                        *)
(***************************************************************************)
EXTENDS Naturals

\* desired is RUNNING ("run") or STOPPED / TERMINATED ("stop").
NoRow == [actual |-> "none", desired |-> "stop", version |-> 0, rgen |-> 0, gpus |-> {}]

ActiveDeploymentStates == {"starting", "running", "stopping"}
ActiveJobStates == {"starting", "running", "canceling"}
ActiveStates == ActiveDeploymentStates \cup ActiveJobStates
TerminalStates == {"stopped", "failed", "canceled", "succeeded"}
ActualStates == ActiveStates \cup TerminalStates \cup {"none", "queued"}

Rows(gpus) == [actual : ActualStates, desired : {"run", "stop"},
               version : Nat, rgen : Nat, gpus : SUBSET gpus]

IsActive(row) == row.actual \in ActiveStates
IsTerminal(row) == row.actual \in TerminalStates
Exist(row) == row.actual # "none"

\* Faulty variant of RuntimeGeneration: the desired version instead of the running one.
DesiredGeneration(row) == row.version

\* The generation a command about this row carries (_snapshot, delete).
RuntimeGeneration(row) == IF row.rgen = 0 THEN row.version ELSE row.rgen

Change(row, queued, release) == [row |-> row, queued |-> queued, release |-> release]
Only(row) == Change(row, "keep", FALSE)

-----------------------------------------------------------------------------
(***************************************************************************)
(* API actions.  Creation goes straight to the queue.                      *)
(***************************************************************************)
Create(gpus) ==
    Change([actual |-> "queued", desired |-> "run", version |-> 1, rgen |-> 0, gpus |-> gpus],
           "set", FALSE)

\* start_deployment
StartDeployment(row) ==
    IF row.actual \in {"running", "starting", "queued"}
    THEN Only([row EXCEPT !.desired = "run"])
    ELSE Change([row EXCEPT !.desired = "run", !.actual = "queued", !.version = @ + 1],
                "set", FALSE)

\* stop_deployment
StopDeployment(row) ==
    LET stopped == [row EXCEPT !.desired = "stop", !.version = @ + 1]
    IN  CASE row.actual \in {"queued", "failed"} ->
                Change([stopped EXCEPT !.actual = "stopped"], "clear", FALSE)
          [] row.actual \in {"stopped", "stopping"} -> Only(stopped)
          [] OTHER -> Only([stopped EXCEPT !.actual = "stopping"])

\* update_deployment, once the state was found editable
EditDeployment(row, gpus) == Only([row EXCEPT !.gpus = gpus, !.version = @ + 1])
Editable(row) == row.actual \in {"stopped", "failed"}

\* What terminating a training job and canceling an evaluation run write.
EndJob(row) ==
    LET ended == [row EXCEPT !.desired = "stop", !.version = @ + 1]
    IN  CASE row.actual = "queued" -> Change([ended EXCEPT !.actual = "canceled"], "clear", FALSE)
          [] row.actual \in {"starting", "running"} -> Only([ended EXCEPT !.actual = "canceling"])
          [] OTHER -> Only(ended)

\* terminate_training_job leaves ended jobs and jobs already being canceled alone.
TerminateIgnored(row) ==
    IsTerminal(row) \/ (row.desired = "stop" /\ row.actual = "canceling")

-----------------------------------------------------------------------------
(***************************************************************************)
(* Observations of the agent, applied under the row lock.                  *)
(***************************************************************************)
Busy == {"starting", "running", "stopping"}    \* observed states that renew the leases

ObserveDeployment(row, reply) ==
    CASE reply.state = "absent" /\ row.desired = "run" ->
            Change([row EXCEPT !.actual = "queued", !.rgen = 0], "set", TRUE)
      [] reply.state = "absent" /\ row.desired = "stop" ->
            Change([row EXCEPT !.actual = "stopped"], "keep", TRUE)
      [] reply.state \in {"failed", "succeeded"} ->
            Change([row EXCEPT !.actual = "failed"], "keep", TRUE)
      [] reply.state \in Busy ->
            Only([row EXCEPT !.actual = IF row.desired = "stop" THEN "stopping" ELSE reply.state])

\* Faulty variant of JobStatesAfter: the reported state is stored as it is.
RawJobStates(row, reply) == {reply.state}

\* The states an observation may put a job in; a successful end is only accepted with
\* artifacts that validate.
JobStatesAfter(row, reply) ==
    CASE reply.state = "absent" -> {IF row.desired = "stop" THEN "canceled" ELSE "failed"}
      [] reply.state = "failed" -> {"failed"}
      [] reply.state = "succeeded" -> {"succeeded", "failed"}
      [] reply.state \in Busy ->
            {IF row.desired = "stop" \/ reply.state = "stopping" THEN "canceling"
                                                                ELSE reply.state}

\* Faulty variant of ObserveJob: a job that vanished is queued again, as a deployment is.
ObserveJobRequeues(row, reply) ==
    IF reply.state = "absent"
    THEN {Change([row EXCEPT !.actual = "queued", !.rgen = 0], "set", TRUE)}
    ELSE {Change([row EXCEPT !.actual = s], "keep", s \in TerminalStates)
             : s \in JobStatesAfter(row, reply)}

\* Faulty variant of ObserveJob: a failed job keeps its leases.
ObserveJobFailedHolds(row, reply) ==
    {Change([row EXCEPT !.actual = s], "keep", s \in {"succeeded", "canceled"})
        : s \in JobStatesAfter(row, reply)}

ObserveJob(row, reply) ==
    {Change([row EXCEPT !.actual = s], "keep", s \in TerminalStates) : s \in JobStatesAfter(row, reply)}

\* _fail_start
FailStart(row) == Change([row EXCEPT !.actual = "failed"], "keep", TRUE)

-----------------------------------------------------------------------------
(***************************************************************************)
(* A handler that read the row without locking it commits only the columns *)
(* it changed, over whatever the row has become since.                     *)
(***************************************************************************)
Merge(now, read, written) ==
    [f \in DOMAIN now |-> IF written[f] # read[f] THEN written[f] ELSE now[f]]
=============================================================================
