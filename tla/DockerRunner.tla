---------------------------- MODULE DockerRunner ----------------------------
(***************************************************************************)
(* The container operations of the node agent, as pure operators.          *)
(*                                                                         *)
(* The agent keeps no table of workloads: Docker is the table.  A          *)
(* container's name is derived from its owner alone, so an owner has at    *)
(* most one container, whose labels carry the generation and the GPUs.     *)
(* Every operator below maps the containers and one signed command to the  *)
(* set of outcomes the code can produce: the containers afterwards and the *)
(* reply.  A Docker call may fail or time out with its effect applied or   *)
(* not; such an outcome carries the reply "Unavailable", which the HTTP    *)
(* layer turns into a signed 5xx.                                          *)
(***************************************************************************)
EXTENDS Naturals, FiniteSets

CONSTANTS Deployments,   \* owners that run a vLLM inference service
          Jobs,          \* owners that run a training or an evaluation once
          Trainings,     \* the jobs that are training jobs; the others are evaluations
          Gpus           \* indices of the whole GPUs of the node

ASSUME OwnersAssumption ==
    /\ Deployments \cap Jobs = {}
    /\ Trainings \subseteq Jobs

Owners == Deployments \cup Jobs

(***************************************************************************)
(* Containers.  "healthy" is Docker's "running" with a passing health      *)
(* check; an exited container keeps whether its exit code was 0.           *)
(***************************************************************************)
ActiveStatuses == {"created", "running", "healthy", "restarting"}
TerminalStatuses == {"exited0", "exited1"}
Statuses == ActiveStatuses \cup TerminalStatuses \cup {"removing", "absent"}

Container == [gen : Nat, gpus : SUBSET Gpus, status : Statuses]
Absent == [gen |-> 0, gpus |-> {}, status |-> "absent"]

Exists(c) == c.status # "absent"
Active(c) == c.status \in ActiveStatuses

\* An active container holds the GPUs of its label for its generation (gpu_allocations).
HeldByContainer(c) == IF Active(c) THEN c.gpus \X {c.gen} ELSE {}

\* Faulty variant of GpusOfOthers: a container that is starting or restarting is overlooked.
GpusOfRunning(cs, o) ==
    UNION {cs[p].gpus : p \in {q \in Owners \ {o} : cs[q].status \in {"running", "healthy"}}}

\* The GPUs that gpu_allocations reports as taken by someone other than o.
GpusOfOthers(cs, o) == UNION {cs[p].gpus : p \in {q \in Owners \ {o} : Active(cs[q])}}

(***************************************************************************)
(* Commands and replies.                                                   *)
(***************************************************************************)
Actions == {"start", "stop", "status", "cleanup"}
Command == [action : Actions, owner : Owners, gen : Nat, gpus : SUBSET Gpus]

Reply == [accepted : BOOLEAN,
          state : {"absent", "starting", "running", "stopping",
                   "succeeded", "failed", "unknown"}]
Accepted(s) == [accepted |-> TRUE, state |-> s]
Rejected == [accepted |-> FALSE, state |-> "failed"]
Unavailable == [accepted |-> FALSE, state |-> "unknown"]

Outcome(cs, r) == [cs |-> cs, reply |-> r]
Set(cs, o, s) == [cs EXCEPT ![o].status = s]
Remove(cs, o) == [cs EXCEPT ![o] = Absent]

(***************************************************************************)
(* The contract state of an existing container.                            *)
(***************************************************************************)
StateFromInfo(o, c) ==
    CASE c.status \in {"created", "restarting"} -> "starting"
      [] c.status = "running"  -> IF o \in Jobs THEN "running" ELSE "starting"
      [] c.status = "healthy"  -> "running"
      [] c.status = "removing" -> "stopping"
      [] c.status = "exited0" /\ o \in Jobs -> "succeeded"
      [] OTHER -> "failed"

\* An inference container that is not ready and whose retry, health or start-up
\* budget is spent (a matter of time, hence always possible) is stopped first and
\* declared failed only once Docker confirms that it is no longer active.
QuiesceFailedInference(cs, o) ==
    IF cs[o].status = "created"
    THEN {Outcome(Remove(cs, o), Accepted("failed"))}
    ELSE {Outcome(Set(cs, o, "exited1"), Accepted(s)) : s \in {"failed", "starting"}}

\* The report of a job may raise InvalidWorkload, a refusal of the command that changes nothing:
\* of an evaluation when it succeeded and its artifacts do not validate (evaluation_metadata), of
\* a training in any state, as soon as its output directory cannot be used (training_metadata).
MayBeRefused(o, state) == o \in Trainings \/ (o \in Jobs /\ state = "succeeded")

ResponseFromInfo(cs, o) ==
    LET state == StateFromInfo(o, cs[o])
    IN  {Outcome(cs, Accepted(state))}
        \cup (IF o \in Deployments /\ state = "starting"
              THEN QuiesceFailedInference(cs, o) ELSE {})
        \cup (IF MayBeRefused(o, state) THEN {Outcome(cs, Rejected)} ELSE {})

\* container.remove(force=False): done, or the call fails with the removal under way.
RemoveContainer(cs, o) ==
    {Outcome(Remove(cs, o), Accepted("absent")),
     Outcome(Set(cs, o, "removing"), Unavailable)}

(***************************************************************************)
(* START.  launch_inference, launch_training and launch_evaluation share   *)
(* this shape: validate, check the name and the GPUs under the allocation  *)
(* lock, create and start the container, report its state.                 *)
(***************************************************************************)
Created(cs, cmd, s) ==
    [cs EXCEPT ![cmd.owner] = [gen |-> cmd.gen, gpus |-> cmd.gpus, status |-> s]]

\* _run_container and the report that follows it; either may fail.
RanAs(cs, cmd, s) ==
    {Outcome(Created(cs, cmd, s), Unavailable)}
    \cup (IF s = "created" THEN {} ELSE ResponseFromInfo(Created(cs, cmd, s), cmd.owner))

\* What the report may find: the container runs, or has ended at once.
AfterLaunch == {"created", "running"} \cup TerminalStatuses

Run(cs, cmd) == UNION {RanAs(cs, cmd, s) : s \in AfterLaunch}

Launch(cs, cmd) ==
    {Outcome(cs, Rejected)}                \* invalid workload, or a foreign GPU process
    \cup (IF cmd.gpus \cap GpusOfOthers(cs, cmd.owner) = {} THEN Run(cs, cmd) ELSE {})

\* Faulty variants of Replaceable: a START that preempts, and one that ignores the label.
ReplaceableAtAnyTime(c, gen) == c.gen < gen
ReplaceableWhenEnded(c, gen) == c.status \in TerminalStatuses

\* A START replaces the container of an older generation only once it has ended.
Replaceable(c, gen) == c.gen < gen /\ c.status \in TerminalStatuses

StartOutcomes(cs, cmd) ==
    LET o == cmd.owner
        c == cs[o]
    IN  CASE ~Exists(c) -> Launch(cs, cmd)
          [] Exists(c) /\ Replaceable(c, cmd.gen) ->
                Launch(Remove(cs, o), cmd)
                  \cup {Outcome(Set(cs, o, "removing"), Unavailable)}
          [] Exists(c) /\ c.gen = cmd.gen -> ResponseFromInfo(cs, o)
          [] Exists(c) /\ (c.gen > cmd.gen \/ (c.gen < cmd.gen /\ Active(c))) ->
                {Outcome(cs, Rejected)}
          [] OTHER -> {}                   \* Docker is still removing it: the call fails

(***************************************************************************)
(* STOP.  A job that exits with code 0 before or while it is stopped is    *)
(* kept, so that its success is reported; anything else is removed.        *)
(***************************************************************************)
\* Faulty variant of Discard: whatever was stopped is removed.
DiscardAlways(cs, o) == RemoveContainer(cs, o)

Discard(cs, o) ==
    IF o \in Jobs /\ cs[o].status = "exited0" THEN ResponseFromInfo(cs, o)
                                              ELSE RemoveContainer(cs, o)

\* Faulty variant of AfterStop: an exit that is classified as neither success nor failure.
AfterStopUnclassified(status) == {"exited"}

\* docker stop ends a started container; on one that never started it does nothing.
AfterStop(status) == IF status = "created" THEN {status} ELSE TerminalStatuses

StopOutcomes(cs, cmd) ==
    LET o == cmd.owner
        c == cs[o]
    IN  CASE ~Exists(c) -> {Outcome(cs, Accepted("absent"))}
          [] Exists(c) /\ c.gen # cmd.gen -> {Outcome(cs, Rejected)}
          [] Exists(c) /\ c.gen = cmd.gen /\ c.status \in TerminalStatuses -> Discard(cs, o)
          [] Exists(c) /\ c.gen = cmd.gen /\ Active(c) ->
                UNION {{Outcome(Set(cs, o, s), Unavailable)} \cup Discard(Set(cs, o, s), o)
                         : s \in AfterStop(c.status)}
          [] OTHER -> {}

(***************************************************************************)
(* STOP with the cleanup marker: removes a terminal container of exactly   *)
(* this generation, and never stops one.                                   *)
(***************************************************************************)
CleanupOutcomes(cs, cmd) ==
    LET o == cmd.owner
        c == cs[o]
    IN  CASE ~Exists(c) -> {Outcome(cs, Accepted("absent"))}
          [] Exists(c) /\ (c.gen # cmd.gen \/ c.status \notin TerminalStatuses) ->
                {Outcome(cs, Rejected)}
          [] OTHER -> RemoveContainer(cs, o)

StatusOutcomes(cs, cmd) ==
    LET o == cmd.owner
        c == cs[o]
    IN  CASE ~Exists(c) -> {Outcome(cs, Accepted("absent"))}
          [] Exists(c) /\ c.gen # cmd.gen -> {Outcome(cs, Rejected)}
          [] OTHER -> ResponseFromInfo(cs, o)

\* Any dispatch may also fail before it has any effect.
DispatchOutcomes(cs, cmd) ==
    {Outcome(cs, Unavailable)}
    \cup (CASE cmd.action = "start"   -> StartOutcomes(cs, cmd)
            [] cmd.action = "stop"    -> StopOutcomes(cs, cmd)
            [] cmd.action = "cleanup" -> CleanupOutcomes(cs, cmd)
            [] OTHER                  -> StatusOutcomes(cs, cmd))

(***************************************************************************)
(* What a container does by itself, between two commands.                  *)
(***************************************************************************)
Progress(o, c) ==
    CASE c.status = "created"    -> {}
      [] c.status = "running"    -> IF o \in Jobs THEN {"exited0", "exited1"}
                                    ELSE {"healthy", "restarting", "exited0", "exited1"}
      [] c.status = "healthy"    -> {"running", "restarting", "exited0", "exited1"}
      [] c.status = "restarting" -> {"running", "exited1"}
      [] c.status = "removing"   -> {"absent"}
      [] OTHER -> {}

Evolve(cs, o, s) == IF s = "absent" THEN Remove(cs, o) ELSE Set(cs, o, s)
=============================================================================
