------------------------- MODULE PlatformProperties -------------------------
(***************************************************************************)
(* What the platform promises: about GPU leases and the containers they    *)
(* stand for, about the queue, and about how a workload ends.              *)
(***************************************************************************)
EXTENDS Platform

Snapshots == [owner : Owners, gen : Nat, gpus : SUBSET Gpus, desired : {"run", "stop"}]
Reconciling == [pc : {"idle", "polling", "waiting", "reaping", "claiming"},
                todo : SUBSET Snapshots,
                stage : {"none", "poll", "probe", "stop", "start"},
                w : Snapshots \cup {NoWork}]
Calls == {NoCall} \cup [state : {"sent"}, cmd : Command]
                  \cup [state : {"replied"}, cmd : Command, reply : Reply]
Requests == {NoRequest}
            \cup [kind : {"start", "stop", "edit", "cancel"}, owner : Owners,
                  read : Rows(Gpus), queued : BOOLEAN]
            \cup [kind : {"deleting"}, owner : Owners]

TypeOK ==
    /\ rows \in [Owners -> Rows(Gpus)]
    /\ queue \in Seq(Owners)
    /\ leases \subseteq LeaseRows(Owners, Gpus)
    /\ rec \in Reconciling
    /\ api \in [Clients -> Requests]
    /\ calls \in [Callers -> Calls]
    /\ late \subseteq Command
    /\ Agent!TypeOK

-----------------------------------------------------------------------------
(***************************************************************************)
(* Leases and containers                                                   *)
(***************************************************************************)
\* All or nothing: an owner's group appears, changes and disappears as a whole, and it is
\* never of two generations; no GPU of a group is given back before the others.
WholeGroups == [][\A o \in Owners :
    LET before == Owned(leases, o)
        after == Owned(leases', o)
    IN  before # {} /\ after # {}
            => {<<l.gpu, l.gen>> : l \in before} = {<<l.gpu, l.gen>> : l \in after}]_vars

\* The lease table allocates whole GPUs as GpuAllocation says (try_acquire_locked,
\* release_locked, reap_expired_locked): a claim leases all GPUs of a workload or none, only free
\* ones, and never to an owner that still holds leases of another run; what is given back is
\* given back as a whole.
HeldByLease(o) == {<<l.gpu, l.gen>> : l \in Owned(leases, o)}
Held == [o \in Owners |-> HeldByLease(o)]
Allocation == INSTANCE GpuAllocation WITH held <- Held
ImplementsAllocation == Allocation!Spec

\* A training job holds exactly the GPUs of its row, at its running generation, from the
\* claim to the transaction that ends it, and nothing before or after; no GPU is leased
\* twice, to whomever (conflict check under the scheduler lock).
LeaseFollowsTraining ==
    /\ \A l, m \in leases : l.gpu = m.gpu => l = m
    /\ \A t \in Trainings :
          {<<l.gpu, l.gen>> : l \in Owned(leases, t)}
              = IF IsActive(rows[t]) THEN rows[t].gpus \X {rows[t].rgen} ELSE {}

\* No lease is given up while the container still runs: the GPUs of an active container are
\* leased to its owner at its generation.
CoveredByLease(o) ==
    Active(containers[o])
        => containers[o].gpus \subseteq GpusOf(OwnedAt(leases, o, containers[o].gen))
ContainersAreLeased == \A o \in Owners : CoveredByLease(o)

\* The agent was never asked about a training in time: its START is still on the way although
\* the reconciler gave up on it (the client waits 10 s, the agent's lock is held up to 30 s).
Abandoned(t) == \E cmd \in late : cmd.owner = t /\ cmd.action = "start"

\* The agent refused to report on a training whose container runs (training_metadata, 422).
Disowned(t) ==
    LET call == calls[Reconciler]
    IN  /\ call.state = "replied" /\ call.cmd.owner = t
        /\ call.reply = Rejected /\ Active(containers[t])

\* Of training jobs this holds as long as they are active; afterwards too, and canceled means
\* that no container is left, not even a stopped one, but for the two ways in which the
\* reconciler is misled about a training, and for no other.
TrainingContainersAreLeased == \A t \in Trainings :
    /\ [](IsActive(rows[t]) => CoveredByLease(t))
    /\ [](~Abandoned(t) /\ ~Disowned(t))
          => [](CoveredByLease(t) /\ (rows[t].actual = "canceled" => ~Exists(containers[t])))

-----------------------------------------------------------------------------
(***************************************************************************)
(* The queue                                                               *)
(***************************************************************************)
\* Strict FIFO across the kinds of workloads: whoever is given GPUs was queued before everyone
\* who goes on waiting, even before those who wait for other GPUs.
NoOvertaking == [][\A o, p \in Owners :
    Owned(leases, o) = {} /\ Owned(leases', o) # {} /\ Waits(p) /\ p # o
        => \E i, k \in 1..Len(queue) : i < k /\ queue[i] = o /\ queue[k] = p]_vars

\* A claim never meets leases of another run of the same workload.
NoCrossGenerationLeases ==
    rec.pc = "claiming" =>
        \A o \in Owners : Waits(o) =>
            ~LeaseInvariantError(leases, o, rows[o].version, rows[o].gpus)

-----------------------------------------------------------------------------
(***************************************************************************)
(* How a workload ends                                                     *)
(***************************************************************************)
\* A training that ended well while it was active is never reported as canceled, then or
\* later, however its termination, the probe, the STOP, lost and late calls interleave, unless
\* its START was executed late; and whatever its outcome, nobody changes it, not even a request
\* that was decided before.
SuccessIsReported ==
    /\ \A t \in Trainings : []~Abandoned(t) =>
          []( containers[t].status = "exited0" /\ IsActive(rows[t])
                => [](rows[t].actual # "canceled"))
    /\ [][\A t \in Trainings :
          IsTerminal(rows[t]) => rows'[t].actual \in {rows[t].actual, "none"}]_vars

\* Jobs are never run twice: a container of a job is only ever created for a START that
\* the agent has not seen before.
JobsRunOnce == [][\A j \in Jobs :
    ~Exists(containers[j]) /\ Exists(containers'[j]) => starts[j] = Agent!Unbound]_vars

-----------------------------------------------------------------------------
(***************************************************************************)
(* Progress.  The reconciler keeps running, and although any round may     *)
(* abort, not every round aborts before it asks about a given workload;    *)
(* the agent is not required to answer any particular call, but it does    *)
(* not fail the same kind of call forever, and neither does the network;   *)
(* Docker completes removals.                                              *)
(***************************************************************************)
DefiniteAnswer(o, a) ==
    /\ calls[Reconciler].state = "sent"
    /\ calls[Reconciler].cmd.owner = o /\ calls[Reconciler].cmd.action = a
    /\ AgentServes(Reconciler)
    /\ calls'[Reconciler].reply # Unavailable

UsesAnswer(o, a) ==
    /\ calls[Reconciler].state = "replied"
    /\ calls[Reconciler].cmd.owner = o /\ calls[Reconciler].cmd.action = a
    /\ calls[Reconciler].reply # Unavailable
    /\ ObserveReply \/ StartReply

Asks(o) == Poll /\ rec'.w.owner = o

Fairness ==
    /\ WF_vars(Reconcile)
    /\ \A o \in Owners : SF_vars(Asks(o))
    /\ WF_vars(\E c \in Callers : AgentServes(c) \/ CallFails(c))
    /\ \A o \in Owners, a \in Actions :
          SF_vars(DefiniteAnswer(o, a)) /\ SF_vars(UsesAnswer(o, a))
    /\ \A o \in Owners : WF_vars(containers[o].status = "removing" /\ ContainerEvent(o))

FairSpec == Spec /\ Fairness

\* A request to end a workload is carried out: through lost calls, aborted rounds and Docker
\* errors, a row whose desired state is "stop" reaches a final state or is asked to run again.
Completes(o) ==
    Exist(rows[o]) /\ rows[o].desired = "stop"
        ~> ~Exist(rows[o]) \/ IsTerminal(rows[o]) \/ rows[o].desired = "run"
JobTerminationCompletes == \A j \in Jobs : Completes(j)
DeploymentStopCompletes == \A d \in Deployments : Completes(d)
=============================================================================
