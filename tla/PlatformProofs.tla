--------------------------- MODULE PlatformProofs ---------------------------
(***************************************************************************)
(* GPU leases, the queue and the containers of training jobs: proofs about *)
(* Platform, for any number of workloads, GPUs, clients, lost calls and    *)
(* aborted rounds.                                                         *)
(***************************************************************************)
EXTENDS PlatformProperties, DockerRunnerProofs, FiniteSetTheorems, SequenceTheorems

-----------------------------------------------------------------------------
(***************************************************************************)
(* The operators of the runner are the same in the agent's contract.       *)
(***************************************************************************)
\* Constants of the runner, seen through the contract.
LEMMA SameConstants ==
    /\ Agent!Owners = Owners
    /\ Agent!ActiveStatuses = ActiveStatuses
    /\ Agent!TerminalStatuses = TerminalStatuses
    /\ Agent!Absent = Absent
    /\ Agent!Rejected = Rejected
    /\ Agent!Unavailable = Unavailable
    /\ (\A s : Agent!Accepted(s) = Accepted(s))
    /\ (\A cs, r : Agent!Outcome(cs, r) = Outcome(cs, r))
    /\ (\A c : Agent!Exists(c) = Exists(c))
    /\ Agent!Statuses = Statuses
    /\ Agent!Container = Container
  BY DEF Agent!Owners, Owners, Agent!ActiveStatuses, ActiveStatuses,
     Agent!TerminalStatuses, TerminalStatuses, Agent!Absent, Absent, Agent!Rejected,
     Rejected, Agent!Unavailable, Unavailable, Agent!Accepted, Accepted, Agent!Outcome,
     Outcome, Agent!Exists, Exists, Agent!Statuses, Statuses, Agent!Container,
     Container

\* Operations on one container.
LEMMA SameContainers ==
    /\ (\A cs, o, s : Agent!Set(cs, o, s) = Set(cs, o, s))
    /\ (\A cs, o : Agent!Remove(cs, o) = Remove(cs, o))
    /\ (\A cs, cmd, s : Agent!Created(cs, cmd, s) = Created(cs, cmd, s))
    /\ (\A c : Agent!Active(c) = Active(c))
    /\ (\A o, c : Agent!StateFromInfo(o, c) = StateFromInfo(o, c))
    /\ (\A status : Agent!AfterStop(status) = AfterStop(status))
    /\ (\A c, gen : Agent!Replaceable(c, gen) = Replaceable(c, gen))
  BY SameConstants DEF Agent!Set, Set, Agent!Remove, Remove, Agent!Created, Created,
     Agent!Active, Active, Agent!StateFromInfo, StateFromInfo, Agent!AfterStop, AfterStop,
     Agent!Replaceable, Replaceable

\* The GPUs of the others.
LEMMA SameGpus ==
    \A cs, o : Agent!GpusOfOthers(cs, o) = GpusOfOthers(cs, o)
  BY SameConstants, SameContainers DEF Agent!GpusOfOthers, GpusOfOthers

\* Removals.
LEMMA SameRemoval ==
    /\ (\A cs, o : Agent!QuiesceFailedInference(cs, o) = QuiesceFailedInference(cs, o))
    /\ (\A cs, o : Agent!RemoveContainer(cs, o) = RemoveContainer(cs, o))
  BY SameConstants, SameContainers DEF Agent!QuiesceFailedInference, QuiesceFailedInference,
     Agent!RemoveContainer, RemoveContainer

\* The report of an existing container.
LEMMA SameReport ==
    \A cs, o : Agent!ResponseFromInfo(cs, o) = ResponseFromInfo(cs, o)
  BY SameConstants, SameContainers, SameRemoval DEF Agent!ResponseFromInfo, ResponseFromInfo,
     Agent!MayBeRefused, MayBeRefused

\* What follows a creation or a stop.
LEMMA SameRun ==
    /\ (\A cs, cmd, s : Agent!RanAs(cs, cmd, s) = RanAs(cs, cmd, s))
    /\ (\A cs, o : Agent!Discard(cs, o) = Discard(cs, o))
  BY SameConstants, SameContainers, SameRemoval, SameReport DEF Agent!RanAs, RanAs,
     Agent!Discard, Discard

\* Every way in which a run begins.
LEMMA SameRuns ==
    \A cs, cmd : Agent!Run(cs, cmd) = Run(cs, cmd)
  BY SameRun, SameConstants DEF Agent!Run, Run, Agent!AfterLaunch, AfterLaunch

\* The launch of a container.
LEMMA SameLaunch ==
    \A cs, cmd : Agent!Launch(cs, cmd) = Launch(cs, cmd)
  BY SameRuns, SameConstants, SameGpus DEF Agent!Launch, Launch

\* START.
LEMMA SameStart ==
    \A cs, cmd : Agent!StartOutcomes(cs, cmd) = StartOutcomes(cs, cmd)
  BY SameLaunch, SameReport, SameConstants, SameContainers DEF Agent!StartOutcomes, StartOutcomes

\* STOP.
LEMMA SameStop ==
    \A cs, cmd : Agent!StopOutcomes(cs, cmd) = StopOutcomes(cs, cmd)
<1> SUFFICES ASSUME NEW cs, NEW cmd
             PROVE  Agent!StopOutcomes(cs, cmd) = StopOutcomes(cs, cmd)
  OBVIOUS
<1> DEFINE o == cmd.owner
           R(s) == {Outcome(Set(cs, o, s), Unavailable)} \cup Discard(Set(cs, o, s), o)
           C(s) == {Agent!Outcome(Agent!Set(cs, o, s), Agent!Unavailable)}
                     \cup Agent!Discard(Agent!Set(cs, o, s), o)
           A == Agent!AfterStop(cs[o].status)
<1>1. \A s : C(s) = R(s)
  BY SameConstants, SameContainers, SameRun
<1>2. A = AfterStop(cs[o].status)
  BY SameContainers
<1> HIDE DEF C, R
<1>3. UNION {C(s) : s \in A} = UNION {R(s) : s \in AfterStop(cs[o].status)}
  BY <1>1, <1>2
<1>4. UNION {{Agent!Outcome(Agent!Set(cs, o, s), Agent!Unavailable)}
                \cup Agent!Discard(Agent!Set(cs, o, s), o) : s \in A}
      = UNION {{Outcome(Set(cs, o, s), Unavailable)} \cup Discard(Set(cs, o, s), o)
                 : s \in AfterStop(cs[o].status)}
  BY <1>3 DEF C, R
<1> QED
  BY <1>4, SameConstants, SameContainers, SameRun DEF Agent!StopOutcomes, StopOutcomes

\* Cleanup and STATUS.
LEMMA SameOthers ==
    /\ (\A cs, cmd : Agent!CleanupOutcomes(cs, cmd) = CleanupOutcomes(cs, cmd))
    /\ (\A cs, cmd : Agent!StatusOutcomes(cs, cmd) = StatusOutcomes(cs, cmd))
  BY SameRemoval, SameReport, SameConstants, SameContainers DEF Agent!CleanupOutcomes,
     CleanupOutcomes, Agent!StatusOutcomes, StatusOutcomes

\* Every command.
LEMMA SameDispatch ==
    \A cs, cmd : Agent!DispatchOutcomes(cs, cmd) = DispatchOutcomes(cs, cmd)
  BY SameConstants, SameStart, SameStop, SameOthers DEF Agent!DispatchOutcomes, DispatchOutcomes

\* What a container does by itself.
LEMMA SameEvents ==
    /\ (\A o, c : Agent!Progress(o, c) = Progress(o, c))
    /\ (\A cs, o, s : Agent!Evolve(cs, o, s) = Evolve(cs, o, s))
  BY SameConstants, SameContainers DEF Agent!Progress, Progress, Agent!Evolve, Evolve


-----------------------------------------------------------------------------
(***************************************************************************)
(* Commands and the agent.                                                 *)
(***************************************************************************)
\* Each call that is answered was answered by the runner.
Answered == \A c \in Callers : calls[c].state = "replied" => calls[c].reply \in Answers
AgentTyped ==
    /\ generations \in [Owners -> Nat] /\ starts \in [Owners -> [gen : Nat, gpus : SUBSET Gpus]]
    /\ containers \in [Owners -> Container]
CallsTyped == calls \in [Callers -> Calls] /\ late \subseteq Command /\ Answered

\* One command, served in time or late: it has one of the outcomes of the runner, or none.
LEMMA Served ==
    ASSUME AgentTyped, NEW cmd \in Command, NEW reply, Agent!Execute(cmd, reply)
    PROVE  /\ AgentTyped' /\ reply \in Answers
           /\ \/ UNCHANGED agent /\ (Agent!Stale(cmd) \/ Agent!Reused(cmd)) /\ reply = Rejected
              \/ \E out \in DispatchOutcomes(containers, cmd) :
                    /\ containers' = out.cs /\ reply = out.reply
                    /\ Shape(containers, cmd, containers')
                    /\ Agent!Admit(cmd)
<1>1. CASE Agent!Refuse(cmd, reply)
  BY <1>1, SameConstants, ReplyTypes DEF Agent!Refuse, Agent!vars, AgentTyped, agent
<1>2. CASE Agent!Perform(cmd, reply)
  <2>1. PICK out \in DispatchOutcomes(containers, cmd) : containers' = out.cs /\ reply = out.reply
    BY <1>2, SameDispatch DEF Agent!Perform
  <2>2. Shape(containers, cmd, containers') /\ reply \in Answers
    BY <2>1, DispatchShape, DispatchReplies DEF AgentTyped
  <2>3. containers' \in [Owners -> Container]
    BY <2>2 DEF Shape, Settled, Touches
  <2>4. Agent!Admit(cmd) /\ cmd.owner \in Owners /\ cmd.gen \in Nat /\ cmd.gpus \in SUBSET Gpus
    BY <1>2 DEF Agent!Perform, Command
  <2>5. generations' \in [Owners -> Nat]
    BY <2>4 DEF Agent!Admit, Agent!Larger, AgentTyped
  <2>6. starts' \in [Owners -> [gen : Nat, gpus : SUBSET Gpus]]
    <3>1. [gen |-> cmd.gen, gpus |-> cmd.gpus] \in [gen : Nat, gpus : SUBSET Gpus]
      BY <2>4
    <3> QED
      BY <2>4, <3>1 DEF Agent!Admit, AgentTyped
  <2> QED
    BY <2>1, <2>2, <2>3, <2>4, <2>5, <2>6 DEF AgentTyped
<1> QED
  BY <1>1, <1>2 DEF Agent!Execute

\* What a container does by itself.
LEMMA Evolves ==
    ASSUME AgentTyped, NEW o \in Owners, ContainerEvent(o)
    PROVE  /\ AgentTyped' /\ UNCHANGED <<generations, starts>>
           /\ Touches(containers, o, containers') /\ Evolved(containers[o], containers'[o])
           /\ containers[o].status \notin TerminalStatuses
<1>1. PICK s \in Progress(o, containers[o]) : containers' = Evolve(containers, o, s)
  BY SameEvents DEF ContainerEvent, Agent!ContainerEvent
<1> QED
  BY <1>1, ProgressShape DEF ContainerEvent, Agent!ContainerEvent, AgentTyped, Touches

\* A call that is sent carries a command.
LEMMA CallTypes ==
    ASSUME CallsTyped, NEW c \in Callers, calls[c].state \in {"sent", "replied"}
    PROVE  calls[c].cmd \in Command
BY DEF CallsTyped, Calls, NoCall

\* Calls are sent, answered, lost or given up.
LEMMA CallKept ==
    ASSUME CallsTyped, NEW c \in Callers, NEW call, calls' = [calls EXCEPT ![c] = call],
           \/ call = NoCall
           \/ \E cmd \in Command : call = Sent(cmd)
           \/ \E cmd \in Command, reply \in Answers : call = Replied(cmd, reply),
           late' \subseteq Command
    PROVE  CallsTyped'
<1>1. /\ call \in Calls
      /\ call.state = "replied" => call.reply \in Answers
  <2>1. CASE call = NoCall
    BY <2>1 DEF NoCall, Calls
  <2>2. ASSUME NEW cmd \in Command, call = Sent(cmd)
        PROVE  call \in Calls /\ call.state = "sent"
    BY <2>2 DEF Calls, Sent
  <2>3. ASSUME NEW cmd \in Command, NEW reply \in Answers, call = Replied(cmd, reply)
        PROVE  call \in Calls /\ call.reply \in Answers
    <3>1. reply \in Reply
      BY ReplyTypes
    <3> QED
      BY <2>3, <3>1 DEF Calls, Replied
  <2> QED
    BY <2>1, <2>2, <2>3 DEF NoCall
<1> QED
  BY <1>1 DEF CallsTyped, Answered

\* The steps of the agent and of the network change calls and containers only.
LEMMA AgentSteps ==
    ASSUME AgentTyped, CallsTyped,
           \/ \E c \in Callers : AgentServes(c) \/ CallFails(c)
           \/ \E cmd \in late : AgentServesLate(cmd)
           \/ \E o \in Owners : ContainerEvent(o)
    PROVE  AgentTyped' /\ CallsTyped' /\ UNCHANGED <<database, rec, api>>
<1>1. ASSUME NEW c \in Callers, AgentServes(c)
      PROVE  AgentTyped' /\ CallsTyped' /\ UNCHANGED <<database, rec, api>>
  <2>1. PICK reply \in Reply : /\ Agent!Execute(calls[c].cmd, reply)
                               /\ calls' = [calls EXCEPT ![c] = Replied(@.cmd, reply)]
    BY <1>1 DEF AgentServes
  <2>2. calls[c].cmd \in Command
    BY <1>1, CallTypes DEF AgentServes
  <2>3. AgentTyped' /\ reply \in Answers
    BY <2>1, <2>2, Served
  <2>4. late' = late /\ UNCHANGED <<database, rec, api>>
    BY <1>1 DEF AgentServes
  <2>5. calls' = [calls EXCEPT ![c] = Replied(calls[c].cmd, reply)] /\ late' \subseteq Command
    BY <2>1, <2>4 DEF CallsTyped
  <2> QED
    BY <2>2, <2>3, <2>4, <2>5, CallKept
<1>2. ASSUME NEW c \in Callers, CallFails(c)
      PROVE  AgentTyped' /\ CallsTyped' /\ UNCHANGED <<database, rec, api>>
  <2>1. calls[c].cmd \in Command
    BY <1>2, CallTypes DEF CallFails
  <2>2. calls' = [calls EXCEPT ![c] = Replied(calls[c].cmd, Unavailable)] /\ late' \subseteq Command
    BY <1>2, <2>1 DEF CallFails, CallsTyped
  <2> QED
    BY <1>2, <2>1, <2>2, CallKept, ReplyTypes DEF CallFails, agent, AgentTyped
<1>3. ASSUME NEW cmd \in late, AgentServesLate(cmd)
      PROVE  AgentTyped' /\ CallsTyped' /\ UNCHANGED <<database, rec, api>>
  BY <1>3, Served DEF AgentServesLate, CallsTyped, Answered
<1>4. ASSUME NEW o \in Owners, ContainerEvent(o)
      PROVE  AgentTyped' /\ CallsTyped' /\ UNCHANGED <<database, rec, api>>
  BY <1>4, Evolves DEF ContainerEvent, CallsTyped, Answered
<1> QED
  BY <1>1, <1>2, <1>3, <1>4

-----------------------------------------------------------------------------
(***************************************************************************)
(* Types of rows, changes and leases.                                      *)
(***************************************************************************)
\* What an API action makes of a row (create, start, stop, edit, terminate, cancel).
LEMMA ActionTypes ==
    /\ \A gs \in SUBSET Gpus : Create(gs).row \in Rows(Gpus)
    /\ \A row \in Rows(Gpus) :
          /\ StartDeployment(row).row \in Rows(Gpus)
          /\ StopDeployment(row).row \in Rows(Gpus)
          /\ EndJob(row).row \in Rows(Gpus)
          /\ \A gs \in SUBSET Gpus : EditDeployment(row, gs).row \in Rows(Gpus)
<1>1. ASSUME NEW gs \in SUBSET Gpus PROVE Create(gs).row \in Rows(Gpus)
  BY DEF Create, Change, Rows, ActualStates
<1>2. ASSUME NEW row \in Rows(Gpus)
      PROVE  StartDeployment(row).row \in Rows(Gpus)
  <2>1. row.version + 1 \in Nat
    BY DEF Rows
  <2>2. /\ [row EXCEPT !.desired = "run"] \in Rows(Gpus)
        /\ [row EXCEPT !.desired = "run", !.actual = "queued", !.version = @ + 1] \in Rows(Gpus)
    BY <2>1 DEF Rows, ActualStates
  <2> QED
    BY <2>2 DEF StartDeployment, Change, Only
<1>3. ASSUME NEW row \in Rows(Gpus)
      PROVE  StopDeployment(row).row \in Rows(Gpus)
  <2> DEFINE stopped == [row EXCEPT !.desired = "stop", !.version = @ + 1]
  <2>0. row.version + 1 \in Nat
    BY DEF Rows
  <2>1. stopped \in Rows(Gpus)
    BY <2>0 DEF Rows
  <2> HIDE DEF stopped
  <2>2. /\ [stopped EXCEPT !.actual = "stopped"] \in Rows(Gpus)
        /\ [stopped EXCEPT !.actual = "stopping"] \in Rows(Gpus)
    BY <2>1 DEF Rows, ActualStates, ActiveStates, ActiveDeploymentStates, TerminalStates
  <2>3. StopDeployment(row).row \in {stopped, [stopped EXCEPT !.actual = "stopped"],
                                     [stopped EXCEPT !.actual = "stopping"]}
    BY DEF StopDeployment, Change, Only, stopped
  <2> QED
    BY <2>1, <2>2, <2>3
<1>4. ASSUME NEW row \in Rows(Gpus)
      PROVE  EndJob(row).row \in Rows(Gpus)
  <2> DEFINE ended == [row EXCEPT !.desired = "stop", !.version = @ + 1]
  <2>0. row.version + 1 \in Nat
    BY DEF Rows
  <2>1. ended \in Rows(Gpus)
    BY <2>0 DEF Rows
  <2> HIDE DEF ended
  <2>2. /\ [ended EXCEPT !.actual = "canceled"] \in Rows(Gpus)
        /\ [ended EXCEPT !.actual = "canceling"] \in Rows(Gpus)
    BY <2>1 DEF Rows, ActualStates, ActiveStates, ActiveJobStates, TerminalStates
  <2>3. EndJob(row).row \in {ended, [ended EXCEPT !.actual = "canceled"],
                             [ended EXCEPT !.actual = "canceling"]}
    BY DEF EndJob, Change, Only, ended
  <2> QED
    BY <2>1, <2>2, <2>3
<1>5. ASSUME NEW row \in Rows(Gpus), NEW gs \in SUBSET Gpus
      PROVE  EditDeployment(row, gs).row \in Rows(Gpus)
  <2>1. row.version + 1 \in Nat
    BY DEF Rows
  <2>2. [row EXCEPT !.gpus = gs, !.version = @ + 1] \in Rows(Gpus)
    BY <2>1 DEF Rows
  <2> QED
    BY <2>2 DEF EditDeployment, Change, Only
<1> QED
  BY <1>1, <1>2, <1>3, <1>4, <1>5

\* What an observation makes of a row: an answer that is not an error has a state the code knows.
LEMMA ObservationTypes ==
    ASSUME NEW row \in Rows(Gpus), NEW reply \in Answers, reply # Unavailable
    PROVE  /\ ObserveDeployment(row, reply).row \in Rows(Gpus)
           /\ \A change \in ObserveJob(row, reply) : change.row \in Rows(Gpus)
           /\ FailStart(row).row \in Rows(Gpus)
<1>1. reply.state \in {"absent", "failed", "succeeded"} \cup Busy
  BY ReplyTypes DEF Reply, Busy
<1>2. row.desired \in {"run", "stop"}
  BY DEF Rows
<1>3. \A s \in ActualStates : [row EXCEPT !.actual = s] \in Rows(Gpus)
  BY DEF Rows
<1>4. [row EXCEPT !.actual = "queued", !.rgen = 0] \in Rows(Gpus)
  BY DEF Rows, ActualStates
<1>5. {"stopped", "failed", "canceled", "succeeded", "stopping", "canceling"} \cup Busy
        \subseteq ActualStates
  BY DEF ActualStates, ActiveStates, ActiveDeploymentStates, ActiveJobStates, TerminalStates, Busy
<1>6. ObserveDeployment(row, reply).row \in Rows(Gpus)
  <2>1. CASE reply.state = "absent"
    <3>1. CASE row.desired = "run"
      <4>1. ObserveDeployment(row, reply)
               = Change([row EXCEPT !.actual = "queued", !.rgen = 0], "set", TRUE)
        BY <2>1, <3>1 DEF ObserveDeployment, Busy
      <4> QED
        BY <4>1, <1>4 DEF Change
    <3>2. CASE row.desired = "stop"
      <4>1. [row EXCEPT !.actual = "stopped"] \in Rows(Gpus)
        BY <1>3, <1>5
      <4> QED
        BY <2>1, <3>2, <4>1 DEF ObserveDeployment, Change, Busy
    <3> QED
      BY <1>2, <3>1, <3>2
  <2>2. CASE reply.state \in {"failed", "succeeded"}
    <3>1. [row EXCEPT !.actual = "failed"] \in Rows(Gpus)
      BY <1>3, <1>5
    <3>2. ObserveDeployment(row, reply) = Change([row EXCEPT !.actual = "failed"], "keep", TRUE)
      BY <2>2 DEF ObserveDeployment, Busy
    <3> QED
      BY <3>1, <3>2 DEF Change
  <2>3. CASE reply.state \in Busy
    BY <2>3, <1>3, <1>5 DEF ObserveDeployment, Change, Only, Busy
  <2> QED
    BY <1>1, <2>1, <2>2, <2>3
<1>7. ASSUME NEW s \in JobStatesAfter(row, reply) PROVE s \in ActualStates
  <2>1. CASE reply.state = "absent"
    BY <1>7, <2>1, <1>5 DEF JobStatesAfter
  <2>2. CASE reply.state \in {"failed", "succeeded"}
    BY <1>7, <2>2, <1>5 DEF JobStatesAfter
  <2>3. CASE reply.state \in Busy
    BY <1>7, <2>3, <1>5 DEF JobStatesAfter, Busy
  <2> QED
    BY <1>1, <2>1, <2>2, <2>3
<1>8. ASSUME NEW change \in ObserveJob(row, reply) PROVE change.row \in Rows(Gpus)
  BY <1>3, <1>7, <1>8 DEF ObserveJob, Change
<1>9. FailStart(row).row \in Rows(Gpus)
  BY <1>3, <1>5 DEF FailStart, Change
<1> QED
  BY <1>6, <1>8, <1>9

\* The columns a request changed, over the row of today.
LEMMA MergeShape ==
    ASSUME NEW now \in Rows(Gpus), NEW read \in Rows(Gpus), NEW written \in Rows(Gpus)
    PROVE  /\ Merge(now, read, written) \in Rows(Gpus)
           /\ Merge(now, read, written).actual
                = IF written.actual # read.actual THEN written.actual ELSE now.actual
<1> DEFINE Columns == {"actual", "desired", "version", "rgen", "gpus"}
           m == Merge(now, read, written)
<1>1. DOMAIN now = Columns
  BY DEF Rows
<1>2. m = [f \in Columns |-> IF written[f] # read[f] THEN written[f] ELSE now[f]]
  BY <1>1 DEF Merge
<1>3. m = [actual |-> m.actual, desired |-> m.desired, version |-> m.version,
           rgen |-> m.rgen, gpus |-> m.gpus]
  BY <1>2
<1>4. /\ m.actual \in ActualStates /\ m.desired \in {"run", "stop"}
      /\ m.version \in Nat /\ m.rgen \in Nat /\ m.gpus \in SUBSET Gpus
      /\ m.actual = IF written.actual # read.actual THEN written.actual ELSE now.actual
  BY <1>2 DEF Rows
<1> HIDE DEF m
<1>5. m \in Rows(Gpus)
  BY <1>3, <1>4 DEF Rows
<1> QED
  BY <1>4, <1>5 DEF m

\* The lease table stays one.
LEMMA LeaseTypes ==
    ASSUME NEW ls \in SUBSET LeaseRows(Owners, Gpus), NEW o \in Owners, NEW gen \in Nat
    PROVE  /\ Release(ls, o, gen) \in SUBSET LeaseRows(Owners, Gpus)
           /\ ReleaseAll(ls, o) \in SUBSET LeaseRows(Owners, Gpus)
           /\ Heartbeat(ls, o, gen) \in SUBSET LeaseRows(Owners, Gpus)
           /\ Expired(ls, o, gen) \in SUBSET LeaseRows(Owners, Gpus)
           /\ \A gs \in SUBSET Gpus : Acquired(ls, o, gen, gs) \in SUBSET LeaseRows(Owners, Gpus)
           /\ \A keys : Reaped(ls, keys) \in SUBSET LeaseRows(Owners, Gpus)
<1>1. \A l \in ls, b \in BOOLEAN : [l EXCEPT !.expired = b] \in LeaseRows(Owners, Gpus)
  BY DEF LeaseRows
<1>2. Heartbeat(ls, o, gen) \in SUBSET LeaseRows(Owners, Gpus)
  BY <1>1 DEF Heartbeat, OwnedAt, Renewed
<1>3. Expired(ls, o, gen) \in SUBSET LeaseRows(Owners, Gpus)
  BY <1>1 DEF Expired, OwnedAt
<1>4. ASSUME NEW gs \in SUBSET Gpus PROVE Acquired(ls, o, gen, gs) \in SUBSET LeaseRows(Owners, Gpus)
  BY DEF Acquired, Owned, LeaseRows
<1> QED
  BY <1>2, <1>3, <1>4 DEF Release, ReleaseAll, Reaped

-----------------------------------------------------------------------------
(***************************************************************************)
(* The queue.                                                              *)
(***************************************************************************)
\* Taking an owner out of the queue leaves a queue, and everyone else in it.
LEMMA WithoutShape ==
    ASSUME queue \in Seq(Owners), NEW o
    PROVE  /\ Without(o) \in Seq(Owners)
           /\ \A i \in 1..Len(queue) :
                 queue[i] # o => \E k \in 1..Len(Without(o)) : Without(o)[k] = queue[i]
<1>1. CASE ~Queued(o)
  BY <1>1 DEF Without
<1>2. CASE Queued(o)
  <2> DEFINE j == CHOOSE i \in 1..Len(queue) : queue[i] = o
             before == SubSeq(queue, 1, j - 1)
             after == SubSeq(queue, j + 1, Len(queue))
             rest == before \o after
  <2>1. j \in 1..Len(queue) /\ queue[j] = o
    BY <1>2 DEF Queued
  <2>2. Without(o) = rest
    BY <1>2 DEF Without, SequencesExt!RemoveAt
  <2> HIDE DEF j
  <2>3. /\ before \in Seq(Owners) /\ Len(before) = j - 1
        /\ \A i \in 1..(j - 1) : before[i] = queue[i]
    BY <2>1
  <2>4. /\ after \in Seq(Owners) /\ Len(after) = Len(queue) - j
        /\ \A i \in 1..(Len(queue) - j) : after[i] = queue[j + i]
    BY <2>1
  <2> HIDE DEF before, after
  <2>5. /\ rest \in Seq(Owners) /\ Len(rest) = Len(queue) - 1
        /\ \A k \in 1..(j - 1) : rest[k] = queue[k]
        /\ \A k \in j..(Len(queue) - 1) : rest[k] = queue[k + 1]
    <3>1. /\ rest \in Seq(Owners) /\ Len(rest) = Len(before) + Len(after)
          /\ \A i \in 1..(Len(before) + Len(after)) :
                rest[i] = IF i <= Len(before) THEN before[i] ELSE after[i - Len(before)]
      BY <2>3, <2>4, ConcatProperties
    <3>2. Len(queue) \in Nat /\ j \in Nat /\ Len(before) + Len(after) = Len(queue) - 1
      BY <2>1, <2>3, <2>4
    <3>3. ASSUME NEW k \in 1..(j - 1) PROVE rest[k] = queue[k]
      BY <2>1, <2>3, <2>4, <3>1
    <3>4. ASSUME NEW k \in j..(Len(queue) - 1) PROVE rest[k] = queue[k + 1]
      <4>1. k \in 1..(Len(before) + Len(after)) /\ ~(k <= Len(before))
        BY <2>3, <3>2, <3>4
      <4>2. k - Len(before) \in 1..(Len(queue) - j) /\ j + (k - Len(before)) = k + 1
        BY <2>3, <3>2, <3>4
      <4> QED
        BY <2>4, <3>1, <4>1, <4>2
    <3> QED
      BY <3>1, <3>2, <3>3, <3>4
  <2> HIDE DEF rest
  <2>6. ASSUME NEW i \in 1..Len(queue), queue[i] # o
        PROVE  \E k \in 1..Len(rest) : rest[k] = queue[i]
    <3>1. CASE i < j
      <4>1. i \in 1..(j - 1) /\ i \in 1..Len(rest)
        BY <2>1, <2>5, <3>1
      <4> QED
        BY <2>5, <4>1
    <3>2. CASE i > j
      <4>1. i - 1 \in j..(Len(queue) - 1) /\ i - 1 \in 1..Len(rest) /\ (i - 1) + 1 = i
        BY <2>1, <2>5, <3>2
      <4> QED
        BY <2>5, <4>1
    <3> QED
      BY <2>1, <2>6, <3>1, <3>2
  <2> QED
    BY <2>2, <2>5, <2>6
<1> QED
  BY <1>1, <1>2

-----------------------------------------------------------------------------
(***************************************************************************)
(* Types.  Beyond TypeOK: a reconciler that waits for an answer knows what *)
(* it asked about, and every answer is one that the agent gives.           *)
(***************************************************************************)
DatabaseTyped ==
    /\ rows \in [Owners -> Rows(Gpus)] /\ queue \in Seq(Owners)
    /\ leases \in SUBSET LeaseRows(Owners, Gpus)
RecTyped == rec \in Reconciling /\ (rec.pc = "waiting" => rec.w \in Snapshots)
ApiTyped == api \in [Clients -> Requests]
Typed == DatabaseTyped /\ RecTyped /\ ApiTyped /\ CallsTyped /\ AgentTyped

\* A transaction keeps the tables typed.
LEMMA WriteTypes ==
    ASSUME DatabaseTyped, NEW o \in Owners, NEW change, change.row \in Rows(Gpus),
           NEW ls \in SUBSET LeaseRows(Owners, Gpus), Write(o, change, ls)
    PROVE  DatabaseTyped'
<1>1. Without(o) \in Seq(Owners)
  BY WithoutShape DEF DatabaseTyped
<1>2. QueueAfter(o, change.queued) \in Seq(Owners)
  BY <1>1 DEF QueueAfter, DatabaseTyped
<1> QED
  BY <1>2 DEF Write, DatabaseTyped

\* What the reconciler takes from a row.
LEMMA SnapshotTypes ==
    ASSUME DatabaseTyped, NEW o \in Owners
    PROVE  Snapshot(o) \in Snapshots
<1>1. rows[o] \in Rows(Gpus)
  BY DEF DatabaseTyped
<1> QED
  BY <1>1 DEF Snapshot, Snapshots, RuntimeGeneration, Rows

\* A command about a snapshot.
LEMMA CommandTypes ==
    ASSUME NEW w \in Snapshots, NEW action \in Actions
    PROVE  CommandFor(action, w) \in Command
BY DEF CommandFor, Command, Snapshots

\* The stages of a round.
LEMMA StageTypes ==
    /\ \A pc \in {"idle", "reaping", "claiming"} :
          At(pc) \in Reconciling /\ At(pc).pc = pc /\ At(pc).todo = {}
    /\ \A todo \in SUBSET Snapshots :
          Polling(todo) \in Reconciling /\ Polling(todo).pc = "polling" /\ Polling(todo).todo = todo
    /\ \A stage \in {"poll", "probe", "stop", "start"}, w \in Snapshots, todo \in SUBSET Snapshots :
          /\ Waiting(stage, w, todo) \in Reconciling /\ Waiting(stage, w, todo).pc = "waiting"
          /\ Waiting(stage, w, todo).w = w /\ Waiting(stage, w, todo).todo = todo
          /\ Waiting(stage, w, todo).stage = stage
BY DEF At, Polling, Waiting, Reconciling

\* An observation keeps the tables typed.
LEMMA ApplyTypes ==
    ASSUME DatabaseTyped, NEW w \in Snapshots, NEW reply \in Answers, reply # Unavailable,
           Apply(w, reply)
    PROVE  DatabaseTyped'
<1> DEFINE o == w.owner
           renewed == IF reply.state \in Busy THEN Heartbeat(leases, o, w.gen) ELSE leases
<1>1. o \in Owners /\ w.gen \in Nat /\ rows[o] \in Rows(Gpus)
  BY DEF Snapshots, DatabaseTyped
<1>2. CASE UNCHANGED database
  BY <1>2 DEF database, DatabaseTyped
<1>3. ASSUME NEW change \in IF o \in Deployments THEN {ObserveDeployment(rows[o], reply)}
                                                 ELSE ObserveJob(rows[o], reply),
             Write(o, change, IF change.release THEN Release(leases, o, w.gen) ELSE renewed)
      PROVE  DatabaseTyped'
  <2>1. change.row \in Rows(Gpus)
    BY <1>1, ObservationTypes
  <2>2. /\ Release(leases, o, w.gen) \in SUBSET LeaseRows(Owners, Gpus)
        /\ renewed \in SUBSET LeaseRows(Owners, Gpus)
    BY <1>1, LeaseTypes DEF DatabaseTyped
  <2> QED
    BY <1>1, <1>3, <2>1, <2>2, WriteTypes
<1> QED
  BY <1>2, <1>3 DEF Apply

\* The reconciler's own steps.
LEMMA ReconcileTypes ==
    ASSUME PlatformAssumption, Typed, Reconcile \/ RoundAborts
    PROVE  Typed'
<1> USE DEF Callers
<1>r. Reconciler \in Callers
  OBVIOUS
<1>t. rec.todo \in SUBSET Snapshots
  BY DEF Typed, RecTyped, Reconciling
<1>c. ASSUME calls[Reconciler].state = "replied"
      PROVE  calls[Reconciler].reply \in Answers
  BY <1>c, <1>r DEF Typed, CallsTyped, Answered
<1>1. CASE BeginRound
  <2>1. {Snapshot(o) : o \in {p \in Owners : IsActive(rows[p])}} \in SUBSET Snapshots
    BY SnapshotTypes DEF Typed
  <2>2. RecTyped'
    BY <1>1, <2>1, StageTypes DEF BeginRound, RecTyped
  <2> QED
    BY <1>1, <2>2 DEF BeginRound, Typed, database, DatabaseTyped, agent, ApiTyped, CallsTyped,
       AgentTyped, Answered
<1>2. CASE Poll
  <2>1. PICK w \in rec.todo, action \in {"stop", "status"}, stage \in {"poll", "probe"} :
              /\ calls' = [calls EXCEPT ![Reconciler] = Sent(CommandFor(action, w))]
              /\ rec' = Waiting(stage, w, rec.todo \ {w})
    BY <1>2 DEF Poll
  <2>2. w \in Snapshots /\ rec.todo \ {w} \in SUBSET Snapshots
    BY <1>t
  <2>3. RecTyped'
    BY <2>1, <2>2, StageTypes DEF RecTyped
  <2>4. CommandFor(action, w) \in Command
    BY <2>2, CommandTypes DEF Actions
  <2>5. UNCHANGED <<database, api, late, agent>>
    BY <1>2 DEF Poll
  <2>6. late' \subseteq Command
    BY <2>5 DEF Typed, CallsTyped
  <2>7. CallsTyped'
    BY <1>r, <2>1, <2>4, <2>6, CallKept DEF Typed
  <2> QED
    BY <2>3, <2>5, <2>7 DEF Typed, database, DatabaseTyped, agent, ApiTyped, AgentTyped
<1>3. CASE PollingDone
  BY <1>3, StageTypes DEF PollingDone, Typed, database, DatabaseTyped, agent, ApiTyped, CallsTyped,
     AgentTyped, Answered, RecTyped
<1>4. CASE ObserveReply
  <2> DEFINE reply == calls[Reconciler].reply
  <2>1. rec.w \in Snapshots /\ reply \in Answers
    BY <1>4, <1>c DEF ObserveReply, Typed, RecTyped
  <2>2. DatabaseTyped'
    <3>1. CASE UNCHANGED database
      BY <3>1 DEF Typed, DatabaseTyped, database
    <3>2. CASE reply # Unavailable /\ Apply(rec.w, reply)
      BY <2>1, <3>2, ApplyTypes DEF Typed
    <3> QED
      BY <1>4, <3>1, <3>2 DEF ObserveReply
  <2>3. \/ rec' = Waiting("stop", rec.w, rec.todo)
        \/ rec' = Polling(rec.todo)
    BY <1>4 DEF ObserveReply
  <2>4. RecTyped'
    BY <1>t, <2>1, <2>3, StageTypes DEF RecTyped
  <2>5. PICK call : /\ calls' = [calls EXCEPT ![Reconciler] = call]
                    /\ call = NoCall \/ call = Sent(CommandFor("stop", rec.w))
    BY <1>4 DEF ObserveReply
  <2>6. CommandFor("stop", rec.w) \in Command
    BY <2>1, CommandTypes DEF Actions
  <2>7. UNCHANGED <<api, late, agent>> /\ late' \subseteq Command
    BY <1>4 DEF ObserveReply, Typed, CallsTyped
  <2>8. CallsTyped'
    BY <1>r, <2>5, <2>6, <2>7, CallKept DEF Typed
  <2> QED
    BY <2>2, <2>4, <2>7, <2>8 DEF Typed, agent, ApiTyped, AgentTyped
<1>5. CASE Reap
  <2>1. leases' \in SUBSET LeaseRows(Owners, Gpus)
    BY <1>5 DEF Reap, Reaped, Typed, DatabaseTyped
  <2>2. RecTyped'
    BY <1>5, StageTypes DEF Reap, RecTyped
  <2> QED
    BY <1>5, <2>1, <2>2 DEF Reap, Typed, DatabaseTyped, agent, ApiTyped, AgentTyped, CallsTyped,
       Answered
<1>6. CASE ClaimNothing \/ \E o \in Owners : ClaimRaises(o)
  <2>1. rec' = At("idle") /\ UNCHANGED <<database, api, calls, late, agent>>
    BY <1>6 DEF ClaimNothing, ClaimRaises
  <2>2. RecTyped'
    BY <2>1, StageTypes DEF RecTyped
  <2> QED
    BY <2>1, <2>2 DEF Typed, database, DatabaseTyped, agent, ApiTyped, CallsTyped, AgentTyped,
       Answered
<1>7. CASE StartReply
  <2> DEFINE reply == calls[Reconciler].reply
             o == rec.w.owner
  <2>1. rec.w \in Snapshots /\ reply \in Answers
    BY <1>7, <1>c DEF StartReply, Typed, RecTyped
  <2>2. o \in Owners /\ rec.w.gen \in Nat /\ rows[o] \in Rows(Gpus)
    BY <2>1 DEF Snapshots, Typed, DatabaseTyped
  <2>3. DatabaseTyped'
    <3>1. CASE UNCHANGED database
      BY <3>1 DEF Typed, DatabaseTyped, database
    <3>2. CASE reply.accepted /\ Apply(rec.w, reply)
      <4>1. reply # Unavailable
        BY <3>2 DEF Unavailable
      <4> QED
        BY <2>1, <3>2, <4>1, ApplyTypes DEF Typed
    <3>3. CASE reply # Unavailable /\ Write(o, FailStart(rows[o]), Release(leases, o, rec.w.gen))
      <4>1. FailStart(rows[o]).row \in Rows(Gpus)
        BY <2>1, <2>2, <3>3, ObservationTypes
      <4>2. Release(leases, o, rec.w.gen) \in SUBSET LeaseRows(Owners, Gpus)
        BY <2>2, LeaseTypes DEF Typed, DatabaseTyped
      <4> QED
        BY <2>2, <3>3, <4>1, <4>2, WriteTypes DEF Typed
    <3>4. \/ UNCHANGED database
          \/ reply.accepted /\ Apply(rec.w, reply)
          \/ reply # Unavailable /\ Write(o, FailStart(rows[o]), Release(leases, o, rec.w.gen))
      <4>1. CASE reply = Unavailable
        <5>1. ~reply.accepted
          BY <4>1 DEF Unavailable
        <5> QED
          BY <1>7, <4>1, <5>1 DEF StartReply
      <4>2. CASE reply # Unavailable /\ reply.accepted
        BY <1>7, <4>2 DEF StartReply
      <4>3. CASE reply # Unavailable /\ ~reply.accepted
        BY <1>7, <4>3 DEF StartReply
      <4> QED
        BY <4>1, <4>2, <4>3
    <3> QED
      BY <3>1, <3>2, <3>3, <3>4
  <2>4. rec' = At("claiming") /\ calls' = [calls EXCEPT ![Reconciler] = NoCall]
        /\ UNCHANGED <<api, late, agent>>
    BY <1>7 DEF StartReply
  <2>5. RecTyped'
    BY <2>4, StageTypes DEF RecTyped
  <2>6. CallsTyped'
    BY <1>r, <2>4, CallKept DEF Typed, CallsTyped
  <2> QED
    BY <2>3, <2>4, <2>5, <2>6 DEF Typed, agent, ApiTyped, AgentTyped
<1>8. ASSUME NEW o \in Owners, ClaimPreflightFails(o)
      PROVE  Typed'
  <2> DEFINE change == Change([rows[o] EXCEPT !.actual = "failed", !.rgen = 0], "clear", FALSE)
  <2>1. rows[o] \in Rows(Gpus)
    BY DEF Typed, DatabaseTyped
  <2>2. change.row \in Rows(Gpus)
    BY <2>1 DEF Change, Rows, ActualStates, TerminalStates
  <2>3. Write(o, change, leases)
    BY <1>8 DEF ClaimPreflightFails
  <2> HIDE DEF change
  <2>4. DatabaseTyped'
    BY <2>2, <2>3, WriteTypes DEF Typed, DatabaseTyped
  <2> QED
    BY <1>8, <2>4 DEF ClaimPreflightFails, Typed, agent, ApiTyped, AgentTyped, CallsTyped, Answered,
       RecTyped
<1>9. ASSUME NEW o \in Owners, ClaimBlocked(o)
      PROVE  Typed'
  <2>1. rows[o] \in Rows(Gpus)
    BY DEF Typed, DatabaseTyped
  <2>2. [rows[o] EXCEPT !.rgen = 0] \in Rows(Gpus)
    BY <2>1 DEF Rows
  <2>3. rows' \in [Owners -> Rows(Gpus)]
    BY <1>9, <2>2 DEF ClaimBlocked, Typed, DatabaseTyped
  <2>4. RecTyped'
    BY <1>9, StageTypes DEF ClaimBlocked, RecTyped
  <2> QED
    BY <1>9, <2>3, <2>4 DEF ClaimBlocked, Typed, DatabaseTyped, agent, ApiTyped, AgentTyped,
       CallsTyped, Answered
<1>10. ASSUME NEW o \in Owners, Claim(o)
       PROVE  Typed'
  <2> DEFINE row == rows[o]
             w == [owner |-> o, gen |-> row.version, gpus |-> row.gpus, desired |-> row.desired]
             change == Change([row EXCEPT !.actual = "starting", !.rgen = row.version],
                              "clear", FALSE)
  <2>1. row \in Rows(Gpus)
    BY DEF Typed, DatabaseTyped
  <2>2. change.row \in Rows(Gpus)
    BY <2>1 DEF Change, Rows, ActualStates, ActiveStates, ActiveJobStates
  <2>3. w \in Snapshots
    BY <2>1 DEF Snapshots, Rows
  <2>4. Acquired(leases, o, row.version, row.gpus) \in SUBSET LeaseRows(Owners, Gpus)
    BY <2>1, LeaseTypes DEF Typed, DatabaseTyped, Rows
  <2>5. /\ Write(o, change, Acquired(leases, o, row.version, row.gpus))
        /\ calls' = [calls EXCEPT ![Reconciler] = Sent(CommandFor("start", w))]
        /\ rec' = Waiting("start", w, {})
        /\ UNCHANGED <<api, late, agent>>
    BY <1>10 DEF Claim
  <2> HIDE DEF change, w
  <2>6. DatabaseTyped'
    BY <2>2, <2>4, <2>5, WriteTypes DEF Typed
  <2>7. CommandFor("start", w) \in Command
    BY <2>3, CommandTypes DEF Actions
  <2>8. CallsTyped'
    BY <1>r, <2>5, <2>7, CallKept DEF Typed, CallsTyped
  <2>9. RecTyped'
    BY <2>3, <2>5, StageTypes DEF RecTyped
  <2> QED
    BY <2>5, <2>6, <2>8, <2>9 DEF Typed, agent, ApiTyped, AgentTyped
<1>11. CASE RoundAborts
  <2>1. rec' = At("idle") /\ calls' = [calls EXCEPT ![Reconciler] = NoCall]
        /\ UNCHANGED <<database, api, agent>>
    BY <1>11 DEF RoundAborts
  <2>2. late' \subseteq Command
    BY <1>11, <1>r, CallTypes DEF RoundAborts, Typed, CallsTyped
  <2>3. CallsTyped'
    BY <1>r, <2>1, <2>2, CallKept DEF Typed
  <2>4. RecTyped'
    BY <2>1, StageTypes DEF RecTyped
  <2> QED
    BY <2>1, <2>3, <2>4 DEF Typed, database, DatabaseTyped, agent, ApiTyped, AgentTyped
<1> QED
  BY <1>1, <1>2, <1>3, <1>4, <1>5, <1>6, <1>7, <1>8, <1>9, <1>10, <1>11 DEF Reconcile

\* What a request has read and what it writes.
LEMMA WrittenTypes ==
    ASSUME PlatformAssumption, ApiTyped, NEW c \in Clients, NEW change \in Written(api[c])
    PROVE  /\ api[c].kind \in {"start", "stop", "edit", "cancel"}
           /\ api[c].owner \in Owners /\ api[c].read \in Rows(Gpus)
           /\ change.row \in Rows(Gpus)
<1>1. api[c].kind \in {"start", "stop", "edit", "cancel"}
  BY DEF Written
<1>2. api[c].owner \in Owners /\ api[c].read \in Rows(Gpus)
  BY <1>1 DEF ApiTyped, Requests, NoRequest
<1>3. \A gs \in Groups : gs \in SUBSET Gpus
  BY DEF PlatformAssumption
<1>4. change.row \in Rows(Gpus)
  BY <1>1, <1>2, <1>3, ActionTypes DEF Written
<1> QED
  BY <1>1, <1>2, <1>4

\* The steps of the HTTP API and the expiry of leases.
LEMMA RequestTypes ==
    ASSUME PlatformAssumption, Typed, Request \/ \E o \in Owners : LeaseExpires(o)
    PROVE  Typed'
<1> USE DEF Callers
<1>n. NoRequest \in Requests
  BY DEF Requests
<1>1. ASSUME NEW o \in Owners, NEW gs \in Groups, CreateWorkload(o, gs)
      PROVE  Typed'
  <2>1. gs \in SUBSET Gpus
    BY DEF PlatformAssumption
  <2>2. Create(gs).row \in Rows(Gpus)
    BY <2>1, ActionTypes
  <2>3. DatabaseTyped'
    BY <1>1, <2>2, WriteTypes DEF CreateWorkload, Typed, DatabaseTyped
  <2> QED
    BY <1>1, <2>3 DEF CreateWorkload, Typed, agent, ApiTyped, AgentTyped, CallsTyped, Answered,
       RecTyped
<1>2. ASSUME NEW o \in Owners, TerminateTraining(o)
      PROVE  Typed'
  <2>1. rows[o] \in Rows(Gpus)
    BY DEF Typed, DatabaseTyped
  <2>2. EndJob(rows[o]).row \in Rows(Gpus)
    BY <2>1, ActionTypes
  <2>3. DatabaseTyped'
    BY <1>2, <2>2, WriteTypes DEF TerminateTraining, Typed, DatabaseTyped
  <2> QED
    BY <1>2, <2>3 DEF TerminateTraining, Typed, agent, ApiTyped, AgentTyped, CallsTyped, Answered,
       RecTyped
<1>3. ASSUME NEW c \in Clients, NEW o \in Owners, ReadRow(c, o)
      PROVE  Typed'
  <2>1. PICK kind \in Kinds(o) :
            api' = [api EXCEPT ![c] = [kind |-> kind, owner |-> o, read |-> rows[o],
                                       queued |-> Queued(o)]]
    BY <1>3 DEF ReadRow
  <2>2. kind \in {"start", "stop", "edit", "cancel"} /\ rows[o] \in Rows(Gpus)
    BY DEF Kinds, Typed, DatabaseTyped
  <2>3. Queued(o) \in BOOLEAN
    BY DEF Queued
  <2>4. [kind |-> kind, owner |-> o, read |-> rows[o], queued |-> Queued(o)] \in Requests
    BY <2>2, <2>3 DEF Requests
  <2>5. ApiTyped'
    BY <2>1, <2>4 DEF Typed, ApiTyped
  <2> QED
    BY <1>3, <2>5 DEF ReadRow, Typed, agent, database, DatabaseTyped, AgentTyped, CallsTyped,
       Answered, RecTyped
<1>4. ASSUME NEW c \in Clients, NEW o \in Owners, BeginDelete(c, o)
      PROVE  Typed'
  <2>1. [kind |-> "deleting", owner |-> o] \in Requests
    BY DEF Requests
  <2>2. api' = [api EXCEPT ![c] = [kind |-> "deleting", owner |-> o]]
        /\ calls' = [calls EXCEPT ![c] = Sent(CommandFor("cleanup", Snapshot(o)))]
        /\ UNCHANGED <<database, rec, late, agent>>
    BY <1>4 DEF BeginDelete
  <2>3. ApiTyped'
    BY <2>1, <2>2 DEF Typed, ApiTyped
  <2>4. CommandFor("cleanup", Snapshot(o)) \in Command
    BY SnapshotTypes, CommandTypes DEF Actions, Typed
  <2>5. CallsTyped'
    BY <2>2, <2>4, CallKept DEF Typed, CallsTyped
  <2> QED
    BY <2>2, <2>3, <2>5 DEF Typed, agent, database, DatabaseTyped, AgentTyped, RecTyped
<1>5. ASSUME NEW c \in Clients, CommitRow(c)
      PROVE  Typed'
  <2>0. PICK change \in Written(api[c]) : \E queued :
              IF Exist(rows[api[c].owner])
              THEN Write(api[c].owner,
                         Change(Merge(rows[api[c].owner], api[c].read, change.row), queued, FALSE),
                         leases)
              ELSE UNCHANGED database
    BY <1>5 DEF CommitRow
  <2>1. PICK queued :
              IF Exist(rows[api[c].owner])
              THEN Write(api[c].owner,
                         Change(Merge(rows[api[c].owner], api[c].read, change.row), queued, FALSE),
                         leases)
              ELSE UNCHANGED database
    BY <2>0
  <2> DEFINE o == api[c].owner
             merged == Change(Merge(rows[o], api[c].read, change.row), queued, FALSE)
  <2>2. o \in Owners /\ api[c].read \in Rows(Gpus) /\ change.row \in Rows(Gpus)
    BY WrittenTypes DEF Typed
  <2>3. rows[o] \in Rows(Gpus)
    BY <2>2 DEF Typed, DatabaseTyped
  <2>4. merged.row \in Rows(Gpus)
    BY <2>2, <2>3, MergeShape DEF Change
  <2>5. UNCHANGED database \/ Write(o, merged, leases)
    BY <2>1
  <2> HIDE DEF merged
  <2>6. DatabaseTyped'
    <3>1. CASE UNCHANGED database
      BY <3>1 DEF Typed, DatabaseTyped, database
    <3>2. CASE Write(o, merged, leases)
      BY <2>2, <2>4, <3>2, WriteTypes DEF Typed, DatabaseTyped
    <3> QED
      BY <2>5, <3>1, <3>2
  <2>7. api' = [api EXCEPT ![c] = NoRequest] /\ UNCHANGED <<rec, calls, late, agent>>
    BY <1>5 DEF CommitRow
  <2>8. ApiTyped'
    BY <1>n, <2>7 DEF Typed, ApiTyped
  <2> QED
    BY <2>6, <2>7, <2>8 DEF Typed, agent, AgentTyped, CallsTyped, Answered, RecTyped
<1>6. ASSUME NEW c \in Clients, FinishDelete(c)
      PROVE  Typed'
  <2> DEFINE o == api[c].owner
             change == Change([NoRow EXCEPT !.version = MaxVersion], "clear", FALSE)
  <2>1. o \in Owners
    BY <1>6 DEF FinishDelete, Typed, ApiTyped, Requests, NoRequest
  <2>2. change.row \in Rows(Gpus)
    BY DEF Change, NoRow, Rows, PlatformAssumption, ActualStates
  <2>3. UNCHANGED database \/ Write(o, change, ReleaseAll(leases, o))
    BY <1>6 DEF FinishDelete
  <2> HIDE DEF change
  <2>4. ReleaseAll(leases, o) \in SUBSET LeaseRows(Owners, Gpus)
    BY DEF ReleaseAll, Typed, DatabaseTyped
  <2>5. DatabaseTyped'
    <3>1. CASE UNCHANGED database
      BY <3>1 DEF Typed, DatabaseTyped, database
    <3>2. CASE Write(o, change, ReleaseAll(leases, o))
      BY <2>1, <2>2, <2>4, <3>2, WriteTypes DEF Typed
    <3> QED
      BY <2>3, <3>1, <3>2
  <2>6. api' = [api EXCEPT ![c] = NoRequest] /\ calls' = [calls EXCEPT ![c] = NoCall]
        /\ UNCHANGED <<rec, late, agent>>
    BY <1>6 DEF FinishDelete
  <2>7. ApiTyped' /\ CallsTyped'
    BY <1>n, <2>6, CallKept DEF Typed, ApiTyped, CallsTyped
  <2> QED
    BY <2>5, <2>6, <2>7 DEF Typed, agent, AgentTyped, RecTyped
<1>7. ASSUME NEW o \in Owners, LeaseExpires(o)
      PROVE  Typed'
  <2>1. PICK l \in Owned(leases, o) : leases' = Expired(leases, o, l.gen)
    BY <1>7 DEF LeaseExpires
  <2>2. l.gen \in Nat
    BY DEF Owned, Typed, DatabaseTyped, LeaseRows
  <2>3. leases' \in SUBSET LeaseRows(Owners, Gpus)
    BY <2>1, <2>2, LeaseTypes DEF Typed, DatabaseTyped
  <2> QED
    BY <1>7, <2>3 DEF LeaseExpires, Typed, DatabaseTyped, agent, ApiTyped, AgentTyped, CallsTyped,
       Answered, RecTyped
<1> QED
  BY <1>1, <1>2, <1>3, <1>4, <1>5, <1>6, <1>7 DEF Request

\* The initial state.
LEMMA InitTypes == ASSUME PlatformAssumption, Init PROVE Typed
<1>1. DatabaseTyped
  BY DEF Init, DatabaseTyped, NoRow, Rows, ActualStates
<1>2. RecTyped
  BY StageTypes DEF Init, RecTyped
<1>3. ApiTyped
  BY DEF Init, ApiTyped, Requests
<1>4. CallsTyped
  BY DEF Init, CallsTyped, Calls, Answered, NoCall
<1>5. AgentTyped
  BY SameConstants DEF Init, Agent!Init, AgentTyped, Agent!Unbound, Absent, Container, Statuses
<1> QED
  BY <1>1, <1>2, <1>3, <1>4, <1>5 DEF Typed

\* Every step of the platform, sorted by who takes it.
LEMMA NextCases ==
    ASSUME Next
    PROVE  \/ Reconcile \/ RoundAborts
           \/ Request \/ \E o \in Owners : LeaseExpires(o)
           \/ \E c \in Callers : AgentServes(c) \/ CallFails(c)
           \/ \E cmd \in late : AgentServesLate(cmd)
           \/ \E o \in Owners : ContainerEvent(o)
BY DEF Next

\* Every step keeps the types.
LEMMA NextTypes == ASSUME PlatformAssumption, Typed, [Next]_vars PROVE Typed'
<1>1. CASE UNCHANGED vars
  BY <1>1 DEF vars, database, agent, Typed, DatabaseTyped, RecTyped, ApiTyped, CallsTyped, Answered,
     AgentTyped
<1>2. CASE Next
  <2>1. CASE \/ \E c \in Callers : AgentServes(c) \/ CallFails(c)
             \/ \E cmd \in late : AgentServesLate(cmd)
             \/ \E o \in Owners : ContainerEvent(o)
    <3>1. AgentTyped' /\ CallsTyped' /\ UNCHANGED <<database, rec, api>>
      BY <2>1, AgentSteps DEF Typed
    <3> QED
      BY <3>1 DEF Typed, database, DatabaseTyped, RecTyped, ApiTyped
  <2> QED
    BY <1>2, <2>1, NextCases, ReconcileTypes, RequestTypes
<1> QED
  BY <1>1, <1>2

\* Every table, call and answer has its type in every state: an observation always finds an arm
\* that knows the state it reports (_apply_observation), whatever the network loses.
THEOREM PlatformTypes == Spec => []TypeOK
<1>1. Init => Typed
  BY InitTypes, PlatformAssumption
<1>2. Typed /\ [Next]_vars => Typed'
  BY NextTypes, PlatformAssumption
<1>3. Typed => TypeOK
  <2>1. AgentTyped => Agent!TypeOK
    BY SameConstants DEF AgentTyped, Agent!TypeOK
  <2> QED
    BY <2>1 DEF Typed, TypeOK, DatabaseTyped, RecTyped, ApiTyped, CallsTyped
<1> QED
  BY <1>1, <1>2, <1>3, PTL DEF Spec

-----------------------------------------------------------------------------
(***************************************************************************)
(* The lease table: no GPU is leased twice, and the leases of an owner are *)
(* one group, of one generation and one expiry.                            *)
(***************************************************************************)
Exclusive(ls) == \A l, m \in ls : l.gpu = m.gpu => l = m
OneGroup(ls) == \A l, m \in ls : l.owner = m.owner => l.gen = m.gen /\ l.expired = m.expired
Sound(ls) == Exclusive(ls) /\ OneGroup(ls)

\* The group of o is the same in both tables, but for its expiry; and o has no group.
Marked(ls, ms, o) ==
    /\ \A l \in ls : l.owner = o
          => \E m \in ms : m.owner = o /\ m.gpu = l.gpu /\ m.gen = l.gen
    /\ \A m \in ms : m.owner = o
          => \E l \in ls : l.owner = o /\ l.gpu = m.gpu /\ l.gen = m.gen
Free(ls, o) == \A l \in ls : l.owner # o

\* Each owner's group is kept or given back as a whole.
Whole(ls, ms) == \A o \in Owners : Marked(ls, ms, o) \/ Free(ms, o)

\* A renewal and an expiry mark a group.
Remark(ls, o, gen, b) ==
    (ls \ OwnedAt(ls, o, gen)) \cup {[l EXCEPT !.expired = b] : l \in OwnedAt(ls, o, gen)}

\* Marks (heartbeat_locked, the passing of time) change nothing else.
LEMMA RemarkKeeps ==
    ASSUME NEW ls \in SUBSET LeaseRows(Owners, Gpus), Sound(ls),
           NEW o \in Owners, NEW gen \in Nat, NEW b \in BOOLEAN
    PROVE  /\ Sound(Remark(ls, o, gen, b))
           /\ \A p \in Owners : Marked(ls, Remark(ls, o, gen, b), p)
<1> DEFINE mine == OwnedAt(ls, o, gen)
           ms == Remark(ls, o, gen, b)
           Is(l, m) == /\ m.gpu = l.gpu /\ m.owner = l.owner /\ m.gen = l.gen
                       /\ m.expired = IF l \in mine THEN b ELSE l.expired
<1>1. \A l \in ls : [l EXCEPT !.expired = b].gpu = l.gpu /\ [l EXCEPT !.expired = b].owner = l.owner
                    /\ [l EXCEPT !.expired = b].gen = l.gen /\ [l EXCEPT !.expired = b].expired = b
  BY DEF LeaseRows
<1>2. \A m \in ms : \E l \in ls : Is(l, m) /\ (l \in mine => m = [l EXCEPT !.expired = b])
                                   /\ (l \notin mine => m = l)
  BY <1>1 DEF Remark, OwnedAt
<1>3. \A l \in ls : \E m \in ms : Is(l, m)
  BY <1>1 DEF Remark, OwnedAt
<1>4. Exclusive(ms)
  <2> SUFFICES ASSUME NEW m \in ms, NEW n \in ms, m.gpu = n.gpu PROVE m = n
    BY DEF Exclusive
  <2>1. PICK k \in ls : Is(k, m) /\ (k \in mine => m = [k EXCEPT !.expired = b])
                        /\ (k \notin mine => m = k)
    BY <1>2
  <2>2. PICK l \in ls : Is(l, n) /\ (l \in mine => n = [l EXCEPT !.expired = b])
                        /\ (l \notin mine => n = l)
    BY <1>2
  <2>3. k = l
    BY <2>1, <2>2 DEF Sound, Exclusive
  <2> QED
    BY <2>1, <2>2, <2>3
<1>5. OneGroup(ms)
  <2> SUFFICES ASSUME NEW m \in ms, NEW n \in ms, m.owner = n.owner
               PROVE  m.gen = n.gen /\ m.expired = n.expired
    BY DEF OneGroup
  <2>1. PICK k \in ls : Is(k, m)
    BY <1>2
  <2>2. PICK l \in ls : Is(l, n)
    BY <1>2
  <2>3. k.gen = l.gen /\ k.expired = l.expired /\ (k \in mine <=> l \in mine)
    BY <2>1, <2>2 DEF Sound, OneGroup, OwnedAt
  <2> QED
    BY <2>1, <2>2, <2>3
<1>6. ASSUME NEW p \in Owners PROVE Marked(ls, ms, p)
  BY <1>2, <1>3 DEF Marked
<1> QED
  BY <1>4, <1>5, <1>6 DEF Sound

\* A heartbeat and an expiry are marks.
LEMMA MarksKeep ==
    ASSUME NEW ls \in SUBSET LeaseRows(Owners, Gpus), Sound(ls), NEW o \in Owners, NEW gen \in Nat
    PROVE  /\ Sound(Heartbeat(ls, o, gen)) /\ \A p \in Owners : Marked(ls, Heartbeat(ls, o, gen), p)
           /\ Sound(Expired(ls, o, gen)) /\ \A p \in Owners : Marked(ls, Expired(ls, o, gen), p)
<1>1. Heartbeat(ls, o, gen) = Remark(ls, o, gen, FALSE)
  BY DEF Heartbeat, Remark, Renewed
<1>2. Expired(ls, o, gen) = Remark(ls, o, gen, TRUE)
  BY DEF Expired, Remark
<1> QED
  BY <1>1, <1>2, RemarkKeeps

\* Giving back (release_locked): the group of one owner goes as a whole, the others stay.
LEMMA ReleaseKeeps ==
    ASSUME NEW ls, Sound(ls), NEW o, NEW gen
    PROVE  /\ Sound(Release(ls, o, gen)) /\ Whole(ls, Release(ls, o, gen))
           /\ \A p \in Owners : p # o => Marked(ls, Release(ls, o, gen), p)
           /\ (\A l \in ls : l.owner = o => l.gen = gen) => Free(Release(ls, o, gen), o)
<1>1. Sound(Release(ls, o, gen))
  BY DEF Sound, Exclusive, OneGroup, Release
<1>2. \A p \in Owners : p # o => Marked(ls, Release(ls, o, gen), p)
  BY DEF Marked, Release, OwnedAt
<1>3. (\A l \in ls : l.owner = o => l.gen = gen) => Free(Release(ls, o, gen), o)
  BY DEF Free, Release, OwnedAt
<1>4. Marked(ls, Release(ls, o, gen), o) \/ Free(Release(ls, o, gen), o)
  BY DEF Marked, Free, Release, OwnedAt, Sound, OneGroup
<1> QED
  BY <1>1, <1>2, <1>3, <1>4 DEF Whole

\* The deletion of a workload (confirm_absent_and_release_leases).
LEMMA ReleaseAllKeeps ==
    ASSUME NEW ls, Sound(ls), NEW o
    PROVE  /\ Sound(ReleaseAll(ls, o)) /\ Whole(ls, ReleaseAll(ls, o))
           /\ \A p \in Owners : p # o => Marked(ls, ReleaseAll(ls, o), p)
           /\ Free(ReleaseAll(ls, o), o)
<1>1. Sound(ReleaseAll(ls, o)) /\ Free(ReleaseAll(ls, o), o)
  BY DEF Sound, Exclusive, OneGroup, ReleaseAll, Owned, Free
<1>2. \A p \in Owners : p # o => Marked(ls, ReleaseAll(ls, o), p)
  BY DEF Marked, ReleaseAll, Owned
<1> QED
  BY <1>1, <1>2 DEF Whole

\* Reaping (reap_expired_locked): all rows of a group have expired, or none has.
LEMMA ReapedKeeps ==
    ASSUME NEW ls, Sound(ls), NEW keys
    PROVE  /\ Sound(Reaped(ls, keys)) /\ Whole(ls, Reaped(ls, keys))
           /\ \A p \in Owners : (\A l \in ls : l.owner = p => <<l.owner, l.gen>> \notin keys)
                  => Marked(ls, Reaped(ls, keys), p)
<1>1. Sound(Reaped(ls, keys))
  BY DEF Sound, Exclusive, OneGroup, Reaped
<1>2. ASSUME NEW p \in Owners PROVE Marked(ls, Reaped(ls, keys), p) \/ Free(Reaped(ls, keys), p)
  <2>1. CASE \E l \in ls : l.owner = p /\ l.expired /\ <<l.owner, l.gen>> \in keys
    BY <2>1 DEF Free, Reaped, Sound, OneGroup
  <2>2. CASE \A l \in ls : l.owner = p => ~(l.expired /\ <<l.owner, l.gen>> \in keys)
    BY <2>2 DEF Marked, Reaped
  <2> QED
    BY <2>1, <2>2
<1>3. ASSUME NEW p \in Owners, \A l \in ls : l.owner = p => <<l.owner, l.gen>> \notin keys
      PROVE  Marked(ls, Reaped(ls, keys), p)
  BY <1>3 DEF Marked, Reaped
<1> QED
  BY <1>1, <1>2, <1>3 DEF Whole

\* Acquisition (try_acquire_locked): without a conflict, all of the group or what was there.
LEMMA AcquiredKeeps ==
    ASSUME NEW ls \in SUBSET LeaseRows(Owners, Gpus), Sound(ls),
           NEW o \in Owners, NEW gen \in Nat, NEW gs \in SUBSET Gpus,
           ~LeaseInvariantError(ls, o, gen, gs), ~Blocked(ls, o, gs)
    PROVE  LET ms == Acquired(ls, o, gen, gs)
           IN  /\ Sound(ms) /\ (Free(ls, o) \/ Marked(ls, ms, o))
               /\ \A p \in Owners : p # o => Marked(ls, ms, p)
               /\ \A m \in ms : m.owner = o => m.gen = gen /\ m.gpu \in gs
               /\ \A g \in gs : \E m \in ms : m.owner = o /\ m.gpu = g
<1> DEFINE new == [gpu : gs, owner : {o}, gen : {gen}, expired : {FALSE}]
           ms == Acquired(ls, o, gen, gs)
<1>1. ms = (ls \ Owned(ls, o)) \cup new
  BY DEF Acquired
<1>2. \A m \in new : m.gpu \in gs /\ m.owner = o /\ m.gen = gen /\ m.expired = FALSE
  OBVIOUS
<1>3. \A g \in gs : /\ [gpu |-> g, owner |-> o, gen |-> gen, expired |-> FALSE] \in new
                    /\ [gpu |-> g, owner |-> o, gen |-> gen, expired |-> FALSE].gpu = g
                    /\ [gpu |-> g, owner |-> o, gen |-> gen, expired |-> FALSE].owner = o
                    /\ [gpu |-> g, owner |-> o, gen |-> gen, expired |-> FALSE].gen = gen
  OBVIOUS
<1>4. \A m, n \in new : m.gpu = n.gpu => m = n
  <2>1. \A m \in new : m = [gpu |-> m.gpu, owner |-> m.owner, gen |-> m.gen, expired |-> m.expired]
    OBVIOUS
  <2> HIDE DEF new
  <2> QED
    BY <1>2, <2>1
<1> HIDE DEF new, ms
<1>5. \A l \in ls : l.owner # o => l.gpu \notin gs
  <2>1. CASE Owned(ls, o) = {}
    BY <2>1 DEF Blocked, GpusOf
  <2>2. CASE Owned(ls, o) # {}
    <3>1. GpusOf(Owned(ls, o)) = gs
      BY <2>2 DEF LeaseInvariantError
    <3>2. \A g \in gs : \E l \in ls : l.owner = o /\ l.gpu = g
      BY <3>1 DEF GpusOf, Owned
    <3> QED
      BY <3>2 DEF Sound, Exclusive
  <2> QED
    BY <2>1, <2>2
<1>6. \A m \in ms : (m \in new /\ m.owner = o) \/ (m \in ls /\ m.owner # o)
  BY <1>1, <1>2 DEF Owned
<1>7. \A l \in ls : l.owner # o => l \in ms
  BY <1>1 DEF Owned
<1>8. Exclusive(ms)
  BY <1>2, <1>4, <1>5, <1>6 DEF Sound, Exclusive
<1>9. OneGroup(ms)
  BY <1>2, <1>6 DEF Sound, OneGroup
<1>10. ASSUME NEW p \in Owners, p # o PROVE Marked(ls, ms, p)
  BY <1>6, <1>7, <1>10 DEF Marked
<1>11. \A m \in ms : m.owner = o => m.gen = gen /\ m.gpu \in gs
  BY <1>2, <1>6
<1>12. \A g \in gs : \E m \in ms : m.owner = o /\ m.gpu = g /\ m.gen = gen
  BY <1>1, <1>3
<1>13. Free(ls, o) \/ Marked(ls, ms, o)
  <2>1. CASE Owned(ls, o) = {}
    BY <2>1 DEF Owned, Free
  <2>2. CASE Owned(ls, o) # {}
    <3>1. GpusOf(Owned(ls, o)) = gs /\ {l.gen : l \in Owned(ls, o)} = {gen}
      BY <2>2 DEF LeaseInvariantError
    <3>2. /\ \A l \in ls : l.owner = o => l.gpu \in gs /\ l.gen = gen
          /\ \A g \in gs : \E l \in ls : l.owner = o /\ l.gpu = g
      BY <3>1 DEF GpusOf, Owned
    <3> QED
      BY <1>11, <1>12, <3>2 DEF Marked
  <2> QED
    BY <2>1, <2>2
<1> QED
  BY <1>8, <1>9, <1>10, <1>11, <1>12, <1>13 DEF Sound, ms

-----------------------------------------------------------------------------
(***************************************************************************)
(* Training jobs and the reconciler that follows them.                     *)
(***************************************************************************)
\* The workloads that the current round still has to look at, or waits for.
Subjects == rec.todo \cup (IF rec.pc = "waiting" THEN {rec.w} ELSE {})
OneEach ==
    /\ \A v, w \in Subjects : v.owner = w.owner => v = w
    /\ rec.pc = "waiting" => rec.w \notin rec.todo

\* What the round knows of a training stays true until the round itself changes it.
Tracked(t) == \A w \in Subjects :
    w.owner = t => IsActive(rows[t]) /\ rows[t].rgen = w.gen /\ rows[t].gpus = w.gpus

\* An active training holds its group, another one nothing.
Leased(t) ==
    /\ \A l \in leases : l.owner = t
          => IsActive(rows[t]) /\ l.gen = rows[t].rgen /\ l.gpu \in rows[t].gpus
    /\ IsActive(rows[t]) => \A g \in rows[t].gpus : \E l \in leases : l.owner = t /\ l.gpu = g

\* An active training has a running generation.
Versioned(t) ==
    /\ Exist(rows[t]) => rows[t].version # 0
    /\ IsActive(rows[t]) => rows[t].rgen # 0

Followed(t) == Tracked(t) /\ Leased(t) /\ Versioned(t)

\* A DELETE holds the lock of an ended row, alone; and no request that works without the lock
\* is about a training.
Deletions == \A c \in Clients : api[c].kind = "deleting" =>
    /\ IsTerminal(rows[api[c].owner])
    /\ \A d \in Clients : api[d].kind = "deleting" /\ api[d].owner = api[c].owner => d = c
LocklessRequests == \A c \in Clients :
    api[c].kind \in {"start", "stop", "edit", "cancel"} => api[c].owner \notin Trainings

LInv ==
    /\ Typed /\ Sound(leases)
    /\ OneEach /\ Deletions /\ LocklessRequests
    /\ \A t \in Trainings : Followed(t)

\* What a step may do to a training: its group stays with its row, or both end.
Stays(t) ==
    /\ Marked(leases, leases', t)
    /\ IsActive(rows'[t]) <=> IsActive(rows[t])
    /\ IsActive(rows[t]) => rows'[t].rgen = rows[t].rgen /\ rows'[t].gpus = rows[t].gpus
    /\ Exist(rows'[t]) => rows'[t].version # 0
Ends(t) ==
    /\ Free(leases', t) /\ ~IsActive(rows'[t])
    /\ Exist(rows'[t]) => rows'[t].version # 0

\* The active states, the final ones and the others.
LEMMA States ==
    /\ \A row : IsActive(row) => ~IsTerminal(row) /\ Exist(row) /\ row.actual # "queued"
    /\ \A row : IsTerminal(row) => ~IsActive(row) /\ Exist(row) /\ row.actual # "queued"
    /\ \A row : row.actual \in {"none", "queued"} => ~IsActive(row) /\ ~IsTerminal(row)
BY DEF IsActive, IsTerminal, Exist, ActiveStates, ActiveDeploymentStates, ActiveJobStates,
   TerminalStates

\* A training that stays is still followed.
LEMMA StaysFollowed ==
    ASSUME NEW t, Followed(t), Stays(t),
           \A w \in Subjects' : w.owner = t => w \in Subjects
    PROVE  Followed(t)'
<1>1. Tracked(t)'
  BY DEF Tracked, Followed, Stays
<1>2. Leased(t)'
  BY DEF Leased, Followed, Stays, Marked
<1>3. Versioned(t)'
  BY DEF Versioned, Followed, Stays
<1> QED
  BY <1>1, <1>2, <1>3 DEF Followed

\* A training that ends is not followed any more.
LEMMA EndsFollowed ==
    ASSUME NEW t, Ends(t), \A w \in Subjects' : w.owner # t
    PROVE  Followed(t)'
BY DEF Followed, Tracked, Leased, Versioned, Ends, Free

\* A row that is not written and a group that is at most marked.
LEMMA SameStays ==
    ASSUME NEW t, Followed(t), rows'[t] = rows[t], Marked(leases, leases', t)
    PROVE  Stays(t)
BY DEF Stays, Followed, Versioned

\* Nothing happened to the leases.
LEMMA NoMarks == \A ls : (\A o : Marked(ls, ls, o)) /\ Whole(ls, ls)
BY DEF Marked, Whole

\* The locks of the requests that delete.
LEMMA DeletionsKept ==
    ASSUME ApiTyped, Deletions, LocklessRequests, UNCHANGED api,
           \A o \in Owners : Locked(o) /\ IsTerminal(rows[o]) => rows'[o] = rows[o]
    PROVE  Deletions' /\ LocklessRequests'
<1>1. \A c \in Clients : api[c].kind = "deleting" => api[c].owner \in Owners /\ Locked(api[c].owner)
  BY DEF ApiTyped, Requests, NoRequest, Locked
<1>2. Deletions'
  BY <1>1 DEF Deletions
<1> QED
  BY <1>2 DEF LocklessRequests

\* A write concerns one row.
LEMMA WriteEffect ==
    ASSUME DatabaseTyped, NEW o \in Owners, NEW change, NEW ls, Write(o, change, ls)
    PROVE  /\ rows'[o] = change.row /\ leases' = ls
           /\ \A p \in Owners : p # o => rows'[p] = rows[p]
BY DEF Write, DatabaseTyped

\* What the observation of a job makes of its row.
LEMMA ObserveJobEffect ==
    ASSUME NEW row \in Rows(Gpus), NEW reply \in Answers, reply # Unavailable,
           NEW change \in ObserveJob(row, reply)
    PROVE  /\ change.row.rgen = row.rgen /\ change.row.gpus = row.gpus
           /\ change.row.version = row.version
           /\ reply.state \in Busy => IsActive(change.row) /\ ~change.release
           /\ reply.state \notin Busy => IsTerminal(change.row) /\ change.release
           /\ change.row.actual = "canceled" <=> (reply.state = "absent" /\ row.desired = "stop")
           /\ change.row.actual # "queued"
<1>1. PICK s \in JobStatesAfter(row, reply) :
          change = Change([row EXCEPT !.actual = s], "keep", s \in TerminalStates)
  BY DEF ObserveJob
<1>2. /\ change.row = [row EXCEPT !.actual = s] /\ change.release = (s \in TerminalStates)
      /\ change.row.actual = s
      /\ change.row.rgen = row.rgen /\ change.row.gpus = row.gpus /\ change.row.version = row.version
  <2>1. change.row = [row EXCEPT !.actual = s] /\ change.release = (s \in TerminalStates)
    BY <1>1 DEF Change
  <2> QED
    BY <2>1 DEF Rows
<1>3. reply.state \in {"absent", "failed", "succeeded"} \cup Busy
  BY ReplyTypes DEF Reply, Busy
<1>4. /\ reply.state \in Busy => s \in {"starting", "running", "canceling"}
      /\ reply.state \notin Busy => s \in {"canceled", "failed", "succeeded"}
      /\ s = "canceled" <=> (reply.state = "absent" /\ row.desired = "stop")
  <2>1. CASE reply.state = "absent"
    BY <2>1 DEF JobStatesAfter, Busy
  <2>2. CASE reply.state = "failed"
    BY <2>2 DEF JobStatesAfter, Busy
  <2>3. CASE reply.state = "succeeded"
    BY <2>3 DEF JobStatesAfter, Busy
  <2>4. CASE reply.state \in Busy
    BY <2>4 DEF JobStatesAfter, Busy
  <2> QED
    BY <1>3, <2>1, <2>2, <2>3, <2>4
<1>5. /\ \A a \in {"starting", "running", "canceling"} : a \in ActiveStates /\ a \notin TerminalStates
      /\ \A a \in {"canceled", "failed", "succeeded"} : a \in TerminalStates
  BY DEF ActiveStates, ActiveJobStates, TerminalStates
<1> QED
  BY <1>2, <1>4, <1>5 DEF IsActive, IsTerminal

\* An observation, applied or not: it concerns the observed workload, and never a locked row.
LEMMA ApplyEffect ==
    ASSUME DatabaseTyped, Sound(leases), NEW w \in Snapshots,
           NEW reply \in Answers, reply # Unavailable, Apply(w, reply)
    PROVE  /\ Sound(leases') /\ Whole(leases, leases')
           /\ \A p \in Owners : p # w.owner => rows'[p] = rows[p] /\ Marked(leases, leases', p)
           /\ \A p \in Owners : Locked(p) => rows'[p] = rows[p]
           /\ \A t \in Trainings :
                 w.owner = t /\ Followed(t) /\ t \in Jobs \ Deployments
                     /\ IsActive(rows[t]) /\ rows[t].rgen = w.gen
                 => IF reply.state \in Busy THEN Stays(t) ELSE Ends(t)
<1> DEFINE o == w.owner
           renewed == IF reply.state \in Busy THEN Heartbeat(leases, o, w.gen) ELSE leases
           C == IF o \in Deployments THEN {ObserveDeployment(rows[o], reply)}
                                     ELSE ObserveJob(rows[o], reply)
           L(change) == IF change.release THEN Release(leases, o, w.gen) ELSE renewed
<1>o. o \in Owners /\ w.gen \in Nat /\ rows[o] \in Rows(Gpus)
      /\ leases \in SUBSET LeaseRows(Owners, Gpus)
  BY DEF Snapshots, DatabaseTyped
<1>1. CASE ~Exist(rows[o]) \/ rows[o].rgen # w.gen
  <2>1. rows' = rows /\ leases' = leases
    BY <1>1 DEF Apply, database
  <2> QED
    BY <1>1, <2>1, NoMarks, States
<1>2. ASSUME NEW change \in C, ~Locked(o), Write(o, change, L(change))
      PROVE  /\ Sound(leases') /\ Whole(leases, leases')
             /\ \A p \in Owners : p # w.owner => rows'[p] = rows[p] /\ Marked(leases, leases', p)
             /\ \A p \in Owners : Locked(p) => rows'[p] = rows[p]
             /\ \A t \in Trainings :
                   w.owner = t /\ Followed(t) /\ t \in Jobs \ Deployments
                       /\ IsActive(rows[t]) /\ rows[t].rgen = w.gen
                   => IF reply.state \in Busy THEN Stays(t) ELSE Ends(t)
  <2>1. /\ rows'[o] = change.row /\ leases' = L(change)
        /\ \A p \in Owners : p # o => rows'[p] = rows[p]
    BY <1>o, <1>2, WriteEffect
  <2>2. /\ Sound(Heartbeat(leases, o, w.gen))
        /\ \A p \in Owners : Marked(leases, Heartbeat(leases, o, w.gen), p)
    BY <1>o, MarksKeep
  <2>3. Sound(renewed) /\ \A p \in Owners : Marked(leases, renewed, p)
    BY <2>2, NoMarks
  <2>4. /\ Sound(Release(leases, o, w.gen)) /\ Whole(leases, Release(leases, o, w.gen))
        /\ \A p \in Owners : p # o => Marked(leases, Release(leases, o, w.gen), p)
        /\ (\A l \in leases : l.owner = o => l.gen = w.gen) => Free(Release(leases, o, w.gen), o)
    BY ReleaseKeeps
  <2>5. /\ Sound(leases') /\ Whole(leases, leases')
        /\ \A p \in Owners : p # o => Marked(leases, leases', p)
    BY <2>1, <2>3, <2>4 DEF Whole
  <2>6. ASSUME NEW t \in Trainings, o = t, Followed(t), t \in Jobs \ Deployments,
               IsActive(rows[t]), rows[t].rgen = w.gen
        PROVE  IF reply.state \in Busy THEN Stays(t) ELSE Ends(t)
    <3>1. change \in ObserveJob(rows[o], reply)
      BY <1>2, <2>6
    <3>2. /\ change.row.rgen = rows[o].rgen /\ change.row.gpus = rows[o].gpus
          /\ change.row.version = rows[o].version
          /\ reply.state \in Busy => IsActive(change.row) /\ ~change.release
          /\ reply.state \notin Busy => IsTerminal(change.row) /\ change.release
      BY <1>o, <3>1, ObserveJobEffect
    <3>3. rows[o].version # 0 /\ \A l \in leases : l.owner = o => l.gen = w.gen
      BY <2>6, States DEF Followed, Versioned, Leased
    <3>4. CASE reply.state \in Busy
      <4>1. Marked(leases, leases', o)
        BY <1>o, <2>1, <2>3, <3>2, <3>4
      <4> QED
        BY <2>1, <2>6, <3>2, <3>3, <3>4, <4>1 DEF Stays
    <3>5. CASE reply.state \notin Busy
      <4>1. Free(leases', o)
        BY <2>1, <2>4, <3>2, <3>3, <3>5
      <4> QED
        BY <2>1, <2>6, <3>2, <3>3, <3>5, <4>1, States DEF Ends
    <3> QED
      BY <3>4, <3>5
  <2> QED
    BY <1>2, <2>1, <2>5, <2>6
<1> QED
  BY <1>1, <1>2 DEF Apply

\* The trainings of the platform are jobs, and no request works on them without the lock.
LEMMA TrainingFacts ==
    ASSUME PlatformAssumption, NEW t \in Trainings
    PROVE  t \in Owners /\ t \in Jobs \ Deployments /\ Kinds(t) = {}
BY OwnersAssumption DEF PlatformAssumption, Owners, Kinds, Evaluations

\* A step that leaves the tables and the requests alone.
LEMMA QuietStep ==
    ASSUME LInv, Typed', UNCHANGED <<database, api>>, OneEach',
           \A w \in Subjects' : w \in Subjects
    PROVE  LInv' /\ Whole(leases, leases')
<1>1. rows' = rows /\ leases' = leases /\ api' = api
  BY DEF database
<1>2. Whole(leases, leases')
  BY <1>1, NoMarks
<1>3. Deletions' /\ LocklessRequests'
  BY <1>1, DeletionsKept DEF LInv, Typed
<1>4. ASSUME NEW t \in Trainings PROVE Followed(t)'
  <2>1. Followed(t) /\ Marked(leases, leases', t)
    BY <1>1, NoMarks DEF LInv
  <2>2. Stays(t)
    BY <1>1, <2>1, SameStays
  <2> QED
    BY <2>1, <2>2, StaysFollowed
<1> QED
  BY <1>1, <1>2, <1>3, <1>4 DEF LInv

\* The begin of a round.
LEMMA BeginStep ==
    ASSUME PlatformAssumption, LInv, Typed', BeginRound
    PROVE  LInv' /\ Whole(leases, leases')
<1> DEFINE todo == {Snapshot(o) : o \in {p \in Owners : IsActive(rows[p])}}
<1>1. rec' = Polling(todo) /\ UNCHANGED <<database, api>>
  BY DEF BeginRound
<1>2. rows' = rows /\ leases' = leases /\ api' = api
  BY <1>1 DEF database
<1>3. Subjects' = todo /\ rec'.pc = "polling"
  BY <1>1 DEF Subjects, Polling
<1>4. \A o : Snapshot(o).owner = o
  BY DEF Snapshot
<1>5. OneEach'
  BY <1>3, <1>4 DEF OneEach
<1>6. Deletions' /\ LocklessRequests'
  BY <1>2, DeletionsKept DEF LInv, Typed
<1>7. ASSUME NEW t \in Trainings PROVE Followed(t)'
  <2>1. Followed(t)
    BY DEF LInv
  <2>2. ASSUME NEW w \in todo, w.owner = t
        PROVE  IsActive(rows[t]) /\ rows[t].rgen = w.gen /\ rows[t].gpus = w.gpus
    <3>1. w = Snapshot(t) /\ IsActive(rows[t])
      BY <2>2, <1>4
    <3>2. rows[t].rgen # 0
      BY <2>1, <3>1 DEF Followed, Versioned
    <3> QED
      BY <3>1, <3>2 DEF Snapshot, RuntimeGeneration
  <2> QED
    BY <1>2, <1>3, <2>1, <2>2 DEF Followed, Tracked, Leased, Versioned
<1> QED
  BY <1>2, <1>5, <1>6, <1>7, NoMarks DEF LInv

\* The polls.
LEMMA PollStep ==
    ASSUME PlatformAssumption, LInv, Typed', Poll \/ PollingDone
    PROVE  LInv' /\ Whole(leases, leases')
<1>1. CASE Poll
  <2>1. PICK w \in rec.todo, stage \in {"poll", "probe"} : rec' = Waiting(stage, w, rec.todo \ {w})
    BY <1>1 DEF Poll
  <2>2. UNCHANGED <<database, api>>
    BY <1>1 DEF Poll
  <2>3. /\ rec'.pc = "waiting" /\ rec'.w = w /\ rec'.todo = rec.todo \ {w}
        /\ Subjects' = rec.todo
    BY <2>1 DEF Waiting, Subjects
  <2>4. \A v \in Subjects' : v \in Subjects
    BY <2>3 DEF Subjects
  <2>5. \A u, v \in Subjects : u.owner = v.owner => u = v
    BY DEF OneEach, LInv
  <2>6. \A u, v \in Subjects' : u.owner = v.owner => u = v
    BY <2>4, <2>5
  <2>7. rec'.w \notin rec'.todo
    BY <2>3
  <2>8. OneEach'
    BY <2>6, <2>7 DEF OneEach
  <2> QED
    BY <2>2, <2>4, <2>8, QuietStep
<1>2. CASE PollingDone
  <2>1. rec' = At("reaping") /\ UNCHANGED <<database, api>>
    BY <1>2 DEF PollingDone
  <2>2. Subjects' = {} /\ rec'.pc = "reaping"
    BY <2>1 DEF At, Subjects
  <2>3. OneEach'
    BY <2>2 DEF OneEach
  <2> QED
    BY <2>1, <2>2, <2>3, QuietStep
<1> QED
  BY <1>1, <1>2

\* Steps after which the round waits for nothing.
LEMMA AtRest ==
    ASSUME NEW pc \in {"idle", "reaping", "claiming"}, rec' = At(pc)
    PROVE  OneEach' /\ Subjects' = {}
<1>1. Subjects' = {} /\ rec'.pc # "waiting"
  BY DEF At, Subjects
<1> QED
  BY <1>1 DEF OneEach

\* The answers to polls, probes and STOPs.
LEMMA ObserveStep ==
    ASSUME PlatformAssumption, LInv, Typed', ObserveReply
    PROVE  LInv' /\ Whole(leases, leases')
<1> DEFINE reply == calls[Reconciler].reply
           w == rec.w
           stopNow == rec.stage = "probe" /\ reply.accepted /\ reply.state \in Busy
<1>1. /\ rec.pc = "waiting" /\ calls[Reconciler].state = "replied" /\ api' = api
      /\ IF reply = Unavailable THEN UNCHANGED database ELSE Apply(w, reply)
      /\ rec' = IF stopNow THEN Waiting("stop", w, rec.todo) ELSE Polling(rec.todo)
  BY DEF ObserveReply
<1>2. /\ w \in Snapshots /\ w \in Subjects /\ w \notin rec.todo
      /\ \A v \in rec.todo : v \in Subjects /\ v.owner # w.owner
  BY <1>1 DEF LInv, Typed, RecTyped, OneEach, Subjects
<1>3. reply \in Answers
  BY <1>1 DEF LInv, Typed, CallsTyped, Answered, Callers
<1>4. /\ Subjects' = IF stopNow THEN rec.todo \cup {w} ELSE rec.todo
      /\ rec'.todo = rec.todo
      /\ rec'.pc = "waiting" => rec'.w = w
  BY <1>1 DEF Waiting, Polling, Subjects
<1>5. \A v \in Subjects' : v \in Subjects
  BY <1>2, <1>4
<1>6. OneEach'
  <2>1. \A u, v \in Subjects : u.owner = v.owner => u = v
    BY DEF OneEach, LInv
  <2>2. \A u, v \in Subjects' : u.owner = v.owner => u = v
    BY <1>5, <2>1
  <2>3. rec'.pc = "waiting" => rec'.w \notin rec'.todo
    BY <1>2, <1>4
  <2> QED
    BY <2>2, <2>3 DEF OneEach
<1>7. CASE reply = Unavailable
  BY <1>1, <1>5, <1>6, <1>7, QuietStep
<1>8. CASE reply # Unavailable
  <2>1. Apply(w, reply)
    BY <1>1, <1>8
  <2>2. /\ Sound(leases') /\ Whole(leases, leases')
        /\ \A p \in Owners : p # w.owner => rows'[p] = rows[p] /\ Marked(leases, leases', p)
        /\ \A p \in Owners : Locked(p) => rows'[p] = rows[p]
        /\ \A t \in Trainings :
              w.owner = t /\ Followed(t) /\ t \in Jobs \ Deployments
                  /\ IsActive(rows[t]) /\ rows[t].rgen = w.gen
              => IF reply.state \in Busy THEN Stays(t) ELSE Ends(t)
    BY <1>2, <1>3, <1>8, <2>1, ApplyEffect DEF LInv, Typed
  <2>3. Deletions' /\ LocklessRequests'
    BY <1>1, <2>2, DeletionsKept DEF LInv, Typed
  <2>4. ASSUME NEW t \in Trainings PROVE Followed(t)'
    <3>1. Followed(t) /\ t \in Owners /\ t \in Jobs \ Deployments
      BY TrainingFacts DEF LInv
    <3>2. CASE t # w.owner
      <4>1. Stays(t)
        BY <2>2, <3>1, <3>2, SameStays
      <4> QED
        BY <1>5, <3>1, <4>1, StaysFollowed
    <3>3. CASE t = w.owner
      <4>1. IsActive(rows[t]) /\ rows[t].rgen = w.gen
        BY <1>2, <3>1, <3>3 DEF Followed, Tracked
      <4>2. CASE reply.state \in Busy
        <5>1. Stays(t)
          BY <2>2, <3>1, <3>3, <4>1, <4>2
        <5> QED
          BY <1>5, <3>1, <5>1, StaysFollowed
      <4>3. CASE reply.state \notin Busy
        <5>1. Ends(t)
          BY <2>2, <3>1, <3>3, <4>1, <4>3
        <5>2. \A v \in Subjects' : v.owner # t
          BY <1>2, <1>4, <3>3, <4>3
        <5> QED
          BY <5>1, <5>2, EndsFollowed
      <4> QED
        BY <4>2, <4>3
    <3> QED
      BY <3>2, <3>3
  <2> QED
    BY <1>6, <2>2, <2>3, <2>4 DEF LInv
<1> QED
  BY <1>7, <1>8

\* The answer to a START.
LEMMA StartReplyStep ==
    ASSUME PlatformAssumption, LInv, Typed', StartReply
    PROVE  LInv' /\ Whole(leases, leases')
<1> DEFINE reply == calls[Reconciler].reply
           w == rec.w
           o == w.owner
<1>1. /\ rec.pc = "waiting" /\ calls[Reconciler].state = "replied" /\ api' = api
      /\ rec' = At("claiming")
  BY DEF StartReply
<1>2. w \in Snapshots /\ w \in Subjects /\ o \in Owners /\ w.gen \in Nat
  BY <1>1 DEF LInv, Typed, RecTyped, Subjects, Snapshots
<1>3. reply \in Answers
  BY <1>1 DEF LInv, Typed, CallsTyped, Answered, Callers
<1>4. OneEach' /\ Subjects' = {}
  BY <1>1, AtRest
<1>5. \/ UNCHANGED database
      \/ reply # Unavailable /\ Apply(w, reply)
      \/ ~Locked(o) /\ rows[o].rgen = w.gen /\ Write(o, FailStart(rows[o]), Release(leases, o, w.gen))
  <2>1. CASE reply = Unavailable
    <3>1. ~reply.accepted
      BY <2>1 DEF Unavailable
    <3> QED
      BY <2>1, <3>1 DEF StartReply
  <2>2. CASE reply # Unavailable /\ reply.accepted
    BY <2>2 DEF StartReply
  <2>3. CASE reply # Unavailable /\ ~reply.accepted
    BY <2>3 DEF StartReply
  <2> QED
    BY <2>1, <2>2, <2>3
<1>6. CASE UNCHANGED database
  BY <1>1, <1>4, <1>6, QuietStep
<1>7. ASSUME /\ Sound(leases') /\ Whole(leases, leases')
             /\ \A p \in Owners : p # o => rows'[p] = rows[p] /\ Marked(leases, leases', p)
             /\ \A p \in Owners : Locked(p) => rows'[p] = rows[p],
             \A t \in Trainings : o = t /\ Followed(t) /\ IsActive(rows[t]) /\ rows[t].rgen = w.gen
                 => Stays(t) \/ Ends(t)
      PROVE  LInv'
  <2>1. Deletions' /\ LocklessRequests'
    BY <1>1, <1>7, DeletionsKept DEF LInv, Typed
  <2>2. ASSUME NEW t \in Trainings PROVE Followed(t)'
    <3>1. Followed(t) /\ t \in Owners
      BY TrainingFacts DEF LInv
    <3>2. t # o => Stays(t)
      BY <1>7, <3>1, SameStays
    <3>3. t = o => IsActive(rows[t]) /\ rows[t].rgen = w.gen
      BY <1>2, <3>1 DEF Followed, Tracked
    <3>4. Stays(t) \/ Ends(t)
      BY <1>7, <3>1, <3>2, <3>3
    <3> QED
      BY <1>4, <3>1, <3>4, StaysFollowed, EndsFollowed
  <2> QED
    BY <1>4, <1>7, <2>1, <2>2 DEF LInv
<1>8. CASE reply # Unavailable /\ Apply(w, reply)
  <2>1. /\ Sound(leases') /\ Whole(leases, leases')
        /\ \A p \in Owners : p # w.owner => rows'[p] = rows[p] /\ Marked(leases, leases', p)
        /\ \A p \in Owners : Locked(p) => rows'[p] = rows[p]
        /\ \A t \in Trainings :
              w.owner = t /\ Followed(t) /\ t \in Jobs \ Deployments
                  /\ IsActive(rows[t]) /\ rows[t].rgen = w.gen
              => IF reply.state \in Busy THEN Stays(t) ELSE Ends(t)
    BY <1>2, <1>3, <1>8, ApplyEffect DEF LInv, Typed
  <2>2. \A t \in Trainings : o = t /\ Followed(t) /\ IsActive(rows[t]) /\ rows[t].rgen = w.gen
            => Stays(t) \/ Ends(t)
    BY <2>1, TrainingFacts
  <2> QED
    BY <1>7, <2>1, <2>2
<1>9. CASE /\ ~Locked(o) /\ rows[o].rgen = w.gen
           /\ Write(o, FailStart(rows[o]), Release(leases, o, w.gen))
  <2>1. /\ rows'[o] = FailStart(rows[o]).row /\ leases' = Release(leases, o, w.gen)
        /\ \A p \in Owners : p # o => rows'[p] = rows[p]
    BY <1>2, <1>9, WriteEffect DEF LInv, Typed
  <2>2. /\ Sound(leases') /\ Whole(leases, leases')
        /\ \A p \in Owners : p # o => Marked(leases, leases', p)
        /\ (\A l \in leases : l.owner = o => l.gen = w.gen) => Free(leases', o)
    BY <2>1, ReleaseKeeps DEF LInv
  <2>3. rows'[o].actual = "failed" /\ rows'[o].version = rows[o].version
    <3>1. rows[o] \in Rows(Gpus)
      BY <1>2 DEF LInv, Typed, DatabaseTyped
    <3>2. rows'[o] = [rows[o] EXCEPT !.actual = "failed"]
      BY <2>1 DEF FailStart, Change
    <3> QED
      BY <3>1, <3>2 DEF Rows
  <2>4. ASSUME NEW t \in Trainings, o = t, Followed(t), IsActive(rows[t]), rows[t].rgen = w.gen
        PROVE  Ends(t)
    <3>1. rows[o].version # 0 /\ \A l \in leases : l.owner = o => l.gen = w.gen
      BY <2>4, States DEF Followed, Versioned, Leased
    <3>2. ~IsActive(rows'[o])
      BY <2>3 DEF IsActive, ActiveStates, ActiveJobStates, ActiveDeploymentStates
    <3> QED
      BY <2>2, <2>3, <2>4, <3>1, <3>2 DEF Ends
  <2> QED
    BY <1>7, <1>9, <2>1, <2>2, <2>4
<1> QED
  BY <1>5, <1>6, <1>8, <1>9

\* The expired leases of ended workloads; no active training is ended.
LEMMA ReapStep ==
    ASSUME PlatformAssumption, LInv, Typed', Reap
    PROVE  LInv' /\ Whole(leases, leases')
<1> DEFINE ended == {l \in {k \in leases : k.expired} :
                        ~Exist(rows[l.owner]) \/ IsTerminal(rows[l.owner])}
           keys == {<<l.owner, l.gen>> : l \in ended}
<1>1. /\ leases' = Reaped(leases, keys) /\ rec' = At("claiming")
      /\ rows' = rows /\ api' = api
  BY DEF Reap
<1>2. /\ Sound(leases') /\ Whole(leases, leases')
      /\ \A p \in Owners : (\A l \in leases : l.owner = p => <<l.owner, l.gen>> \notin keys)
            => Marked(leases, leases', p)
  BY <1>1, ReapedKeeps DEF LInv
<1>3. OneEach' /\ Subjects' = {}
  BY <1>1, AtRest
<1>4. Deletions' /\ LocklessRequests'
  BY <1>1, DeletionsKept DEF LInv, Typed
<1>5. ASSUME NEW t \in Trainings PROVE Followed(t)'
  <2>1. Followed(t) /\ t \in Owners
    BY TrainingFacts DEF LInv
  <2>2. \A l \in leases : l.owner = t => <<l.owner, l.gen>> \notin keys
    <3>1. \A l \in leases : l.owner = t => Exist(rows[l.owner]) /\ ~IsTerminal(rows[l.owner])
      BY <2>1, States DEF Followed, Leased
    <3> QED
      BY <3>1
  <2>3. Stays(t)
    BY <1>1, <1>2, <2>1, <2>2, SameStays
  <2> QED
    BY <1>3, <2>1, <2>3, StaysFollowed
<1> QED
  BY <1>2, <1>3, <1>4, <1>5 DEF LInv

\* The ends of a round that change no table.
LEMMA RoundEnds ==
    ASSUME PlatformAssumption, LInv, Typed',
           ClaimNothing \/ RoundAborts \/ \E o \in Owners : ClaimRaises(o)
    PROVE  LInv' /\ Whole(leases, leases')
<1>1. rec' = At("idle") /\ UNCHANGED <<database, api>>
  BY DEF ClaimNothing, RoundAborts, ClaimRaises
<1>2. OneEach' /\ Subjects' = {}
  BY <1>1, AtRest
<1> QED
  BY <1>1, <1>2, QuietStep

\* The head of the queue is waiting: neither active nor ended.
LEMMA HeadWaits ==
    ASSUME NEW o, IsHead(o)
    PROVE  /\ rows[o].actual = "queued" /\ rows[o].desired = "run"
           /\ Exist(rows[o]) /\ ~IsActive(rows[o]) /\ ~IsTerminal(rows[o])
<1>1. rows[o].actual = "queued" /\ rows[o].desired = "run"
  BY DEF IsHead, Waits
<1> QED
  BY <1>1, States DEF Exist

\* A head that fails its preflight or that is blocked gets nothing.
LEMMA RefusedStep ==
    ASSUME PlatformAssumption, LInv, Typed', NEW o \in Owners,
           ClaimPreflightFails(o) \/ ClaimBlocked(o)
    PROVE  LInv' /\ Whole(leases, leases')
<1>1. /\ leases' = leases /\ api' = api
      /\ \A p \in Owners : p # o => rows'[p] = rows[p]
  BY DEF ClaimPreflightFails, ClaimBlocked, Write, LInv, Typed, DatabaseTyped
<1>2. ~IsTerminal(rows[o]) /\ ~IsActive(rows[o]) /\ Exist(rows[o])
  BY HeadWaits DEF ClaimPreflightFails, ClaimBlocked
<1>3. rows'[o].actual \in {"failed", "queued"} /\ rows'[o].version = rows[o].version
  <2>1. rows[o] \in Rows(Gpus) /\ rows \in [Owners -> Rows(Gpus)]
    BY DEF LInv, Typed, DatabaseTyped
  <2>2. CASE ClaimPreflightFails(o)
    <3>1. rows' = [rows EXCEPT ![o] = [rows[o] EXCEPT !.actual = "failed", !.rgen = 0]]
      BY <2>2 DEF ClaimPreflightFails, Write, Change
    <3> QED
      BY <2>1, <3>1 DEF Rows
  <2>3. CASE ClaimBlocked(o)
    <3>1. rows' = [rows EXCEPT ![o] = [rows[o] EXCEPT !.rgen = 0]]
      BY <2>3 DEF ClaimBlocked
    <3>2. rows[o].actual = "queued"
      BY <2>3, HeadWaits DEF ClaimBlocked
    <3> QED
      BY <2>1, <3>1, <3>2 DEF Rows
  <2> QED
    BY <2>2, <2>3
<1>4. ~IsActive(rows'[o])
  BY <1>3 DEF IsActive, ActiveStates, ActiveDeploymentStates, ActiveJobStates
<1>5. OneEach' /\ \A v \in Subjects' : v \in Subjects
  <2>1. CASE rec' = rec
    BY <2>1 DEF OneEach, Subjects, LInv
  <2>2. CASE rec' = At("idle")
    BY <2>2, AtRest
  <2> QED
    BY <2>1, <2>2 DEF ClaimPreflightFails, ClaimBlocked
<1>6. Deletions' /\ LocklessRequests'
  BY <1>1, <1>2, DeletionsKept DEF LInv, Typed, ClaimPreflightFails, ClaimBlocked
<1>7. leases' = leases
  BY DEF ClaimPreflightFails, ClaimBlocked, Write
<1>8. ASSUME NEW t \in Trainings PROVE Followed(t)'
  <2>1. Followed(t) /\ t \in Owners /\ Marked(leases, leases', t)
    BY <1>7, TrainingFacts, NoMarks DEF LInv
  <2>2. Stays(t)
    <3>1. CASE t # o
      BY <1>1, <2>1, <3>1, SameStays
    <3>2. CASE t = o
      BY <1>2, <1>3, <1>4, <2>1, <3>2 DEF Stays, Followed, Versioned
    <3> QED
      BY <3>1, <3>2
  <2> QED
    BY <1>5, <2>1, <2>2, StaysFollowed
<1> QED
  BY <1>5, <1>6, <1>7, <1>8, NoMarks DEF LInv

\* A claim: the group is free, or it is the group that the owner holds at this generation.
LEMMA ClaimStep ==
    ASSUME PlatformAssumption, LInv, Typed', NEW o \in Owners, Claim(o)
    PROVE  /\ LInv'
           /\ Free(leases, o) \/ Marked(leases, leases', o)
           /\ \A p \in Owners : p # o => Marked(leases, leases', p)
<1> DEFINE row == rows[o]
           w == [owner |-> o, gen |-> row.version, gpus |-> row.gpus, desired |-> row.desired]
<1>1. /\ IsHead(o) /\ ~LeaseInvariantError(leases, o, row.version, row.gpus)
      /\ ~Blocked(leases, o, row.gpus)
      /\ rows' = [rows EXCEPT ![o] = [row EXCEPT !.actual = "starting", !.rgen = row.version]]
      /\ leases' = Acquired(leases, o, row.version, row.gpus)
      /\ rec' = Waiting("start", w, {}) /\ api' = api
  BY DEF Claim, Write, Change
<1>2. /\ row \in Rows(Gpus) /\ row.version \in Nat /\ row.gpus \in SUBSET Gpus
      /\ leases \in SUBSET LeaseRows(Owners, Gpus) /\ rows \in [Owners -> Rows(Gpus)]
  BY DEF LInv, Typed, DatabaseTyped, Rows
<1>3. /\ rows'[o].actual = "starting" /\ rows'[o].rgen = row.version
      /\ rows'[o].version = row.version /\ rows'[o].gpus = row.gpus
      /\ \A p \in Owners : p # o => rows'[p] = rows[p]
  BY <1>1, <1>2 DEF Rows
<1>4. /\ Sound(leases')
      /\ Free(leases, o) \/ Marked(leases, leases', o)
      /\ \A p \in Owners : p # o => Marked(leases, leases', p)
      /\ \A m \in leases' : m.owner = o => m.gen = row.version /\ m.gpu \in row.gpus
      /\ \A g \in row.gpus : \E m \in leases' : m.owner = o /\ m.gpu = g
  BY <1>1, <1>2, AcquiredKeeps DEF LInv
<1>5. Subjects' = {w} /\ rec'.todo = {}
  BY <1>1 DEF Subjects, Waiting
<1>6. OneEach'
  BY <1>5 DEF OneEach
<1>7. Deletions' /\ LocklessRequests'
  BY <1>1, <1>3, HeadWaits, DeletionsKept DEF LInv, Typed
<1>8. ASSUME NEW t \in Trainings PROVE Followed(t)'
  <2>1. Followed(t) /\ t \in Owners
    BY TrainingFacts DEF LInv
  <2>2. CASE t # o
    <3>1. Stays(t)
      BY <1>3, <1>4, <2>1, <2>2, SameStays
    <3>2. \A v \in Subjects' : v.owner # t
      BY <1>5, <2>2
    <3> QED
      BY <2>1, <3>1, <3>2, StaysFollowed
  <2>3. CASE t = o
    <3>1. IsActive(rows'[o])
      BY <1>3 DEF IsActive, ActiveStates, ActiveDeploymentStates
    <3>2. row.version # 0
      BY <1>1, <2>1, <2>3, HeadWaits DEF Followed, Versioned
    <3>3. Leased(t)' /\ Versioned(t)'
      BY <1>3, <1>4, <2>3, <3>1, <3>2 DEF Leased, Versioned
    <3>4. Tracked(t)'
      BY <1>3, <1>5, <2>3, <3>1 DEF Tracked
    <3> QED
      BY <3>3, <3>4 DEF Followed
  <2> QED
    BY <2>2, <2>3
<1> QED
  BY <1>4, <1>6, <1>7, <1>8 DEF LInv

\* The round goes on as it was.
LEMMA RoundKept ==
    ASSUME LInv, rec' = rec, \A t \in Trainings : Stays(t)
    PROVE  OneEach' /\ \A t \in Trainings : Followed(t)'
<1>1. OneEach' /\ Subjects' = Subjects
  BY DEF OneEach, Subjects, LInv
<1>2. ASSUME NEW t \in Trainings PROVE Followed(t)'
  BY <1>1, StaysFollowed DEF LInv
<1> QED
  BY <1>1, <1>2

\* A transaction on one row that leaves the leases alone.
LEMMA RowStays ==
    ASSUME PlatformAssumption, LInv, NEW o \in Owners, NEW row,
           rows' = [rows EXCEPT ![o] = row], leases' = leases,
           o \in Trainings =>
               /\ IsActive(row) <=> IsActive(rows[o])
               /\ IsActive(rows[o]) => row.rgen = rows[o].rgen /\ row.gpus = rows[o].gpus
               /\ Exist(row) => row.version # 0
    PROVE  \A t \in Trainings : Stays(t)
<1>1. rows'[o] = row /\ \A p \in Owners : p # o => rows'[p] = rows[p]
  BY DEF LInv, Typed, DatabaseTyped
<1>2. ASSUME NEW t \in Trainings PROVE Stays(t)
  <2>1. Followed(t) /\ t \in Owners /\ Marked(leases, leases', t)
    BY TrainingFacts, NoMarks DEF LInv
  <2>2. CASE t # o
    BY <1>1, <2>1, <2>2, SameStays
  <2>3. CASE t = o
    BY <1>1, <2>1, <2>3 DEF Stays
  <2> QED
    BY <2>2, <2>3
<1> QED
  BY <1>2

\* Termination and cancellation, of a row that was read as it is.
LEMMA EndJobEffect ==
    ASSUME NEW row \in Rows(Gpus)
    PROVE  /\ EndJob(row).row.rgen = row.rgen /\ EndJob(row).row.gpus = row.gpus
           /\ EndJob(row).row.version = row.version + 1 /\ EndJob(row).row.desired = "stop"
           /\ EndJob(row).row.actual = CASE row.actual = "queued" -> "canceled"
                                         [] row.actual \in {"starting", "running"} -> "canceling"
                                         [] OTHER -> row.actual
<1> DEFINE ended == [row EXCEPT !.desired = "stop", !.version = @ + 1]
<1>1. /\ ended \in Rows(Gpus) /\ ended.rgen = row.rgen /\ ended.gpus = row.gpus
      /\ ended.actual = row.actual /\ ended.version = row.version + 1 /\ ended.desired = "stop"
  <2>1. row.version + 1 \in Nat
    BY DEF Rows
  <2> QED
    BY <2>1 DEF Rows
<1>2. EndJob(row).row = CASE row.actual = "queued" -> [ended EXCEPT !.actual = "canceled"]
                          [] row.actual \in {"starting", "running"} ->
                                [ended EXCEPT !.actual = "canceling"]
                          [] OTHER -> ended
  BY DEF EndJob, Change, Only
<1> HIDE DEF ended
<1>3. CASE row.actual = "queued"
  <2>1. EndJob(row).row = [ended EXCEPT !.actual = "canceled"]
    BY <1>2, <1>3
  <2> QED
    BY <1>1, <1>3, <2>1 DEF Rows
<1>4. CASE row.actual \in {"starting", "running"}
  <2>1. EndJob(row).row = [ended EXCEPT !.actual = "canceling"]
    BY <1>2, <1>4
  <2> QED
    BY <1>1, <1>4, <2>1 DEF Rows
<1>5. CASE row.actual \notin {"queued", "starting", "running"}
  <2>1. EndJob(row).row = ended
    BY <1>2, <1>5
  <2> QED
    BY <1>1, <1>5, <2>1
<1> QED
  BY <1>3, <1>4, <1>5

\* The requests that work on rows: what they do to trainings and to the requests in progress.
LEMMA CreateStep ==
    ASSUME PlatformAssumption, LInv, Typed', NEW o \in Owners, NEW gs, CreateWorkload(o, gs)
    PROVE  LInv' /\ Whole(leases, leases')
<1>1. /\ rows' = [rows EXCEPT ![o] = Create(gs).row] /\ leases' = leases
      /\ rec' = rec /\ api' = api
      /\ ~Exist(rows[o])
  BY DEF CreateWorkload, Write
<1>2. ~IsActive(rows[o]) /\ ~IsTerminal(rows[o])
  BY <1>1, States DEF Exist
<1>3. Create(gs).row.actual = "queued" /\ Create(gs).row.version = 1
  BY DEF Create, Change
<1>4. ~IsActive(Create(gs).row) /\ Create(gs).row.version # 0
  BY <1>3, States
<1>5. \A t \in Trainings : Stays(t)
  BY <1>1, <1>2, <1>4, RowStays
<1>6. Deletions' /\ LocklessRequests'
  <2>1. \A p \in Owners : IsTerminal(rows[p]) => rows'[p] = rows[p]
    BY <1>1, <1>2 DEF LInv, Typed, DatabaseTyped
  <2> QED
    BY <1>1, <2>1, DeletionsKept DEF LInv, Typed
<1> QED
  BY <1>1, <1>5, <1>6, RoundKept, NoMarks DEF LInv

\* terminate_training_job.
LEMMA TerminateStep ==
    ASSUME PlatformAssumption, LInv, Typed', NEW o \in Owners, TerminateTraining(o)
    PROVE  LInv' /\ Whole(leases, leases')
<1> DEFINE row == EndJob(rows[o]).row
<1>1. /\ rows' = [rows EXCEPT ![o] = row] /\ leases' = leases
      /\ rec' = rec /\ api' = api
      /\ ~Locked(o)
  BY DEF TerminateTraining, Write
<1>2. rows[o] \in Rows(Gpus) /\ rows[o].version \in Nat
  BY DEF LInv, Typed, DatabaseTyped, Rows
<1>3. /\ row.rgen = rows[o].rgen /\ row.gpus = rows[o].gpus /\ row.version = rows[o].version + 1
      /\ row.actual = CASE rows[o].actual = "queued" -> "canceled"
                        [] rows[o].actual \in {"starting", "running"} -> "canceling"
                        [] OTHER -> rows[o].actual
  BY <1>2, EndJobEffect
<1> HIDE DEF row
<1>4. IsActive(row) <=> IsActive(rows[o])
  <2>1. /\ "queued" \notin ActiveStates /\ "canceled" \notin ActiveStates
        /\ {"starting", "running", "canceling"} \subseteq ActiveStates
    BY DEF ActiveStates, ActiveDeploymentStates, ActiveJobStates
  <2>2. CASE rows[o].actual = "queued"
    BY <1>3, <2>1, <2>2 DEF IsActive
  <2>3. CASE rows[o].actual \in {"starting", "running"}
    BY <1>3, <2>1, <2>3 DEF IsActive
  <2>4. CASE rows[o].actual \notin {"queued", "starting", "running"}
    BY <1>3, <2>4 DEF IsActive
  <2> QED
    BY <2>2, <2>3, <2>4
<1>5. row.version # 0
  BY <1>2, <1>3
<1>6. \A t \in Trainings : Stays(t)
  BY <1>1, <1>3, <1>4, <1>5, RowStays
<1>7. Deletions' /\ LocklessRequests'
  <2>1. \A p \in Owners : Locked(p) => rows'[p] = rows[p]
    BY <1>1 DEF LInv, Typed, DatabaseTyped
  <2> QED
    BY <1>1, <2>1, DeletionsKept DEF LInv, Typed
<1> QED
  BY <1>1, <1>6, <1>7, RoundKept, NoMarks DEF LInv

\* A request reads its row.
LEMMA ReadStep ==
    ASSUME PlatformAssumption, LInv, Typed', NEW c \in Clients, NEW o \in Owners, ReadRow(c, o)
    PROVE  LInv' /\ Whole(leases, leases')
<1>1. PICK kind \in Kinds(o) :
          api' = [api EXCEPT ![c] = [kind |-> kind, owner |-> o, read |-> rows[o],
                                     queued |-> Queued(o)]]
  BY DEF ReadRow
<1>2. rows' = rows /\ leases' = leases /\ rec' = rec
  BY DEF ReadRow, database
<1>3. kind # "deleting" /\ o \notin Trainings
  BY <1>1, TrainingFacts DEF Kinds
<1>4. /\ api'[c].kind = kind /\ api'[c].owner = o
      /\ \A d \in Clients : d # c => api'[d] = api[d]
  BY <1>1 DEF LInv, Typed, ApiTyped
<1>5. Deletions' /\ LocklessRequests'
  <2>1. Deletions'
    BY <1>2, <1>3, <1>4 DEF LInv, Deletions
  <2>2. LocklessRequests'
    BY <1>3, <1>4 DEF LInv, LocklessRequests
  <2> QED
    BY <2>1, <2>2
<1>6. \A t \in Trainings : Stays(t)
  BY <1>2, NoMarks, SameStays DEF LInv
<1> QED
  BY <1>2, <1>5, <1>6, RoundKept, NoMarks DEF LInv

\* A request is done.
LEMMA RequestDone ==
    ASSUME LInv, NEW c \in Clients, api' = [api EXCEPT ![c] = NoRequest],
           \A d \in Clients \ {c} : api[d].kind = "deleting" => rows'[api[d].owner] = rows[api[d].owner]
    PROVE  Deletions' /\ LocklessRequests'
<1>1. /\ api'[c].kind = "none"
      /\ \A d \in Clients : d # c => api'[d] = api[d]
  BY DEF LInv, Typed, ApiTyped, NoRequest
<1>2. Deletions'
  BY <1>1 DEF LInv, Deletions
<1>3. LocklessRequests'
  BY <1>1 DEF LInv, LocklessRequests
<1> QED
  BY <1>2, <1>3

\* A request commits what it decided on the row that it read; it is never a training's.
LEMMA CommitStep ==
    ASSUME PlatformAssumption, LInv, Typed', NEW c \in Clients, CommitRow(c)
    PROVE  LInv' /\ Whole(leases, leases')
<1> DEFINE o == api[c].owner
<1>1. /\ api' = [api EXCEPT ![c] = NoRequest] /\ rec' = rec
      /\ \E change \in Written(api[c]) : TRUE
      /\ ~Locked(o)
  BY DEF CommitRow
<1>2. o \in Owners /\ o \notin Trainings
  <2>1. api[c].kind \in {"start", "stop", "edit", "cancel"} /\ o \in Owners
    BY <1>1, WrittenTypes DEF LInv, Typed
  <2> QED
    BY <2>1 DEF LInv, LocklessRequests
<1>3. leases' = leases /\ \E row : rows' = [rows EXCEPT ![o] = row]
  <2>1. PICK change \in Written(api[c]) : \E queued :
           IF Exist(rows[o])
           THEN Write(o, Change(Merge(rows[o], api[c].read, change.row), queued, FALSE), leases)
           ELSE UNCHANGED database
    BY DEF CommitRow
  <2>2. CASE Exist(rows[o])
    BY <2>1, <2>2 DEF Write
  <2>3. CASE ~Exist(rows[o])
    <3>1. rows' = rows /\ leases' = leases
      BY <2>1, <2>3 DEF database
    <3>2. rows = [rows EXCEPT ![o] = rows[o]]
      BY DEF LInv, Typed, DatabaseTyped
    <3> QED
      BY <3>1, <3>2
  <2> QED
    BY <2>2, <2>3
<1>4. \A t \in Trainings : Stays(t)
  BY <1>2, <1>3, RowStays
<1>5. \A d \in Clients \ {c} : api[d].kind = "deleting" => rows'[api[d].owner] = rows[api[d].owner]
  <2>1. \A d \in Clients : api[d].kind = "deleting" => api[d].owner \in Owners /\ api[d].owner # o
    BY <1>1 DEF LInv, Typed, ApiTyped, Requests, NoRequest, Locked
  <2> QED
    BY <1>3, <2>1 DEF LInv, Typed, DatabaseTyped
<1>6. Deletions' /\ LocklessRequests'
  BY <1>1, <1>5, RequestDone
<1> QED
  BY <1>1, <1>3, <1>4, <1>6, RoundKept, NoMarks DEF LInv

\* A DELETE locks an ended row that nobody else has locked.
LEMMA BeginDeleteStep ==
    ASSUME PlatformAssumption, LInv, Typed', NEW c \in Clients, NEW o \in Owners, BeginDelete(c, o)
    PROVE  LInv' /\ Whole(leases, leases')
<1>1. /\ api' = [api EXCEPT ![c] = [kind |-> "deleting", owner |-> o]]
      /\ rows' = rows /\ leases' = leases /\ rec' = rec
      /\ IsTerminal(rows[o]) /\ ~Locked(o)
  BY DEF BeginDelete, database
<1>2. /\ api'[c].kind = "deleting" /\ api'[c].owner = o
      /\ \A d \in Clients : d # c => api'[d] = api[d]
  BY <1>1 DEF LInv, Typed, ApiTyped
<1>3. \A d \in Clients : api[d].kind = "deleting" => api[d].owner # o
  BY <1>1 DEF Locked
<1>4. Deletions'
  BY <1>1, <1>2, <1>3 DEF LInv, Deletions
<1>5. LocklessRequests'
  BY <1>2 DEF LInv, LocklessRequests
<1>6. \A t \in Trainings : Stays(t)
  BY <1>1, NoMarks, SameStays DEF LInv
<1> QED
  BY <1>1, <1>4, <1>5, <1>6, RoundKept, NoMarks DEF LInv

\* A DELETE is answered: the ended row and what is left of its leases go together.
LEMMA FinishDeleteStep ==
    ASSUME PlatformAssumption, LInv, Typed', NEW c \in Clients, FinishDelete(c)
    PROVE  LInv' /\ Whole(leases, leases')
<1> DEFINE o == api[c].owner
           change == Change([NoRow EXCEPT !.version = MaxVersion], "clear", FALSE)
<1>1. /\ api' = [api EXCEPT ![c] = NoRequest] /\ rec' = rec
      /\ api[c].kind = "deleting"
      /\ UNCHANGED database \/ Write(o, change, ReleaseAll(leases, o))
  BY DEF FinishDelete
<1>2. o \in Owners /\ IsTerminal(rows[o])
  BY <1>1 DEF LInv, Typed, ApiTyped, Requests, NoRequest, Deletions
<1>3. /\ change.row.actual = "none" /\ ~IsActive(change.row) /\ ~Exist(change.row)
  BY States DEF Change, NoRow, Exist
<1> HIDE DEF change
<1>4. /\ \A p \in Owners : p # o => rows'[p] = rows[p] /\ Marked(leases, leases', p)
      /\ Sound(leases') /\ Whole(leases, leases')
      /\ \/ rows'[o] = rows[o] /\ leases' = leases
         \/ rows'[o] = change.row /\ Free(leases', o)
  <2>1. CASE UNCHANGED database
    BY <2>1, NoMarks DEF database, LInv
  <2>2. CASE Write(o, change, ReleaseAll(leases, o))
    <3>1. /\ rows'[o] = change.row /\ leases' = ReleaseAll(leases, o)
          /\ \A p \in Owners : p # o => rows'[p] = rows[p]
      BY <1>2, <2>2, WriteEffect DEF LInv, Typed
    <3> QED
      BY <3>1, ReleaseAllKeeps DEF LInv
  <2> QED
    BY <1>1, <2>1, <2>2
<1>5. ASSUME NEW t \in Trainings PROVE Stays(t)
  <2>1. Followed(t) /\ t \in Owners
    BY TrainingFacts DEF LInv
  <2>2. CASE t # o
    BY <1>4, <2>1, <2>2, SameStays
  <2>3. CASE t = o /\ rows'[o] = rows[o] /\ leases' = leases
    BY <2>1, <2>3, SameStays, NoMarks
  <2>4. CASE t = o /\ rows'[o] = change.row /\ Free(leases', o)
    <3>1. ~IsActive(rows[o])
      BY <1>2, States
    <3>2. Marked(leases, leases', t)
      BY <2>1, <2>4, <3>1 DEF Followed, Leased, Free, Marked
    <3> QED
      BY <1>3, <2>4, <3>1, <3>2 DEF Stays
  <2> QED
    BY <1>4, <2>2, <2>3, <2>4
<1>6. \A d \in Clients \ {c} : api[d].kind = "deleting" => rows'[api[d].owner] = rows[api[d].owner]
  <2>1. \A d \in Clients \ {c} : api[d].kind = "deleting" => api[d].owner \in Owners /\ api[d].owner # o
    BY <1>1 DEF LInv, Typed, ApiTyped, Requests, NoRequest, Deletions
  <2> QED
    BY <1>4, <2>1
<1>7. Deletions' /\ LocklessRequests'
  BY <1>1, <1>6, RequestDone
<1> QED
  BY <1>1, <1>4, <1>5, <1>7, RoundKept DEF LInv

\* Leases expire.
LEMMA ExpiryStep ==
    ASSUME PlatformAssumption, LInv, Typed', NEW o \in Owners, LeaseExpires(o)
    PROVE  LInv' /\ Whole(leases, leases')
<1>1. PICK l \in Owned(leases, o) : leases' = Expired(leases, o, l.gen)
  BY DEF LeaseExpires
<1>2. l.gen \in Nat /\ leases \in SUBSET LeaseRows(Owners, Gpus)
  BY DEF Owned, LInv, Typed, DatabaseTyped, LeaseRows
<1>3. Sound(leases') /\ \A p \in Owners : Marked(leases, leases', p)
  BY <1>1, <1>2, MarksKeep DEF LInv
<1>4. rows' = rows /\ rec' = rec /\ api' = api
  BY DEF LeaseExpires
<1>5. \A t \in Trainings : Stays(t)
  BY <1>3, <1>4, TrainingFacts, SameStays DEF LInv
<1>6. Deletions' /\ LocklessRequests'
  BY <1>4, DeletionsKept DEF LInv, Typed
<1> QED
  BY <1>3, <1>4, <1>5, <1>6, RoundKept DEF LInv, Whole

\* Every step keeps the invariant, and only a claim gives anyone leases.
LEMMA NextLInv ==
    ASSUME PlatformAssumption, LInv, [Next]_vars
    PROVE  LInv' /\ (Whole(leases, leases') \/ \E o \in Owners : Claim(o))
<1>0. Typed'
  BY NextTypes DEF LInv
<1>1. CASE UNCHANGED vars
  <2>1. UNCHANGED <<database, api>> /\ rec' = rec
    BY <1>1 DEF vars
  <2>2. OneEach' /\ \A w \in Subjects' : w \in Subjects
    BY <2>1 DEF OneEach, Subjects, LInv
  <2> QED
    BY <1>0, <2>1, <2>2, QuietStep
<1>2. CASE Reconcile \/ RoundAborts
  BY <1>0, <1>2, BeginStep, PollStep, ObserveStep, ReapStep, RoundEnds, StartReplyStep, RefusedStep,
     ClaimStep DEF Reconcile
<1>3. CASE Request \/ \E o \in Owners : LeaseExpires(o)
  BY <1>0, <1>3, CreateStep, TerminateStep, ReadStep, CommitStep, BeginDeleteStep, FinishDeleteStep,
     ExpiryStep DEF Request
<1>4. CASE \/ \E c \in Callers : AgentServes(c) \/ CallFails(c)
           \/ \E cmd \in late : AgentServesLate(cmd)
           \/ \E o \in Owners : ContainerEvent(o)
  <2>1. UNCHANGED <<database, rec, api>>
    BY <1>4, AgentSteps DEF LInv, Typed
  <2>2. OneEach' /\ \A w \in Subjects' : w \in Subjects
    BY <2>1 DEF OneEach, Subjects, LInv
  <2> QED
    BY <1>0, <2>1, <2>2, QuietStep
<1> QED
  BY <1>1, <1>2, <1>3, <1>4, NextCases

\* The initial state.
LEMMA InitLInv == ASSUME PlatformAssumption, Init PROVE LInv
<1>1. Typed
  BY InitTypes
<1>2. /\ rows = [o \in Owners |-> NoRow] /\ leases = {} /\ rec = At("idle")
      /\ api = [c \in Clients |-> NoRequest]
  BY DEF Init
<1>3. Sound(leases)
  BY <1>2 DEF Sound, Exclusive, OneGroup
<1>4. Subjects = {} /\ OneEach
  BY <1>2 DEF Subjects, OneEach, At
<1>5. Deletions /\ LocklessRequests
  BY <1>2 DEF Deletions, LocklessRequests, NoRequest
<1>6. ASSUME NEW t \in Trainings PROVE Followed(t)
  <2>1. rows[t] = NoRow /\ NoRow.actual = "none"
    BY <1>2, TrainingFacts DEF NoRow
  <2>2. ~IsActive(rows[t]) /\ ~Exist(rows[t])
    BY <2>1, States DEF Exist
  <2> QED
    BY <1>2, <1>4, <2>2 DEF Followed, Tracked, Leased, Versioned
<1> QED
  BY <1>1, <1>3, <1>4, <1>5, <1>6 DEF LInv

\* LInv holds in every state.
LEMMA PlatformInvariant == Spec => []LInv
<1>1. Init => LInv
  BY InitLInv, PlatformAssumption
<1>2. LInv /\ [Next]_vars => LInv'
  BY NextLInv, PlatformAssumption
<1> QED
  BY <1>1, <1>2, PTL DEF Spec

-----------------------------------------------------------------------------
(***************************************************************************)
(* What follows for leases.                                                *)
(***************************************************************************)
\* A GPU is never leased twice (uq on node and GPU index, conflict check under the scheduler
\* lock), and a training job holds exactly the GPUs of its row, at its running generation, from
\* the claim to the transaction that ends it: whatever calls are lost, whatever rounds abort.
THEOREM TrainingsHoldTheirGroup == Spec => []LeaseFollowsTraining
<1>1. LInv => LeaseFollowsTraining
  <2> SUFFICES ASSUME LInv PROVE LeaseFollowsTraining
    OBVIOUS
  <2>1. \A l, m \in leases : l.gpu = m.gpu => l = m
    BY DEF LInv, Sound, Exclusive
  <2>2. ASSUME NEW t \in Trainings
        PROVE  {<<l.gpu, l.gen>> : l \in Owned(leases, t)}
                  = IF IsActive(rows[t]) THEN rows[t].gpus \X {rows[t].rgen} ELSE {}
    <3>1. Leased(t)
      BY DEF LInv, Followed
    <3>2. CASE IsActive(rows[t])
      <4>1. \A l \in leases : l.owner = t => l.gen = rows[t].rgen /\ l.gpu \in rows[t].gpus
        BY <3>1 DEF Leased
      <4>2. \A g \in rows[t].gpus : \E l \in leases : l.owner = t /\ l.gpu = g /\ l.gen = rows[t].rgen
        BY <3>1, <3>2 DEF Leased
      <4>3. {<<l.gpu, l.gen>> : l \in Owned(leases, t)} \subseteq rows[t].gpus \X {rows[t].rgen}
        BY <4>1 DEF Owned
      <4>4. rows[t].gpus \X {rows[t].rgen} \subseteq {<<l.gpu, l.gen>> : l \in Owned(leases, t)}
        BY <4>2 DEF Owned
      <4> QED
        BY <3>2, <4>3, <4>4
    <3>3. CASE ~IsActive(rows[t])
      <4>1. Owned(leases, t) = {}
        BY <3>1, <3>3 DEF Leased, Owned
      <4> QED
        BY <3>3, <4>1
    <3> QED
      BY <3>2, <3>3
  <2> QED
    BY <2>1, <2>2 DEF LeaseFollowsTraining
<1> QED
  BY <1>1, PlatformInvariant, PTL

\* A group that is only marked is held as before, and one that is gone is not held.
LEMMA MarkedIsHeld ==
    ASSUME NEW o \in Owners
    PROVE  /\ Marked(leases, leases', o) => HeldByLease(o)' = HeldByLease(o)
           /\ Free(leases, o) => HeldByLease(o) = {} /\ Owned(leases, o) = {}
           /\ Free(leases', o) => HeldByLease(o)' = {} /\ Owned(leases', o) = {}
<1>1. ASSUME Marked(leases, leases', o) PROVE HeldByLease(o)' = HeldByLease(o)
  <2>1. \A l \in Owned(leases, o) : \E m \in Owned(leases', o) : m.gpu = l.gpu /\ m.gen = l.gen
    BY <1>1 DEF Marked, Owned
  <2>2. \A m \in Owned(leases', o) : \E l \in Owned(leases, o) : m.gpu = l.gpu /\ m.gen = l.gen
    BY <1>1 DEF Marked, Owned
  <2> QED
    BY <2>1, <2>2 DEF HeldByLease
<1>2. \A ls : Free(ls, o) => Owned(ls, o) = {}
  BY DEF Free, Owned
<1> QED
  BY <1>1, <1>2 DEF HeldByLease

\* A claim of an owner that held nothing is an acquisition: of one generation, and of GPUs that
\* nobody else holds, since no GPU is leased twice afterwards and the others keep their leases.
LEMMA ClaimAcquires ==
    ASSUME PlatformAssumption, LInv, Typed', NEW o \in Owners, Claim(o), Free(leases, o)
    PROVE  Allocation!Acquire(o)
<1>1. /\ Sound(leases') /\ leases' \subseteq LeaseRows(Owners, Gpus)
      /\ \A p \in Owners : p # o => Marked(leases, leases', p)
  BY ClaimStep DEF LInv, Typed, DatabaseTyped
<1>2. /\ Held = [p \in Owners |-> HeldByLease(p)]
      /\ Held' = [p \in Owners |-> HeldByLease(p)']
  BY DEF Held
<1>3. Held[o] = {} /\ Held' = [Held EXCEPT ![o] = Held'[o]]
  BY <1>1, <1>2, MarkedIsHeld
<1>4. \A x \in Held'[o] : \E l \in leases' : l.owner = o /\ x = <<l.gpu, l.gen>>
  BY <1>2 DEF HeldByLease, Owned
<1>5. Held'[o] \in SUBSET (Gpus \X Nat)
  BY <1>1, <1>4 DEF LeaseRows
<1>6. \A x, y \in Held'[o] : x[2] = y[2]
  BY <1>1, <1>4 DEF Sound, OneGroup
<1>7. \A p \in Owners : Allocation!Disjoint(Held[p], Held'[o])
  <2> SUFFICES ASSUME NEW p \in Owners, NEW x \in Held[p], NEW y \in Held'[o], x[1] = y[1]
               PROVE  FALSE
    BY DEF Allocation!Disjoint
  <2>1. PICK n \in leases' : n.owner = o /\ y = <<n.gpu, n.gen>>
    BY <1>4
  <2>2. p # o
    BY <1>3
  <2>3. PICK l \in leases : l.owner = p /\ x = <<l.gpu, l.gen>>
    BY <1>2 DEF HeldByLease, Owned
  <2>4. PICK m \in leases' : m.owner = p /\ m.gpu = l.gpu
    BY <1>1, <2>2, <2>3 DEF Marked
  <2>5. m.gpu = n.gpu
    BY <2>1, <2>3, <2>4
  <2> QED
    BY <1>1, <2>1, <2>2, <2>4, <2>5 DEF Sound, Exclusive
<1> QED
  BY <1>3, <1>5, <1>6, <1>7 DEF Allocation!Acquire

\* The lease table is an allocation of whole GPUs: through claims, heartbeats, expiry, reaping,
\* lost calls, aborted rounds and deletions, a group is taken at once and given back at once.
THEOREM LeasesAllocateWholeGpus == Spec => ImplementsAllocation
<1>1. Init => Allocation!Init
  BY DEF Init, Allocation!Init, Held, HeldByLease, Owned
<1>2. ASSUME LInv, [Next]_vars PROVE [Allocation!Next]_Held
  <2>1. /\ Held = [p \in Owners |-> HeldByLease(p)]
        /\ Held' = [p \in Owners |-> HeldByLease(p)']
    BY DEF Held
  <2>2. CASE Whole(leases, leases')
    <3> DEFINE gone == {p \in Owners : ~Marked(leases, leases', p)}
    <3>1. \A p \in Owners : HeldByLease(p)' = IF p \in gone THEN {} ELSE HeldByLease(p)
      BY <2>2, MarkedIsHeld DEF Whole
    <3> HIDE DEF gone
    <3>2. Held' = [p \in Owners |-> IF p \in gone THEN {} ELSE Held[p]]
      BY <2>1, <3>1
    <3>3. gone \in SUBSET Owners
      BY DEF gone
    <3> QED
      BY <3>2, <3>3 DEF Allocation!Next, Allocation!GiveBack
  <2>3. ASSUME NEW o \in Owners, Claim(o) PROVE [Allocation!Next]_Held
    <3>0. LInv' /\ Typed'
      BY <1>2, NextLInv, PlatformAssumption DEF LInv
    <3>1. CASE Free(leases, o)
      BY <1>2, <2>3, <3>0, <3>1, ClaimAcquires, PlatformAssumption DEF Allocation!Next
    <3>2. CASE Marked(leases, leases', o)
      <4>1. \A p \in Owners : Marked(leases, leases', p)
        BY <1>2, <2>3, <3>0, <3>2, ClaimStep, PlatformAssumption
      <4>2. Held' = Held
        BY <2>1, <4>1, MarkedIsHeld
      <4> QED
        BY <4>2
    <3> QED
      BY <1>2, <2>3, <3>0, <3>1, <3>2, ClaimStep, PlatformAssumption
  <2> QED
    BY <1>2, <2>2, <2>3, NextLInv, PlatformAssumption
<1> QED
  BY <1>1, <1>2, PlatformInvariant, PTL DEF Spec, ImplementsAllocation, Allocation!Spec

\* An owner's group appears, changes and disappears as a whole (try_acquire_locked,
\* release_locked, reap_expired_locked): no GPU of a group is given back before the others.
THEOREM GroupsAreWhole == Spec => WholeGroups
<1> DEFINE AllWhole == \A o \in Owners :
               Owned(leases, o) # {} /\ Owned(leases', o) # {}
                   => {<<l.gpu, l.gen>> : l \in Owned(leases, o)}
                        = {<<l.gpu, l.gen>> : l \in Owned(leases', o)}
<1>1. ASSUME LInv, [Next]_vars PROVE AllWhole
  <2>1. \A o \in Owners : \/ Marked(leases, leases', o)
                          \/ Free(leases, o) \/ Free(leases', o)
    BY <1>1, NextLInv, ClaimStep, NextTypes, PlatformAssumption DEF Whole, LInv
  <2> QED
    BY <2>1, MarkedIsHeld DEF HeldByLease
<1>2. WholeGroups <=> [][AllWhole]_vars
  BY DEF WholeGroups
<1> HIDE DEF AllWhole
<1> QED
  BY <1>1, <1>2, PlatformInvariant, PTL DEF Spec

-----------------------------------------------------------------------------
(***************************************************************************)
(* The queue: whoever is queued is in it.                                  *)
(***************************************************************************)
QInv == \A p \in Owners : rows[p].actual = "queued" => Queued(p)

\* A transaction that queues a row puts it in the queue, and takes nobody else out of it.
LEMMA QueueKept ==
    ASSUME DatabaseTyped, QInv, NEW o \in Owners, NEW change, NEW ls, Write(o, change, ls),
           change.row.actual = "queued"
               => change.queued = "set" \/ (change.queued = "keep" /\ rows[o].actual = "queued")
    PROVE  QInv'
<1>1. /\ rows'[o] = change.row /\ queue' = QueueAfter(o, change.queued)
      /\ \A p \in Owners : p # o => rows'[p] = rows[p]
  BY DEF Write, DatabaseTyped
<1> DEFINE rest == Without(o)
<1>2. /\ rest \in Seq(Owners) /\ queue \in Seq(Owners)
      /\ \A i \in 1..Len(queue) : queue[i] # o => \E k \in 1..Len(rest) : rest[k] = queue[i]
  BY WithoutShape DEF DatabaseTyped
<1> HIDE DEF rest
<1>3. /\ Append(rest, o) \in Seq(Owners) /\ Len(Append(rest, o)) = Len(rest) + 1
      /\ Append(rest, o)[Len(rest) + 1] = o
      /\ \A k \in 1..Len(rest) : Append(rest, o)[k] = rest[k]
  BY <1>2
<1>4. queue' \in {Append(rest, o), rest, queue}
  BY <1>1 DEF QueueAfter, rest
<1>5. ASSUME NEW i \in 1..Len(queue), queue[i] # o
      PROVE  \E k \in 1..Len(queue') : queue'[k] = queue[i]
  <2>1. PICK k \in 1..Len(rest) : rest[k] = queue[i]
    BY <1>2, <1>5
  <2>2. k \in 1..(Len(rest) + 1)
    BY <1>2
  <2>3. CASE queue' = Append(rest, o)
    BY <1>3, <2>1, <2>2, <2>3
  <2>4. CASE queue' = rest
    BY <2>1, <2>4
  <2>5. CASE queue' = queue
    BY <2>5
  <2> QED
    BY <1>4, <2>3, <2>4, <2>5
<1>6. ASSUME NEW p \in Owners, p # o, rows'[p].actual = "queued" PROVE Queued(p)'
  <2>1. PICK i \in 1..Len(queue) : queue[i] = p
    BY <1>1, <1>6 DEF QInv, Queued
  <2> QED
    BY <1>5, <1>6, <2>1 DEF Queued
<1>7. ASSUME rows'[o].actual = "queued" PROVE Queued(o)'
  <2>1. CASE change.queued = "set"
    <3>1. queue' = Append(rest, o) /\ Len(rest) + 1 \in 1..(Len(rest) + 1)
      BY <1>1, <1>2, <2>1 DEF QueueAfter, rest
    <3> QED
      BY <1>3, <3>1 DEF Queued
  <2>2. CASE change.queued = "keep" /\ rows[o].actual = "queued"
    <3>1. queue' = queue
      BY <1>1, <2>2 DEF QueueAfter
    <3> QED
      BY <2>2, <3>1 DEF QInv, Queued
  <2> QED
    BY <1>1, <1>7, <2>1, <2>2
<1> QED
  BY <1>6, <1>7 DEF QInv

\* An observation queues a deployment that vanished again, and nothing else.
LEMMA ObserveDeploymentQueue ==
    ASSUME NEW row \in Rows(Gpus), NEW reply \in Answers, reply # Unavailable
    PROVE  ObserveDeployment(row, reply).row.actual = "queued"
               => ObserveDeployment(row, reply).queued = "set"
<1>1. reply.state \in {"absent", "failed", "succeeded"} \cup Busy /\ row.desired \in {"run", "stop"}
  BY ReplyTypes DEF Reply, Busy, Rows
<1>3. CASE reply.state = "absent" /\ row.desired = "run"
  <2>1. ObserveDeployment(row, reply)
           = Change([row EXCEPT !.actual = "queued", !.rgen = 0], "set", TRUE)
    BY <1>3 DEF ObserveDeployment, Busy
  <2> QED
    BY <2>1 DEF Change
<1>4. CASE reply.state = "absent" /\ row.desired = "stop"
  <2>1. ObserveDeployment(row, reply) = Change([row EXCEPT !.actual = "stopped"], "keep", TRUE)
    BY <1>4 DEF ObserveDeployment, Busy
  <2> QED
    BY <2>1 DEF Change, Rows
<1>5. CASE reply.state \in {"failed", "succeeded"}
  <2>1. ObserveDeployment(row, reply) = Change([row EXCEPT !.actual = "failed"], "keep", TRUE)
    BY <1>5 DEF ObserveDeployment, Busy
  <2> QED
    BY <2>1 DEF Change, Rows
<1>6. CASE reply.state \in Busy
  <2>1. ObserveDeployment(row, reply)
           = Only([row EXCEPT !.actual = IF row.desired = "stop" THEN "stopping" ELSE reply.state])
    BY <1>6 DEF ObserveDeployment, Busy
  <2>2. ObserveDeployment(row, reply).row.actual
           = IF row.desired = "stop" THEN "stopping" ELSE reply.state
    BY <2>1 DEF Only, Change, Rows
  <2> QED
    BY <1>6, <2>2 DEF Busy
<1> QED
  BY <1>1, <1>3, <1>4, <1>5, <1>6

\* What a request without a lock decides about the queue: to enter it, to leave row and queue
\* alone, or to leave the queued state.
LEMMA WrittenQueue ==
    ASSUME PlatformAssumption, ApiTyped, NEW c \in Clients, NEW change \in Written(api[c])
    PROVE  \/ change.queued = "set"
           \/ change.queued = "keep" /\ change.row.actual = api[c].read.actual
           \/ change.row.actual # api[c].read.actual /\ change.row.actual # "queued"
<1> DEFINE read == api[c].read
<1>1. read \in Rows(Gpus) /\ api[c].kind \in {"start", "stop", "edit", "cancel"}
  BY WrittenTypes
<1>2. read.version + 1 \in Nat
  BY <1>1 DEF Rows
<1>3. CASE api[c].kind = "start"
  <2>1. change = StartDeployment(read)
    BY <1>3 DEF Written
  <2>2. [read EXCEPT !.desired = "run"].actual = read.actual
    BY <1>1 DEF Rows
  <2> QED
    BY <2>1, <2>2 DEF StartDeployment, Change, Only
<1>4. CASE api[c].kind = "stop"
  <2> DEFINE stopped == [read EXCEPT !.desired = "stop", !.version = @ + 1]
  <2>1. change = StopDeployment(read)
    BY <1>4 DEF Written
  <2>2. stopped \in Rows(Gpus) /\ stopped.actual = read.actual
    BY <1>1, <1>2 DEF Rows
  <2>3. change = CASE read.actual \in {"queued", "failed"} ->
                          Change([stopped EXCEPT !.actual = "stopped"], "clear", FALSE)
                   [] read.actual \in {"stopped", "stopping"} -> Only(stopped)
                   [] OTHER -> Only([stopped EXCEPT !.actual = "stopping"])
    BY <2>1 DEF StopDeployment
  <2> HIDE DEF stopped
  <2>4. \A s : [stopped EXCEPT !.actual = s].actual = s
    BY <2>2 DEF Rows
  <2>5. CASE read.actual \in {"queued", "failed"}
    <3>1. change.row = [stopped EXCEPT !.actual = "stopped"]
      BY <2>3, <2>5 DEF Change
    <3> QED
      BY <2>4, <2>5, <3>1
  <2>6. CASE read.actual \in {"stopped", "stopping"}
    <3>1. change = Only(stopped)
      BY <2>3, <2>6
    <3> QED
      BY <2>2, <3>1 DEF Only, Change
  <2>7. CASE read.actual \notin {"queued", "failed", "stopped", "stopping"}
    <3>1. change = Only([stopped EXCEPT !.actual = "stopping"])
      BY <2>3, <2>7
    <3>2. change.row.actual = "stopping"
      BY <2>4, <3>1 DEF Only, Change
    <3> QED
      BY <2>7, <3>2
  <2> QED
    BY <2>5, <2>6, <2>7
<1>5. CASE api[c].kind = "edit"
  <2>1. PICK gs : change = EditDeployment(read, gs)
    BY <1>5 DEF Written
  <2>2. [read EXCEPT !.gpus = gs, !.version = @ + 1].actual = read.actual
    BY <1>1 DEF Rows
  <2> QED
    BY <2>1, <2>2 DEF EditDeployment, Change, Only
<1>6. CASE api[c].kind = "cancel"
  <2>1. change = EndJob(read)
    BY <1>6 DEF Written
  <2>2. change.row.actual = CASE read.actual = "queued" -> "canceled"
                              [] read.actual \in {"starting", "running"} -> "canceling"
                              [] OTHER -> read.actual
    BY <1>1, <2>1, EndJobEffect
  <2>3. CASE read.actual \in {"queued", "starting", "running"}
    BY <2>2, <2>3
  <2>4. CASE read.actual \notin {"queued", "starting", "running"}
    <3>1. change.queued = "keep"
      BY <2>1, <2>4 DEF EndJob, Only, Change
    <3> QED
      BY <2>2, <2>4, <3>1
  <2> QED
    BY <2>3, <2>4
<1> QED
  BY <1>1, <1>3, <1>4, <1>5, <1>6

\* The observation of the reconciler.
LEMMA ApplyQueue ==
    ASSUME DatabaseTyped, QInv, NEW w \in Snapshots,
           NEW reply \in Answers, reply # Unavailable, Apply(w, reply)
    PROVE  QInv'
<1> DEFINE o == w.owner
<1>1. o \in Owners /\ rows[o] \in Rows(Gpus)
  BY DEF Snapshots, DatabaseTyped
<1>2. CASE UNCHANGED database
  BY <1>2 DEF database, QInv, Queued
<1>3. ASSUME NEW change \in IF o \in Deployments THEN {ObserveDeployment(rows[o], reply)}
                                                 ELSE ObserveJob(rows[o], reply),
             NEW ls, Write(o, change, ls)
      PROVE  QInv'
  <2>1. change.row.actual = "queued" => change.queued = "set"
    BY <1>1, <1>3, ObserveDeploymentQueue, ObserveJobEffect
  <2> QED
    BY <1>1, <1>3, <2>1, QueueKept
<1> QED
  BY <1>2, <1>3 DEF Apply

\* Every step keeps it.
LEMMA NextQInv == ASSUME PlatformAssumption, Typed, QInv, [Next]_vars PROVE QInv'
<1>1. ASSUME rows' = rows, queue' = queue PROVE QInv'
  BY <1>1 DEF QInv, Queued
<1>d. DatabaseTyped /\ rows \in [Owners -> Rows(Gpus)]
  BY DEF Typed, DatabaseTyped
<1>a. ASSUME calls[Reconciler].state = "replied", rec.pc = "waiting"
      PROVE  calls[Reconciler].reply \in Answers /\ rec.w \in Snapshots /\ rec.w.owner \in Owners
  BY <1>a DEF Typed, CallsTyped, Answered, Callers, RecTyped, Snapshots
<1>2. CASE ObserveReply
  BY <1>1, <1>2, <1>a, <1>d, ApplyQueue DEF ObserveReply, database
<1>3. CASE StartReply
  <2> DEFINE reply == calls[Reconciler].reply
             o == rec.w.owner
  <2>1. reply \in Answers /\ rec.w \in Snapshots /\ o \in Owners
    BY <1>3, <1>a DEF StartReply
  <2>2. \/ UNCHANGED database
        \/ reply # Unavailable /\ Apply(rec.w, reply)
        \/ Write(o, FailStart(rows[o]), Release(leases, o, rec.w.gen))
    <3>1. CASE reply = Unavailable
      <4>1. ~reply.accepted
        BY <3>1 DEF Unavailable
      <4> QED
        BY <1>3, <3>1, <4>1 DEF StartReply
    <3>2. CASE reply # Unavailable /\ reply.accepted
      BY <1>3, <3>2 DEF StartReply
    <3>3. CASE reply # Unavailable /\ ~reply.accepted
      BY <1>3, <3>3 DEF StartReply
    <3> QED
      BY <3>1, <3>2, <3>3
  <2>3. FailStart(rows[o]).row.actual = "failed"
    BY <2>1, <1>d DEF FailStart, Change, Rows
  <2> QED
    BY <1>1, <1>d, <2>1, <2>2, <2>3, ApplyQueue, QueueKept DEF database
<1>4. ASSUME NEW o \in Owners, ClaimPreflightFails(o) PROVE QInv'
  <2>1. [rows[o] EXCEPT !.actual = "failed", !.rgen = 0].actual = "failed"
    BY <1>d DEF Rows
  <2>2. PICK change : change.row.actual = "failed" /\ Write(o, change, leases)
    BY <1>4, <2>1 DEF ClaimPreflightFails, Change
  <2> QED
    BY <1>d, <2>2, QueueKept
<1>5. ASSUME NEW o \in Owners, ClaimBlocked(o) PROVE QInv'
  <2>1. [rows[o] EXCEPT !.rgen = 0].actual = rows[o].actual
    BY <1>d DEF Rows
  <2>2. \A p \in Owners : rows'[p].actual = rows[p].actual
    BY <1>5, <1>d, <2>1 DEF ClaimBlocked
  <2>3. queue' = queue
    BY <1>5 DEF ClaimBlocked
  <2> QED
    BY <2>2, <2>3 DEF QInv, Queued
<1>6. ASSUME NEW o \in Owners, Claim(o) PROVE QInv'
  <2>1. [rows[o] EXCEPT !.actual = "starting", !.rgen = rows[o].version].actual = "starting"
    BY <1>d DEF Rows
  <2>2. PICK change, ls : change.row.actual = "starting" /\ Write(o, change, ls)
    BY <1>6, <2>1 DEF Claim, Change
  <2> QED
    BY <1>d, <2>2, QueueKept
<1>7. CASE \/ BeginRound \/ Poll \/ PollingDone \/ Reap \/ ClaimNothing \/ RoundAborts
           \/ \E o \in Owners : ClaimRaises(o) \/ LeaseExpires(o) \/ ContainerEvent(o)
           \/ \E c \in Clients, o \in Owners : ReadRow(c, o) \/ BeginDelete(c, o)
           \/ \E c \in Callers : AgentServes(c) \/ CallFails(c)
           \/ \E cmd \in late : AgentServesLate(cmd)
  BY <1>1, <1>7 DEF BeginRound, Poll, PollingDone, Reap, ClaimNothing, RoundAborts, ClaimRaises,
     LeaseExpires, ContainerEvent, ReadRow, BeginDelete, AgentServes, CallFails, AgentServesLate,
     database
<1>8. ASSUME NEW o \in Owners, NEW gs, CreateWorkload(o, gs) PROVE QInv'
  <2>1. Create(gs).queued = "set" /\ Write(o, Create(gs), leases)
    BY <1>8 DEF CreateWorkload, Create, Change
  <2> QED
    BY <1>d, <2>1, QueueKept
<1>9. ASSUME NEW o \in Owners, TerminateTraining(o) PROVE QInv'
  <2>1. EndJob(rows[o]).row.actual # "queued"
    <3>1. CASE rows[o].actual \in {"queued", "starting", "running"}
      BY <1>d, <3>1, EndJobEffect
    <3>2. CASE rows[o].actual \notin {"queued", "starting", "running"}
      BY <1>d, <3>2, EndJobEffect
    <3> QED
      BY <3>1, <3>2
  <2> QED
    BY <1>9, <1>d, <2>1, QueueKept DEF TerminateTraining
<1>10. ASSUME NEW c \in Clients, CommitRow(c) PROVE QInv'
  <2> DEFINE o == api[c].owner
  <2>1. PICK change \in Written(api[c]) :
           LET queued == IF change.queued = "clear" /\ ~api[c].queued THEN "keep" ELSE change.queued
           IN  IF Exist(rows[o])
               THEN Write(o, Change(Merge(rows[o], api[c].read, change.row), queued, FALSE), leases)
               ELSE UNCHANGED database
    BY <1>10 DEF CommitRow
  <2> DEFINE queued == IF change.queued = "clear" /\ ~api[c].queued THEN "keep" ELSE change.queued
             merged == Merge(rows[o], api[c].read, change.row)
  <2>2. o \in Owners /\ api[c].read \in Rows(Gpus) /\ change.row \in Rows(Gpus)
    BY WrittenTypes DEF Typed
  <2>3. merged.actual = IF change.row.actual # api[c].read.actual THEN change.row.actual
                                                                 ELSE rows[o].actual
    BY <1>d, <2>2, MergeShape
  <2>4. \/ change.queued = "set"
        \/ change.queued = "keep" /\ change.row.actual = api[c].read.actual
        \/ change.row.actual # api[c].read.actual /\ change.row.actual # "queued"
    BY WrittenQueue DEF Typed
  <2>5. merged.actual = "queued" => queued = "set" \/ (queued = "keep" /\ rows[o].actual = "queued")
    BY <2>3, <2>4
  <2>6. Change(merged, queued, FALSE).row = merged /\ Change(merged, queued, FALSE).queued = queued
    BY DEF Change
  <2>7. UNCHANGED database \/ Write(o, Change(merged, queued, FALSE), leases)
    BY <2>1
  <2> HIDE DEF merged, queued
  <2> QED
    BY <1>1, <1>d, <2>2, <2>5, <2>6, <2>7, QueueKept DEF database
<1>11. ASSUME NEW c \in Clients, FinishDelete(c) PROVE QInv'
  <2>1. api[c].owner \in Owners
    BY <1>11 DEF FinishDelete, Typed, ApiTyped, Requests, NoRequest
  <2>2. Change([NoRow EXCEPT !.version = MaxVersion], "clear", FALSE).row.actual = "none"
    BY DEF Change, NoRow
  <2>3. UNCHANGED database \/ \E change, ls : /\ change.row.actual = "none"
                                              /\ Write(api[c].owner, change, ls)
    BY <1>11, <2>2 DEF FinishDelete
  <2> QED
    BY <1>1, <1>d, <2>1, <2>3, QueueKept DEF database
<1>12. CASE UNCHANGED vars
  BY <1>1, <1>12 DEF vars, database
<1> QED
  BY <1>2, <1>3, <1>4, <1>5, <1>6, <1>7, <1>8, <1>9, <1>10, <1>11, <1>12
  DEF Next, Reconcile, Request

\* Strict FIFO across deployments, training jobs and evaluations (_claim_next): whoever is given
\* GPUs was queued before everyone who goes on waiting.
THEOREM QueueIsStrict == Spec => NoOvertaking
<1> DEFINE Strict == \A o, p \in Owners :
               Owned(leases, o) = {} /\ Owned(leases', o) # {} /\ Waits(p) /\ p # o
                   => \E i, k \in 1..Len(queue) : i < k /\ queue[i] = o /\ queue[k] = p
<1>1. ASSUME LInv, QInv, [Next]_vars PROVE Strict
  <2> SUFFICES ASSUME NEW o \in Owners, NEW p \in Owners, Owned(leases, o) = {},
                      Owned(leases', o) # {}, Waits(p), p # o
               PROVE  \E i, k \in 1..Len(queue) : i < k /\ queue[i] = o /\ queue[k] = p
    OBVIOUS
  <2>1. ~Marked(leases, leases', o) /\ ~Free(leases', o)
    BY DEF Marked, Free, Owned
  <2>2. PICK q \in Owners : Claim(q)
    BY <1>1, <2>1, NextLInv, PlatformAssumption DEF Whole
  <2>3. q = o
    BY <1>1, <2>1, <2>2, ClaimStep, NextTypes, PlatformAssumption DEF LInv
  <2>4. PICK i \in 1..Len(queue) : queue[i] = o /\ \A k \in 1..(i - 1) : ~Waits(queue[k])
    BY <2>2, <2>3 DEF Claim, IsHead
  <2>5. PICK k \in 1..Len(queue) : queue[k] = p
    BY <1>1 DEF QInv, Waits, Queued
  <2>6. Len(queue) \in Nat
    BY <1>1 DEF LInv, Typed, DatabaseTyped
  <2>7. k # i
    BY <2>4, <2>5
  <2>8. ~(k < i)
    <3>1. ASSUME k < i PROVE k \in 1..(i - 1)
      BY <2>6, <3>1
    <3> QED
      BY <2>4, <2>5, <3>1
  <2>9. i < k
    BY <2>6, <2>7, <2>8
  <2> QED
    BY <2>4, <2>5, <2>9
<1>2. Init => QInv
  BY DEF Init, QInv, NoRow
<1>3. LInv /\ QInv /\ [Next]_vars => QInv'
  BY NextQInv, PlatformAssumption DEF LInv
<1>4. NoOvertaking <=> [][Strict]_vars
  BY DEF NoOvertaking
<1> HIDE DEF Strict
<1> QED
  BY <1>1, <1>2, <1>3, <1>4, PlatformInvariant, PTL DEF Spec

-----------------------------------------------------------------------------
(***************************************************************************)
(* Jobs run once: a job waits for its only START, and the START that was   *)
(* sent is executed at most once, in time or late.                         *)
(***************************************************************************)
\* The commands that the agent may still execute, of the reconciler and of those who gave up.
Pending == late \cup (IF calls[Reconciler].state = "sent" THEN {calls[Reconciler].cmd} ELSE {})
IsStart(cmd, j) == cmd.action = "start" /\ cmd.owner = j
StartOf(j) == {cmd \in Pending : IsStart(cmd, j)}

\* A job that is not created or waits, and so will be claimed.
Unclaimed(j) == rows[j].actual = "queued" \/ (~Exist(rows[j]) /\ rows[j].version = 0)

Once(j) ==
    /\ Unclaimed(j) => starts[j] = Agent!Unbound /\ StartOf(j) = {}
    /\ StartOf(j) # {} => starts[j] = Agent!Unbound
    /\ \A cmd, other \in StartOf(j) : cmd = other
    /\ calls[Reconciler].state = "sent" /\ IsStart(calls[Reconciler].cmd, j)
          => calls[Reconciler].cmd \notin late

\* Requests of clients only clean up, and have an effect that the kind of workload knows.
CleanupsOnly == \A c \in Clients : calls[c].state = "sent" => calls[c].cmd.action = "cleanup"
FittingRequests == \A c \in Clients :
    api[c].kind \in {"start", "stop", "edit", "cancel"} => api[c].kind \in Kinds(api[c].owner)
JInv == CleanupsOnly /\ FittingRequests /\ \A j \in Jobs : Once(j)

\* A job that was claimed, or refused, never waits again.
LEMMA ClaimedForGood ==
    ASSUME PlatformAssumption, Typed, FittingRequests, [Next]_vars, NEW j \in Jobs, Unclaimed(j)'
    PROVE  Unclaimed(j)
<1>o. j \in Owners /\ j \notin Deployments
  BY OwnersAssumption DEF Owners
<1>d. DatabaseTyped /\ rows \in [Owners -> Rows(Gpus)]
  BY DEF Typed, DatabaseTyped
<1>1. CASE rows'[j] = rows[j]
  BY <1>1 DEF Unclaimed
<1>n. \A o \in Owners : \A change, ls : Write(o, change, ls) =>
          /\ rows'[o] = change.row
          /\ \A p \in Owners : p # o => rows'[p] = rows[p]
  BY <1>d, WriteEffect
<1>a. ASSUME calls[Reconciler].state = "replied", rec.pc = "waiting"
      PROVE  calls[Reconciler].reply \in Answers /\ rec.w \in Snapshots /\ rec.w.owner \in Owners
  BY <1>a DEF Typed, CallsTyped, Answered, Callers, RecTyped, Snapshots
<1>w. ASSUME NEW w \in Snapshots, NEW reply \in Answers, reply # Unavailable, Apply(w, reply)
      PROVE  Unclaimed(j)
  <2>1. CASE UNCHANGED database
    BY <1>1, <2>1 DEF database
  <2>2. ASSUME NEW change \in IF w.owner \in Deployments THEN {ObserveDeployment(rows[w.owner], reply)}
                                                         ELSE ObserveJob(rows[w.owner], reply),
               NEW ls, Write(w.owner, change, ls)
        PROVE  Unclaimed(j)
    <3>1. w.owner \in Owners /\ rows[w.owner] \in Rows(Gpus)
      BY <1>d DEF Snapshots
    <3>2. CASE w.owner # j
      BY <1>1, <1>n, <1>o, <2>2, <3>1, <3>2
    <3>3. CASE w.owner = j
      <4>1. change \in ObserveJob(rows[j], reply)
        BY <1>o, <2>2, <3>3
      <4>2. rows'[j] = change.row /\ rows[j] \in Rows(Gpus)
        BY <1>n, <1>o, <2>2, <3>1, <3>3
      <4>3. IsActive(change.row) \/ IsTerminal(change.row)
        BY <1>w, <4>1, <4>2, ObserveJobEffect
      <4> QED
        BY <4>2, <4>3, States DEF Unclaimed
    <3> QED
      BY <3>2, <3>3
  <2> QED
    BY <1>w, <2>1, <2>2 DEF Apply
<1>2. CASE ObserveReply
  BY <1>1, <1>2, <1>a, <1>w DEF ObserveReply, database
<1>3. CASE StartReply
  <2> DEFINE reply == calls[Reconciler].reply
             o == rec.w.owner
  <2>1. reply \in Answers /\ rec.w \in Snapshots /\ o \in Owners
    BY <1>3, <1>a DEF StartReply
  <2>2. \/ UNCHANGED database
        \/ reply # Unavailable /\ Apply(rec.w, reply)
        \/ Write(o, FailStart(rows[o]), Release(leases, o, rec.w.gen))
    <3>1. CASE reply = Unavailable
      <4>1. ~reply.accepted
        BY <3>1 DEF Unavailable
      <4> QED
        BY <1>3, <3>1, <4>1 DEF StartReply
    <3>2. CASE reply # Unavailable /\ reply.accepted
      BY <1>3, <3>2 DEF StartReply
    <3>3. CASE reply # Unavailable /\ ~reply.accepted
      BY <1>3, <3>3 DEF StartReply
    <3> QED
      BY <3>1, <3>2, <3>3
  <2>3. FailStart(rows[o]).row.actual = "failed"
    BY <2>1, <1>d DEF FailStart, Change, Rows
  <2>4. CASE Write(o, FailStart(rows[o]), Release(leases, o, rec.w.gen))
    <3>1. o # j
      BY <1>n, <2>1, <2>3, <2>4 DEF Unclaimed, Exist
    <3> QED
      BY <1>1, <1>n, <1>o, <2>1, <2>4, <3>1
  <2> QED
    BY <1>1, <1>w, <2>1, <2>2, <2>4 DEF database
<1>4. ASSUME NEW o \in Owners, ClaimPreflightFails(o) \/ ClaimBlocked(o) \/ Claim(o)
      PROVE  Unclaimed(j)
  <2>1. rows[o].actual = "queued"
    BY <1>4, HeadWaits DEF ClaimPreflightFails, ClaimBlocked, Claim
  <2>2. \A p \in Owners : p # o => rows'[p] = rows[p]
    BY <1>4, <1>d DEF ClaimPreflightFails, ClaimBlocked, Claim, Write
  <2> QED
    BY <1>1, <1>o, <2>1, <2>2 DEF Unclaimed
<1>5. CASE \/ BeginRound \/ Poll \/ PollingDone \/ Reap \/ ClaimNothing \/ RoundAborts
           \/ \E o \in Owners : ClaimRaises(o) \/ LeaseExpires(o) \/ ContainerEvent(o)
           \/ \E c \in Clients, o \in Owners : ReadRow(c, o) \/ BeginDelete(c, o)
           \/ \E c \in Callers : AgentServes(c) \/ CallFails(c)
           \/ \E cmd \in late : AgentServesLate(cmd)
           \/ UNCHANGED vars
  BY <1>1, <1>5 DEF BeginRound, Poll, PollingDone, Reap, ClaimNothing, RoundAborts, ClaimRaises,
     LeaseExpires, ContainerEvent, ReadRow, BeginDelete, AgentServes, CallFails, AgentServesLate,
     database, vars
<1>6. ASSUME NEW o \in Owners, NEW gs, CreateWorkload(o, gs) PROVE Unclaimed(j)
  BY <1>1, <1>n, <1>o, <1>6 DEF CreateWorkload, Unclaimed
<1>7. ASSUME NEW o \in Owners, TerminateTraining(o) PROVE Unclaimed(j)
  <2>1. EndJob(rows[o]).row.actual # "queued" /\ Exist(EndJob(rows[o]).row)
    <3>0. Exist(rows[o])
      BY <1>7 DEF TerminateTraining
    <3>1. CASE rows[o].actual \in {"queued", "starting", "running"}
      BY <1>d, <3>1, EndJobEffect DEF Exist
    <3>2. CASE rows[o].actual \notin {"queued", "starting", "running"}
      BY <1>d, <3>0, <3>2, EndJobEffect DEF Exist
    <3> QED
      BY <3>1, <3>2
  <2> QED
    BY <1>1, <1>n, <1>o, <1>7, <2>1 DEF TerminateTraining, Unclaimed
<1>8. ASSUME NEW c \in Clients, CommitRow(c) PROVE Unclaimed(j)
  <2> DEFINE o == api[c].owner
  <2>1. PICK change \in Written(api[c]) : \E queued :
           IF Exist(rows[o])
           THEN Write(o, Change(Merge(rows[o], api[c].read, change.row), queued, FALSE), leases)
           ELSE UNCHANGED database
    BY <1>8 DEF CommitRow
  <2> DEFINE merged == Merge(rows[o], api[c].read, change.row)
  <2>2. /\ o \in Owners /\ api[c].read \in Rows(Gpus) /\ change.row \in Rows(Gpus)
        /\ api[c].kind \in {"start", "stop", "edit", "cancel"}
    BY WrittenTypes DEF Typed
  <2>3. merged.actual = IF change.row.actual # api[c].read.actual THEN change.row.actual
                                                                 ELSE rows[o].actual
    BY <1>d, <2>2, MergeShape
  <2>4. CASE ~Exist(rows[o]) \/ o # j
    <3>1. CASE ~Exist(rows[o])
      BY <1>1, <2>1, <3>1 DEF database
    <3>2. CASE Exist(rows[o]) /\ o # j
      <4>1. PICK change2, ls : Write(o, change2, ls)
        BY <2>1, <3>2
      <4> QED
        BY <1>1, <1>n, <1>o, <2>2, <3>2, <4>1
    <3> QED
      BY <2>4, <3>1, <3>2
  <2>5. CASE Exist(rows[o]) /\ o = j
    <3>1. rows'[j] = merged
      <4>1. PICK queued : Write(o, Change(merged, queued, FALSE), leases)
        BY <2>1, <2>5
      <4>2. Change(merged, queued, FALSE).row = merged
        BY DEF Change
      <4> QED
        BY <1>n, <2>2, <2>5, <4>1, <4>2
    <3>2. api[c].kind = "cancel"
      BY <1>o, <2>2, <2>5 DEF FittingRequests, Kinds
    <3>3. change = EndJob(api[c].read)
      BY <3>2 DEF Written
    <3>4. \/ change.row.actual = api[c].read.actual
          \/ change.row.actual \in {"canceled", "canceling"}
      <4> DEFINE a == api[c].read.actual
      <4>1. change.row.actual = CASE a = "queued" -> "canceled"
                                  [] a \in {"starting", "running"} -> "canceling"
                                  [] OTHER -> a
        BY <2>2, <3>3, EndJobEffect
      <4>2. CASE a = "queued"
        BY <4>1, <4>2
      <4>3. CASE a \in {"starting", "running"}
        BY <4>1, <4>3
      <4>4. CASE a \notin {"queued", "starting", "running"}
        BY <4>1, <4>4
      <4> QED
        BY <4>2, <4>3, <4>4
    <3>5. merged.actual = rows[j].actual \/ merged.actual \in {"canceled", "canceling"}
      BY <2>3, <2>5, <3>4
    <3> HIDE DEF merged
    <3>6. merged.actual \in {"queued", "none"}
      BY <3>1 DEF Unclaimed, Exist
    <3> QED
      BY <2>5, <3>5, <3>6 DEF Unclaimed, Exist
  <2> QED
    BY <2>4, <2>5
<1>9. ASSUME NEW c \in Clients, FinishDelete(c) PROVE Unclaimed(j)
  <2> DEFINE o == api[c].owner
             gone == Change([NoRow EXCEPT !.version = MaxVersion], "clear", FALSE)
  <2>1. o \in Owners
    BY <1>9 DEF FinishDelete, Typed, ApiTyped, Requests, NoRequest
  <2>2. gone.row.actual = "none" /\ gone.row.version = MaxVersion /\ MaxVersion # 0
    BY DEF Change, NoRow, PlatformAssumption
  <2>3. UNCHANGED database \/ Write(o, gone, ReleaseAll(leases, o))
    BY <1>9 DEF FinishDelete
  <2> HIDE DEF gone
  <2>4. CASE Write(o, gone, ReleaseAll(leases, o))
    <3>1. o # j
      BY <1>n, <2>1, <2>2, <2>4 DEF Unclaimed
    <3> QED
      BY <1>1, <1>n, <1>o, <2>1, <2>4, <3>1
  <2> QED
    BY <1>1, <2>3, <2>4 DEF database
<1> QED
  BY <1>2, <1>3, <1>4, <1>5, <1>6, <1>7, <1>8, <1>9 DEF Next, Reconcile, Request

\* A step that executes no START and sends none keeps it.
LEMMA OnceKept ==
    ASSUME NEW j, Once(j), Unclaimed(j)' => Unclaimed(j), starts'[j] = starts[j],
           \A cmd \in Pending' : IsStart(cmd, j) => cmd \in Pending,
           calls'[Reconciler].state = "sent" /\ IsStart(calls'[Reconciler].cmd, j)
               => calls'[Reconciler].cmd \notin late'
    PROVE  Once(j)'
<1>1. \A cmd \in StartOf(j)' : cmd \in StartOf(j)
  BY DEF StartOf
<1> QED
  BY <1>1 DEF Once

\* The calls stay as they are, or the reconciler's call becomes one that is no START.
LEMMA OnceKeptBy ==
    ASSUME NEW j, Once(j), Unclaimed(j)' => Unclaimed(j), starts'[j] = starts[j],
           \/ calls'[Reconciler] = calls[Reconciler]
           \/ calls'[Reconciler].state # "sent" \/ calls'[Reconciler].cmd.action # "start",
           \A cmd \in late' : IsStart(cmd, j) => cmd \in late \/
               (/\ calls[Reconciler].state = "sent" /\ cmd = calls[Reconciler].cmd
                /\ calls'[Reconciler].state # "sent")
    PROVE  Once(j)'
<1>1. \A cmd \in Pending' : IsStart(cmd, j) => cmd \in Pending
  BY DEF Pending, IsStart
<1>2. ASSUME calls'[Reconciler].state = "sent", IsStart(calls'[Reconciler].cmd, j)
      PROVE  calls'[Reconciler].cmd \notin late'
  BY <1>2 DEF Once, IsStart
<1> QED
  BY <1>1, <1>2, OnceKept

\* The agent executes a command: the only START of a job that is pending, or something else.
LEMMA OnceServed ==
    ASSUME NEW j \in Jobs, Once(j), UNCHANGED database, AgentTyped, NEW cmd \in Command,
           NEW reply, Agent!Execute(cmd, reply), cmd \in Pending,
           late' \subseteq late, Pending' \subseteq Pending,
           IsStart(cmd, j) => cmd \notin Pending',
           calls'[Reconciler] = calls[Reconciler] \/ calls'[Reconciler].state # "sent"
    PROVE  Once(j)'
<1>1. Unclaimed(j)' <=> Unclaimed(j)
  BY DEF Unclaimed, database
<1>2. CASE starts'[j] = starts[j]
  BY <1>1, <1>2, OnceKept DEF Once
<1>3. CASE starts'[j] # starts[j]
  <2>1. Agent!Admit(cmd)
    BY <1>3, Served DEF agent
  <2>2. IsStart(cmd, j)
    BY <1>3, <2>1, OwnersAssumption DEF Agent!Admit, IsStart, AgentTyped, Owners
  <2>3. cmd \in StartOf(j) /\ StartOf(j)' = {}
    BY <2>2 DEF Once, StartOf
  <2>4. calls'[Reconciler].state = "sent" => calls'[Reconciler].cmd \in Pending'
    BY DEF Pending
  <2>5. ~(calls'[Reconciler].state = "sent" /\ IsStart(calls'[Reconciler].cmd, j))
    BY <2>3, <2>4 DEF StartOf
  <2> QED
    BY <1>1, <2>3, <2>5 DEF Once
<1> QED
  BY <1>2, <1>3

\* A claim sends the one START of its job.
LEMMA OnceClaimed ==
    ASSUME PlatformAssumption, Typed, NEW j \in Jobs, Once(j), NEW o \in Owners, Claim(o),
           Unclaimed(j)' => Unclaimed(j)
    PROVE  Once(j)'
<1> DEFINE w == [owner |-> o, gen |-> rows[o].version, gpus |-> rows[o].gpus,
                 desired |-> rows[o].desired]
           start == CommandFor("start", w)
<1>1. /\ rows[o].actual = "queued"
      /\ calls' = [calls EXCEPT ![Reconciler] = Sent(start)]
      /\ late' = late /\ starts' = starts
  BY HeadWaits DEF Claim, agent
<1>2. calls'[Reconciler] = Sent(start)
  BY <1>1 DEF Typed, CallsTyped, Callers
<1>3. start.owner = o /\ Sent(start).state = "sent" /\ Sent(start).cmd = start
  BY DEF CommandFor, Sent
<1> HIDE DEF start
<1>4. Pending' = late \cup {start}
  BY <1>1, <1>2, <1>3 DEF Pending
<1>5. CASE o # j
  <2>1. \A cmd \in Pending' : IsStart(cmd, j) => cmd \in Pending
    BY <1>3, <1>4, <1>5 DEF Pending, IsStart
  <2>2. ~IsStart(calls'[Reconciler].cmd, j)
    BY <1>2, <1>3, <1>5 DEF IsStart
  <2> QED
    BY <1>1, <2>1, <2>2, OnceKept
<1>6. CASE o = j
  <2>1. starts[j] = Agent!Unbound /\ StartOf(j) = {}
    BY <1>1, <1>6 DEF Once, Unclaimed
  <2>2. \A cmd \in late : ~IsStart(cmd, j)
    BY <2>1 DEF StartOf, Pending
  <2>3. StartOf(j)' \subseteq {start}
    BY <1>4, <2>2 DEF StartOf
  <2>4. rows'[j] = [rows[o] EXCEPT !.actual = "starting", !.rgen = rows[o].version]
    BY <1>6 DEF Claim, Write, Change, Typed, DatabaseTyped
  <2>5. rows'[j].actual = "starting"
    BY <2>4 DEF Typed, DatabaseTyped, Rows
  <2>6. ~Unclaimed(j)'
    BY <2>5 DEF Unclaimed, Exist
  <2> QED
    BY <1>1, <1>2, <1>3, <2>1, <2>2, <2>3, <2>6 DEF Once
<1> QED
  BY <1>5, <1>6

\* Who changes what: the reconciler uses its own call, requests do not touch its call, and
\* neither of them touches the agent.
LEMMA ReconcileFrame ==
    ASSUME Reconcile \/ RoundAborts
    PROVE  /\ api' = api /\ UNCHANGED agent
           /\ calls' = calls \/ \E call : calls' = [calls EXCEPT ![Reconciler] = call]
<1>1. CASE BeginRound \/ PollingDone \/ Reap \/ ClaimNothing
  BY <1>1 DEF BeginRound, PollingDone, Reap, ClaimNothing
<1>2. CASE Poll
  BY <1>2 DEF Poll
<1>3. CASE ObserveReply
  BY <1>3 DEF ObserveReply
<1>4. CASE StartReply
  BY <1>4 DEF StartReply
<1>5. CASE RoundAborts
  BY <1>5 DEF RoundAborts
<1>6. ASSUME NEW o \in Owners, ClaimPreflightFails(o) \/ ClaimRaises(o) \/ ClaimBlocked(o)
      PROVE  api' = api /\ UNCHANGED agent /\ calls' = calls
  BY <1>6 DEF ClaimPreflightFails, ClaimRaises, ClaimBlocked
<1>7. ASSUME NEW o \in Owners, Claim(o)
      PROVE  /\ api' = api /\ UNCHANGED agent
             /\ \E call : calls' = [calls EXCEPT ![Reconciler] = call]
  BY <1>7 DEF Claim
<1> QED
  BY <1>1, <1>2, <1>3, <1>4, <1>5, <1>6, <1>7 DEF Reconcile

\* Requests work on rows and on their own calls.
LEMMA RequestFrame ==
    ASSUME Request \/ \E o \in Owners : LeaseExpires(o)
    PROVE  /\ late' = late /\ rec' = rec /\ UNCHANGED agent
           /\ calls' = calls \/ \E c \in Clients : \E call : calls' = [calls EXCEPT ![c] = call]
<1>1. ASSUME NEW o \in Owners, TerminateTraining(o) \/ LeaseExpires(o)
      PROVE  late' = late /\ rec' = rec /\ UNCHANGED agent /\ calls' = calls
  BY <1>1 DEF TerminateTraining, LeaseExpires
<1>2. ASSUME NEW o \in Owners, NEW gs \in Groups, CreateWorkload(o, gs)
      PROVE  late' = late /\ rec' = rec /\ UNCHANGED agent /\ calls' = calls
  BY <1>2 DEF CreateWorkload
<1>3. ASSUME NEW c \in Clients, NEW o \in Owners, ReadRow(c, o) \/ CommitRow(c)
      PROVE  late' = late /\ rec' = rec /\ UNCHANGED agent /\ calls' = calls
  BY <1>3 DEF ReadRow, CommitRow
<1>4. ASSUME NEW c \in Clients, CommitRow(c)
      PROVE  late' = late /\ rec' = rec /\ UNCHANGED agent /\ calls' = calls
  BY <1>4 DEF CommitRow
<1>5. ASSUME NEW c \in Clients, NEW o \in Owners, BeginDelete(c, o)
      PROVE  /\ late' = late /\ rec' = rec /\ UNCHANGED agent
             /\ \E call : calls' = [calls EXCEPT ![c] = call]
  BY <1>5 DEF BeginDelete
<1>6. ASSUME NEW c \in Clients, FinishDelete(c)
      PROVE  /\ late' = late /\ rec' = rec /\ UNCHANGED agent
             /\ \E call : calls' = [calls EXCEPT ![c] = call]
  BY <1>6 DEF FinishDelete
<1> QED
  BY <1>1, <1>2, <1>3, <1>4, <1>5, <1>6 DEF Request

\* The reconciler's other steps.
LEMMA OnceReconcile ==
    ASSUME PlatformAssumption, Typed, NEW j \in Jobs, Once(j), Reconcile \/ RoundAborts,
           Unclaimed(j)' => Unclaimed(j)
    PROVE  Once(j)'
<1>c. calls \in [Callers -> Calls] /\ Reconciler \in Callers
  BY DEF Typed, CallsTyped, Callers
<1>1. CASE \/ BeginRound \/ PollingDone \/ Reap \/ ClaimNothing
           \/ \E o \in Owners : ClaimPreflightFails(o) \/ ClaimRaises(o) \/ ClaimBlocked(o)
  <2>1. calls' = calls /\ late' = late /\ starts' = starts
    <3>1. CASE BeginRound \/ PollingDone \/ Reap \/ ClaimNothing
      BY <3>1 DEF BeginRound, PollingDone, Reap, ClaimNothing, agent
    <3>2. ASSUME NEW o \in Owners, ClaimPreflightFails(o) \/ ClaimRaises(o) \/ ClaimBlocked(o)
          PROVE  calls' = calls /\ late' = late /\ starts' = starts
      BY <3>2 DEF ClaimPreflightFails, ClaimRaises, ClaimBlocked, agent
    <3> QED
      BY <1>1, <3>1, <3>2
  <2> QED
    BY <2>1, OnceKeptBy
<1>2. CASE Poll
  <2>1. PICK action \in {"stop", "status"}, w \in rec.todo :
           calls' = [calls EXCEPT ![Reconciler] = Sent(CommandFor(action, w))]
    BY <1>2 DEF Poll
  <2>2. calls'[Reconciler].cmd.action # "start"
    BY <1>c, <2>1 DEF Sent, CommandFor
  <2> QED
    BY <1>2, <2>2, OnceKeptBy DEF Poll, agent
<1>3. CASE ObserveReply
  <2>1. \/ calls' = [calls EXCEPT ![Reconciler] = Sent(CommandFor("stop", rec.w))]
        \/ calls' = [calls EXCEPT ![Reconciler] = NoCall]
    BY <1>3 DEF ObserveReply
  <2>2. calls'[Reconciler].state # "sent" \/ calls'[Reconciler].cmd.action # "start"
    BY <1>c, <2>1 DEF Sent, CommandFor, NoCall
  <2> QED
    BY <1>3, <2>2, OnceKeptBy DEF ObserveReply, agent
<1>4. CASE StartReply
  <2>1. calls'[Reconciler].state # "sent"
    BY <1>4, <1>c DEF StartReply, NoCall
  <2> QED
    BY <1>4, <2>1, OnceKeptBy DEF StartReply, agent
<1>5. ASSUME NEW o \in Owners, Claim(o) PROVE Once(j)'
  BY <1>5, OnceClaimed
<1>6. CASE RoundAborts
  <2>1. calls'[Reconciler].state # "sent"
    BY <1>6, <1>c DEF RoundAborts, NoCall
  <2> QED
    BY <1>6, <2>1, OnceKeptBy DEF RoundAborts, agent
<1> QED
  BY <1>1, <1>2, <1>3, <1>4, <1>5, <1>6 DEF Reconcile

\* Requests, the agent, the network and containers.
LEMMA OnceElsewhere ==
    ASSUME PlatformAssumption, Typed, JInv, NEW j \in Jobs, Next, ~(Reconcile \/ RoundAborts),
           Unclaimed(j)' => Unclaimed(j)
    PROVE  Once(j)'
<1>c. /\ calls \in [Callers -> Calls] /\ Reconciler \in Callers
      /\ \A c \in Clients : c # Reconciler /\ c \in Callers
  BY DEF Typed, CallsTyped, Callers, PlatformAssumption
<1>o. Once(j)
  BY DEF JInv
<1>1. CASE Request \/ \E o \in Owners : LeaseExpires(o)
  <2>1. calls'[Reconciler] = calls[Reconciler] /\ late' = late /\ starts' = starts
    BY <1>1, <1>c, RequestFrame DEF agent
  <2> QED
    BY <1>o, <2>1, OnceKeptBy
<1>2. ASSUME NEW c \in Callers, AgentServes(c) PROVE Once(j)'
  <2>1. PICK reply \in Reply : /\ Agent!Execute(calls[c].cmd, reply)
                               /\ calls' = [calls EXCEPT ![c] = Replied(@.cmd, reply)]
    BY <1>2 DEF AgentServes
  <2>2. calls[c].cmd \in Command /\ calls[c].state = "sent" /\ late' = late /\ UNCHANGED database
    BY <1>2, CallTypes DEF AgentServes, Typed
  <2>3. CASE c = Reconciler
    <3>1. calls'[Reconciler].state = "replied"
      BY <1>c, <2>1, <2>3 DEF Replied
    <3>2. Pending' = late /\ calls[c].cmd \in Pending
      BY <2>2, <2>3, <3>1 DEF Pending
    <3>3. IsStart(calls[c].cmd, j) => calls[c].cmd \notin late
      BY <1>o, <2>2, <2>3 DEF Once
    <3> QED
      BY <1>o, <2>1, <2>2, <3>1, <3>2, <3>3, OnceServed DEF Typed, Pending
  <2>4. CASE c # Reconciler
    <3>1. calls[c].cmd.action = "cleanup"
      BY <2>2, <2>4 DEF JInv, CleanupsOnly, Callers
    <3>2. calls'[Reconciler] = calls[Reconciler]
      BY <1>c, <2>1, <2>4
    <3>3. starts' = starts
      BY <2>1, <2>2, <3>1, Served DEF Typed, agent, Agent!Admit
    <3> QED
      BY <1>o, <2>2, <3>2, <3>3, OnceKeptBy
  <2> QED
    BY <2>3, <2>4
<1>3. ASSUME NEW c \in Callers, CallFails(c) PROVE Once(j)'
  <2>1. /\ calls' = [calls EXCEPT ![c] = Replied(@.cmd, Unavailable)] /\ starts' = starts
        /\ late' = late \/ (calls[c].state = "sent" /\ late' = late \cup {calls[c].cmd})
    BY <1>3 DEF CallFails, agent
  <2>2. CASE c = Reconciler
    <3>1. calls'[Reconciler].state = "replied"
      BY <1>c, <2>1, <2>2 DEF Replied
    <3> QED
      BY <1>o, <2>1, <2>2, <3>1, OnceKeptBy
  <2>3. CASE c # Reconciler
    <3>1. calls'[Reconciler] = calls[Reconciler]
      BY <1>c, <2>1, <2>3
    <3>2. calls[c].state = "sent" => calls[c].cmd.action = "cleanup"
      BY <2>3 DEF JInv, CleanupsOnly, Callers
    <3> QED
      BY <1>o, <2>1, <3>1, <3>2, OnceKeptBy DEF IsStart
  <2> QED
    BY <2>2, <2>3
<1>4. ASSUME NEW cmd \in late, AgentServesLate(cmd) PROVE Once(j)'
  <2>1. PICK reply \in Reply : Agent!Execute(cmd, reply)
    BY <1>4 DEF AgentServesLate
  <2>2. /\ cmd \in Command /\ late' = late \ {cmd} /\ calls' = calls
        /\ UNCHANGED database /\ cmd \in Pending
    BY <1>4 DEF AgentServesLate, Typed, CallsTyped, Pending
  <2>3. IsStart(cmd, j) => cmd \notin Pending'
    BY <1>o, <2>2 DEF Once, Pending
  <2>4. Pending' \subseteq Pending
    BY <2>2 DEF Pending
  <2> QED
    BY <1>o, <2>1, <2>2, <2>3, <2>4, OnceServed DEF Typed
<1>5. ASSUME NEW o \in Owners, ContainerEvent(o) PROVE Once(j)'
  <2>1. starts' = starts /\ calls' = calls /\ late' = late
    BY <1>5, Evolves DEF Typed, ContainerEvent
  <2> QED
    BY <1>o, <2>1, OnceKeptBy
<1> QED
  BY <1>1, <1>2, <1>3, <1>4, <1>5, NextCases

\* Who may delete, and what clients ask the agent.
LEMMA RequestsFit ==
    ASSUME PlatformAssumption, Typed, CleanupsOnly, FittingRequests, [Next]_vars
    PROVE  CleanupsOnly' /\ FittingRequests'
<1>c. /\ calls \in [Callers -> Calls] /\ Reconciler \in Callers
      /\ \A c \in Clients : c # Reconciler /\ c \in Callers
      /\ api \in [Clients -> Requests]
  BY DEF Typed, CallsTyped, ApiTyped, Callers, PlatformAssumption
<1>a. ASSUME api' = api PROVE FittingRequests'
  BY <1>a DEF FittingRequests
<1>b. ASSUME \A c \in Clients : calls'[c] = calls[c] PROVE CleanupsOnly'
  BY <1>b DEF CleanupsOnly
<1>1. CASE Reconcile \/ RoundAborts
  <2>1. api' = api /\ \A c \in Clients : calls'[c] = calls[c]
    BY <1>1, <1>c, ReconcileFrame
  <2> QED
    BY <1>a, <1>b, <2>1
<1>2. ASSUME \/ \E o \in Owners, gs \in Groups : CreateWorkload(o, gs)
             \/ \E o \in Owners : TerminateTraining(o) \/ LeaseExpires(o) \/ ContainerEvent(o)
             \/ \E cmd \in late : AgentServesLate(cmd)
             \/ UNCHANGED vars
      PROVE  CleanupsOnly' /\ FittingRequests'
  <2>1. api' = api /\ calls' = calls
    BY <1>2 DEF CreateWorkload, TerminateTraining, LeaseExpires, ContainerEvent, AgentServesLate, vars
  <2> QED
    BY <1>a, <1>b, <2>1
<1>3. ASSUME NEW c \in Callers, AgentServes(c) \/ CallFails(c)
      PROVE  CleanupsOnly' /\ FittingRequests'
  <2>1. api' = api /\ \E reply : calls' = [calls EXCEPT ![c] = Replied(calls[c].cmd, reply)]
    BY <1>3 DEF AgentServes, CallFails
  <2>2. \A d \in Clients : calls'[d] = calls[d] \/ calls'[d].state = "replied"
    BY <1>c, <2>1 DEF Replied
  <2> QED
    BY <1>a, <2>1, <2>2 DEF CleanupsOnly
<1>4. ASSUME NEW c \in Clients, NEW o \in Owners, ReadRow(c, o)
      PROVE  CleanupsOnly' /\ FittingRequests'
  <2>1. calls' = calls
    BY <1>4 DEF ReadRow
  <2>2. PICK kind \in Kinds(o) :
           api' = [api EXCEPT ![c] = [kind |-> kind, owner |-> o, read |-> rows[o],
                                      queued |-> Queued(o)]]
    BY <1>4 DEF ReadRow
  <2>3. FittingRequests'
    BY <1>c, <2>2 DEF FittingRequests, Kinds
  <2> QED
    BY <1>b, <2>1, <2>3
<1>5. ASSUME NEW c \in Clients, CommitRow(c) PROVE CleanupsOnly' /\ FittingRequests'
  <2>1. calls' = calls /\ api' = [api EXCEPT ![c] = NoRequest]
    BY <1>5 DEF CommitRow
  <2> QED
    BY <1>b, <1>c, <2>1 DEF FittingRequests, NoRequest, Kinds
<1>6. ASSUME NEW c \in Clients, NEW o \in Owners, BeginDelete(c, o)
      PROVE  CleanupsOnly' /\ FittingRequests'
  <2>1. /\ api' = [api EXCEPT ![c] = [kind |-> "deleting", owner |-> o]]
        /\ calls' = [calls EXCEPT ![c] = Sent(CommandFor("cleanup", Snapshot(o)))]
    BY <1>6 DEF BeginDelete
  <2>2. FittingRequests'
    BY <1>c, <2>1 DEF FittingRequests, Kinds
  <2>3. Sent(CommandFor("cleanup", Snapshot(o))).cmd.action = "cleanup"
    BY DEF Sent, CommandFor
  <2>4. CleanupsOnly'
    BY <1>c, <2>1, <2>3 DEF CleanupsOnly
  <2> QED
    BY <2>2, <2>4
<1>7. ASSUME NEW c \in Clients, FinishDelete(c) PROVE CleanupsOnly' /\ FittingRequests'
  <2>1. api' = [api EXCEPT ![c] = NoRequest] /\ calls' = [calls EXCEPT ![c] = NoCall]
    BY <1>7 DEF FinishDelete
  <2>2. FittingRequests'
    BY <1>c, <2>1 DEF FittingRequests, NoRequest, Kinds
  <2>3. CleanupsOnly'
    BY <1>c, <2>1 DEF CleanupsOnly, NoCall
  <2> QED
    BY <2>2, <2>3
<1> QED
  BY <1>1, <1>2, <1>3, <1>4, <1>5, <1>6, <1>7 DEF Next, Request

\* Every step keeps the START of each job unique.
LEMMA NextJInv == ASSUME PlatformAssumption, Typed, JInv, [Next]_vars PROVE JInv'
<1>1. ASSUME NEW j \in Jobs PROVE Once(j)'
  <2>1. Once(j) /\ (Unclaimed(j)' => Unclaimed(j))
    BY ClaimedForGood DEF JInv
  <2>2. CASE UNCHANGED vars
    <3>1. calls' = calls /\ late' = late /\ starts' = starts
      BY <2>2 DEF vars, agent
    <3> QED
      BY <2>1, <3>1, OnceKeptBy
  <2> QED
    BY <2>1, <2>2, OnceReconcile, OnceElsewhere
<1> QED
  BY <1>1, RequestsFit DEF JInv

\* Each START is unique from the beginning.
LEMMA JobsInvariant == Spec => []JInv
<1>1. Init => JInv
  <2> SUFFICES ASSUME Init PROVE JInv
    OBVIOUS
  <2>1. /\ late = {} /\ \A c \in Callers : calls[c] = NoCall
        /\ \A c \in Clients : api[c] = NoRequest
    BY DEF Init
  <2>0. \A o \in Owners : starts[o] = Agent!Unbound
    BY SameConstants DEF Init, Agent!Init
  <2>2. Pending = {} /\ NoCall.state = "none" /\ NoRequest.kind = "none"
    BY <2>1 DEF Pending, NoCall, NoRequest, Callers
  <2>3. CleanupsOnly /\ FittingRequests
    BY <2>1, <2>2 DEF CleanupsOnly, FittingRequests, Callers
  <2>4. ASSUME NEW j \in Jobs PROVE Once(j)
    BY <2>0, <2>1, <2>2 DEF Once, StartOf, Owners
  <2> QED
    BY <2>3, <2>4 DEF JInv
<1>2. Typed /\ JInv /\ [Next]_vars => JInv'
  BY NextJInv, PlatformAssumption
<1>3. LInv => Typed
  BY DEF LInv
<1> QED
  BY <1>1, <1>2, <1>3, PlatformInvariant, PTL DEF Spec

\* Jobs are never run twice (_claim_next, the answers to a START that got lost): a container of
\* a job is only created for a START that the agent has not seen before.
THEOREM EachJobRunsOnce == Spec => JobsRunOnce
<1> DEFINE Fresh == \A j \in Jobs :
               ~Exists(containers[j]) /\ Exists(containers'[j]) => starts[j] = Agent!Unbound
<1>1. ASSUME Typed, JInv, [Next]_vars PROVE Fresh
  <2> SUFFICES ASSUME NEW j \in Jobs, ~Exists(containers[j]), Exists(containers'[j])
               PROVE  starts[j] = Agent!Unbound
    OBVIOUS
  <2>o. j \in Owners
    BY DEF Owners
  <2>1. ASSUME NEW cmd \in Command, NEW reply, Agent!Execute(cmd, reply) PROVE IsStart(cmd, j)
    <3>1. Shape(containers, cmd, containers')
      BY <1>1, <2>1, Served DEF Typed, agent
    <3>2. ~Gone(containers'[j]) /\ ~Ended(containers[j], containers'[j])
      BY DEF Gone, Ended, Exists, Absent
    <3>3. cmd.owner = j
      BY <2>o, <3>1 DEF Shape, Settled, Touches
    <3> QED
      BY <3>1, <3>2, <3>3 DEF Shape, Settled, Launched, IsStart
  <2>2. ASSUME NEW cmd \in Command, NEW reply, Agent!Execute(cmd, reply), cmd \in Pending
        PROVE  starts[j] = Agent!Unbound
    <3>1. cmd \in StartOf(j)
      BY <2>1, <2>2 DEF StartOf
    <3> QED
      BY <1>1, <3>1 DEF JInv, Once
  <2>3. ASSUME NEW c \in Callers, AgentServes(c) PROVE starts[j] = Agent!Unbound
    <3>1. calls[c].cmd \in Command /\ calls[c].state = "sent"
      BY <1>1, <2>3, CallTypes DEF AgentServes, Typed
    <3>2. PICK reply : Agent!Execute(calls[c].cmd, reply)
      BY <2>3 DEF AgentServes
    <3>3. IsStart(calls[c].cmd, j)
      BY <2>1, <3>1, <3>2
    <3>4. c = Reconciler
      BY <1>1, <3>1, <3>3 DEF JInv, CleanupsOnly, IsStart, Callers
    <3> QED
      BY <2>2, <3>1, <3>2, <3>4 DEF Pending
  <2>4. ASSUME NEW cmd \in late, AgentServesLate(cmd) PROVE starts[j] = Agent!Unbound
    BY <1>1, <2>2, <2>4 DEF AgentServesLate, Typed, CallsTyped, Pending
  <2>5. ASSUME NEW o \in Owners, ContainerEvent(o) PROVE FALSE
    <3>1. Touches(containers, o, containers') /\ Evolved(containers[o], containers'[o])
      BY <1>1, <2>5, Evolves DEF Typed
    <3>2. o = j
      BY <2>o, <3>1 DEF Touches
    <3> QED
      BY <3>1, <3>2 DEF Evolved, Gone, Exists, Absent, Active, ActiveStatuses
  <2>6. ASSUME UNCHANGED agent PROVE FALSE
    BY <2>6 DEF agent
  <2>7. CASE Reconcile \/ RoundAborts \/ Request \/ (\E o \in Owners : LeaseExpires(o)) \/ UNCHANGED vars
    BY <2>6, <2>7, ReconcileFrame, RequestFrame DEF vars
  <2>8. CASE \E c \in Callers : CallFails(c)
    BY <2>6, <2>8 DEF CallFails
  <2> QED
    BY <1>1, <2>3, <2>4, <2>5, <2>7, <2>8, NextCases
<1>2. LInv => Typed
  BY DEF LInv
<1>3. JobsRunOnce <=> [][Fresh]_vars
  BY DEF JobsRunOnce
<1> HIDE DEF Fresh
<1> QED
  BY <1>1, <1>2, <1>3, PlatformInvariant, JobsInvariant, PTL DEF Spec

-----------------------------------------------------------------------------
(***************************************************************************)
(* The containers of trainings.  A command about a training is of its run, *)
(* even one that outlives its caller; and unless that is its START, what   *)
(* the agent answered is still true when the reconciler acts on it.        *)
(***************************************************************************)
StageActions(stage) ==
    CASE stage = "poll" -> {"stop", "status"}
      [] stage = "probe" -> {"status"}
      [] stage = "stop" -> {"stop"}
      [] stage = "start" -> {"start"}
      [] OTHER -> {}

\* Every call is of the round, about what it waits for, or of a request that deletes.
RoundCalls ==
    /\ rec.pc = "waiting" =>
          /\ calls[Reconciler].state \in {"sent", "replied"}
          /\ \E action \in StageActions(rec.stage) :
                calls[Reconciler].cmd = CommandFor(action, rec.w)
    /\ rec.pc # "waiting" => calls[Reconciler].state = "none"
DeleteCalls == \A c \in Clients : calls[c].state # "none" =>
    /\ api[c].kind = "deleting"
    /\ calls[c].cmd.action = "cleanup" /\ calls[c].cmd.owner = api[c].owner
CallInv == RoundCalls /\ DeleteCalls

\* The container of an active training is of its run; one that waits has none, and was never
\* named in a command.
Contained(t) ==
    /\ Unclaimed(t) => ~Exists(containers[t]) /\ generations[t] = 0
    /\ IsActive(rows[t]) =>
          /\ generations[t] <= rows[t].rgen
          /\ Exists(containers[t])
                => containers[t].gen = rows[t].rgen /\ containers[t].gpus = rows[t].gpus

\* So is every command about it, and nobody cleans up after a training that has not ended.
Fitting(t, cmd) ==
    cmd.owner = t =>
        /\ ~Unclaimed(t)
        /\ IsActive(rows[t]) => /\ cmd.gen = rows[t].rgen /\ cmd.gpus = rows[t].gpus
                                /\ cmd.action # "cleanup"
LateFits(t) == \A cmd \in late : Fitting(t, cmd)
CInv == CallInv /\ \A t \in Trainings : Contained(t) /\ LateFits(t)

\* An answer that ends a job is true of its container, unless it is a refusal.
Truthful(c, reply) ==
    /\ reply.state = "absent" => ~Exists(c)
    /\ reply.state \in {"failed", "succeeded"} => ~Active(c) \/ reply = Rejected

\* As long as no START is executed late: a START finds no container, an answer is true until it
\* is used, and a training that was canceled has no container.
About(t) == rec.pc = "waiting" /\ rec.w.owner = t
Asked(t) ==
    /\ About(t) /\ rec.stage = "start" /\ calls[Reconciler].state = "sent" => ~Exists(containers[t])
    /\ About(t) /\ calls[Reconciler].state = "replied"
          => Truthful(containers[t], calls[Reconciler].reply)
Prompt(t) == Asked(t) /\ (rows[t].actual = "canceled" => ~Exists(containers[t]))

\* If moreover no answer disowns a container that runs, a training that ended does not run.
Housed(t) == Active(containers[t]) => IsActive(rows[t])

\* A training that succeeded while it was active, until its success is recorded, and from then on.
Dropped(row) == ~Exist(row) /\ row.version # 0
Over(row) == IsTerminal(row) \/ Dropped(row)
Won(t) ==
    \/ containers[t].status = "exited0" /\ IsActive(rows[t])
    \/ Over(rows[t]) /\ rows[t].actual # "canceled"

\* What the reconciler waits for, as it goes on.
LEMMA RoundCallsKept ==
    ASSUME PlatformAssumption, Typed, RoundCalls, Reconcile \/ RoundAborts
    PROVE  RoundCalls'
<1>c. calls \in [Callers -> Calls] /\ Reconciler \in Callers
  BY DEF Typed, CallsTyped, Callers
<1>n. NoCall.state = "none" /\ \A cmd : Sent(cmd).state = "sent" /\ Sent(cmd).cmd = cmd
  BY DEF NoCall, Sent
<1>a. \A pc \in {"idle", "reaping", "claiming"} : At(pc).pc # "waiting"
  BY DEF At
<1>p. \A todo : Polling(todo).pc # "waiting"
  BY DEF Polling
<1>w. \A stage, w, todo : /\ Waiting(stage, w, todo).pc = "waiting" /\ Waiting(stage, w, todo).w = w
                          /\ Waiting(stage, w, todo).stage = stage
  BY DEF Waiting
<1>1. CASE BeginRound \/ PollingDone
  <2>1. calls' = calls /\ rec.pc # "waiting"
    BY <1>1 DEF BeginRound, PollingDone, Polling
  <2>2. rec'.pc # "waiting"
    BY <1>1, <1>p, <1>a DEF BeginRound, PollingDone
  <2> QED
    BY <2>1, <2>2 DEF RoundCalls
<1>2. CASE \/ Reap \/ ClaimNothing
           \/ \E o \in Owners : ClaimPreflightFails(o) \/ ClaimRaises(o) \/ ClaimBlocked(o)
  <2>1. calls' = calls /\ rec.pc # "waiting" /\ rec'.pc # "waiting"
    <3>1. CASE Reap \/ ClaimNothing
      BY <3>1, <1>a DEF Reap, ClaimNothing
    <3>2. ASSUME NEW o \in Owners, ClaimPreflightFails(o) \/ ClaimRaises(o) \/ ClaimBlocked(o)
          PROVE  calls' = calls /\ rec.pc # "waiting" /\ rec'.pc # "waiting"
      BY <3>2, <1>a DEF ClaimPreflightFails, ClaimRaises, ClaimBlocked
    <3> QED
      BY <1>2, <3>1, <3>2
  <2> QED
    BY <2>1 DEF RoundCalls
<1>3. CASE Poll
  <2>1. PICK w \in rec.todo :
           LET probe == w.owner \in Trainings /\ w.desired = "stop"
               action == IF w.desired = "stop" /\ ~probe THEN "stop" ELSE "status"
           IN  /\ calls' = [calls EXCEPT ![Reconciler] = Sent(CommandFor(action, w))]
               /\ rec' = Waiting(IF probe THEN "probe" ELSE "poll", w, rec.todo \ {w})
    BY <1>3 DEF Poll
  <2>2. PICK stage \in {"poll", "probe"}, action \in {"stop", "status"} :
           /\ action \in StageActions(stage)
           /\ calls' = [calls EXCEPT ![Reconciler] = Sent(CommandFor(action, w))]
           /\ rec' = Waiting(stage, w, rec.todo \ {w})
    BY <2>1 DEF StageActions
  <2>3. /\ calls'[Reconciler].state = "sent" /\ calls'[Reconciler].cmd = CommandFor(action, w)
        /\ rec'.pc = "waiting" /\ rec'.stage = stage /\ rec'.w = w
    BY <1>c, <1>n, <1>w, <2>2
  <2>4. action \in StageActions(stage)
    BY <2>2
  <2> QED
    BY <2>3, <2>4 DEF RoundCalls
<1>4. CASE ObserveReply
  <2>1. \/ /\ calls' = [calls EXCEPT ![Reconciler] = Sent(CommandFor("stop", rec.w))]
           /\ rec' = Waiting("stop", rec.w, rec.todo)
        \/ /\ calls' = [calls EXCEPT ![Reconciler] = NoCall]
           /\ rec' = Polling(rec.todo)
    BY <1>4 DEF ObserveReply
  <2>2. "stop" \in StageActions("stop")
    BY DEF StageActions
  <2>3. \/ /\ calls'[Reconciler].state = "sent" /\ calls'[Reconciler].cmd = CommandFor("stop", rec.w)
           /\ rec'.pc = "waiting" /\ rec'.stage = "stop" /\ rec'.w = rec.w
        \/ calls'[Reconciler].state = "none" /\ rec'.pc # "waiting"
    BY <1>c, <1>n, <1>w, <1>p, <2>1
  <2> QED
    BY <2>2, <2>3 DEF RoundCalls
<1>5. CASE StartReply \/ RoundAborts
  <2>1. calls' = [calls EXCEPT ![Reconciler] = NoCall] /\ rec'.pc # "waiting"
    BY <1>5, <1>a DEF StartReply, RoundAborts
  <2> QED
    BY <1>c, <1>n, <2>1 DEF RoundCalls
<1>6. ASSUME NEW o \in Owners, Claim(o) PROVE RoundCalls'
  <2>1. PICK w : /\ calls' = [calls EXCEPT ![Reconciler] = Sent(CommandFor("start", w))]
                 /\ rec' = Waiting("start", w, {})
    BY <1>6 DEF Claim
  <2>2. "start" \in StageActions("start")
    BY DEF StageActions
  <2>3. /\ calls'[Reconciler].state = "sent" /\ calls'[Reconciler].cmd = CommandFor("start", w)
        /\ rec'.pc = "waiting" /\ rec'.stage = "start" /\ rec'.w = w
    BY <1>c, <1>n, <1>w, <2>1
  <2> QED
    BY <2>2, <2>3 DEF RoundCalls
<1> QED
  BY <1>1, <1>2, <1>3, <1>4, <1>5, <1>6 DEF Reconcile

\* Calls come and go with the round or the request that makes them.
LEMMA NextCallInv ==
    ASSUME PlatformAssumption, Typed, CallInv, [Next]_vars
    PROVE  CallInv'
<1>c. /\ calls \in [Callers -> Calls] /\ Reconciler \in Callers
      /\ \A c \in Clients : c # Reconciler /\ c \in Callers
      /\ api \in [Clients -> Requests]
  BY DEF Typed, CallsTyped, ApiTyped, Callers, PlatformAssumption
<1>i. RoundCalls /\ DeleteCalls
  BY DEF CallInv
<1>r. ASSUME rec' = rec, calls'[Reconciler] = calls[Reconciler] PROVE RoundCalls'
  BY <1>r, <1>i DEF RoundCalls
<1>1. CASE Reconcile \/ RoundAborts
  <2>1. api' = api /\ \A c \in Clients : calls'[c] = calls[c]
    BY <1>1, <1>c, ReconcileFrame
  <2>2. RoundCalls'
    BY <1>1, <1>i, RoundCallsKept
  <2> QED
    BY <1>i, <2>1, <2>2 DEF CallInv, DeleteCalls
<1>2. ASSUME \/ \E o \in Owners, gs \in Groups : CreateWorkload(o, gs)
             \/ \E o \in Owners : TerminateTraining(o) \/ LeaseExpires(o) \/ ContainerEvent(o)
             \/ \E cmd \in late : AgentServesLate(cmd)
             \/ UNCHANGED vars
      PROVE  CallInv'
  <2>1. api' = api /\ calls' = calls /\ rec' = rec
    BY <1>2 DEF CreateWorkload, TerminateTraining, LeaseExpires, ContainerEvent, AgentServesLate, vars
  <2> QED
    BY <1>i, <1>r, <2>1 DEF CallInv, DeleteCalls
<1>3. ASSUME NEW c \in Callers, AgentServes(c) \/ CallFails(c)
      PROVE  CallInv'
  <2>1. /\ api' = api /\ rec' = rec
        /\ calls[c].state \in {"sent", "replied"}
        /\ \E reply : calls' = [calls EXCEPT ![c] = Replied(calls[c].cmd, reply)]
    BY <1>3 DEF AgentServes, CallFails
  <2>2. /\ calls'[c].state = "replied" /\ calls'[c].cmd = calls[c].cmd
        /\ \A d \in Callers : d # c => calls'[d] = calls[d]
    BY <1>c, <2>1 DEF Replied
  <2>3. RoundCalls'
    BY <1>i, <1>c, <2>1, <2>2 DEF RoundCalls
  <2>4. DeleteCalls'
    BY <1>i, <1>c, <2>1, <2>2 DEF DeleteCalls
  <2> QED
    BY <2>3, <2>4 DEF CallInv
<1>5. ASSUME NEW c \in Clients, CommitRow(c) \/ \E o \in Owners : ReadRow(c, o)
      PROVE  CallInv'
  <2>1. calls' = calls /\ rec' = rec
    BY <1>5 DEF CommitRow, ReadRow
  <2>2. \A d \in Clients \ {c} : api'[d] = api[d]
    BY <1>5, <1>c DEF CommitRow, ReadRow
  <2>3. api[c].kind # "deleting"
    <3>1. CASE CommitRow(c)
      <4>1. PICK change \in Written(api[c]) : TRUE
        BY <3>1 DEF CommitRow
      <4> QED
        BY <4>1, WrittenTypes DEF Typed
    <3>2. CASE \E o \in Owners : ReadRow(c, o)
      BY <3>2 DEF ReadRow, NoRequest
    <3> QED
      BY <1>5, <3>1, <3>2
  <2>4. DeleteCalls'
    BY <1>i, <2>1, <2>2, <2>3 DEF DeleteCalls
  <2> QED
    BY <1>i, <1>r, <2>1, <2>4 DEF CallInv
<1>6. ASSUME NEW c \in Clients, NEW o \in Owners, BeginDelete(c, o)
      PROVE  CallInv'
  <2>1. /\ api' = [api EXCEPT ![c] = [kind |-> "deleting", owner |-> o]]
        /\ calls' = [calls EXCEPT ![c] = Sent(CommandFor("cleanup", Snapshot(o)))]
        /\ rec' = rec
    BY <1>6 DEF BeginDelete
  <2>2. /\ Sent(CommandFor("cleanup", Snapshot(o))).cmd.action = "cleanup"
        /\ Sent(CommandFor("cleanup", Snapshot(o))).cmd.owner = o
    BY DEF Sent, CommandFor, Snapshot
  <2>3. DeleteCalls'
    BY <1>i, <1>c, <2>1, <2>2 DEF DeleteCalls
  <2> QED
    BY <1>i, <1>c, <1>r, <2>1, <2>3 DEF CallInv
<1>7. ASSUME NEW c \in Clients, FinishDelete(c) PROVE CallInv'
  <2>1. /\ api' = [api EXCEPT ![c] = NoRequest] /\ calls' = [calls EXCEPT ![c] = NoCall]
        /\ rec' = rec
    BY <1>7 DEF FinishDelete
  <2>3. DeleteCalls'
    BY <1>i, <1>c, <2>1 DEF DeleteCalls, NoCall
  <2> QED
    BY <1>i, <1>c, <1>r, <2>1, <2>3 DEF CallInv
<1> QED
  BY <1>1, <1>2, <1>3, <1>5, <1>6, <1>7 DEF Next, Request

-----------------------------------------------------------------------------
(***************************************************************************)
(* What the agent answers about a job.                                     *)
(***************************************************************************)
\* A success is kept until it is reported.
Preserves(cs, o, out) ==
    cs[o].status = "exited0" => out.cs = cs /\ out.reply.state # "absent"
Told(cs, o, out) == Truthful(out.cs[o], out.reply) /\ Preserves(cs, o, out)

\* The statuses of a container.
LEMMA StatusFacts ==
    /\ \A c : Active(c) => Exists(c) /\ c.status \notin TerminalStatuses
    /\ \A c : c.status \in TerminalStatuses => Exists(c) /\ ~Active(c)
    /\ ~Exists(Absent) /\ ~Active(Absent) /\ Absent.status # "exited0"
    /\ Unavailable.state = "unknown" /\ Rejected.state = "failed"
    /\ \A s : Accepted(s).state = s
    /\ \A cs, r : Outcome(cs, r).cs = cs /\ Outcome(cs, r).reply = r
BY DEF Active, ActiveStatuses, Exists, TerminalStatuses, Absent, Unavailable, Rejected, Accepted,
   Outcome

\* The report of an existing container of a job.
LEMMA JobReports ==
    ASSUME NEW cs \in [Owners -> Container], NEW o \in Jobs \ Deployments, o \in Owners, Exists(cs[o]),
           NEW out \in ResponseFromInfo(cs, o)
    PROVE  out.cs = cs /\ Told(cs, o, out)
<1>1. cs[o].status \in Statuses \ {"absent"}
  BY DEF Container, Exists
<1> DEFINE s == StateFromInfo(o, cs[o])
<1>2. s # "absent" /\ (s \in {"failed", "succeeded"} => ~Active(cs[o]))
  BY <1>1 DEF StateFromInfo, Statuses, ActiveStatuses, TerminalStatuses, Active
<1>4. out = Outcome(cs, Accepted(s)) \/ out = Outcome(cs, Rejected)
  BY DEF ResponseFromInfo
<1> HIDE DEF s
<1>5. CASE out = Outcome(cs, Accepted(s))
  BY <1>2, <1>5, StatusFacts DEF Told, Truthful, Preserves
<1>6. CASE out = Outcome(cs, Rejected)
  BY <1>6, StatusFacts DEF Told, Truthful, Preserves
<1> QED
  BY <1>4, <1>5, <1>6, StatusFacts

\* The end of a STOP.
LEMMA JobDiscards ==
    ASSUME NEW cs \in [Owners -> Container], NEW o \in Jobs \ Deployments, o \in Owners, Exists(cs[o]),
           NEW out \in Discard(cs, o)
    PROVE  Told(cs, o, out)
<1>1. CASE cs[o].status = "exited0"
  BY <1>1, JobReports DEF Discard
<1>2. CASE cs[o].status # "exited0"
  <2>1. \/ out = Outcome(Remove(cs, o), Accepted("absent"))
        \/ out = Outcome(Set(cs, o, "removing"), Unavailable)
    BY <1>2 DEF Discard, RemoveContainer
  <2>2. Remove(cs, o)[o] = Absent
    BY DEF Remove
  <2>3. Truthful(out.cs[o], out.reply)
    BY <2>1, <2>2, StatusFacts DEF Truthful
  <2> QED
    BY <1>2, <2>3 DEF Told, Preserves
<1> QED
  BY <1>1, <1>2

\* A job's START, STOP or STATUS, of the generation of the container if there is one.
LEMMA JobAnswers ==
    ASSUME NEW cs \in [Owners -> Container], NEW cmd \in Command, NEW o \in Jobs \ Deployments,
           cmd.owner = o, cmd.action # "cleanup",
           cmd.action = "start" => ~Exists(cs[o]),
           Exists(cs[o]) => cs[o].gen = cmd.gen,
           NEW out \in DispatchOutcomes(cs, cmd)
    PROVE  Told(cs, o, out)
<1>o. o \in Owners
  BY DEF Owners
<1>t. cs[o].status \in Statuses /\ cmd.action \in Actions
  BY <1>o DEF Container, Command
<1>0. CASE out = Outcome(cs, Unavailable)
  BY <1>0, StatusFacts DEF Told, Truthful, Preserves
<1>a. ASSUME ~Exists(cs[o]), out = Outcome(cs, Accepted("absent"))
      PROVE  Told(cs, o, out)
  <2>1. cs[o].status # "exited0"
    BY <1>a DEF Exists
  <2> QED
    BY <1>a, <2>1, StatusFacts DEF Told, Truthful, Preserves
<1>1. CASE cmd.action = "start" /\ out \in StartOutcomes(cs, cmd)
  <2>1. ~Exists(cs[o]) /\ cs[o].status # "exited0" /\ ~Active(cs[o])
    BY <1>1, StatusFacts DEF Exists
  <2>2. out \in Launch(cs, cmd)
    BY <1>1, <2>1 DEF StartOutcomes
  <2>3. CASE out = Outcome(cs, Rejected)
    BY <2>1, <2>3, StatusFacts DEF Told, Truthful, Preserves
  <2>4. CASE out \in Run(cs, cmd)
    <3>1. PICK s \in AfterLaunch : out \in RanAs(cs, cmd, s)
      BY <2>4 DEF Run
    <3> DEFINE ds == Created(cs, cmd, s)
    <3>2. CASE out = Outcome(ds, Unavailable)
      BY <2>1, <3>2, StatusFacts DEF Told, Truthful, Preserves
    <3>3. CASE out \in ResponseFromInfo(ds, o)
      <4>1. [gen |-> cmd.gen, gpus |-> cmd.gpus, status |-> s] \in Container
        BY DEF AfterLaunch, Command, Container, Statuses, ActiveStatuses, TerminalStatuses
      <4>2. ds \in [Owners -> Container] /\ ds[o].status = s
        BY <1>o, <4>1 DEF Created
      <4>3. Exists(ds[o])
        BY <4>2 DEF Exists, AfterLaunch, TerminalStatuses
      <4> HIDE DEF ds
      <4>4. out.cs = ds /\ Told(ds, o, out)
        BY <1>o, <3>3, <4>2, <4>3, JobReports
      <4> QED
        BY <2>1, <4>4 DEF Told, Preserves
    <3> QED
      BY <3>1, <3>2, <3>3 DEF RanAs
  <2> QED
    BY <2>2, <2>3, <2>4 DEF Launch
<1>2. CASE cmd.action = "stop" /\ out \in StopOutcomes(cs, cmd)
  <2>1. CASE ~Exists(cs[o])
    BY <1>a, <1>2, <2>1 DEF StopOutcomes
  <2>2. CASE Exists(cs[o]) /\ cs[o].status \in TerminalStatuses
    <3>1. out \in Discard(cs, o)
      BY <1>2, <2>2, StatusFacts DEF StopOutcomes
    <3> QED
      BY <1>o, <2>2, <3>1, JobDiscards
  <2>3. CASE Active(cs[o])
    <3>1. PICK s \in AfterStop(cs[o].status) :
             out \in {Outcome(Set(cs, o, s), Unavailable)} \cup Discard(Set(cs, o, s), o)
      <4>1. Exists(cs[o]) /\ cs[o].gen = cmd.gen /\ cs[o].status \notin TerminalStatuses
        BY <2>3, StatusFacts
      <4> QED
        BY <1>2, <2>3, <4>1 DEF StopOutcomes
    <3>2. cs[o].status # "exited0"
      BY <2>3 DEF Active, ActiveStatuses
    <3>3. s \in Statuses /\ s # "absent"
      BY <1>t DEF AfterStop, Statuses, TerminalStatuses
    <3>4. CASE out = Outcome(Set(cs, o, s), Unavailable)
      BY <3>2, <3>4, StatusFacts DEF Told, Truthful, Preserves
    <3>5. CASE out \in Discard(Set(cs, o, s), o)
      <4>1. Set(cs, o, s) \in [Owners -> Container] /\ Exists(Set(cs, o, s)[o])
        <5>1. /\ Touches(cs, o, Set(cs, o, s))
              /\ Set(cs, o, s)[o] = [gen |-> cs[o].gen, gpus |-> cs[o].gpus, status |-> s]
          BY <1>o, <3>3, SetStatus
        <5>2. Set(cs, o, s)[o].status = s
          BY <5>1
        <5> QED
          BY <3>3, <5>1, <5>2 DEF Touches, Exists
      <4>2. Told(Set(cs, o, s), o, out)
        BY <1>o, <3>5, <4>1, JobDiscards
      <4> QED
        BY <3>2, <4>2 DEF Told, Preserves
    <3> QED
      BY <3>1, <3>4, <3>5
  <2>4. CASE cs[o].status = "removing"
    <3>1. Exists(cs[o]) /\ cs[o].gen = cmd.gen /\ cs[o].status \notin TerminalStatuses /\ ~Active(cs[o])
      BY <2>4 DEF Exists, TerminalStatuses, Active, ActiveStatuses
    <3> QED
      BY <1>2, <3>1 DEF StopOutcomes
  <2> QED
    BY <1>t, <2>1, <2>2, <2>3, <2>4 DEF Statuses, Active, Exists
<1>3. CASE cmd.action = "status" /\ out \in StatusOutcomes(cs, cmd)
  <2>1. CASE ~Exists(cs[o])
    BY <1>a, <1>3, <2>1 DEF StatusOutcomes
  <2>2. CASE Exists(cs[o])
    <3>1. out \in ResponseFromInfo(cs, o)
      BY <1>3, <2>2 DEF StatusOutcomes
    <3> QED
      BY <1>o, <2>2, <3>1, JobReports
  <2> QED
    BY <2>1, <2>2
<1> QED
  BY <1>t, <1>0, <1>1, <1>2, <1>3 DEF DispatchOutcomes, Actions

-----------------------------------------------------------------------------
(***************************************************************************)
(* Steps of the agent: what they make of the containers of trainings.      *)
(***************************************************************************)
\* A call of the reconciler about a training is of its run.
LEMMA TrainingCall ==
    ASSUME PlatformAssumption, LInv, CInv, NEW t \in Trainings,
           calls[Reconciler].state # "none", calls[Reconciler].cmd.owner = t
    PROVE  LET cmd == calls[Reconciler].cmd
           IN  /\ About(t) /\ IsActive(rows[t])
               /\ cmd.gen = rows[t].rgen /\ cmd.gpus = rows[t].gpus
               /\ cmd.action # "cleanup" /\ (cmd.action = "start" => rec.stage = "start")
<1>1. rec.pc = "waiting"
  BY DEF CInv, CallInv, RoundCalls
<1>2. PICK action \in StageActions(rec.stage) : calls[Reconciler].cmd = CommandFor(action, rec.w)
  BY <1>1 DEF CInv, CallInv, RoundCalls
<1>3. /\ calls[Reconciler].cmd.action = action /\ calls[Reconciler].cmd.gen = rec.w.gen
      /\ calls[Reconciler].cmd.gpus = rec.w.gpus /\ rec.w.owner = t
  BY <1>2 DEF CommandFor
<1>4. action # "cleanup" /\ (action = "start" => rec.stage = "start")
  BY <1>2 DEF StageActions
<1>5. rec.w \in Subjects /\ Tracked(t)
  BY <1>1 DEF Subjects, LInv, Followed
<1>6. IsActive(rows[t]) /\ rows[t].rgen = rec.w.gen /\ rows[t].gpus = rec.w.gpus
  BY <1>3, <1>5 DEF Tracked
<1> QED
  BY <1>1, <1>3, <1>4, <1>6 DEF About

\* What the reconciler waits for is what it called the agent about.
LEMMA AboutCall ==
    ASSUME CInv, NEW t, About(t) PROVE calls[Reconciler].cmd.owner = t
<1>1. PICK action : calls[Reconciler].cmd = CommandFor(action, rec.w)
  BY DEF CInv, CallInv, RoundCalls, About
<1> QED
  BY <1>1 DEF CommandFor, About

\* A deletion is of a training that has ended.
LEMMA DeleteCall ==
    ASSUME LInv, CInv, NEW c \in Clients, calls[c].state # "none"
    PROVE  calls[c].cmd.action = "cleanup" /\ IsTerminal(rows[calls[c].cmd.owner])
BY DEF LInv, Deletions, CInv, CallInv, DeleteCalls

\* The rows of trainings that are claimed, or ended.
LEMMA RowFacts ==
    \A t : /\ IsActive(rows[t]) => ~Unclaimed(t) /\ rows[t].actual # "canceled"
           /\ IsTerminal(rows[t]) => ~Unclaimed(t) /\ ~IsActive(rows[t])
BY States DEF Unclaimed, IsActive, ActiveStates, ActiveJobStates, ActiveDeploymentStates

\* Every call about a training is of its run.
LEMMA CallFits ==
    ASSUME PlatformAssumption, LInv, CInv, NEW t \in Trainings, NEW c \in Callers,
           calls[c].state # "none"
    PROVE  Fitting(t, calls[c].cmd)
<1>1. CASE c = Reconciler
  BY <1>1, TrainingCall, RowFacts DEF Fitting
<1>2. CASE c \in Clients
  BY <1>2, DeleteCall, RowFacts DEF Fitting
<1> QED
  BY <1>1, <1>2 DEF Callers

\* What the agent does for a command about a training: only its START begins anything; and while
\* the training is active and a START finds no container, the answer is true, and a success kept.
LEMMA ServedContained ==
    ASSUME PlatformAssumption, LInv, CInv, NEW t \in Trainings, NEW cmd \in Command, NEW reply,
           Agent!Execute(cmd, reply), Fitting(t, cmd), rows' = rows
    PROVE  /\ Contained(t)'
           /\ cmd.owner # t => containers'[t] = containers[t]
           /\ cmd.owner # t \/ cmd.action # "start" =>
                 /\ ~Exists(containers[t]) => ~Exists(containers'[t])
                 /\ ~Active(containers[t]) => ~Active(containers'[t])
           /\ /\ cmd.owner = t /\ IsActive(rows[t])
              /\ cmd.action = "start" => ~Exists(containers[t])
              => /\ Truthful(containers'[t], reply)
                 /\ containers[t].status = "exited0" => containers'[t] = containers[t]
<1>1. /\ AgentTyped /\ t \in Owners /\ t \in Jobs \ Deployments /\ Contained(t)
      /\ containers \in [Owners -> Container] /\ generations \in [Owners -> Nat]
  BY TrainingFacts DEF LInv, Typed, CInv, AgentTyped
<1>2. cmd.gen \in Nat /\ generations[t] \in Nat
  BY <1>1 DEF Command
<1>3. CASE UNCHANGED agent /\ (Agent!Stale(cmd) \/ Agent!Reused(cmd)) /\ reply = Rejected
  <2>1. containers' = containers /\ generations' = generations
    BY <1>3 DEF agent
  <2>2. Truthful(containers'[t], reply)
    BY <1>3, StatusFacts DEF Truthful
  <2> QED
    BY <1>1, <2>1, <2>2 DEF Contained, Unclaimed
<1>4. ASSUME NEW out \in DispatchOutcomes(containers, cmd), containers' = out.cs, reply = out.reply,
             Shape(containers, cmd, containers'), Agent!Admit(cmd), cmd.owner # t
      PROVE  containers'[t] = containers[t] /\ Contained(t)'
  <2>1. containers'[t] = containers[t] /\ generations'[t] = generations[t]
    BY <1>1, <1>4 DEF Shape, Settled, Touches, Agent!Admit
  <2> QED
    BY <1>1, <2>1 DEF Contained, Unclaimed
<1>5. ASSUME NEW out \in DispatchOutcomes(containers, cmd), containers' = out.cs, reply = out.reply,
             Shape(containers, cmd, containers'), Agent!Admit(cmd), cmd.owner = t
      PROVE  /\ Contained(t)'
             /\ cmd.action # "start" => /\ ~Exists(containers[t]) => ~Exists(containers'[t])
                                        /\ ~Active(containers[t]) => ~Active(containers'[t])
             /\ IsActive(rows[t]) /\ (cmd.action = "start" => ~Exists(containers[t]))
                  => /\ Truthful(containers'[t], reply)
                     /\ containers[t].status = "exited0" => containers'[t] = containers[t]
  <2>1. ~Unclaimed(t) /\ ~Unclaimed(t)'
    BY <1>5 DEF Fitting, Unclaimed
  <2>2. \/ containers'[t] = containers[t] \/ Gone(containers'[t])
        \/ Ended(containers[t], containers'[t]) \/ Launched(containers, cmd, containers'[t])
    BY <1>5 DEF Shape, Settled
  <2>3. generations'[t] = Agent!Larger(generations[t], cmd.gen)
    BY <1>1, <1>5 DEF Agent!Admit
  <2>4. cmd.action # "start" => /\ ~Exists(containers[t]) => ~Exists(containers'[t])
                                /\ ~Active(containers[t]) => ~Active(containers'[t])
    <3>1. CASE Gone(containers'[t])
      BY <3>1, StatusFacts DEF Gone
    <3>2. CASE Ended(containers[t], containers'[t])
      BY <3>2 DEF Ended, Active, ActiveStatuses, TerminalStatuses
    <3> QED
      BY <2>2, <3>1, <3>2 DEF Launched
  <2>5. ASSUME IsActive(rows[t])
        PROVE  /\ cmd.gen = rows[t].rgen /\ cmd.gpus = rows[t].gpus /\ cmd.action # "cleanup"
               /\ generations[t] <= cmd.gen
               /\ Exists(containers[t])
                     => containers[t].gen = cmd.gen /\ containers[t].gpus = cmd.gpus
    BY <1>1, <1>5, <2>5 DEF Fitting, Contained
  <2>6. Contained(t)'
    <3>1. ASSUME IsActive(rows[t])
          PROVE  /\ generations'[t] <= rows[t].rgen
                 /\ Exists(containers'[t])
                       => containers'[t].gen = rows[t].rgen /\ containers'[t].gpus = rows[t].gpus
      <4>1. generations'[t] <= rows[t].rgen
        BY <1>2, <2>3, <2>5, <3>1 DEF Agent!Larger
      <4>2. CASE containers'[t] = containers[t]
        BY <2>5, <3>1, <4>1, <4>2
      <4>3. CASE Gone(containers'[t])
        BY <4>1, <4>3, StatusFacts DEF Gone
      <4>4. CASE Ended(containers[t], containers'[t])
        BY <2>5, <3>1, <4>1, <4>4 DEF Ended
      <4>5. CASE Launched(containers, cmd, containers'[t])
        BY <2>5, <3>1, <4>1, <4>5 DEF Launched
      <4> QED
        BY <2>2, <4>2, <4>3, <4>4, <4>5
    <3> QED
      BY <2>1, <3>1 DEF Contained
  <2>7. ASSUME IsActive(rows[t]), cmd.action = "start" => ~Exists(containers[t])
        PROVE  /\ Truthful(containers'[t], reply)
               /\ containers[t].status = "exited0" => containers'[t] = containers[t]
    <3>1. cmd.action # "cleanup" /\ (Exists(containers[t]) => containers[t].gen = cmd.gen)
      BY <2>5, <2>7
    <3>2. Told(containers, t, out)
      BY <1>1, <1>5, <2>7, <3>1, JobAnswers
    <3> QED
      BY <1>5, <3>2 DEF Told, Preserves
  <2> QED
    BY <2>4, <2>6, <2>7
<1>6. \/ UNCHANGED agent /\ (Agent!Stale(cmd) \/ Agent!Reused(cmd)) /\ reply = Rejected
      \/ \E out \in DispatchOutcomes(containers, cmd) :
            /\ containers' = out.cs /\ reply = out.reply
            /\ Shape(containers, cmd, containers') /\ Agent!Admit(cmd)
  BY <1>1, Served
<1> QED
  BY <1>3, <1>4, <1>5, <1>6

\* What a step does to the conditions above.
Steady(t) ==
    Prompt(t) /\ ~Abandoned(t) =>
        /\ Prompt(t)'
        /\ Won(t) => Won(t)'
        /\ Housed(t) /\ ~Disowned(t) => Housed(t)'

\* Steps that leave the rows alone, and begin no container of a training.
LEMMA AgentSteady ==
    ASSUME NEW t, rows' = rows, Asked(t)',
           ~Exists(containers[t]) => ~Exists(containers'[t]),
           ~Active(containers[t]) => ~Active(containers'[t]),
           containers[t].status = "exited0" /\ IsActive(rows[t]) => containers'[t] = containers[t]
    PROVE  Steady(t)
BY DEF Steady, Prompt, Housed, Won

\* Commands that are still on their way are about the same runs.
LEMMA LateKept ==
    ASSUME NEW t, LateFits(t), rows' = rows, \A cmd \in late' : cmd \in late \/ Fitting(t, cmd)
    PROVE  LateFits(t)'
BY DEF LateFits, Fitting, Unclaimed

\* A call that the agent serves in time.
LEMMA ServedSteady ==
    ASSUME PlatformAssumption, LInv, CInv, NEW c \in Callers, AgentServes(c), NEW t \in Trainings
    PROVE  Contained(t)' /\ LateFits(t)' /\ Steady(t)
<1>1. PICK reply \in Reply : /\ Agent!Execute(calls[c].cmd, reply)
                             /\ calls' = [calls EXCEPT ![c] = Replied(@.cmd, reply)]
  BY DEF AgentServes
<1>2. /\ calls[c].state = "sent" /\ rows' = rows /\ rec' = rec /\ late' = late
      /\ calls[c].cmd \in Command
  BY CallTypes DEF AgentServes, LInv, Typed, database
<1>3. /\ calls'[c].state = "replied" /\ calls'[c].reply = reply
      /\ c # Reconciler => calls'[Reconciler] = calls[Reconciler]
  BY <1>1 DEF LInv, Typed, CallsTyped, Callers, Replied
<1>4. Contained(t) /\ LateFits(t) /\ Fitting(t, calls[c].cmd)
  BY <1>2, CallFits DEF CInv
<1> DEFINE cmd == calls[c].cmd
<1>5. /\ Contained(t)'
      /\ cmd.owner # t => containers'[t] = containers[t]
      /\ cmd.owner # t \/ cmd.action # "start" =>
            /\ ~Exists(containers[t]) => ~Exists(containers'[t])
            /\ ~Active(containers[t]) => ~Active(containers'[t])
      /\ /\ cmd.owner = t /\ IsActive(rows[t])
         /\ cmd.action = "start" => ~Exists(containers[t])
         => /\ Truthful(containers'[t], reply)
            /\ containers[t].status = "exited0" => containers'[t] = containers[t]
  BY <1>1, <1>2, <1>4, ServedContained
<1>6. LateFits(t)'
  BY <1>2, <1>4, LateKept
<1>7. CASE cmd.owner # t
  <2>1. ASSUME Prompt(t) PROVE Asked(t)'
    <3>1. CASE c = Reconciler
      <4>1. ~About(t)
        BY <1>7, <3>1, AboutCall
      <4> QED
        BY <1>2, <4>1 DEF Asked, About
    <3>2. CASE c # Reconciler
      BY <1>2, <1>3, <1>5, <1>7, <2>1, <3>2 DEF Prompt, Asked, About
    <3> QED
      BY <3>1, <3>2
  <2>2. ASSUME Prompt(t) PROVE Steady(t)
    BY <1>2, <1>5, <1>7, <2>1, <2>2, AgentSteady
  <2> QED
    BY <1>5, <1>6, <2>2 DEF Steady
<1>8. CASE cmd.owner = t /\ c = Reconciler
  <2>1. About(t) /\ IsActive(rows[t]) /\ (cmd.action = "start" => rec.stage = "start")
    BY <1>2, <1>8, TrainingCall
  <2>2. ASSUME Prompt(t) PROVE Steady(t)
    <3>1. cmd.action = "start" => ~Exists(containers[t])
      BY <1>2, <1>8, <2>1, <2>2 DEF Prompt, Asked
    <3>2. /\ Truthful(containers'[t], reply)
          /\ containers[t].status = "exited0" => containers'[t] = containers[t]
      BY <1>5, <1>8, <2>1, <3>1
    <3>3. Asked(t)'
      BY <1>2, <1>3, <1>8, <3>2 DEF Asked
    <3>4. rows[t].actual # "canceled"
      BY <2>1, RowFacts
    <3> QED
      BY <1>2, <2>1, <3>2, <3>3, <3>4 DEF Steady, Prompt, Housed, Won
  <2> QED
    BY <1>5, <1>6, <2>2 DEF Steady
<1>9. CASE cmd.owner = t /\ c \in Clients /\ c # Reconciler
  <2>1. cmd.action = "cleanup" /\ IsTerminal(rows[t])
    BY <1>2, <1>9, DeleteCall
  <2>2. ~IsActive(rows[t])
    BY <2>1, RowFacts
  <2>3. ~About(t)
    BY <2>2 DEF About, LInv, Followed, Tracked, Subjects
  <2>4. Asked(t)'
    BY <1>2, <2>3 DEF Asked, About
  <2>5. Steady(t)
    BY <1>2, <1>5, <2>1, <2>2, <2>4, AgentSteady
  <2> QED
    BY <1>5, <1>6, <2>5
<1> QED
  BY <1>7, <1>8, <1>9 DEF Callers

\* A call that the agent executes after its caller gave up.
LEMMA LateSteady ==
    ASSUME PlatformAssumption, LInv, CInv, NEW cmd \in late, AgentServesLate(cmd), NEW t \in Trainings
    PROVE  Contained(t)' /\ LateFits(t)' /\ Steady(t)
<1>1. PICK reply \in Reply : Agent!Execute(cmd, reply)
  BY DEF AgentServesLate
<1>2. rows' = rows /\ rec' = rec /\ calls' = calls /\ late' = late \ {cmd} /\ cmd \in Command
  BY DEF AgentServesLate, LInv, Typed, CallsTyped, database
<1>3. LateFits(t) /\ Fitting(t, cmd)
  BY DEF CInv, LateFits
<1>4. /\ Contained(t)'
      /\ cmd.owner # t => containers'[t] = containers[t]
      /\ cmd.owner # t \/ cmd.action # "start" =>
            /\ ~Exists(containers[t]) => ~Exists(containers'[t])
            /\ ~Active(containers[t]) => ~Active(containers'[t])
      /\ /\ cmd.owner = t /\ IsActive(rows[t])
         /\ cmd.action = "start" => ~Exists(containers[t])
         => /\ Truthful(containers'[t], reply)
            /\ containers[t].status = "exited0" => containers'[t] = containers[t]
  BY <1>1, <1>2, <1>3, ServedContained
<1>5. LateFits(t)'
  BY <1>2, <1>3, LateKept
<1>6. ASSUME Prompt(t), ~Abandoned(t) PROVE Steady(t)
  <2>1. cmd.owner # t \/ cmd.action # "start"
    BY <1>6 DEF Abandoned
  <2>2. Asked(t)'
    BY <1>2, <1>4, <1>6, <2>1 DEF Prompt, Asked, About, Truthful
  <2>3. containers[t].status = "exited0" /\ IsActive(rows[t]) => containers'[t] = containers[t]
    BY <1>4, <2>1
  <2> QED
    BY <1>2, <1>4, <2>1, <2>2, <2>3, AgentSteady
<1> QED
  BY <1>4, <1>5, <1>6 DEF Steady

\* A call that is lost, or that its caller gives up, tells nothing; a container that changes by
\* itself ends.
LEMMA ElsewhereSteady ==
    ASSUME PlatformAssumption, LInv, CInv, NEW t \in Trainings,
           \/ \E c \in Callers : CallFails(c)
           \/ \E o \in Owners : ContainerEvent(o)
    PROVE  Contained(t)' /\ LateFits(t)' /\ Steady(t)
<1>t. Contained(t) /\ LateFits(t) /\ t \in Owners /\ AgentTyped
  BY TrainingFacts DEF CInv, LInv, Typed
<1>1. ASSUME NEW c \in Callers, CallFails(c)
      PROVE  Contained(t)' /\ LateFits(t)' /\ Steady(t)
  <2>1. /\ calls' = [calls EXCEPT ![c] = Replied(@.cmd, Unavailable)] /\ rec' = rec
        /\ rows' = rows /\ containers' = containers /\ generations' = generations
        /\ calls[c].state # "none" /\ (late' = late \/ late' = late \cup {calls[c].cmd})
    BY <1>1 DEF CallFails, database, agent
  <2>2. Contained(t)'
    BY <1>t, <2>1 DEF Contained, Unclaimed
  <2>3. LateFits(t)'
    BY <1>t, <2>1, CallFits, LateKept
  <2>4. ASSUME Prompt(t) PROVE Asked(t)'
    <3>1. CASE c = Reconciler
      <4>1. /\ calls'[Reconciler].state = "replied"
            /\ calls'[Reconciler].reply = Unavailable
        BY <2>1, <3>1 DEF LInv, Typed, CallsTyped, Callers, Replied
      <4> QED
        BY <4>1, StatusFacts DEF Asked, Truthful
    <3>2. CASE c # Reconciler
      <4>1. calls'[Reconciler] = calls[Reconciler]
        BY <2>1, <3>2 DEF LInv, Typed, CallsTyped, Callers
      <4> QED
        BY <2>1, <2>4, <4>1 DEF Prompt, Asked, About
    <3> QED
      BY <3>1, <3>2
  <2>5. ASSUME Prompt(t) PROVE Steady(t)
    BY <2>1, <2>4, <2>5, AgentSteady
  <2> QED
    BY <2>2, <2>3, <2>5 DEF Steady
<1>2. ASSUME NEW o \in Owners, ContainerEvent(o)
      PROVE  Contained(t)' /\ LateFits(t)' /\ Steady(t)
  <2>1. calls' = calls /\ rec' = rec /\ rows' = rows /\ late' = late /\ generations' = generations
    BY <1>t, <1>2, Evolves DEF ContainerEvent, database
  <2>2. /\ Touches(containers, o, containers') /\ Evolved(containers[o], containers'[o])
        /\ containers[o].status \notin TerminalStatuses
    BY <1>t, <1>2, Evolves
  <2>3. \/ containers'[t] = containers[t]
        \/ /\ containers[t].status # "exited0"
           /\ ~Exists(containers'[t]) \/ Exists(containers[t])
           /\ Active(containers'[t]) => Active(containers[t])
           /\ Exists(containers'[t]) => /\ containers'[t].gen = containers[t].gen
                                        /\ containers'[t].gpus = containers[t].gpus
    <3>1. CASE o = t
      BY <2>2, <3>1, StatusFacts DEF Evolved, Gone, TerminalStatuses
    <3>2. CASE o # t
      BY <1>t, <2>2, <3>2 DEF Touches
    <3> QED
      BY <3>1, <3>2
  <2>4. Contained(t)'
    BY <1>t, <2>1, <2>3 DEF Contained, Unclaimed
  <2>5. LateFits(t)'
    BY <1>t, <2>1, LateKept
  <2>6. ASSUME Prompt(t) PROVE Asked(t)'
    BY <2>1, <2>3, <2>6 DEF Prompt, Asked, About, Truthful
  <2>7. ASSUME Prompt(t) PROVE Steady(t)
    BY <2>1, <2>3, <2>6, <2>7, AgentSteady
  <2> QED
    BY <2>4, <2>5, <2>7 DEF Steady
<1> QED
  BY <1>1, <1>2

-----------------------------------------------------------------------------
(***************************************************************************)
(* Steps of the control plane: what they make of the rows of trainings.    *)
(***************************************************************************)
\* A row ends only when the agent has confirmed it, and it stays as it ended.
RowFits(t) ==
    /\ IsActive(rows'[t])
          => IsActive(rows[t]) /\ rows'[t].rgen = rows[t].rgen /\ rows'[t].gpus = rows[t].gpus
    /\ IsActive(rows[t])
          => \/ IsActive(rows'[t])
             \/ IsTerminal(rows'[t]) /\ (Prompt(t) /\ ~Disowned(t) => ~Active(containers[t]))
    /\ Prompt(t) /\ rows'[t].actual = "canceled"
          => rows[t].actual = "canceled" \/ ~Exists(containers[t])
    /\ Over(rows[t]) => rows'[t] = rows[t] \/ Dropped(rows'[t])

\* A row that stays the same.
LEMMA SameRowFits == ASSUME NEW t, rows'[t] = rows[t] PROVE RowFits(t)
BY DEF RowFits

\* The steps that use an answer of the agent.
LEMMA ObservedRow ==
    ASSUME PlatformAssumption, LInv, CInv, NEW t \in Trainings, ObserveReply \/ StartReply
    PROVE  RowFits(t)
<1> DEFINE reply == calls[Reconciler].reply
           o == rec.w.owner
<1>1. rec.pc = "waiting" /\ calls[Reconciler].state = "replied"
  BY DEF ObserveReply, StartReply
<1>2. rec.w \in Snapshots /\ rec.w \in Subjects /\ o \in Owners /\ DatabaseTyped
  BY <1>1 DEF LInv, Typed, RecTyped, Subjects, Snapshots
<1>3. reply \in Answers
  BY <1>1 DEF LInv, Typed, CallsTyped, Answered, Callers
<1>4. t \in Owners /\ t \in Jobs \ Deployments /\ rows[t] \in Rows(Gpus)
  BY <1>2, TrainingFacts DEF DatabaseTyped
<1>5. \/ rows' = rows
      \/ reply # Unavailable /\ Apply(rec.w, reply)
      \/ reply # Unavailable /\ ~reply.accepted /\ \E ls : Write(o, FailStart(rows[o]), ls)
  <2>1. CASE reply = Unavailable
    <3>1. ~reply.accepted
      BY <2>1 DEF Unavailable
    <3> QED
      BY <2>1, <3>1 DEF ObserveReply, StartReply, database
  <2>2. CASE reply # Unavailable /\ reply.accepted
    BY <2>2 DEF ObserveReply, StartReply
  <2>3. CASE reply # Unavailable /\ ~reply.accepted
    <3>1. CASE ObserveReply
      BY <2>3, <3>1 DEF ObserveReply
    <3>2. CASE StartReply
      BY <2>3, <3>2 DEF StartReply, database
    <3> QED
      BY <3>1, <3>2
  <2> QED
    BY <2>1, <2>2, <2>3
<1>6. CASE rows'[t] = rows[t]
  BY <1>6, SameRowFits
<1>7. CASE o = t
  <2>1. IsActive(rows[t]) /\ rows[t].rgen = rec.w.gen
    BY <1>2, <1>7 DEF LInv, Followed, Tracked
  <2>2. /\ Prompt(t) => Truthful(containers[t], reply)
        /\ Prompt(t) /\ ~Disowned(t) => (reply = Rejected => ~Active(containers[t]))
    <3>1. About(t) /\ calls[Reconciler].cmd.owner = t
      BY <1>1, <1>7, AboutCall DEF About
    <3> QED
      BY <1>1, <3>1 DEF Prompt, Asked, Disowned
  <2>3. ~Over(rows[t]) /\ rows[t].actual # "canceled" /\ Exist(rows[t])
    BY <2>1, States, RowFacts DEF Over, Dropped
  <2>4. CASE reply # Unavailable /\ Apply(rec.w, reply)
    <3>1. PICK change \in ObserveJob(rows[t], reply) : \E ls : Write(t, change, ls)
      BY <1>4, <1>7, <2>1, <2>3, <2>4 DEF Apply
    <3>2. rows'[t] = change.row
      BY <1>2, <1>4, <3>1, WriteEffect
    <3>3. /\ change.row.rgen = rows[t].rgen /\ change.row.gpus = rows[t].gpus
          /\ reply.state \in Busy => IsActive(change.row)
          /\ reply.state \notin Busy => IsTerminal(change.row)
          /\ change.row.actual = "canceled" => reply.state = "absent"
      BY <1>3, <1>4, <2>4, <3>1, ObserveJobEffect
    <3>4. reply.state \in Busy \cup {"absent", "failed", "succeeded"}
      BY <1>3, <2>4, ReplyTypes DEF Reply, Busy
    <3>5. Prompt(t) /\ ~Disowned(t) /\ reply.state \notin Busy => ~Active(containers[t])
      BY <2>2, <3>4, StatusFacts DEF Truthful
    <3>6. Prompt(t) /\ rows'[t].actual = "canceled" => ~Exists(containers[t])
      BY <2>2, <3>2, <3>3 DEF Truthful
    <3> QED
      BY <2>1, <2>3, <3>2, <3>3, <3>5, <3>6 DEF RowFits
  <2>5. CASE reply # Unavailable /\ ~reply.accepted /\ \E ls : Write(t, FailStart(rows[t]), ls)
    <3>1. rows'[t] = FailStart(rows[t]).row
      BY <1>2, <1>4, <2>5, WriteEffect
    <3>2. rows'[t].actual = "failed"
      BY <1>4, <3>1 DEF FailStart, Change, Rows
    <3>3. reply.state = "failed"
      BY <1>3, <2>5 DEF Answers, Rejected, Accepted
    <3>4. Prompt(t) /\ ~Disowned(t) => ~Active(containers[t])
      BY <2>2, <3>3 DEF Truthful
    <3>5. IsTerminal(rows'[t]) /\ ~IsActive(rows'[t])
      BY <3>2, States DEF IsTerminal, TerminalStates
    <3> QED
      BY <2>3, <3>2, <3>4, <3>5 DEF RowFits
  <2> QED
    BY <1>5, <1>6, <1>7, <2>4, <2>5
<1>8. CASE o # t
  <2>1. CASE reply # Unavailable /\ Apply(rec.w, reply)
    BY <1>2, <1>3, <1>4, <1>6, <1>8, <2>1, ApplyEffect DEF LInv
  <2>2. CASE \E ls : Write(o, FailStart(rows[o]), ls)
    BY <1>2, <1>4, <1>6, <1>8, <2>2, WriteEffect
  <2> QED
    BY <1>5, <1>6, <2>1, <2>2
<1> QED
  BY <1>7, <1>8

\* The steps of a round that start nothing.
LEMMA ReconciledRow ==
    ASSUME PlatformAssumption, LInv, CInv, NEW t \in Trainings, Reconcile \/ RoundAborts
    PROVE  RowFits(t) \/ Claim(t)
<1>t. t \in Owners /\ rows \in [Owners -> Rows(Gpus)]
  BY TrainingFacts DEF LInv, Typed, DatabaseTyped
<1>1. CASE \/ BeginRound \/ Poll \/ PollingDone \/ Reap \/ ClaimNothing \/ RoundAborts
           \/ \E o \in Owners : ClaimRaises(o)
  <2>1. rows' = rows
    BY <1>1 DEF BeginRound, Poll, PollingDone, Reap, ClaimNothing, RoundAborts, ClaimRaises, database
  <2> QED
    BY <2>1, SameRowFits
<1>2. CASE ObserveReply \/ StartReply
  BY <1>2, ObservedRow
<1>3. ASSUME NEW o \in Owners, ClaimPreflightFails(o) \/ ClaimBlocked(o)
      PROVE  RowFits(t)
  <2>1. IsHead(o) /\ rows[o] \in Rows(Gpus)
    BY <1>t, <1>3 DEF ClaimPreflightFails, ClaimBlocked
  <2>2. rows[o].actual = "queued" /\ Exist(rows[o]) /\ ~IsActive(rows[o]) /\ ~IsTerminal(rows[o])
    BY <2>1, HeadWaits
  <2>3. PICK row : rows' = [rows EXCEPT ![o] = row] /\ row.actual \in {"failed", "queued"}
    <3>1. CASE ClaimPreflightFails(o)
      <4>1. rows' = [rows EXCEPT ![o] = [rows[o] EXCEPT !.actual = "failed", !.rgen = 0]]
        BY <3>1 DEF ClaimPreflightFails, Write, Change
      <4>2. [rows[o] EXCEPT !.actual = "failed", !.rgen = 0].actual = "failed"
        BY <2>1 DEF Rows
      <4> QED
        BY <4>1, <4>2
    <3>2. CASE ClaimBlocked(o)
      <4>1. rows' = [rows EXCEPT ![o] = [rows[o] EXCEPT !.rgen = 0]]
        BY <3>2 DEF ClaimBlocked
      <4>2. [rows[o] EXCEPT !.rgen = 0].actual = "queued"
        BY <2>1, <2>2 DEF Rows
      <4> QED
        BY <4>1, <4>2
    <3> QED
      BY <1>3, <3>1, <3>2
  <2>4. CASE o = t
    <3>1. rows'[t].actual \in {"failed", "queued"}
      BY <1>t, <2>3, <2>4
    <3>2. ~IsActive(rows'[t]) /\ rows'[t].actual # "canceled"
      BY <3>1 DEF IsActive, ActiveStates, ActiveJobStates, ActiveDeploymentStates
    <3> QED
      BY <2>2, <2>4, <3>2 DEF RowFits, Over, Dropped
  <2>5. CASE o # t
    BY <1>t, <2>3, <2>5, SameRowFits
  <2> QED
    BY <2>4, <2>5
<1>4. ASSUME NEW o \in Owners, Claim(o) PROVE RowFits(t) \/ Claim(t)
  <2>1. CASE o = t
    BY <1>4, <2>1
  <2>2. CASE o # t
    <3>1. rows'[t] = rows[t]
      BY <1>t, <1>4, <2>2 DEF Claim, Write
    <3> QED
      BY <3>1, SameRowFits
  <2> QED
    BY <2>1, <2>2
<1> QED
  BY <1>1, <1>2, <1>3, <1>4 DEF Reconcile

\* Requests.
LEMMA RequestedRow ==
    ASSUME PlatformAssumption, LInv, CInv, NEW t \in Trainings,
           Request \/ \E o \in Owners : LeaseExpires(o)
    PROVE  RowFits(t)
<1>t. /\ t \in Owners /\ t \in Jobs \ Deployments
      /\ rows \in [Owners -> Rows(Gpus)] /\ rows[t] \in Rows(Gpus)
  BY TrainingFacts DEF LInv, Typed, DatabaseTyped
<1>1. ASSUME NEW o \in Owners, NEW gs \in Groups, CreateWorkload(o, gs) PROVE RowFits(t)
  <2>1. rows' = [rows EXCEPT ![o] = Create(gs).row]
    BY <1>1 DEF CreateWorkload, Write
  <2>2. CASE o = t
    <3>1. rows'[t].actual = "queued"
      BY <1>t, <2>1, <2>2 DEF Create, Change
    <3>2. ~IsActive(rows'[t]) /\ ~Exist(rows[t]) /\ rows[t].version = 0
      BY <1>1, <2>2, <3>1, States DEF CreateWorkload
    <3> QED
      BY <3>1, <3>2, States DEF RowFits, Over, Dropped
  <2>3. CASE o # t
    BY <1>t, <2>1, <2>3, SameRowFits
  <2> QED
    BY <2>2, <2>3
<1>2. ASSUME NEW o \in Owners, TerminateTraining(o) PROVE RowFits(t)
  <2>1. rows' = [rows EXCEPT ![o] = EndJob(rows[o]).row]
    BY <1>2 DEF TerminateTraining, Write
  <2>2. CASE o = t
    <3>1. Exist(rows[t]) /\ ~IsTerminal(rows[t]) /\ rows'[t] = EndJob(rows[t]).row
      BY <1>t, <1>2, <2>1, <2>2 DEF TerminateTraining, TerminateIgnored
    <3>2. /\ rows'[t].rgen = rows[t].rgen /\ rows'[t].gpus = rows[t].gpus
          /\ rows'[t].actual = CASE rows[t].actual = "queued" -> "canceled"
                                 [] rows[t].actual \in {"starting", "running"} -> "canceling"
                                 [] OTHER -> rows[t].actual
      BY <1>t, <3>1, EndJobEffect
    <3>3. CASE rows[t].actual = "queued"
      <4>1. ~Exists(containers[t])
        BY <3>3 DEF CInv, Contained, Unclaimed
      <4>2. rows'[t].actual = "canceled" /\ ~IsActive(rows[t]) /\ ~IsActive(rows'[t])
        BY <3>2, <3>3 DEF IsActive, ActiveStates, ActiveJobStates, ActiveDeploymentStates
      <4> QED
        BY <3>1, <4>1, <4>2 DEF RowFits, Over, Dropped
    <3>4. CASE rows[t].actual # "queued"
      <4>1. IsActive(rows[t])
        BY <1>t, <3>1, <3>4 DEF Rows, ActualStates, IsActive, IsTerminal, Exist
      <4>2. IsActive(rows'[t]) /\ rows'[t].actual # "canceled"
        BY <3>2, <3>4, <4>1, RowFacts DEF IsActive, ActiveStates, ActiveJobStates
      <4> QED
        BY <3>1, <3>2, <4>1, <4>2 DEF RowFits, Over, Dropped
    <3> QED
      BY <3>3, <3>4
  <2>3. CASE o # t
    BY <1>t, <2>1, <2>3, SameRowFits
  <2> QED
    BY <2>2, <2>3
<1>3. ASSUME NEW c \in Clients, NEW o \in Owners, ReadRow(c, o) \/ BeginDelete(c, o) PROVE RowFits(t)
  <2>1. rows' = rows
    BY <1>3 DEF ReadRow, BeginDelete, database
  <2> QED
    BY <2>1, SameRowFits
<1>4. ASSUME NEW c \in Clients, CommitRow(c) PROVE RowFits(t)
  <2>1. PICK change \in Written(api[c]) : TRUE
    BY <1>4 DEF CommitRow
  <2>2. api[c].owner # t
    BY <2>1, WrittenTypes DEF LInv, LocklessRequests, Typed
  <2>3. rows'[t] = rows[t]
    BY <1>t, <1>4, <2>2 DEF CommitRow, Write, database
  <2> QED
    BY <2>3, SameRowFits
<1>5. ASSUME NEW c \in Clients, FinishDelete(c) PROVE RowFits(t)
  <2>1. api[c].kind = "deleting" /\ IsTerminal(rows[api[c].owner])
    BY <1>5 DEF FinishDelete, LInv, Deletions
  <2>2. \/ rows' = rows
        \/ rows' = [rows EXCEPT ![api[c].owner] = [NoRow EXCEPT !.version = MaxVersion]]
    BY <1>5 DEF FinishDelete, Write, Change, database
  <2>3. CASE rows'[t] = rows[t]
    BY <2>3, SameRowFits
  <2>4. CASE api[c].owner = t /\ rows'[t] = [NoRow EXCEPT !.version = MaxVersion]
    <3>1. rows'[t].actual = "none" /\ rows'[t].version # 0
      BY <2>4 DEF NoRow, PlatformAssumption
    <3>2. Dropped(rows'[t]) /\ ~IsActive(rows'[t]) /\ ~IsActive(rows[t])
      BY <2>1, <2>4, <3>1, States DEF Dropped, Exist
    <3> QED
      BY <3>1, <3>2 DEF RowFits
  <2> QED
    BY <1>t, <2>2, <2>3, <2>4
<1>6. ASSUME NEW o \in Owners, LeaseExpires(o) PROVE RowFits(t)
  BY <1>6, SameRowFits DEF LeaseExpires
<1> QED
  BY <1>1, <1>2, <1>3, <1>4, <1>5, <1>6 DEF Request

-----------------------------------------------------------------------------
(***************************************************************************)
(* Rows and containers together.                                           *)
(***************************************************************************)
\* Steps that leave the agent alone.
LEMMA ContainedKept ==
    ASSUME NEW t \in Trainings, Contained(t), LateFits(t), UNCHANGED agent, RowFits(t),
           Unclaimed(t)' => Unclaimed(t),
           \A cmd \in late' : cmd \in late \/ Fitting(t, cmd)
    PROVE  Contained(t)' /\ LateFits(t)'
<1>1. Contained(t)'
  BY DEF Contained, RowFits, agent
<1>2. ASSUME NEW cmd \in late' PROVE Fitting(t, cmd)'
  <2>1. Fitting(t, cmd)
    BY <1>2 DEF LateFits
  <2> QED
    BY <2>1 DEF Fitting, RowFits
<1> QED
  BY <1>1, <1>2 DEF LateFits

\* Such steps are steady.
LEMMA RowSteady ==
    ASSUME NEW t \in Trainings, UNCHANGED agent, RowFits(t), Prompt(t) => Asked(t)'
    PROVE  Steady(t)
<1> SUFFICES ASSUME Prompt(t) PROVE Steady(t)
  BY DEF Steady
<1>1. containers'[t] = containers[t]
  BY DEF agent
<1>2. Prompt(t)'
  BY <1>1 DEF Prompt, RowFits
<1>3. ASSUME containers[t].status = "exited0", IsActive(rows[t]) PROVE Won(t)'
  <2>1. Exists(containers[t]) /\ rows[t].actual # "canceled"
    BY <1>3, RowFacts DEF Exists
  <2>2. IsActive(rows'[t]) \/ (IsTerminal(rows'[t]) /\ rows'[t].actual # "canceled")
    BY <1>3, <2>1 DEF RowFits
  <2> QED
    BY <1>1, <1>3, <2>2 DEF Won, Over
<1>4. ASSUME Over(rows[t]), rows[t].actual # "canceled" PROVE Won(t)'
  <2>1. rows'[t] = rows[t] \/ Dropped(rows'[t])
    BY <1>4 DEF RowFits
  <2> QED
    BY <1>4, <2>1 DEF Won, Over, Dropped, Exist
<1>5. Won(t) => Won(t)'
  BY <1>3, <1>4 DEF Won
<1>6. Housed(t) /\ ~Disowned(t) => Housed(t)'
  BY <1>1 DEF Housed, RowFits
<1> QED
  BY <1>2, <1>5, <1>6 DEF Steady

\* The claim of a training.
LEMMA ClaimContained ==
    ASSUME PlatformAssumption, LInv, CInv, NEW t \in Trainings, Claim(t)
    PROVE  /\ Contained(t)' /\ LateFits(t)'
           /\ ~Exists(containers[t]) /\ IsActive(rows'[t]) /\ ~IsActive(rows[t]) /\ ~Over(rows[t])
<1>1. rows[t].actual = "queued" /\ Exist(rows[t]) /\ ~IsActive(rows[t]) /\ ~IsTerminal(rows[t])
  BY HeadWaits DEF Claim
<1>2. ~Exists(containers[t]) /\ generations[t] = 0 /\ Unclaimed(t) /\ LateFits(t)
  BY <1>1 DEF CInv, Contained, Unclaimed
<1>3. t \in Owners /\ rows \in [Owners -> Rows(Gpus)] /\ rows[t] \in Rows(Gpus)
  BY TrainingFacts DEF LInv, Typed, DatabaseTyped
<1>4. rows' = [rows EXCEPT ![t] = [rows[t] EXCEPT !.actual = "starting", !.rgen = rows[t].version]]
      /\ containers' = containers /\ generations' = generations /\ late' = late
  BY DEF Claim, Write, Change, agent
<1>5. rows'[t].actual = "starting" /\ rows'[t].rgen \in Nat
  BY <1>3, <1>4 DEF Rows
<1>6. IsActive(rows'[t]) /\ ~Unclaimed(t)'
  BY <1>5 DEF IsActive, ActiveStates, ActiveJobStates, Unclaimed, Exist
<1>7. generations'[t] <= rows'[t].rgen
  BY <1>2, <1>4, <1>5
<1>8. LateFits(t)'
  BY <1>2, <1>4 DEF LateFits, Fitting
<1> QED
  BY <1>1, <1>2, <1>4, <1>6, <1>7, <1>8 DEF Contained, Over, Dropped

\* The reconciler's next step does not use an old answer, and its START finds no container.
LEMMA RoundAnswer ==
    ASSUME PlatformAssumption, LInv, CInv, NEW t \in Trainings, Reconcile \/ RoundAborts
    PROVE  Asked(t)'
<1>c. calls \in [Callers -> Calls] /\ Reconciler \in Callers
  BY DEF LInv, Typed, CallsTyped, Callers
<1>a. \A pc \in {"idle", "reaping", "claiming"} : At(pc).pc # "waiting"
  BY DEF At
<1>p. \A todo : Polling(todo).pc # "waiting"
  BY DEF Polling
<1>w. \A stage, w, todo : Waiting(stage, w, todo).stage = stage /\ Waiting(stage, w, todo).w = w
  BY DEF Waiting
<1>n. NoCall.state = "none" /\ \A cmd : Sent(cmd).state = "sent"
  BY DEF NoCall, Sent
<1>1. ASSUME rec'.pc # "waiting" PROVE Asked(t)'
  BY <1>1 DEF Asked, About
<1>2. CASE BeginRound \/ PollingDone \/ Reap \/ ClaimNothing \/ StartReply \/ RoundAborts
           \/ \E o \in Owners : ClaimRaises(o) \/ ClaimBlocked(o)
  BY <1>1, <1>2, <1>a, <1>p DEF BeginRound, PollingDone, Reap, ClaimNothing, StartReply,
     RoundAborts, ClaimRaises, ClaimBlocked
<1>3. CASE \E o \in Owners : ClaimPreflightFails(o)
  BY <1>1, <1>3 DEF ClaimPreflightFails
<1>4. CASE Poll
  <2>1. /\ \E cmd : calls' = [calls EXCEPT ![Reconciler] = Sent(cmd)]
        /\ \E stage \in {"poll", "probe"} : \E w, todo : rec' = Waiting(stage, w, todo)
    BY <1>4 DEF Poll
  <2>2. calls'[Reconciler].state = "sent" /\ rec'.stage # "start"
    BY <1>c, <1>n, <1>w, <2>1
  <2> QED
    BY <2>2 DEF Asked
<1>5. CASE ObserveReply
  <2>1. \/ /\ \E cmd : calls' = [calls EXCEPT ![Reconciler] = Sent(cmd)]
           /\ \E w, todo : rec' = Waiting("stop", w, todo)
        \/ \E todo : rec' = Polling(todo)
    BY <1>5 DEF ObserveReply
  <2>2. CASE \E todo : rec' = Polling(todo)
    BY <1>1, <1>p, <2>2
  <2>3. CASE /\ \E cmd : calls' = [calls EXCEPT ![Reconciler] = Sent(cmd)]
             /\ \E w, todo : rec' = Waiting("stop", w, todo)
    <3>1. calls'[Reconciler].state = "sent" /\ rec'.stage # "start"
      BY <1>c, <1>n, <1>w, <2>3
    <3> QED
      BY <3>1 DEF Asked
  <2> QED
    BY <2>1, <2>2, <2>3
<1>6. ASSUME NEW o \in Owners, Claim(o) PROVE Asked(t)'
  <2>1. /\ \E cmd : calls' = [calls EXCEPT ![Reconciler] = Sent(cmd)]
        /\ \E w : rec' = Waiting("start", w, {}) /\ w.owner = o
        /\ containers' = containers
    <3> DEFINE w == [owner |-> o, gen |-> rows[o].version, gpus |-> rows[o].gpus,
                     desired |-> rows[o].desired]
    <3>1. /\ calls' = [calls EXCEPT ![Reconciler] = Sent(CommandFor("start", w))]
          /\ rec' = Waiting("start", w, {}) /\ containers' = containers /\ w.owner = o
      BY <1>6 DEF Claim, agent
    <3> QED
      BY <3>1
  <2>2. calls'[Reconciler].state = "sent" /\ rec'.w.owner = o
    BY <1>c, <1>n, <1>w, <2>1
  <2>3. CASE o = t
    <3>1. ~Exists(containers[t])
      BY <1>6, <2>3, ClaimContained
    <3> QED
      BY <2>1, <2>2, <3>1 DEF Asked
  <2>4. CASE o # t
    BY <2>2, <2>4 DEF Asked, About
  <2> QED
    BY <2>3, <2>4
<1> QED
  BY <1>2, <1>3, <1>4, <1>5, <1>6 DEF Reconcile

\* The reconciler gives up only what it called the agent about.
LEMMA RoundLate ==
    ASSUME PlatformAssumption, LInv, CInv, NEW t \in Trainings, Reconcile \/ RoundAborts
    PROVE  \A cmd \in late' : cmd \in late \/ Fitting(t, cmd)
<1>1. CASE RoundAborts
  <2>1. late' = late \/ (calls[Reconciler].state = "sent" /\ late' = late \cup {calls[Reconciler].cmd})
    BY <1>1 DEF RoundAborts
  <2>2. calls[Reconciler].state = "sent" => Fitting(t, calls[Reconciler].cmd)
    BY CallFits DEF Callers
  <2> QED
    BY <2>1, <2>2
<1>2. CASE Reconcile
  <2>1. CASE \/ BeginRound \/ Poll \/ PollingDone \/ ObserveReply \/ Reap \/ ClaimNothing
             \/ StartReply
    BY <2>1 DEF BeginRound, Poll, PollingDone, ObserveReply, Reap, ClaimNothing, StartReply
  <2>2. ASSUME NEW o \in Owners,
               ClaimPreflightFails(o) \/ ClaimRaises(o) \/ ClaimBlocked(o) \/ Claim(o)
        PROVE  late' = late
    BY <2>2 DEF ClaimPreflightFails, ClaimRaises, ClaimBlocked, Claim
  <2> QED
    BY <1>2, <2>1, <2>2 DEF Reconcile
<1> QED
  BY <1>1, <1>2

\* Every step.
LEMMA NextCInv ==
    ASSUME PlatformAssumption, LInv, JInv, CInv, [Next]_vars
    PROVE  /\ CInv'
           /\ \A t \in Trainings :
                 /\ Steady(t)
                 /\ Over(rows[t]) => rows'[t] = rows[t] \/ Dropped(rows'[t])
<1>1. CallInv'
  BY NextCallInv DEF LInv, CInv
<1>2. ASSUME NEW t \in Trainings
      PROVE  /\ Contained(t)' /\ LateFits(t)' /\ Steady(t)
             /\ Over(rows[t]) => rows'[t] = rows[t] \/ Dropped(rows'[t])
  <2>t. /\ Contained(t) /\ LateFits(t) /\ Typed /\ FittingRequests
        /\ t \in Jobs /\ t \in Owners
    BY TrainingFacts DEF CInv, LInv, JInv
  <2>u. Unclaimed(t)' => Unclaimed(t)
    BY <2>t, ClaimedForGood
  <2>1. ASSUME RowFits(t), UNCHANGED agent, Prompt(t) => Asked(t)',
               \A cmd \in late' : cmd \in late \/ Fitting(t, cmd)
        PROVE  /\ Contained(t)' /\ LateFits(t)' /\ Steady(t)
               /\ Over(rows[t]) => rows'[t] = rows[t] \/ Dropped(rows'[t])
    <3>1. Contained(t)' /\ LateFits(t)'
      BY <2>t, <2>u, <2>1, ContainedKept
    <3>2. Steady(t)
      BY <2>1, RowSteady
    <3> QED
      BY <2>1, <3>1, <3>2 DEF RowFits
  <2>2. CASE Reconcile \/ RoundAborts
    <3>1. Asked(t)' /\ UNCHANGED agent
      BY <2>2, RoundAnswer, ReconcileFrame
    <3>2. CASE Claim(t)
      <4>1. /\ Contained(t)' /\ LateFits(t)'
            /\ ~Exists(containers[t]) /\ IsActive(rows'[t]) /\ ~IsActive(rows[t]) /\ ~Over(rows[t])
        BY <3>2, ClaimContained
      <4>2. containers'[t] = containers[t] /\ rows'[t].actual # "canceled"
        <5>1. containers' = containers
          BY <3>1 DEF agent
        <5>2. rows'[t].actual # "canceled"
          BY <4>1 DEF IsActive, ActiveStates, ActiveJobStates, ActiveDeploymentStates
        <5> QED
          BY <5>1, <5>2
      <4> QED
        BY <3>1, <4>1, <4>2 DEF Steady, Prompt, Won, Housed
    <3>3. CASE RowFits(t)
      <4>1. \A cmd \in late' : cmd \in late \/ Fitting(t, cmd)
        BY <2>2, <2>t, RoundLate
      <4> QED
        BY <2>1, <3>1, <3>3, <4>1
    <3> QED
      BY <2>2, <3>2, <3>3, ReconciledRow
  <2>3. CASE Request \/ \E o \in Owners : LeaseExpires(o)
    <3>1. /\ late' = late /\ rec' = rec /\ UNCHANGED agent
          /\ calls' = calls \/ \E c \in Clients : \E call : calls' = [calls EXCEPT ![c] = call]
      BY <2>3, RequestFrame
    <3>2. calls'[Reconciler] = calls[Reconciler]
      BY <2>t, <3>1 DEF PlatformAssumption, Typed, CallsTyped, Callers
    <3>3. Prompt(t) => Asked(t)'
      BY <3>1, <3>2 DEF Prompt, Asked, About, agent
    <3> QED
      BY <2>1, <2>3, <3>1, <3>3, RequestedRow
  <2>4. ASSUME Contained(t)' /\ LateFits(t)' /\ Steady(t), rows' = rows
        PROVE  /\ Contained(t)' /\ LateFits(t)' /\ Steady(t)
               /\ Over(rows[t]) => rows'[t] = rows[t] \/ Dropped(rows'[t])
    BY <2>4
  <2>5. ASSUME NEW c \in Callers, AgentServes(c)
        PROVE  /\ Contained(t)' /\ LateFits(t)' /\ Steady(t)
               /\ Over(rows[t]) => rows'[t] = rows[t] \/ Dropped(rows'[t])
    BY <2>4, <2>5, ServedSteady DEF AgentServes, database
  <2>6. CASE (\E c \in Callers : CallFails(c)) \/ \E o \in Owners : ContainerEvent(o)
    BY <2>4, <2>6, ElsewhereSteady DEF CallFails, ContainerEvent, database
  <2>7. ASSUME NEW cmd \in late, AgentServesLate(cmd)
        PROVE  /\ Contained(t)' /\ LateFits(t)' /\ Steady(t)
               /\ Over(rows[t]) => rows'[t] = rows[t] \/ Dropped(rows'[t])
    BY <2>4, <2>7, LateSteady DEF AgentServesLate, database
  <2>8. CASE UNCHANGED vars
    <3>1. rows' = rows /\ rec' = rec /\ calls' = calls /\ late' = late /\ UNCHANGED agent
      BY <2>8 DEF vars, database
    <3>2. RowFits(t) /\ (Prompt(t) => Asked(t)')
      BY <3>1, SameRowFits DEF Prompt, Asked, About, agent
    <3> QED
      BY <2>1, <3>1, <3>2
  <2> QED
    BY <2>2, <2>3, <2>5, <2>6, <2>7, <2>8, NextCases
<1> QED
  BY <1>1, <1>2 DEF CInv

\* Initially nothing has been claimed or called.
LEMMA InitCInv ==
    ASSUME PlatformAssumption, Init
    PROVE  CInv /\ \A t \in Trainings : Prompt(t) /\ Housed(t)
<1>1. /\ late = {} /\ rec.pc = "idle" /\ \A c \in Callers : calls[c] = NoCall
      /\ \A o \in Owners : rows[o] = NoRow
  BY DEF Init, At
<1>2. CallInv
  BY <1>1 DEF CallInv, RoundCalls, DeleteCalls, NoCall, Callers
<1>3. \A o \in Owners : containers[o] = Absent /\ generations[o] = 0
  BY SameConstants DEF Init, Agent!Init
<1>4. ~IsActive(NoRow) /\ NoRow.actual # "canceled"
  BY DEF NoRow, IsActive, ActiveStates, ActiveJobStates, ActiveDeploymentStates
<1>5. ASSUME NEW t \in Trainings PROVE Contained(t) /\ LateFits(t) /\ Prompt(t) /\ Housed(t)
  BY <1>1, <1>3, <1>4, StatusFacts, TrainingFacts
     DEF Contained, LateFits, Prompt, Asked, About, Housed
<1> QED
  BY <1>2, <1>5 DEF CInv

\* The rows of trainings, their containers and the commands about them fit together.
LEMMA ContainerInvariant == Spec => [](LInv /\ JInv /\ CInv)
<1>1. LInv => Typed
  BY DEF LInv
<1>2. LInv /\ JInv /\ CInv /\ [Next]_vars => CInv'
  BY NextCInv, PlatformAssumption
<1>3. Init => CInv
  BY InitCInv, PlatformAssumption
<1> QED
  BY <1>1, <1>2, <1>3, PlatformInvariant, JobsInvariant, PTL DEF Spec

\* The leases of an active training cover its container, and of every training that does not
\* outlive its row.
LEMMA ActiveAreCovered ==
    ASSUME LInv, CInv, NEW t \in Trainings, Active(containers[t]) => IsActive(rows[t])
    PROVE  CoveredByLease(t)
<1>1. Contained(t) /\ Leased(t)
  BY DEF CInv, LInv, Followed
<1>2. ASSUME Active(containers[t])
      PROVE  containers[t].gpus \subseteq GpusOf(OwnedAt(leases, t, containers[t].gen))
  <2>1. /\ IsActive(rows[t]) /\ containers[t].gen = rows[t].rgen
        /\ containers[t].gpus = rows[t].gpus
    BY <1>1, <1>2, StatusFacts DEF Contained
  <2>2. ASSUME NEW g \in rows[t].gpus
        PROVE  g \in GpusOf(OwnedAt(leases, t, rows[t].rgen))
    <3>1. PICK l \in leases : l.owner = t /\ l.gpu = g
      BY <1>1, <2>1 DEF Leased
    <3>2. l.gen = rows[t].rgen
      BY <1>1, <3>1 DEF Leased
    <3> QED
      BY <3>1, <3>2 DEF GpusOf, OwnedAt
  <2> QED
    BY <2>1, <2>2
<1> QED
  BY <1>2 DEF CoveredByLease

\* As long as a training is active, the GPUs of its container are leased to it; and its leases
\* are not given up while its container still runs, nor is it canceled before its container is
\* gone, unless its START was executed late or the agent refused to report on it (claims,
\* _apply_observation, StartReply, terminate, DELETE): for any interleaving of rounds, requests,
\* lost, late and refused calls and aborted rounds.
THEOREM TrainingsKeepTheirGpus == Spec => TrainingContainersAreLeased
<1>1. ASSUME NEW t \in Trainings
      PROVE  Spec => /\ [](IsActive(rows[t]) => CoveredByLease(t))
                     /\ [](~Abandoned(t) /\ ~Disowned(t))
                          => [](CoveredByLease(t)
                                  /\ (rows[t].actual = "canceled" => ~Exists(containers[t])))
  <2>1. LInv /\ CInv => (IsActive(rows[t]) => CoveredByLease(t))
    BY ActiveAreCovered
  <2>2. LInv /\ CInv /\ Housed(t) => CoveredByLease(t)
    BY ActiveAreCovered DEF Housed
  <2>3. Prompt(t) => (rows[t].actual = "canceled" => ~Exists(containers[t]))
    BY DEF Prompt
  <2>4. Init => Prompt(t) /\ Housed(t)
    BY InitCInv, PlatformAssumption
  <2>5. LInv /\ JInv /\ CInv /\ Prompt(t) /\ Housed(t) /\ ~Abandoned(t) /\ ~Disowned(t) /\ [Next]_vars
          => Prompt(t)' /\ Housed(t)'
    BY NextCInv, PlatformAssumption DEF Steady
  <2> QED
    BY <2>1, <2>2, <2>3, <2>4, <2>5, ContainerInvariant, PTL DEF Spec
<1> QED
  BY <1>1 DEF TrainingContainersAreLeased

\* A training that ended well while it was active is never reported as canceled, unless its START
\* was executed late; and nobody changes the outcome of a training (terminate_training_job,
\* _apply_observation, DELETE).
THEOREM OutcomesOfTrainingsAreTrue == Spec => SuccessIsReported
<1> DEFINE Kept == \A t \in Trainings :
               IsTerminal(rows[t]) => rows'[t].actual \in {rows[t].actual, "none"}
<1>1. ASSUME LInv, JInv, CInv, [Next]_vars PROVE Kept
  BY <1>1, NextCInv, PlatformAssumption DEF Over, Dropped, Exist
<1>2. ASSUME NEW t \in Trainings
      PROVE  Spec => ([]~Abandoned(t) =>
                 []( containers[t].status = "exited0" /\ IsActive(rows[t])
                       => [](rows[t].actual # "canceled")))
  <2>1. LInv /\ JInv /\ CInv /\ Prompt(t) /\ ~Abandoned(t) /\ [Next]_vars
          => Prompt(t)' /\ (Won(t) => Won(t)')
    BY NextCInv, PlatformAssumption DEF Steady
  <2>2. containers[t].status = "exited0" /\ IsActive(rows[t]) => Won(t)
    BY DEF Won
  <2>3. Won(t) => rows[t].actual # "canceled"
    BY RowFacts DEF Won
  <2>4. Init => Prompt(t)
    BY InitCInv, PlatformAssumption
  <2> HIDE DEF Won
  <2> QED
    BY <2>1, <2>2, <2>3, <2>4, ContainerInvariant, PTL DEF Spec
<1>3. Spec => [][Kept]_vars
  <2> HIDE DEF Kept
  <2> QED
    BY <1>1, ContainerInvariant, PTL DEF Spec
<1> QED
  BY <1>2, <1>3 DEF SuccessIsReported
=============================================================================
