------------------------- MODULE AgentContractProofs -------------------------
(***************************************************************************)
(* Proofs about the node agent's contract, for any owners, GPUs and        *)
(* commands.  The invariants follow from the ways in which a dispatch may  *)
(* touch containers (DispatchShape) and from what Admit writes.            *)
(***************************************************************************)
EXTENDS AgentAllocation, DockerRunnerProofs

\* What happens to a container by itself touches this container only.
LEMMA EventShape ==
    ASSUME TypeOK, NEW o \in Owners, ContainerEvent(o)
    PROVE  /\ Touches(containers, o, containers')
           /\ Evolved(containers[o], containers'[o])
           /\ containers[o].status \notin TerminalStatuses
           /\ UNCHANGED <<generations, starts>>
  <1>1. PICK s \in Progress(o, containers[o]) : containers' = Evolve(containers, o, s)
    BY DEF ContainerEvent
  <1>2. containers \in [Owners -> Container]
    BY DEF TypeOK
  <1> QED
    BY <1>1, <1>2, ProgressShape DEF ContainerEvent

-----------------------------------------------------------------------------
(***************************************************************************)
(* Invariants.  GpuExclusive is inductive with the types alone.  That a    *)
(* generation runs with its bound parameters needs the watermark: a        *)
(* container older than the watermark may keep parameters that its         *)
(* generation was bound to before, but it can never become current again.  *)
(***************************************************************************)
IInv == TypeOK /\ WatermarkCovers /\ BoundParameters /\ GpuExclusive

\* The parts of a command.
LEMMA CommandTypes ==
    ASSUME NEW cmd \in Commands
    PROVE  /\ cmd \in Command
           /\ cmd.action \in Actions /\ cmd.owner \in Owners
           /\ cmd.gen \in Nat \ {0} /\ cmd.gpus \in SUBSET Gpus
  BY CommandsAssumption DEF Command

\* What an admitted command has written before it is dispatched (bind_start,
\* advance_generation), for every other owner and for its own.
LEMMA Admitted ==
    ASSUME TypeOK, NEW cmd \in Commands, Admit(cmd)
    PROVE  /\ generations' \in [Owners -> Nat]
           /\ starts' \in [Owners -> [gen : Nat, gpus : SUBSET Gpus]]
           /\ \A p \in Owners \ {cmd.owner} : generations'[p] = generations[p] /\ starts'[p] = starts[p]
           /\ generations[cmd.owner] <= cmd.gen
           /\ generations'[cmd.owner] = cmd.gen
           /\ cmd.action = "start" =>
                 /\ starts'[cmd.owner].gen = cmd.gen
                 /\ starts'[cmd.owner].gpus = cmd.gpus
                 /\ starts[cmd.owner].gen = cmd.gen => starts[cmd.owner].gpus = cmd.gpus
           /\ cmd.action # "start" => starts'[cmd.owner] = starts[cmd.owner]
  <1> DEFINE o == cmd.owner
  <1>1. o \in Owners /\ cmd.gen \in Nat /\ cmd.gpus \in SUBSET Gpus
    BY CommandTypes
  <1>2. generations[o] \in Nat /\ generations[o] <= cmd.gen
    BY <1>1 DEF TypeOK, Admit, Stale
  <1>3. Larger(generations[o], cmd.gen) = cmd.gen
    BY <1>1, <1>2 DEF Larger
  <1>4. generations' = [generations EXCEPT ![o] = cmd.gen]
    BY <1>3 DEF Admit
  <1>5. CASE cmd.action = "start"
    <2>1. starts' = [starts EXCEPT ![o] = [gen |-> cmd.gen, gpus |-> cmd.gpus]]
      BY <1>5 DEF Admit
    <2>2. starts[o].gen = cmd.gen => starts[o].gpus = cmd.gpus
      BY <1>5 DEF Admit, Reused
    <2> QED
      BY <1>1, <1>2, <1>4, <1>5, <2>1, <2>2 DEF TypeOK
  <1>6. CASE cmd.action # "start"
    <2>1. starts' = starts
      BY <1>6 DEF Admit
    <2> QED
      BY <1>1, <1>2, <1>4, <1>6, <2>1 DEF TypeOK
  <1> QED
    BY <1>5, <1>6

\* A performed command: what Admit wrote, and one of the shapes.
LEMMA Performed ==
    ASSUME TypeOK, NEW cmd \in Commands, NEW reply, Perform(cmd, reply)
    PROVE  Admit(cmd) /\ Shape(containers, cmd, containers')
  <1>1. PICK out \in DispatchOutcomes(containers, cmd) : containers' = out.cs
    BY DEF Perform
  <1>2. containers \in [Owners -> Container] /\ cmd \in Command
    BY CommandTypes DEF TypeOK
  <1> QED
    BY <1>1, <1>2, DispatchShape DEF Perform

\* The node keeps whole GPUs apart if a single container changes and, should it be new, had
\* only GPUs that nobody else was active on.
LEMMA StaysExclusive ==
    ASSUME NEW cs, NEW new, NEW o \in Owners,
           Touches(cs, o, new),
           \A p, q \in Owners : p # q /\ Active(cs[p]) /\ Active(cs[q])
                                   => cs[p].gpus \cap cs[q].gpus = {},
           \/ ~Active(new[o])
           \/ Active(cs[o]) /\ new[o].gpus = cs[o].gpus
           \/ new[o].gpus \cap GpusOfOthers(cs, o) = {}
    PROVE  \A p, q \in Owners : p # q /\ Active(new[p]) /\ Active(new[q])
                                   => new[p].gpus \cap new[q].gpus = {}
  <1>1. \A p \in Owners \ {o} : new[p] = cs[p]
    BY DEF Touches
  <1>2. ASSUME NEW p \in Owners \ {o}, Active(new[o]), Active(new[p])
        PROVE  new[o].gpus \cap new[p].gpus = {}
    <2>1. Active(cs[p]) /\ new[p].gpus = cs[p].gpus
      BY <1>1, <1>2
    <2>2. CASE Active(cs[o]) /\ new[o].gpus = cs[o].gpus
      BY <2>1, <2>2
    <2>3. CASE new[o].gpus \cap GpusOfOthers(cs, o) = {}
      <3>1. cs[p].gpus \subseteq GpusOfOthers(cs, o)
        BY <2>1 DEF GpusOfOthers
      <3> QED
        BY <2>1, <2>3, <3>1
    <2> QED
      BY <1>2, <2>2, <2>3
  <1> QED
    BY <1>1, <1>2

\* An agent that has bound nothing.
LEMMA InitIInv == Init => IInv
  <1> SUFFICES ASSUME Init PROVE IInv
    OBVIOUS
  <1>1. Absent \in Container /\ ~Exists(Absent) /\ ~Active(Absent) /\ Absent.gen = 0
    BY DEF Absent, Container, Statuses, TerminalStatuses, ActiveStatuses, Exists, Active
  <1>2. Unbound \in [gen : Nat, gpus : SUBSET Gpus] /\ Unbound.gen = 0
    BY DEF Unbound
  <1> QED
    BY <1>1, <1>2 DEF Init, IInv, TypeOK, WatermarkCovers, BoundParameters, GpuExclusive

\* Binding a START, raising the watermark and dispatching preserve the invariant.
LEMMA PerformIInv ==
    ASSUME IInv, NEW cmd \in Commands, NEW reply, Perform(cmd, reply)
    PROVE  IInv'
  <1> DEFINE o == cmd.owner
  <1> USE DEF IInv
  <1>1. Admit(cmd) /\ Shape(containers, cmd, containers')
    BY Performed
  <1>2. /\ generations' \in [Owners -> Nat]
        /\ starts' \in [Owners -> [gen : Nat, gpus : SUBSET Gpus]]
        /\ \A p \in Owners \ {o} : generations'[p] = generations[p] /\ starts'[p] = starts[p]
        /\ generations[o] <= cmd.gen
        /\ generations'[o] = cmd.gen
        /\ cmd.action = "start" =>
              /\ starts'[o].gen = cmd.gen
              /\ starts'[o].gpus = cmd.gpus
              /\ starts[o].gen = cmd.gen => starts[o].gpus = cmd.gpus
        /\ cmd.action # "start" => starts'[o] = starts[o]
    BY <1>1, Admitted
  <1>3. Touches(containers, o, containers')
    BY <1>1 DEF Shape, Settled
  <1>4. o \in Owners /\ cmd.gen \in Nat \ {0} /\ cmd.gpus \in SUBSET Gpus
    BY CommandTypes
  <1>5. /\ containers[o].gen \in Nat /\ starts[o].gen \in Nat /\ generations[o] \in Nat
        /\ containers[o].gen <= starts[o].gen /\ starts[o].gen <= generations[o]
    BY <1>4 DEF TypeOK, WatermarkCovers, Container
  <1>6. TypeOK'
    BY <1>2, <1>3 DEF TypeOK, Touches
  <1>7. \/ containers'[o] = containers[o]
        \/ containers'[o] = Absent
        \/ /\ Exists(containers[o]) /\ ~Active(containers'[o])
           /\ containers'[o].gen = containers[o].gen
           /\ containers'[o].gpus = containers[o].gpus
        \/ /\ cmd.action = "start"
           /\ cmd.gpus \cap GpusOfOthers(containers, o) = {}
           /\ containers'[o].gen = cmd.gen /\ containers'[o].gpus = cmd.gpus
    BY <1>1 DEF Shape, Settled, Gone, Ended, Launched, Active, ActiveStatuses, TerminalStatuses
  <1>8. ~Exists(Absent) /\ ~Active(Absent) /\ Absent.gen = 0
    BY DEF Absent, Exists, Active, ActiveStatuses
  <1>9. WatermarkCovers'
    <2>1. ASSUME NEW p \in Owners \ {o}
          PROVE  /\ starts'[p].gen <= generations'[p]
                 /\ containers'[p].gen <= starts'[p].gen
                 /\ Exists(containers'[p]) => containers'[p].gen >= 1
      BY <1>2, <1>3 DEF WatermarkCovers, Touches
    <2>2. starts'[o].gen <= generations'[o] /\ starts[o].gen <= starts'[o].gen
      BY <1>2, <1>4, <1>5
    <2>3. starts'[o].gen \in Nat
      BY <1>2, <1>4
    <2>4. containers'[o].gen <= starts'[o].gen
      BY <1>2, <1>4, <1>5, <1>7, <1>8, <2>2, <2>3
    <2>5. Exists(containers'[o]) => containers'[o].gen >= 1
      BY <1>4, <1>7, <1>8 DEF WatermarkCovers
    <2> QED
      BY <2>1, <2>2, <2>4, <2>5 DEF WatermarkCovers
  <1>10. BoundParameters'
    <2>1. ASSUME NEW p \in Owners \ {o}, Exists(containers'[p]),
                 containers'[p].gen = starts'[p].gen
          PROVE  containers'[p].gpus = starts'[p].gpus
      BY <1>2, <1>3, <2>1 DEF BoundParameters, Touches
    <2>2. ASSUME Exists(containers'[o]), containers'[o].gen = starts'[o].gen
          PROVE  containers'[o].gpus = starts'[o].gpus
      <3>1. CASE containers'[o].gen = containers[o].gen /\ Exists(containers[o])
                 /\ containers'[o].gpus = containers[o].gpus
        <4>1. starts[o].gen = containers[o].gen
          <5>1. CASE cmd.action = "start"
            <6>1. containers[o].gen = cmd.gen
              BY <1>2, <2>2, <3>1, <5>1
            <6>2. /\ cmd.gen \in Nat /\ starts[o].gen \in Nat /\ generations[o] \in Nat
                  /\ containers[o].gen <= starts[o].gen /\ starts[o].gen <= generations[o]
                  /\ generations[o] <= cmd.gen
              BY <1>2, <1>4, <1>5
            <6> QED
              BY <6>1, <6>2
          <5>2. CASE cmd.action # "start"
            BY <1>2, <2>2, <3>1, <5>2
          <5> QED
            BY <5>1, <5>2
        <4>2. starts[o].gpus = containers[o].gpus
          BY <1>4, <3>1, <4>1 DEF BoundParameters
        <4> QED
          BY <1>2, <1>4, <2>2, <3>1, <4>1, <4>2
      <3>2. CASE cmd.action = "start" /\ containers'[o].gpus = cmd.gpus
        BY <1>2, <3>2
      <3> QED
        BY <1>7, <1>8, <2>2, <3>1, <3>2
    <2> QED
      BY <2>1, <2>2 DEF BoundParameters
  <1>11. GpuExclusive'
    <2>1. \/ ~Active(containers'[o])
          \/ Active(containers[o]) /\ containers'[o].gpus = containers[o].gpus
          \/ containers'[o].gpus \cap GpusOfOthers(containers, o) = {}
      BY <1>7, <1>8
    <2>2. \A p, q \in Owners : p # q /\ Active(containers[p]) /\ Active(containers[q])
                                  => containers[p].gpus \cap containers[q].gpus = {}
      BY DEF GpuExclusive
    <2>3. \A p, q \in Owners : p # q /\ Active(containers'[p]) /\ Active(containers'[q])
                                  => containers'[p].gpus \cap containers'[q].gpus = {}
      BY <1>3, <1>4, <2>1, <2>2, StaysExclusive
    <2> QED
      BY <2>3 DEF GpuExclusive
  <1> QED
    BY <1>6, <1>9, <1>10, <1>11

\* So does what a container does by itself.
LEMMA EventIInv ==
    ASSUME IInv, NEW o \in Owners, ContainerEvent(o)
    PROVE  IInv'
  <1> USE DEF IInv
  <1>1. /\ Touches(containers, o, containers')
        /\ Evolved(containers[o], containers'[o])
        /\ generations' = generations /\ starts' = starts
    BY EventShape
  <1>2. ~Exists(Absent) /\ ~Active(Absent) /\ Absent.gen = 0
    BY DEF Absent, Exists, Active, ActiveStatuses
  <1>3. \/ containers'[o] = Absent
        \/ /\ Active(containers[o]) /\ Exists(containers[o])
           /\ containers'[o].gen = containers[o].gen
           /\ containers'[o].gpus = containers[o].gpus
    BY <1>1 DEF Evolved, Gone, Active, Exists, ActiveStatuses
  <1>4. TypeOK'
    BY <1>1 DEF TypeOK, Touches
  <1>5. WatermarkCovers'
    <2>1. ASSUME NEW p \in Owners
          PROVE  /\ containers'[p].gen <= starts[p].gen
                 /\ Exists(containers'[p]) => containers'[p].gen >= 1
      <3>1. CASE p = o
        BY <1>2, <1>3, <3>1 DEF WatermarkCovers, TypeOK
      <3>2. CASE p # o
        BY <1>1, <3>2 DEF WatermarkCovers, Touches
      <3> QED
        BY <3>1, <3>2
    <2> QED
      BY <1>1, <2>1 DEF WatermarkCovers
  <1>6. BoundParameters'
    BY <1>1, <1>2, <1>3 DEF BoundParameters, Touches
  <1>7. GpuExclusive'
    <2>1. \A p, q \in Owners : p # q /\ Active(containers[p]) /\ Active(containers[q])
                                  => containers[p].gpus \cap containers[q].gpus = {}
      BY DEF GpuExclusive
    <2>2. \A p, q \in Owners : p # q /\ Active(containers'[p]) /\ Active(containers'[q])
                                  => containers'[p].gpus \cap containers'[q].gpus = {}
      BY <1>1, <1>2, <1>3, <2>1, StaysExclusive
    <2> QED
      BY <2>2 DEF GpuExclusive
  <1> QED
    BY <1>4, <1>5, <1>6, <1>7

\* Every step of the agent preserves the invariant.
LEMMA NextIInv == IInv /\ [Next]_vars => IInv'
  <1> SUFFICES ASSUME IInv, [Next]_vars PROVE IInv'
    OBVIOUS
  <1>1. ASSUME NEW cmd \in Commands, NEW reply \in Reply, Perform(cmd, reply)
        PROVE  IInv'
    BY <1>1, PerformIInv
  <1>2. ASSUME NEW cmd \in Commands, NEW reply \in Reply, Refuse(cmd, reply)
        PROVE  IInv'
    BY <1>2 DEF Refuse, vars, IInv, TypeOK, WatermarkCovers, BoundParameters, GpuExclusive
  <1>3. ASSUME NEW o \in Owners, ContainerEvent(o)
        PROVE  IInv'
    BY <1>3, EventIInv
  <1>4. CASE UNCHANGED vars
    BY <1>4 DEF vars, IInv, TypeOK, WatermarkCovers, BoundParameters, GpuExclusive
  <1> QED
    BY <1>1, <1>2, <1>3, <1>4 DEF Next, Execute

\* The four invariants of the agent hold together in every reachable state.
THEOREM Invariants == Spec => []IInv
  BY InitIInv, NextIInv, PTL DEF Spec

\* Types, for every instance.
THEOREM TypeCorrect == Spec => []TypeOK
  <1>1. IInv => TypeOK
    BY DEF IInv
  <1> QED
    BY <1>1, Invariants, PTL

\* Whole-GPU exclusivity on the node (_assert_gpus_available): whatever commands arrive, in
\* whatever order and number, no GPU belongs to two active containers.
THEOREM ExclusiveGpus == Spec => []GpuExclusive
  <1>1. IInv => GpuExclusive
    BY DEF IInv
  <1> QED
    BY <1>1, Invariants, PTL

\* The recorded watermark covers everything that runs (bind_start).
THEOREM CoveredByWatermark == Spec => []WatermarkCovers
  <1>1. IInv => WatermarkCovers
    BY DEF IInv
  <1> QED
    BY <1>1, Invariants, PTL

\* A generation runs with the parameters it was bound to (bind_start).
THEOREM RunsAsBound == Spec => []BoundParameters
  <1>1. IInv => BoundParameters
    BY DEF IInv
  <1> QED
    BY <1>1, Invariants, PTL

-----------------------------------------------------------------------------
(***************************************************************************)
(* What a step never does.                                                 *)
(***************************************************************************)
\* The facts about one performed command that the action properties need, for its own owner.
LEMMA OneCommand ==
    ASSUME IInv, NEW cmd \in Commands, NEW reply, Perform(cmd, reply)
    PROVE  /\ \A p \in Owners \ {cmd.owner} : containers'[p] = containers[p]
           /\ \/ containers'[cmd.owner].gen = containers[cmd.owner].gen
              \/ ~Exists(containers'[cmd.owner])
              \/ /\ ~Active(containers[cmd.owner])
                 /\ containers'[cmd.owner].gen = cmd.gen
                 /\ generations'[cmd.owner] = cmd.gen
                 /\ containers[cmd.owner].gen < cmd.gen
  <1> DEFINE o == cmd.owner
  <1>1. Admit(cmd) /\ Shape(containers, cmd, containers')
    BY Performed DEF IInv
  <1>2. generations'[o] = cmd.gen
    BY <1>1, Admitted DEF IInv
  <1>3. o \in Owners /\ cmd.gen \in Nat \ {0}
    BY CommandTypes
  <1>4. \A p \in Owners \ {o} : containers'[p] = containers[p]
    BY <1>1 DEF Shape, Settled, Touches
  <1>5. ~Exists(Absent)
    BY DEF Exists, Absent
  <1>6. CASE Settled(containers, o, containers')
    BY <1>4, <1>5, <1>6 DEF Settled, Gone, Ended
  <1>7. CASE Launched(containers, cmd, containers'[o])
    <2>1. containers'[o].gen = cmd.gen
      BY <1>7 DEF Launched
    <2>2. ~Active(containers[o])
      BY <1>7 DEF Launched, Replaceable, Active, Exists, ActiveStatuses, TerminalStatuses
    <2>3. containers[o].gen < cmd.gen \/ containers[o].gen = cmd.gen
      <3>1. CASE Replaceable(containers[o], cmd.gen)
        BY <3>1 DEF Replaceable
      <3>2. CASE ~Exists(containers[o])
        <4>1. /\ containers[o].gen \in Nat /\ starts[o].gen \in Nat /\ generations[o] \in Nat
              /\ containers[o].gen <= starts[o].gen /\ starts[o].gen <= generations[o]
          BY <1>3 DEF IInv, TypeOK, WatermarkCovers, Container
        <4>2. generations[o] <= cmd.gen
          BY <1>1, Admitted DEF IInv
        <4> QED
          BY <1>3, <4>1, <4>2
      <3> QED
        BY <1>7, <3>1, <3>2 DEF Launched
    <2> QED
      BY <1>2, <1>4, <2>1, <2>2, <2>3
  <1> QED
    BY <1>1, <1>6, <1>7 DEF Shape

\* A container that evolves by itself keeps its generation as long as it exists.
LEMMA OneEvent ==
    ASSUME IInv, NEW o \in Owners, ContainerEvent(o)
    PROVE  \A p \in Owners : \/ containers'[p] = containers[p]
                             \/ ~Exists(containers'[p])
                             \/ containers'[p].gen = containers[p].gen
  <1>1. Touches(containers, o, containers') /\ Evolved(containers[o], containers'[o])
    BY EventShape DEF IInv
  <1> QED
    BY <1>1 DEF Touches, Evolved, Gone, Exists, Absent

\* A late command cannot revive an older generation: the watermark and the container's label
\* together admit only the newest one (execute, prepare_contract_start).
THEOREM OnlyTheNewestStarts == Spec => NewestStarts
  <1>1. IInv /\ [Next]_vars => [OnlyNewestStarts]_vars
    <2> SUFFICES ASSUME IInv, [Next]_vars PROVE OnlyNewestStarts \/ UNCHANGED vars
      OBVIOUS
    <2>1. ASSUME NEW cmd \in Commands, NEW reply \in Reply, Perform(cmd, reply)
          PROVE  OnlyNewestStarts
      BY <2>1, OneCommand, CommandTypes DEF OnlyNewestStarts
    <2>2. ASSUME NEW o \in Owners, ContainerEvent(o)
          PROVE  OnlyNewestStarts
      BY <2>2, OneEvent DEF OnlyNewestStarts
    <2> QED
      BY <2>1, <2>2 DEF Next, Execute, Refuse
  <1> QED
    BY <1>1, Invariants, PTL DEF Spec, NewestStarts

\* START never preempts (prepare_contract_start).
THEOREM StartNeverPreempts == Spec => NoPreemption
  <1> DEFINE Keeps == \A o \in Owners : Active(containers[o]) /\ Exists(containers'[o])
                                           => containers'[o].gen = containers[o].gen
  <1>1. IInv /\ [Next]_vars => [Keeps]_vars
    <2> SUFFICES ASSUME IInv, [Next]_vars PROVE Keeps \/ UNCHANGED vars
      OBVIOUS
    <2>1. ASSUME NEW cmd \in Commands, NEW reply \in Reply, Perform(cmd, reply)
          PROVE  Keeps
      BY <2>1, OneCommand, CommandTypes
    <2>2. ASSUME NEW o \in Owners, ContainerEvent(o)
          PROVE  Keeps
      BY <2>2, OneEvent
    <2> QED
      BY <2>1, <2>2 DEF Next, Execute, Refuse
  <1> QED
    BY <1>1, Invariants, PTL DEF Spec, NoPreemption

\* The evidence of success goes away only when a cleanup of its generation or the START of a
\* newer one asks for it; a STOP that comes too late leaves it (stop_contract_workload).
LEMMA SuccessKept ==
    ASSUME NEW cs \in [Owners -> Container], NEW cmd \in Command,
           cmd.owner \in Jobs, cs[cmd.owner].status = "exited0",
           NEW out \in DispatchOutcomes(cs, cmd), out.cs # cs
    PROVE  \/ cmd.action = "cleanup" /\ cmd.gen = cs[cmd.owner].gen
           \/ cmd.action = "start" /\ cmd.gen > cs[cmd.owner].gen
  <1> DEFINE o == cmd.owner
             c == cs[o]
  <1>1. /\ Exists(c) /\ ~Active(c) /\ c.status \in TerminalStatuses /\ o \notin Deployments
        /\ c.gen \in Nat /\ cmd.gen \in Nat /\ o \in Owners
    BY OwnersAssumption DEF Exists, Active, ActiveStatuses, TerminalStatuses, Container,
                            Command, Owners
  <1>2. \A r \in ResponseFromInfo(cs, o) : r.cs = cs
    BY <1>1 DEF ResponseFromInfo, Outcome
  <1>3. \A r : r = Outcome(cs, Rejected) \/ r = Outcome(cs, Unavailable)
               \/ r = Outcome(cs, Accepted("absent")) => r.cs = cs
    BY DEF Outcome
  <1>4. CASE cmd.action = "start"
    <2>1. CASE c.gen = cmd.gen
      <3>1. ~(c.gen < cmd.gen) /\ ~(c.gen > cmd.gen)
        BY <1>1, <2>1
      <3>2. ~Replaceable(c, cmd.gen)
        BY <3>1 DEF Replaceable
      <3>3. StartOutcomes(cs, cmd) = ResponseFromInfo(cs, o)
        BY <1>1, <2>1, <3>1, <3>2 DEF StartOutcomes
      <3> QED
        BY <1>2, <1>3, <1>4, <3>3 DEF DispatchOutcomes
    <2>2. CASE c.gen > cmd.gen
      <3>1. ~Replaceable(c, cmd.gen) /\ c.gen # cmd.gen
        BY <1>1, <2>2 DEF Replaceable
      <3>2. StartOutcomes(cs, cmd) = {Outcome(cs, Rejected)}
        BY <1>1, <2>2, <3>1 DEF StartOutcomes
      <3> QED
        BY <1>3, <1>4, <3>2 DEF DispatchOutcomes
    <2>3. CASE c.gen < cmd.gen
      BY <1>1, <1>4, <2>3
    <2> QED
      BY <1>1, <2>1, <2>2, <2>3
  <1>5. CASE cmd.action = "stop"
    <2>1. CASE c.gen = cmd.gen
      <3>1. StopOutcomes(cs, cmd) = Discard(cs, o)
        BY <1>1, <2>1 DEF StopOutcomes
      <3>2. Discard(cs, o) = ResponseFromInfo(cs, o)
        BY DEF Discard
      <3> QED
        BY <1>2, <1>3, <1>5, <3>1, <3>2 DEF DispatchOutcomes
    <2>2. CASE c.gen # cmd.gen
      <3>1. StopOutcomes(cs, cmd) = {Outcome(cs, Rejected)}
        BY <1>1, <2>2 DEF StopOutcomes
      <3> QED
        BY <1>3, <1>5, <3>1 DEF DispatchOutcomes
    <2> QED
      BY <2>1, <2>2
  <1>6. CASE cmd.action = "cleanup"
    <2>1. ASSUME c.gen # cmd.gen PROVE CleanupOutcomes(cs, cmd) = {Outcome(cs, Rejected)}
      BY <1>1, <2>1 DEF CleanupOutcomes
    <2> QED
      BY <1>3, <1>6, <2>1 DEF DispatchOutcomes
  <1>7. CASE cmd.action \notin {"start", "stop", "cleanup"}
    <2>1. \A r \in StatusOutcomes(cs, cmd) : r.cs = cs
      BY <1>1, <1>2, <1>3 DEF StatusOutcomes
    <2>2. out = Outcome(cs, Unavailable) \/ out \in StatusOutcomes(cs, cmd)
      BY <1>7 DEF DispatchOutcomes
    <2> QED
      BY <1>3, <2>1, <2>2
  <1> QED
    BY <1>4, <1>5, <1>6, <1>7

\* Success survives every STOP and STATUS.
THEOREM SuccessIsKept == Spec => SuccessSurvives
  <1> DEFINE Asked(j) == \E cmd \in Commands :
                /\ cmd.owner = j
                /\ cmd.gen >= generations[j]
                /\ \/ cmd.action = "cleanup" /\ cmd.gen = containers[j].gen
                   \/ cmd.action = "start" /\ cmd.gen > containers[j].gen
             Survives == \A j \in Jobs :
                containers[j].status = "exited0" /\ containers'[j] # containers[j] => Asked(j)
  <1>1. IInv /\ [Next]_vars => [Survives]_vars
    <2> SUFFICES ASSUME IInv, [Next]_vars PROVE Survives \/ UNCHANGED vars
      OBVIOUS
    <2>1. ASSUME NEW cmd \in Commands, NEW reply \in Reply, Perform(cmd, reply),
                 NEW j \in Jobs, containers[j].status = "exited0",
                 containers'[j] # containers[j]
          PROVE  Asked(j)
      <3>1. j \in Owners
        BY DEF Owners
      <3>2. cmd.owner = j
        BY <2>1, <3>1, OneCommand
      <3>3. PICK out \in DispatchOutcomes(containers, cmd) : containers' = out.cs
        BY <2>1 DEF Perform
      <3>4. containers \in [Owners -> Container] /\ cmd \in Command
        BY CommandTypes DEF IInv, TypeOK
      <3>5. \/ cmd.action = "cleanup" /\ cmd.gen = containers[j].gen
            \/ cmd.action = "start" /\ cmd.gen > containers[j].gen
        BY <2>1, <3>2, <3>3, <3>4, SuccessKept
      <3>6. cmd.gen >= generations[j]
        BY <2>1, <3>1, <3>2, Performed, Admitted, CommandTypes DEF IInv, TypeOK
      <3> QED
        BY <3>2, <3>5, <3>6
    <2>2. ASSUME NEW o \in Owners, ContainerEvent(o)
          PROVE  Survives
      <3>1. Touches(containers, o, containers') /\ containers[o].status \notin TerminalStatuses
        BY <2>2, EventShape DEF IInv
      <3> QED
        BY <3>1 DEF Touches, TerminalStatuses, Owners
    <2> QED
      BY <2>1, <2>2 DEF Next, Execute, Refuse
  <1> QED
    BY <1>1, Invariants, PTL DEF Spec, SuccessSurvives


-----------------------------------------------------------------------------
(***************************************************************************)
(* The containers are an allocation of whole GPUs.                         *)
(***************************************************************************)
\* In terms of GpuAllocation: giving back is a step or a stutter, taking is an acquisition.
LEMMA AllocationStep ==
    ASSUME NEW o \in Owners, Allocates(containers, containers', o)
    PROVE  [Allocation!Next]_Held
  <1>1. /\ Held = [p \in Owners |-> HeldByContainer(containers[p])]
        /\ Held' = [p \in Owners |-> HeldByContainer(containers'[p])]
    BY DEF Held
  <1>2. \A p \in Owners \ {o} : HeldByContainer(containers'[p]) = HeldByContainer(containers[p])
    BY DEF Allocates
  <1>3. CASE HeldByContainer(containers'[o]) = HeldByContainer(containers[o])
    BY <1>1, <1>2, <1>3
  <1>4. CASE HeldByContainer(containers'[o]) = {}
    <2>1. Held' = [p \in Owners |-> IF p \in {o} THEN {} ELSE Held[p]]
      BY <1>1, <1>2, <1>4
    <2> QED
      BY <2>1 DEF Allocation!GiveBack, Allocation!Next
  <1>5. CASE Takes(containers, containers', o)
    <2>1. Held' = [Held EXCEPT ![o] = Held'[o]]
      BY <1>1, <1>2
    <2>2. Allocation!Acquire(o)
      BY <1>1, <1>5, <2>1 DEF Allocation!Acquire, Allocation!Disjoint, Takes
    <2> QED
      BY <2>2 DEF Allocation!Next
  <1> QED
    BY <1>3, <1>4, <1>5 DEF Allocates, GivesBack

\* At first there is no container.
LEMMA NothingHeld == containers = [o \in Owners |-> Absent] => Allocation!Init
  <1>1. ~Active(Absent)
    BY DEF Active, Absent, ActiveStatuses
  <1> QED
    BY <1>1 DEF Allocation!Init, Held, HeldByContainer

\* Whatever commands arrive, late, repeated or out of order, and however containers end, the
\* containers are an allocation of whole GPUs (_assert_gpus_available, prepare_contract_start).
THEOREM AgentAllocatesWholeGpus == Spec => ImplementsAllocation
  <1>1. Init => Allocation!Init
    BY NothingHeld DEF Init
  <1>2. IInv /\ [Next]_vars => [Allocation!Next]_Held
    <2> SUFFICES ASSUME IInv, [Next]_vars PROVE [Allocation!Next]_Held
      OBVIOUS
    <2>1. ASSUME NEW cmd \in Commands, NEW reply \in Reply, Perform(cmd, reply)
          PROVE  [Allocation!Next]_Held
      <3>1. Shape(containers, cmd, containers') /\ containers \in [Owners -> Container]
        BY <2>1, Performed DEF IInv, TypeOK
      <3> QED
        BY <3>1, CommandTypes, ShapeAllocates, AllocationStep
    <2>2. ASSUME NEW o \in Owners, ContainerEvent(o)
          PROVE  [Allocation!Next]_Held
      BY <2>2, EventShape, EvolutionAllocates, AllocationStep DEF IInv
    <2>3. CASE UNCHANGED vars
      BY <2>3 DEF vars, Held
    <2> QED
      BY <2>1, <2>2, <2>3 DEF Next, Execute, Refuse
  <1> QED
    BY <1>1, <1>2, Invariants, PTL DEF Spec, ImplementsAllocation, Allocation!Spec
=============================================================================
