---------------------------- MODULE AgentContract ----------------------------
(***************************************************************************)
(* What the node agent promises to the control plane.                      *)
(*                                                                         *)
(* A signed command is either refused without any effect, because its      *)
(* generation is older than one the agent has seen or because it reuses a  *)
(* generation for other START parameters, or it raises the generation      *)
(* watermark of its owner and then has one of the outcomes of the runner.  *)
(* The agent serves one command at a time; here a command is one step.     *)
(* NodeAgent splits it at its persistence points and implements this       *)
(* module; Platform uses its actions as the remote side of the control     *)
(* plane.                                                                  *)
(***************************************************************************)
EXTENDS DockerRunner

CONSTANT Commands      \* the commands that may reach the agent, in any order and number

ASSUME CommandsAssumption == Commands \subseteq [action : Actions, owner : Owners,
                                                 gen : Nat \ {0}, gpus : SUBSET Gpus]

VARIABLES generations, \* owner -> highest generation observed, 0 when none
          starts,      \* owner -> the generation and parameters its START is bound to
          containers   \* owner -> its container, Absent when Docker has none

vars == <<generations, starts, containers>>

Unbound == [gen |-> 0, gpus |-> {}]
Larger(a, b) == IF a > b THEN a ELSE b

Init ==
    /\ generations = [o \in Owners |-> 0]
    /\ starts = [o \in Owners |-> Unbound]
    /\ containers = [o \in Owners |-> Absent]

\* Faulty variant of Stale: old generations are accepted.
NeverStale(cmd) == FALSE

Stale(cmd) == cmd.gen < generations[cmd.owner]

\* Faulty variant of Reused: the parameters of a known generation are not compared.
NeverReused(cmd) == FALSE

Reused(cmd) ==
    /\ cmd.action = "start"
    /\ starts[cmd.owner].gen = cmd.gen
    /\ starts[cmd.owner].gpus # cmd.gpus

\* bind_start and advance_generation: what is on disk before any effect.
Admit(cmd) ==
    /\ ~Stale(cmd)
    /\ ~Reused(cmd)
    /\ generations' = [generations EXCEPT ![cmd.owner] = Larger(@, cmd.gen)]
    /\ starts' = IF cmd.action = "start"
                 THEN [starts EXCEPT ![cmd.owner] = [gen |-> cmd.gen, gpus |-> cmd.gpus]]
                 ELSE starts

Refuse(cmd, reply) ==
    /\ Stale(cmd) \/ Reused(cmd)
    /\ reply = Rejected
    /\ UNCHANGED vars

Perform(cmd, reply) ==
    /\ Admit(cmd)
    /\ \E out \in DispatchOutcomes(containers, cmd) :
          /\ containers' = out.cs
          /\ reply = out.reply

Execute(cmd, reply) == Refuse(cmd, reply) \/ Perform(cmd, reply)

ContainerEvent(o) ==
    /\ \E s \in Progress(o, containers[o]) : containers' = Evolve(containers, o, s)
    /\ UNCHANGED <<generations, starts>>

Next ==
    \/ \E cmd \in Commands, reply \in Reply : Execute(cmd, reply)
    \/ \E o \in Owners : ContainerEvent(o)

Spec == Init /\ [][Next]_vars

-----------------------------------------------------------------------------
(***************************************************************************)
(* Properties                                                              *)
(***************************************************************************)
TypeOK ==
    /\ generations \in [Owners -> Nat]
    /\ starts \in [Owners -> [gen : Nat, gpus : SUBSET Gpus]]
    /\ containers \in [Owners -> Container]

\* Whole-GPU exclusivity on the node (_assert_gpus_available): no GPU is assigned to two
\* active containers, whatever commands arrive, late, repeated or out of order.
GpuExclusive ==
    \A o, p \in Owners :
        o # p /\ Active(containers[o]) /\ Active(containers[p])
            => containers[o].gpus \cap containers[p].gpus = {}

\* The watermark covers everything that runs (bind_start before _dispatch): a container's
\* generation was bound by a START and recorded, so a command older than the container is
\* always recognised as stale.
WatermarkCovers ==
    \A o \in Owners :
        /\ starts[o].gen <= generations[o]
        /\ containers[o].gen <= starts[o].gen
        /\ Exists(containers[o]) => containers[o].gen >= 1

\* A generation runs with the parameters it was bound to (bind_start): as long as the
\* container is of the bound generation, its GPUs are the bound ones.
BoundParameters ==
    \A o \in Owners :
        Exists(containers[o]) /\ containers[o].gen = starts[o].gen
            => containers[o].gpus = starts[o].gpus

\* A late command cannot revive an older generation: when an owner gets a new container, or
\* one of another generation, it is of the highest generation that was ever observed.
OnlyNewestStarts ==
    \A o \in Owners :
        Exists(containers'[o]) /\ containers'[o].gen # containers[o].gen
            => containers'[o].gen = generations'[o] /\ containers[o].gen < generations'[o]
NewestStarts == [][OnlyNewestStarts]_vars

\* START never preempts (prepare_contract_start): an active container is never replaced by
\* one of another generation; it has to be stopped and found absent first.
NoPreemption == [][\A o \in Owners :
    Active(containers[o]) /\ Exists(containers'[o]) => containers'[o].gen = containers[o].gen]_vars

\* STOP racing with a natural end (stop_contract_workload): the container of a job that
\* exited with 0 is evidence of success; only an explicit cleanup of its generation or the
\* START of a newer one discards it, and never a STOP or a STATUS.
SuccessSurvives == [][\A j \in Jobs :
    containers[j].status = "exited0" /\ containers'[j] # containers[j]
        => \E cmd \in Commands :
              /\ cmd.owner = j
              /\ cmd.gen >= generations[j]
              /\ \/ cmd.action = "cleanup" /\ cmd.gen = containers[j].gen
                 \/ cmd.action = "start" /\ cmd.gen > containers[j].gen]_vars
=============================================================================
