------------------------------ MODULE Platform ------------------------------
(***************************************************************************)
(* The control plane and the node agent.                                   *)
(*                                                                         *)
(* One reconciler runs in rounds: it polls or stops every active workload, *)
(* reaps expired leases of ended ones, then claims the head of the queue   *)
(* and starts it until the queue is empty or its head is blocked.  Clients *)
(* of the HTTP API change the same rows in between, some of them without   *)
(* a row lock.  Every call to the agent may be lost, answered too late, or *)
(* executed after its caller gave up on it.  The agent itself is the       *)
(* module AgentContract.                                                   *)
(***************************************************************************)
EXTENDS DockerRunner, GpuLeases, Workloads, Sequences

SequencesExt == INSTANCE SequencesExt

CONSTANTS Clients,       \* concurrent requests of the HTTP API
          Reconciler,    \* the reconciler, as a caller of the agent
          Groups,        \* the GPU sets a workload may ask for
          MaxVersion,    \* bound: state_version of a row
          MaxLate        \* bound: calls pending in the network without a caller

Evaluations == Jobs \ Trainings
Callers == Clients \cup {Reconciler}

ASSUME PlatformAssumption ==
    /\ Reconciler \notin Clients
    /\ Groups \subseteq (SUBSET Gpus) \ {{}}
    /\ MaxVersion \in Nat \ {0}
    /\ MaxLate \in Nat

VARIABLES rows,        \* owner -> its row in the database
          queue,       \* the owners with a queued_at, in its order
          leases,      \* the GPU lease table
          rec,         \* the reconciler: where its round is, and what is left of it
          api,         \* client -> the request it is serving
          calls,       \* caller -> its call to the agent
          late,        \* calls still in the network although their caller gave up
          generations, starts, containers  \* the agent

database == <<rows, queue, leases>>
agent == <<generations, starts, containers>>
vars == <<database, rec, api, calls, late, agent>>

AgentCommands == [action : Actions, owner : Owners, gen : 1..MaxVersion, gpus : Groups]
Agent == INSTANCE AgentContract WITH Commands <- AgentCommands

-----------------------------------------------------------------------------
(***************************************************************************)
(* Calls to the agent.                                                     *)
(***************************************************************************)
NoCall == [state |-> "none"]
Sent(cmd) == [state |-> "sent", cmd |-> cmd]
Replied(cmd, reply) == [state |-> "replied", cmd |-> cmd, reply |-> reply]

CommandFor(action, w) == [action |-> action, owner |-> w.owner, gen |-> w.gen, gpus |-> w.gpus]

AgentServes(c) ==
    /\ calls[c].state = "sent"
    /\ \E reply \in Reply :
          /\ Agent!Execute(calls[c].cmd, reply)
          /\ calls' = [calls EXCEPT ![c] = Replied(@.cmd, reply)]
    /\ UNCHANGED <<database, rec, api, late>>

AgentServesLate(cmd) ==
    /\ \E reply \in Reply : Agent!Execute(cmd, reply)
    /\ late' = late \ {cmd}
    /\ UNCHANGED <<database, rec, api, calls>>

\* The caller gets no answer it can trust: the request or the reply was lost, or the caller
\* timed out and the request is still on its way or waiting for the agent's lock.
CallFails(c) ==
    /\ \/ calls[c].state = "sent" /\ UNCHANGED late
       \/ /\ calls[c].state = "sent"
          /\ Cardinality(late) < MaxLate
          /\ late' = late \cup {calls[c].cmd}
       \/ calls[c].state = "replied" /\ calls[c].reply # Unavailable /\ UNCHANGED late
    /\ calls' = [calls EXCEPT ![c] = Replied(@.cmd, Unavailable)]
    /\ UNCHANGED <<database, rec, api, agent>>

-----------------------------------------------------------------------------
(***************************************************************************)
(* Database.                                                               *)
(***************************************************************************)
\* A DELETE request holds the lock of its row until it commits or gives up.
Locked(o) == \E c \in Clients : api[c].kind = "deleting" /\ api[c].owner = o

Queued(o) == \E i \in 1..Len(queue) : queue[i] = o
Without(o) ==
    IF Queued(o) THEN SequencesExt!RemoveAt(queue, CHOOSE i \in 1..Len(queue) : queue[i] = o)
                 ELSE queue
QueueAfter(o, queued) ==
    CASE queued = "set"   -> Append(Without(o), o)
      [] queued = "clear" -> Without(o)
      [] OTHER -> queue

\* One transaction that locks the row of o: write the change and release or renew the leases.
Write(o, change, newLeases) ==
    /\ rows' = [rows EXCEPT ![o] = change.row]
    /\ queue' = QueueAfter(o, change.queued)
    /\ leases' = newLeases

-----------------------------------------------------------------------------
(***************************************************************************)
(* Reconciler.                                                             *)
(***************************************************************************)
NoWork == [owner |-> "none"]
At(pc) == [pc |-> pc, todo |-> {}, stage |-> "none", w |-> NoWork]
Waiting(stage, w, todo) == [pc |-> "waiting", todo |-> todo, stage |-> stage, w |-> w]
Polling(todo) == [pc |-> "polling", todo |-> todo, stage |-> "none", w |-> NoWork]

Snapshot(o) == [owner |-> o, gen |-> RuntimeGeneration(rows[o]), gpus |-> rows[o].gpus,
                desired |-> rows[o].desired]

BeginRound ==
    /\ rec.pc = "idle"
    /\ rec' = Polling({Snapshot(o) : o \in {p \in Owners : IsActive(rows[p])}})
    /\ UNCHANGED <<database, api, calls, late, agent>>

Rank(w) == IF w.owner \in Deployments THEN 1 ELSE IF w.owner \in Trainings THEN 2 ELSE 3

\* A training job that is to be terminated is looked at before it is stopped.
Poll ==
    /\ rec.pc = "polling"
    /\ \E w \in rec.todo :
          /\ \A x \in rec.todo : Rank(w) <= Rank(x)
          /\ LET probe == w.owner \in Trainings /\ w.desired = "stop"
                 action == IF w.desired = "stop" /\ ~probe THEN "stop" ELSE "status"
             IN  /\ calls' = [calls EXCEPT ![Reconciler] = Sent(CommandFor(action, w))]
                 /\ rec' = Waiting(IF probe THEN "probe" ELSE "poll", w, rec.todo \ {w})
    /\ UNCHANGED <<database, api, late, agent>>

PollingDone ==
    /\ rec = Polling({})
    /\ rec' = At("reaping")
    /\ UNCHANGED <<database, api, calls, late, agent>>

\* _apply_observation.  The row may be gone or belong to another generation by now.
Apply(w, reply) ==
    LET o == w.owner
        renewed == IF reply.state \in Busy THEN Heartbeat(leases, o, w.gen) ELSE leases
    IN  IF ~Exist(rows[o]) \/ rows[o].rgen # w.gen
        THEN UNCHANGED database
        ELSE /\ ~Locked(o)
             /\ \E change \in IF o \in Deployments THEN {ObserveDeployment(rows[o], reply)}
                                                   ELSE ObserveJob(rows[o], reply) :
                   Write(o, change, IF change.release THEN Release(leases, o, w.gen) ELSE renewed)

\* An uncertain answer leaves the row and its leases as they are.
ObserveReply ==
    LET reply == calls[Reconciler].reply
        w == rec.w
        stopNow == /\ rec.stage = "probe" /\ reply.accepted /\ reply.state \in Busy
    IN  /\ rec.pc = "waiting" /\ rec.stage # "start"
        /\ calls[Reconciler].state = "replied"
        /\ IF reply = Unavailable THEN UNCHANGED database ELSE Apply(w, reply)
        /\ rec' = IF stopNow THEN Waiting("stop", w, rec.todo) ELSE Polling(rec.todo)
        /\ calls' = [calls EXCEPT ![Reconciler] =
                        IF stopNow THEN Sent(CommandFor("stop", w)) ELSE NoCall]
        /\ UNCHANGED <<api, late, agent>>

\* _reap_terminal_expired_leases
Reap ==
    LET expired == {l \in leases : l.expired}
        ended == {l \in expired : ~Exist(rows[l.owner]) \/ IsTerminal(rows[l.owner])}
    IN  /\ rec.pc = "reaping"
        /\ \A l \in expired : ~Locked(l.owner)
        /\ leases' = Reaped(leases, {<<l.owner, l.gen>> : l \in ended})
        /\ rec' = At("claiming")
        /\ UNCHANGED <<rows, queue, api, calls, late, agent>>

\* The head of the queue, across the three kinds of workloads.
Waits(o) == rows[o].actual = "queued" /\ rows[o].desired = "run"

\* Faulty variant of IsHead: anyone who waits may be claimed.
IsWaiting(o) == \E i \in 1..Len(queue) : queue[i] = o /\ Waits(o)

IsHead(o) == \E i \in 1..Len(queue) :
    /\ queue[i] = o /\ Waits(o)
    /\ \A k \in 1..(i - 1) : ~Waits(queue[k])

ClaimNothing ==
    /\ rec.pc = "claiming"
    /\ \A o \in Owners : ~Waits(o)
    /\ rec' = At("idle")
    /\ UNCHANGED <<database, api, calls, late, agent>>

\* A job whose inputs became invalid fails at once and makes room for the next one.
ClaimPreflightFails(o) ==
    /\ rec.pc = "claiming" /\ IsHead(o)
    /\ o \in Jobs
    /\ Write(o, Change([rows[o] EXCEPT !.actual = "failed", !.rgen = 0], "clear", FALSE), leases)
    /\ UNCHANGED <<rec, api, calls, late, agent>>

\* The head owns leases of an earlier run: LeaseInvariantError rolls the claim back and ends
\* the round.
ClaimRaises(o) ==
    /\ rec.pc = "claiming" /\ IsHead(o)
    /\ LeaseInvariantError(leases, o, rows[o].version, rows[o].gpus)
    /\ rec' = At("idle")
    /\ UNCHANGED <<database, api, calls, late, agent>>

\* Strict FIFO: a blocked head ends the round, nobody behind it is considered.
ClaimBlocked(o) ==
    /\ rec.pc = "claiming" /\ IsHead(o)
    /\ Blocked(leases, o, rows[o].gpus)
    /\ rows' = [rows EXCEPT ![o].rgen = 0]
    /\ rec' = At("idle")
    /\ UNCHANGED <<queue, leases, api, calls, late, agent>>

Claim(o) ==
    LET row == rows[o]
        w == [owner |-> o, gen |-> row.version, gpus |-> row.gpus, desired |-> row.desired]
    IN  /\ rec.pc = "claiming" /\ IsHead(o)
        /\ ~LeaseInvariantError(leases, o, row.version, row.gpus)
        /\ ~Blocked(leases, o, row.gpus)
        /\ Write(o, Change([row EXCEPT !.actual = "starting", !.rgen = row.version],
                           "clear", FALSE),
                 Acquired(leases, o, row.version, row.gpus))
        /\ calls' = [calls EXCEPT ![Reconciler] = Sent(CommandFor("start", w))]
        /\ rec' = Waiting("start", w, {})
        /\ UNCHANGED <<api, late, agent>>

\* The answer to a START: uncertain keeps the leases, a refusal fails the workload.
StartReply ==
    LET reply == calls[Reconciler].reply
        w == rec.w
        o == w.owner
    IN  /\ rec.pc = "waiting" /\ rec.stage = "start"
        /\ calls[Reconciler].state = "replied"
        /\ CASE reply = Unavailable -> UNCHANGED database
             [] reply.accepted -> Apply(w, reply)
             [] OTHER ->
                  IF ~Exist(rows[o]) \/ rows[o].rgen # w.gen
                  THEN UNCHANGED database
                  ELSE ~Locked(o) /\ Write(o, FailStart(rows[o]), Release(leases, o, w.gen))
        /\ calls' = [calls EXCEPT ![Reconciler] = NoCall]
        /\ rec' = At("claiming")
        /\ UNCHANGED <<api, late, agent>>

\* The round raises, or the process restarts, at any of its steps: whatever was under way is
\* forgotten.
RoundAborts ==
    /\ rec.pc # "idle"
    /\ rec' = At("idle")
    /\ calls' = [calls EXCEPT ![Reconciler] = NoCall]
    /\ \/ UNCHANGED late
       \/ /\ calls[Reconciler].state = "sent" /\ Cardinality(late) < MaxLate
          /\ late' = late \cup {calls[Reconciler].cmd}
    /\ UNCHANGED <<database, api, agent>>

-----------------------------------------------------------------------------
(***************************************************************************)
(* HTTP API.                                                               *)
(***************************************************************************)
NoRequest == [kind |-> "none"]

CreateWorkload(o, gpus) ==
    /\ ~Exist(rows[o]) /\ rows[o].version = 0
    /\ Write(o, Create(gpus), leases)
    /\ UNCHANGED <<rec, api, calls, late, agent>>

\* terminate_training_job locks the row for its whole transaction.
TerminateTraining(o) ==
    /\ o \in Trainings /\ Exist(rows[o]) /\ ~Locked(o)
    /\ ~TerminateIgnored(rows[o])
    /\ rows[o].version < MaxVersion
    /\ Write(o, EndJob(rows[o]), leases)
    /\ UNCHANGED <<rec, api, calls, late, agent>>

\* start, stop and edit of a deployment and the cancellation of an evaluation read the row,
\* decide, and commit later; nothing keeps the row as they read it.
Kinds(o) == IF o \in Deployments THEN {"start", "stop", "edit"}
            ELSE IF o \in Evaluations THEN {"cancel"} ELSE {}

ReadRow(c, o) ==
    /\ api[c] = NoRequest
    /\ Exist(rows[o]) /\ rows[o].version < MaxVersion
    /\ \E kind \in Kinds(o) :
          /\ kind = "edit" => Editable(rows[o])
          /\ api' = [api EXCEPT ![c] = [kind |-> kind, owner |-> o, read |-> rows[o],
                                        queued |-> Queued(o)]]
    /\ UNCHANGED <<database, rec, calls, late, agent>>

\* What the handler makes of the row it has read.
Written(request) ==
    CASE request.kind = "start"  -> {StartDeployment(request.read)}
      [] request.kind = "stop"   -> {StopDeployment(request.read)}
      [] request.kind = "edit"   -> {EditDeployment(request.read, gs) : gs \in Groups}
      [] request.kind = "cancel" -> {EndJob(request.read)}
      [] OTHER -> {}

CommitRow(c) ==
    /\ \E change \in Written(api[c]) :
          LET o == api[c].owner
              queued == IF change.queued = "clear" /\ ~api[c].queued THEN "keep"
                                                                    ELSE change.queued
          IN  /\ ~Locked(o)
              /\ IF Exist(rows[o])
                 THEN Write(o, Change(Merge(rows[o], api[c].read, change.row), queued, FALSE),
                            leases)
                 ELSE UNCHANGED database
    /\ api' = [api EXCEPT ![c] = NoRequest]
    /\ UNCHANGED <<rec, calls, late, agent>>

\* DELETE: lock the ended row, have the agent confirm that the container is absent, then drop
\* the row and every lease of the owner in one transaction.
BeginDelete(c, o) ==
    /\ api[c] = NoRequest
    /\ IsTerminal(rows[o]) /\ ~Locked(o)
    /\ api' = [api EXCEPT ![c] = [kind |-> "deleting", owner |-> o]]
    /\ calls' = [calls EXCEPT ![c] = Sent(CommandFor("cleanup", Snapshot(o)))]
    /\ UNCHANGED <<database, rec, late, agent>>

FinishDelete(c) ==
    /\ api[c].kind = "deleting" /\ calls[c].state = "replied"
    /\ LET o == api[c].owner
       IN  IF calls[c].reply = Accepted("absent")
           THEN Write(o, Change([NoRow EXCEPT !.version = MaxVersion], "clear", FALSE),
                      ReleaseAll(leases, o))
           ELSE UNCHANGED database
    /\ api' = [api EXCEPT ![c] = NoRequest]
    /\ calls' = [calls EXCEPT ![c] = NoCall]
    /\ UNCHANGED <<rec, late, agent>>

-----------------------------------------------------------------------------
(***************************************************************************)
(* Environment.                                                            *)
(***************************************************************************)
LeaseExpires(o) ==
    /\ \E l \in Owned(leases, o) : ~l.expired /\ leases' = Expired(leases, o, l.gen)
    /\ UNCHANGED <<rows, queue, rec, api, calls, late, agent>>

ContainerEvent(o) ==
    /\ Agent!ContainerEvent(o)
    /\ UNCHANGED <<database, rec, api, calls, late>>

Init ==
    /\ rows = [o \in Owners |-> NoRow]
    /\ queue = <<>>
    /\ leases = {}
    /\ rec = At("idle")
    /\ api = [c \in Clients |-> NoRequest]
    /\ calls = [c \in Callers |-> NoCall]
    /\ late = {}
    /\ Agent!Init

Reconcile ==
    \/ BeginRound \/ Poll \/ PollingDone \/ ObserveReply \/ Reap
    \/ ClaimNothing \/ StartReply
    \/ \E o \in Owners :
          ClaimPreflightFails(o) \/ ClaimRaises(o) \/ ClaimBlocked(o) \/ Claim(o)

Request ==
    \/ \E o \in Owners, gpus \in Groups : CreateWorkload(o, gpus)
    \/ \E o \in Owners : TerminateTraining(o)
    \/ \E c \in Clients, o \in Owners : ReadRow(c, o) \/ BeginDelete(c, o)
    \/ \E c \in Clients : CommitRow(c) \/ FinishDelete(c)

Next ==
    \/ Reconcile
    \/ Request
    \/ RoundAborts
    \/ \E c \in Callers : AgentServes(c) \/ CallFails(c)
    \/ \E cmd \in late : AgentServesLate(cmd)
    \/ \E o \in Owners : LeaseExpires(o) \/ ContainerEvent(o)

Spec == Init /\ [][Next]_vars
=============================================================================
