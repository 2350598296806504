-------------------------- MODULE NodeAgentProofs ---------------------------
(***************************************************************************)
(* Proofs about the node agent's command service, for any owners, GPUs,    *)
(* requests and sizes of the cache of answers: splitting a command at its  *)
(* writes and crashing anywhere implements the contract, a given answer    *)
(* is on disk, and the label of a container never goes back.  Behind the   *)
(* signature check, for all clocks and windows, all of this stays true, a  *)
(* process executes a request once, and a refusal that a client may act    *)
(* upon is true.                                                           *)
(***************************************************************************)
EXTENDS SignedCommands, DockerRunnerProofs, SequenceTheorems

\* The parts of a request.
LEMMA RequestTypes ==
    ASSUME NEW r \in Requests
    PROVE  /\ r.id \in Ids /\ r.cmd \in Commands /\ r.cmd \in Command
           /\ r.cmd.owner \in Owners /\ r.cmd.gen \in Nat \ {0} /\ r.cmd.gpus \in SUBSET Gpus
<1>1. r \in [id : Ids, cmd : [action : Actions, owner : Owners, gen : Nat \ {0}, gpus : SUBSET Gpus]]
  BY RequestsAssumption
<1>2. r.cmd \in [action : Actions, owner : Owners, gen : Nat \ {0}, gpus : SUBSET Gpus]
  BY <1>1
<1> QED
  BY <1>2 DEF Ids, Commands, Command

\* An answer to a request.
LEMMA EntryTypes ==
    ASSUME NEW r \in Requests, NEW reply \in Reply
    PROVE  /\ Entry(r, reply) \in Entries
           /\ Entry(r, reply).id = r.id /\ Entry(r, reply).reply = reply
           /\ Entry(r, reply) # NoAnswer
BY RequestTypes DEF Entry, Entries, NoAnswer

\* The replies that the service gives by itself, neither of which a client may act on.
LEMMA ServiceReplies == /\ Rejected \in Reply /\ ~Rejected.accepted
                        /\ Unavailable \in Reply /\ ~Unavailable.accepted
BY DEF Rejected, Unavailable, Reply

-----------------------------------------------------------------------------
(***************************************************************************)
(* The cache of answers.                                                   *)
(***************************************************************************)
\* put_request keeps the bound of the cache, and the newest answer.
LEMMA CacheNewest ==
    ASSUME NEW q \in Seq(Entries), Len(q) <= MaxCached, NEW e \in Entries
    PROVE  /\ Evicted(Append(q, e)) \in Seq(Entries)
           /\ Len(Evicted(Append(q, e))) <= MaxCached
           /\ e \in Cached(Evicted(Append(q, e)))
<1> DEFINE app == Append(q, e)
<1>1. app \in Seq(Entries) /\ Len(app) = Len(q) + 1 /\ app[Len(app)] = e
  BY AppendProperties
<1>2. MaxCached \in Nat \ {0} /\ Len(q) \in Nat
  BY RequestsAssumption, LenProperties
<1>3. CASE Len(app) > MaxCached
  <2>1. /\ Tail(app) \in Seq(Entries) /\ Len(Tail(app)) = Len(q)
        /\ Tail(app)[Len(q)] = app[Len(q) + 1]
    BY <1>1, <1>2, <1>3, HeadTailProperties
  <2>2. Evicted(app) = Tail(app)
    BY <1>3 DEF Evicted
  <2>3. e \in Cached(Tail(app))
    BY <1>1, <1>2, <1>3, <2>1 DEF Cached
  <2> QED
    BY <1>2, <2>1, <2>2, <2>3
<1>4. CASE ~(Len(app) > MaxCached)
  <2>1. Evicted(app) = app
    BY <1>4 DEF Evicted
  <2>2. e \in Cached(app)
    BY <1>1, <1>2 DEF Cached
  <2> QED
    BY <1>1, <1>2, <1>4, <2>1, <2>2
<1> QED
  BY <1>3, <1>4

\* A cache that is read from the file has the same answers, in another order.
LEMMA CacheReordered ==
    ASSUME NEW q \in Seq(Entries), NEW t \in Reordered(q)
    PROVE  t \in Seq(Entries) /\ Len(t) = Len(q) /\ Cached(t) = Cached(q)
<1>1. t \in [1..Len(q) -> Cached(q)] /\ Cached(t) = Cached(q) /\ Len(q) \in Nat
  BY LenProperties DEF Reordered
<1>2. \A e \in Cached(q) : e \in Entries
  BY ElementOfSeq DEF Cached
<1>3. t \in [1..Len(q) -> Entries]
  BY <1>1, <1>2
<1> QED
  BY <1>1, <1>3, SeqDef, LenProperties

-----------------------------------------------------------------------------
(***************************************************************************)
(* The invariant.  A command that waits for its dispatch has been          *)
(* admitted: the watermark and, for a START, its parameters are recorded.  *)
(* As long as every write has succeeded the file says what memory says, so *)
(* that a restart changes nothing.                                         *)
(***************************************************************************)
Admitted(cmd) ==
    /\ generations[cmd.owner] = cmd.gen
    /\ cmd.action = "start" =>
          starts[cmd.owner].gen = cmd.gen /\ starts[cmd.owner].gpus = cmd.gpus

AdmittedFirst == current.phase = "dispatch" => Admitted(current.req.cmd)

Covered ==
    \A o \in Owners : /\ starts[o].gen <= generations[o]
                      /\ disk.starts[o].gen <= disk.generations[o]

FileIsMemory ==
    persistFailures = 0 =>
        /\ disk.generations = generations /\ disk.starts = starts
        /\ Cached(disk.requests) = Cached(requests)

AgentInv == TypeOK /\ AdmittedFirst /\ Covered /\ FileIsMemory /\ AnswersAreDurable

\* Everything the command service keeps, when a step leaves memory and disk alone.
LEMMA MemoryKept ==
    ASSUME AgentInv, UNCHANGED <<memory, disk, persistFailures>>,
           containers' \in [Owners -> Container],
           current' \in {Idle} \cup Phases, AdmittedFirst',
           answer' \in {NoAnswer} \cup Entries,
           answer' = NoAnswer \/ answer' = answer \/ ~answer'.reply.accepted
             \/ \E e \in Cached(requests) : e.id = answer'.id /\ e.reply = answer'.reply
    PROVE  AgentInv'
<1>1. TypeOK' /\ Covered' /\ FileIsMemory'
  BY DEF AgentInv, TypeOK, Covered, FileIsMemory, memory
<1>2. AnswersAreDurable'
  BY DEF AgentInv, FileIsMemory, AnswersAreDurable, memory
<1> QED
  BY <1>1, <1>2 DEF AgentInv

\* Refusals and answers from the cache change nothing but the answer.
LEMMA RefuseInv ==
    ASSUME AgentInv, NEW r \in Requests, RefuseStale(r) \/ AnswerFromCache(r) \/ RefuseReused(r)
    PROVE  AgentInv'
<1>1. /\ UNCHANGED <<memory, disk, persistFailures>> /\ containers' = containers
      /\ containers \in [Owners -> Container]
  BY DEF RefuseStale, AnswerFromCache, RefuseReused, AgentInv, TypeOK
<1>2. CASE RefuseStale(r)
  <2>1. answer' = Entry(r, Rejected) /\ current' = Idle
    BY <1>2 DEF RefuseStale, Return
  <2> QED
    BY <1>1, <2>1, EntryTypes, ServiceReplies, MemoryKept DEF AdmittedFirst, Idle
<1>3. CASE AnswerFromCache(r)
  <2>1. PICK e \in Cached(requests) : e.id = r.id /\ Return(r, IF e.cmd = r.cmd THEN e.reply ELSE Rejected)
    BY <1>3 DEF AnswerFromCache
  <2>2. e \in Entries
    BY ElementOfSeq DEF AgentInv, TypeOK, Cached
  <2>3. PICK reply \in Reply : /\ answer' = Entry(r, reply)
                               /\ reply = e.reply \/ reply = Rejected
    BY <2>1, <2>2, ServiceReplies DEF Return, Entries
  <2>4. current' = Idle
    BY <2>1 DEF Return
  <2> QED
    BY <1>1, <2>1, <2>3, <2>4, EntryTypes, ServiceReplies, MemoryKept DEF AdmittedFirst, Idle
<1>4. CASE RefuseReused(r)
  <2>1. answer' = NoAnswer /\ current' = [phase |-> "record", req |-> r, reply |-> Rejected]
    BY <1>4 DEF RefuseReused, Continue
  <2> QED
    BY <1>1, <2>1, ServiceReplies, MemoryKept DEF AdmittedFirst, Phases
<1> QED
  BY <1>2, <1>3, <1>4
-----------------------------------------------------------------------------
(***************************************************************************)
(* A command that is admitted, dispatched and recorded.                    *)
(***************************************************************************)
\* bind_start and advance_generation write down the generation and the parameters, for this
\* owner only.
LEMMA AdmitWrites ==
    ASSUME AgentInv, NEW r \in Requests, Admit(r)
    PROVE  /\ Contract!Admit(r.cmd)
           /\ generations' = [generations EXCEPT ![r.cmd.owner] = r.cmd.gen]
           /\ starts' \in [Owners -> [gen : Nat, gpus : SUBSET Gpus]]
           /\ \A o \in Owners \ {r.cmd.owner} : starts'[o] = starts[o]
           /\ starts'[r.cmd.owner].gen <= r.cmd.gen
           /\ Admitted(r.cmd)'
<1> DEFINE o == r.cmd.owner
<1>1. /\ o \in Owners /\ r.cmd.gen \in Nat /\ r.cmd.gpus \in SUBSET Gpus /\ generations[o] \in Nat
      /\ generations \in [Owners -> Nat]
      /\ starts \in [Owners -> [gen : Nat, gpus : SUBSET Gpus]]
      /\ starts[o].gen <= generations[o]
  BY RequestTypes DEF AgentInv, TypeOK, Covered
<1>2. Contract!Admit(r.cmd) /\ generations[o] <= r.cmd.gen
  BY <1>1 DEF Admit, Fresh
<1>3. Contract!Larger(generations[o], r.cmd.gen) = r.cmd.gen
  BY <1>1, <1>2 DEF Contract!Larger
<1>4. generations' = [generations EXCEPT ![o] = r.cmd.gen]
  BY <1>2, <1>3 DEF Contract!Admit
<1>5. CASE r.cmd.action = "start"
  <2>1. starts' = [starts EXCEPT ![o] = [gen |-> r.cmd.gen, gpus |-> r.cmd.gpus]]
    BY <1>2, <1>5 DEF Contract!Admit
  <2> QED
    BY <1>1, <1>2, <1>4, <2>1 DEF Admitted
<1>6. CASE r.cmd.action # "start"
  <2>1. starts' = starts
    BY <1>2, <1>6 DEF Contract!Admit
  <2> QED
    BY <1>1, <1>2, <1>4, <1>6, <2>1 DEF Admitted
<1> QED
  BY <1>5, <1>6

\* A command the agent knows already is dispatched without a write: there is nothing to write.
LEMMA AdmitCases ==
    ASSUME AgentInv, NEW r \in Requests, Admit(r)
    PROVE  /\ UNCHANGED <<requests, containers>>
           /\ \/ /\ UNCHANGED <<generations, starts, disk, persistFailures>>
                 /\ Continue(r, "dispatch", Unavailable)
              \/ Persisted /\ Continue(r, "dispatch", Unavailable)
              \/ PersistFails /\ Return(r, Unavailable)
<1> DEFINE o == r.cmd.owner
           known == \/ r.cmd.action # "start" /\ r.cmd.gen <= generations[o]
                    \/ /\ r.cmd.action = "start"
                       /\ starts[o].gen = r.cmd.gen
                       /\ r.cmd.gen <= generations[o]
<1>1. /\ o \in Owners /\ r.cmd.gen \in Nat /\ generations[o] \in Nat /\ generations[o] <= r.cmd.gen
      /\ generations \in [Owners -> Nat]
      /\ starts \in [Owners -> [gen : Nat, gpus : SUBSET Gpus]]
  BY RequestTypes DEF AgentInv, TypeOK, Admit, Fresh
<1>2. ASSUME known PROVE generations' = generations /\ starts' = starts
  <2>1. generations' = generations
    BY <1>1, <1>2, AdmitWrites
  <2>2. CASE r.cmd.action = "start"
    <3>1. starts[o].gpus = r.cmd.gpus /\ starts[o].gen = r.cmd.gen
      BY <1>2, <2>2, AdmitWrites DEF Contract!Admit, Contract!Reused
    <3>2. starts[o] = [gen |-> r.cmd.gen, gpus |-> r.cmd.gpus]
      BY <1>1, <3>1
    <3>3. starts' = [starts EXCEPT ![o] = [gen |-> r.cmd.gen, gpus |-> r.cmd.gpus]]
      BY <2>2, AdmitWrites DEF Contract!Admit
    <3> QED
      BY <1>1, <2>1, <3>2, <3>3
  <2>3. CASE r.cmd.action # "start"
    BY <2>1, <2>3, AdmitWrites DEF Contract!Admit
  <2> QED
    BY <2>2, <2>3
<1>3. /\ UNCHANGED <<requests, containers>>
      /\ \/ known /\ Continue(r, "dispatch", Unavailable) /\ UNCHANGED <<disk, persistFailures>>
         \/ ~known /\ Persisted /\ Continue(r, "dispatch", Unavailable)
         \/ ~known /\ PersistFails /\ Return(r, Unavailable)
  BY DEF Admit
<1> HIDE DEF known
<1> QED
  BY <1>2, <1>3

\* The file after a write, and after one that failed.
LEMMA WriteOutcomes ==
    ASSUME AgentInv, Persisted \/ PersistFails
    PROVE  /\ persistFailures' \in 0..MaxPersistFailures
           /\ \/ /\ persistFailures' = persistFailures
                 /\ disk'.generations = generations' /\ disk'.starts = starts'
                 /\ disk'.requests = requests'
              \/ persistFailures' # 0 /\ disk' = disk
<1>1. persistFailures \in 0..MaxPersistFailures /\ MaxPersistFailures \in Nat
  BY RequestsAssumption DEF AgentInv, TypeOK
<1> QED
  BY <1>1 DEF Persisted, PersistFails, Image

\* Memory and the file, whether or not the write succeeds.
LEMMA AdmitInv ==
    ASSUME AgentInv, NEW r \in Requests, Admit(r)
    PROVE  AgentInv'
<1> DEFINE o == r.cmd.owner
<1>1. /\ generations' = [generations EXCEPT ![o] = r.cmd.gen]
      /\ starts' \in [Owners -> [gen : Nat, gpus : SUBSET Gpus]]
      /\ \A p \in Owners \ {o} : starts'[p] = starts[p]
      /\ starts'[o].gen <= r.cmd.gen
      /\ Admitted(r.cmd)'
  BY AdmitWrites
<1>2. UNCHANGED <<requests, containers>> /\ o \in Owners /\ r.cmd.gen \in Nat
  BY AdmitCases, RequestTypes
<1>3. /\ generations' \in [Owners -> Nat]
      /\ \A p \in Owners : starts'[p].gen <= generations'[p]
  BY <1>1, <1>2 DEF AgentInv, TypeOK, Covered
<1>4. /\ \/ UNCHANGED <<generations, starts, disk, persistFailures>>
         \/ Persisted \/ PersistFails
      /\ \/ current' = [phase |-> "dispatch", req |-> r, reply |-> Unavailable] /\ answer' = NoAnswer
         \/ current' = Idle /\ answer' = Entry(r, Unavailable)
  BY AdmitCases DEF Continue, Return
<1>5. TypeOK'
  <2>1. current' \in {Idle} \cup Phases /\ answer' \in {NoAnswer} \cup Entries
    BY <1>4, ServiceReplies, EntryTypes DEF Phases
  <2>2. CASE UNCHANGED <<generations, starts, disk, persistFailures>>
    BY <1>2, <2>1, <2>2 DEF AgentInv, TypeOK
  <2>3. CASE Persisted \/ PersistFails
    BY <1>1, <1>2, <1>3, <2>1, <2>3, WriteOutcomes DEF AgentInv, TypeOK
  <2> QED
    BY <1>4, <2>2, <2>3
<1>6. AdmittedFirst'
  BY <1>1, <1>4 DEF AdmittedFirst, Idle
<1>7. Covered' /\ FileIsMemory'
  <2>1. CASE UNCHANGED <<generations, starts, disk, persistFailures>>
    BY <1>2, <2>1 DEF AgentInv, Covered, FileIsMemory
  <2>2. CASE Persisted \/ PersistFails
    BY <1>2, <1>3, <2>2, WriteOutcomes DEF AgentInv, Covered, FileIsMemory
  <2> QED
    BY <1>4, <2>1, <2>2
<1>8. AnswersAreDurable'
  BY <1>4, EntryTypes, ServiceReplies DEF AnswersAreDurable
<1> QED
  BY <1>5, <1>6, <1>7, <1>8 DEF AgentInv

\* What the dispatch finds: a request whose command has been admitted.
LEMMA DispatchStep ==
    ASSUME AgentInv, Dispatch
    PROVE  /\ current \in Phases /\ current.req \in Requests /\ Admitted(current.req.cmd)
           /\ UNCHANGED <<memory, disk, persistFailures>>
           /\ \E out \in DispatchOutcomes(containers, current.req.cmd) :
                 /\ containers' = out.cs /\ out.reply \in Reply
                 /\ \/ out.reply = Unavailable /\ Return(current.req, Unavailable)
                    \/ Continue(current.req, "record", out.reply)
<1>1. current \in Phases /\ current.req \in Requests
  BY DEF Dispatch, AgentInv, TypeOK, Idle, Phases
<1> QED
  BY <1>1, DispatchReplies DEF Dispatch, AgentInv, AdmittedFirst

\* The effect changes the containers only, and keeps their type.
LEMMA DispatchInv ==
    ASSUME AgentInv, Dispatch
    PROVE  AgentInv'
<1>1. PICK out \in DispatchOutcomes(containers, current.req.cmd) :
         /\ containers' = out.cs /\ out.reply \in Reply
         /\ \/ out.reply = Unavailable /\ Return(current.req, Unavailable)
            \/ Continue(current.req, "record", out.reply)
  BY DispatchStep
<1>2. current.req \in Requests /\ UNCHANGED <<memory, disk, persistFailures>>
  BY DispatchStep
<1>3. containers' \in [Owners -> Container]
  <2>1. containers \in [Owners -> Container] /\ current.req.cmd \in Command
    BY <1>2, RequestTypes DEF AgentInv, TypeOK
  <2>2. Shape(containers, current.req.cmd, containers')
    BY <1>1, <2>1, DispatchShape
  <2> QED
    BY <2>2 DEF Shape, Settled, Touches
<1>4. \/ current' = [phase |-> "record", req |-> current.req, reply |-> out.reply]
          /\ answer' = NoAnswer
      \/ current' = Idle /\ answer' = Entry(current.req, Unavailable)
  BY <1>1 DEF Return, Continue
<1>5. /\ current' \in {Idle} \cup Phases /\ answer' \in {NoAnswer} \cup Entries
      /\ AdmittedFirst'
      /\ answer' = NoAnswer \/ ~answer'.reply.accepted
  BY <1>1, <1>2, <1>4, ServiceReplies, EntryTypes DEF Phases, AdmittedFirst, Idle
<1> QED
  BY <1>2, <1>3, <1>5, MemoryKept

\* The answer is on disk before it is returned, and the newest answer is never evicted.
LEMMA RecordInv ==
    ASSUME AgentInv, Record
    PROVE  AgentInv'
<1> DEFINE entry == Entry(current.req, current.reply)
<1>1. current.req \in Requests /\ current.reply \in Reply
  BY DEF Record, AgentInv, TypeOK, Idle, Phases
<1>2. /\ UNCHANGED <<generations, starts, containers>>
      /\ Persisted \/ PersistFails
      /\ \/ answer' = entry /\ disk'.requests = requests'
         \/ answer' = Entry(current.req, Unavailable)
      /\ current' = Idle
  BY DEF Record, Persisted, Return, Image
<1>3. entry \in Entries /\ entry.id = current.req.id /\ entry.reply = current.reply
  BY <1>1, EntryTypes
<1>4. requests' \in Seq(Entries) /\ Len(requests') <= MaxCached /\ entry \in Cached(requests')
  BY <1>3, CacheNewest DEF Record, AgentInv, TypeOK
<1> HIDE DEF entry
<1>5. TypeOK'
  BY <1>1, <1>2, <1>3, <1>4, EntryTypes, ServiceReplies, WriteOutcomes DEF AgentInv, TypeOK
<1>6. AdmittedFirst' /\ Covered' /\ FileIsMemory'
  BY <1>2, WriteOutcomes DEF AgentInv, AdmittedFirst, Covered, FileIsMemory, Idle
<1>7. AnswersAreDurable'
  BY <1>1, <1>2, <1>3, <1>4, EntryTypes, ServiceReplies DEF AnswersAreDurable
<1> QED
  BY <1>5, <1>6, <1>7 DEF AgentInv

-----------------------------------------------------------------------------
(***************************************************************************)
(* Restarts and containers.                                                *)
(***************************************************************************)
\* What is restored from the file has its type and is covered by the watermark.
LEMMA RestartInv ==
    ASSUME AgentInv, Restart
    PROVE  /\ AgentInv'
           /\ persistFailures = 0 => UNCHANGED <<generations, starts, containers>>
<1>1. \A o \in Owners : /\ disk.generations[o] \in Nat /\ disk.starts[o].gen \in Nat
                        /\ disk.starts[o].gen <= disk.generations[o]
  BY DEF AgentInv, TypeOK, Covered
<1>2. \A o \in Owners : Contract!Larger(disk.generations[o], disk.starts[o].gen) = disk.generations[o]
  BY <1>1 DEF Contract!Larger
<1>3. generations' = disk.generations
  BY <1>2 DEF Restart, Restored, AgentInv, TypeOK
<1>4. /\ requests' \in Seq(Entries) /\ Len(requests') <= MaxCached
      /\ Cached(requests') = Cached(disk.requests)
  BY CacheReordered DEF Restart, AgentInv, TypeOK
<1>5. /\ starts' = disk.starts /\ UNCHANGED <<disk, containers, persistFailures>>
      /\ current' = Idle /\ answer' = NoAnswer
  BY DEF Restart
<1>6. TypeOK'
  BY <1>3, <1>4, <1>5 DEF AgentInv, TypeOK
<1>7. AdmittedFirst' /\ Covered' /\ FileIsMemory' /\ AnswersAreDurable'
  BY <1>1, <1>3, <1>4, <1>5 DEF AdmittedFirst, Covered, FileIsMemory, AnswersAreDurable, Idle
<1> QED
  BY <1>3, <1>5, <1>6, <1>7 DEF AgentInv, FileIsMemory

\* What a container does by itself.
LEMMA EventInv ==
    ASSUME AgentInv, NEW o \in Owners, ContainerEvent(o)
    PROVE  AgentInv' /\ Touches(containers, o, containers') /\ Evolved(containers[o], containers'[o])
<1>1. PICK s \in Progress(o, containers[o]) : containers' = Evolve(containers, o, s)
  BY DEF ContainerEvent
<1>2. containers \in [Owners -> Container]
  BY DEF AgentInv, TypeOK
<1>3. Touches(containers, o, containers') /\ Evolved(containers[o], containers'[o])
  BY <1>1, <1>2, ProgressShape
<1>4. UNCHANGED <<memory, disk, current, answer, persistFailures>>
  BY DEF ContainerEvent
<1>5. containers' \in [Owners -> Container] /\ AdmittedFirst'
  BY <1>3, <1>4 DEF Touches, AgentInv, AdmittedFirst, Admitted, memory
<1> QED
  BY <1>3, <1>4, <1>5, MemoryKept DEF AgentInv, TypeOK

-----------------------------------------------------------------------------
(***************************************************************************)
(* The operators of the runner are the same in the contract.               *)
(***************************************************************************)
\* Constants of the runner, seen through the contract.
LEMMA SameConstants ==
    /\ Contract!Owners = Owners
    /\ Contract!ActiveStatuses = ActiveStatuses
    /\ Contract!TerminalStatuses = TerminalStatuses
    /\ Contract!Absent = Absent
    /\ Contract!Rejected = Rejected
    /\ Contract!Unavailable = Unavailable
    /\ (\A s : Contract!Accepted(s) = Accepted(s))
    /\ (\A cs, r : Contract!Outcome(cs, r) = Outcome(cs, r))
    /\ (\A c : Contract!Exists(c) = Exists(c))
    /\ Contract!Statuses = Statuses
    /\ Contract!Reply = Reply
  BY DEF Contract!Owners, Owners, Contract!ActiveStatuses, ActiveStatuses,
     Contract!TerminalStatuses, TerminalStatuses, Contract!Absent, Absent, Contract!Rejected,
     Rejected, Contract!Unavailable, Unavailable, Contract!Accepted, Accepted, Contract!Outcome,
     Outcome, Contract!Exists, Exists, Contract!Statuses, Statuses, Contract!Reply, Reply

\* Operations on one container.
LEMMA SameContainers ==
    /\ (\A cs, o, s : Contract!Set(cs, o, s) = Set(cs, o, s))
    /\ (\A cs, o : Contract!Remove(cs, o) = Remove(cs, o))
    /\ (\A cs, cmd, s : Contract!Created(cs, cmd, s) = Created(cs, cmd, s))
    /\ (\A c : Contract!Active(c) = Active(c))
    /\ (\A o, c : Contract!StateFromInfo(o, c) = StateFromInfo(o, c))
    /\ (\A status : Contract!AfterStop(status) = AfterStop(status))
    /\ (\A c, gen : Contract!Replaceable(c, gen) = Replaceable(c, gen))
  BY SameConstants DEF Contract!Set, Set, Contract!Remove, Remove, Contract!Created, Created,
     Contract!Active, Active, Contract!StateFromInfo, StateFromInfo, Contract!AfterStop, AfterStop,
     Contract!Replaceable, Replaceable

\* The GPUs of the others.
LEMMA SameGpus ==
    \A cs, o : Contract!GpusOfOthers(cs, o) = GpusOfOthers(cs, o)
  BY SameConstants, SameContainers DEF Contract!GpusOfOthers, GpusOfOthers

\* Removals.
LEMMA SameRemoval ==
    /\ (\A cs, o : Contract!QuiesceFailedInference(cs, o) = QuiesceFailedInference(cs, o))
    /\ (\A cs, o : Contract!RemoveContainer(cs, o) = RemoveContainer(cs, o))
  BY SameConstants, SameContainers DEF Contract!QuiesceFailedInference, QuiesceFailedInference,
     Contract!RemoveContainer, RemoveContainer

\* The report of an existing container.
LEMMA SameReport ==
    \A cs, o : Contract!ResponseFromInfo(cs, o) = ResponseFromInfo(cs, o)
  BY SameConstants, SameContainers, SameRemoval DEF Contract!ResponseFromInfo, ResponseFromInfo,
     Contract!MayBeRefused, MayBeRefused

\* What follows a creation or a stop.
LEMMA SameRun ==
    /\ (\A cs, cmd, s : Contract!RanAs(cs, cmd, s) = RanAs(cs, cmd, s))
    /\ (\A cs, o : Contract!Discard(cs, o) = Discard(cs, o))
  BY SameConstants, SameContainers, SameRemoval, SameReport DEF Contract!RanAs, RanAs,
     Contract!Discard, Discard

\* Every way in which a run begins.
LEMMA SameRuns ==
    \A cs, cmd : Contract!Run(cs, cmd) = Run(cs, cmd)
  BY SameRun, SameConstants DEF Contract!Run, Run, Contract!AfterLaunch, AfterLaunch

\* The launch of a container.
LEMMA SameLaunch ==
    \A cs, cmd : Contract!Launch(cs, cmd) = Launch(cs, cmd)
  BY SameRuns, SameConstants, SameGpus DEF Contract!Launch, Launch

\* START.
LEMMA SameStart ==
    \A cs, cmd : Contract!StartOutcomes(cs, cmd) = StartOutcomes(cs, cmd)
  BY SameLaunch, SameReport, SameConstants, SameContainers DEF Contract!StartOutcomes, StartOutcomes

\* STOP.
LEMMA SameStop ==
    \A cs, cmd : Contract!StopOutcomes(cs, cmd) = StopOutcomes(cs, cmd)
<1> SUFFICES ASSUME NEW cs, NEW cmd
             PROVE  Contract!StopOutcomes(cs, cmd) = StopOutcomes(cs, cmd)
  OBVIOUS
<1> DEFINE o == cmd.owner
           R(s) == {Outcome(Set(cs, o, s), Unavailable)} \cup Discard(Set(cs, o, s), o)
           C(s) == {Contract!Outcome(Contract!Set(cs, o, s), Contract!Unavailable)}
                     \cup Contract!Discard(Contract!Set(cs, o, s), o)
           A == Contract!AfterStop(cs[o].status)
<1>1. \A s : C(s) = R(s)
  BY SameConstants, SameContainers, SameRun
<1>2. A = AfterStop(cs[o].status)
  BY SameContainers
<1> HIDE DEF C, R
<1>3. UNION {C(s) : s \in A} = UNION {R(s) : s \in AfterStop(cs[o].status)}
  BY <1>1, <1>2
<1>4. UNION {{Contract!Outcome(Contract!Set(cs, o, s), Contract!Unavailable)}
                \cup Contract!Discard(Contract!Set(cs, o, s), o) : s \in A}
      = UNION {{Outcome(Set(cs, o, s), Unavailable)} \cup Discard(Set(cs, o, s), o)
                 : s \in AfterStop(cs[o].status)}
  BY <1>3 DEF C, R
<1> QED
  BY <1>4, SameConstants, SameContainers, SameRun DEF Contract!StopOutcomes, StopOutcomes

\* Cleanup and STATUS.
LEMMA SameOthers ==
    /\ (\A cs, cmd : Contract!CleanupOutcomes(cs, cmd) = CleanupOutcomes(cs, cmd))
    /\ (\A cs, cmd : Contract!StatusOutcomes(cs, cmd) = StatusOutcomes(cs, cmd))
  BY SameRemoval, SameReport, SameConstants, SameContainers DEF Contract!CleanupOutcomes,
     CleanupOutcomes, Contract!StatusOutcomes, StatusOutcomes

\* Every command.
LEMMA SameDispatch ==
    \A cs, cmd : Contract!DispatchOutcomes(cs, cmd) = DispatchOutcomes(cs, cmd)
  BY SameConstants, SameStart, SameStop, SameOthers DEF Contract!DispatchOutcomes, DispatchOutcomes

\* What a container does by itself.
LEMMA SameEvents ==
    /\ (\A o, c : Contract!Progress(o, c) = Progress(o, c))
    /\ (\A cs, o, s : Contract!Evolve(cs, o, s) = Evolve(cs, o, s))
  BY SameConstants, SameContainers DEF Contract!Progress, Progress, Contract!Evolve, Evolve

-----------------------------------------------------------------------------
(***************************************************************************)
(* What the service promises.                                              *)
(***************************************************************************)
\* Before the first request there is nothing, in memory or in the file.
LEMMA AgentInit == Init => AgentInv
<1> SUFFICES ASSUME Init PROVE AgentInv
  OBVIOUS
<1>1. /\ generations = [o \in Owners |-> 0]
      /\ starts = [o \in Owners |-> [gen |-> 0, gpus |-> {}]]
      /\ containers = [o \in Owners |-> Absent]
      /\ disk.generations = generations /\ disk.starts = starts /\ disk.requests = requests
  BY SameConstants DEF Init, Contract!Init, Contract!Unbound, Image
<1>2. requests = <<>> /\ current = Idle /\ answer = NoAnswer /\ persistFailures = 0
  BY DEF Init
<1>3. Absent \in Container
  BY DEF Absent, Container, Statuses
<1>4. requests \in Seq(Entries) /\ Len(requests) <= MaxCached /\ 0 \in 0..MaxPersistFailures
  BY <1>2, RequestsAssumption
<1>5. TypeOK
  BY <1>1, <1>2, <1>3, <1>4 DEF TypeOK
<1> QED
  BY <1>1, <1>2, <1>5 DEF AgentInv, AdmittedFirst, Covered, FileIsMemory, AnswersAreDurable, Idle

\* Every step keeps the invariant.
LEMMA AgentNext == AgentInv /\ [Next]_vars => AgentInv'
<1> SUFFICES ASSUME AgentInv, [Next]_vars PROVE AgentInv'
  OBVIOUS
<1>1. CASE UNCHANGED vars
  <2>1. UNCHANGED <<memory, disk, persistFailures, containers, current, answer>>
    BY <1>1 DEF vars
  <2>2. AdmittedFirst' = AdmittedFirst
    BY <2>1 DEF AdmittedFirst, Admitted, memory
  <2> QED
    BY <2>1, <2>2, MemoryKept DEF AgentInv, TypeOK
<1> QED
  BY <1>1, RefuseInv, AdmitInv, DispatchInv, RecordInv, RestartInv, EventInv DEF Next

\* The inductive invariant of the command service.
THEOREM AgentInvariant == Spec => []AgentInv
BY AgentInit, AgentNext, PTL DEF Spec

\* Types, and the bound of the cache, for any number of requests.
THEOREM AgentTypes == Spec => []TypeOK
<1>1. AgentInv => TypeOK
  BY DEF AgentInv
<1> QED
  BY <1>1, AgentInvariant, PTL

\* An accepted answer that was returned is in the state file: put_request comes before the
\* return and never evicts the newest answer.
THEOREM AnswersSurvive == Spec => []AnswersAreDurable
<1>1. AgentInv => AnswersAreDurable
  BY DEF AgentInv
<1> QED
  BY <1>1, AgentInvariant, PTL

\* A command whose dispatch has begun has been admitted, and admitting it again changes nothing:
\* the dispatch is where the command takes place in the contract.
LEMMA AdmittedAgain ==
    ASSUME AgentInv, NEW cmd, cmd \in Command, Admitted(cmd), UNCHANGED <<generations, starts>>
    PROVE  Contract!Admit(cmd)
<1> DEFINE o == cmd.owner
<1>1. /\ o \in Owners /\ cmd.gen \in Nat /\ generations[o] = cmd.gen
      /\ generations \in [Owners -> Nat]
      /\ starts \in [Owners -> [gen : Nat, gpus : SUBSET Gpus]]
      /\ cmd.action = "start" => starts[o].gen = cmd.gen /\ starts[o].gpus = cmd.gpus
  BY DEF AgentInv, TypeOK, Command, Admitted
<1>2. ~Contract!Stale(cmd) /\ ~Contract!Reused(cmd)
  BY <1>1 DEF Contract!Stale, Contract!Reused
<1>3. [generations EXCEPT ![o] = Contract!Larger(@, cmd.gen)] = generations
  BY <1>1 DEF Contract!Larger
<1>4. ASSUME cmd.action = "start"
      PROVE  [starts EXCEPT ![o] = [gen |-> cmd.gen, gpus |-> cmd.gpus]] = starts
  <2>1. starts[o] = [gen |-> cmd.gen, gpus |-> cmd.gpus]
    BY <1>1, <1>4
  <2> QED
    BY <1>1, <2>1
<1> QED
  BY <1>2, <1>3, <1>4 DEF Contract!Admit

\* Every step is a step of the contract or a stutter, as long as no write has failed: a command
\* takes place where it is dispatched, or where it is admitted if it never has an effect.
LEMMA ContractStep ==
    ASSUME AgentInv, [Next]_vars, persistFailures' = 0
    PROVE  [Contract!Next]_(Contract!vars)
<1>1. persistFailures = 0
  <2>1. persistFailures \in Nat
    BY DEF AgentInv, TypeOK
  <2> QED
    BY <2>1, AdmitCases DEF Next, vars, RefuseStale, AnswerFromCache, RefuseReused, Dispatch, Record,
       Restart, ContainerEvent, Persisted, PersistFails
<1>2. ASSUME NEW cmd \in Commands, NEW out \in DispatchOutcomes(containers, cmd),
             Contract!Admit(cmd), containers' = out.cs, out.reply \in Reply
      PROVE  Contract!Next
  <2>1. Contract!Perform(cmd, out.reply)
    BY <1>2, SameDispatch DEF Contract!Perform
  <2> QED
    BY <1>2, <2>1, SameConstants DEF Contract!Next, Contract!Execute
<1>3. CASE UNCHANGED <<generations, starts, containers>>
  BY <1>3 DEF Contract!vars
<1>4. ASSUME NEW r \in Requests, Admit(r) PROVE Contract!Next
  <2>1. Contract!Admit(r.cmd) /\ r.cmd \in Commands /\ containers' = containers
    BY <1>4, AdmitWrites, AdmitCases, RequestTypes
  <2>2. /\ Outcome(containers, Unavailable) \in DispatchOutcomes(containers, r.cmd)
        /\ Outcome(containers, Unavailable).cs = containers
        /\ Outcome(containers, Unavailable).reply \in Reply
    BY ServiceReplies DEF DispatchOutcomes, Outcome
  <2> QED
    BY <1>2, <2>1, <2>2
<1>5. CASE Dispatch
  <2> DEFINE cmd == current.req.cmd
  <2>1. PICK out \in DispatchOutcomes(containers, cmd) : containers' = out.cs /\ out.reply \in Reply
    BY <1>5, DispatchStep
  <2>2. cmd \in Commands /\ cmd \in Command /\ Contract!Admit(cmd)
    BY <1>5, DispatchStep, RequestTypes, AdmittedAgain DEF memory
  <2> QED
    BY <1>2, <2>1, <2>2
<1>6. ASSUME NEW o \in Owners, ContainerEvent(o) PROVE Contract!Next
  <2>1. Contract!ContainerEvent(o)
    BY <1>6, SameEvents DEF ContainerEvent, Contract!ContainerEvent, memory
  <2> QED
    BY <2>1, SameConstants DEF Contract!Next
<1>7. CASE Restart
  BY <1>1, <1>3, <1>7, RestartInv
<1>8. ASSUME NEW r \in Requests, RefuseStale(r) \/ AnswerFromCache(r) \/ RefuseReused(r)
      PROVE  UNCHANGED <<generations, starts, containers>>
  BY <1>8 DEF RefuseStale, AnswerFromCache, RefuseReused, memory
<1>9. Record \/ UNCHANGED vars => UNCHANGED <<generations, starts, containers>>
  BY DEF Record, vars, memory
<1> QED
  BY <1>3, <1>4, <1>5, <1>6, <1>7, <1>8, <1>9 DEF Next

\* The service implements the contract: splitting a command at its writes, caching answers and
\* crashing anywhere adds no behaviour of the containers or of the watermark.
THEOREM ServiceImplementsContract == Spec => ImplementsContract
<1>1. Init => Contract!Init
  BY DEF Init
<1>2. AgentInv /\ [Next]_vars => [persistFailures' = 0 => [Contract!Next]_(Contract!vars)]_vars
  BY ContractStep
<1> QED
  BY <1>1, <1>2, AgentInvariant, PTL DEF Spec, ImplementsContract

\* The label of a container that stays or is replaced.
LEMMA LabelKept ==
    ASSUME NEW cs \in [Owners -> Container], NEW cmd \in Command, NEW new, Shape(cs, cmd, new),
           NEW o \in Owners, Exists(cs[o]), Exists(new[o])
    PROVE  new[o].gen >= cs[o].gen
<1>1. cs[o].gen \in Nat /\ cmd.gen \in Nat /\ ~Exists(Absent)
  BY DEF Container, Command, Exists, Absent
<1>2. CASE Settled(cs, cmd.owner, new)
  BY <1>1, <1>2 DEF Settled, Touches, Gone, Ended
<1>3. CASE Touches(cs, cmd.owner, new) /\ Launched(cs, cmd, new[cmd.owner])
  BY <1>1, <1>3 DEF Touches, Launched, Replaceable
<1> QED
  BY <1>2, <1>3 DEF Shape

\* Even after failed writes and restarts rolled the watermark back, an old START never replaces
\* a newer container (prepare_contract_start).
THEOREM LabelsOnlyGrow == Spec => LabelsNeverDecrease
<1> DEFINE Grow == \A o \in Owners : Exists(containers[o]) /\ Exists(containers'[o])
                                        => containers'[o].gen >= containers[o].gen
<1>1. AgentInv /\ [Next]_vars => [Grow]_vars
  <2> SUFFICES ASSUME AgentInv, [Next]_vars PROVE Grow \/ UNCHANGED vars
    OBVIOUS
  <2>1. containers \in [Owners -> Container] /\ \A o \in Owners : containers[o].gen \in Nat
    BY DEF AgentInv, TypeOK, Container
  <2>2. CASE containers' = containers
    BY <2>1, <2>2
  <2>3. CASE Dispatch
    <3>1. /\ current.req.cmd \in Command
          /\ \E out \in DispatchOutcomes(containers, current.req.cmd) : containers' = out.cs
      BY <2>3, DispatchStep, RequestTypes
    <3>2. Shape(containers, current.req.cmd, containers')
      BY <2>1, <3>1, DispatchShape
    <3> QED
      BY <2>1, <3>1, <3>2, LabelKept
  <2>4. ASSUME NEW o \in Owners, ContainerEvent(o) PROVE Grow
    <3>1. Touches(containers, o, containers') /\ Evolved(containers[o], containers'[o])
      BY <2>4, EventInv
    <3> QED
      BY <2>1, <3>1 DEF Touches, Evolved, Gone, Exists, Absent
  <2> QED
    BY <2>2, <2>3, <2>4 DEF Next, RefuseStale, AnswerFromCache, RefuseReused, Admit, Record, Restart
<1> QED
  BY <1>1, AgentInvariant, PTL DEF Spec, LabelsNeverDecrease

-----------------------------------------------------------------------------
(***************************************************************************)
(* The containers are an allocation of whole GPUs, as in the contract.    *)
(***************************************************************************)
\* In terms of GpuAllocation: giving back is a step or a stutter, taking is an acquisition.
LEMMA AllocationStep ==
    ASSUME NEW o \in Owners, Allocates(containers, containers', o)
    PROVE  [Allocation!Next]_Held
  <1>1. /\ Held = [p \in Owners |-> HeldByContainer(containers[p])]
        /\ Held' = [p \in Owners |-> HeldByContainer(containers'[p])]
    BY DEF Held
  <1>2. \A p \in Owners \ {o} : HeldByContainer(containers'[p]) = HeldByContainer(containers[p])
    BY DEF Allocates
  <1>3. CASE HeldByContainer(containers'[o]) = HeldByContainer(containers[o])
    BY <1>1, <1>2, <1>3
  <1>4. CASE HeldByContainer(containers'[o]) = {}
    <2>1. Held' = [p \in Owners |-> IF p \in {o} THEN {} ELSE Held[p]]
      BY <1>1, <1>2, <1>4
    <2> QED
      BY <2>1 DEF Allocation!GiveBack, Allocation!Next
  <1>5. CASE Takes(containers, containers', o)
    <2>1. Held' = [Held EXCEPT ![o] = Held'[o]]
      BY <1>1, <1>2
    <2>2. Allocation!Acquire(o)
      BY <1>1, <1>5, <2>1 DEF Allocation!Acquire, Allocation!Disjoint, Takes
    <2> QED
      BY <2>2 DEF Allocation!Next
  <1> QED
    BY <1>3, <1>4, <1>5 DEF Allocates, GivesBack

\* At first there is no container.
LEMMA NothingHeld == containers = [o \in Owners |-> Absent] => Allocation!Init
  <1>1. ~Active(Absent)
    BY DEF Active, Absent, ActiveStatuses
  <1> QED
    BY <1>1 DEF Allocation!Init, Held, HeldByContainer

\* Steps of the service allocate whole GPUs: only a dispatch and the containers themselves change
\* what anyone holds.
LEMMA ServiceAllocates == AgentInv /\ [Next]_vars => [Allocation!Next]_Held
  <1> SUFFICES ASSUME AgentInv, [Next]_vars PROVE [Allocation!Next]_Held
    OBVIOUS
  <1>1. containers \in [Owners -> Container]
    BY DEF AgentInv, TypeOK
  <1>2. CASE containers' = containers
    BY <1>2 DEF Held
  <1>3. CASE Dispatch
    <2>1. /\ current.req.cmd \in Command
          /\ \E out \in DispatchOutcomes(containers, current.req.cmd) : containers' = out.cs
      BY <1>3, DispatchStep, RequestTypes
    <2>2. Shape(containers, current.req.cmd, containers') /\ current.req.cmd.owner \in Owners
      BY <1>1, <2>1, DispatchShape DEF Command
    <2> QED
      BY <1>1, <2>1, <2>2, ShapeAllocates, AllocationStep
  <1>4. ASSUME NEW o \in Owners, ContainerEvent(o) PROVE [Allocation!Next]_Held
    BY <1>4, EventInv, EvolutionAllocates, AllocationStep
  <1> QED
    BY <1>2, <1>3, <1>4 DEF Next, RefuseStale, AnswerFromCache, RefuseReused, Admit, Record, Restart,
       vars

\* The service allocates whole GPUs, across crashes, and after failed writes too: for this the
\* agent needs its containers only, not the watermark that it may have lost.
THEOREM ServiceAllocatesWholeGpus == Spec => ImplementsAllocation
  <1>1. Init => Allocation!Init
    BY NothingHeld, SameConstants DEF Init, Contract!Init
  <1> QED
    BY <1>1, ServiceAllocates, AgentInvariant, PTL DEF Spec, ImplementsAllocation, Allocation!Spec

-----------------------------------------------------------------------------
(***************************************************************************)
(* The signature check around the service.                                 *)
(***************************************************************************)
\* Behind the check the service takes its own steps; a 401 changes nothing but the answer.
LEMMA SignedSteps ==
    ASSUME [SignedNext]_signedVars
    PROVE  [Next]_vars \/ \E r \in Requests : Unauthorized(r)
BY DEF SignedNext, signedVars, Serve, Tick, SignedDispatch, SignedRestart, Next

\* A 401 is an answer that nobody may act on.
LEMMA UnauthorizedInv ==
    ASSUME AgentInv, NEW r \in Requests, Unauthorized(r)
    PROVE  AgentInv'
<1>1. UNCHANGED <<memory, disk, containers, current, persistFailures>>
  BY DEF Unauthorized
<1>2. answer' \in Entries /\ ~answer'.reply.accepted
  BY RequestTypes, ServiceReplies DEF Unauthorized, Entry, Entries, Unread
<1>3. AdmittedFirst'
  BY <1>1 DEF AgentInv, AdmittedFirst, Admitted, memory
<1> QED
  BY <1>1, <1>2, <1>3, MemoryKept DEF AgentInv, TypeOK

\* Whatever requests are signed, repeated, delayed or refused, the service keeps its invariant.
THEOREM SignedInvariant == SignedSpec => []AgentInv
<1>1. SignedInit => AgentInv
  BY AgentInit DEF SignedInit
<1>2. AgentInv /\ [SignedNext]_signedVars => AgentInv'
  BY SignedSteps, AgentNext, UnauthorizedInv
<1> QED
  BY <1>1, <1>2, PTL DEF SignedSpec

\* And it still implements the contract.
THEOREM SignedServiceImplementsContract == SignedSpec => ImplementsContract
<1>1. SignedInit => Contract!Init
  BY DEF SignedInit, Init
<1>2. AgentInv /\ [SignedNext]_signedVars
        => [persistFailures' = 0 => [Contract!Next]_(Contract!vars)]_vars
  <2>1. ASSUME NEW r \in Requests, Unauthorized(r) PROVE UNCHANGED Contract!vars
    BY <2>1 DEF Unauthorized, memory, Contract!vars
  <2> QED
    BY <2>1, SignedSteps, ContractStep
<1> QED
  BY <1>1, <1>2, SignedInvariant, PTL DEF SignedSpec, ImplementsContract

\* The same behind the signature check.
THEOREM SignedServiceAllocatesWholeGpus == SignedSpec => ImplementsAllocation
<1>1. SignedInit => Allocation!Init
  BY NothingHeld, SameConstants DEF SignedInit, Init, Contract!Init
<1>2. AgentInv /\ [SignedNext]_signedVars => [Allocation!Next]_Held
  <2>1. ASSUME NEW r \in Requests, Unauthorized(r) PROVE Held' = Held
    BY <2>1 DEF Unauthorized, Held
  <2> QED
    BY <2>1, SignedSteps, ServiceAllocates
<1> QED
  BY <1>1, <1>2, SignedInvariant, PTL DEF SignedSpec, ImplementsAllocation, Allocation!Spec

\* The parts of a request; none has the id of an answer that names no request.
LEMMA RequestParts ==
    ASSUME NEW r \in Requests
    PROVE  /\ r = [id |-> r.id, cmd |-> r.cmd]
           /\ r.id # NullId
           /\ r.cmd \in [action : Actions, owner : Owners, gen : Nat \ {0}, gpus : SUBSET Gpus]
<1>1. r \in [id : Ids, cmd : [action : Actions, owner : Owners, gen : Nat \ {0},
                              gpus : SUBSET Gpus]]
  BY RequestsAssumption
<1>2. r.id \in Ids
  BY DEF Ids
<1> QED BY <1>1, <1>2, SigningAssumption

-----------------------------------------------------------------------------
(***************************************************************************)
(* The clock, the nonces, and how often a request was passed on.           *)
(***************************************************************************)
\* Once a request was passed on, its nonce is remembered for longer than its signature is
\* accepted, or that time is over.
Spent(r) == nonces[r] > SignedAt[r] + Skew \/ agentTime > SignedAt[r] + Skew

NonceInv ==
    /\ agentTime \in Nat
    /\ nonces \in [Requests -> Nat]
    /\ served \in [Requests -> Nat]
    /\ \A r \in Requests : served[r] <= 1 /\ (served[r] = 1 => Spent(r))

\* What is left after the expired nonces were forgotten.
LEMMA RememberedType ==
    ASSUME NonceInv
    PROVE  Remembered \in [Requests -> Nat]
BY DEF NonceInv, Remembered

\* The window of a signature has 2 * Skew + 1 seconds, and a nonce is remembered for at least
\* as long, counted from the moment of its use.
LEMMA RetentionCovers ==
    ASSUME NonceInv, NEW r \in Requests, InWindow(r)
    PROVE  agentTime + Retention \in Nat /\ agentTime + Retention > SignedAt[r] + Skew
<1>1. Skew \in Nat /\ MinRetention \in Nat /\ SignedAt[r] \in Nat /\ agentTime \in Nat
  BY SigningAssumption DEF NonceInv
<1>2. Retention \in Nat /\ Retention >= 2 * Skew + 1
  BY <1>1 DEF Retention, Contract!Larger
<1> QED BY <1>1, <1>2 DEF InWindow

\* Forgetting expired nonces forgets none whose signature is still accepted.
LEMMA ForgettingIsSafe ==
    ASSUME NonceInv, NEW r \in Requests, Spent(r)
    PROVE  Remembered[r] > SignedAt[r] + Skew \/ agentTime > SignedAt[r] + Skew
<1>1. SignedAt[r] \in Nat /\ Skew \in Nat /\ nonces[r] \in Nat /\ agentTime \in Nat
  BY SigningAssumption DEF NonceInv
<1> QED BY <1>1 DEF Spent, Remembered

\* A request that passes the check has not passed it before.
LEMMA ServedFirst ==
    ASSUME NonceInv, NEW q \in Requests, Serve(q)
    PROVE  served[q] = 0
<1>1. SignedAt[q] \in Nat /\ Skew \in Nat /\ nonces[q] \in Nat /\ agentTime \in Nat
      /\ served[q] \in Nat /\ served[q] <= 1
  BY SigningAssumption DEF NonceInv
<1>2. SUFFICES ASSUME served[q] = 1 PROVE FALSE
  BY <1>1
<1>3. Spent(q)
  BY <1>2 DEF NonceInv
<1>4. Remembered[q] = 0 /\ agentTime <= SignedAt[q] + Skew
  BY DEF Serve, Verified, InWindow
<1> QED BY <1>1, <1>3, <1>4, ForgettingIsSafe

\* Serving, refusing, a tick of the clock and a restart preserve the invariant.
LEMMA NonceStep == NonceInv /\ [SignedNext]_signedVars => NonceInv'
<1> SUFFICES ASSUME NonceInv, [SignedNext]_signedVars PROVE NonceInv'
  OBVIOUS
<1>1. ASSUME NEW q \in Requests, Serve(q) PROVE NonceInv'
  <2>1. served[q] = 0
    BY <1>1, ServedFirst
  <2>2. InWindow(q) /\ agentTime' = agentTime
        /\ nonces' = [Remembered EXCEPT ![q] = agentTime + Retention]
        /\ served' = [served EXCEPT ![q] = @ + 1]
    BY <1>1 DEF Serve, Verified
  <2>3. agentTime' \in Nat /\ nonces' \in [Requests -> Nat] /\ served' \in [Requests -> Nat]
    BY <2>2, RememberedType, RetentionCovers DEF NonceInv
  <2>4. ASSUME NEW r \in Requests PROVE served'[r] <= 1 /\ (served'[r] = 1 => Spent(r)')
    <3>1. CASE r = q
      BY <2>1, <2>2, <3>1, RememberedType, RetentionCovers DEF NonceInv, Spent
    <3>2. CASE r # q
      <4>1. served'[r] = served[r] /\ nonces'[r] = Remembered[r]
        BY <2>2, <3>2, RememberedType DEF NonceInv
      <4> QED BY <2>2, <4>1, ForgettingIsSafe DEF NonceInv, Spent
    <3> QED BY <3>1, <3>2
  <2> QED BY <2>3, <2>4 DEF NonceInv
<1>2. ASSUME NEW q \in Requests, Unauthorized(q) PROVE NonceInv'
  <2>1. agentTime' = agentTime /\ nonces' = Remembered /\ served' = served
    BY <1>2 DEF Unauthorized
  <2> QED BY <2>1, RememberedType, ForgettingIsSafe DEF NonceInv, Spent
<1>3. CASE Tick
  <2>1. agentTime' = agentTime + 1 /\ nonces' = nonces /\ served' = served
    BY <1>3 DEF Tick
  <2>2. ASSUME NEW r \in Requests, Spent(r) PROVE Spent(r)'
    <3>1. SignedAt[r] \in Nat /\ Skew \in Nat /\ agentTime \in Nat
      BY SigningAssumption DEF NonceInv
    <3> QED BY <2>1, <2>2, <3>1 DEF Spent
  <2> QED BY <2>1, <2>2 DEF NonceInv
<1>4. CASE SignedRestart
  <2>1. agentTime' = agentTime /\ nonces' = [r \in Requests |-> 0]
        /\ served' = [r \in Requests |-> 0]
    BY <1>4 DEF SignedRestart
  <2> QED BY <2>1 DEF NonceInv
<1>5. CASE UNCHANGED <<agentTime, nonces, served>>
  BY <1>5 DEF NonceInv, Spent
<1>6. CASE SignedDispatch
  BY <1>5, <1>6 DEF SignedDispatch
<1> QED
  BY <1>1, <1>2, <1>3, <1>4, <1>5, <1>6 DEF SignedNext, signedVars, signing

\* A process that has served nothing.
LEMMA NonceInit == SignedInit => NonceInv
BY DEF SignedInit, NonceInv

\* The invariant of the nonces holds in every reachable state.
LEMMA NonceInvariant == SignedSpec => []NonceInv
BY NonceInit, NonceStep, PTL DEF SignedSpec

\* No process passes a request on twice (NonceReplayCache), however often it is repeated.
THEOREM ServedOnce == SignedSpec => []AtMostOnce
<1>1. NonceInv => AtMostOnce
  BY DEF NonceInv, AtMostOnce
<1> QED BY <1>1, NonceInvariant, PTL

-----------------------------------------------------------------------------
(***************************************************************************)
(* Refusals.                                                               *)
(***************************************************************************)
Kept(reply) == reply = Unavailable \/ reply.accepted
Fair(r, reply) == Runs(r) /\ r.cmd.owner \notin Trainings => Kept(reply)

\* A launch that leaves a running container of its generation is not answered with a refusal,
\* unless it is a training (launch_inference, launch_evaluation).
LEMMA LaunchAnswer ==
    ASSUME NEW cs \in [Owners -> Container], NEW cmd \in Command, cmd.gen # 0,
           cs[cmd.owner].gen # cmd.gen,
           NEW out \in Launch(cs, cmd), out.cs[cmd.owner].gen = cmd.gen,
           Active(out.cs[cmd.owner]), cmd.owner \notin Trainings
    PROVE  Kept(out.reply)
<1>1. out = Outcome(cs, Rejected) \/ out \in Run(cs, cmd)
  BY DEF Launch
<1>2. CASE out = Outcome(cs, Rejected)
  BY <1>2 DEF Outcome
<1>3. CASE out \in Run(cs, cmd)
  <2>1. PICK s \in AfterLaunch : out \in RanAs(cs, cmd, s)
    BY <1>3 DEF Run
  <2>2. cmd.owner \in Owners
    BY DEF Command
  <2>3. Created(cs, cmd, s)[cmd.owner].status = s
    BY <2>2 DEF Created
  <2>4. StateFromInfo(cmd.owner, Created(cs, cmd, s)[cmd.owner]) = "succeeded"
            => ~Active(Created(cs, cmd, s)[cmd.owner])
    BY <2>1, <2>3 DEF StateFromInfo, Active, ActiveStatuses
  <2>5. \/ out.reply = Unavailable
        \/ out \in ResponseFromInfo(Created(cs, cmd, s), cmd.owner)
    BY <2>1 DEF RanAs, Outcome
  <2> QED BY <2>4, <2>5
          DEF ResponseFromInfo, MayBeRefused, QuiesceFailedInference, Outcome, Accepted, Kept
<1> QED BY <1>1, <1>2, <1>3

\* Nor is a START, whatever it found and whichever Docker call failed.
LEMMA StartAnswer ==
    ASSUME NEW cs \in [Owners -> Container], NEW cmd \in Command, cmd.gen # 0,
           cmd.action = "start", cs[cmd.owner].gen # cmd.gen,
           NEW out \in DispatchOutcomes(cs, cmd), out.cs[cmd.owner].gen = cmd.gen,
           Active(out.cs[cmd.owner]), cmd.owner \notin Trainings
    PROVE  Kept(out.reply)
<1> DEFINE o == cmd.owner
<1>o. o \in Owners
  BY DEF Command
<1>1. \/ out = Outcome(cs, Unavailable)
      \/ out \in StartOutcomes(cs, cmd)
  BY DEF DispatchOutcomes
<1>2. \/ out.reply = Unavailable
      \/ out.cs = cs
      \/ out \in Launch(cs, cmd)
      \/ out \in Launch(Remove(cs, o), cmd)
  BY <1>1 DEF StartOutcomes, Outcome
<1>3. CASE out \in Launch(Remove(cs, o), cmd)
  <2>1. Remove(cs, o) \in [Owners -> Container] /\ Remove(cs, o)[o].gen = 0
    BY <1>o, RemoveSettled DEF Settled, Touches, Absent
  <2> QED BY <1>3, <2>1, LaunchAnswer
<1> QED BY <1>2, <1>3, LaunchAnswer DEF Kept

RefusalInv ==
    /\ containers \in [Owners -> Container]
    /\ launched \subseteq Requests
    /\ \/ current = Idle
       \/ /\ current.phase \in {"dispatch", "record"}
          /\ current.req \in Requests /\ served[current.req] = 1
    /\ \A r \in launched :
          /\ served[r] = 1
          /\ current.phase = "dispatch" => current.req # r
          /\ current.phase = "record" /\ current.req = r => Fair(r, current.reply)
          /\ answer # NoAnswer /\ answer.id = r.id /\ answer.cmd = r.cmd => Fair(r, answer.reply)

\* Requests with the same id and command are the same.
LEMMA SameRequest ==
    ASSUME NEW q \in Requests, NEW r \in Requests, q.id = r.id, q.cmd = r.cmd
    PROVE  q = r
BY RequestParts

\* Answering q does not touch what the client of another request knows.
LEMMA AnswerOthers ==
    ASSUME RefusalInv, NEW q \in Requests, NEW reply, Return(q, reply),
           NEW r \in launched, r # q
    PROVE  ~(answer'.id = r.id /\ answer'.cmd = r.cmd) /\ current' = Idle
<1>1. answer' = Entry(q, reply) /\ current' = Idle
  BY DEF Return
<1> QED BY <1>1, SameRequest DEF RefusalInv, Entry

\* A request that is passed on is new, so none of the answers to it is about a launch.
LEMMA ServeRefusal ==
    ASSUME NonceInv, RefusalInv, NEW q \in Requests, Serve(q)
    PROVE  RefusalInv'
<1>1. served[q] = 0 /\ served' = [served EXCEPT ![q] = @ + 1] /\ served \in [Requests -> Nat]
      /\ launched' = launched
  BY ServedFirst DEF Serve, NonceInv
<1>2. /\ containers' = containers
      /\ \/ \E reply : Return(q, reply)
         \/ \E reply : Continue(q, "dispatch", reply) \/ Continue(q, "record", reply)
  <2> DEFINE Answered == \E reply : Return(q, reply)
             Taken == \E reply : Continue(q, "dispatch", reply) \/ Continue(q, "record", reply)
  <2>1. RefuseStale(q) => containers' = containers /\ Answered
    BY DEF RefuseStale
  <2>2. AnswerFromCache(q) => containers' = containers /\ Answered
    BY DEF AnswerFromCache
  <2>3. RefuseReused(q) => containers' = containers /\ Taken
    <3>1. RefuseReused(q) => containers' = containers /\ Continue(q, "record", Rejected)
      BY DEF RefuseReused
    <3> QED BY <3>1
  <2>4. Admit(q) => containers' = containers /\ (Answered \/ Taken)
    <3>1. Admit(q) => /\ containers' = containers
                      /\ Continue(q, "dispatch", Unavailable) \/ Return(q, Unavailable)
      BY DEF Admit
    <3> QED BY <3>1
  <2>5. RefuseStale(q) \/ AnswerFromCache(q) \/ RefuseReused(q) \/ Admit(q)
    BY DEF Serve
  <2> HIDE DEF Answered, Taken
  <2>6. containers' = containers /\ (Answered \/ Taken)
    BY <2>1, <2>2, <2>3, <2>4, <2>5
  <2> QED BY <2>6 DEF Answered, Taken
<1>3. q \notin launched /\ served'[q] = 1
  BY <1>1 DEF RefusalInv
<1>4. \A r \in launched : served'[r] = 1
  BY <1>1, <1>3 DEF RefusalInv
<1>5. CASE \E reply : Return(q, reply)
  <2>1. PICK reply : Return(q, reply)
    BY <1>5
  <2>2. current' = Idle
    BY <2>1 DEF Return
  <2>3. \A r \in launched : ~(answer'.id = r.id /\ answer'.cmd = r.cmd)
    BY <1>3, <2>1, AnswerOthers
  <2> QED BY <1>1, <1>2, <1>4, <2>2, <2>3 DEF RefusalInv, Idle
<1>6. CASE \E reply : Continue(q, "dispatch", reply) \/ Continue(q, "record", reply)
  <2>1. PICK reply : Continue(q, "dispatch", reply) \/ Continue(q, "record", reply)
    BY <1>6
  <2>2. /\ current'.phase \in {"dispatch", "record"} /\ current'.req = q
        /\ answer' = NoAnswer
    BY <2>1 DEF Continue
  <2> QED BY <1>1, <1>2, <1>3, <1>4, <2>2 DEF RefusalInv
<1> QED BY <1>2, <1>5, <1>6

\* A dispatch that launches what then runs keeps an answer that is not a refusal.
LEMMA DispatchRefusal ==
    ASSUME NonceInv, RefusalInv, SignedDispatch
    PROVE  RefusalInv'
<1> DEFINE q == current.req
<1>1. current.phase = "dispatch" /\ current # Idle
  BY DEF SignedDispatch, Dispatch, Idle
<1>2. q \in Requests /\ served[q] = 1 /\ q \notin launched
  BY <1>1 DEF RefusalInv
<1>3. PICK out \in DispatchOutcomes(containers, q.cmd) :
         /\ containers' = out.cs
         /\ IF out.reply = Unavailable THEN Return(q, Unavailable)
                                       ELSE Continue(q, "record", out.reply)
  BY DEF SignedDispatch, Dispatch
<1>4. q.cmd \in Command /\ q.cmd.gen # 0
  BY <1>2, RequestParts DEF Command
<1>5. containers' \in [Owners -> Container]
  BY <1>3, <1>4, DispatchShape DEF RefusalInv, Shape, Settled, Touches
<1>6. /\ served' = served
      /\ launched' = IF Launches(q) THEN launched \cup {q} ELSE launched
  BY DEF SignedDispatch
<1>7. Launches(q) => \A r : r = q => Fair(r, out.reply)'
  <2> SUFFICES ASSUME Launches(q), NEW r, r = q, Runs(r)', r.cmd.owner \notin Trainings
               PROVE  Kept(out.reply)
    BY DEF Fair
  <2>1. r.cmd.action = "start" /\ containers[r.cmd.owner].gen # r.cmd.gen
    BY DEF Launches
  <2> QED
    BY <1>3, <1>4, <2>1, StartAnswer DEF RefusalInv, Runs
<1>8. launched' \subseteq Requests /\ \A r \in launched' : served'[r] = 1
  BY <1>2, <1>6 DEF RefusalInv
<1>9. CASE out.reply = Unavailable
  <2>1. answer' = Entry(q, Unavailable) /\ current' = Idle
    BY <1>3, <1>9 DEF Return
  <2>2. \A r : Fair(r, answer.reply)'
    BY <2>1 DEF Entry, Kept, Fair
  <2> QED BY <1>5, <1>8, <2>1, <2>2 DEF RefusalInv, Idle
<1>10. CASE out.reply # Unavailable
  <2>1. /\ current'.phase = "record" /\ current'.req = q /\ current'.reply = out.reply
        /\ answer' = NoAnswer
    BY <1>3, <1>10 DEF Continue
  <2> QED BY <1>2, <1>5, <1>6, <1>7, <1>8, <2>1 DEF RefusalInv
<1> QED BY <1>9, <1>10

\* The recorded answer, or an HTTP error when it cannot be written, is returned.
LEMMA RecordRefusal ==
    ASSUME RefusalInv, Record, UNCHANGED signing
    PROVE  RefusalInv'
<1> DEFINE q == current.req
<1>1. current.phase = "record" /\ current # Idle /\ q \in Requests
  BY DEF Record, Idle, RefusalInv
<1>2. PICK reply \in {current.reply, Unavailable} : Return(q, reply)
  BY DEF Record
<1>3. containers' = containers /\ launched' = launched /\ served' = served
  BY DEF Record, signing
<1>4. answer' = Entry(q, reply) /\ current' = Idle
  BY <1>2 DEF Return
<1>5. ASSUME NEW r \in launched, answer'.id = r.id, answer'.cmd = r.cmd
      PROVE  Fair(r, answer.reply)'
  <2>1. r = q
    BY <1>1, <1>2, <1>5, AnswerOthers
  <2> QED BY <1>1, <1>2, <1>3, <1>4, <2>1 DEF RefusalInv, Kept, Fair, Runs, Entry
<1> QED BY <1>3, <1>4, <1>5 DEF RefusalInv, Idle

\* Every step preserves the invariant of the refusals.
LEMMA RefusalStep == NonceInv /\ RefusalInv /\ [SignedNext]_signedVars => RefusalInv'
<1> SUFFICES ASSUME NonceInv, RefusalInv, [SignedNext]_signedVars PROVE RefusalInv'
  OBVIOUS
<1>1. ASSUME NEW q \in Requests, Serve(q) PROVE RefusalInv'
  BY <1>1, ServeRefusal
\* A 401 names no request.
<1>2. ASSUME NEW q \in Requests, Unauthorized(q) PROVE RefusalInv'
  <2>1. UNCHANGED <<containers, current, served, launched>> /\ answer'.id = NullId
    BY <1>2 DEF Unauthorized, Entry, Unread
  <2> QED BY <2>1, RequestParts DEF RefusalInv, Fair, Runs
<1>3. CASE UNCHANGED <<containers, current, answer, served, launched>>
  BY <1>3 DEF RefusalInv, Fair, Runs
<1>4. CASE Tick
  BY <1>3, <1>4 DEF Tick, vars
<1>5. CASE SignedRestart
  BY <1>5 DEF SignedRestart, Restart, RefusalInv
<1>6. CASE SignedDispatch
  BY <1>6, DispatchRefusal
<1>7. CASE Record /\ UNCHANGED signing
  BY <1>7, RecordRefusal
<1>8. ASSUME NEW o \in Owners, ContainerEvent(o), UNCHANGED signing PROVE RefusalInv'
  <2>1. PICK s \in Progress(o, containers[o]) : containers' = Evolve(containers, o, s)
    BY <1>8 DEF ContainerEvent
  <2>2. containers' \in [Owners -> Container]
    BY <2>1, ProgressShape DEF RefusalInv, Touches
  <2>3. ASSUME NEW r \in launched, Runs(r)' PROVE Runs(r)
    <3>1. Touches(containers, o, containers') /\ Evolved(containers[o], containers'[o])
      BY <2>1, ProgressShape DEF RefusalInv
    <3> QED
      BY <2>2, <2>3, <3>1, RequestParts
         DEF Runs, RefusalInv, Touches, Evolved, Gone, Active, Exists, Absent, ActiveStatuses, Command
  <2>4. \A r \in launched : \A reply : Fair(r, reply) => Fair(r, reply)'
    BY <2>3 DEF Fair
  <2> QED BY <1>8, <2>2, <2>4 DEF RefusalInv, ContainerEvent, signing
<1> QED
  BY <1>1, <1>2, <1>3, <1>4, <1>5, <1>6, <1>7, <1>8 DEF SignedNext, signedVars, signing, vars

\* Nothing was launched.
LEMMA RefusalInit == SignedInit => RefusalInv
<1>1. Absent \in Container
  BY DEF Absent, Container, Statuses, TerminalStatuses, ActiveStatuses
<1> QED BY <1>1 DEF SignedInit, Init, Contract!Init, Contract!Owners, Contract!Absent, Owners, Absent,
                  RefusalInv

\* The client does not read an accepted or missing answer as a refusal.
LEMMA KeptConclusion ==
    ASSUME NEW r, NEW id, NEW reply, id = r.id => Kept(reply)
    PROVE  Conclusion(r, id, reply) # "rejected"
BY DEF Conclusion, Kept

\* No client gives back the GPUs of a deployment or an evaluation because its START was refused
\* while the container it made runs (RefusalsAreTrue).
THEOREM TrueRefusals == SignedSpec => []RefusalsAreTrue
<1>1. RefusalInv => RefusalsAreTrue
  BY KeptConclusion DEF RefusalInv, Fair, RefusalsAreTrue
<1>2. SignedSpec => []RefusalInv
  BY NonceInvariant, RefusalInit, RefusalStep, PTL DEF SignedSpec
<1> QED BY <1>1, <1>2, PTL
=============================================================================
