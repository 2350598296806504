------------------------------ MODULE NodeAgent ------------------------------
(***************************************************************************)
(* The node agent's command service, split at its persistence points.      *)
(*                                                                         *)
(* CommandProcessor.execute serves one command at a time under a lock:     *)
(* it refuses a stale generation, answers a known request id from the      *)
(* cache, writes the generation watermark (and for START the parameters    *)
(* it is bound to) to disk, dispatches to Docker, and caches the answer.   *)
(* The process may crash between any two of these steps; it restarts from  *)
(* the state file.  CommandStateStore changes its dictionaries before it   *)
(* replaces the file, so a failed write leaves memory ahead of the disk.   *)
(***************************************************************************)
EXTENDS DockerRunner, Sequences

CONSTANTS Requests,           \* [id, cmd]: the signed requests that may arrive, repeatedly
          MaxCached,          \* MAX_CACHED_REQUESTS
          MaxPersistFailures  \* bound: failed writes of the state file

Commands == {r.cmd : r \in Requests}
Ids == {r.id : r \in Requests}

ASSUME RequestsAssumption ==
    /\ Requests \subseteq [id : Ids, cmd : [action : Actions, owner : Owners,
                                            gen : Nat \ {0}, gpus : SUBSET Gpus]]
    /\ MaxCached \in Nat \ {0}
    /\ MaxPersistFailures \in Nat

VARIABLES generations, starts,  \* as in AgentContract, in memory
          requests,             \* sequence of cached answers, oldest first, in memory
          disk,                 \* command-state.json: the three of them
          containers,
          current,              \* the command being executed, and how far it is
          answer,               \* the last answer given to a client
          persistFailures       \* writes that failed so far

memory == <<generations, starts, requests>>
vars == <<memory, disk, containers, current, answer, persistFailures>>

Contract == INSTANCE AgentContract

Idle == [phase |-> "idle"]
NoAnswer == [phase |-> "none"]
NullId == 0                   \* NULL_REQUEST_ID: the answer to a request that was not read
Entry(r, reply) == [id |-> r.id, cmd |-> r.cmd, reply |-> reply]
Cached(cache) == {cache[i] : i \in 1..Len(cache)}

\* Faulty variant of Image: the answers are kept in memory only.
ImageWithoutAnswers(g, s, q) == [generations |-> g, starts |-> s, requests |-> <<>>]

Image(g, s, q) == [generations |-> g, starts |-> s, requests |-> q]

Init ==
    /\ Contract!Init
    /\ requests = <<>>
    /\ disk = Image(generations, starts, requests)
    /\ current = Idle
    /\ answer = NoAnswer
    /\ persistFailures = 0

\* _persist replaces the file atomically by what is in memory now ...
Persisted == disk' = Image(generations', starts', requests') /\ UNCHANGED persistFailures

\* ... or raises OSError; the dictionaries stay as they are and the client gets a 503.
PersistFails ==
    /\ persistFailures < MaxPersistFailures
    /\ persistFailures' = persistFailures + 1
    /\ UNCHANGED disk

Return(r, reply) == answer' = Entry(r, reply) /\ current' = Idle
Continue(r, phase, reply) ==
    current' = [phase |-> phase, req |-> r, reply |-> reply] /\ answer' = NoAnswer

-----------------------------------------------------------------------------
(***************************************************************************)
(* The checks execute makes before it writes anything.                     *)
(***************************************************************************)
RefuseStale(r) ==
    /\ current = Idle
    /\ r.cmd.gen < generations[r.cmd.owner]
    /\ Return(r, Rejected)
    /\ UNCHANGED <<memory, disk, containers, persistFailures>>

AnswerFromCache(r) ==
    /\ current = Idle
    /\ r.cmd.gen >= generations[r.cmd.owner]
    /\ \E e \in Cached(requests) :
          /\ e.id = r.id
          /\ Return(r, IF e.cmd = r.cmd THEN e.reply ELSE Rejected)
    /\ UNCHANGED <<memory, disk, containers, persistFailures>>

Fresh(r) ==
    /\ current = Idle
    /\ r.cmd.gen >= generations[r.cmd.owner]
    /\ \A e \in Cached(requests) : e.id # r.id

RefuseReused(r) ==
    /\ Fresh(r)
    /\ Contract!Reused(r.cmd)
    /\ Continue(r, "record", Rejected)
    /\ UNCHANGED <<memory, disk, containers, persistFailures>>

(***************************************************************************)
(* bind_start and advance_generation.  The file is written only when the   *)
(* dictionaries change: a START already bound to its generation and a      *)
(* generation already observed go on to the dispatch without a write.      *)
(***************************************************************************)
Admit(r) ==
    LET cmd == r.cmd
        known == \/ cmd.action # "start" /\ cmd.gen <= generations[cmd.owner]
                 \/ /\ cmd.action = "start"
                    /\ starts[cmd.owner].gen = cmd.gen
                    /\ cmd.gen <= generations[cmd.owner]
    IN  /\ Fresh(r)
        /\ Contract!Admit(cmd)
        /\ UNCHANGED <<requests, containers>>
        /\ \/ /\ known
              /\ Continue(r, "dispatch", Unavailable)
              /\ UNCHANGED <<disk, persistFailures>>
           \/ /\ ~known
              /\ Persisted
              /\ Continue(r, "dispatch", Unavailable)
           \/ /\ ~known
              /\ PersistFails
              /\ Return(r, Unavailable)

\* The effect.  An error of Docker or of the runner is answered with a 503 and not cached.
Dispatch ==
    /\ current.phase = "dispatch"
    /\ \E out \in DispatchOutcomes(containers, current.req.cmd) :
          /\ containers' = out.cs
          /\ IF out.reply = Unavailable THEN Return(current.req, Unavailable)
                                        ELSE Continue(current.req, "record", out.reply)
    /\ UNCHANGED <<memory, disk, persistFailures>>

\* Faulty variant of Evicted: the bound is off by one.
EvictedLate(cache) == IF Len(cache) > MaxCached + 1 THEN Tail(cache) ELSE cache

\* put_request keeps the newest MaxCached answers.
Evicted(cache) == IF Len(cache) > MaxCached THEN Tail(cache) ELSE cache

Record ==
    /\ current.phase = "record"
    /\ requests' = Evicted(Append(requests, Entry(current.req, current.reply)))
    /\ UNCHANGED <<generations, starts, containers>>
    /\ \/ Persisted /\ Return(current.req, current.reply)
       \/ PersistFails /\ Return(current.req, Unavailable)

\* The process dies and comes back with what the file says.  The file is written with sorted
\* keys, so the age of the cached answers is lost: any order is possible.
Reordered(cache) ==
    {t \in [1..Len(cache) -> Cached(cache)] : Cached(t) = Cached(cache)}

\* Faulty variant of Restored: only what a START has bound is remembered.
RestoredFromStarts(d) == [o \in Owners |-> d.starts[o].gen]

Restored(d) == [o \in Owners |-> Contract!Larger(d.generations[o], d.starts[o].gen)]

Restart ==
    /\ generations' = Restored(disk)
    /\ starts' = disk.starts
    /\ requests' \in Reordered(disk.requests)
    /\ current' = Idle
    /\ answer' = NoAnswer
    /\ UNCHANGED <<disk, containers, persistFailures>>

ContainerEvent(o) ==
    /\ \E s \in Progress(o, containers[o]) : containers' = Evolve(containers, o, s)
    /\ UNCHANGED <<memory, disk, current, answer, persistFailures>>

Next ==
    \/ \E r \in Requests :
          RefuseStale(r) \/ AnswerFromCache(r) \/ RefuseReused(r) \/ Admit(r)
    \/ Dispatch \/ Record \/ Restart
    \/ \E o \in Owners : ContainerEvent(o)

Spec == Init /\ [][Next]_vars

-----------------------------------------------------------------------------
(***************************************************************************)
(* Properties                                                              *)
(***************************************************************************)
Entries == [id : Ids \cup {NullId}, cmd : Commands, reply : Reply]
Phases == [phase : {"dispatch", "record"}, req : Requests, reply : Reply]

TypeOK ==
    /\ generations \in [Owners -> Nat]
    /\ starts \in [Owners -> [gen : Nat, gpus : SUBSET Gpus]]
    /\ requests \in Seq(Entries) /\ Len(requests) <= MaxCached
    /\ disk.generations \in [Owners -> Nat]
    /\ disk.starts \in [Owners -> [gen : Nat, gpus : SUBSET Gpus]]
    /\ disk.requests \in Seq(Entries) /\ Len(disk.requests) <= MaxCached
    /\ containers \in [Owners -> Container]
    /\ current \in {Idle} \cup Phases
    /\ answer \in {NoAnswer} \cup Entries
    /\ persistFailures \in 0..MaxPersistFailures

\* The command service implements the contract: splitting a command at its writes, caching
\* answers and crashing anywhere adds no behaviour of the containers or of the watermark, as
\* long as every write of the state file succeeds.
ImplementsContract ==
    Contract!Init /\ [][persistFailures' = 0 => [Contract!Next]_(Contract!vars)]_vars

\* What the watermark is not needed for: the containers allocate whole GPUs as GpuAllocation says
\* (_assert_gpus_available, prepare_contract_start), across crashes and failed writes of the file.
Held == [o \in Owners |-> HeldByContainer(containers[o])]
Allocation == INSTANCE GpuAllocation WITH held <- Held
ImplementsAllocation == Allocation!Spec

\* Defence in depth (prepare_contract_start): even after failed writes and restarts rolled the
\* watermark back, the generation label alone keeps an old START from replacing a newer
\* container.
LabelsNeverDecrease == [][\A o \in Owners :
    Exists(containers[o]) /\ Exists(containers'[o])
        => containers'[o].gen >= containers[o].gen]_vars

\* An answer a client may act on survives a restart (put_request before the return): the
\* same request can only be executed again once its entry was evicted.  An answer whose write
\* failed is repeated from memory only.
AnswersAreDurable ==
    persistFailures = 0 /\ answer # NoAnswer /\ answer.reply.accepted
        => \E e \in Cached(disk.requests) : e.id = answer.id /\ e.reply = answer.reply
=============================================================================
