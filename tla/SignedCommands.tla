--------------------------- MODULE SignedCommands ---------------------------
(***************************************************************************)
(* The command service behind its signature check.                         *)
(*                                                                         *)
(* Every HTTP request carries a timestamp and a fresh nonce under an HMAC. *)
(* The agent accepts it within a window around its own clock and remembers *)
(* the nonce until it can no longer be accepted; the memory is lost with   *)
(* the process.  The network may lose, delay and repeat requests.  The     *)
(* answer is signed too, and the client reads it strictly: only a signed   *)
(* refusal that names its own request means that nothing was started.      *)
(***************************************************************************)
EXTENDS NodeAgent

CONSTANTS Skew,          \* max_clock_skew_seconds
          MinRetention,  \* the least time a nonce is remembered (60 s in the code)
          SignedAt,      \* request -> the client's clock when it signed the request
          MaxTime        \* bound: the agent's clock

ASSUME SigningAssumption ==
    /\ Skew \in Nat /\ MinRetention \in Nat /\ MaxTime \in Nat
    /\ SignedAt \in [Requests -> Nat]
    /\ NullId \notin Ids

VARIABLES agentTime,     \* the agent's clock
          nonces,        \* request -> until when its nonce is remembered, 0 when it is not
          served,        \* history: how often this process has passed the request on
          launched       \* history: the STARTs whose dispatch made a container, in this process

signing == <<agentTime, nonces, served, launched>>
signedVars == <<vars, signing>>

\* Faulty variant of Retention: the window without its last second.
RetentionWindow == IF MinRetention > 2 * Skew THEN MinRetention ELSE 2 * Skew

Retention == Contract!Larger(MinRetention, 2 * Skew + 1)

SignedInit ==
    /\ Init
    /\ agentTime = 0
    /\ nonces = [r \in Requests |-> 0]
    /\ served = [r \in Requests |-> 0]
    /\ launched = {}

\* Expired nonces are forgotten first, also when the verification then fails.
Remembered == [r \in Requests |-> IF nonces[r] > agentTime THEN nonces[r] ELSE 0]

InWindow(r) ==
    /\ SignedAt[r] <= agentTime + Skew
    /\ agentTime <= SignedAt[r] + Skew

Verified(r) == InWindow(r) /\ Remembered[r] = 0

\* A verified request waits for the lock of the processor; the network may delay it as well, so
\* both are one step.
Serve(r) ==
    /\ Verified(r)
    /\ nonces' = [Remembered EXCEPT ![r] = agentTime + Retention]
    /\ served' = [served EXCEPT ![r] = @ + 1]
    /\ RefuseStale(r) \/ AnswerFromCache(r) \/ RefuseReused(r) \/ Admit(r)
    /\ UNCHANGED <<agentTime, launched>>

\* Faulty variant of Unread: the 401 names the request it refuses.
ReadAnyway(r) == r

Unread(r) == [r EXCEPT !.id = NullId]

\* 401, at any time: the body was not read, so the answer names no request.
Unauthorized(r) ==
    /\ ~Verified(r)
    /\ nonces' = Remembered
    /\ answer' = Entry(Unread(r), Rejected)
    /\ UNCHANGED <<memory, disk, containers, current, persistFailures, agentTime, served, launched>>

Tick ==
    /\ agentTime < MaxTime
    /\ agentTime' = agentTime + 1
    /\ UNCHANGED <<vars, nonces, served, launched>>

Launches(r) ==
    /\ r.cmd.action = "start"
    /\ containers[r.cmd.owner].gen # r.cmd.gen
    /\ containers'[r.cmd.owner].gen = r.cmd.gen

SignedDispatch ==
    /\ Dispatch
    /\ launched' = IF Launches(current.req) THEN launched \cup {current.req} ELSE launched
    /\ UNCHANGED <<agentTime, nonces, served>>

\* The clock goes on; the nonces are in memory only.
SignedRestart ==
    /\ Restart
    /\ nonces' = [r \in Requests |-> 0]
    /\ served' = [r \in Requests |-> 0]
    /\ launched' = {}
    /\ UNCHANGED agentTime

SignedNext ==
    \/ \E r \in Requests : Serve(r) \/ Unauthorized(r)
    \/ Tick
    \/ SignedDispatch
    \/ Record /\ UNCHANGED signing
    \/ SignedRestart
    \/ \E o \in Owners : ContainerEvent(o) /\ UNCHANGED signing

SignedSpec == SignedInit /\ [][SignedNext]_signedVars

-----------------------------------------------------------------------------
(***************************************************************************)
(* What the client that signed r makes of an answer to it: NodeAgentError  *)
(* means that the outcome is unknown.                                      *)
(***************************************************************************)
Conclusion(r, id, reply) ==
    CASE reply = Unavailable \/ id # r.id -> "NodeAgentError"
      [] reply # Unavailable /\ id = r.id /\ reply.accepted -> "accepted"
      [] OTHER -> "rejected"

-----------------------------------------------------------------------------
(***************************************************************************)
(* Properties                                                              *)
(***************************************************************************)

\* A repeated request is executed once by a process (NonceReplayCache): its nonce is remembered
\* for as long as the signature is accepted, whatever the two clocks say.
AtMostOnce == \A r \in Requests : served[r] <= 1

\* The container that the START r made runs.
Runs(r) == containers[r.cmd.owner].gen = r.cmd.gen /\ Active(containers[r.cmd.owner])

\* A refusal can be acted upon (NodeAgentHTTPClient.execute, _fail_start gives the GPUs back):
\* no client concludes that its START was rejected while the container the agent made for it
\* runs, even when the request was repeated and the repetition was answered first.  Trainings
\* are the exception, and the only one: training_metadata may refuse what was just launched.
RefusalsAreTrue ==
    \A r \in launched :
        answer # NoAnswer /\ answer.cmd = r.cmd /\ Runs(r) /\ r.cmd.owner \notin Trainings
            => Conclusion(r, answer.id, answer.reply) # "rejected"
=============================================================================
