--------------------------- MODULE MCAgentContract ---------------------------
(***************************************************************************)
(* A small instance of the node agent's contract: one deployment that is   *)
(* started in two generations on different GPUs, one job whose container   *)
(* may be cleaned up and one whose container never is.                     *)
(***************************************************************************)
EXTENDS AgentAllocation

CONSTANTS d, j, k, g1, g2

Cmd(a, o, n, gs) == [action |-> a, owner |-> o, gen |-> n, gpus |-> gs]

MCCommands ==
    {Cmd(a, d, n, {g1}) : a \in {"stop", "status", "cleanup"}, n \in 1..2}
    \cup {Cmd("start", d, 1, {g1}), Cmd("start", d, 2, {g2}), Cmd("start", d, 2, {g1, g2})}
    \cup {Cmd(a, j, 1, {g2}) : a \in {"start", "stop", "status", "cleanup"}}
    \cup {Cmd(a, k, 1, {g1, g2}) : a \in {"start", "stop", "status"}}
=============================================================================
