-------------------------- MODULE MCSignedCommands --------------------------
(***************************************************************************)
(* A small instance of the signed command service: two STARTs of one       *)
(* generation of a deployment, for different GPUs, and the earlier START   *)
(* of an evaluation.                                                       *)
(***************************************************************************)
EXTENDS SignedCommands

CONSTANTS d, e, g1, g2

Req(i, a, o, n, gs) ==
    [id |-> i, cmd |-> [action |-> a, owner |-> o, gen |-> n, gpus |-> gs]]

MCRequests ==
    {Req(1, "start", d, 2, {g1}),
     Req(2, "start", d, 2, {g2}),
     Req(3, "start", e, 1, {g1})}

MCSignedAt == [r \in MCRequests |-> r.cmd.gen]
=============================================================================
