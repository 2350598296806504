----------------------------- MODULE MCNodeAgent -----------------------------
(***************************************************************************)
(* Small instances of the command service: a deployment that goes through  *)
(* two generations, the second on another GPU.                             *)
(* Two different commands carry request number 3.                          *)
(***************************************************************************)
EXTENDS NodeAgent

CONSTANTS d, g1, g2

Req(i, a, o, n, gs) ==
    [id |-> i, cmd |-> [action |-> a, owner |-> o, gen |-> n, gpus |-> gs]]

MCRequests ==
    {Req(1, "start", d, 1, {g1}),
     Req(2, "stop", d, 1, {g1}),
     Req(3, "start", d, 2, {g2}),
     Req(3, "start", d, 2, {g1}),
     Req(4, "start", d, 2, {g1})}
=============================================================================
