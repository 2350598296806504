------------------------------ MODULE GpuAllocation ------------------------------
(***************************************************************************)
(* What an allocation of whole GPUs promises, whoever keeps it.            *)
(*                                                                         *)
(* An owner is given a group of GPUs at once and for one generation, when  *)
(* it has none and when nobody else has any of them; it gives all of them  *)
(* back at once.  Nothing is ever moved from one owner, or from one        *)
(* generation, to another without being given back in between.  The        *)
(* containers of the node agent and the lease table of the control plane   *)
(* both implement this.                                                    *)
(***************************************************************************)
EXTENDS Naturals

CONSTANTS Owners, Gpus

VARIABLE held   \* owner -> the GPUs it holds, each with the generation it holds it for

Init == held = [o \in Owners |-> {}]

Disjoint(a, b) == \A x \in a, y \in b : x[1] # y[1]

Acquire(o) ==
    LET group == held'[o]
    IN  /\ held[o] = {}
        /\ group \in SUBSET (Gpus \X Nat)
        /\ \A x, y \in group : x[2] = y[2]
        /\ \A p \in Owners : Disjoint(held[p], group)
        /\ held' = [held EXCEPT ![o] = group]

GiveBack(owners) == held' = [o \in Owners |-> IF o \in owners THEN {} ELSE held[o]]

Next ==
    \/ \E o \in Owners : Acquire(o)
    \/ \E owners \in SUBSET Owners : GiveBack(owners)

Spec == Init /\ [][Next]_held
=============================================================================
