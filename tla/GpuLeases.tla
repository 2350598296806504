------------------------------ MODULE GpuLeases ------------------------------
(***************************************************************************)
(* The GPU lease table of the scheduler, as operators on a set of rows.    *)
(*                                                                         *)
(* A row leases one whole GPU to one generation of a workload.  Expiry is  *)
(* a mark on the row: time passing sets it, a heartbeat clears it.  Every  *)
(* operator is one call of GPULeaseManager inside its caller's             *)
(* transaction.                                                            *)
(***************************************************************************)
EXTENDS Naturals, FiniteSets

LeaseRows(owners, gpus) == [gpu : gpus, owner : owners, gen : Nat, expired : BOOLEAN]

Owned(leases, o) == {l \in leases : l.owner = o}
OwnedAt(leases, o, gen) == {l \in leases : l.owner = o /\ l.gen = gen}
GpusOf(ls) == {l.gpu : l \in ls}
Renewed(ls) == {[l EXCEPT !.expired = FALSE] : l \in ls}

\* Faulty variant of LeaseInvariantError: an owner's own leases are taken over.
NeverLeaseInvariantError(leases, o, gen, gpus) == FALSE

\* try_acquire_locked.  An owner that already holds leases must hold exactly the requested
\* group at the requested generation; anything else raises LeaseInvariantError.
LeaseInvariantError(leases, o, gen, gpus) ==
    LET owned == Owned(leases, o)
    IN  owned # {} /\ (GpusOf(owned) # gpus \/ {l.gen : l \in owned} # {gen})

Blocked(leases, o, gpus) ==
    Owned(leases, o) = {} /\ GpusOf(leases) \cap gpus # {}

Acquired(leases, o, gen, gpus) ==
    (leases \ Owned(leases, o))
        \cup [gpu : gpus, owner : {o}, gen : {gen}, expired : {FALSE}]

Heartbeat(leases, o, gen) ==
    LET mine == OwnedAt(leases, o, gen) IN (leases \ mine) \cup Renewed(mine)

Release(leases, o, gen) == leases \ OwnedAt(leases, o, gen)

\* confirm_absent_and_release_leases drops every generation of the owner.
ReleaseAll(leases, o) == leases \ Owned(leases, o)

\* Faulty variant of Reaped: expiry alone frees a GPU.
ReapedByTime(leases, confirmed) == {l \in leases : ~l.expired}

\* reap_expired_locked removes the expired rows of the confirmed <<owner, generation>> keys.
Reaped(leases, confirmed) ==
    {l \in leases : ~(l.expired /\ <<l.owner, l.gen>> \in confirmed)}

\* A group expires as a whole: its rows carry one expires_at.
Expired(leases, o, gen) ==
    LET mine == OwnedAt(leases, o, gen)
    IN  (leases \ mine) \cup {[l EXCEPT !.expired = TRUE] : l \in mine}
=============================================================================
