---------------------------- MODULE AgentAllocation ----------------------------
(***************************************************************************)
(* The node agent as an allocator: what it promises with nothing but its   *)
(* containers.                                                             *)
(***************************************************************************)
EXTENDS AgentContract

Held == [o \in Owners |-> HeldByContainer(containers[o])]
Allocation == INSTANCE GpuAllocation WITH held <- Held

\* Whatever commands arrive, and however containers end, the agent allocates whole GPUs as
\* GpuAllocation says (_assert_gpus_available, prepare_contract_start): a START takes all GPUs
\* of its command or none, only free ones, and never from a running generation, not even its own.
ImplementsAllocation == Allocation!Spec
=============================================================================
