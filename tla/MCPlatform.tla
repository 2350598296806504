----------------------------- MODULE MCPlatform -----------------------------
(***************************************************************************)
(* Small instances of the platform on a node with two GPUs.                *)
(***************************************************************************)
EXTENDS PlatformProperties, TLC

CONSTANTS g1, g2

Both == {{g1, g2}}
AnyGroup == {{g1}, {g2}, {g1, g2}}
GpuSymmetry == Permutations({g1, g2})
EitherOrBoth == {{g1}, {g1, g2}}
=============================================================================
