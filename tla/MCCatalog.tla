----------------------------- MODULE MCCatalog -----------------------------
(***************************************************************************)
(* Constants of the instance of Catalog.                                   *)
(***************************************************************************)
EXTENDS Catalog

CONSTANTS m, t

\* The id of the imported model comes before that of the trained one.
MCRank == [x \in {m, t} |-> IF x = m THEN 1 ELSE 2]
=============================================================================
