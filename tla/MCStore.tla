------------------------------ MODULE MCStore ------------------------------
(* Two records, one of them also in the archive; two destinations; one     *)
(* account; server positions up to 2.                                      *)
EXTENDS Store, TLC

CONSTANTS m1, text, none

MCArchive == [i \in Ids |-> IF i = 1 THEN [meta |-> m1, content |-> text] ELSE None]
Symmetry == Permutations(Dests)
============================================================================
