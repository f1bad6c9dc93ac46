----------------------------- MODULE MCFirstCase -----------------------------
(* One workspace, set up by the bootstrap of the catalog; a second bootstrap, *)
(* of stage 1A, is there where the constants name it.                         *)
EXTENDS IssueFiling, TLC

CONSTANTS catalog, intake, p1, p2
OnlyCatalog == {catalog}
Both == {catalog, intake}
Shells == {p1, p2}
Symmetry == Permutations(Shells)
=============================================================================
