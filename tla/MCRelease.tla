------------------------------ MODULE MCRelease ------------------------------
(* Instances of ReleaseController: a key's name says which step it is for.   *)
EXTENDS ReleaseController, TLC

MCKindOf ==
  [k \in Keys |-> CASE k \in {"s1", "s2"} -> "stage"
                    [] k \in {"c1", "c2"} -> "canary"
                    [] k \in {"p1", "p2"} -> "promote"
                    [] k \in {"r1", "r2"} -> "rollback"]

Symmetry == Permutations(Grants)
=============================================================================
