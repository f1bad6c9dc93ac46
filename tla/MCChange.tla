------------------------------- MODULE MCChange -------------------------------
(* Two work orders of one case and one of another.  Callers may draft for the *)
(* second, under the name of the first or another; for the third, under the   *)
(* name of the first, with either case.                                      *)
EXTENDS ChangeApproval, TLC

MCCaseOf == "w1" :> "c1" @@ "w2" :> "c1" @@ "w3" :> "c2"
MCOwn == "w1" :> "cs1" @@ "w2" :> "cs2" @@ "w3" :> "cs3"
MCDrafts == {<<"cs1", "w2", "h1", "c1">>, <<"cs4", "w2", "h1", "c1">>,
             <<"cs1", "w3", "h1", "c2">>, <<"cs1", "w3", "h1", "c1">>}

Symmetry == Permutations(Releases) \cup Permutations(Grants) \cup Permutations(Reports)

=============================================================================
