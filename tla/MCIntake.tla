------------------------------- MODULE MCIntake -------------------------------
(* Instances of ComplaintIntake: one Feishu message, which is also posted by    *)
(* its id, and a polled complaint without one in two spellings.                *)
EXTENDS ComplaintIntake, TLC

CONSTANTS r1, r2, r3, c1, c2, c3

MCRequests == {r1, r2, r3}
MCCases == {c1, c2, c3}
MCFingerprint == "b1" :> "p1" @@ " B1" :> "p1"
Complaint(source, id, text, thread) ==
  [source |-> source, id |-> id, text |-> text, thread |-> thread]
MCComplaints == {Complaint("webhook", "m1", "b1", None),
                 Complaint("poll", None, "b1", "t1"),
                 Complaint("poll", None, " B1", None)}
Symmetry == Permutations(MCRequests) \cup Permutations(MCCases)
=============================================================================
