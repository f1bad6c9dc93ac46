------------------------------- MODULE MCOutbox -------------------------------
(* Instances of OutboxDispatcher: a release's name says whose case it is for. *)
EXTENDS OutboxDispatcher, TLC

MCCaseOf == [r \in Releases |-> IF r \in {"b1", "b2"} THEN "caseB" ELSE "caseA"]
=============================================================================
