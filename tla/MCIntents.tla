------------------------------ MODULE MCIntents ------------------------------
(* Instances of ExternalIntents: a repairer asks twice for one candidate while *)
(* the fault is injected, or once while it is recovered too.                 *)
EXTENDS ExternalIntents, TLC

MCKindOf == "k1" :> "create" @@ "i1" :> "inject" @@ "r1" :> "recover"
MCKeyOf == [q \in Requests |-> CASE q = "qi" -> "i1" [] q = "qr" -> "r1" [] OTHER -> "k1"]
MCWorkerOf == [q \in Requests |-> "w1"]
MCTeams == {{"q1", "q2", "qi"}, {"q1", "qi", "qr"}}
MCBaseOf == "k1" :> [id |-> "base", rev |-> 1]
=============================================================================
