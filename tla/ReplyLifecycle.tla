---------------------------- MODULE ReplyLifecycle ----------------------------
(***************************************************************************)
(* What the outbox promises of the reply to a complaint: once owed, it      *)
(* reaches the complainant at most once; it is recorded only after it did;  *)
(* and if it is given up, a human has the case.                             *)
(***************************************************************************)
EXTENDS Naturals

CONSTANTS Releases, Cases, CaseOf

VARIABLES
  reply,      \* what is recorded of the reply to each release
  messages,   \* messages the complainant has received
  case        \* the case aggregates

vars == <<reply, messages>>

Init == reply = [r \in Releases |-> "none"] /\ messages = [r \in Releases |-> 0]

Owe(r) ==
  /\ reply[r] = "none"
  /\ reply' = [reply EXCEPT ![r] = "owed"]
  /\ UNCHANGED messages

\* A call under way when the reply was given up may still be delivered.
Tell(r) ==
  /\ reply[r] \in {"owed", "abandoned"}
  /\ messages[r] = 0
  /\ messages' = [messages EXCEPT ![r] = 1]
  /\ UNCHANGED reply

Record(r) ==
  /\ reply[r] = "owed"
  /\ messages[r] = 1
  /\ reply' = [reply EXCEPT ![r] = "recorded"]
  /\ case'[CaseOf[r]].state = "CLOSED"
  /\ UNCHANGED messages

Abandon(r) ==
  /\ reply[r] = "owed"
  /\ reply' = [reply EXCEPT ![r] = "abandoned"]
  /\ case'[CaseOf[r]].state = "ESCALATED"
  /\ UNCHANGED messages

Next == \E r \in Releases : Owe(r) \/ Tell(r) \/ Record(r) \/ Abandon(r)

Spec == Init /\ [][Next]_vars
=============================================================================
