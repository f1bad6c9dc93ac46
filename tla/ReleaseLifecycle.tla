--------------------------- MODULE ReleaseLifecycle ---------------------------
(***************************************************************************)
(* What the release controller promises, without keys, grants, handlers or *)
(* messages.  The controller's view of a release (phase) and the candidate *)
(* on Quality (remote) advance separately: Quality takes a step only when  *)
(* the phase authorises it, and the phase claims a step only after Quality *)
(* has taken it.  In between the controller may know it does not know.     *)
(***************************************************************************)
VARIABLES
  phase,      \* how far the controller claims the release has come
  uncertain,  \* the outcome of the step in progress is unknown
  remote      \* the status of the candidate on Quality

vars == <<phase, uncertain, remote>>

Phases == {"requested", "staged", "canarying", "passed", "failing",
           "rolling_back", "completed", "rolled_back", "escalated"}
Remotes == {"draft", "staged", "canary", "active", "rolled_back"}

\* A step: authorised in .in, takes Quality from .from to .to, claims .out.
Steps == {[in |-> "requested",    from |-> "draft",  to |-> "staged",      out |-> "staged"],
          [in |-> "staged",       from |-> "staged", to |-> "canary",      out |-> "canarying"],
          [in |-> "passed",       from |-> "canary", to |-> "active",      out |-> "completed"],
          [in |-> "rolling_back", from |-> "canary", to |-> "rolled_back", out |-> "rolled_back"]}

Init == phase = "requested" /\ uncertain = FALSE /\ remote = "draft"

\* Quality takes the step; one sent before an escalation may still take effect.
Effect(s) ==
  /\ phase = s.in \/ (phase = "escalated" /\ s.in = "rolling_back")
  /\ remote = s.from
  /\ remote' = s.to
  /\ UNCHANGED <<phase, uncertain>>

\* The controller claims the step, whether or not it was in doubt.
Confirm(s) ==
  /\ phase = s.in
  /\ remote = s.to
  /\ phase' = s.out
  /\ uncertain' = FALSE
  /\ UNCHANGED remote

Doubt ==
  /\ phase \in {s.in : s \in Steps}
  /\ ~uncertain
  /\ uncertain' = TRUE
  /\ UNCHANGED <<phase, remote>>

Verify(verdict) ==
  /\ phase = "canarying"
  /\ phase' = verdict
  /\ UNCHANGED <<uncertain, remote>>

StartRollback ==
  /\ phase = "failing"
  /\ phase' = "rolling_back"
  /\ UNCHANGED <<uncertain, remote>>

Escalate ==
  /\ phase = "rolling_back"
  /\ phase' = "escalated"
  /\ uncertain' = FALSE
  /\ UNCHANGED remote

Next ==
  \/ \E s \in Steps : Effect(s) \/ Confirm(s)
  \/ \E verdict \in {"passed", "failing"} : Verify(verdict)
  \/ Doubt \/ StartRollback \/ Escalate

Spec == Init /\ [][Next]_vars
=============================================================================
