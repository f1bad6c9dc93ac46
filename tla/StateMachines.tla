---------------------------- MODULE StateMachines ----------------------------
(***************************************************************************)
(* The transition tables of services/state_machines.py and the rule by     *)
(* which next_state picks a row.  A row is <<from, event, guard, to>>; the  *)
(* guard Free is Python's None and the state AnyState is the wildcard "*".       *)
(***************************************************************************)

Free == "-"
AnyState == "*"

(* The release machine. *)
ReleaseTable == {
  <<"REQUESTED",    "release.staged",                 Free, "STAGING">>,
  <<"STAGING",      "release.canary_started",         Free, "CANARYING">>,
  <<"CANARYING",    "release.verification_completed", Free, "VERIFYING">>,
  <<"VERIFYING",    "release.promoted",         "passed", "COMPLETED">>,
  <<"VERIFYING",    "release.rollback_started", "failed", "ROLLING_BACK">>,
  <<"VERIFYING",    "release.rollback_started", "error",  "ROLLING_BACK">>,
  <<"PROMOTING",    "release.promoted",               Free, "COMPLETED">>,
  <<"ROLLING_BACK", "release.rolled_back",            Free, "ROLLED_BACK">>,
  <<"ROLLING_BACK", "release.rollback_failed",        Free, "FAILED_ESCALATED">>,
  <<"REQUESTED",    "release.unknown_detected",       Free, "UNKNOWN">>,
  <<"STAGING",      "release.unknown_detected",       Free, "UNKNOWN">>,
  <<"CANARYING",    "release.unknown_detected",       Free, "UNKNOWN">>,
  <<"VERIFYING",    "release.unknown_detected",       Free, "UNKNOWN">>,
  <<"PROMOTING",    "release.unknown_detected",       Free, "UNKNOWN">>,
  <<"ROLLING_BACK", "release.unknown_detected",       Free, "UNKNOWN">>,
  <<"UNKNOWN", "release.reconciled", "resume",          "REQUESTED">>,
  <<"UNKNOWN", "release.reconciled", "apply_canary",    "STAGING">>,
  <<"UNKNOWN", "release.reconciled", "confirm_promote", "VERIFYING">>,
  <<"UNKNOWN", "release.reconciled", "compensate",      "ROLLING_BACK">>,
  <<"UNKNOWN",      "release.rollback_failed",        Free, "FAILED_ESCALATED">> }

ReleaseStates == {"REQUESTED", "STAGING", "CANARYING", "VERIFYING",
                  "PROMOTING", "COMPLETED", "ROLLING_BACK", "ROLLED_BACK",
                  "UNKNOWN", "FAILED_ESCALATED"}

(* The case machine. *)
CaseTable == {
  <<"RECEIVED",     "case.opened",              Free, "OPEN">>,
  <<"RECEIVED",     "case.duplicate_dismissed", Free, "DUPLICATE_DISMISSED">>,
  <<"OPEN",         "case.merged",              Free, "MERGED">>,
  <<"OPEN",         "case.dispatched",          Free, "DISPATCHED">>,
  <<"DISPATCHED",   "case.worker_lost",         Free, "OPEN">>,
  <<"DISPATCHED",   "experiment.requested",     Free, "ATTRIBUTING">>,
  <<"DISPATCHED",   "experiment.resumed",       Free, "ATTRIBUTING">>,
  <<"ATTRIBUTING",  "experiment.runner_lost",   Free, "DISPATCHED">>,
  <<"ATTRIBUTING",  "case.attribution_completed", "ATTRIBUTED", "AWAITING_FIX">>,
  <<"AWAITING_FIX", "case.worker_handed_off",   Free, "AWAITING_FIX">>,
  <<"ATTRIBUTING",  "case.escalated",           Free, "ESCALATED">>,
  <<"AWAITING_FIX", "changeset.approval_requested", Free, "AWAITING_APPROVAL">>,
  <<"AWAITING_APPROVAL", "changeset.approved",  Free, "RELEASING">>,
  <<"AWAITING_APPROVAL", "changeset.rejected",  Free, "AWAITING_FIX">>,
  <<"AWAITING_APPROVAL", "changeset.expired",   Free, "AWAITING_FIX">>,
  <<"RELEASING",    "case.resolved",            Free, "NOTIFYING">>,
  <<"RELEASING",    "release.rollback_failed",  Free, "ESCALATED">>,
  <<"NOTIFYING",    "case.closed",              Free, "CLOSED">>,
  <<"NOTIFYING",    "notification.dead_lettered", Free, "ESCALATED">>,
  <<AnyState,            "case.escalated",           Free, "ESCALATED">>,
  <<"ESCALATED",    "case.reopened",            Free, "OPEN">> }

CaseStates == {"RECEIVED", "OPEN", "DISPATCHED", "ATTRIBUTING", "AWAITING_FIX",
               "AWAITING_APPROVAL", "RELEASING", "NOTIFYING", "ESCALATED",
               "CLOSED", "MERGED", "DUPLICATE_DISMISSED"}

(* The experiment machine. *)
ExperimentTable == {
  <<"REQUESTED",       "experiment.protocol_frozen",  Free, "PROTOCOL_FROZEN">>,
  <<"REQUESTED",       "experiment.runner_lost",      Free, "REQUESTED">>,
  <<"PROTOCOL_FROZEN", "experiment.started",          Free, "RUNNING">>,
  <<"PROTOCOL_FROZEN", "experiment.runner_lost",      Free, "PROTOCOL_FROZEN">>,
  <<"RUNNING",         "experiment.runner_lost",      Free, "PROTOCOL_FROZEN">>,
  <<"RUNNING",         "experiment.trial_completed",  Free, "RUNNING">>,
  <<"RUNNING",         "experiment.cell_completed",   Free, "RUNNING">>,
  <<"RUNNING",         "experiment.verdict_computed", Free, "VERDICT_COMPUTED">>,
  <<"VERDICT_COMPUTED", "experiment.escalated_full_factorial", "CONFOUNDED",
                                                            "PROTOCOL_FROZEN">>,
  <<AnyState,          "experiment.cancelled",        Free, "CANCELLED">> }

ExperimentStates == {"REQUESTED", "PROTOCOL_FROZEN", "RUNNING", "ANALYZING",
                     "VERDICT_COMPUTED", "CANCELLED"}

(* The changeset machine. *)
ChangesetTable == {
  <<"DRAFTED",           "changeset.gate_attached",      Free, "GATE_ATTACHED">>,
  <<"DRAFTED",           "changeset.drafted",            Free, "SUPERSEDED">>,
  <<"GATE_ATTACHED",     "changeset.approval_requested", Free, "AWAITING_APPROVAL">>,
  <<"AWAITING_APPROVAL", "changeset.approved",           Free, "APPROVED">>,
  <<"AWAITING_APPROVAL", "changeset.rejected",           Free, "REJECTED">>,
  <<"AWAITING_APPROVAL", "changeset.expired",            Free, "EXPIRED">>,
  <<"APPROVED",          "changeset.committed",          Free, "COMMITTED">>,
  <<"APPROVED",          "changeset.expired",            Free, "EXPIRED">> }

ChangesetStates == {"DRAFTED", "GATE_ATTACHED", "AWAITING_APPROVAL", "APPROVED",
                    "COMMITTED", "REJECTED", "EXPIRED", "SUPERSEDED"}

(* The eval machine. *)
EvalTable == {
  <<"REQUESTED", "eval.started",              Free,              "RUNNING">>,
  <<"REQUESTED", "eval.report_received",      Free,              "RUNNING">>,
  <<"RUNNING",   "eval.rule_track_completed", Free,              "RUNNING">>,
  <<"RUNNING",   "eval.judge_track_completed", Free,             "RUNNING">>,
  <<"RUNNING",   "eval.passed",               Free,              "PASSED">>,
  <<"RUNNING",   "eval.failed",               Free,              "FAILED">>,
  <<"RUNNING",   "eval.error",                "retryable=true",  "REQUESTED">>,
  <<"RUNNING",   "eval.error",                "retryable=false", "FAILED">> }

EvalStates == {"REQUESTED", "RUNNING", "PASSED", "FAILED"}

(* The notification machine. *)
NotificationTable == {
  <<"QUEUED",   "notification.sent",            Free,            "SENT">>,
  <<"QUEUED",   "notification.failed",          "retryable",     "RETRYING">>,
  <<"QUEUED",   "notification.failed",          "not_retryable", "DEAD_LETTERED">>,
  <<"SENDING",  "notification.sent",            Free,            "SENT">>,
  <<"SENDING",  "notification.failed",          "retryable",     "RETRYING">>,
  <<"SENDING",  "notification.failed",          "not_retryable", "DEAD_LETTERED">>,
  <<"RETRYING", "notification.retry_scheduled", Free,            "QUEUED">>,
  <<"RETRYING", "notification.dead_lettered",   Free,            "DEAD_LETTERED">> }

NotificationStates == {"QUEUED", "SENDING", "RETRYING", "SENT", "DEAD_LETTERED"}

(***************************************************************************)
(* next_state(machine, from, event, guard) = to.  A row whose guard is the  *)
(* caller's wins; otherwise an unguarded row is the fallback; a caller that *)
(* names no guard may only take an unguarded row.  Where no row qualifies   *)
(* IllegalTransition is raised: no "to" satisfies the predicate.            *)
(***************************************************************************)
NextState(table, from, event, guard, to) ==
  LET Candidate(row) == row[2] = event /\ (row[1] = from \/ row[1] = AnyState)
      ExactMatch     == \E row \in table : Candidate(row) /\ row[3] = guard
  IN \E row \in table :
       /\ Candidate(row)
       /\ row[4] = to
       /\ \/ row[3] = guard
          \/ row[3] = Free /\ ~ExactMatch

=============================================================================
