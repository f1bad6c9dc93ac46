-------------------------- MODULE ReleaseController --------------------------
(***************************************************************************)
(* One release driven by services/release_service.py against the Quality   *)
(* API.  A writer is the handler that runs _write_step for one              *)
(* Idempotency-Key: it reads the aggregate, commits an operation intent,    *)
(* calls Quality, and records what it heard, each in a transaction of its   *)
(* own.  Writers of different keys, retries of a key, reconcilers, the      *)
(* asynchronous Quality operations and the lossy network interleave, and    *)
(* any handler may die between two of its steps.                            *)
(*                                                                         *)
(* Abstractions.  A key is used for one kind of step (the code refuses the  *)
(* reuse of a key for another kind without any effect).  Digests, expiries  *)
(* and hash chains that make a handler raise before it commits are the      *)
(* action Abandon.  The reads of the candidate VersionSet that precede a    *)
(* commit are taken together with the read of the aggregate: Quality's      *)
(* revision only grows, so a later read can only fail more often.           *)
(***************************************************************************)
EXTENDS Naturals, FiniteSets, StateMachines

CONSTANTS
  Keys,          \* Idempotency-Keys
  KindOf,        \* the lifecycle step each key is used for
  Grants,        \* action ApprovalGrants a human may register
  Reasons,       \* rollback reasons
  Reconcilers,   \* concurrent callers of reconcile
  Faulty,        \* keys whose handler may die or be retried, or messages be lost
  Doomed,        \* keys whose accepted Quality operation may end in failure
  None           \* Python's None, for keys, grants and reasons

Kinds == {"stage", "canary", "promote", "rollback"}

ASSUME KindAssumption == KindOf \in [Keys -> Kinds]
ASSUME NoneAssumption == None \notin Keys \cup Grants \cup Reasons
ASSUME FaultAssumption == Faulty \subseteq Keys /\ Doomed \subseteq Keys

VARIABLES
  rel,        \* the release aggregate
  closure,    \* is the ReleaseClosure row configured?
  op,         \* the controller_operations row of each key
  grant,      \* the approvals table
  pc,         \* where the writer of each key is
  req,        \* what that writer read: expected revision, aggregate revision
  inflight,   \* keys with a lifecycle request on its way to Quality
  quality,    \* the candidate VersionSet: status and revision
  qop,        \* the Quality operation of each key
  rec         \* the reconcilers

vars == <<rel, closure, op, grant, pc, req, inflight, quality, qop, rec>>

writerVars   == <<pc, req>>
externalVars == <<inflight, quality, qop>>
-----------------------------------------------------------------------------
(* The lifecycle steps. *)

BaseRevision == 1        \* the revision the pre-release gate approved

\* The aggregate state from which a step runs, and to which reconcile returns.
FromState(kind) == CASE kind = "stage"    -> "REQUESTED"
                     [] kind = "canary"   -> "STAGING"
                     [] kind = "promote"  -> "VERIFYING"
                     [] kind = "rollback" -> "ROLLING_BACK"

SuccessState(kind) == CASE kind = "stage"    -> "STAGING"
                        [] kind = "canary"   -> "CANARYING"
                        [] kind = "promote"  -> "COMPLETED"
                        [] kind = "rollback" -> "ROLLED_BACK"

SuccessEvent(kind) == CASE kind = "stage"    -> "release.staged"
                        [] kind = "canary"   -> "release.canary_started"
                        [] kind = "promote"  -> "release.promoted"
                        [] kind = "rollback" -> "release.rolled_back"

ReconcileAction(kind) == CASE kind = "stage"    -> "resume"
                           [] kind = "canary"   -> "apply_canary"
                           [] kind = "promote"  -> "confirm_promote"
                           [] kind = "rollback" -> "compensate"

\* The status Quality reports before and after the transition of a step.
RemoteBefore(kind) == CASE kind = "stage"    -> {"draft"}
                        [] kind = "canary"   -> {"staged"}
                        [] kind = "promote"  -> {"canary"}
                        [] kind = "rollback" -> {"canary", "active"}

RemoteAfter(kind) == CASE kind = "stage"    -> "staged"
                       [] kind = "canary"   -> "canary"
                       [] kind = "promote"  -> "active"
                       [] kind = "rollback" -> "rolled_back"

Failing == {"failed", "error"}

\* The revision the authorised step must find on Quality.
ExpectedRevision(kind) == CASE kind = "stage"  -> BaseRevision
                            [] kind = "canary" -> rel.remoteRev
                            [] OTHER           -> rel.targetRev

Legal(r, event, guard, to) == NextState(ReleaseTable, r.state, event, guard, to)

\* Mutant: an action is approved whatever the verification said.
ActionAllowedUnverified(kind) ==
  CASE kind = "canary"                 -> rel.state = "STAGING"
    [] kind \in {"promote", "rollback"} -> rel.state \in {"VERIFYING", "ROLLING_BACK"}
    [] OTHER                           -> FALSE

\* _expected_action_context: the states in which an R2 action may be approved.
ActionAllowed(kind) ==
  CASE kind = "canary"   -> rel.state = "STAGING"
    [] kind = "promote"  -> rel.state = "VERIFYING" /\ rel.verification = "passed"
    [] kind = "rollback" -> /\ rel.state \in {"VERIFYING", "ROLLING_BACK"}
                            /\ rel.verification \in Failing
    [] OTHER             -> FALSE

\* The checks of _write_step on the aggregate it read.
StepAllowed(kind) ==
  IF kind = "stage"
  THEN rel.state = "REQUESTED" /\ rel.unknownOp = None
  ELSE /\ ActionAllowed(kind)
       /\ kind # "rollback" => rel.unknownOp = None
       /\ kind = "promote" => closure

-----------------------------------------------------------------------------
(* The aggregate after an event.                                            *)

\* _apply_success: the receipt of an applied operation carries exp + 1.
CanApply(r, kind) ==
  /\ Legal(r, SuccessEvent(kind), IF kind = "promote" THEN "passed" ELSE Free,
           SuccessState(kind))
  /\ kind = "promote" => r.state = "VERIFYING" /\ r.verification = "passed"

ApplySuccess(r, kind, exp) ==
  [r EXCEPT !.state     = SuccessState(kind),
            !.revision  = @ + 1,
            !.remoteRev = IF kind = "rollback" THEN @ ELSE exp + 1]

\* _enter_unknown: the guard on the aggregate, then the event and the marker.
CanEnterUnknown(k) ==
  /\ rel.state = FromState(KindOf[k])
  /\ Legal(rel, "release.unknown_detected", Free, "UNKNOWN")

EnterUnknown(k) ==
  /\ rel' = [rel EXCEPT !.state = "UNKNOWN", !.revision = @ + 1, !.unknownOp = k]
  /\ op' = [op EXCEPT ![k].status = "unknown"]

\* _escalate_rollback_failure; the unknown marker stays in the payload.
EscalateRollback ==
  /\ rel.state \in {"ROLLING_BACK", "UNKNOWN"}
  /\ Legal(rel, "release.rollback_failed", Free, "FAILED_ESCALATED")
  /\ rel' = [rel EXCEPT !.state = "FAILED_ESCALATED", !.revision = @ + 1]
-----------------------------------------------------------------------------
Init ==
  /\ rel = [state |-> "REQUESTED", revision |-> 1, verification |-> "none",
            remoteRev |-> 0, targetRev |-> 0, reason |-> None, unknownOp |-> None]
  /\ closure = FALSE
  /\ op = [k \in Keys |-> [status |-> "none", grant |-> None, exp |-> 0, rid |-> FALSE]]
  /\ grant = [g \in Grants |-> [status |-> "none", action |-> "stage", target |-> 0,
                                reason |-> None, key |-> None]]
  /\ pc = [k \in Keys |-> "idle"]
  /\ req = [k \in Keys |-> [exp |-> 0, cas |-> 0]]
  /\ inflight = {}
  /\ quality = [status |-> "draft", revision |-> BaseRevision]
  /\ qop = [k \in Keys |-> "none"]
  /\ rec = [r \in Reconcilers |-> [pc |-> "idle", key |-> None, cas |-> 0,
                                   rid |-> FALSE, answer |-> "none"]]

(***************************************************************************)
(* The transitions outside _write_step.                                    *)
(***************************************************************************)

\* configure_closure: once, before a terminal state.
ConfigureClosure ==
  /\ ~closure
  /\ rel.state \notin {"COMPLETED", "ROLLED_BACK", "FAILED_ESCALATED"}
  /\ closure' = TRUE
  /\ UNCHANGED <<rel, op, grant, pc, req, inflight, quality, qop, rec>>

\* record_verification: the gate report must target the revision Quality has.
RecordVerification(result) ==
  /\ rel.state = "CANARYING"
  /\ Legal(rel, "release.verification_completed", Free, "VERIFYING")
  /\ rel' = [rel EXCEPT !.state = "VERIFYING", !.revision = @ + 1,
                        !.verification = result, !.targetRev = quality.revision]
  /\ UNCHANGED <<closure, op, grant, pc, req, inflight, quality, qop, rec>>

\* grant_approval of an action grant, validated against the current state.
RegisterGrant(g, kind, reason) ==
  /\ grant[g].status = "none"
  /\ ActionAllowed(kind)
  /\ kind \in {"promote", "rollback"} => quality.revision = rel.targetRev
  /\ (reason # None) <=> (kind = "rollback")
  /\ grant' = [grant EXCEPT ![g] = [status |-> "pending", action |-> kind,
                                    target |-> ExpectedRevision(kind),
                                    reason |-> reason, key |-> None]]
  /\ UNCHANGED <<rel, closure, op, pc, req, inflight, quality, qop, rec>>

(***************************************************************************)
(* The writer of a key.                                                    *)
(***************************************************************************)

\* First transaction, reads only: no row for the key, the step is allowed,
\* and Quality stands at the authorised revision.
Begin(k) ==
  /\ pc[k] = "idle"
  /\ op[k].status = "none"
  /\ StepAllowed(KindOf[k])
  /\ quality.revision = ExpectedRevision(KindOf[k])
  /\ pc' = [pc EXCEPT ![k] = "read"]
  /\ req' = [req EXCEPT ![k] =
       [exp |-> quality.revision,
        cas |-> IF KindOf[k] = "rollback" /\ rel.state = "VERIFYING"
                THEN rel.revision ELSE 0]]
  /\ UNCHANGED <<rel, closure, op, grant, inflight, quality, qop, rec>>

\* Any validation that raises, or a crash, before the commit.
Abandon(k) ==
  /\ pc[k] = "read"
  /\ pc' = [pc EXCEPT ![k] = "idle"]
  /\ req' = [req EXCEPT ![k] = [exp |-> 0, cas |-> 0]]
  /\ UNCHANGED <<rel, closure, op, grant, inflight, quality, qop, rec>>

\* Mutant: the status of the grant is not read again under the lock.
ConsumableTwice(g, k) ==
  /\ grant[g].status # "none"
  /\ grant[g].action = KindOf[k]
  /\ grant[g].target = req[k].exp

\* The grant row is locked and re-read; it must bind this very step.
Consumable(g, k) ==
  /\ grant[g].status = "pending"
  /\ grant[g].action = KindOf[k]
  /\ grant[g].target = req[k].exp

\* _consume_action_grant and the insertion of the pending row.
Intend(k, g) ==
  /\ pc[k] = "read"
  /\ IF KindOf[k] = "stage" THEN g = None /\ UNCHANGED grant
     ELSE /\ g \in Grants
          /\ Consumable(g, k)
          /\ grant' = [grant EXCEPT ![g].status = "consumed", ![g].key = k]
  /\ op' = [op EXCEPT ![k] = [status |-> "pending", grant |-> g,
                              exp |-> req[k].exp, rid |-> FALSE]]
  /\ pc' = [pc EXCEPT ![k] = "committed"]
  /\ UNCHANGED <<closure, req, inflight, quality, qop, rec>>

\* The commit of the intent.  Only a rollback read in VERIFYING appends an
\* event, and so compares the aggregate revision with the one it read.
CommitIntent(k, g) ==
  /\ Intend(k, g)
  /\ IF KindOf[k] # "rollback" \/ req[k].cas = 0 THEN UNCHANGED rel
     ELSE /\ rel.revision = req[k].cas
          /\ Legal(rel, "release.rollback_started", rel.verification, "ROLLING_BACK")
          /\ rel.unknownOp = None
          /\ rel' = [rel EXCEPT !.state = "ROLLING_BACK", !.revision = @ + 1,
                                !.reason = grant[g].reason]

\* The lifecycle call leaves the controller.
Send(k) ==
  /\ pc[k] = "committed"
  /\ pc' = [pc EXCEPT ![k] = "waiting"]
  /\ inflight' = inflight \cup {k}
  /\ UNCHANGED <<rel, closure, op, grant, req, quality, qop, rec>>

\* The remote identity is committed before polling.
RecordRemoteId(k) ==
  /\ pc[k] = "answered"
  /\ op' = [op EXCEPT ![k].rid = TRUE]
  /\ pc' = [pc EXCEPT ![k] = "polling"]
  /\ UNCHANGED <<rel, closure, grant, req, inflight, quality, qop, rec>>

\* Mutant: an accepted operation is taken for an applied one.
PollAccepted(k) ==
  /\ pc[k] = "polling"
  /\ pc' = [pc EXCEPT ![k] = "succeeded"]
  /\ UNCHANGED <<rel, closure, op, grant, req, inflight, quality, qop, rec>>

\* _poll_operation: a terminal answer, or the timeout / 410 that ends in "lost".
Poll(k) ==
  /\ \/ pc[k] = "polling" /\ qop[k] \in {"succeeded", "failed"}
                          /\ pc' = [pc EXCEPT ![k] = qop[k]]
     \/ /\ k \in Faulty
        /\ pc[k] \in {"waiting", "polling"}
        /\ pc' = [pc EXCEPT ![k] = "lost"]
  /\ UNCHANGED <<rel, closure, op, grant, req, inflight, quality, qop, rec>>

\* An HTTP error other than 410 reaches the writer: 401, 404, 429, a 5xx of
\* Quality's or of a gateway's.  It is taken for a rejection, whatever has
\* become of the request.
HttpError(k) ==
  /\ k \in Faulty
  /\ pc[k] = "waiting"
  /\ pc' = [pc EXCEPT ![k] = "rejected"]
  /\ UNCHANGED <<rel, closure, op, grant, req, inflight, quality, qop, rec>>

\* The receipt is valid: operation and aggregate advance in one transaction.
RecordSuccess(k) ==
  /\ pc[k] = "succeeded"
  /\ CanApply(rel, KindOf[k])
  /\ rel' = ApplySuccess(rel, KindOf[k], op[k].exp)
  /\ op' = [op EXCEPT ![k].status = "succeeded"]
  /\ pc' = [pc EXCEPT ![k] = "done"]
  /\ UNCHANGED <<closure, grant, req, inflight, quality, qop, rec>>

\* A definite rejection or a failed operation.  The failed row is committed
\* first; a rollback then escalates in a transaction of its own.
RecordFailure(k) ==
  /\ pc[k] \in {"rejected", "failed"}
  /\ op' = [op EXCEPT ![k].status = "failed"]
  /\ pc' = [pc EXCEPT ![k] = IF KindOf[k] = "rollback" THEN "escalating" ELSE "done"]
  /\ UNCHANGED <<rel, closure, grant, req, inflight, quality, qop, rec>>

Escalate(k) ==
  /\ pc[k] = "escalating"
  /\ EscalateRollback
  /\ pc' = [pc EXCEPT ![k] = "done"]
  /\ UNCHANGED <<closure, op, grant, req, inflight, quality, qop, rec>>

\* The outcome is unknown to the writer that made the call.
RecordUnknown(k) ==
  /\ pc[k] = "lost"
  /\ CanEnterUnknown(k)
  /\ EnterUnknown(k)
  /\ pc' = [pc EXCEPT ![k] = "done"]
  /\ UNCHANGED <<closure, grant, req, inflight, quality, qop, rec>>

\* A second call with the key finds its row still pending.
Retry(k) ==
  /\ k \in Faulty
  /\ op[k].status = "pending"
  /\ CanEnterUnknown(k)
  /\ EnterUnknown(k)
  /\ UNCHANGED <<closure, grant, pc, req, inflight, quality, qop, rec>>

\* The handler dies, or the transaction it is in raises and is rolled back.
Crash(k) ==
  /\ k \in Faulty
  /\ pc[k] \notin {"idle", "read", "done"}
  /\ pc' = [pc EXCEPT ![k] = "done"]
  /\ UNCHANGED <<rel, closure, op, grant, req, inflight, quality, qop, rec>>

(***************************************************************************)
(* The Quality API and the network.                                        *)
(***************************************************************************)

\* A known key replays its operation; a new one needs the current revision.
Accepts(k) ==
  \/ qop[k] # "none"
  \/ /\ quality.revision = op[k].exp
     /\ quality.status \in RemoteBefore(KindOf[k])

Accepted(k) == IF qop[k] = "none" /\ Accepts(k)
               THEN [qop EXCEPT ![k] = "pending"] ELSE qop

\* A request arrives; the answer reaches a writer still waiting, or is lost.
QualityReceives(k) ==
  /\ k \in inflight
  /\ inflight' = inflight \ {k}
  /\ qop' = Accepted(k)
  /\ \/ /\ pc[k] = "waiting"
        /\ pc' = [pc EXCEPT ![k] = IF Accepts(k) THEN "answered" ELSE "rejected"]
     \/ /\ pc[k] # "waiting" \/ k \in Faulty
        /\ UNCHANGED pc
  /\ UNCHANGED <<rel, closure, op, grant, req, quality, rec>>

NetworkLoses(k) ==
  /\ k \in Faulty
  /\ k \in inflight
  /\ inflight' = inflight \ {k}
  /\ UNCHANGED <<rel, closure, op, grant, pc, req, quality, qop, rec>>

\* The asynchronous operation runs under the compare-and-set it was accepted with.
QualityApplies(k) ==
  /\ qop[k] = "pending"
  /\ quality.revision = op[k].exp
  /\ quality' = [status |-> RemoteAfter(KindOf[k]), revision |-> quality.revision + 1]
  /\ qop' = [qop EXCEPT ![k] = "succeeded"]
  /\ UNCHANGED <<rel, closure, op, grant, pc, req, inflight, rec>>

QualityFails(k) ==
  /\ k \in Doomed
  /\ qop[k] = "pending"
  /\ qop' = [qop EXCEPT ![k] = "failed"]
  /\ UNCHANGED <<rel, closure, op, grant, pc, req, inflight, quality, rec>>

(***************************************************************************)
(* reconcile: one transaction around an exact replay of the unknown step.  *)
(***************************************************************************)

\* _validate_reconcile_operation_authorization.
Reconcilable(k) ==
  LET kind == KindOf[k]  g == op[k].grant
  IN /\ op[k].status = "unknown"
     /\ kind # "stage" =>
          /\ op[k].exp = ExpectedRevision(kind)
          /\ grant[g].status = "consumed" /\ grant[g].key = k
          /\ grant[g].action = kind /\ grant[g].target = op[k].exp
     /\ kind = "promote" => rel.verification = "passed"
     /\ kind = "rollback" => rel.verification \in Failing /\ grant[g].reason = rel.reason

\* Mutant: only an operation whose remote identity is known is replayed.
ReconcileStartKnown(r) ==
  /\ rec[r].pc = "idle"
  /\ rel.unknownOp # None
  /\ op[rel.unknownOp].rid
  /\ Reconcilable(rel.unknownOp)
  /\ rec' = [rec EXCEPT ![r] = [pc |-> "replay", key |-> rel.unknownOp, cas |-> rel.revision,
                                rid |-> TRUE, answer |-> "none"]]
  /\ UNCHANGED <<rel, closure, op, grant, pc, req, inflight, quality, qop>>

ReconcileStart(r) ==
  /\ rec[r].pc = "idle"
  /\ rel.unknownOp # None
  /\ Reconcilable(rel.unknownOp)
  /\ rec' = [rec EXCEPT ![r] = [pc |-> "replay", key |-> rel.unknownOp, cas |-> rel.revision,
                                rid |-> op[rel.unknownOp].rid, answer |-> "none"]]
  /\ UNCHANGED <<rel, closure, op, grant, pc, req, inflight, quality, qop>>

\* The replay arrives or is lost or delayed; when it arrived and was accepted
\* the answer may say so, and in any case it may be an HTTP error or none.
ReconcileReplay(r) ==
  LET k == rec[r].key
  IN /\ rec[r].pc = "replay"
     /\ \/ /\ Accepts(k)
           /\ qop' = Accepted(k)
           /\ rec' = [rec EXCEPT ![r].pc = "observe", ![r].answer = "accepted",
                                 ![r].rid = TRUE]
           /\ UNCHANGED inflight
        \/ /\ \/ qop' = Accepted(k) /\ UNCHANGED inflight
              \/ UNCHANGED qop /\ inflight' \in {inflight, inflight \cup {k}}
           /\ \E answer \in {"rejected", "error"} :
                rec' = [rec EXCEPT ![r].pc = "observe", ![r].answer = answer]
     /\ UNCHANGED <<rel, closure, op, grant, pc, req, quality>>

\* Mutant: a replay that Quality accepted proves the transition.
AppliedWhenAccepted(r) == rec[r].rid

\* Mutant: the status and revision prove it, whoever's operation did it.
AppliedBySomeone(r) ==
  LET k == rec[r].key
  IN /\ quality.status = RemoteAfter(KindOf[k])
     /\ quality.revision = op[k].exp + 1

\* The transition is attributable to this very operation.
Applied(r) ==
  LET k == rec[r].key
  IN /\ rec[r].rid
     /\ qop[k] = "succeeded"
     /\ quality.status = RemoteAfter(KindOf[k])
     /\ quality.revision = op[k].exp + 1

ReconcileDone(r) == rec' = [rec EXCEPT ![r] = [pc |-> "idle", key |-> None, cas |-> 0,
                                               rid |-> FALSE, answer |-> "none"]]

\* release.reconciled, then the receipt of the step, in one transaction.
ReconcileCommit(r) ==
  LET k    == rec[r].key
      kind == KindOf[k]
      back == [rel EXCEPT !.state = FromState(kind), !.revision = @ + 1]
  IN /\ rec[r].pc = "observe"
     /\ Applied(r)
     /\ rec[r].answer # "rejected"
     /\ rel.revision = rec[r].cas
     /\ rel.state = "UNKNOWN"
     /\ Legal(rel, "release.reconciled", ReconcileAction(kind), FromState(kind))
     /\ CanApply(back, kind)
     /\ rel' = [ApplySuccess(back, kind, op[k].exp) EXCEPT !.unknownOp = None]
     /\ op' = [op EXCEPT ![k].status = "succeeded", ![k].rid = TRUE]
     /\ ReconcileDone(r)
     /\ UNCHANGED <<closure, grant, pc, req, inflight, quality, qop>>

\* Nothing applied and nothing drifted: only the remote identity is kept.
ReconcileWait(r) ==
  LET k == rec[r].key
  IN /\ rec[r].pc = "observe"
     /\ ~Applied(r)
     /\ quality.revision = op[k].exp
     /\ quality.status \in RemoteBefore(KindOf[k])
     /\ op' = [op EXCEPT ![k].rid = @ \/ rec[r].rid]
     /\ ReconcileDone(r)
     /\ UNCHANGED <<rel, closure, grant, pc, req, inflight, quality, qop>>

\* Drift, a failed read, a compare-and-set conflict or a crash: rolled back.
ReconcileRaise(r) ==
  /\ rec[r].pc # "idle"
  /\ ReconcileDone(r)
  /\ UNCHANGED <<rel, closure, op, grant, pc, req, inflight, quality, qop>>

\* reconcile_loop has used its attempts on a rollback.
ReconcileGivesUp ==
  /\ rel.unknownOp # None
  /\ KindOf[rel.unknownOp] = "rollback"
  /\ EscalateRollback
  /\ UNCHANGED <<closure, op, grant, pc, req, inflight, quality, qop, rec>>
-----------------------------------------------------------------------------
Writer(k) ==
  \/ Begin(k) \/ Abandon(k) \/ Send(k) \/ RecordRemoteId(k) \/ Poll(k) \/ HttpError(k)
  \/ \E g \in Grants \cup {None} : CommitIntent(k, g)
  \/ RecordSuccess(k) \/ RecordFailure(k) \/ Escalate(k) \/ RecordUnknown(k)
  \/ Retry(k) \/ Crash(k)

Quality(k) ==
  QualityReceives(k) \/ NetworkLoses(k) \/ QualityApplies(k) \/ QualityFails(k)

Reconcile(r) ==
  \/ ReconcileStart(r) \/ ReconcileReplay(r) \/ ReconcileCommit(r)
  \/ ReconcileWait(r) \/ ReconcileRaise(r)

Next ==
  \/ ConfigureClosure
  \/ \E result \in {"passed", "failed", "error"} : RecordVerification(result)
  \/ \E g \in Grants, kind \in Kinds, reason \in Reasons \cup {None} :
       RegisterGrant(g, kind, reason)
  \/ \E k \in Keys : Writer(k) \/ Quality(k)
  \/ \E r \in Reconcilers : Reconcile(r)
  \/ ReconcileGivesUp

Spec == Init /\ [][Next]_vars
-----------------------------------------------------------------------------
PcStates == {"idle", "read", "committed", "waiting", "answered", "rejected",
             "polling", "succeeded", "failed", "lost", "escalating", "done"}

Release == [state : ReleaseStates, revision : Nat,
            verification : {"none", "passed", "failed", "error"},
            remoteRev : Nat, targetRev : Nat,
            reason : Reasons \cup {None}, unknownOp : Keys \cup {None}]

Operation == [status : {"none", "pending", "unknown", "failed", "succeeded"},
              grant : Grants \cup {None}, exp : Nat, rid : BOOLEAN]

ActionGrant == [status : {"none", "pending", "consumed"}, action : Kinds, target : Nat,
                reason : Reasons \cup {None}, key : Keys \cup {None}]

Candidate == [status : {"draft", "staged", "canary", "active", "rolled_back"},
              revision : Nat]

Replay == [pc : {"idle", "replay", "observe"}, key : Keys \cup {None}, cas : Nat,
           rid : BOOLEAN, answer : {"none", "accepted", "rejected", "error"}]

(* The values each part of the state may take. *)
TypeOK ==
  /\ rel \in Release
  /\ closure \in BOOLEAN
  /\ op \in [Keys -> Operation]
  /\ grant \in [Grants -> ActionGrant]
  /\ pc \in [Keys -> PcStates]
  /\ req \in [Keys -> [exp : Nat, cas : Nat]]
  /\ inflight \in SUBSET Keys
  /\ quality \in Candidate
  /\ qop \in [Keys -> {"none", "pending", "succeeded", "failed"}]
  /\ rec \in [Reconcilers -> Replay]

-----------------------------------------------------------------------------
(***************************************************************************)
(* Safety.                                                                 *)
(***************************************************************************)

\* The revision the controller has last seen confirmed.
ConfirmedRevision == IF rel.remoteRev = 0 THEN BaseRevision ELSE rel.remoteRev

\* The state an UNKNOWN release would resume from.
PlainState == IF rel.state = "UNKNOWN" THEN FromState(KindOf[rel.unknownOp]) ELSE rel.state

\* What Quality may show while the controller believes itself in a state.
RemoteView(state) ==
  CASE state = "REQUESTED"    -> {"draft", "staged"}
    [] state = "STAGING"      -> {"staged", "canary"}
    [] state = "CANARYING"    -> {"canary"}
    [] state = "VERIFYING"    -> IF rel.verification = "passed"
                                 THEN {"canary", "active"} ELSE {"canary"}
    [] state = "COMPLETED"    -> {"active"}
    [] state = "ROLLED_BACK"  -> {"rolled_back"}
    [] OTHER                  -> {"canary", "rolled_back"}

(* However many writers, retries and reconcilers race, the controller never  *)
(* claims a transition Quality has not made, and Quality is never more than  *)
(* one transition ahead of what the controller has recorded.                 *)
ViewIsReal ==
  /\ quality.status \in RemoteView(PlainState)
  /\ quality.revision \in {ConfirmedRevision, ConfirmedRevision + 1}

(* Whatever reaches Quality was anchored by a committed operation row first, *)
(* and every effect there but the stage's was authorised by a grant consumed *)
(* by that very operation, under the verdict the step requires.              *)
EffectsAuthorised ==
  \A k \in Keys :
    /\ k \in inflight \/ qop[k] # "none" => op[k].status # "none"
    /\ op[k].status # "none" /\ KindOf[k] # "stage" =>
         /\ op[k].grant \in Grants
         /\ grant[op[k].grant].status = "consumed"
         /\ grant[op[k].grant].key = k
         /\ grant[op[k].grant].action = KindOf[k]
    /\ qop[k] = "succeeded" =>
         /\ KindOf[k] = "promote"  => rel.verification = "passed" /\ closure
         /\ KindOf[k] = "rollback" => rel.verification \in Failing

(* Two operations on the same transition never both take effect, and an      *)
(* operation the controller records as succeeded is the one that did.        *)
OneEffectPerTransition ==
  /\ \A j, k \in Keys :
       qop[j] = "succeeded" /\ qop[k] = "succeeded" /\ op[j].exp = op[k].exp => j = k
  /\ \A k \in Keys : op[k].status = "succeeded" => qop[k] = "succeeded"

(* UNKNOWN is left only for the state the unknown operation proves, once     *)
(* Quality has applied that operation, or for the manual terminal state.     *)
UnknownLeftByProof ==
  [][rel.state = "UNKNOWN" /\ rel'.state # "UNKNOWN" =>
       \/ rel'.state = "FAILED_ESCALATED" /\ KindOf[rel.unknownOp] = "rollback"
       \/ /\ rel'.state = SuccessState(KindOf[rel.unknownOp])
          /\ qop[rel.unknownOp] = "succeeded"]_vars

(***************************************************************************)
(* Liveness.  Quality runs what it accepted, somebody keeps calling         *)
(* reconcile, and a network that keeps losing answers does not lose all.    *)
(***************************************************************************)
ReplayAnswered(r) == ReconcileReplay(r) /\ rec'[r].answer = "accepted"

Fairness ==
  /\ \A k \in Keys : WF_vars(QualityApplies(k))
  /\ \A r \in Reconcilers :
       /\ WF_vars(ReconcileStart(r))
       /\ SF_vars(ReplayAnswered(r))
       /\ SF_vars(ReconcileCommit(r))
       /\ WF_vars(ReconcileWait(r) \/ ReconcileRaise(r))

FairSpec == Spec /\ Fairness

(* The candidate is not as the unknown operation would have it: Quality has   *)
(* failed that operation, or another one has moved the candidate.            *)
Drifted ==
  /\ rel.unknownOp # None
  /\ LET k == rel.unknownOp
     IN \/ qop[k] = "failed"
        \/ quality.revision # op[k].exp + (IF qop[k] = "succeeded" THEN 1 ELSE 0)

(* The controller itself has recorded the unknown operation as failed: a retry *)
(* doubted it while its writer was still waiting for what came as an error.   *)
Forsaken == rel.unknownOp # None /\ op[rel.unknownOp].status = "failed"

(* Every UNKNOWN is eventually resolved, with two exceptions that reconcile    *)
(* raises on for ever and leaves to a person: its candidate has drifted, or   *)
(* its operation is recorded as failed.  A lost answer, a lost request, an    *)
(* error answer to a replay, a crash or a late operation only delays it.      *)
UnknownResolved == rel.state = "UNKNOWN" ~> (rel.state # "UNKNOWN" \/ Drifted \/ Forsaken)

(***************************************************************************)
(* The abstract lifecycle this controller implements.                      *)
(***************************************************************************)

Phase ==
  CASE PlainState = "REQUESTED"    -> "requested"
    [] PlainState = "STAGING"      -> "staged"
    [] PlainState = "CANARYING"    -> "canarying"
    [] PlainState = "VERIFYING"    -> IF rel.verification = "passed" THEN "passed" ELSE "failing"
    [] PlainState = "COMPLETED"    -> "completed"
    [] PlainState = "ROLLING_BACK" -> "rolling_back"
    [] PlainState = "ROLLED_BACK"  -> "rolled_back"
    [] OTHER                       -> "escalated"

Lifecycle == INSTANCE ReleaseLifecycle
  WITH phase <- Phase, uncertain <- rel.state = "UNKNOWN", remote <- quality.status

(* Seen without its keys, grants and messages, a release is a run of the     *)
(* abstract lifecycle: authorised, then effected, then claimed.              *)
ImplementsLifecycle == Lifecycle!Spec
=============================================================================
