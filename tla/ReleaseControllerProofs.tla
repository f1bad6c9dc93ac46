----------------------- MODULE ReleaseControllerProofs -----------------------
(***************************************************************************)
(* For every set of keys, grants, reasons and reconcilers: the types, the   *)
(* authorisation of effects, the uniqueness of effects, and the proof by    *)
(* which UNKNOWN is left, all from one inductive invariant; then, from a    *)
(* second one on top of it, that the controller's view of the candidate is  *)
(* real and that it implements the abstract lifecycle.                      *)
(***************************************************************************)
EXTENDS ReleaseController, TLAPS

-----------------------------------------------------------------------------
(* The inductive invariant.                                                *)

\* A release that has begun to roll back, and can only end rolled back or escalated.
RollingBack ==
  \/ rel.state \in {"ROLLING_BACK", "ROLLED_BACK", "FAILED_ESCALATED"}
  \/ rel.state = "UNKNOWN" /\ KindOf[rel.unknownOp] = "rollback"

\* A verdict is only ever given in CANARYING: before it there is none, so it
\* is given once.
VerdictInv ==
  /\ rel.revision > 0
  /\ rel.state = "UNKNOWN" => rel.unknownOp \in Keys
  /\ rel.verification # "none" =>
       /\ rel.state \notin {"REQUESTED", "STAGING", "CANARYING"}
       /\ rel.state = "UNKNOWN" => KindOf[rel.unknownOp] \notin {"stage", "canary"}

\* What the verdict and the closure must be for a step to have been begun.
Verdict(k) ==
  /\ KindOf[k] = "promote"  => rel.verification = "passed" /\ closure
  /\ KindOf[k] = "rollback" => rel.verification \in Failing

WriterInv ==
  \A k \in Keys :
    /\ op[k].status = "none" <=> pc[k] \in {"idle", "read"}
    /\ pc[k] # "idle" => Verdict(k)
    /\ KindOf[k] = "rollback" /\ pc[k] # "idle" /\ (pc[k] = "read" => req[k].cas = 0)
         => RollingBack
    /\ pc[k] = "succeeded" => qop[k] = "succeeded"
    /\ pc[k] = "escalating" => KindOf[k] = "rollback"

GrantInv ==
  \A k \in Keys :
    op[k].status # "none" /\ KindOf[k] # "stage" =>
      /\ op[k].grant \in Grants
      /\ grant[op[k].grant].status = "consumed"
      /\ grant[op[k].grant].key = k
      /\ grant[op[k].grant].action = KindOf[k]

EffectInv ==
  \A k \in Keys :
    /\ k \in inflight \/ qop[k] # "none" => op[k].status # "none"
    /\ qop[k] = "succeeded" => op[k].exp < quality.revision
    /\ op[k].status = "succeeded" => qop[k] = "succeeded"

\* Quality's revision was moved past by one operation at most.
UniqueInv ==
  \A j, k \in Keys :
    qop[j] = "succeeded" /\ qop[k] = "succeeded" /\ op[j].exp = op[k].exp => j = k

\* Revisions only grow, and the marker changes only together with them.
ReconcilerInv ==
  \A r \in Reconcilers :
    rec[r].pc # "idle" =>
      /\ rec[r].key \in Keys
      /\ op[rec[r].key].status # "none"
      /\ rec[r].cas <= rel.revision
      /\ rec[r].cas = rel.revision => rel.unknownOp = rec[r].key

IInv ==
  /\ TypeOK /\ VerdictInv /\ WriterInv /\ GrantInv
  /\ EffectInv /\ UniqueInv /\ ReconcilerInv
-----------------------------------------------------------------------------
(* What the rows of the release table allow.                                *)

\* A receipt is applied only in the state its step runs from.
LEMMA ApplyFrom ==
  ASSUME NEW r, NEW kind \in Kinds, CanApply(r, kind)
  PROVE  r.state = FromState(kind)
<1>1. PICK row \in ReleaseTable :
        /\ row[1] = r.state \/ row[1] = AnyState
        /\ row[2] = SuccessEvent(kind)
        /\ row[4] = SuccessState(kind)
  BY DEF CanApply, Legal, NextState
<1>2. CASE kind = "stage"
  BY <1>1, <1>2 DEF ReleaseTable, SuccessEvent, SuccessState, FromState, AnyState
<1>3. CASE kind = "canary"
  BY <1>1, <1>3 DEF ReleaseTable, SuccessEvent, SuccessState, FromState, AnyState
<1>4. CASE kind = "promote"
  BY <1>4 DEF CanApply, FromState
<1>5. CASE kind = "rollback"
  BY <1>1, <1>5 DEF ReleaseTable, SuccessEvent, SuccessState, FromState, AnyState
<1> QED  BY <1>2, <1>3, <1>4, <1>5 DEF Kinds

\* A rollback starts in VERIFYING and nowhere else.
LEMMA RollbackStartFrom ==
  ASSUME Legal(rel, "release.rollback_started", rel.verification, "ROLLING_BACK")
  PROVE  rel.state = "VERIFYING"
BY DEF Legal, NextState, ReleaseTable, AnyState

LEMMA KindType == \A k \in Keys : KindOf[k] \in Kinds
BY KindAssumption

LEMMA StepTypes ==
  ASSUME NEW kind \in Kinds
  PROVE  /\ FromState(kind) \in ReleaseStates \ {"UNKNOWN"}
         /\ SuccessState(kind) \in ReleaseStates \ {"UNKNOWN"}
         /\ RemoteAfter(kind) \in {"draft", "staged", "canary", "active", "rolled_back"}
BY DEF Kinds, FromState, SuccessState, RemoteAfter, ReleaseStates

-----------------------------------------------------------------------------
(* Types.                                                                  *)

LEMMA InitType == Init => TypeOK
<1> SUFFICES ASSUME Init PROVE TypeOK
  OBVIOUS
<1>1. rel \in Release
  BY DEF Init, Release, ReleaseStates
<1>2. op \in [Keys -> Operation]
  BY DEF Init, Operation
<1>3. grant \in [Grants -> ActionGrant]
  BY DEF Init, ActionGrant, Kinds
<1>4. quality \in Candidate /\ rec \in [Reconcilers -> Replay]
  BY DEF Init, Candidate, Replay, BaseRevision
<1> QED  BY <1>1, <1>2, <1>3, <1>4 DEF Init, TypeOK, PcStates

\* The ways in which an event changes the aggregate, all keeping it a release.
LEMMA ReleaseType ==
  ASSUME NEW r \in Release, NEW s \in ReleaseStates, NEW n \in Nat, NEW m \in Nat
  PROVE  /\ [r EXCEPT !.state = s, !.revision = n] \in Release
         /\ [r EXCEPT !.state = s, !.revision = n, !.remoteRev = m] \in Release
         /\ \A k \in Keys :
              [r EXCEPT !.state = s, !.revision = n, !.unknownOp = k] \in Release
         /\ \A why \in Reasons \cup {None} :
              [r EXCEPT !.state = s, !.revision = n, !.reason = why] \in Release
         /\ \A v \in {"passed", "failed", "error"} :
              [r EXCEPT !.state = s, !.revision = n, !.verification = v, !.targetRev = m]
                \in Release
         /\ [r EXCEPT !.unknownOp = None] \in Release
BY DEF Release

LEMMA NextRevision ==
  ASSUME NEW r \in Release
  PROVE  r.revision + 1 \in Nat
BY DEF Release

LEMMA ApplyType ==
  ASSUME NEW r \in Release, NEW kind \in Kinds, NEW exp \in Nat
  PROVE  ApplySuccess(r, kind, exp) \in Release
<1>1. SuccessState(kind) \in ReleaseStates
  BY StepTypes
<1>2. exp + 1 \in Nat /\ r.remoteRev \in Nat
  BY DEF Release
<1>3. CASE kind = "rollback"
  <2>1. [r EXCEPT !.state = SuccessState(kind), !.revision = r.revision + 1,
                  !.remoteRev = r.remoteRev] \in Release
    BY <1>1, <1>2, NextRevision, ReleaseType
  <2> QED  BY <1>3, <2>1 DEF ApplySuccess
<1>4. CASE kind # "rollback"
  <2>1. [r EXCEPT !.state = SuccessState(kind), !.revision = r.revision + 1,
                  !.remoteRev = exp + 1] \in Release
    BY <1>1, <1>2, NextRevision, ReleaseType
  <2> QED  BY <1>4, <2>1 DEF ApplySuccess
<1> QED  BY <1>3, <1>4

LEMMA OperationType ==
  ASSUME TypeOK, NEW k \in Keys, NEW b \in BOOLEAN,
         NEW s \in {"none", "pending", "unknown", "failed", "succeeded"}
  PROVE  /\ [op EXCEPT ![k].status = s] \in [Keys -> Operation]
         /\ [op EXCEPT ![k].rid = b] \in [Keys -> Operation]
         /\ [op EXCEPT ![k].status = s, ![k].rid = b] \in [Keys -> Operation]
<1>1. op \in [Keys -> Operation] BY DEF TypeOK
<1>2. PICK o \in Operation : o = op[k] BY <1>1
<1>3. /\ [o EXCEPT !.status = s] \in Operation
      /\ [o EXCEPT !.rid = b] \in Operation
      /\ [o EXCEPT !.status = s, !.rid = b] \in Operation
  BY DEF Operation
<1>4. /\ [op EXCEPT ![k] = [o EXCEPT !.status = s]] \in [Keys -> Operation]
      /\ [op EXCEPT ![k] = [o EXCEPT !.rid = b]] \in [Keys -> Operation]
      /\ [op EXCEPT ![k] = [o EXCEPT !.status = s, !.rid = b]] \in [Keys -> Operation]
  BY <1>1, <1>3
<1>5. /\ [op EXCEPT ![k].status = s] = [op EXCEPT ![k] = [o EXCEPT !.status = s]]
      /\ [op EXCEPT ![k].rid = b] = [op EXCEPT ![k] = [o EXCEPT !.rid = b]]
  BY <1>1, <1>2
<1>6. [op EXCEPT ![k].status = s, ![k].rid = b]
        = [op EXCEPT ![k] = [o EXCEPT !.status = s, !.rid = b]]
  BY <1>1, <1>2
<1> QED BY <1>4, <1>5, <1>6

LEMMA EnterUnknownType ==
  ASSUME TypeOK, NEW k \in Keys, EnterUnknown(k)
  PROVE  rel' \in Release /\ op' \in [Keys -> Operation]
<1>1. rel \in Release /\ "UNKNOWN" \in ReleaseStates
  BY DEF TypeOK, ReleaseStates
<1>2. rel' \in Release
  BY <1>1, NextRevision, ReleaseType DEF EnterUnknown
<1>3. op' \in [Keys -> Operation]
  BY OperationType DEF EnterUnknown
<1> QED  BY <1>2, <1>3

LEMMA EscalateType ==
  ASSUME TypeOK, EscalateRollback
  PROVE  rel' \in Release
<1>1. rel \in Release /\ "FAILED_ESCALATED" \in ReleaseStates
  BY DEF TypeOK, ReleaseStates
<1> QED  BY <1>1, NextRevision, ReleaseType DEF EscalateRollback

LEMMA TypeWriter ==
  ASSUME TypeOK, NEW k \in Keys, Writer(k)
  PROVE  TypeOK'
<1>1. CASE Begin(k)
  <2>1. quality.revision \in Nat /\ rel.revision \in Nat
    BY DEF TypeOK, Candidate, Release
  <2>2. req' \in [Keys -> [exp : Nat, cas : Nat]]
    BY <1>1, <2>1 DEF Begin, TypeOK
  <2> QED  BY <1>1, <2>2 DEF Begin, TypeOK, PcStates
<1>2. CASE Abandon(k)
  BY <1>2 DEF Abandon, TypeOK, PcStates
<1>3. ASSUME NEW g \in Grants \cup {None}, CommitIntent(k, g)
      PROVE  TypeOK'
  <2>1. op' \in [Keys -> Operation]
    BY <1>3 DEF CommitIntent, Intend, TypeOK, Operation
  <2>2. grant' \in [Grants -> ActionGrant]
    <3>1. grant \in [Grants -> ActionGrant]
      BY DEF TypeOK
    <3>2. CASE grant' = grant
      BY <3>1, <3>2
    <3>3. CASE g \in Grants /\ grant' = [grant EXCEPT ![g].status = "consumed", ![g].key = k]
      BY <3>1, <3>3 DEF ActionGrant
    <3> QED  BY <1>3, <3>2, <3>3 DEF CommitIntent, Intend
  <2>3. rel' \in Release
    <3>1. CASE rel' = rel
      BY <3>1 DEF TypeOK
    <3>2. CASE rel' # rel
      <4>1. g \in Grants
        BY <1>3, <3>2 DEF CommitIntent, Intend
      <4>2. grant[g].reason \in Reasons \cup {None}
        BY <4>1 DEF TypeOK, ActionGrant
      <4>3. rel \in Release /\ "ROLLING_BACK" \in ReleaseStates
        BY DEF TypeOK, ReleaseStates
      <4> QED
        <5>1. rel' = [rel EXCEPT !.state = "ROLLING_BACK", !.revision = @ + 1,
                                 !.reason = grant[g].reason]
          BY <1>3, <3>2 DEF CommitIntent
        <5> QED  BY <4>2, <4>3, <5>1, NextRevision, ReleaseType
    <3> QED  BY <3>1, <3>2
  <2> QED  BY <1>3, <2>1, <2>2, <2>3 DEF CommitIntent, Intend, TypeOK, PcStates
<1>4. CASE Send(k)
  BY <1>4 DEF Send, TypeOK, PcStates
<1>5. CASE RecordRemoteId(k)
  <2>1. op' \in [Keys -> Operation]
    BY <1>5, OperationType DEF RecordRemoteId
  <2> QED  BY <1>5, <2>1 DEF RecordRemoteId, TypeOK, PcStates
<1>6. CASE Poll(k)
  BY <1>6 DEF Poll, TypeOK, PcStates
<1>7. CASE RecordSuccess(k)
  <2>1. rel' \in Release
    <3>1. rel \in Release /\ op[k].exp \in Nat BY DEF TypeOK, Operation
    <3> QED BY <1>7, <3>1, KindType, ApplyType DEF RecordSuccess
  <2>2. op' \in [Keys -> Operation]
    BY <1>7, OperationType DEF RecordSuccess
  <2> QED  BY <1>7, <2>1, <2>2 DEF RecordSuccess, TypeOK, PcStates
<1>8. CASE RecordFailure(k)
  <2>1. op' \in [Keys -> Operation]
    BY <1>8, OperationType DEF RecordFailure
  <2> QED  BY <1>8, <2>1 DEF RecordFailure, TypeOK, PcStates
<1>9. CASE Escalate(k)
  BY <1>9, EscalateType DEF Escalate, TypeOK, PcStates
<1>10. CASE RecordUnknown(k)
  BY <1>10, EnterUnknownType DEF RecordUnknown, TypeOK, PcStates
<1>11. CASE Retry(k)
  BY <1>11, EnterUnknownType DEF Retry, TypeOK
<1>12. CASE Crash(k) \/ HttpError(k)
  BY <1>12 DEF Crash, HttpError, TypeOK, PcStates
<1> QED
  BY <1>1, <1>2, <1>3, <1>4, <1>5, <1>6, <1>7, <1>8, <1>9, <1>10, <1>11, <1>12 DEF Writer

LEMMA TypeQuality ==
  ASSUME TypeOK, NEW k \in Keys, Quality(k)
  PROVE  TypeOK'
<1>1. CASE QualityReceives(k)
  BY <1>1 DEF QualityReceives, Accepted, TypeOK, PcStates
<1>2. CASE NetworkLoses(k)
  BY <1>2 DEF NetworkLoses, TypeOK
<1>3. CASE QualityApplies(k)
  <2>1. quality' \in Candidate
    BY <1>3, KindType, StepTypes DEF QualityApplies, TypeOK, Candidate
  <2> QED  BY <1>3, <2>1 DEF QualityApplies, TypeOK
<1>4. CASE QualityFails(k)
  BY <1>4 DEF QualityFails, TypeOK
<1> QED  BY <1>1, <1>2, <1>3, <1>4 DEF Quality

LEMMA TypeReconcile ==
  ASSUME TypeOK, ReconcilerInv, NEW r \in Reconcilers, Reconcile(r)
  PROVE  TypeOK'
<1>1. ReconcileDone(r) => rec' \in [Reconcilers -> Replay]
  BY DEF ReconcileDone, TypeOK, Replay
<1>2. CASE ReconcileStart(r)
  <2>1. rel.unknownOp \in Keys /\ rel.revision \in Nat
    BY <1>2 DEF ReconcileStart, TypeOK, Release
  <2>2. op[rel.unknownOp].rid \in BOOLEAN
    BY <2>1 DEF TypeOK, Operation
  <2>3. rec' \in [Reconcilers -> Replay]
    <3>1. [pc |-> "replay", key |-> rel.unknownOp, cas |-> rel.revision,
            rid |-> op[rel.unknownOp].rid, answer |-> "none"] \in Replay
      BY <2>1, <2>2 DEF Replay
    <3> QED BY <1>2, <3>1 DEF ReconcileStart, TypeOK
  <2> QED  BY <1>2, <2>3 DEF ReconcileStart, TypeOK
<1>3. CASE ReconcileReplay(r)
  <2>1. rec' \in [Reconcilers -> Replay]
    <3>1. rec \in [Reconcilers -> Replay] BY DEF TypeOK
    <3>2. PICK o \in Replay : o = rec[r] BY <3>1
    <3>3. /\ [o EXCEPT !.pc = "observe", !.answer = "accepted", !.rid = TRUE] \in Replay
          /\ \A a \in {"rejected", "error"} :
               [o EXCEPT !.pc = "observe", !.answer = a] \in Replay
      BY DEF Replay
    <3>4. \/ rec' = [rec EXCEPT ![r] =
                [o EXCEPT !.pc = "observe", !.answer = "accepted", !.rid = TRUE]]
          \/ \E a \in {"rejected", "error"} :
               rec' = [rec EXCEPT ![r] = [o EXCEPT !.pc = "observe", !.answer = a]]
      BY <1>3, <3>1, <3>2 DEF ReconcileReplay
    <3> QED BY <3>1, <3>3, <3>4
  <2>2. inflight' \in SUBSET Keys
    BY <1>3 DEF ReconcileReplay, ReconcilerInv, TypeOK
  <2>3. qop' \in [Keys -> {"none", "pending", "succeeded", "failed"}]
    BY <1>3 DEF ReconcileReplay, Accepted, TypeOK
  <2> QED  BY <1>3, <2>1, <2>2, <2>3 DEF ReconcileReplay, TypeOK
<1>4. CASE ReconcileCommit(r)
  <2> DEFINE k    == rec[r].key
             back == [rel EXCEPT !.state = FromState(KindOf[k]), !.revision = @ + 1]
  <2>1. k \in Keys /\ KindOf[k] \in Kinds
    BY <1>4, KindType DEF ReconcileCommit, ReconcilerInv
  <2>2. op[k].exp \in Nat /\ rel \in Release
    BY <2>1 DEF TypeOK, Operation
  <2>3. back \in Release
    BY <2>1, <2>2, StepTypes, NextRevision, ReleaseType
  <2>4. rel' \in Release
    <3>1. ApplySuccess(back, KindOf[k], op[k].exp) \in Release
      BY <2>1, <2>2, <2>3, ApplyType
    <3>2. rel' = [ApplySuccess(back, KindOf[k], op[k].exp) EXCEPT !.unknownOp = None]
      BY <1>4 DEF ReconcileCommit
    <3> HIDE DEF back
    <3> QED  BY <3>1, <3>2 DEF Release
  <2>5. op' \in [Keys -> Operation]
    BY <1>4, <2>1, OperationType DEF ReconcileCommit
  <2> QED  BY <1>1, <1>4, <2>4, <2>5 DEF ReconcileCommit, TypeOK
<1>5. CASE ReconcileWait(r)
  <2>1. rec[r].key \in Keys /\ rec[r].rid \in BOOLEAN
    BY <1>5 DEF ReconcileWait, ReconcilerInv, TypeOK, Replay
  <2>2. op' \in [Keys -> Operation]
    <3> DEFINE k == rec[r].key
    <3>1. op[k] \in Operation /\ (op[k].rid \/ rec[r].rid) \in BOOLEAN
      BY <2>1 DEF TypeOK, Operation
    <3>2. [op[k] EXCEPT !.rid = op[k].rid \/ rec[r].rid] \in Operation
      BY <3>1 DEF Operation
    <3> QED  BY <1>5, <2>1, <3>2 DEF ReconcileWait, TypeOK
  <2> QED  BY <1>1, <1>5, <2>2 DEF ReconcileWait, TypeOK
<1>6. CASE ReconcileRaise(r)
  BY <1>1, <1>6 DEF ReconcileRaise, TypeOK
<1> QED  BY <1>2, <1>3, <1>4, <1>5, <1>6 DEF Reconcile

LEMMA TypeStep ==
  ASSUME TypeOK, ReconcilerInv, [Next]_vars
  PROVE  TypeOK'
<1>1. CASE ConfigureClosure
  BY <1>1 DEF ConfigureClosure, TypeOK
<1>2. ASSUME NEW result \in {"passed", "failed", "error"}, RecordVerification(result)
      PROVE  TypeOK'
  <2>1. rel \in Release /\ quality.revision \in Nat /\ "VERIFYING" \in ReleaseStates
    BY DEF TypeOK, Candidate, ReleaseStates
  <2>2. rel' \in Release
    <3>1. rel' = [rel EXCEPT !.state = "VERIFYING", !.revision = @ + 1,
                             !.verification = result, !.targetRev = quality.revision]
      BY <1>2 DEF RecordVerification
    <3> QED  BY <1>2, <2>1, <3>1, NextRevision, ReleaseType
  <2> QED  BY <1>2, <2>2 DEF RecordVerification, TypeOK
<1>3. ASSUME NEW g \in Grants, NEW kind \in Kinds, NEW reason \in Reasons \cup {None},
             RegisterGrant(g, kind, reason)
      PROVE  TypeOK'
  <2>1. ExpectedRevision(kind) \in Nat
    BY DEF ExpectedRevision, BaseRevision, TypeOK, Release
  <2>2. grant' \in [Grants -> ActionGrant]
    BY <1>3, <2>1 DEF RegisterGrant, TypeOK, ActionGrant
  <2> QED  BY <1>3, <2>2 DEF RegisterGrant, TypeOK
<1>4. CASE ReconcileGivesUp
  BY <1>4, EscalateType DEF ReconcileGivesUp, TypeOK
<1>5. CASE UNCHANGED vars
  BY <1>5 DEF vars, TypeOK
<1> QED  BY <1>1, <1>2, <1>3, <1>4, <1>5, TypeWriter, TypeQuality, TypeReconcile DEF Next

-----------------------------------------------------------------------------
(* How the aggregate moves.                                                 *)

Verified ==
  /\ rel.state = "CANARYING" /\ rel'.state = "VERIFYING"
  /\ rel'.unknownOp = rel.unknownOp

RollbackBegun ==
  /\ rel.state = "VERIFYING" /\ rel'.state = "ROLLING_BACK"
  /\ rel'.unknownOp = rel.unknownOp

Succeeded(k) ==
  /\ rel.state = FromState(KindOf[k]) /\ rel'.state = SuccessState(KindOf[k])
  /\ rel'.unknownOp = rel.unknownOp

Doubted(k) ==
  /\ rel.state = FromState(KindOf[k]) /\ rel'.state = "UNKNOWN"
  /\ rel'.unknownOp = k

Escalated == RollingBack /\ rel'.state = "FAILED_ESCALATED"

Resolved(k) ==
  /\ rel.state = "UNKNOWN" /\ rel.unknownOp = k
  /\ rel'.state = SuccessState(KindOf[k])
  /\ qop[k] = "succeeded"

\* Every change is one of these, and the revision grows with it.
RelStep ==
  \/ rel' = rel
  \/ /\ rel'.revision > rel.revision
     /\ \/ Verified
        \/ /\ rel'.verification = rel.verification
           /\ \/ RollbackBegun
              \/ Escalated
              \/ \E k \in Keys : Succeeded(k) \/ Doubted(k) \/ Resolved(k)

LEMMA EscalateMoves ==
  ASSUME TypeOK, EscalateRollback, RollingBack
  PROVE  RelStep
BY DEF EscalateRollback, RelStep, Escalated, TypeOK, Release

LEMMA EnterUnknownMoves ==
  ASSUME TypeOK, NEW k \in Keys, CanEnterUnknown(k), EnterUnknown(k)
  PROVE  RelStep
<1>1. Doubted(k) /\ rel'.verification = rel.verification /\ rel'.revision > rel.revision
  BY DEF EnterUnknown, CanEnterUnknown, Doubted, TypeOK, Release
<1> QED  BY <1>1 DEF RelStep

LEMMA RelMoves ==
  ASSUME IInv, [Next]_vars
  PROVE  RelStep
<1> USE DEF IInv
<1>1. ASSUME NEW result \in {"passed", "failed", "error"}, RecordVerification(result)
      PROVE  RelStep
  <2>1. rel.revision \in Nat
    BY DEF TypeOK, Release
  <2>2. rel' = [rel EXCEPT !.state = "VERIFYING", !.revision = @ + 1,
                           !.verification = result, !.targetRev = quality.revision]
    BY <1>1 DEF RecordVerification
  <2>3. Verified /\ rel'.revision > rel.revision
    BY <1>1, <2>1, <2>2 DEF RecordVerification, Verified, TypeOK, Release
  <2> QED  BY <2>3 DEF RelStep
<1>2. ASSUME NEW k \in Keys, NEW g \in Grants \cup {None}, CommitIntent(k, g)
      PROVE  RelStep
  <2>1. CASE rel' = rel
    BY <2>1 DEF RelStep
  <2>2. CASE rel' # rel
    <3>1. rel.state = "VERIFYING"
      BY <1>2, <2>2, RollbackStartFrom DEF CommitIntent
    <3>2. rel' = [rel EXCEPT !.state = "ROLLING_BACK", !.revision = @ + 1,
                             !.reason = grant[g].reason]
      BY <1>2, <2>2 DEF CommitIntent
    <3>3. RollbackBegun /\ rel'.verification = rel.verification
      BY <3>1, <3>2 DEF RollbackBegun, TypeOK, Release
    <3>4. rel'.revision > rel.revision
      BY <3>2 DEF TypeOK, Release
    <3> QED  BY <3>3, <3>4 DEF RelStep
  <2> QED  BY <2>1, <2>2
<1>3. ASSUME NEW k \in Keys, RecordSuccess(k)
      PROVE  RelStep
  <2>1. rel.state = FromState(KindOf[k])
    BY <1>3, KindType, ApplyFrom DEF RecordSuccess
  <2>2. Succeeded(k) /\ rel'.verification = rel.verification /\ rel'.revision > rel.revision
    BY <1>3, <2>1 DEF RecordSuccess, ApplySuccess, Succeeded, TypeOK, Release
  <2> QED  BY <2>2 DEF RelStep
<1>4. ASSUME NEW k \in Keys, Escalate(k)
      PROVE  RelStep
  <2>1. RollingBack
    BY <1>4 DEF Escalate, WriterInv
  <2> QED  BY <1>4, <2>1, EscalateMoves DEF Escalate
<1>5. ASSUME NEW k \in Keys, RecordUnknown(k) \/ Retry(k)
      PROVE  RelStep
  BY <1>5, EnterUnknownMoves DEF RecordUnknown, Retry
<1>6. ASSUME NEW r \in Reconcilers, ReconcileCommit(r)
      PROVE  RelStep
  <2> DEFINE k == rec[r].key
  <2>1. k \in Keys /\ rel.unknownOp = k /\ rel.state = "UNKNOWN" /\ qop[k] = "succeeded"
    BY <1>6 DEF ReconcileCommit, ReconcilerInv, Applied
  <2>2. /\ rel'.state = SuccessState(KindOf[k])
        /\ rel'.verification = rel.verification
        /\ rel'.revision > rel.revision
    BY <1>6 DEF ReconcileCommit, ApplySuccess, TypeOK, Release
  <2> QED  BY <2>1, <2>2 DEF RelStep, Resolved
<1>7. CASE ReconcileGivesUp
  <2>1. RollingBack
    BY <1>7 DEF ReconcileGivesUp, EscalateRollback, RollingBack
  <2> QED  BY <1>7, <2>1, EscalateMoves DEF ReconcileGivesUp
<1>8. CASE UNCHANGED rel
  BY <1>8 DEF RelStep
<1>9. ASSUME NEW k \in Keys, Writer(k)
      PROVE  RelStep
  BY <1>2, <1>3, <1>4, <1>5, <1>8, <1>9
     DEF Writer, Begin, Abandon, Send, RecordRemoteId, Poll, RecordFailure, Crash, HttpError
<1>10. ASSUME NEW k \in Keys, Quality(k)
       PROVE  RelStep
  BY <1>8, <1>10
     DEF Quality, QualityReceives, NetworkLoses, QualityApplies, QualityFails
<1>11. ASSUME NEW r \in Reconcilers, Reconcile(r)
       PROVE  RelStep
  BY <1>6, <1>8, <1>11
     DEF Reconcile, ReconcileStart, ReconcileReplay, ReconcileWait, ReconcileRaise
<1> QED
  BY <1>1, <1>7, <1>8, <1>9, <1>10, <1>11 DEF Next, ConfigureClosure, RegisterGrant, vars

\* A verdict once given stays, the closure once configured stays, and a
\* rollback once begun is never abandoned.
LEMMA VerdictStays ==
  ASSUME IInv, [Next]_vars
  PROVE  /\ \A k \in Keys : Verdict(k) => Verdict(k)'
         /\ RollingBack => RollingBack'
<1>1. RelStep
  BY RelMoves
<1>2. closure => closure'
  BY DEF Next, vars, ConfigureClosure, RecordVerification, RegisterGrant, ReconcileGivesUp,
         Writer, Begin, Abandon, CommitIntent, Intend, Send, RecordRemoteId, Poll,
         RecordSuccess, RecordFailure, Escalate, RecordUnknown, Retry, Crash, HttpError,
         Quality, QualityReceives, NetworkLoses, QualityApplies, QualityFails,
         Reconcile, ReconcileStart, ReconcileReplay, ReconcileCommit, ReconcileWait,
         ReconcileRaise
<1>3. rel.verification # "none" => rel'.verification = rel.verification
  BY <1>1 DEF RelStep, Verified, IInv, VerdictInv
<1>4. \A k \in Keys : Verdict(k) => Verdict(k)'
  BY <1>2, <1>3 DEF Verdict, Failing
<1>5. RollingBack => RollingBack'
  <2> SUFFICES ASSUME RollingBack, rel' # rel
               PROVE  RollingBack'
    BY DEF RollingBack
  <2>1. rel.state \in {"ROLLING_BACK", "ROLLED_BACK", "FAILED_ESCALATED", "UNKNOWN"}
    BY DEF RollingBack
  <2>2. ~Verified /\ ~RollbackBegun
    BY <2>1 DEF Verified, RollbackBegun
  <2>3. CASE Escalated
    BY <2>3 DEF Escalated, RollingBack
  <2>4. ASSUME NEW k \in Keys, Succeeded(k) \/ Doubted(k)
        PROVE  RollingBack'
    <3>1. KindOf[k] = "rollback"
      BY <2>1, <2>4, KindType DEF Succeeded, Doubted, FromState, Kinds
    <3> QED  BY <2>4, <3>1 DEF Succeeded, Doubted, SuccessState, RollingBack
  <2>5. ASSUME NEW k \in Keys, Resolved(k)
        PROVE  RollingBack'
    <3>1. KindOf[k] = "rollback"
      BY <2>5 DEF Resolved, RollingBack
    <3> QED  BY <2>5, <3>1 DEF Resolved, SuccessState, RollingBack
  <2> QED  BY <1>1, <2>2, <2>3, <2>4, <2>5 DEF RelStep
<1> QED  BY <1>4, <1>5

LEMMA VerdictStep ==
  ASSUME IInv, [Next]_vars
  PROVE  VerdictInv'
<1> USE DEF IInv
<1>1. RelStep
  BY RelMoves
<1>2. rel'.revision > 0
  BY <1>1, TypeStep DEF RelStep, VerdictInv, TypeOK, Release
<1>3. rel'.state = "UNKNOWN" => rel'.unknownOp \in Keys
  <2>1. \A k \in Keys : SuccessState(KindOf[k]) # "UNKNOWN"
    BY KindType, StepTypes
  <2> QED
    BY <1>1, <2>1 DEF RelStep, Verified, RollbackBegun, Escalated, Succeeded, Doubted,
                      Resolved, VerdictInv
<1>4. rel'.verification # "none" =>
        /\ rel'.state \notin {"REQUESTED", "STAGING", "CANARYING"}
        /\ rel'.state = "UNKNOWN" => KindOf[rel'.unknownOp] \notin {"stage", "canary"}
  <2> SUFFICES ASSUME rel'.verification # "none", rel' # rel, ~Verified,
                      rel.verification # "none"
               PROVE  /\ rel'.state \notin {"REQUESTED", "STAGING", "CANARYING"}
                      /\ rel'.state = "UNKNOWN" =>
                           KindOf[rel'.unknownOp] \notin {"stage", "canary"}
    BY <1>1 DEF RelStep, Verified, VerdictInv
  <2>1. rel.state \notin {"REQUESTED", "STAGING", "CANARYING"}
    BY DEF VerdictInv
  <2>2. CASE RollbackBegun \/ Escalated
    BY <2>2 DEF RollbackBegun, Escalated
  <2>3. ASSUME NEW k \in Keys, Succeeded(k) \/ Doubted(k)
        PROVE  KindOf[k] \in {"promote", "rollback"}
    BY <2>1, <2>3, KindType DEF Succeeded, Doubted, FromState, Kinds
  <2>4. ASSUME NEW k \in Keys, Resolved(k)
        PROVE  KindOf[k] \in {"promote", "rollback"}
    BY <2>4, KindType DEF Resolved, VerdictInv, Kinds
  <2>5. \A k \in Keys : KindOf[k] \in {"promote", "rollback"} =>
          SuccessState(KindOf[k]) \in {"COMPLETED", "ROLLED_BACK"}
    BY DEF SuccessState
  <2> QED
    BY <1>1, <2>2, <2>3, <2>4, <2>5 DEF RelStep, Succeeded, Doubted, Resolved
<1> QED  BY <1>2, <1>3, <1>4 DEF VerdictInv

-----------------------------------------------------------------------------
(* How a writer, its row and its Quality operation move.                    *)

\* After its intent is committed, a handler only goes forward.
Advances(j) ==
  /\ pc[j] \notin {"idle", "read"} /\ pc'[j] \notin {"idle", "read"}
  /\ req'[j] = req[j]
  /\ op'[j].status # "none"
  /\ pc'[j] = "succeeded" => qop[j] = "succeeded"
  /\ pc'[j] = "escalating" => KindOf[j] = "rollback"

Stays(j) ==
  /\ pc'[j] = pc[j] /\ req'[j] = req[j]
  /\ op'[j].status = "none" <=> op[j].status = "none"

WriterMove(j) ==
  Stays(j) \/ Begin(j) \/ Abandon(j) \/ (\E g \in Grants \cup {None} : CommitIntent(j, g))
           \/ Advances(j)

LEMMA OtherWriterStays ==
  ASSUME TypeOK, NEW k \in Keys, Writer(k), NEW j \in Keys, j # k
  PROVE  Stays(j)
<1>1. op'[j].status = op[j].status
  BY DEF TypeOK, Writer, Begin, Abandon, CommitIntent, Intend, Send, RecordRemoteId, Poll,
         RecordSuccess, RecordFailure, Escalate, RecordUnknown, Retry, Crash, HttpError,
         EnterUnknown
<1>2. pc'[j] = pc[j] /\ req'[j] = req[j]
  BY DEF TypeOK, Writer, Begin, Abandon, CommitIntent, Intend, Send, RecordRemoteId, Poll,
         RecordSuccess, RecordFailure, Escalate, RecordUnknown, Retry, Crash, HttpError,
         EnterUnknown
<1> QED  BY <1>1, <1>2 DEF Stays

LEMMA OwnWriterMoves ==
  ASSUME IInv, NEW k \in Keys, Writer(k)
  PROVE  WriterMove(k)
<1> USE DEF IInv
<1>1. CASE Send(k) \/ Poll(k) \/ Crash(k) \/ HttpError(k)
  BY <1>1 DEF Send, Poll, Crash, HttpError, WriterMove, Advances, TypeOK, WriterInv
<1>2. CASE RecordRemoteId(k) \/ RecordSuccess(k) \/ RecordFailure(k)
  <2>1. op'[k].status # "none"
    BY <1>2 DEF RecordRemoteId, RecordSuccess, RecordFailure, TypeOK, Operation, WriterInv
  <2> QED
    BY <1>2, <2>1 DEF RecordRemoteId, RecordSuccess, RecordFailure, WriterMove, Advances, TypeOK
<1>3. CASE Escalate(k)
  BY <1>3 DEF Escalate, WriterMove, Advances, TypeOK, WriterInv
<1>4. CASE RecordUnknown(k)
  <2>1. op'[k].status # "none"
    BY <1>4 DEF RecordUnknown, EnterUnknown, TypeOK, Operation
  <2> QED  BY <1>4, <2>1 DEF RecordUnknown, WriterMove, Advances, TypeOK
<1>5. CASE Retry(k)
  <2>1. op'[k].status # "none"
    BY <1>5 DEF Retry, EnterUnknown, TypeOK, Operation
  <2> QED  BY <1>5, <2>1 DEF Retry, WriterMove, Stays
<1> QED
  BY <1>1, <1>2, <1>3, <1>4, <1>5 DEF Writer, WriterMove

LEMMA WriterMoves ==
  ASSUME IInv, [Next]_vars, NEW j \in Keys
  PROVE  WriterMove(j)
<1> USE DEF IInv
<1>1. ASSUME NEW k \in Keys, Writer(k)
      PROVE  WriterMove(j)
  BY <1>1, OtherWriterStays, OwnWriterMoves DEF WriterMove
<1>2. ASSUME NEW k \in Keys, QualityReceives(k)
      PROVE  WriterMove(j)
  <2>1. CASE pc' = pc
    BY <1>2, <2>1 DEF QualityReceives, WriterMove, Stays
  <2>2. CASE pc' # pc /\ j # k
    BY <1>2, <2>2 DEF QualityReceives, WriterMove, Stays, TypeOK
  <2>3. CASE pc' # pc /\ j = k
    BY <1>2, <2>3 DEF QualityReceives, WriterMove, Advances, TypeOK, WriterInv
  <2> QED  BY <2>1, <2>2, <2>3
<1>3. ASSUME NEW r \in Reconcilers, Reconcile(r)
      PROVE  WriterMove(j)
  <2>1. op'[j].status = "none" <=> op[j].status = "none"
    <3>1. CASE ReconcileCommit(r)
      BY <3>1 DEF ReconcileCommit, ReconcilerInv, TypeOK, Operation
    <3>2. CASE ReconcileWait(r)
      BY <3>2 DEF ReconcileWait, ReconcilerInv, TypeOK, Operation
    <3> QED
      BY <1>3, <3>1, <3>2 DEF Reconcile, ReconcileStart, ReconcileReplay, ReconcileRaise
  <2> QED
    BY <1>3, <2>1 DEF WriterMove, Stays, Reconcile, ReconcileStart, ReconcileReplay,
                      ReconcileCommit, ReconcileWait, ReconcileRaise
<1>4. CASE UNCHANGED <<op, pc, req>>
  BY <1>4 DEF WriterMove, Stays
<1> QED
  BY <1>1, <1>2, <1>3, <1>4
     DEF Next, vars, ConfigureClosure, RecordVerification, RegisterGrant, ReconcileGivesUp,
         Quality, NetworkLoses, QualityApplies, QualityFails

\* An operation is accepted once, for a committed intent, and ends once.
QualityMove(j) ==
  \/ qop'[j] = qop[j]
  \/ qop[j] = "none" /\ qop'[j] = "pending" /\ op[j].status # "none"
  \/ qop[j] = "pending" /\ qop'[j] = "failed"
  \/ /\ qop[j] = "pending" /\ qop'[j] = "succeeded"
     /\ op[j].exp < quality'.revision
     /\ QualityApplies(j)

LEMMA QualityMoves ==
  ASSUME IInv, [Next]_vars, NEW j \in Keys
  PROVE  QualityMove(j)
<1> USE DEF IInv
<1>1. ASSUME NEW k \in Keys, op[k].status # "none", qop' = Accepted(k)
      PROVE  QualityMove(j)
  BY <1>1 DEF Accepted, QualityMove, TypeOK
<1>2. ASSUME NEW k \in Keys, QualityReceives(k)
      PROVE  QualityMove(j)
  BY <1>1, <1>2 DEF QualityReceives, EffectInv
<1>3. ASSUME NEW r \in Reconcilers, ReconcileReplay(r)
      PROVE  QualityMove(j)
  <2>1. op[rec[r].key].status # "none" /\ rec[r].key \in Keys
    BY <1>3 DEF ReconcileReplay, ReconcilerInv
  <2> QED  BY <1>1, <1>3, <2>1 DEF ReconcileReplay, QualityMove
<1>4. ASSUME NEW k \in Keys, QualityApplies(k)
      PROVE  QualityMove(j)
  <2>1. op[k].exp < quality'.revision
    BY <1>4 DEF QualityApplies, TypeOK, Candidate
  <2>2. CASE j = k
    BY <1>4, <2>1, <2>2 DEF QualityApplies, QualityMove, TypeOK
  <2>3. CASE j # k
    BY <1>4, <2>3 DEF QualityApplies, QualityMove, TypeOK
  <2> QED  BY <2>2, <2>3
<1>5. ASSUME NEW k \in Keys, QualityFails(k)
      PROVE  QualityMove(j)
  BY <1>5 DEF QualityFails, QualityMove, TypeOK
<1>6. CASE qop' = qop
  BY <1>6 DEF QualityMove
<1> QED
  BY <1>2, <1>3, <1>4, <1>5, <1>6
     DEF Next, vars, ConfigureClosure, RecordVerification, RegisterGrant, ReconcileGivesUp,
         Writer, Begin, Abandon, CommitIntent, Intend, Send, RecordRemoteId, Poll,
         RecordSuccess, RecordFailure, Escalate, RecordUnknown, Retry, Crash, HttpError,
         Quality, NetworkLoses, Reconcile, ReconcileStart, ReconcileCommit, ReconcileWait,
         ReconcileRaise

\* What an operation row was committed with never changes, and it succeeds
\* only when Quality's operation has.
OpKept(j) ==
  /\ op'[j].exp = op[j].exp /\ op'[j].grant = op[j].grant
  /\ op'[j].status = "none" <=> op[j].status = "none"
  /\ op'[j].status = "succeeded" => op[j].status = "succeeded" \/ qop[j] = "succeeded"

LEMMA OpMoves ==
  ASSUME IInv, [Next]_vars, NEW j \in Keys
  PROVE  OpKept(j) \/ \E g \in Grants \cup {None} : CommitIntent(j, g)
<1> USE DEF IInv
<1>1. ASSUME NEW k \in Keys, RecordRemoteId(k) \/ RecordSuccess(k) \/ RecordFailure(k)
                               \/ RecordUnknown(k) \/ Retry(k)
      PROVE  OpKept(j)
  <2>1. op[k].status # "none"
    BY <1>1 DEF RecordRemoteId, RecordSuccess, RecordFailure, RecordUnknown, Retry, WriterInv
  <2>2. CASE RecordRemoteId(k)
    BY <2>1, <2>2 DEF RecordRemoteId, OpKept, TypeOK, Operation
  <2>3. CASE RecordSuccess(k)
    <3>1. op' = [op EXCEPT ![k].status = "succeeded"] /\ qop[k] = "succeeded"
      BY <2>3 DEF RecordSuccess, WriterInv
    <3> QED BY <2>1, <3>1 DEF OpKept, TypeOK, Operation
  <2>4. CASE RecordFailure(k)
    <3>1. op' = [op EXCEPT ![k].status = "failed"] BY <2>4 DEF RecordFailure
    <3> QED BY <2>1, <3>1 DEF OpKept, TypeOK, Operation
  <2>5. CASE RecordUnknown(k) \/ Retry(k)
    <3>1. op' = op \/ op' = [op EXCEPT ![k].status = "unknown"]
      BY <2>5 DEF RecordUnknown, Retry, EnterUnknown
    <3> QED BY <2>1, <3>1 DEF OpKept, TypeOK, Operation
  <2> QED  BY <1>1, <2>2, <2>3, <2>4, <2>5
<1>2. ASSUME NEW k \in Keys, NEW g \in Grants \cup {None}, CommitIntent(k, g), k # j
      PROVE  OpKept(j)
  BY <1>2 DEF CommitIntent, Intend, OpKept, TypeOK
<1>3. ASSUME NEW r \in Reconcilers, ReconcileCommit(r) \/ ReconcileWait(r)
      PROVE  OpKept(j)
  <2>1. rec[r].key \in Keys /\ op[rec[r].key].status # "none"
    BY <1>3 DEF ReconcileCommit, ReconcileWait, ReconcilerInv
  <2>2. CASE ReconcileCommit(r)
    <3>1. qop[rec[r].key] = "succeeded"
      BY <2>2 DEF ReconcileCommit, Applied
    <3> QED  BY <2>1, <2>2, <3>1 DEF ReconcileCommit, OpKept, TypeOK, Operation
  <2>3. CASE ReconcileWait(r)
    BY <2>1, <2>3 DEF ReconcileWait, OpKept, TypeOK, Operation
  <2> QED  BY <1>3, <2>2, <2>3
<1>4. CASE op' = op
  BY <1>4 DEF OpKept
<1> QED
  BY <1>1, <1>2, <1>3, <1>4
     DEF Next, vars, ConfigureClosure, RecordVerification, RegisterGrant, ReconcileGivesUp,
         Writer, Begin, Abandon, Send, Poll, Escalate, Crash, HttpError,
         Quality, QualityReceives, NetworkLoses, QualityApplies, QualityFails,
         Reconcile, ReconcileStart, ReconcileReplay, ReconcileRaise

\* A consumed grant is never consumed or registered again.
LEMMA ConsumedStays ==
  ASSUME IInv, [Next]_vars, NEW g \in Grants, grant[g].status = "consumed"
  PROVE  grant'[g] = grant[g]
<1>1. ASSUME NEW k \in Keys, NEW h \in Grants \cup {None}, CommitIntent(k, h)
      PROVE  grant'[g] = grant[g]
  BY <1>1 DEF CommitIntent, Intend, Consumable, IInv, TypeOK
<1>2. ASSUME NEW h \in Grants, NEW kind \in Kinds, NEW reason \in Reasons \cup {None},
             RegisterGrant(h, kind, reason)
      PROVE  grant'[g] = grant[g]
  BY <1>2 DEF RegisterGrant, IInv, TypeOK
<1> QED
  BY <1>1, <1>2
     DEF Next, vars, ConfigureClosure, RecordVerification, ReconcileGivesUp,
         Writer, Begin, Abandon, Send, RecordRemoteId, Poll,
         RecordSuccess, RecordFailure, Escalate, RecordUnknown, Retry, Crash, HttpError,
         Quality, QualityReceives, NetworkLoses, QualityApplies, QualityFails,
         Reconcile, ReconcileStart, ReconcileReplay, ReconcileCommit, ReconcileWait,
         ReconcileRaise

-----------------------------------------------------------------------------
(* The invariant is inductive.                                              *)

LEMMA WriterStep ==
  ASSUME IInv, [Next]_vars
  PROVE  WriterInv'
<1> USE DEF IInv
<1> SUFFICES ASSUME NEW j \in Keys
             PROVE  /\ op'[j].status = "none" <=> pc'[j] \in {"idle", "read"}
                    /\ pc'[j] # "idle" => Verdict(j)'
                    /\ /\ KindOf[j] = "rollback" /\ pc'[j] # "idle"
                       /\ pc'[j] = "read" => req'[j].cas = 0
                       => RollingBack'
                    /\ pc'[j] = "succeeded" => qop'[j] = "succeeded"
                    /\ pc'[j] = "escalating" => KindOf[j] = "rollback"
  BY DEF WriterInv
<1>1. CASE Stays(j)
  <2>1. pc'[j] = "succeeded" => qop'[j] = "succeeded"
    BY <1>1, QualityMoves DEF Stays, WriterInv, QualityMove
  <2> QED  BY <1>1, <2>1, VerdictStays DEF Stays, WriterInv
<1>2. CASE Begin(j)
  <2>1. Verdict(j)
    BY <1>2, KindType DEF Begin, StepAllowed, ActionAllowed, Verdict, Kinds
  <2>2. KindOf[j] = "rollback" /\ req'[j].cas = 0 => RollingBack
    BY <1>2 DEF Begin, StepAllowed, ActionAllowed, RollingBack, TypeOK, VerdictInv
  <2>3. pc'[j] = "read" /\ op'[j].status = "none"
    BY <1>2 DEF Begin, TypeOK
  <2> QED  BY <2>1, <2>2, <2>3, VerdictStays
<1>3. CASE Abandon(j)
  BY <1>3 DEF Abandon, TypeOK, WriterInv
<1>4. ASSUME NEW g \in Grants \cup {None}, CommitIntent(j, g)
      PROVE  /\ op'[j].status = "none" <=> pc'[j] \in {"idle", "read"}
             /\ pc'[j] # "idle" => Verdict(j)'
             /\ KindOf[j] = "rollback" => RollingBack'
             /\ pc'[j] \notin {"succeeded", "escalating"}
  <2>1. pc'[j] = "committed" /\ pc[j] = "read" /\ op'[j].status = "pending"
    BY <1>4 DEF CommitIntent, Intend, TypeOK
  <2>2. KindOf[j] = "rollback" => RollingBack'
    <3>1. CASE req[j].cas = 0
      BY <2>1, <3>1, VerdictStays DEF WriterInv
    <3>2. CASE req[j].cas # 0 /\ KindOf[j] = "rollback"
      BY <1>4, <3>2 DEF CommitIntent, RollingBack, TypeOK, Release
    <3> QED  BY <3>1, <3>2
  <2> QED  BY <2>1, <2>2, VerdictStays DEF WriterInv
<1>5. CASE Advances(j)
  <2>1. pc'[j] = "succeeded" => qop'[j] = "succeeded"
    BY <1>5, QualityMoves DEF Advances, QualityMove
  <2> QED  BY <1>5, <2>1, VerdictStays DEF Advances, WriterInv
<1> QED  BY <1>1, <1>2, <1>3, <1>4, <1>5, WriterMoves DEF WriterMove

LEMMA GrantStep ==
  ASSUME IInv, [Next]_vars
  PROVE  GrantInv'
<1> USE DEF IInv
<1> SUFFICES ASSUME NEW j \in Keys, op'[j].status # "none", KindOf[j] # "stage"
             PROVE  /\ op'[j].grant \in Grants
                    /\ grant'[op'[j].grant].status = "consumed"
                    /\ grant'[op'[j].grant].key = j
                    /\ grant'[op'[j].grant].action = KindOf[j]
  BY DEF GrantInv
<1>1. CASE OpKept(j)
  BY <1>1, ConsumedStays DEF OpKept, GrantInv
<1>2. ASSUME NEW g \in Grants \cup {None}, CommitIntent(j, g)
      PROVE  /\ op'[j].grant \in Grants
             /\ grant'[op'[j].grant].status = "consumed"
             /\ grant'[op'[j].grant].key = j
             /\ grant'[op'[j].grant].action = KindOf[j]
  <2>1. /\ g \in Grants /\ grant[g].action = KindOf[j]
        /\ grant' = [grant EXCEPT ![g].status = "consumed", ![g].key = j]
        /\ op'[j].grant = g
    BY <1>2 DEF CommitIntent, Intend, Consumable, TypeOK
  <2> QED  BY <2>1 DEF TypeOK, ActionGrant
<1> QED  BY <1>1, <1>2, OpMoves

LEMMA EffectStep ==
  ASSUME IInv, [Next]_vars
  PROVE  EffectInv'
<1> USE DEF IInv
<1> SUFFICES ASSUME NEW j \in Keys
             PROVE  /\ j \in inflight' \/ qop'[j] # "none" => op'[j].status # "none"
                    /\ qop'[j] = "succeeded" => op'[j].exp < quality'.revision
                    /\ op'[j].status = "succeeded" => qop'[j] = "succeeded"
  BY DEF EffectInv
<1>1. quality'.revision >= quality.revision
  <2>1. ASSUME NEW k \in Keys, QualityApplies(k)
        PROVE  quality'.revision >= quality.revision
    BY <2>1 DEF QualityApplies, TypeOK, Candidate
  <2>2. CASE quality' = quality
    BY <2>2 DEF TypeOK, Candidate
  <2> QED
    BY <2>1, <2>2
     DEF Next, vars, ConfigureClosure, RecordVerification, RegisterGrant, ReconcileGivesUp,
           Writer, Begin, Abandon, CommitIntent, Intend, Send, RecordRemoteId, Poll,
           RecordSuccess, RecordFailure, Escalate, RecordUnknown, Retry, Crash, HttpError,
           Quality, QualityReceives, NetworkLoses, QualityFails,
           Reconcile, ReconcileStart, ReconcileReplay, ReconcileCommit, ReconcileWait,
           ReconcileRaise
<1>2. j \in inflight' => j \in inflight \/ op[j].status # "none"
  <2>1. ASSUME NEW k \in Keys, Send(k)
        PROVE  op[k].status # "none" /\ inflight' = inflight \cup {k}
    BY <2>1 DEF Send, WriterInv
  <2>2. ASSUME NEW r \in Reconcilers, ReconcileReplay(r)
        PROVE  op[rec[r].key].status # "none" /\ inflight' \subseteq inflight \cup {rec[r].key}
    BY <2>2 DEF ReconcileReplay, ReconcilerInv
  <2>3. CASE inflight' \subseteq inflight
    BY <2>3
  <2> QED
    BY <2>1, <2>2, <2>3
     DEF Next, vars, ConfigureClosure, RecordVerification, RegisterGrant, ReconcileGivesUp,
           Writer, Begin, Abandon, CommitIntent, Intend, RecordRemoteId, Poll,
           RecordSuccess, RecordFailure, Escalate, RecordUnknown, Retry, Crash, HttpError,
           Quality, QualityReceives, NetworkLoses, QualityApplies, QualityFails,
           Reconcile, ReconcileStart, ReconcileCommit, ReconcileWait,
           ReconcileRaise
<1>3. QualityMove(j)
  BY QualityMoves
<1>4. CASE OpKept(j)
  <2>1. qop'[j] = "succeeded" => op'[j].exp < quality'.revision
    <3>1. op'[j].exp = op[j].exp
      BY <1>4 DEF OpKept
    <3>2. op[j].exp \in Nat /\ quality.revision \in Nat /\ quality'.revision \in Nat
      BY TypeStep DEF TypeOK, Operation, Candidate
    <3>3. qop[j] = "succeeded" => op[j].exp < quality'.revision
      BY <1>1, <3>2 DEF EffectInv
    <3> QED  BY <1>3, <3>1, <3>3 DEF QualityMove
  <2> QED  BY <1>2, <1>3, <1>4, <2>1 DEF OpKept, QualityMove, EffectInv
<1>5. ASSUME NEW g \in Grants \cup {None}, CommitIntent(j, g)
      PROVE  op'[j].status = "pending" /\ qop'[j] = "none"
  <2>1. pc[j] = "read" /\ op'[j].status = "pending" /\ qop' = qop
    BY <1>5 DEF CommitIntent, Intend, TypeOK
  <2> QED  BY <2>1 DEF WriterInv, EffectInv
<1> QED  BY <1>4, <1>5, OpMoves

LEMMA UniqueStep ==
  ASSUME IInv, [Next]_vars
  PROVE  UniqueInv'
<1> USE DEF IInv
<1> SUFFICES ASSUME NEW j \in Keys, NEW k \in Keys, qop'[j] = "succeeded",
                    qop'[k] = "succeeded", op'[j].exp = op'[k].exp, j # k
             PROVE  FALSE
  BY DEF UniqueInv
<1>1. ASSUME NEW i \in Keys, qop[i] = "succeeded"
      PROVE  op'[i].exp = op[i].exp /\ op[i].exp < quality.revision
  <2>1. ASSUME NEW g \in Grants \cup {None}, CommitIntent(i, g)
        PROVE  FALSE
    BY <1>1, <2>1 DEF CommitIntent, Intend, WriterInv, EffectInv
  <2> QED  BY <1>1, <2>1, OpMoves DEF OpKept, EffectInv
<1>2. ASSUME NEW i \in Keys, NEW h \in Keys, QualityApplies(i), h # i,
             qop'[h] = "succeeded"
      PROVE  op'[i].exp # op'[h].exp
  <2>1. qop[h] = "succeeded" /\ op' = op /\ op[i].exp = quality.revision
    BY <1>2 DEF QualityApplies, TypeOK
  <2> QED  BY <1>1, <2>1 DEF TypeOK, Operation, Candidate
<1>3. CASE qop[j] = "succeeded" /\ qop[k] = "succeeded"
  BY <1>1, <1>3 DEF UniqueInv
<1>4. CASE qop[j] # "succeeded"
  BY <1>2, <1>4, QualityMoves DEF QualityMove
<1>5. CASE qop[k] # "succeeded"
  BY <1>2, <1>5, QualityMoves DEF QualityMove
<1> QED  BY <1>3, <1>4, <1>5

LEMMA ReconcilerStep ==
  ASSUME IInv, [Next]_vars
  PROVE  ReconcilerInv'
<1> USE DEF IInv
<1> SUFFICES ASSUME NEW q \in Reconcilers, rec'[q].pc # "idle"
             PROVE  /\ rec'[q].key \in Keys
                    /\ op'[rec'[q].key].status # "none"
                    /\ rec'[q].cas <= rel'.revision
                    /\ rec'[q].cas = rel'.revision => rel'.unknownOp = rec'[q].key
  BY DEF ReconcilerInv
<1>1. \A k \in Keys : op[k].status # "none" => op'[k].status # "none"
  <2> SUFFICES ASSUME NEW k \in Keys, op[k].status # "none"
               PROVE  op'[k].status # "none"
    OBVIOUS
  <2>1. ASSUME NEW g \in Grants \cup {None}, CommitIntent(k, g)
        PROVE  FALSE
    BY <2>1 DEF CommitIntent, Intend, WriterInv
  <2> QED  BY <2>1, OpMoves DEF OpKept
<1>2. rel' = rel \/ rel'.revision > rel.revision
  BY RelMoves DEF RelStep
<1>3. /\ rec[q].pc # "idle"
      /\ rec'[q].key = rec[q].key /\ rec'[q].cas = rec[q].cas
      \/ ReconcileStart(q)
  <2>1. ASSUME NEW r \in Reconcilers, Reconcile(r), r # q
        PROVE  rec'[q] = rec[q]
    BY <2>1 DEF Reconcile, ReconcileStart, ReconcileReplay, ReconcileCommit, ReconcileWait,
                ReconcileRaise, ReconcileDone, TypeOK
  <2>2. CASE ReconcileReplay(q)
    BY <2>2 DEF ReconcileReplay, TypeOK, Replay
  <2>3. CASE ReconcileDone(q)
    BY <2>3 DEF ReconcileDone, TypeOK
  <2>4. CASE rec'[q] = rec[q]
    BY <2>4
  <2> QED
    BY <2>1, <2>2, <2>3, <2>4
     DEF Next, vars, ConfigureClosure, RecordVerification, RegisterGrant, ReconcileGivesUp,
           Writer, Begin, Abandon, CommitIntent, Intend, Send, RecordRemoteId, Poll,
           RecordSuccess, RecordFailure, Escalate, RecordUnknown, Retry, Crash, HttpError,
           Quality, QualityReceives, NetworkLoses, QualityApplies, QualityFails,
           Reconcile, ReconcileCommit, ReconcileWait,
           ReconcileRaise
<1>4. CASE ReconcileStart(q)
  <2>1. rec'[q].key = rel.unknownOp /\ rec'[q].cas = rel.revision
    BY <1>4 DEF ReconcileStart, TypeOK
  <2>2. /\ rel' = rel /\ op' = op /\ rel.unknownOp \in Keys
        /\ op[rel.unknownOp].status = "unknown"
    BY <1>4 DEF ReconcileStart, Reconcilable, TypeOK, Release
  <2> QED  BY <2>1, <2>2 DEF TypeOK, Release
<1>5. CASE rec[q].pc # "idle" /\ rec'[q].key = rec[q].key /\ rec'[q].cas = rec[q].cas
  <2>1. rel.revision \in Nat /\ rel'.revision \in Nat /\ rec[q].cas \in Nat
    BY TypeStep DEF TypeOK, Release, Replay
  <2>2. rec[q].cas <= rel'.revision
    BY <1>2, <1>5, <2>1 DEF ReconcilerInv
  <2>3. rec[q].cas = rel'.revision => rel' = rel
    BY <1>2, <1>5, <2>1 DEF ReconcilerInv
  <2> QED  BY <1>1, <1>5, <2>2, <2>3 DEF ReconcilerInv
<1> QED  BY <1>3, <1>4, <1>5

LEMMA InitInv == Init => IInv
<1> SUFFICES ASSUME Init PROVE IInv
  OBVIOUS
<1>1. TypeOK
  BY InitType
<1>2. VerdictInv
  BY DEF Init, VerdictInv
<1>3. WriterInv /\ GrantInv /\ EffectInv /\ UniqueInv
  BY DEF Init, WriterInv, GrantInv, EffectInv, UniqueInv
<1>4. ReconcilerInv
  BY DEF Init, ReconcilerInv
<1> QED  BY <1>1, <1>2, <1>3, <1>4 DEF IInv

LEMMA StepInv ==
  ASSUME IInv, [Next]_vars
  PROVE  IInv'
BY TypeStep, VerdictStep, WriterStep, GrantStep, EffectStep, UniqueStep, ReconcilerStep
   DEF IInv

\* Everything below rests on this: IInv holds initially and every step keeps it.
THEOREM Inductive == Spec => []IInv
<1>1. IInv /\ [Next]_vars => IInv'
  BY StepInv
<1> QED  BY InitInv, <1>1, PTL DEF Spec

-----------------------------------------------------------------------------
(* What holds of every release.                                             *)

(* The state stays well typed, whatever the interleaving of handlers.       *)
THEOREM TypeCorrect == Spec => []TypeOK
<1>1. IInv => TypeOK
  BY DEF IInv
<1> QED  BY <1>1, Inductive, PTL

(* No effect reaches Quality unanchored or unauthorised: the single-use      *)
(* grants and the verdict bind it, for any number of writers and grants.     *)
THEOREM Authorised == Spec => []EffectsAuthorised
<1>1. IInv => EffectsAuthorised
  BY DEF IInv, EffectsAuthorised, GrantInv, EffectInv, WriterInv, Verdict
<1> QED  BY <1>1, Inductive, PTL

(* No transition of the candidate takes effect twice, and what the           *)
(* controller records as succeeded did take effect.                          *)
THEOREM EffectOnce == Spec => []OneEffectPerTransition
<1>1. IInv => OneEffectPerTransition
  BY DEF IInv, OneEffectPerTransition, UniqueInv, EffectInv
<1> QED  BY <1>1, Inductive, PTL

(* UNKNOWN is left by proof: only the unknown operation's own effect, or the  *)
(* escalation of a rollback, ends it.                                        *)
THEOREM LeftByProof == Spec => UnknownLeftByProof
<1>1. IInv /\ [Next]_vars =>
        [rel.state = "UNKNOWN" /\ rel'.state # "UNKNOWN" =>
           \/ rel'.state = "FAILED_ESCALATED" /\ KindOf[rel.unknownOp] = "rollback"
           \/ /\ rel'.state = SuccessState(KindOf[rel.unknownOp])
              /\ qop[rel.unknownOp] = "succeeded"]_vars
  <2> SUFFICES ASSUME IInv, [Next]_vars, rel.state = "UNKNOWN", rel'.state # "UNKNOWN"
               PROVE  \/ rel'.state = "FAILED_ESCALATED" /\ KindOf[rel.unknownOp] = "rollback"
                      \/ /\ rel'.state = SuccessState(KindOf[rel.unknownOp])
                         /\ qop[rel.unknownOp] = "succeeded"
    OBVIOUS
  <2>1. \A k \in Keys : FromState(KindOf[k]) # "UNKNOWN"
    BY KindType, StepTypes
  <2> QED
    BY <2>1, RelMoves DEF RelStep, Verified, RollbackBegun, Escalated, RollingBack,
                          Succeeded, Doubted, Resolved
<1> QED  BY <1>1, Inductive, PTL DEF Spec, UnknownLeftByProof
-----------------------------------------------------------------------------
(***************************************************************************)
(* Where the controller and Quality stand to one another.  Every            *)
(* transition is made from one revision only, so that the status of the     *)
(* candidate, its revision and the plain state of the release determine     *)
(* each other up to the one transition that may be under way.               *)
(***************************************************************************)

\* The revision a step finds on Quality, whoever runs it.
ExpectedBy(kind) == CASE kind = "stage" -> 1 [] kind = "canary" -> 2 [] OTHER -> 3

RevisionOf(status) ==
  CASE status = "draft" -> 1 [] status = "staged" -> 2 [] status = "canary" -> 3 [] OTHER -> 4

\* What the controller has confirmed in a state; a rollback confirms nothing.
SeenIn(state) ==
  CASE state = "REQUESTED" -> 0 [] state = "STAGING" -> 2 [] state = "COMPLETED" -> 4 [] OTHER -> 3

PlaceInv ==
  /\ PlainState \in ReleaseStates \ {"UNKNOWN", "PROMOTING"}
  /\ quality.status \in RemoteView(PlainState)
  /\ quality.revision = RevisionOf(quality.status)
  /\ rel.remoteRev = SeenIn(PlainState)
  /\ rel.verification # "none" => rel.targetRev = 3
  /\ PlainState = "VERIFYING" => rel.verification # "none"
  /\ RollingBack => rel.verification \in Failing

KeyInv ==
  \A k \in Keys :
    /\ pc[k] = "read" => req[k].exp = ExpectedBy(KindOf[k])
    /\ op[k].status # "none" => op[k].exp = ExpectedBy(KindOf[k])
    /\ KindOf[k] = "canary" /\ pc[k] # "idle" => PlainState # "REQUESTED"

ViewInv == PlaceInv /\ KeyInv

\* What a step does to the two of them.
SameVerdict == rel'.verification = rel.verification /\ rel'.targetRev = rel.targetRev

Judges ==
  /\ rel.state = "CANARYING" /\ rel'.state = "VERIFYING"
  /\ rel'.verification \in {"passed", "failed", "error"}
  /\ rel'.targetRev = quality.revision /\ rel'.remoteRev = rel.remoteRev
  /\ UNCHANGED quality

TurnsBack ==
  /\ rel.state = "VERIFYING" /\ rel'.state = "ROLLING_BACK"
  /\ rel.verification \in Failing
  /\ SameVerdict /\ rel'.remoteRev = rel.remoteRev
  /\ UNCHANGED quality

Claims(k) ==
  /\ PlainState = FromState(KindOf[k]) /\ rel'.state = SuccessState(KindOf[k])
  /\ quality.status = RemoteAfter(KindOf[k])
  /\ KindOf[k] = "promote" => rel.verification = "passed"
  /\ SameVerdict
  /\ rel'.remoteRev = IF KindOf[k] = "rollback" THEN rel.remoteRev
                      ELSE ExpectedBy(KindOf[k]) + 1
  /\ UNCHANGED quality

Doubts(k) ==
  /\ rel.state = FromState(KindOf[k])
  /\ rel'.state = "UNKNOWN" /\ rel'.unknownOp = k
  /\ KindOf[k] = "promote" => rel.verification = "passed"
  /\ SameVerdict /\ rel'.remoteRev = rel.remoteRev
  /\ UNCHANGED quality

GivesUp ==
  /\ PlainState = "ROLLING_BACK" /\ rel'.state = "FAILED_ESCALATED"
  /\ SameVerdict /\ rel'.remoteRev = rel.remoteRev
  /\ UNCHANGED quality

Effects(k) ==
  /\ op[k].status # "none"
  /\ quality.revision = ExpectedBy(KindOf[k])
  /\ quality' = [status |-> RemoteAfter(KindOf[k]), revision |-> quality.revision + 1]
  /\ UNCHANGED rel

ViewStep ==
  \/ UNCHANGED <<rel, quality>>
  \/ Judges \/ TurnsBack \/ GivesUp
  \/ \E k \in Keys : Claims(k) \/ Doubts(k) \/ Effects(k)
-----------------------------------------------------------------------------
(* Every step is one of those.                                              *)

LEMMA PlainTypes ==
  ASSUME IInv
  PROVE  /\ rel \in Release /\ quality \in Candidate
         /\ rel.state # "UNKNOWN" => PlainState = rel.state
         /\ rel.state = "UNKNOWN" => /\ rel.unknownOp \in Keys
                                     /\ PlainState = FromState(KindOf[rel.unknownOp])
BY DEF IInv, TypeOK, VerdictInv, PlainState

LEMMA RollbackPlain ==
  ASSUME IInv, EscalateRollback, RollingBack
  PROVE  PlainState = "ROLLING_BACK"
BY PlainTypes DEF EscalateRollback, RollingBack, FromState

LEMMA EscalateView ==
  ASSUME IInv, EscalateRollback, RollingBack, UNCHANGED quality
  PROVE  ViewStep
<1>1. PlainState = "ROLLING_BACK"
  BY RollbackPlain
<1>2. GivesUp
  BY <1>1, PlainTypes DEF EscalateRollback, GivesUp, SameVerdict, Release
<1> QED  BY <1>2 DEF ViewStep

LEMMA DoubtView ==
  ASSUME IInv, NEW k \in Keys, CanEnterUnknown(k), EnterUnknown(k), pc[k] # "idle",
         UNCHANGED quality
  PROVE  ViewStep
<1>1. KindOf[k] = "promote" => rel.verification = "passed"
  BY DEF IInv, WriterInv, Verdict
<1>2. Doubts(k)
  BY <1>1, PlainTypes DEF EnterUnknown, CanEnterUnknown, Doubts, SameVerdict, Release
<1> QED  BY <1>2 DEF ViewStep

\* An operation Quality has applied shows, in the state its step runs from.
LEMMA AppliedShows ==
  ASSUME IInv, ViewInv, NEW k \in Keys, qop[k] = "succeeded",
         PlainState = FromState(KindOf[k])
  PROVE  quality.status = RemoteAfter(KindOf[k])
<1>1. quality.revision > ExpectedBy(KindOf[k])
  BY PlainTypes DEF IInv, EffectInv, ViewInv, KeyInv, Candidate
<1>2. /\ quality.status \in RemoteView(PlainState)
      /\ quality.revision = RevisionOf(quality.status)
  BY DEF ViewInv, PlaceInv
<1>3. KindOf[k] \in Kinds
  BY KindType
<1> QED  BY <1>1, <1>2, <1>3
         DEF RevisionOf, ExpectedBy, FromState, RemoteView, RemoteAfter, Kinds

LEMMA SuccessView ==
  ASSUME IInv, ViewInv, NEW k \in Keys, RecordSuccess(k)
  PROVE  ViewStep
<1>1. rel.state = FromState(KindOf[k]) /\ KindOf[k] \in Kinds
  BY KindType, ApplyFrom DEF RecordSuccess
<1>2. PlainState = FromState(KindOf[k])
  BY <1>1, StepTypes, PlainTypes
<1>3. qop[k] = "succeeded" /\ op[k].exp = ExpectedBy(KindOf[k])
  BY DEF RecordSuccess, IInv, WriterInv, ViewInv, KeyInv
<1>4. quality.status = RemoteAfter(KindOf[k])
  BY <1>2, <1>3, AppliedShows
<1>5. Claims(k)
  BY <1>2, <1>3, <1>4, PlainTypes
     DEF RecordSuccess, CanApply, ApplySuccess, Claims, SameVerdict, Release
<1> QED  BY <1>5 DEF ViewStep

LEMMA CommitView ==
  ASSUME IInv, ViewInv, NEW r \in Reconcilers, ReconcileCommit(r)
  PROVE  ViewStep
<1> DEFINE k == rec[r].key
           back == [rel EXCEPT !.state = FromState(KindOf[k]), !.revision = @ + 1]
<1>1. k \in Keys /\ rel.unknownOp = k /\ rel.state = "UNKNOWN"
  BY DEF ReconcileCommit, IInv, ReconcilerInv
<1>2. PlainState = FromState(KindOf[k])
  BY <1>1, PlainTypes
<1>3. quality.status = RemoteAfter(KindOf[k]) /\ op[k].exp = ExpectedBy(KindOf[k])
  BY <1>1 DEF ReconcileCommit, Applied, IInv, ReconcilerInv, ViewInv, KeyInv
<1>4. KindOf[k] = "promote" => rel.verification = "passed"
  BY <1>1, PlainTypes DEF ReconcileCommit, CanApply, Release
<1>5. /\ rel'.state = SuccessState(KindOf[k]) /\ SameVerdict
      /\ rel'.remoteRev = IF KindOf[k] = "rollback" THEN rel.remoteRev ELSE op[k].exp + 1
  <2>1. rel' = [ApplySuccess(back, KindOf[k], op[k].exp) EXCEPT !.unknownOp = None]
    BY DEF ReconcileCommit
  <2>2. back \in Release
    <3>1. FromState(KindOf[k]) \in ReleaseStates
      BY <1>1, KindType, StepTypes
    <3> QED  BY <3>1, PlainTypes, NextRevision, ReleaseType
  <2>3. /\ back.verification = rel.verification /\ back.targetRev = rel.targetRev
        /\ back.remoteRev = rel.remoteRev
    BY PlainTypes DEF Release
  <2> HIDE DEF back
  <2> QED  BY <2>1, <2>2, <2>3 DEF ApplySuccess, SameVerdict, Release
<1>6. Claims(k)
  BY <1>2, <1>3, <1>4, <1>5 DEF Claims, ReconcileCommit
<1> QED  BY <1>1, <1>6 DEF ViewStep

LEMMA IntentView ==
  ASSUME IInv, NEW k \in Keys, NEW g \in Grants \cup {None}, CommitIntent(k, g)
  PROVE  ViewStep
<1>1. UNCHANGED quality
  BY DEF CommitIntent, Intend
<1>2. CASE rel' = rel
  BY <1>1, <1>2 DEF ViewStep
<1>3. CASE rel' # rel
  <2>1. Legal(rel, "release.rollback_started", rel.verification, "ROLLING_BACK")
    BY <1>3 DEF CommitIntent
  <2>2. rel.state = "VERIFYING" /\ rel.verification \in Failing
    BY <2>1, PlainTypes
       DEF Legal, NextState, ReleaseTable, AnyState, Free, Failing, Release
  <2>3. rel' = [rel EXCEPT !.state = "ROLLING_BACK", !.revision = @ + 1,
                           !.reason = grant[g].reason]
    BY <1>3 DEF CommitIntent
  <2>4. TurnsBack
    BY <1>1, <2>2, <2>3, PlainTypes DEF TurnsBack, SameVerdict, Release
  <2> QED  BY <2>4 DEF ViewStep
<1> QED  BY <1>2, <1>3

LEMMA EffectView ==
  ASSUME IInv, ViewInv, NEW k \in Keys, QualityApplies(k)
  PROVE  ViewStep
<1>1. op[k].status # "none" /\ op[k].exp = ExpectedBy(KindOf[k])
  BY DEF QualityApplies, IInv, EffectInv, ViewInv, KeyInv
<1>2. Effects(k)
  BY <1>1 DEF QualityApplies, Effects
<1> QED  BY <1>2 DEF ViewStep

LEMMA ViewMoves ==
  ASSUME IInv, ViewInv, [Next]_vars
  PROVE  ViewStep
<1>1. CASE UNCHANGED <<rel, quality>>
  BY <1>1 DEF ViewStep
<1>2. ASSUME NEW result \in {"passed", "failed", "error"}, RecordVerification(result)
      PROVE  ViewStep
  <2>1. Judges
    BY <1>2, PlainTypes DEF RecordVerification, Judges, Release
  <2> QED  BY <2>1 DEF ViewStep
<1>3. ASSUME NEW k \in Keys, Writer(k)
      PROVE  ViewStep
  <2>1. CASE Escalate(k)
    <3>1. RollingBack
      BY <2>1 DEF Escalate, IInv, WriterInv
    <3> QED  BY <2>1, <3>1, EscalateView DEF Escalate
  <2>2. CASE RecordUnknown(k) \/ Retry(k)
    <3>1. pc[k] # "idle"
      BY <2>2 DEF RecordUnknown, Retry, IInv, WriterInv
    <3> QED  BY <2>2, <3>1, DoubtView DEF RecordUnknown, Retry
  <2> QED
    BY <1>1, <1>3, <2>1, <2>2, IntentView, SuccessView
       DEF Writer, Begin, Abandon, Send, RecordRemoteId, Poll, RecordFailure, Crash, HttpError
<1>4. ASSUME NEW k \in Keys, Quality(k)
      PROVE  ViewStep
  BY <1>1, <1>4, EffectView DEF Quality, QualityReceives, NetworkLoses, QualityFails
<1>5. ASSUME NEW r \in Reconcilers, Reconcile(r)
      PROVE  ViewStep
  BY <1>1, <1>5, CommitView
     DEF Reconcile, ReconcileStart, ReconcileReplay, ReconcileWait, ReconcileRaise
<1>6. CASE ReconcileGivesUp
  <2>1. RollingBack
    BY <1>6 DEF ReconcileGivesUp, EscalateRollback, RollingBack
  <2> QED  BY <1>6, <2>1, EscalateView DEF ReconcileGivesUp
<1> QED  BY <1>1, <1>2, <1>3, <1>4, <1>5, <1>6
         DEF Next, ConfigureClosure, RegisterGrant, vars
-----------------------------------------------------------------------------
(* Those steps keep the invariant.                                          *)

LEMMA RollingBackIs ==
  ASSUME IInv
  PROVE  RollingBack <=> PlainState \in {"ROLLING_BACK", "ROLLED_BACK", "FAILED_ESCALATED"}
BY PlainTypes, KindType DEF RollingBack, FromState, Kinds

\* The plain state after a step.
LEMMA PlainNext ==
  ASSUME IInv, ViewInv, [Next]_vars, ViewStep
  PROVE  \/ PlainState' = PlainState /\ rel.verification = rel'.verification
         \/ Judges /\ PlainState = "CANARYING" /\ PlainState' = "VERIFYING"
         \/ TurnsBack /\ PlainState = "VERIFYING" /\ PlainState' = "ROLLING_BACK"
         \/ GivesUp /\ PlainState' = "FAILED_ESCALATED"
         \/ \E k \in Keys : Claims(k) /\ PlainState' = SuccessState(KindOf[k])
<1>1. rel'.state # "UNKNOWN" => PlainState' = rel'.state
  BY DEF PlainState
<1>2. CASE UNCHANGED rel
  BY <1>2 DEF PlainState
<1>3. CASE Judges \/ TurnsBack \/ GivesUp
  BY <1>1, <1>3, PlainTypes DEF Judges, TurnsBack, GivesUp
<1>4. ASSUME NEW k \in Keys, Claims(k)
      PROVE  PlainState' = SuccessState(KindOf[k])
  BY <1>1, <1>4, KindType, StepTypes DEF Claims
<1>5. ASSUME NEW k \in Keys, Doubts(k)
      PROVE  PlainState' = PlainState /\ rel.verification = rel'.verification
  <2>1. rel.state # "UNKNOWN"
    BY <1>5, KindType, StepTypes DEF Doubts
  <2> QED  BY <1>5, <2>1 DEF Doubts, PlainState, SameVerdict
<1> QED  BY <1>2, <1>3, <1>4, <1>5 DEF ViewStep, Effects

LEMMA ClaimPlace ==
  ASSUME IInv, ViewInv, RollingBack => RollingBack', NEW k \in Keys, Claims(k),
         PlainState' = SuccessState(KindOf[k])
  PROVE  /\ PlainState' \in ReleaseStates \ {"UNKNOWN", "PROMOTING"}
         /\ quality.status \in RemoteView(PlainState)'
         /\ rel'.remoteRev = SeenIn(PlainState')
         /\ PlainState' # "VERIFYING"
<1>1. KindOf[k] \in Kinds
  BY KindType
<1>2. rel.remoteRev = SeenIn(PlainState) /\ quality.status = RemoteAfter(KindOf[k])
  BY DEF ViewInv, PlaceInv, Claims
<1> QED  BY <1>1, <1>2
         DEF Claims, SuccessState, FromState, SeenIn, ExpectedBy, RemoteAfter, RemoteView,
             Kinds, ReleaseStates

\* Quality moves on only where the plain state has authorised it.
LEMMA EffectPlace ==
  ASSUME IInv, ViewInv, NEW k \in Keys, Effects(k)
  PROVE  /\ quality'.status \in RemoteView(PlainState)
         /\ quality'.revision = RevisionOf(quality'.status)
         /\ quality.status \in RemoteBefore(KindOf[k]) \ {"active"}
         /\ \/ PlainState = FromState(KindOf[k])
            \/ KindOf[k] = "rollback" /\ PlainState = "FAILED_ESCALATED"
         /\ KindOf[k] = "promote" => rel.verification = "passed"
<1>1. KindOf[k] \in Kinds /\ pc[k] \notin {"idle", "read"}
  BY KindType DEF Effects, IInv, WriterInv
<1>2. /\ KindOf[k] = "canary" => PlainState # "REQUESTED"
      /\ KindOf[k] = "promote" => rel.verification = "passed"
      /\ KindOf[k] = "rollback" => RollingBack
  BY <1>1 DEF ViewInv, KeyInv, IInv, WriterInv, Verdict
<1>3. /\ quality.status \in RemoteView(PlainState)
      /\ quality.revision = RevisionOf(quality.status)
      /\ PlainState \in ReleaseStates \ {"UNKNOWN", "PROMOTING"}
      /\ PlainState = "VERIFYING" => rel.verification # "none"
      /\ RollingBack => rel.verification \in Failing
  BY DEF ViewInv, PlaceInv
<1>4. RollingBack <=> PlainState \in {"ROLLING_BACK", "ROLLED_BACK", "FAILED_ESCALATED"}
  BY RollingBackIs
<1>5. rel.verification # "none" =>
        PlainState \notin {"REQUESTED", "STAGING", "CANARYING"}
  BY PlainTypes, KindType DEF IInv, VerdictInv, FromState, Kinds
<1>6. /\ quality.status \in {"draft", "staged", "canary", "active", "rolled_back"}
      /\ quality.revision = ExpectedBy(KindOf[k])
      /\ quality'.status = RemoteAfter(KindOf[k])
      /\ quality'.revision = quality.revision + 1
  BY PlainTypes DEF Effects, Candidate
<1>7. CASE KindOf[k] = "stage"
  <2>1. quality.status = "draft"
    BY <1>3, <1>6, <1>7 DEF ExpectedBy, RevisionOf
  <2>2. PlainState = "REQUESTED"
    BY <1>3, <2>1 DEF RemoteView, ReleaseStates
  <2> QED  BY <1>6, <1>7, <2>1, <2>2
           DEF ExpectedBy, RevisionOf, RemoteAfter, RemoteBefore, RemoteView, FromState
<1>8. CASE KindOf[k] = "canary"
  <2>1. quality.status = "staged"
    BY <1>3, <1>6, <1>8 DEF ExpectedBy, RevisionOf
  <2>2. PlainState = "STAGING"
    BY <1>2, <1>3, <1>8, <2>1 DEF RemoteView, ReleaseStates
  <2> QED  BY <1>6, <1>8, <2>1, <2>2
           DEF ExpectedBy, RevisionOf, RemoteAfter, RemoteBefore, RemoteView, FromState
<1>9. CASE KindOf[k] = "promote"
  <2>1. quality.status = "canary"
    BY <1>3, <1>6, <1>9 DEF ExpectedBy, RevisionOf
  <2>2. PlainState = "VERIFYING"
    BY <1>2, <1>3, <1>4, <1>5, <1>9, <2>1 DEF RemoteView, ReleaseStates, Failing
  <2> QED  BY <1>2, <1>6, <1>9, <2>1, <2>2
           DEF ExpectedBy, RevisionOf, RemoteAfter, RemoteBefore, RemoteView, FromState
<1>10. CASE KindOf[k] = "rollback"
  <2>1. quality.status = "canary"
    BY <1>3, <1>6, <1>10 DEF ExpectedBy, RevisionOf
  <2>2. PlainState \in {"ROLLING_BACK", "FAILED_ESCALATED"}
    BY <1>2, <1>3, <1>4, <1>10, <2>1 DEF RemoteView
  <2> QED  BY <1>6, <1>10, <2>1, <2>2
           DEF ExpectedBy, RevisionOf, RemoteAfter, RemoteBefore, RemoteView, FromState
<1> QED  BY <1>1, <1>7, <1>8, <1>9, <1>10 DEF Kinds

LEMMA RollingBackNext ==
  ASSUME IInv'
  PROVE  RollingBack' <=> PlainState' \in {"ROLLING_BACK", "ROLLED_BACK", "FAILED_ESCALATED"}
BY KindType DEF IInv, VerdictInv, PlainState, RollingBack, FromState, Kinds

\* A change of the plain state is visible in it or in the verdict.
LEMMA MovesOn ==
  ASSUME IInv, Judges \/ TurnsBack \/ GivesUp \/ \E k \in Keys : Claims(k)
  PROVE  PlainState' # PlainState
<1>1. CASE Judges \/ TurnsBack \/ GivesUp
  BY <1>1 DEF Judges, TurnsBack, GivesUp, PlainState
<1>2. ASSUME NEW k \in Keys, Claims(k)
      PROVE  PlainState' # PlainState
  <2>1. PlainState' = SuccessState(KindOf[k]) /\ PlainState = FromState(KindOf[k])
    BY <1>2, KindType, StepTypes DEF Claims, PlainState
  <2> QED  BY <2>1, KindType DEF FromState, SuccessState, Kinds
<1> QED  BY <1>1, <1>2

LEMMA PlaceStep ==
  ASSUME IInv, ViewInv, [Next]_vars, ViewStep
  PROVE  PlaceInv'
<1>1. IInv' /\ (RollingBack => RollingBack')
  BY StepInv, VerdictStays
<1>2. RollingBack' <=> PlainState' \in {"ROLLING_BACK", "ROLLED_BACK", "FAILED_ESCALATED"}
  BY <1>1, RollingBackNext
<1>3. /\ PlainState \in ReleaseStates \ {"UNKNOWN", "PROMOTING"}
      /\ quality.status \in RemoteView(PlainState)
      /\ quality.revision = RevisionOf(quality.status)
      /\ rel.remoteRev = SeenIn(PlainState)
      /\ rel.verification # "none" => rel.targetRev = 3
      /\ PlainState = "VERIFYING" => rel.verification # "none"
      /\ RollingBack => rel.verification \in Failing
  BY DEF ViewInv, PlaceInv
<1>4. RollingBack <=> PlainState \in {"ROLLING_BACK", "ROLLED_BACK", "FAILED_ESCALATED"}
  BY RollingBackIs
<1>5. ASSUME PlainState' = PlainState, rel.verification = rel'.verification
      PROVE  PlaceInv'
  <2>0. RemoteView(PlainState)' = RemoteView(PlainState)
    BY <1>5 DEF RemoteView
  <2>1. CASE UNCHANGED <<rel, quality>>
    BY <1>2, <1>3, <1>4, <1>5, <2>0, <2>1 DEF PlaceInv
  <2>2. ASSUME NEW k \in Keys, Effects(k)
        PROVE  PlaceInv'
    <3>1. quality'.status \in RemoteView(PlainState) /\ quality'.revision = RevisionOf(quality'.status)
      BY <2>2, EffectPlace
    <3>2. rel' = rel
      BY <2>2 DEF Effects
    <3> QED  BY <1>2, <1>3, <1>4, <1>5, <2>0, <3>1, <3>2 DEF PlaceInv
  <2>3. ASSUME NEW k \in Keys, Doubts(k)
        PROVE  PlaceInv'
    BY <1>2, <1>3, <1>4, <1>5, <2>0, <2>3 DEF PlaceInv, Doubts, SameVerdict
  <2>4. ASSUME Judges \/ TurnsBack \/ GivesUp \/ \E k \in Keys : Claims(k)
        PROVE  FALSE
    BY <1>5, <2>4, MovesOn
  <2> QED  BY <2>1, <2>2, <2>3, <2>4 DEF ViewStep
<1>6. ASSUME Judges, PlainState = "CANARYING", PlainState' = "VERIFYING"
      PROVE  PlaceInv'
  <2>1. quality.status = "canary" /\ quality.revision = 3
    BY <1>3, <1>6 DEF RemoteView, RevisionOf
  <2> QED  BY <1>2, <1>3, <1>6, <2>1 DEF PlaceInv, Judges, RemoteView, SeenIn, ReleaseStates
<1>7. ASSUME TurnsBack, PlainState = "VERIFYING", PlainState' = "ROLLING_BACK"
      PROVE  PlaceInv'
  BY <1>2, <1>3, <1>7
     DEF PlaceInv, TurnsBack, SameVerdict, RemoteView, SeenIn, ReleaseStates, Failing
<1>8. ASSUME GivesUp, PlainState' = "FAILED_ESCALATED"
      PROVE  PlaceInv'
  BY <1>2, <1>3, <1>4, <1>8
     DEF PlaceInv, GivesUp, SameVerdict, RemoteView, SeenIn, ReleaseStates
<1>9. ASSUME NEW k \in Keys, Claims(k), PlainState' = SuccessState(KindOf[k])
      PROVE  PlaceInv'
  <2>1. /\ PlainState' \in ReleaseStates \ {"UNKNOWN", "PROMOTING"}
        /\ quality.status \in RemoteView(PlainState)'
        /\ rel'.remoteRev = SeenIn(PlainState')
        /\ PlainState' # "VERIFYING"
    BY <1>1, <1>9, ClaimPlace
  <2>2. RollingBack' => RollingBack
    BY <1>2, <1>4, <1>9, KindType DEF Claims, FromState, SuccessState, Kinds
  <2> QED  BY <1>3, <1>9, <2>1, <2>2 DEF PlaceInv, Claims, SameVerdict
<1> QED  BY <1>5, <1>6, <1>7, <1>8, <1>9, PlainNext

LEMMA KeyStep ==
  ASSUME IInv, ViewInv, [Next]_vars, ViewStep
  PROVE  KeyInv'
<1> SUFFICES ASSUME NEW k \in Keys
             PROVE  /\ pc'[k] = "read" => req'[k].exp = ExpectedBy(KindOf[k])
                    /\ op'[k].status # "none" => op'[k].exp = ExpectedBy(KindOf[k])
                    /\ KindOf[k] = "canary" /\ pc'[k] # "idle" => PlainState' # "REQUESTED"
  BY DEF KeyInv
<1>1. /\ pc[k] = "read" => req[k].exp = ExpectedBy(KindOf[k])
      /\ op[k].status # "none" => op[k].exp = ExpectedBy(KindOf[k])
      /\ KindOf[k] = "canary" /\ pc[k] # "idle" => PlainState # "REQUESTED"
  BY DEF ViewInv, KeyInv
<1>2. PlainState # "REQUESTED" => PlainState' # "REQUESTED"
  BY PlainNext, KindType DEF SuccessState, Kinds
<1>3. pc'[k] = "read" => req'[k].exp = ExpectedBy(KindOf[k])
  <2>1. CASE Begin(k)
    <3>1. req'[k].exp = ExpectedRevision(KindOf[k]) /\ StepAllowed(KindOf[k])
      BY <2>1 DEF Begin, IInv, TypeOK
    <3>2. rel.state = "STAGING" => rel.remoteRev = 2
      BY PlainTypes DEF ViewInv, PlaceInv, SeenIn
    <3>3. rel.verification # "none" => rel.targetRev = 3
      BY DEF ViewInv, PlaceInv
    <3> QED  BY <3>1, <3>2, <3>3, KindType
             DEF ExpectedRevision, ExpectedBy, StepAllowed, ActionAllowed, Failing,
                 BaseRevision, Kinds
  <2>2. CASE ~Begin(k)
    BY <1>1, <2>2, WriterMoves
       DEF WriterMove, Stays, Abandon, CommitIntent, Intend, Advances, IInv, TypeOK
  <2> QED  BY <2>1, <2>2
<1>4. op'[k].status # "none" => op'[k].exp = ExpectedBy(KindOf[k])
  <2>1. CASE OpKept(k)
    BY <1>1, <2>1 DEF OpKept
  <2>2. ASSUME NEW g \in Grants \cup {None}, CommitIntent(k, g)
        PROVE  op'[k].exp = ExpectedBy(KindOf[k])
    <3>1. pc[k] = "read" /\ op'[k].exp = req[k].exp
      BY <2>2 DEF CommitIntent, Intend, IInv, TypeOK
    <3> QED  BY <1>1, <3>1
  <2> QED  BY <2>1, <2>2, OpMoves
<1>5. KindOf[k] = "canary" /\ pc'[k] # "idle" => PlainState' # "REQUESTED"
  <2>1. CASE Begin(k)
    <3>1. KindOf[k] = "canary" => PlainState # "REQUESTED"
      BY <2>1, PlainTypes DEF Begin, StepAllowed, ActionAllowed
    <3> QED  BY <1>2, <3>1
  <2>2. CASE ~Begin(k)
    <3>1. pc'[k] # "idle" => pc[k] # "idle"
      BY <2>2, WriterMoves
         DEF WriterMove, Stays, Abandon, CommitIntent, Intend, Advances, IInv, TypeOK
    <3> QED  BY <1>1, <1>2, <3>1
  <2> QED  BY <2>1, <2>2
<1> QED  BY <1>3, <1>4, <1>5

LEMMA InitView ==
  ASSUME Init
  PROVE  ViewInv
<1>1. PlainState = "REQUESTED" /\ ~RollingBack
  BY DEF Init, PlainState, RollingBack
<1>2. PlaceInv
  BY <1>1 DEF Init, PlaceInv, ReleaseStates, RemoteView, RevisionOf, SeenIn, BaseRevision
<1>3. KeyInv
  BY DEF Init, KeyInv
<1> QED  BY <1>2, <1>3 DEF ViewInv

\* ViewInv on top of IInv.
LEMMA ViewInductive == Spec => []ViewInv
<1>1. IInv /\ ViewInv /\ [Next]_vars => ViewInv'
  BY ViewMoves, PlaceStep, KeyStep DEF ViewInv
<1> QED  BY InitView, <1>1, Inductive, PTL DEF Spec

(* However many writers, retries and reconcilers race, the controller never   *)
(* claims a transition Quality has not made, and Quality is at most one ahead. *)
THEOREM TheViewIsReal == Spec => []ViewIsReal
<1>1. IInv /\ ViewInv => ViewIsReal
  <2> SUFFICES ASSUME IInv, ViewInv PROVE ViewIsReal
    OBVIOUS
  <2>1. /\ quality.status \in RemoteView(PlainState)
        /\ quality.revision = RevisionOf(quality.status)
        /\ rel.remoteRev = SeenIn(PlainState)
        /\ PlainState \in ReleaseStates \ {"UNKNOWN", "PROMOTING"}
    BY DEF ViewInv, PlaceInv
  <2>2. quality.revision \in {ConfirmedRevision, ConfirmedRevision + 1}
    BY <2>1 DEF RemoteView, RevisionOf, SeenIn, ConfirmedRevision, BaseRevision, ReleaseStates
  <2> QED  BY <2>1, <2>2 DEF ViewIsReal
<1> QED  BY <1>1, Inductive, ViewInductive, PTL
-----------------------------------------------------------------------------
(* The refinement.                                                         *)

StepOf(kind) ==
  [in   |-> CASE kind = "stage" -> "requested" [] kind = "canary" -> "staged"
              [] kind = "promote" -> "passed" [] OTHER -> "rolling_back",
   from |-> CASE kind = "stage" -> "draft" [] kind = "canary" -> "staged" [] OTHER -> "canary",
   to   |-> RemoteAfter(kind),
   out  |-> CASE kind = "stage" -> "staged" [] kind = "canary" -> "canarying"
              [] kind = "promote" -> "completed" [] OTHER -> "rolled_back"]

LEMMA StepOfKind ==
  ASSUME NEW kind \in Kinds
  PROVE  StepOf(kind) \in Lifecycle!Steps
BY DEF Kinds, StepOf, RemoteAfter, Lifecycle!Steps

\* The phase of a plain state from which a step runs, and of one it reaches.
LEMMA PhaseFrom ==
  ASSUME NEW kind \in Kinds, PlainState = FromState(kind),
         kind = "promote" => rel.verification = "passed"
  PROVE  Phase = StepOf(kind).in
BY DEF Kinds, FromState, Phase, StepOf

LEMMA PhaseTo ==
  ASSUME NEW kind \in Kinds, PlainState' = SuccessState(kind)
  PROVE  Phase' = StepOf(kind).out
BY DEF Kinds, SuccessState, Phase, StepOf

LEMMA RefinesLifecycle ==
  ASSUME IInv, ViewInv, [Next]_vars, ViewStep
  PROVE  [Lifecycle!Next]_(Lifecycle!vars)
<1> DEFINE unsure == rel.state = "UNKNOWN"
<1>1. CASE UNCHANGED <<rel, quality>>
  BY <1>1 DEF Lifecycle!vars, Phase, PlainState
<1>2. CASE Judges
  <2>1. /\ Phase = "canarying" /\ ~unsure /\ ~unsure'
        /\ Phase' = IF rel'.verification = "passed" THEN "passed" ELSE "failing"
    BY <1>2 DEF Judges, Phase, PlainState
  <2>2. \E verdict \in {"passed", "failing"} : Lifecycle!Verify(verdict)
    BY <1>2, <2>1 DEF Judges, Lifecycle!Verify
  <2> QED  BY <2>2 DEF Lifecycle!Next
<1>3. CASE TurnsBack
  <2>1. Phase = "failing" /\ Phase' = "rolling_back" /\ ~unsure /\ ~unsure'
    BY <1>3 DEF TurnsBack, Phase, PlainState, Failing
  <2> QED  BY <1>3, <2>1 DEF TurnsBack, Lifecycle!StartRollback, Lifecycle!Next
<1>4. CASE GivesUp
  <2>1. Phase = "rolling_back" /\ Phase' = "escalated" /\ ~unsure'
    BY <1>4 DEF GivesUp, Phase, PlainState
  <2> QED  BY <1>4, <2>1 DEF GivesUp, Lifecycle!Escalate, Lifecycle!Next
<1>5. ASSUME NEW k \in Keys, Claims(k)
      PROVE  Lifecycle!Next
  <2>1. KindOf[k] \in Kinds
    BY KindType
  <2>2. ~unsure' /\ PlainState' = SuccessState(KindOf[k])
    BY <1>5, <2>1, StepTypes DEF Claims, PlainState
  <2>3. Phase = StepOf(KindOf[k]).in /\ Phase' = StepOf(KindOf[k]).out
    BY <1>5, <2>1, <2>2, PhaseFrom, PhaseTo DEF Claims
  <2>4. Lifecycle!Confirm(StepOf(KindOf[k]))
    BY <1>5, <2>2, <2>3 DEF Claims, Lifecycle!Confirm, StepOf
  <2> QED  BY <2>1, <2>4, StepOfKind DEF Lifecycle!Next
<1>6. ASSUME NEW k \in Keys, Doubts(k)
      PROVE  Lifecycle!Next
  <2>1. KindOf[k] \in Kinds
    BY KindType
  <2>2. ~unsure /\ unsure' /\ PlainState = FromState(KindOf[k]) /\ PlainState' = PlainState
    BY <1>6, <2>1, StepTypes DEF Doubts, PlainState
  <2>3. Phase = StepOf(KindOf[k]).in /\ Phase' = Phase
    <3>1. Phase' = Phase
      BY <1>6, <2>2 DEF Phase, Doubts, SameVerdict
    <3> QED  BY <1>6, <2>1, <2>2, <3>1, PhaseFrom DEF Doubts
  <2>4. Phase \in {s.in : s \in Lifecycle!Steps}
    BY <2>1, <2>3, StepOfKind
  <2> QED  BY <1>6, <2>2, <2>3, <2>4 DEF Doubts, Lifecycle!Doubt, Lifecycle!Next
<1>7. ASSUME NEW k \in Keys, Effects(k)
      PROVE  Lifecycle!Next
  <2>1. KindOf[k] \in Kinds
    BY KindType
  <2>2. /\ quality.status \in RemoteBefore(KindOf[k]) \ {"active"}
        /\ \/ PlainState = FromState(KindOf[k])
           \/ KindOf[k] = "rollback" /\ PlainState = "FAILED_ESCALATED"
        /\ KindOf[k] = "promote" => rel.verification = "passed"
    BY <1>7, EffectPlace
  <2>3. \/ Phase = StepOf(KindOf[k]).in
        \/ Phase = "escalated" /\ KindOf[k] = "rollback"
    BY <2>1, <2>2, PhaseFrom DEF Phase
  <2>4. quality.status = StepOf(KindOf[k]).from /\ quality'.status = StepOf(KindOf[k]).to
    BY <1>7, <2>1, <2>2 DEF Effects, RemoteBefore, StepOf, Kinds
  <2>5. UNCHANGED <<Phase, unsure>>
    BY <1>7 DEF Effects, Phase, PlainState
  <2>6. Lifecycle!Effect(StepOf(KindOf[k]))
    BY <2>3, <2>4, <2>5 DEF Lifecycle!Effect, StepOf
  <2> QED  BY <2>1, <2>6, StepOfKind DEF Lifecycle!Next
<1> QED  BY <1>1, <1>2, <1>3, <1>4, <1>5, <1>6, <1>7 DEF ViewStep

(* Handlers, retries, crashes and reconcilers of any number, over a network   *)
(* that loses and delays, are a run of the abstract lifecycle: authorised,    *)
(* then effected, then claimed.                                              *)
THEOREM ControllerImplementsLifecycle == Spec => ImplementsLifecycle
<1>1. Init => Lifecycle!Init
  BY DEF Init, Lifecycle!Init, Phase, PlainState
<1>2. IInv /\ ViewInv /\ [Next]_vars => [Lifecycle!Next]_(Lifecycle!vars)
  BY ViewMoves, RefinesLifecycle
<1> QED  BY <1>1, <1>2, Inductive, ViewInductive, PTL
         DEF Spec, ImplementsLifecycle, Lifecycle!Spec
=============================================================================
