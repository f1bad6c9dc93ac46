---------------------------- MODULE ChangeApproval ----------------------------
(***************************************************************************)
(* From a gate report to a release: the reports of services/gate_service.py, *)
(* the work orders, approval grants and start of services/release_service.py *)
(* and the change sets of services/changeset_service.py, with the events     *)
(* they project on their case.                                              *)
(*                                                                         *)
(* One action is one transaction, except start_release, which calls Quality  *)
(* between its checks and its writes while it holds the row of the grant.    *)
(* Contents stand for the hash of a work order, time for the steps that add  *)
(* to lapsed.  What makes a report acceptable is the module GateReport, who  *)
(* may register a work order the module CaseLease.                          *)
(***************************************************************************)
EXTENDS FiniteSets, Integers, Sequences, StateMachines

CONSTANTS Cases, WorkOrders,
          CaseOf,      \* the case named by each work order
          ChangeSets, Own, \* Own[w] is the change set cs_<w> of a work order
          Contents,    \* what a work order may say (its hash)
          Drafts,      \* what callers draft: <<change set, work order, content, case>>
          Reports, Grants, Releases,
          MaxIncidents, \* bound: how much happens out of the ordinary
          None

ASSUME OwnAssumption == /\ Own \in [WorkOrders -> ChangeSets]
                        /\ \A w, x \in WorkOrders : Own[w] = Own[x] => w = x
ASSUME CaseAssumption == CaseOf \in [WorkOrders -> Cases]
ASSUME DraftsAssumption == Drafts \subseteq ChangeSets \X WorkOrders \X Contents \X Cases
ASSUME NoneAssumption == /\ None \notin Contents \cup Reports \cup WorkOrders
                         /\ None \notin Grants \cup ChangeSets \cup Releases
                         /\ WorkOrders \cap Grants = {}

VARIABLES
  report,   \* gate_reports: the work order, the conclusion and the sealed hash
  wo,       \* work_orders: their content and the report they name
  cs,       \* the aggregate of each change set
  grant,    \* approvals
  release,  \* the release aggregates: what start_release and verification bind
  case,     \* state, whether it is ATTRIBUTED, was reopened, and its change set
  starting, \* the grants whose row a start_release has locked and checked
  lapsed    \* the work orders and grants whose expiry has passed

vars == <<report, wo, cs, grant, release, case, starting, lapsed>>

Conclusions == {"passed", "failed", "error"}
ASSUME BoundAssumption == MaxIncidents \in Nat
Actions == {"canary", "promote", "rollback"}

ReportRow == [wo : WorkOrders, status : Conclusions, eval : EvalStates,
              hash : Contents \cup {None}, authorised : BOOLEAN]
WorkOrderRow == [hash : Contents, report : Reports]
(* moved, a history field: its approval was asked for on an attributed case.  *)
ChangeRow == [state : ChangesetStates, ref : WorkOrders, hash : Contents, case : Cases,
              grant : Grants \cup {None}, moved : BOOLEAN]
(* for is None for the initial grant, else the action and its release.       *)
GrantRow == [wo : WorkOrders, status : {"pending", "rejected", "consumed"},
             for : (Actions \X Releases) \cup {None}]
ReleaseRow == [wo : WorkOrders, grant : Grants, verdict : Conclusions \cup {None}]
CaseRow == [state : CaseStates, attributed : BOOLEAN, reopened : BOOLEAN,
            change : ChangeSets \cup {None}]

ASSUME NonePairAssumption == None \notin (Actions \X Releases) \cup Conclusions
ASSUME RowsAssumption ==
  None \notin ReportRow \cup WorkOrderRow \cup ChangeRow \cup GrantRow \cup ReleaseRow

Init ==
  /\ report = [e \in Reports |-> None]
  /\ wo = [w \in WorkOrders |-> None]
  /\ cs = [c \in ChangeSets |-> None]
  /\ grant = [g \in Grants |-> None]
  /\ release = [r \in Releases |-> None]
  /\ case = [k \in Cases |-> [state |-> "ATTRIBUTING", attributed |-> FALSE,
                              reopened |-> FALSE, change |-> None]]
  /\ starting = {}
  /\ lapsed = {}

(* Reports that did not pass, windows that closed, cases escalated or reopened, *)
(* and change sets that no work order would have drafted.                     *)
Incidents ==
  Cardinality({e \in Reports : report[e] # None /\ report[e].status # "passed"})
    + Cardinality(lapsed) + Cardinality({k \in Cases : case[k].reopened \/ case[k].state = "ESCALATED"})
    + Cardinality({c \in ChangeSets : cs[c] # None /\
                     ~(Own[cs[c].ref] = c /\ CaseOf[cs[c].ref] = cs[c].case)})

(* The bound leaves room for one more.                                       *)
Room == Incidents < MaxIncidents

----------------------------------------------------------------------------
(* Gate reports *)

(* validate_for_workorder: the report the work order names passed and was    *)
(* sealed with its hash.                                                     *)
Gated(w) == LET e == wo[w].report IN
            /\ report[e].wo = w
            /\ report[e].status = "passed"
            /\ report[e].hash = wo[w].hash

(* _record_eval_events: requested, received and concluded in one transaction. *)
Concluded(status, state) ==
  \E mid \in EvalStates :
    /\ NextState(EvalTable, "REQUESTED", "eval.report_received", Free, mid)
    /\ NextState(EvalTable, mid, "eval." \o status,
                 IF status = "error" THEN "retryable=false" ELSE Free, state)

\* Mutant: a report that comes after the work order needs no passed gate.
RegisterReportUnchecked(e, w, status) ==
  /\ report[e] = None
  /\ status = "passed" \/ Room
  /\ \E state \in EvalStates :
       /\ Concluded(status, state)
       /\ report' = [report EXCEPT ![e] =
            [wo |-> w, status |-> status, eval |-> state,
             hash |-> IF wo[w] = None THEN None ELSE wo[w].hash,
             authorised |-> wo[w] # None]]
  /\ UNCHANGED <<wo, cs, grant, release, case, starting, lapsed>>

(* register_report.  One that comes after its work order verifies a release:  *)
(* it must rest on the passed gate of the work order, and is sealed at once.  *)
(* The same report again is answered, another under the same id refused.      *)
RegisterReport(e, w, status) ==
  /\ report[e] = None
  /\ status = "passed" \/ Room
  /\ wo[w] # None => Gated(w)
  /\ \E state \in EvalStates :
       /\ Concluded(status, state)
       /\ report' = [report EXCEPT ![e] =
            [wo |-> w, status |-> status, eval |-> state,
             hash |-> IF wo[w] = None THEN None ELSE wo[w].hash,
             authorised |-> wo[w] # None]]
  /\ UNCHANGED <<wo, cs, grant, release, case, starting, lapsed>>

(* bind_workorder: the hash is sealed once.                                  *)
Bindable(e, w, h) == /\ report[e] # None
                     /\ report[e].wo = w
                     /\ report[e].hash \in {None, h}

(* _validate_attributed_workorder_candidate: an attributed case awaits a fix. *)
CaseAwaitsFix(w) == case[CaseOf[w]].attributed => case[CaseOf[w]].state = "AWAITING_FIX"

Drafted(w, h, k) == [state |-> "DRAFTED", ref |-> w, hash |-> h, case |-> k,
                     grant |-> None, moved |-> FALSE]

(* register_workorder seals the report, stores the work order and drafts its *)
(* change set, unless there is one of that name already.                     *)
RegisterWorkOrder(w, h, e) ==
  /\ wo[w] = None
  /\ w \notin lapsed
  /\ Bindable(e, w, h)
  /\ CaseAwaitsFix(w)
  /\ wo' = [wo EXCEPT ![w] = [hash |-> h, report |-> e]]
  /\ report' = [report EXCEPT ![e].hash = h]
  /\ cs' = IF cs[Own[w]] # None THEN cs
           ELSE [cs EXCEPT ![Own[w]] = Drafted(w, h, CaseOf[w])]
  /\ UNCHANGED <<grant, release, case, starting, lapsed>>

----------------------------------------------------------------------------
(* The case *)

\* Mutant: the case machine is not consulted.
ProjectedAnyway(k, c, ev) ==
  case' = IF ~case[k].attributed THEN case
          ELSE [case EXCEPT ![k].change = c,
                            ![k].state = IF ev = "changeset.approval_requested"
                                         THEN "AWAITING_APPROVAL"
                                         ELSE IF ev = "changeset.approved" THEN "RELEASING"
                                         ELSE "AWAITING_FIX"]

(* project_changeset_event, which only an attributed case is subject to, and  *)
(* only from a change set drafted for it.                                    *)
Projected(k, c, ev) ==
  IF ~case[k].attributed THEN UNCHANGED case
  ELSE \E to \in CaseStates :
         /\ cs[c].case = k
         /\ NextState(CaseTable, case[k].state, ev, Free, to)
         /\ case' = [case EXCEPT ![k].state = to, ![k].change = c]

(* A worker claims the case and starts an experiment; a claim or a runner    *)
(* lost on the way to the verdict (CaseLease) changes nothing here.          *)
DispatchCase(k) ==
  /\ \E mid \in CaseStates :
       /\ NextState(CaseTable, case[k].state, "case.dispatched", Free, mid)
       /\ \E to \in CaseStates :
            /\ NextState(CaseTable, mid, "experiment.requested", Free, to)
            /\ case' = [case EXCEPT ![k].state = to]
  /\ UNCHANGED <<report, wo, cs, grant, release, starting, lapsed>>

(* The verdict of the experiment reaches the case: ATTRIBUTED ...            *)
Attributed(k) ==
  /\ case[k].state = "ATTRIBUTING"
  /\ case' = [case EXCEPT ![k].state = "AWAITING_FIX", ![k].attributed = TRUE]
  /\ UNCHANGED <<report, wo, cs, grant, release, starting, lapsed>>

(* ... or another, which takes the place of an earlier one.                  *)
Unattributed(k) ==
  /\ case[k].state = "ATTRIBUTING"
  /\ case[k].reopened \/ Room
  /\ case' = [case EXCEPT ![k].state = "ESCALATED", ![k].attributed = FALSE]
  /\ UNCHANGED <<report, wo, cs, grant, release, starting, lapsed>>

(* An officer escalates the case through the generic API, or the dispatcher.  *)
EscalateCase(k) ==
  /\ case[k].state # "ESCALATED"
  /\ case[k].reopened \/ Room
  /\ case' = [case EXCEPT ![k].state = "ESCALATED"]
  /\ UNCHANGED <<report, wo, cs, grant, release, starting, lapsed>>

(* reopen: the case may be worked on again.  It keeps its verdict and its     *)
(* change set, and the change set its state.                                 *)
ReopenCase(k) ==
  /\ case[k].state = "ESCALATED"
  /\ case' = [case EXCEPT ![k].state = "OPEN", ![k].reopened = TRUE]
  /\ UNCHANGED <<report, wo, cs, grant, release, starting, lapsed>>

----------------------------------------------------------------------------
(* Change sets *)

CsStep(c, ev, to) ==
  cs[c] # None /\ NextState(ChangesetTable, cs[c].state, ev, Free, to)

(* create: any caller may draft a change set, whose name is free, for any      *)
(* work order and any case.                                                  *)
Draft(c, w, h, k) ==
  /\ cs[c] = None
  /\ (Own[w] = c /\ CaseOf[w] = k) \/ Room
  /\ cs' = [cs EXCEPT ![c] = Drafted(w, h, k)]
  /\ UNCHANGED <<report, wo, grant, release, case, starting, lapsed>>

AttachGate(c) ==
  /\ cs[c] # None
  /\ wo[cs[c].ref] # None
  /\ Gated(cs[c].ref)
  /\ \E to \in ChangesetStates : /\ CsStep(c, "changeset.gate_attached", to)
                                 /\ cs' = [cs EXCEPT ![c].state = to]
  /\ UNCHANGED <<report, wo, grant, release, case, starting, lapsed>>

(* request_approval compares the hash the change set was drafted with.       *)
RequestApproval(c) ==
  LET w == cs[c].ref IN
  /\ cs[c] # None
  /\ wo[w] # None /\ wo[w].hash = cs[c].hash
  /\ w \notin lapsed
  /\ Gated(w)
  /\ \E to \in ChangesetStates : /\ CsStep(c, "changeset.approval_requested", to)
                                 /\ cs' = [cs EXCEPT ![c].state = to,
                                               ![c].moved = case[CaseOf[w]].attributed]
  /\ Projected(CaseOf[w], c, "changeset.approval_requested")
  /\ UNCHANGED <<report, wo, grant, release, starting, lapsed>>

(* _validate_initial_approval: the initial grant of the work order, decided  *)
(* this way and unconsumed, within its window.                               *)
InitialGrant(c, g, status) ==
  LET w == cs[c].ref IN
  /\ cs[c] # None /\ wo[w] # None /\ wo[w].hash = cs[c].hash
  /\ grant[g] # None
  /\ grant[g] = [wo |-> w, status |-> status, for |-> None]
  /\ {g, w} \cap lapsed = {}
  /\ Gated(w)

(* approve and reject. *)
Decide(c, g) ==
  /\ \/ /\ InitialGrant(c, g, "pending")
        /\ \E to \in ChangesetStates :
             /\ CsStep(c, "changeset.approved", to)
             /\ cs' = [cs EXCEPT ![c].state = to, ![c].grant = g]
        /\ Projected(CaseOf[cs[c].ref], c, "changeset.approved")
     \/ /\ InitialGrant(c, g, "rejected")
        /\ \E to \in ChangesetStates :
             /\ CsStep(c, "changeset.rejected", to)
             /\ cs' = [cs EXCEPT ![c].state = to]
        /\ Projected(CaseOf[cs[c].ref], c, "changeset.rejected")
  /\ UNCHANGED <<report, wo, grant, release, starting, lapsed>>

(* expire, at any time and without a word to the case.                       *)
ExpireChange(c) ==
  /\ \E to \in ChangesetStates : /\ CsStep(c, "changeset.expired", to)
                                 /\ cs' = [cs EXCEPT ![c].state = to]
  /\ UNCHANGED <<report, wo, grant, release, case, starting, lapsed>>

(* supersede.  The API's commit is left out: what it asks for, an APPROVED   *)
(* change set whose grant a release has consumed, start_release never leaves. *)
Supersede(c) ==
  /\ \E to \in ChangesetStates : /\ CsStep(c, "changeset.drafted", to)
                                 /\ cs' = [cs EXCEPT ![c].state = to]
  /\ UNCHANGED <<report, wo, grant, release, case, starting, lapsed>>

----------------------------------------------------------------------------
(* Approval grants *)

(* The window of a grant closes no later than that of its work order.        *)
InWindow(g, w) == {g, w} \cap lapsed = {}

(* The initial grant carries the nonce of the work order and a nonce is      *)
(* registered once.                                                          *)
NonceUnused(w) == \A g \in Grants : grant[g] # None => ~(grant[g].wo = w /\ grant[g].for = None)

(* _advance_changeset_to_approved: the change set cs_<w> goes all the way to *)
(* APPROVED from wherever it is on the way there; elsewhere nothing happens. *)
Advance(w, g) ==
  LET c == Own[w]
      k == CaseOf[w]
      toApproved == cs' = [cs EXCEPT ![c].state = "APPROVED", ![c].grant = g,
                                   ![c].moved = IF cs[c].state = "AWAITING_APPROVAL" THEN @
                                                ELSE case[k].attributed]
  IN
  \/ /\ cs[c] # None /\ cs[c].state = "AWAITING_APPROVAL"
     /\ toApproved
     /\ Projected(k, c, "changeset.approved")
  \/ /\ cs[c] # None /\ cs[c].state \in {"DRAFTED", "GATE_ATTACHED"}
     /\ toApproved
     /\ \/ ~case[k].attributed /\ UNCHANGED case
        \/ /\ case[k].attributed
           /\ cs[c].case = k
           /\ \E mid, to \in CaseStates :
                /\ NextState(CaseTable, case[k].state, "changeset.approval_requested", Free, mid)
                /\ NextState(CaseTable, mid, "changeset.approved", Free, to)
                /\ case' = [case EXCEPT ![k].state = to, ![k].change = c]
  \/ /\ cs[c] # None
     /\ cs[c].state \notin {"DRAFTED", "GATE_ATTACHED", "AWAITING_APPROVAL"}
     /\ UNCHANGED <<cs, case>>

\* Mutant: the nonce of the work order is registered again.
GrantInitialAgain(g, w, status) ==
  /\ grant[g] = None /\ wo[w] # None
  /\ Gated(w)
  /\ InWindow(g, w)
  /\ grant' = [grant EXCEPT ![g] = [wo |-> w, status |-> status, for |-> None]]
  /\ IF status = "pending" THEN Advance(w, g) ELSE UNCHANGED <<cs, case>>
  /\ UNCHANGED <<report, wo, release, starting, lapsed>>

(* grant_approval, of the work order itself.  A rejection is only recorded.  *)
GrantInitial(g, w, status) ==
  /\ grant[g] = None /\ wo[w] # None
  /\ Gated(w)
  /\ NonceUnused(w)
  /\ InWindow(g, w)
  /\ grant' = [grant EXCEPT ![g] = [wo |-> w, status |-> status, for |-> None]]
  /\ IF status = "pending" THEN Advance(w, g) ELSE UNCHANGED <<cs, case>>
  /\ UNCHANGED <<report, wo, release, starting, lapsed>>

(* _validate_action_grant_registration: of an action on a release that the   *)
(* original authorisation still backs, after the verdict the action needs.   *)
ActionGrantable(w, action, r) ==
  /\ release[r] # None /\ release[r].wo = w
  /\ grant[release[r].grant] = [wo |-> w, status |-> "consumed", for |-> None]
  /\ action = "promote"  => release[r].verdict = "passed"
  /\ action = "rollback" => release[r].verdict \in {"failed", "error"}

(* grant_approval, of one action.  The change set is not concerned.          *)
GrantAction(g, w, action, r) ==
  /\ grant[g] = None /\ wo[w] # None
  /\ Gated(w)
  /\ ActionGrantable(w, action, r)
  /\ InWindow(g, w)
  /\ \E status \in {"pending", "rejected"} :
       grant' = [grant EXCEPT ![g] = [wo |-> w, status |-> status, for |-> <<action, r>>]]
  /\ UNCHANGED <<report, wo, cs, release, case, starting, lapsed>>

(* A grant, or a work order and with it all its grants, expires.             *)
Lapse(x) ==
  /\ x \notin lapsed
  /\ Room
  /\ lapsed' = lapsed \cup {x} \cup
                 {g \in Grants : x \in WorkOrders /\ grant[g] # None /\ grant[g].wo = x}
  /\ UNCHANGED <<report, wo, cs, grant, release, case, starting>>

----------------------------------------------------------------------------
(* Releases *)

\* Mutant: a grant is presented a second time.
StartableTwice(g) == /\ grant[g] # None
                     /\ grant[g].status # "rejected" /\ grant[g].for = None
                     /\ Gated(grant[g].wo)
                     /\ InWindow(g, grant[g].wo)

(* start_release, its checks: the unconsumed initial grant, in its window.    *)
(* The marks "expired" it sets on its way out are rolled back with the rest.  *)
Startable(g) == /\ grant[g] # None
                /\ grant[g].status = "pending" /\ grant[g].for = None
                /\ Gated(grant[g].wo)
                /\ InWindow(g, grant[g].wo)

StartCheck(g) ==
  /\ g \notin starting
  /\ Startable(g)
  /\ starting' = starting \cup {g}
  /\ UNCHANGED <<report, wo, cs, grant, release, case, lapsed>>

(* Quality has answered: the grant is consumed and the release requested; a  *)
(* change set that is still APPROVED is committed.                           *)
StartCommit(g, r) ==
  LET w == grant[g].wo
      c == Own[w] IN
  /\ g \in starting
  /\ release[r] = None
  /\ starting' = starting \ {g}
  /\ grant' = [grant EXCEPT ![g].status = "consumed"]
  /\ release' = [release EXCEPT ![r] = [wo |-> w, grant |-> g, verdict |-> None]]
  /\ cs' = IF cs[c] # None /\ cs[c].state = "APPROVED"
           THEN [cs EXCEPT ![c].state = "COMMITTED"] ELSE cs
  /\ UNCHANGED <<report, wo, case, lapsed>>

(* Quality fails, or shows another digest or revision than was gated.        *)
StartRefused(g) ==
  /\ g \in starting
  /\ starting' = starting \ {g}
  /\ UNCHANGED <<report, wo, cs, grant, release, case, lapsed>>

(* validate_release_verification: a report authorised by the work order.     *)
Verify(r, e) ==
  /\ release[r] # None /\ release[r].verdict = None
  /\ report[e] # None
  /\ report[e].wo = release[r].wo /\ report[e].authorised
  /\ Gated(release[r].wo)
  /\ release' = [release EXCEPT ![r].verdict = report[e].status]
  /\ UNCHANGED <<report, wo, cs, grant, case, starting, lapsed>>

----------------------------------------------------------------------------
Next ==
  \/ \E e \in Reports, w \in WorkOrders, s \in Conclusions : RegisterReport(e, w, s)
  \/ \E w \in WorkOrders, h \in Contents, e \in Reports : RegisterWorkOrder(w, h, e)
  \/ \E k \in Cases : \/ DispatchCase(k) \/ Attributed(k) \/ Unattributed(k)
                      \/ EscalateCase(k) \/ ReopenCase(k)
  \/ \E d \in Drafts : Draft(d[1], d[2], d[3], d[4])
  \/ \E c \in ChangeSets : \/ AttachGate(c) \/ RequestApproval(c)
                           \/ ExpireChange(c) \/ Supersede(c)
                           \/ \E g \in Grants : Decide(c, g)
  \/ \E g \in Grants, w \in WorkOrders :
       \/ \E s \in {"pending", "rejected"} : GrantInitial(g, w, s)
       \/ \E a \in Actions, r \in Releases : GrantAction(g, w, a, r)
  \/ \E x \in WorkOrders \cup Grants : Lapse(x)
  \/ \E g \in Grants : \/ StartCheck(g) \/ StartRefused(g)
                       \/ \E r \in Releases : StartCommit(g, r)
  \/ \E r \in Releases, e \in Reports : Verify(r, e)

Spec == Init /\ [][Next]_vars

----------------------------------------------------------------------------
TypeOK ==
  /\ report \in [Reports -> ReportRow \cup {None}]
  /\ wo \in [WorkOrders -> WorkOrderRow \cup {None}]
  /\ cs \in [ChangeSets -> ChangeRow \cup {None}]
  /\ grant \in [Grants -> GrantRow \cup {None}]
  /\ release \in [Releases -> ReleaseRow \cup {None}]
  /\ case \in [Cases -> CaseRow]
  /\ starting \subseteq Grants
  /\ lapsed \subseteq WorkOrders \cup Grants

(* Each release rests on one human approval of exactly its work order: the   *)
(* consumed initial grant, no other release of that work order, and a passed *)
(* report sealed with the same hash, however grants, reports and starts      *)
(* interleave.                                                               *)
ReleaseRestsOnGrant ==
  \A r \in Releases : release[r] # None =>
    LET w == release[r].wo IN
    /\ grant[release[r].grant] = [wo |-> w, status |-> "consumed", for |-> None]
    /\ wo[w] # None /\ Gated(w)
    /\ \A q \in Releases : release[q] # None /\ release[q].wo = w => q = r

(* A change set that bears the name of a work order of another case.         *)
BearsAnothersName(c) == \E w \in WorkOrders : Own[w] = c /\ CaseOf[w] # cs[c].case

(* A case that is being approved or released names the change set that        *)
(* brought it there, and that change set got as far, reopened case or not    *)
(* (expire may outrun its case, and so may the grant of another case's work  *)
(* order whose name it bears, while that case is not attributed).  Until the *)
(* case is reopened, no other change set that asked for approval on it is    *)
(* still in approval or approved.  Only one that asked before the case was   *)
(* attributed can push such a change set off the case: it then heads the case *)
(* itself, or was rejected and made room for the next.  A reopened case is   *)
(* attributed again beside its old change set, which nothing withdraws.      *)
CaseFollowsItsChange ==
  \A k \in Cases :
    /\ case[k].state = "AWAITING_APPROVAL" =>
         /\ case[k].change # None
         /\ \/ cs[case[k].change].state \in {"AWAITING_APPROVAL", "EXPIRED"}
            \/ /\ BearsAnothersName(case[k].change)
               /\ cs[case[k].change].state \in {"APPROVED", "COMMITTED"}
    /\ case[k].state = "RELEASING" =>
         /\ case[k].change # None
         /\ cs[case[k].change].state \in {"APPROVED", "COMMITTED", "EXPIRED"}
         /\ cs[case[k].change].grant # None
         /\ grant[cs[case[k].change].grant].status \in {"pending", "consumed"}
    /\ ~case[k].reopened =>
         \A c \in ChangeSets :
           /\ cs[c] # None /\ cs[c].case = k /\ cs[c].moved
           /\ cs[c].state \in {"AWAITING_APPROVAL", "APPROVED", "COMMITTED"}
           => \/ case[k].change = c
              \/ case[k].change # None /\ ~cs[case[k].change].moved
              \/ \E d \in ChangeSets : /\ cs[d] # None /\ cs[d].case = k
                                      /\ ~cs[d].moved /\ cs[d].state = "REJECTED"

(* A verdict on a release, and with it every promote or rollback grant, goes *)
(* back to a report made after the work order, sealed with its hash, while   *)
(* the report that gated the work order stands untouched.                    *)
VerdictRestsOnGate ==
  /\ \A e \in Reports : report[e] # None /\ report[e].authorised =>
       LET w == report[e].wo IN
       /\ wo[w] # None /\ Gated(w)
       /\ wo[w].report # e /\ report[e].hash = wo[w].hash
  /\ \A g \in Grants : grant[g] # None /\ grant[g].for # None =>
       LET r == grant[g].for[2] IN
       /\ release[r] # None /\ release[r].wo = grant[g].wo
       /\ grant[g].for[1] = "promote" =>
            \E e \in Reports : /\ report[e] # None /\ report[e].authorised
                               /\ report[e].wo = release[r].wo /\ report[e].status = "passed"

(* A change set is committed only with the release of the work order whose    *)
(* name it bears, and by the very grant that release consumed; only one that *)
(* a caller drafted under that name for another work order goes in with the  *)
(* initial grant of that other one.                                          *)
CommittedIsReleased ==
  \A c \in ChangeSets : cs[c] # None /\ cs[c].state = "COMMITTED" =>
    \E r \in Releases :
      /\ release[r] # None /\ Own[release[r].wo] = c
      /\ \/ release[r].grant = cs[c].grant
         \/ /\ cs[c].ref # release[r].wo
            /\ grant[cs[c].grant] # None
            /\ grant[cs[c].grant].wo = cs[c].ref /\ grant[cs[c].grant].for = None

=============================================================================
