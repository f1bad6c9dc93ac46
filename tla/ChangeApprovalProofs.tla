------------------------- MODULE ChangeApprovalProofs -------------------------
(***************************************************************************)
(* Proofs about ChangeApproval for any cases, work orders, change sets,      *)
(* drafts, reports, grants and releases: the types, that a release rests on *)
(* the one consumed initial grant of its gated work order, that verdicts and *)
(* action grants go back to a gate, that a committed change set is released   *)
(* by its own grant, and that a case and its change sets go together.        *)
(***************************************************************************)
EXTENDS ChangeApproval, TLAPS

-----------------------------------------------------------------------------
(* Types *)

LEMMA RowTypes ==
  ASSUME TypeOK
  PROVE  /\ \A e \in Reports : report[e] # None => report[e] \in ReportRow
         /\ \A w \in WorkOrders : wo[w] # None => wo[w] \in WorkOrderRow
         /\ \A c \in ChangeSets : cs[c] # None => cs[c] \in ChangeRow
         /\ \A g \in Grants : grant[g] # None => grant[g] \in GrantRow
         /\ \A r \in Releases : release[r] # None => release[r] \in ReleaseRow
         /\ \A k \in Cases : case[k] \in CaseRow
BY DEF TypeOK

LEMMA ProjectedType ==
  ASSUME TypeOK, NEW k \in Cases, NEW c \in ChangeSets, NEW ev, Projected(k, c, ev)
  PROVE  case' \in [Cases -> CaseRow]
<1>1. CASE UNCHANGED case BY <1>1 DEF TypeOK
<1>2. ASSUME NEW to \in CaseStates, case' = [case EXCEPT ![k].state = to, ![k].change = c]
      PROVE  case' \in [Cases -> CaseRow]
  <2>1. [case[k] EXCEPT !.state = to, !.change = c] \in CaseRow BY RowTypes DEF CaseRow
  <2> QED BY <1>2, <2>1 DEF TypeOK
<1> QED BY <1>1, <1>2 DEF Projected

LEMMA ChangeStateType ==
  ASSUME TypeOK, NEW c \in ChangeSets, cs[c] # None, NEW to \in ChangesetStates
  PROVE  [cs EXCEPT ![c].state = to] \in [ChangeSets -> ChangeRow \cup {None}]
<1>1. cs[c] \in ChangeRow BY RowTypes
<1>2. [cs[c] EXCEPT !.state = to] \in ChangeRow BY <1>1 DEF ChangeRow
<1> QED BY <1>2 DEF TypeOK

LEMMA AdvanceType ==
  ASSUME TypeOK, NEW w \in WorkOrders, NEW g \in Grants, Advance(w, g)
  PROVE  cs' \in [ChangeSets -> ChangeRow \cup {None}] /\ case' \in [Cases -> CaseRow]
<1> DEFINE c == Own[w]
           k == CaseOf[w]
           m == IF cs[c].state = "AWAITING_APPROVAL" THEN cs[c].moved ELSE case[k].attributed
           row == [cs[c] EXCEPT !.state = "APPROVED", !.grant = g, !.moved = m]
<1>1. c \in ChangeSets /\ k \in Cases BY OwnAssumption, CaseAssumption
<1>2. ASSUME cs[c] # None, cs' = [cs EXCEPT ![c] = row]
      PROVE  cs' \in [ChangeSets -> ChangeRow \cup {None}]
  <2>1. cs[c] \in ChangeRow /\ case[k] \in CaseRow BY <1>1, <1>2, RowTypes
  <2>2. m \in BOOLEAN BY <2>1 DEF ChangeRow, CaseRow
  <2> HIDE DEF m
  <2>3. row \in ChangeRow BY <2>1, <2>2 DEF ChangeRow, ChangesetStates
  <2> QED BY <1>1, <1>2, <2>3 DEF TypeOK
<1>3. CASE /\ cs[c] # None /\ cs[c].state = "AWAITING_APPROVAL"
           /\ cs' = [cs EXCEPT ![c] = row] /\ Projected(k, c, "changeset.approved")
  BY <1>1, <1>2, <1>3, ProjectedType
<1>4. ASSUME cs[c] # None, cs' = [cs EXCEPT ![c] = row],
             UNCHANGED case \/ \E to \in CaseStates :
                                 case' = [case EXCEPT ![k].state = to, ![k].change = c]
      PROVE  cs' \in [ChangeSets -> ChangeRow \cup {None}] /\ case' \in [Cases -> CaseRow]
  <2>1. CASE UNCHANGED case BY <1>2, <1>4, <2>1 DEF TypeOK
  <2>2. ASSUME NEW to \in CaseStates, case' = [case EXCEPT ![k].state = to, ![k].change = c]
        PROVE  case' \in [Cases -> CaseRow]
    <3>1. [case[k] EXCEPT !.state = to, !.change = c] \in CaseRow BY <1>1, RowTypes DEF CaseRow
    <3> QED BY <2>2, <3>1 DEF TypeOK
  <2> QED BY <1>2, <1>4, <2>1, <2>2
<1>5. CASE UNCHANGED <<cs, case>> BY <1>5 DEF TypeOK
<1>6. cs' = [cs EXCEPT ![c].state = "APPROVED", ![c].grant = g,
                       ![c].moved = IF cs[c].state = "AWAITING_APPROVAL" THEN @
                                    ELSE case[k].attributed]
      => cs' = [cs EXCEPT ![c] = row]
  BY <1>1 DEF TypeOK
<1> QED BY <1>3, <1>4, <1>5, <1>6 DEF Advance

LEMMA TypeReports ==
  ASSUME TypeOK, NEW e \in Reports, NEW w \in WorkOrders,
         (\E s \in Conclusions : RegisterReport(e, w, s))
           \/ (\E h \in Contents : RegisterWorkOrder(w, h, e))
  PROVE  TypeOK'
<1>1. ASSUME NEW s \in Conclusions, RegisterReport(e, w, s) PROVE TypeOK'
  <2>1. PICK state \in EvalStates :
          report' = [report EXCEPT ![e] =
            [wo |-> w, status |-> s, eval |-> state,
             hash |-> IF wo[w] = None THEN None ELSE wo[w].hash, authorised |-> wo[w] # None]]
    BY <1>1 DEF RegisterReport
  <2>2. (IF wo[w] = None THEN None ELSE wo[w].hash) \in Contents \cup {None}
    BY RowTypes DEF WorkOrderRow
  <2>3. report' \in [Reports -> ReportRow \cup {None}] BY <2>1, <2>2 DEF TypeOK, ReportRow
  <2> QED BY <1>1, <2>3 DEF RegisterReport, TypeOK
<1>2. ASSUME NEW h \in Contents, RegisterWorkOrder(w, h, e) PROVE TypeOK'
  <2>1. report[e] \in ReportRow BY <1>2, RowTypes DEF RegisterWorkOrder, Bindable
  <2>2. [report[e] EXCEPT !.hash = h] \in ReportRow BY <2>1 DEF ReportRow
  <2>3. report' \in [Reports -> ReportRow \cup {None}] BY <1>2, <2>2 DEF RegisterWorkOrder, TypeOK
  <2>4. wo' \in [WorkOrders -> WorkOrderRow \cup {None}]
    BY <1>2 DEF RegisterWorkOrder, TypeOK, WorkOrderRow
  <2>5. Drafted(w, h, CaseOf[w]) \in ChangeRow
    BY CaseAssumption DEF Drafted, ChangeRow, ChangesetStates
  <2>6. cs' \in [ChangeSets -> ChangeRow \cup {None}]
    BY <1>2, <2>5, OwnAssumption DEF RegisterWorkOrder, TypeOK
  <2> QED BY <1>2, <2>3, <2>4, <2>6 DEF RegisterWorkOrder, TypeOK
<1> QED BY <1>1, <1>2

(* The steps of a case itself.                                               *)
OnCase(k) == \/ DispatchCase(k) \/ Attributed(k) \/ Unattributed(k)
             \/ EscalateCase(k) \/ ReopenCase(k)

LEMMA OnlyCase ==
  ASSUME NEW k \in Cases, OnCase(k)
  PROVE  UNCHANGED <<report, wo, cs, grant, release, starting, lapsed>>
BY DEF OnCase, DispatchCase, Attributed, Unattributed, EscalateCase, ReopenCase

LEMMA TypeCases ==
  ASSUME TypeOK, NEW k \in Cases, OnCase(k)
  PROVE  TypeOK'
<1>1. case[k] \in CaseRow BY RowTypes
<1>2. /\ [case[k] EXCEPT !.state = "AWAITING_FIX", !.attributed = TRUE] \in CaseRow
      /\ [case[k] EXCEPT !.state = "ESCALATED", !.attributed = FALSE] \in CaseRow
      /\ [case[k] EXCEPT !.state = "OPEN", !.reopened = TRUE] \in CaseRow
      /\ \A to \in CaseStates : [case[k] EXCEPT !.state = to] \in CaseRow
  BY <1>1 DEF CaseRow, CaseStates
<1>3. CASE DispatchCase(k)
  <2>1. PICK to \in CaseStates : case' = [case EXCEPT ![k].state = to] BY <1>3 DEF DispatchCase
  <2>2. case' \in [Cases -> CaseRow] BY <1>2, <2>1 DEF TypeOK
  <2> QED BY <2>2, OnlyCase DEF TypeOK
<1>4. CASE Attributed(k) \/ Unattributed(k) \/ EscalateCase(k) \/ ReopenCase(k)
  <2>1. "ESCALATED" \in CaseStates BY DEF CaseStates
  <2>2. case' \in [Cases -> CaseRow]
    BY <1>2, <1>4, <2>1 DEF Attributed, Unattributed, EscalateCase, ReopenCase, TypeOK
  <2> QED BY <2>2, OnlyCase DEF TypeOK
<1> QED BY <1>3, <1>4 DEF OnCase

LEMMA TypeChanges ==
  ASSUME TypeOK, NEW c \in ChangeSets,
         \/ AttachGate(c) \/ RequestApproval(c) \/ ExpireChange(c) \/ Supersede(c)
         \/ \E g \in Grants : Decide(c, g)
  PROVE  TypeOK'
<1>1. cs[c] # None
  BY DEF AttachGate, RequestApproval, ExpireChange, Supersede, Decide, CsStep
<1>2. cs[c] \in ChangeRow BY <1>1, RowTypes
<1>3. cs[c].ref \in WorkOrders /\ CaseOf[cs[c].ref] \in Cases
  BY <1>2, CaseAssumption DEF ChangeRow
<1>4. CASE AttachGate(c) \/ ExpireChange(c) \/ Supersede(c)
  <2>1. cs' \in [ChangeSets -> ChangeRow \cup {None}]
    BY <1>1, <1>4, ChangeStateType DEF AttachGate, ExpireChange, Supersede
  <2> QED BY <1>4, <2>1 DEF AttachGate, ExpireChange, Supersede, TypeOK
<1>5. CASE RequestApproval(c)
  <2>1. PICK to \in ChangesetStates :
          cs' = [cs EXCEPT ![c].state = to, ![c].moved = case[CaseOf[cs[c].ref]].attributed]
    BY <1>5 DEF RequestApproval
  <2>2. case[CaseOf[cs[c].ref]].attributed \in BOOLEAN BY <1>3, RowTypes DEF CaseRow
  <2>3. [cs[c] EXCEPT !.state = to, !.moved = case[CaseOf[cs[c].ref]].attributed] \in ChangeRow
    BY <1>2, <2>2 DEF ChangeRow
  <2>4. cs' \in [ChangeSets -> ChangeRow \cup {None}] BY <2>1, <2>3 DEF TypeOK
  <2>5. case' \in [Cases -> CaseRow] BY <1>3, <1>5, ProjectedType DEF RequestApproval
  <2> QED BY <1>5, <2>4, <2>5 DEF RequestApproval, TypeOK
<1>6. ASSUME NEW g \in Grants, Decide(c, g) PROVE TypeOK'
  <2>1. PICK to \in ChangesetStates :
          cs' = [cs EXCEPT ![c].state = to, ![c].grant = g] \/ cs' = [cs EXCEPT ![c].state = to]
    BY <1>6 DEF Decide
  <2>2. [cs[c] EXCEPT !.state = to, !.grant = g] \in ChangeRow BY <1>2 DEF ChangeRow
  <2>3. cs' = [cs EXCEPT ![c].state = to, ![c].grant = g]
          => cs' \in [ChangeSets -> ChangeRow \cup {None}]
    BY <2>2 DEF TypeOK
  <2>4. cs' \in [ChangeSets -> ChangeRow \cup {None}] BY <1>1, <2>1, <2>3, ChangeStateType
  <2>5. case' \in [Cases -> CaseRow] BY <1>3, <1>6, ProjectedType DEF Decide
  <2> QED BY <1>6, <2>4, <2>5 DEF Decide, TypeOK
<1> QED BY <1>4, <1>5, <1>6

LEMMA TypeDrafts ==
  ASSUME TypeOK, NEW d \in Drafts, Draft(d[1], d[2], d[3], d[4])
  PROVE  TypeOK'
<1>1. d[1] \in ChangeSets /\ d[2] \in WorkOrders BY DraftsAssumption
<1>2. d[3] \in Contents /\ d[4] \in Cases BY DraftsAssumption
<1>3. Drafted(d[2], d[3], d[4]) \in ChangeRow BY <1>1, <1>2 DEF Drafted, ChangeRow, ChangesetStates
<1>4. cs' \in [ChangeSets -> ChangeRow \cup {None}] BY <1>3 DEF Draft, TypeOK
<1> QED BY <1>4 DEF Draft, TypeOK

LEMMA TypeGrants ==
  ASSUME TypeOK, NEW g \in Grants, NEW w \in WorkOrders,
         \/ \E s \in {"pending", "rejected"} : GrantInitial(g, w, s)
         \/ \E a \in Actions, r \in Releases : GrantAction(g, w, a, r)
  PROVE  TypeOK'
<1>1. ASSUME NEW s \in {"pending", "rejected"}, GrantInitial(g, w, s) PROVE TypeOK'
  <2>1. grant' \in [Grants -> GrantRow \cup {None}] BY <1>1 DEF GrantInitial, GrantRow, TypeOK
  <2>2. cs' \in [ChangeSets -> ChangeRow \cup {None}] /\ case' \in [Cases -> CaseRow]
    <3>1. CASE Advance(w, g) BY <3>1, AdvanceType
    <3>2. CASE UNCHANGED <<cs, case>> BY <3>2 DEF TypeOK
    <3> QED BY <1>1, <3>1, <3>2 DEF GrantInitial
  <2> QED BY <1>1, <2>1, <2>2 DEF GrantInitial, TypeOK
<1>2. ASSUME NEW a \in Actions, NEW r \in Releases, GrantAction(g, w, a, r) PROVE TypeOK'
  <2>1. grant' \in [Grants -> GrantRow \cup {None}] BY <1>2 DEF GrantAction, GrantRow, TypeOK
  <2> QED BY <1>2, <2>1 DEF GrantAction, TypeOK
<1> QED BY <1>1, <1>2

(* The initial grant behind a start under way is still pending.              *)
StartingPending ==
  \A g \in starting : grant[g] # None /\ grant[g].status = "pending" /\ grant[g].for = None

LEMMA TypeStarts ==
  ASSUME TypeOK, StartingPending, NEW g \in Grants,
         StartCheck(g) \/ StartRefused(g) \/ \E r \in Releases : StartCommit(g, r)
  PROVE  TypeOK'
<1>1. CASE StartCheck(g) \/ StartRefused(g) BY <1>1 DEF StartCheck, StartRefused, TypeOK
<1>2. ASSUME NEW r \in Releases, StartCommit(g, r) PROVE TypeOK'
  <2> DEFINE w == grant[g].wo
             c == Own[w]
  <2>1. grant[g] \in GrantRow BY <1>2, RowTypes DEF StartCommit, StartingPending
  <2>2. w \in WorkOrders /\ c \in ChangeSets BY <2>1, OwnAssumption DEF GrantRow
  <2>3. [grant[g] EXCEPT !.status = "consumed"] \in GrantRow BY <2>1 DEF GrantRow
  <2>4. grant' \in [Grants -> GrantRow \cup {None}] BY <1>2, <2>3 DEF StartCommit, TypeOK
  <2>5. release' \in [Releases -> ReleaseRow \cup {None}]
    BY <1>2, <2>2 DEF StartCommit, TypeOK, ReleaseRow
  <2>6. cs' \in [ChangeSets -> ChangeRow \cup {None}]
    <3>1. "COMMITTED" \in ChangesetStates BY DEF ChangesetStates
    <3>2. CASE cs[c] # None /\ cs[c].state = "APPROVED"
      <4>1. cs' = [cs EXCEPT ![c].state = "COMMITTED"] BY <1>2, <3>2 DEF StartCommit
      <4> QED BY <2>2, <3>1, <3>2, <4>1, ChangeStateType
    <3>3. CASE ~(cs[c] # None /\ cs[c].state = "APPROVED")
      BY <1>2, <3>3 DEF StartCommit, TypeOK
    <3> QED BY <3>2, <3>3
  <2> QED BY <1>2, <2>4, <2>5, <2>6 DEF StartCommit, TypeOK
<1> QED BY <1>1, <1>2

LEMMA TypeVerify ==
  ASSUME TypeOK, NEW r \in Releases, NEW e \in Reports, Verify(r, e)
  PROVE  TypeOK'
<1>1. release[r] \in ReleaseRow /\ report[e] \in ReportRow BY RowTypes DEF Verify
<1>2. [release[r] EXCEPT !.verdict = report[e].status] \in ReleaseRow
  BY <1>1 DEF ReleaseRow, ReportRow
<1>3. release' \in [Releases -> ReleaseRow \cup {None}] BY <1>2 DEF Verify, TypeOK
<1> QED BY <1>3 DEF Verify, TypeOK

LEMMA TypeLapse ==
  ASSUME TypeOK, NEW x \in WorkOrders \cup Grants, Lapse(x)
  PROVE  TypeOK'
BY DEF Lapse, TypeOK

LEMMA TypeStep ==
  ASSUME TypeOK, StartingPending, Next
  PROVE  TypeOK'
BY TypeReports, TypeCases, TypeChanges, TypeDrafts, TypeGrants, TypeStarts, TypeVerify, TypeLapse
   DEF Next, OnCase

-----------------------------------------------------------------------------
(* What a release rests on *)

Backed(w) == /\ wo[w] # None /\ Gated(w)

(* A work order names a report of its own, sealed with its hash.             *)
Sealed == \A w \in WorkOrders : wo[w] # None =>
            /\ report[wo[w].report] # None /\ report[wo[w].report].wo = w
            /\ report[wo[w].report].hash = wo[w].hash
(* A report that came after its work order rests on its gate, not on itself. *)
LaterBacked(e) == report[e] # None /\ report[e].authorised =>
                    /\ Backed(report[e].wo)
                    /\ wo[report[e].wo].report # e
                    /\ report[e].hash = wo[report[e].wo].hash
Later == \A e \in Reports : LaterBacked(e)
GrantsBacked == \A g \in Grants : grant[g] # None => Backed(grant[g].wo)
(* One initial grant of each work order.                                     *)
NonceOnce == \A g, h \in Grants :
  /\ grant[g] # None /\ grant[h] # None
  /\ grant[g].wo = grant[h].wo /\ grant[g].for = None /\ grant[h].for = None
  => g = h
Consumed == \A r \in Releases : release[r] # None =>
  /\ release[r].grant \in Grants
  /\ grant[release[r].grant] = [wo |-> release[r].wo, status |-> "consumed", for |-> None]
OneRelease == \A r, q \in Releases :
  release[r] # None /\ release[q] # None /\ release[r].wo = release[q].wo => r = q
PassedBy(w) == \E e \in Reports : /\ report[e] # None /\ report[e].authorised
                                  /\ report[e].wo = w /\ report[e].status = "passed"
VerdictsBacked == \A r \in Releases :
  release[r] # None /\ release[r].verdict = "passed" => PassedBy(release[r].wo)
ActionsBacked == \A g \in Grants : grant[g] # None /\ grant[g].for # None =>
  LET r == grant[g].for[2] IN
  /\ release[r] # None /\ release[r].wo = grant[g].wo
  /\ grant[g].for[1] = "promote" => release[r].verdict = "passed"

Core == /\ StartingPending /\ Sealed /\ Later /\ GrantsBacked /\ NonceOnce
        /\ Consumed /\ OneRelease /\ VerdictsBacked /\ ActionsBacked

LEMMA CoreInit == Init => Core
BY DEF Init, Core, StartingPending, Sealed, Later, LaterBacked, GrantsBacked, NonceOnce, Consumed,
       OneRelease, VerdictsBacked, ActionsBacked

LEMMA CoreStays ==
  ASSUME Core, UNCHANGED <<report, wo, grant, release, starting>>
  PROVE  Core'
BY DEF Core, StartingPending, Sealed, Later, LaterBacked, GrantsBacked, NonceOnce, Consumed,
       Backed, Gated, OneRelease, VerdictsBacked, ActionsBacked, PassedBy

LEMMA CoreReport ==
  ASSUME TypeOK, Core, NEW e \in Reports, NEW w \in WorkOrders, NEW s \in Conclusions,
         RegisterReport(e, w, s)
  PROVE  Core'
<1>0. PICK state \in EvalStates :
        report' = [report EXCEPT ![e] =
          [wo |-> w, status |-> s, eval |-> state,
           hash |-> IF wo[w] = None THEN None ELSE wo[w].hash,
           authorised |-> wo[w] # None]]
  BY DEF RegisterReport
<1>1. /\ UNCHANGED <<wo, grant, release, starting>> /\ report[e] = None
      /\ wo[w] # None => Gated(w)
      /\ \A d \in Reports \ {e} : report'[d] = report[d]
      /\ report'[e].wo = w /\ report'[e].authorised = (wo[w] # None)
      /\ report'[e].hash = (IF wo[w] = None THEN None ELSE wo[w].hash)
  <2>1. DOMAIN report = Reports BY DEF TypeOK
  <2>2. report'[e] = [wo |-> w, status |-> s, eval |-> state,
                      hash |-> IF wo[w] = None THEN None ELSE wo[w].hash,
                      authorised |-> wo[w] # None]
    BY <1>0, <2>1
  <2> QED BY <1>0, <2>1, <2>2 DEF RegisterReport
<1>2. \A x \in WorkOrders : wo[x] # None =>
        /\ wo[x].report \in Reports /\ wo[x].report # e
        /\ report'[wo[x].report] = report[wo[x].report]
  <2> SUFFICES ASSUME NEW x \in WorkOrders, wo[x] # None
               PROVE  /\ wo[x].report \in Reports /\ wo[x].report # e
                      /\ report'[wo[x].report] = report[wo[x].report]
    OBVIOUS
  <2>1. wo[x] \in WorkOrderRow BY RowTypes
  <2>2. wo[x].report \in Reports BY <2>1 DEF WorkOrderRow
  <2>3. report[wo[x].report] # None BY DEF Core, Sealed
  <2> QED BY <1>1, <2>2, <2>3
<1>3. Sealed' BY <1>1, <1>2 DEF Core, Sealed
<1>4. \A x \in WorkOrders : Backed(x) => Backed(x)' BY <1>1, <1>2 DEF Backed, Gated
<1>5. Later'
  <2> SUFFICES ASSUME NEW d \in Reports, report'[d] # None, report'[d].authorised
               PROVE  LaterBacked(d)'
    BY DEF Later, LaterBacked
  <2>1. CASE d = e
    <3>1. Backed(w) /\ wo[w].report # e BY <1>1, <1>2, <2>1 DEF Backed
    <3>2. Backed(w)' BY <1>4, <3>1
    <3> QED BY <1>1, <2>1, <3>1, <3>2 DEF LaterBacked
  <2>2. CASE d # e
    <3>1. PICK x \in WorkOrders : x = report[d].wo BY <1>1, <2>2, RowTypes DEF ReportRow
    <3>2. report'[d] = report[d] BY <1>1, <2>2
    <3>3. Backed(x) /\ wo[x].report # d /\ report[d].hash = wo[x].hash
      BY <3>1, <3>2 DEF Core, Later, LaterBacked
    <3>4. Backed(x)' BY <1>4, <3>3
    <3> QED BY <1>1, <3>1, <3>2, <3>3, <3>4 DEF LaterBacked
  <2> QED BY <2>1, <2>2
<1>6. GrantsBacked' BY <1>1, <1>4, RowTypes DEF Core, GrantsBacked, GrantRow
<1>7. VerdictsBacked'
  <2>1. \A x : PassedBy(x) => PassedBy(x)' BY <1>1 DEF PassedBy
  <2> QED BY <1>1, <2>1 DEF Core, VerdictsBacked
<1>8. StartingPending' /\ NonceOnce' /\ Consumed' /\ OneRelease' /\ ActionsBacked'
  BY <1>1 DEF Core, StartingPending, NonceOnce, Consumed, OneRelease, ActionsBacked
<1> QED BY <1>3, <1>5, <1>6, <1>7, <1>8 DEF Core

LEMMA CoreWorkOrder ==
  ASSUME TypeOK, Core, NEW w \in WorkOrders, NEW h \in Contents, NEW e \in Reports,
         RegisterWorkOrder(w, h, e)
  PROVE  Core'
<1>1. /\ UNCHANGED <<grant, release, starting>> /\ wo[w] = None
      /\ report[e] # None /\ report[e].wo = w
      /\ \A x \in WorkOrders \ {w} : wo'[x] = wo[x]
      /\ wo'[w] = [hash |-> h, report |-> e]
      /\ \A d \in Reports \ {e} : report'[d] = report[d]
      /\ report'[e] = [report[e] EXCEPT !.hash = h]
  <2>1. DOMAIN wo = WorkOrders /\ DOMAIN report = Reports BY DEF TypeOK
  <2> QED BY <2>1 DEF RegisterWorkOrder, Bindable
<1>2. /\ report'[e].wo = w /\ report'[e].hash = h /\ report'[e] # None
      /\ report'[e].authorised = report[e].authorised /\ report'[e].status = report[e].status
  <2>1. report[e] \in ReportRow BY <1>1, RowTypes
  <2>2. report'[e] \in ReportRow BY <1>1, <2>1 DEF ReportRow
  <2>3. report'[e] # None BY <2>2, RowsAssumption
  <2> QED BY <1>1, <2>1, <2>3 DEF ReportRow
<1>3. \A x \in WorkOrders : wo[x] # None =>
        /\ x # w /\ wo[x].report \in Reports /\ wo[x].report # e
        /\ report'[wo[x].report] = report[wo[x].report]
  <2> SUFFICES ASSUME NEW x \in WorkOrders, wo[x] # None
               PROVE  /\ x # w /\ wo[x].report \in Reports /\ wo[x].report # e
                      /\ report'[wo[x].report] = report[wo[x].report]
    OBVIOUS
  <2>1. wo[x] \in WorkOrderRow BY RowTypes
  <2>2. wo[x].report \in Reports BY <2>1 DEF WorkOrderRow
  <2>3. x # w /\ report[wo[x].report].wo = x BY <1>1 DEF Core, Sealed
  <2> QED BY <1>1, <2>2, <2>3
<1>4. Sealed'
  <2> SUFFICES ASSUME NEW x \in WorkOrders, wo'[x] # None
               PROVE  /\ report'[wo'[x].report] # None /\ report'[wo'[x].report].wo = x
                      /\ report'[wo'[x].report].hash = wo'[x].hash
    BY DEF Sealed
  <2>1. CASE x = w
    <3>1. wo'[x].report = e /\ wo'[x].hash = h BY <1>1, <2>1
    <3> QED BY <1>2, <2>1, <3>1
  <2>2. CASE x # w
    <3>1. wo'[x] = wo[x] BY <1>1, <2>2
    <3>2. report'[wo[x].report] = report[wo[x].report] BY <1>3, <3>1
    <3> QED BY <3>1, <3>2 DEF Core, Sealed
  <2> QED BY <2>1, <2>2
<1>5. \A x \in WorkOrders : Backed(x) => Backed(x)' BY <1>1, <1>3 DEF Backed, Gated
<1>6. Later'
  <2>1. ~report[e].authorised BY <1>1 DEF Core, Later, LaterBacked, Backed
  <2> SUFFICES ASSUME NEW d \in Reports, report'[d] # None, report'[d].authorised
               PROVE  LaterBacked(d)'
    BY DEF Later, LaterBacked
  <2>2. d # e BY <1>2, <2>1
  <2>3. PICK x \in WorkOrders : x = report[d].wo BY <1>1, <2>2, RowTypes DEF ReportRow
  <2>4. report'[d] = report[d] BY <1>1, <2>2
  <2>5. Backed(x) /\ wo[x].report # d /\ report[d].hash = wo[x].hash
    BY <2>3, <2>4 DEF Core, Later, LaterBacked
  <2>6. Backed(x)' /\ wo'[x] = wo[x] BY <1>1, <1>5, <2>5 DEF Backed
  <2> QED BY <2>3, <2>4, <2>5, <2>6 DEF LaterBacked
<1>7. GrantsBacked' BY <1>1, <1>5, RowTypes DEF Core, GrantsBacked, GrantRow
<1>8. VerdictsBacked'
  <2>1. ASSUME NEW x \in WorkOrders, PassedBy(x) PROVE PassedBy(x)'
    <3>1. PICK d \in Reports : /\ report[d] # None /\ report[d].authorised
                               /\ report[d].wo = x /\ report[d].status = "passed"
      BY <2>1 DEF PassedBy
    <3>2. CASE d = e BY <1>1, <1>2, <3>1, <3>2 DEF PassedBy
    <3>3. CASE d # e
      <4>1. report'[d] = report[d] BY <1>1, <3>3
      <4> QED BY <3>1, <4>1 DEF PassedBy
    <3> QED BY <3>2, <3>3
  <2> QED BY <1>1, <2>1, RowTypes DEF Core, VerdictsBacked, ReleaseRow
<1>9. StartingPending' /\ NonceOnce' /\ Consumed' /\ OneRelease' /\ ActionsBacked'
  BY <1>1 DEF Core, StartingPending, NonceOnce, Consumed, OneRelease, ActionsBacked
<1> QED BY <1>4, <1>6, <1>7, <1>8, <1>9 DEF Core

(* A new grant, of the work order itself or of an action.                    *)
LEMMA CoreGranted ==
  ASSUME TypeOK, Core, NEW g \in Grants, NEW w \in WorkOrders, NEW s, NEW for,
         grant[g] = None, Backed(w),
         grant' = [grant EXCEPT ![g] = [wo |-> w, status |-> s, for |-> for]],
         for = None => NonceUnused(w),
         for # None => /\ release[for[2]] # None /\ release[for[2]].wo = w
                       /\ for[1] = "promote" => release[for[2]].verdict = "passed",
         UNCHANGED <<report, wo, release, starting>>
  PROVE  Core'
<1>1. /\ \A h \in Grants \ {g} : grant'[h] = grant[h]
      /\ grant'[g] = [wo |-> w, status |-> s, for |-> for]
  BY DEF TypeOK
<1>2. StartingPending' BY <1>1 DEF Core, StartingPending, TypeOK
<1>3. Sealed' /\ Later' /\ OneRelease' /\ VerdictsBacked'
  BY DEF Core, Sealed, Later, LaterBacked, Backed, Gated, OneRelease, VerdictsBacked, PassedBy
<1>4. GrantsBacked' BY <1>1 DEF Core, GrantsBacked, Backed, Gated
<1>5. NonceOnce' BY <1>1 DEF Core, NonceOnce, NonceUnused
<1>6. Consumed'
  <2> SUFFICES ASSUME NEW r \in Releases, release[r] # None
               PROVE  /\ release[r].grant \in Grants
                      /\ grant'[release[r].grant] =
                           [wo |-> release[r].wo, status |-> "consumed", for |-> None]
    BY DEF Consumed
  <2>1. /\ release[r].grant \in Grants
        /\ grant[release[r].grant] = [wo |-> release[r].wo, status |-> "consumed", for |-> None]
    BY DEF Core, Consumed
  <2>2. release[r] \in ReleaseRow BY RowTypes
  <2>3. [wo |-> release[r].wo, status |-> "consumed", for |-> None] \in GrantRow
    BY <2>2 DEF ReleaseRow, GrantRow
  <2>4. release[r].grant # g BY <2>1, <2>3, RowsAssumption
  <2> QED BY <1>1, <2>1, <2>4
<1>7. ActionsBacked' BY <1>1 DEF Core, ActionsBacked
<1> QED BY <1>2, <1>3, <1>4, <1>5, <1>6, <1>7 DEF Core

LEMMA CoreGrants ==
  ASSUME TypeOK, Core, NEW g \in Grants, NEW w \in WorkOrders,
         \/ \E s \in {"pending", "rejected"} : GrantInitial(g, w, s)
         \/ \E a \in Actions, r \in Releases : GrantAction(g, w, a, r)
  PROVE  Core'
<1>1. ASSUME NEW s \in {"pending", "rejected"}, GrantInitial(g, w, s) PROVE Core'
  BY <1>1, CoreGranted DEF GrantInitial, Backed
<1>2. ASSUME NEW a \in Actions, NEW r \in Releases, GrantAction(g, w, a, r) PROVE Core'
  <2>1. PICK s \in {"pending", "rejected"} :
          grant' = [grant EXCEPT ![g] = [wo |-> w, status |-> s, for |-> <<a, r>>]]
    BY <1>2 DEF GrantAction
  <2> DEFINE for == <<a, r>>
  <2>2. for[1] = a /\ for[2] = r OBVIOUS
  <2>3. /\ release[for[2]] # None /\ release[for[2]].wo = w
        /\ for[1] = "promote" => release[for[2]].verdict = "passed"
    BY <1>2, <2>2 DEF GrantAction, ActionGrantable
  <2>4. for # None BY NonePairAssumption
  <2>5. grant[g] = None /\ Backed(w) /\ UNCHANGED <<report, wo, release, starting>>
    BY <1>2 DEF GrantAction, Backed
  <2>6. grant' = [grant EXCEPT ![g] = [wo |-> w, status |-> s, for |-> for]] BY <2>1
  <2> HIDE DEF for
  <2> QED BY <2>3, <2>4, <2>5, <2>6, CoreGranted
<1> QED BY <1>1, <1>2

(* The start of a release: the grant goes from pending to consumed, and the  *)
(* release is the first of its work order since the nonce is registered once. *)
LEMMA CoreStarts ==
  ASSUME TypeOK, Core, NEW g \in Grants,
         StartCheck(g) \/ StartRefused(g) \/ \E r \in Releases : StartCommit(g, r)
  PROVE  Core'
<1>1. CASE StartCheck(g) \/ StartRefused(g)
  <2>1. StartingPending'
    BY <1>1 DEF StartCheck, StartRefused, Startable, Core, StartingPending
  <2>2. UNCHANGED <<report, wo, grant, release>> BY <1>1 DEF StartCheck, StartRefused
  <2>3. Sealed' /\ GrantsBacked' /\ NonceOnce' /\ Consumed' /\ OneRelease'
    BY <2>2 DEF Core, Sealed, GrantsBacked, NonceOnce, Consumed, Backed, Gated, OneRelease
  <2>4. Later' BY <2>2 DEF Core, Later, LaterBacked, Backed, Gated
  <2>5. VerdictsBacked' /\ ActionsBacked'
    BY <2>2 DEF Core, VerdictsBacked, ActionsBacked, PassedBy, Backed, Gated
  <2> QED BY <2>1, <2>3, <2>4, <2>5 DEF Core
<1>2. ASSUME NEW r \in Releases, StartCommit(g, r) PROVE Core'
  <2>1. PICK w \in WorkOrders : grant[g] = [wo |-> w, status |-> "pending", for |-> None]
    <3>1. grant[g] # None /\ grant[g].status = "pending" /\ grant[g].for = None
      BY <1>2 DEF StartCommit, Core, StartingPending
    <3>2. grant[g] \in GrantRow BY <3>1, RowTypes
    <3> QED BY <3>1, <3>2 DEF GrantRow
  <2>2. /\ grant' = [grant EXCEPT ![g].status = "consumed"]
        /\ release' = [release EXCEPT ![r] = [wo |-> w, grant |-> g, verdict |-> None]]
        /\ release[r] = None /\ starting' = starting \ {g} /\ UNCHANGED <<report, wo>>
    BY <1>2, <2>1 DEF StartCommit
  <2>3. DOMAIN grant = Grants /\ DOMAIN release = Releases BY DEF TypeOK
  <2>4. /\ grant'[g] = [wo |-> w, status |-> "consumed", for |-> None]
        /\ \A h \in Grants \ {g} : grant'[h] = grant[h]
    BY <2>1, <2>2, <2>3
  <2>5. /\ release'[r] = [wo |-> w, grant |-> g, verdict |-> None]
        /\ \A q \in Releases \ {r} : release'[q] = release[q]
    BY <2>2, <2>3
  <2>6. grant[g] # None /\ grant'[g] # None
    <3>1. grant'[g] \in GrantRow BY <2>4 DEF GrantRow
    <3>2. grant[g] \in GrantRow BY <2>1 DEF GrantRow
    <3> QED BY <3>1, <3>2, RowsAssumption
  <2>7. \A h \in Grants : /\ grant'[h] # None <=> grant[h] # None
                          /\ grant[h] # None => /\ grant'[h].wo = grant[h].wo
                                                /\ grant'[h].for = grant[h].for
    BY <2>1, <2>4, <2>6
  <2>8. \A q \in Releases : release[q] # None => q # r /\ release[q].wo # w
    <3> SUFFICES ASSUME NEW q \in Releases, release[q] # None PROVE q # r /\ release[q].wo # w
      OBVIOUS
    <3>1. PICK h \in Grants :
            /\ h = release[q].grant
            /\ grant[h] = [wo |-> release[q].wo, status |-> "consumed", for |-> None]
      BY DEF Core, Consumed
    <3>2. release[q] \in ReleaseRow BY RowTypes
    <3>3. grant[h] \in GrantRow BY <3>1, <3>2 DEF GrantRow, ReleaseRow
    <3>4. grant[h] # None BY <3>3, RowsAssumption
    <3>5. h # g BY <2>1, <3>1
    <3> QED BY <2>1, <2>2, <2>6, <3>1, <3>4, <3>5 DEF Core, NonceOnce
  <2>9. StartingPending' BY <2>2, <2>4 DEF Core, StartingPending, TypeOK
  <2>10. Sealed' /\ Later' BY <2>2 DEF Core, Sealed, Later, LaterBacked, Backed, Gated
  <2>11. GrantsBacked' BY <2>2, <2>7 DEF Core, GrantsBacked, Backed, Gated
  <2>12. NonceOnce' BY <2>7 DEF Core, NonceOnce
  <2>13. Consumed'
    <3> SUFFICES ASSUME NEW q \in Releases, release'[q] # None
                 PROVE  /\ release'[q].grant \in Grants
                        /\ grant'[release'[q].grant] =
                             [wo |-> release'[q].wo, status |-> "consumed", for |-> None]
      BY DEF Consumed
    <3>1. CASE q = r BY <2>4, <2>5, <3>1
    <3>2. CASE q # r
      <4>1. release'[q] = release[q] BY <2>5, <3>2
      <4>2. PICK h \in Grants :
              /\ h = release[q].grant
              /\ grant[h] = [wo |-> release[q].wo, status |-> "consumed", for |-> None]
        BY <4>1 DEF Core, Consumed
      <4>3. h # g BY <2>1, <4>2
      <4> QED BY <2>4, <4>1, <4>2, <4>3
    <3> QED BY <3>1, <3>2
  <2>14. OneRelease' BY <2>5, <2>8 DEF Core, OneRelease
  <2>15. VerdictsBacked'
    <3>1. ASSUME NEW x, PassedBy(x) PROVE PassedBy(x)' BY <2>2, <3>1 DEF PassedBy
    <3> SUFFICES ASSUME NEW q \in Releases, release'[q] # None, release'[q].verdict = "passed"
                 PROVE  PassedBy(release[q].wo)' /\ release'[q].wo = release[q].wo
      BY <2>2 DEF VerdictsBacked, PassedBy
    <3>2. q # r BY <2>5, NonePairAssumption DEF Conclusions
    <3>3. release'[q] = release[q] BY <2>5, <3>2
    <3> QED BY <2>2, <3>3 DEF Core, VerdictsBacked, PassedBy
  <2>16. ActionsBacked'
    <3> SUFFICES ASSUME NEW h \in Grants, grant[h] # None, grant[h].for # None
                 PROVE  LET q == grant[h].for[2] IN
                        /\ release'[q] # None /\ release'[q].wo = grant[h].wo
                        /\ grant[h].for[1] = "promote" => release'[q].verdict = "passed"
      BY <2>7 DEF ActionsBacked
    <3>1. PICK q \in Releases : q = grant[h].for[2]
      <4>1. grant[h] \in GrantRow BY RowTypes
      <4> QED BY <4>1 DEF GrantRow
    <3>2. /\ release[q] # None /\ release[q].wo = grant[h].wo
          /\ grant[h].for[1] = "promote" => release[q].verdict = "passed"
      BY <3>1 DEF Core, ActionsBacked
    <3>3. release'[q] = release[q] BY <2>5, <2>8, <3>2
    <3> QED BY <3>1, <3>2, <3>3
  <2> QED BY <2>9, <2>10, <2>11, <2>12, <2>13, <2>14, <2>15, <2>16 DEF Core
<1> QED BY <1>1, <1>2

(* The verdict of a release, once, from a report its work order authorised.  *)
LEMMA CoreVerify ==
  ASSUME TypeOK, Core, NEW r \in Releases, NEW e \in Reports, Verify(r, e)
  PROVE  Core'
<1>1. /\ UNCHANGED <<report, wo, grant, starting>>
      /\ release[r] # None /\ release[r].verdict = None
      /\ report[e] # None /\ report[e].wo = release[r].wo /\ report[e].authorised
      /\ \A q \in Releases \ {r} : release'[q] = release[q]
      /\ release'[r] = [release[r] EXCEPT !.verdict = report[e].status]
  BY DEF Verify, TypeOK
<1>2. /\ release[r] \in ReleaseRow /\ release'[r] \in ReleaseRow
      /\ release'[r].verdict = report[e].status
  <2>1. release[r] \in ReleaseRow /\ report[e] \in ReportRow BY <1>1, RowTypes
  <2> QED BY <1>1, <2>1 DEF ReleaseRow, ReportRow
<1>3. release'[r] # None BY <1>2, RowsAssumption
<1>4. \A q \in Releases : /\ release'[q] # None <=> release[q] # None
                          /\ release[q] # None => /\ release'[q].wo = release[q].wo
                                                  /\ release'[q].grant = release[q].grant
  BY <1>1, <1>2, <1>3 DEF ReleaseRow
<1>5. StartingPending' /\ Sealed' /\ Later' /\ GrantsBacked' /\ NonceOnce'
  <2>1. UNCHANGED <<report, wo, grant, starting>> BY <1>1
  <2>2. StartingPending' /\ GrantsBacked' /\ NonceOnce'
    BY <2>1 DEF Core, StartingPending, GrantsBacked, NonceOnce, Backed, Gated
  <2>3. Sealed' BY <2>1 DEF Core, Sealed, Backed, Gated
  <2>4. Later' BY <2>1 DEF Core, Later, LaterBacked, Backed, Gated
  <2> QED BY <2>2, <2>3, <2>4
<1>6. Consumed' /\ OneRelease' BY <1>1, <1>4 DEF Core, Consumed, OneRelease
<1>7. VerdictsBacked'
  <2> SUFFICES ASSUME NEW q \in Releases, release'[q] # None, release'[q].verdict = "passed"
               PROVE  PassedBy(release[q].wo)' /\ release'[q].wo = release[q].wo
    BY <1>1 DEF VerdictsBacked, PassedBy
  <2>1. CASE q = r BY <1>1, <1>2, <1>4, <2>1 DEF PassedBy
  <2>2. CASE q # r
    <3>1. release'[q] = release[q] BY <1>1, <2>2
    <3> QED BY <1>1, <3>1 DEF Core, VerdictsBacked, PassedBy
  <2> QED BY <2>1, <2>2
<1>8. ActionsBacked'
  <2> SUFFICES ASSUME NEW h \in Grants, grant[h] # None, grant[h].for # None
               PROVE  LET q == grant[h].for[2] IN
                      /\ release'[q] # None /\ release'[q].wo = grant[h].wo
                      /\ grant[h].for[1] = "promote" => release'[q].verdict = "passed"
    BY <1>1 DEF ActionsBacked
  <2>1. PICK q \in Releases : q = grant[h].for[2]
    <3>1. grant[h] \in GrantRow BY RowTypes
    <3> QED BY <3>1 DEF GrantRow
  <2>2. /\ release[q] # None /\ release[q].wo = grant[h].wo
        /\ grant[h].for[1] = "promote" => release[q].verdict = "passed"
    BY <2>1 DEF Core, ActionsBacked
  <2>3. grant[h].for[1] = "promote" => q # r BY <1>1, <2>2, NonePairAssumption DEF Conclusions
  <2>4. grant[h].for[1] = "promote" => release'[q].verdict = "passed" BY <1>1, <2>2, <2>3
  <2> QED BY <1>4, <2>1, <2>2, <2>4
<1> QED BY <1>5, <1>6, <1>7, <1>8 DEF Core

LEMMA CoreStep ==
  ASSUME TypeOK, Core, Next
  PROVE  Core'
<1>1. ASSUME NEW k \in Cases, OnCase(k) PROVE Core'
  BY <1>1, CoreStays, OnlyCase
<1>2. ASSUME NEW d \in Drafts, Draft(d[1], d[2], d[3], d[4]) PROVE Core'
  BY <1>2, CoreStays DEF Draft
<1>3. ASSUME NEW c \in ChangeSets,
             \/ AttachGate(c) \/ RequestApproval(c) \/ ExpireChange(c) \/ Supersede(c)
             \/ \E g \in Grants : Decide(c, g)
      PROVE  Core'
  BY <1>3, CoreStays DEF AttachGate, RequestApproval, ExpireChange, Supersede, Decide
<1>4. ASSUME NEW x \in WorkOrders \cup Grants, Lapse(x) PROVE Core'
  BY <1>4, CoreStays DEF Lapse
<1> QED BY <1>1, <1>2, <1>3, <1>4, CoreReport, CoreWorkOrder, CoreGrants, CoreStarts, CoreVerify
           DEF Next, OnCase

-----------------------------------------------------------------------------
(* What a committed change set rests on                                      *)

(* An approved change set has an initial grant of its work order, or of the   *)
(* one whose name it bears.                                                  *)
Granted(c) == cs[c] # None /\ cs[c].state = "APPROVED" =>
  \E g \in Grants : /\ cs[c].grant = g /\ grant[g] # None /\ grant[g].for = None
                    /\ grant[g].wo = cs[c].ref \/ Own[grant[g].wo] = c
CommittedBy(c, r) ==
  /\ release[r] # None /\ Own[release[r].wo] = c
  /\ \/ release[r].grant = cs[c].grant
     \/ /\ cs[c].ref # release[r].wo
        /\ \E g \in Grants : /\ cs[c].grant = g /\ grant[g] # None
                             /\ grant[g].wo = cs[c].ref /\ grant[g].for = None
Released(c) == cs[c] # None /\ cs[c].state = "COMMITTED" =>
  \E r \in Releases : CommittedBy(c, r)
Committal == \A c \in ChangeSets : Granted(c) /\ Released(c)

(* No step takes back what a grant or a release is for.                      *)
Kept ==
  /\ \A g \in Grants : grant[g] # None =>
       grant'[g] # None /\ grant'[g].wo = grant[g].wo /\ grant'[g].for = grant[g].for
  /\ \A r \in Releases : release[r] # None =>
       release'[r] # None /\ release'[r].wo = release[r].wo /\ release'[r].grant = release[r].grant

LEMMA StepKeeps ==
  ASSUME TypeOK, Core, Next
  PROVE  Kept
<1>1. CASE UNCHANGED <<grant, release>> BY <1>1 DEF Kept
<1>2. ASSUME NEW g \in Grants, NEW w \in WorkOrders,
             \/ \E s \in {"pending", "rejected"} : GrantInitial(g, w, s)
             \/ \E a \in Actions, r \in Releases : GrantAction(g, w, a, r)
      PROVE  Kept
  BY <1>2 DEF GrantInitial, GrantAction, Kept, TypeOK
<1>3. ASSUME NEW g \in Grants, NEW r \in Releases, StartCommit(g, r) PROVE Kept
  <2>1. grant[g] # None /\ grant[g] \in GrantRow
    BY <1>3, RowTypes DEF StartCommit, Core, StartingPending
  <2>2. /\ grant'[g] = [grant[g] EXCEPT !.status = "consumed"]
        /\ \A h \in Grants \ {g} : grant'[h] = grant[h]
    BY <1>3 DEF StartCommit, TypeOK
  <2>3. grant'[g] \in GrantRow /\ grant'[g].wo = grant[g].wo /\ grant'[g].for = grant[g].for
    BY <2>1, <2>2 DEF GrantRow
  <2>4. grant'[g] # None BY <2>3, RowsAssumption
  <2>5. \A q \in Releases : release[q] # None => release'[q] = release[q]
    BY <1>3 DEF StartCommit, TypeOK
  <2> QED BY <2>2, <2>3, <2>4, <2>5 DEF Kept
<1>4. ASSUME NEW r \in Releases, NEW e \in Reports, Verify(r, e) PROVE Kept
  <2>1. release[r] \in ReleaseRow /\ report[e] \in ReportRow BY <1>4, RowTypes DEF Verify
  <2>2. /\ release'[r] = [release[r] EXCEPT !.verdict = report[e].status]
        /\ \A q \in Releases \ {r} : release'[q] = release[q]
    BY <1>4 DEF Verify, TypeOK
  <2>3. /\ release'[r] \in ReleaseRow
        /\ release'[r].wo = release[r].wo /\ release'[r].grant = release[r].grant
    BY <2>1, <2>2 DEF ReleaseRow, ReportRow
  <2>4. release'[r] # None BY <2>3, RowsAssumption
  <2> QED BY <1>4, <2>2, <2>3, <2>4 DEF Kept, Verify
<1>5. ASSUME NEW e \in Reports, NEW w \in WorkOrders,
             \/ \E s \in Conclusions : RegisterReport(e, w, s)
             \/ \E h \in Contents : RegisterWorkOrder(w, h, e)
      PROVE  Kept
  BY <1>1, <1>5 DEF RegisterReport, RegisterWorkOrder
<1>6. ASSUME NEW k \in Cases, OnCase(k) PROVE Kept
  BY <1>1, <1>6, OnlyCase
<1>7. ASSUME NEW d \in Drafts, Draft(d[1], d[2], d[3], d[4]) PROVE Kept
  BY <1>1, <1>7 DEF Draft
<1>8. ASSUME NEW c \in ChangeSets,
             \/ AttachGate(c) \/ RequestApproval(c) \/ ExpireChange(c) \/ Supersede(c)
             \/ \E g \in Grants : Decide(c, g)
      PROVE  Kept
  BY <1>1, <1>8 DEF AttachGate, RequestApproval, ExpireChange, Supersede, Decide
<1>9. ASSUME NEW x \in WorkOrders \cup Grants, Lapse(x) PROVE Kept
  BY <1>1, <1>9 DEF Lapse
<1>10. ASSUME NEW g \in Grants, StartCheck(g) \/ StartRefused(g) PROVE Kept
  BY <1>1, <1>10 DEF StartCheck, StartRefused
<1> QED BY <1>2, <1>3, <1>4, <1>5, <1>6, <1>7, <1>8, <1>9, <1>10
           DEF Next, OnCase

(* A change set that neither gets approved nor committed needs nothing new.   *)
LEMMA Untouched ==
  ASSUME Committal, Kept, NEW c \in ChangeSets,
         \/ cs'[c] = cs[c]
         \/ cs'[c].state \notin {"APPROVED", "COMMITTED"}
  PROVE  Granted(c)' /\ Released(c)'
<1>1. Granted(c)'
  <2> SUFFICES ASSUME cs'[c] # None, cs'[c].state = "APPROVED"
               PROVE  \E g \in Grants :
                        /\ cs'[c].grant = g /\ grant'[g] # None /\ grant'[g].for = None
                        /\ grant'[g].wo = cs'[c].ref \/ Own[grant'[g].wo] = c
    BY DEF Granted
  <2>1. cs'[c] = cs[c] OBVIOUS
  <2>2. PICK g \in Grants : /\ cs[c].grant = g /\ grant[g] # None /\ grant[g].for = None
                            /\ grant[g].wo = cs[c].ref \/ Own[grant[g].wo] = c
    BY <2>1 DEF Committal, Granted
  <2> QED BY <2>1, <2>2 DEF Kept
<1>2. Released(c)'
  <2> SUFFICES ASSUME cs'[c] # None, cs'[c].state = "COMMITTED"
               PROVE  \E r \in Releases : CommittedBy(c, r)'
    BY DEF Released
  <2>1. cs'[c] = cs[c] OBVIOUS
  <2>2. PICK r \in Releases : CommittedBy(c, r) BY <2>1 DEF Committal, Released
  <2>3. /\ release'[r] # None /\ release'[r].wo = release[r].wo
        /\ release'[r].grant = release[r].grant
    BY <2>2 DEF Kept, CommittedBy
  <2>4. \A g \in Grants : grant[g] # None =>
          grant'[g] # None /\ grant'[g].wo = grant[g].wo /\ grant'[g].for = grant[g].for
    BY DEF Kept
  <2>5. CommittedBy(c, r)' BY <2>1, <2>2, <2>3, <2>4 DEF CommittedBy
  <2> QED BY <2>5
<1> QED BY <1>1, <1>2

LEMMA DraftedStands ==
  ASSUME NEW c \in ChangeSets, NEW w, NEW h, NEW k, cs'[c] = Drafted(w, h, k)
  PROVE  Granted(c)' /\ Released(c)'
BY DEF Drafted, Granted, Released

LEMMA ApprovedStands ==
  ASSUME NEW c \in ChangeSets, NEW g \in Grants, cs'[c].state = "APPROVED", cs'[c].grant = g,
         grant'[g] # None, grant'[g].for = None,
         grant'[g].wo = cs'[c].ref \/ Own[grant'[g].wo] = c
  PROVE  Granted(c)' /\ Released(c)'
BY DEF Granted, Released

(* Only approve brings a change set to APPROVED through its machine, and only *)
(* commit to COMMITTED.                                                      *)
LEMMA EventsApart ==
  ASSUME NEW s, NEW to,
         NEW ev \in {"changeset.gate_attached", "changeset.approval_requested",
                     "changeset.rejected", "changeset.expired", "changeset.drafted"},
         NextState(ChangesetTable, s, ev, Free, to)
  PROVE  to \notin {"APPROVED", "COMMITTED"}
BY DEF NextState, ChangesetTable

LEMMA ApprovedApart ==
  ASSUME NEW s, NEW to, NextState(ChangesetTable, s, "changeset.approved", Free, to)
  PROVE  to = "APPROVED"
BY DEF NextState, ChangesetTable

(* The steps that leave every change set but one as it is.                   *)
LEMMA OthersStand ==
  ASSUME TypeOK, Committal, Kept, NEW c \in ChangeSets, NEW row,
         cs' = [cs EXCEPT ![c] = row],
         Granted(c)' /\ Released(c)'
  PROVE  Committal'
<1> SUFFICES ASSUME NEW d \in ChangeSets PROVE Granted(d)' /\ Released(d)'
  BY DEF Committal
<1>1. CASE d = c BY <1>1
<1>2. CASE d # c
  <2>1. cs'[d] = cs[d] BY <1>2 DEF TypeOK
  <2> QED BY <2>1, Untouched
<1> QED BY <1>1, <1>2

LEMMA CommittalStays == ASSUME Committal, Kept, UNCHANGED cs PROVE Committal'
<1> SUFFICES ASSUME NEW d \in ChangeSets PROVE Granted(d)' /\ Released(d)'
  BY DEF Committal
<1> QED BY Untouched

LEMMA CommittalDrafts ==
  ASSUME TypeOK, Committal, Kept,
         \/ \E w \in WorkOrders, h \in Contents, e \in Reports : RegisterWorkOrder(w, h, e)
         \/ \E d \in Drafts : Draft(d[1], d[2], d[3], d[4])
  PROVE  Committal'
<1>1. ASSUME NEW c \in ChangeSets, NEW w, NEW h, NEW k,
             cs' = [cs EXCEPT ![c] = Drafted(w, h, k)]
      PROVE  Committal'
  <2>1. cs'[c] = Drafted(w, h, k) BY <1>1 DEF TypeOK
  <2>2. Granted(c)' /\ Released(c)' BY <2>1, DraftedStands
  <2> DEFINE row == Drafted(w, h, k)
  <2>3. cs' = [cs EXCEPT ![c] = row] BY <1>1
  <2> HIDE DEF row
  <2> QED BY <2>2, <2>3, OthersStand
<1>2. ASSUME NEW w \in WorkOrders, NEW h \in Contents, NEW e \in Reports,
             RegisterWorkOrder(w, h, e)
      PROVE  Committal'
  <2>1. Own[w] \in ChangeSets BY OwnAssumption
  <2>2. UNCHANGED cs \/ cs' = [cs EXCEPT ![Own[w]] = Drafted(w, h, CaseOf[w])]
    BY <1>2 DEF RegisterWorkOrder
  <2> QED BY <1>1, <2>1, <2>2, CommittalStays
<1>3. ASSUME NEW d \in Drafts, Draft(d[1], d[2], d[3], d[4]) PROVE Committal'
  <2>1. d[1] \in ChangeSets BY DraftsAssumption
  <2>2. cs' = [cs EXCEPT ![d[1]] = Drafted(d[2], d[3], d[4])] BY <1>3 DEF Draft
  <2> QED BY <1>1, <2>1, <2>2
<1> QED BY <1>2, <1>3

(* An event of the machine that neither approves nor commits.                *)
LEMMA CommittalMoved ==
  ASSUME TypeOK, Committal, Kept, NEW c \in ChangeSets, NEW to \in ChangesetStates, NEW m,
         cs[c] # None, to \notin {"APPROVED", "COMMITTED"},
         \/ cs' = [cs EXCEPT ![c].state = to]
         \/ cs' = [cs EXCEPT ![c].state = to, ![c].moved = m]
  PROVE  Committal'
<1>1. cs[c] \in ChangeRow BY RowTypes
<1>2. PICK row \in {[cs[c] EXCEPT !.state = to], [cs[c] EXCEPT !.state = to, !.moved = m]} :
        cs' = [cs EXCEPT ![c] = row]
  OBVIOUS
<1>3. row.state = to BY <1>1, <1>2 DEF ChangeRow
<1>4. cs'[c] = row BY <1>2 DEF TypeOK
<1>5. Granted(c)' /\ Released(c)' BY <1>3, <1>4, Untouched
<1> QED BY <1>2, <1>5, OthersStand

(* approve, from the pending initial grant the caller names.                 *)
LEMMA CommittalDecide ==
  ASSUME TypeOK, Committal, Kept, NEW c \in ChangeSets, NEW g \in Grants, Decide(c, g)
  PROVE  Committal'
<1>1. ASSUME InitialGrant(c, g, "pending"), NEW to \in ChangesetStates,
             CsStep(c, "changeset.approved", to),
             cs' = [cs EXCEPT ![c].state = to, ![c].grant = g]
      PROVE  Committal'
  <2> DEFINE row == [cs[c] EXCEPT !.state = to, !.grant = g]
  <2>1. cs[c] # None /\ cs[c] \in ChangeRow BY <1>1, RowTypes DEF CsStep
  <2>2. cs' = [cs EXCEPT ![c] = row] BY <1>1
  <2>3. cs'[c] = row BY <2>2 DEF TypeOK
  <2>4. to = "APPROVED" BY <1>1, ApprovedApart DEF CsStep
  <2>5. cs'[c].ref = cs[c].ref /\ cs'[c].state = "APPROVED" /\ cs'[c].grant = g
    BY <2>1, <2>3, <2>4 DEF ChangeRow
  <2>6. grant[g] # None /\ grant[g].wo = cs[c].ref /\ grant[g].for = None
    BY <1>1 DEF InitialGrant
  <2>7. grant'[g] # None /\ grant'[g].wo = cs[c].ref /\ grant'[g].for = None
    BY <2>6 DEF Kept
  <2>8. Granted(c)' /\ Released(c)'
    BY <2>5, <2>7, ApprovedStands
  <2> HIDE DEF row
  <2> QED BY <2>2, <2>8, OthersStand
<1>2. ASSUME NEW to \in ChangesetStates, CsStep(c, "changeset.rejected", to),
             cs' = [cs EXCEPT ![c].state = to]
      PROVE  Committal'
  <2>1. to \notin {"APPROVED", "COMMITTED"} BY <1>2, EventsApart DEF CsStep
  <2> QED BY <1>2, <2>1, CommittalMoved DEF CsStep
<1> QED BY <1>1, <1>2 DEF Decide

(* A new initial grant brings the change set of its work order to APPROVED.  *)
LEMMA CommittalGranted ==
  ASSUME TypeOK, Committal, Kept, NEW g \in Grants, NEW w \in WorkOrders,
         NEW s \in {"pending", "rejected"}, GrantInitial(g, w, s)
  PROVE  Committal'
<1>1. CASE UNCHANGED cs BY <1>1, CommittalStays
<1>2. CASE s = "pending" /\ ~UNCHANGED cs
  <2> DEFINE c == Own[w]
             row == [cs[c] EXCEPT !.state = "APPROVED", !.grant = g,
                       !.moved = IF cs[c].state = "AWAITING_APPROVAL" THEN @
                                 ELSE case[CaseOf[w]].attributed]
  <2>1. c \in ChangeSets BY OwnAssumption
  <2>2. cs[c] # None /\ cs' = [cs EXCEPT ![c] = row]
    BY <1>2 DEF GrantInitial, Advance
  <2>3. cs[c] \in ChangeRow BY <2>1, <2>2, RowTypes
  <2>4. cs'[c] = row BY <2>1, <2>2 DEF TypeOK
  <2>5. cs'[c].ref = cs[c].ref /\ cs'[c].state = "APPROVED" /\ cs'[c].grant = g
    BY <2>3, <2>4 DEF ChangeRow
  <2>7. grant'[g] = [wo |-> w, status |-> s, for |-> None]
    BY DEF GrantInitial, TypeOK
  <2>8. grant'[g] # None
    <3>1. grant'[g] \in GrantRow BY <2>7 DEF GrantRow
    <3> QED BY <3>1, RowsAssumption
  <2>10. Granted(c)' /\ Released(c)'
    BY <2>1, <2>5, <2>7, <2>8, ApprovedStands
  <2> HIDE DEF c, row
  <2> QED BY <2>1, <2>2, <2>10, OthersStand
<1> QED BY <1>1, <1>2 DEF GrantInitial

(* The start of a release commits the change set its own grant approved.     *)
LEMMA CommittalStart ==
  ASSUME TypeOK, Core, Committal, Kept, NEW g \in Grants, NEW r \in Releases,
         StartCommit(g, r)
  PROVE  Committal'
<1>1. PICK w \in WorkOrders : /\ w = grant[g].wo
                              /\ grant[g] # None /\ grant[g].for = None
  <2>1. grant[g] # None /\ grant[g].for = None BY DEF StartCommit, Core, StartingPending
  <2>2. grant[g] \in GrantRow BY <2>1, RowTypes
  <2> QED BY <2>1, <2>2 DEF GrantRow
<1>2. PICK c \in ChangeSets : c = Own[w] BY OwnAssumption
<1>3. CASE UNCHANGED cs BY <1>3, CommittalStays
<1>4. CASE /\ cs[c] # None /\ cs[c].state = "APPROVED"
           /\ cs' = [cs EXCEPT ![c].state = "COMMITTED"]
  <2> DEFINE row == [cs[c] EXCEPT !.state = "COMMITTED"]
  <2>1. cs[c] \in ChangeRow BY <1>4, RowTypes
  <2>2. cs' = [cs EXCEPT ![c] = row] BY <1>4
  <2>3. cs'[c] = row BY <2>2 DEF TypeOK
  <2>4. /\ cs'[c].ref = cs[c].ref /\ cs'[c].state = "COMMITTED"
        /\ cs'[c].grant = cs[c].grant
    BY <2>1, <2>3 DEF ChangeRow
  <2>5. PICK h \in Grants : /\ cs[c].grant = h /\ grant[h] # None /\ grant[h].for = None
                            /\ grant[h].wo = cs[c].ref \/ Own[grant[h].wo] = c
    BY <1>4 DEF Committal, Granted
  <2>6. grant[h].wo \in WorkOrders BY <2>5, RowTypes DEF GrantRow
  <2>7. h = g \/ (cs[c].ref # w /\ grant[h].wo = cs[c].ref)
    <3>1. CASE grant[h].wo = w BY <1>1, <2>5, <3>1 DEF Core, NonceOnce
    <3>2. CASE grant[h].wo # w BY <1>2, <2>5, <2>6, <3>2, OwnAssumption
    <3> QED BY <3>1, <3>2
  <2>8. release'[r] = [wo |-> w, grant |-> g, verdict |-> None]
    BY <1>1 DEF StartCommit, TypeOK
  <2>9. release'[r] # None
    <3>1. release'[r] \in ReleaseRow BY <2>8 DEF ReleaseRow
    <3> QED BY <3>1, RowsAssumption
  <2>10. grant'[h] # None /\ grant'[h].wo = grant[h].wo /\ grant'[h].for = None
    BY <2>5 DEF Kept
  <2>11. Granted(c)' BY <2>4 DEF Granted
  <2>12. Released(c)'
    <3>1. /\ release'[r].wo = w /\ release'[r].grant = g BY <2>8
    <3>2. CommittedBy(c, r)'
      BY <1>2, <2>4, <2>5, <2>7, <2>9, <2>10, <3>1 DEF CommittedBy
    <3> QED BY <3>2 DEF Released
  <2> HIDE DEF row
  <2> QED BY <2>2, <2>11, <2>12, OthersStand
<1> QED BY <1>1, <1>2, <1>3, <1>4 DEF StartCommit

LEMMA CommittalStep ==
  ASSUME TypeOK, Core, Committal, Next
  PROVE  Committal'
<1>0. Kept BY StepKeeps
<1>1. ASSUME NEW e \in Reports, NEW w \in WorkOrders, NEW s \in Conclusions,
             RegisterReport(e, w, s)
      PROVE  Committal'
  BY <1>0, <1>1, CommittalStays DEF RegisterReport
<1>2. ASSUME NEW k \in Cases, OnCase(k) PROVE Committal'
  BY <1>0, <1>2, CommittalStays, OnlyCase
<1>3. ASSUME NEW c \in ChangeSets, AttachGate(c) \/ ExpireChange(c) \/ Supersede(c)
      PROVE  Committal'
  <2>1. PICK to \in ChangesetStates,
             ev \in {"changeset.gate_attached", "changeset.expired", "changeset.drafted"} :
          CsStep(c, ev, to) /\ cs' = [cs EXCEPT ![c].state = to]
    BY <1>3 DEF AttachGate, ExpireChange, Supersede
  <2>2. to \notin {"APPROVED", "COMMITTED"} BY <2>1, EventsApart DEF CsStep
  <2> QED BY <1>0, <2>1, <2>2, CommittalMoved DEF CsStep
<1>4. ASSUME NEW c \in ChangeSets, RequestApproval(c) PROVE Committal'
  <2>1. PICK to \in ChangesetStates :
          /\ CsStep(c, "changeset.approval_requested", to)
          /\ cs' = [cs EXCEPT ![c].state = to,
                              ![c].moved = case[CaseOf[cs[c].ref]].attributed]
    BY <1>4 DEF RequestApproval
  <2>2. to \notin {"APPROVED", "COMMITTED"} BY <2>1, EventsApart DEF CsStep
  <2> QED BY <1>0, <2>1, <2>2, CommittalMoved DEF CsStep
<1>5. ASSUME NEW g \in Grants, NEW w \in WorkOrders, NEW a \in Actions, NEW r \in Releases,
             GrantAction(g, w, a, r)
      PROVE  Committal'
  BY <1>0, <1>5, CommittalStays DEF GrantAction
<1>6. ASSUME NEW x \in WorkOrders \cup Grants, Lapse(x) PROVE Committal'
  BY <1>0, <1>6, CommittalStays DEF Lapse
<1>7. ASSUME NEW g \in Grants, StartCheck(g) \/ StartRefused(g) PROVE Committal'
  BY <1>0, <1>7, CommittalStays DEF StartCheck, StartRefused
<1>8. ASSUME NEW r \in Releases, NEW e \in Reports, Verify(r, e) PROVE Committal'
  BY <1>0, <1>8, CommittalStays DEF Verify
<1> QED BY <1>0, <1>1, <1>2, <1>3, <1>4, <1>5, <1>6, <1>7, <1>8, CommittalDrafts,
           CommittalDecide, CommittalGranted, CommittalStart DEF Next, OnCase

-----------------------------------------------------------------------------
(* What a case and its change sets know of each other                        *)

Live == {"AWAITING_APPROVAL", "APPROVED", "COMMITTED"}
Asked == Live \cup {"REJECTED", "EXPIRED"}
OfCase(c, k) == cs[c] # None /\ cs[c].case = k
InFlight(c, k) == OfCase(c, k) /\ cs[c].moved /\ cs[c].state \in Live
(* One that asked before the case was attributed has been rejected.          *)
MadeRoom(k) == \E d \in ChangeSets : OfCase(d, k) /\ ~cs[d].moved /\ cs[d].state = "REJECTED"

(* A verdict has been on the case.                                           *)
Judged(k) == case[k].attributed \/ case[k].reopened
Staged(k) ==
  /\ case[k].state \in {"OPEN", "ATTRIBUTING", "AWAITING_FIX", "AWAITING_APPROVAL",
                        "RELEASING", "ESCALATED"}
  /\ case[k].attributed /\ ~case[k].reopened => case[k].state \notin {"OPEN", "ATTRIBUTING"}
  /\ ~case[k].attributed => case[k].state \in {"OPEN", "ATTRIBUTING", "ESCALATED"}
(* The change set a case names is one of its own and has asked for approval. *)
Tracks(k) == case[k].change # None =>
  OfCase(case[k].change, k) /\ cs[case[k].change].state \in Asked
AwaitsApproval(k) == case[k].state = "AWAITING_APPROVAL" =>
  /\ case[k].change # None
  /\ \/ cs[case[k].change].state \in {"AWAITING_APPROVAL", "EXPIRED"}
     \/ /\ BearsAnothersName(case[k].change)
        /\ cs[case[k].change].state \in {"APPROVED", "COMMITTED"}
  /\ cs[case[k].change].moved
  /\ CaseOf[cs[case[k].change].ref] = k
Releasing(k) == case[k].state = "RELEASING" =>
  /\ case[k].change # None
  /\ cs[case[k].change].state \in {"APPROVED", "COMMITTED", "EXPIRED"}
  /\ cs[case[k].change].grant # None
(* No approval is in flight on a case that is back to awaiting a fix.        *)
Cleared(k) == case[k].state = "AWAITING_FIX" /\ ~case[k].reopened =>
  \A c \in ChangeSets : InFlight(c, k) => MadeRoom(k)
OneInFlight(k) == ~case[k].reopened => \A c \in ChangeSets : InFlight(c, k) =>
  /\ case[k].change # None
  /\ case[k].change = c \/ ~cs[case[k].change].moved \/ MadeRoom(k)
CaseInv(k) == /\ Staged(k) /\ Tracks(k) /\ AwaitsApproval(k) /\ Releasing(k)
              /\ Cleared(k) /\ OneInFlight(k)

Standing(g) == grant[g] # None /\ grant[g].status \in {"pending", "consumed"}
ChangeInv(c) == cs[c] # None =>
  /\ cs[c].moved => Judged(cs[c].case)
  /\ cs[c].grant # None => Standing(cs[c].grant)
Follows == /\ \A k \in Cases : CaseInv(k)
           /\ \A c \in ChangeSets : ChangeInv(c)

LEMMA FollowsInit == Init => Follows
BY DEF Init, Follows, CaseInv, Staged, Tracks, AwaitsApproval, Releasing, Cleared, OneInFlight,
       InFlight, OfCase, ChangeInv

(* The case waits for this change set to be decided.                         *)
Heeded(c, k) == case[k].state = "AWAITING_APPROVAL" /\ case[k].change = c

(* What a change set may do without a word to its case: expire, be committed, *)
(* be decided where its case does not wait for it, and ask where its case is *)
(* not attributed.                                                           *)
Hushed(c, k) ==
  /\ cs'[c] # None /\ cs'[c].case = k /\ cs'[c].ref = cs[c].ref
  /\ cs[c].grant # None => cs'[c].grant # None
  /\ cs'[c].moved => cs[c].moved
  /\ \/ /\ cs[c].state \in Asked /\ cs'[c].moved = cs[c].moved
        /\ \/ cs'[c].state = cs[c].state
           \/ cs[c].state \in {"AWAITING_APPROVAL", "APPROVED"} /\ cs'[c].state = "EXPIRED"
           \/ cs[c].state = "APPROVED" /\ cs'[c].state = "COMMITTED"
     \/ /\ cs[c].state = "AWAITING_APPROVAL" /\ cs'[c].moved = cs[c].moved
        /\ cs'[c].state \in {"APPROVED", "REJECTED"}
        /\ Heeded(c, k) => cs'[c].state = "APPROVED" /\ BearsAnothersName(c)
     \/ cs[c].state \notin Asked /\ (cs'[c].state \notin Live \/ ~cs'[c].moved)

(* A case stands while none of its change sets does more than that.          *)
LEMMA CaseStands ==
  ASSUME NEW k \in Cases, CaseInv(k), case'[k] = case[k],
         case[k].change \in ChangeSets \cup {None},
         \A d \in ChangeSets : OfCase(d, k) => Hushed(d, k),
         \A d \in ChangeSets : OfCase(d, k)' => OfCase(d, k) \/ ~cs'[d].moved
  PROVE  CaseInv(k)'
<1>1. \A d \in ChangeSets : InFlight(d, k)' => InFlight(d, k)
  BY DEF InFlight, Hushed, OfCase, Live, Asked
<1>2. MadeRoom(k) => MadeRoom(k)' BY DEF MadeRoom, Hushed, Asked, Live, OfCase
<1>3. Staged(k)' BY DEF CaseInv, Staged
<1>4. case[k].change # None =>
        LET b == case[k].change IN
        /\ b \in ChangeSets /\ OfCase(b, k) /\ OfCase(b, k)' /\ Hushed(b, k)
        /\ cs[b].state \in Asked
  BY DEF CaseInv, Tracks, Hushed, OfCase
<1>5. Tracks(k)' BY <1>4 DEF CaseInv, Tracks, Hushed, OfCase, Asked, Live
<1>6. AwaitsApproval(k)'
  <2> SUFFICES ASSUME case[k].state = "AWAITING_APPROVAL"
               PROVE  AwaitsApproval(k)'
    BY DEF AwaitsApproval
  <2>1. PICK b \in ChangeSets :
          /\ b = case[k].change /\ b # None /\ OfCase(b, k) /\ OfCase(b, k)' /\ Hushed(b, k)
    BY <1>4 DEF CaseInv, AwaitsApproval
  <2>2. /\ \/ cs[b].state \in {"AWAITING_APPROVAL", "EXPIRED"}
           \/ BearsAnothersName(b) /\ cs[b].state \in {"APPROVED", "COMMITTED"}
        /\ cs[b].moved /\ CaseOf[cs[b].ref] = k
    BY <2>1 DEF CaseInv, AwaitsApproval
  <2>3. Heeded(b, k) BY <2>1 DEF Heeded
  <2>4. BearsAnothersName(b) => BearsAnothersName(b)' BY <2>1 DEF BearsAnothersName, OfCase
  <2>5. \/ cs'[b].state \in {"AWAITING_APPROVAL", "EXPIRED"}
        \/ BearsAnothersName(b)' /\ cs'[b].state \in {"APPROVED", "COMMITTED"}
    BY <2>1, <2>2, <2>3, <2>4 DEF Hushed, Asked, Live
  <2>6. cs'[b].moved /\ CaseOf[cs'[b].ref] = k BY <2>1, <2>2 DEF Hushed, Asked, Live
  <2>7. case'[k].change = b /\ b # None BY <2>1
  <2> QED BY <2>5, <2>6, <2>7 DEF AwaitsApproval, BearsAnothersName
<1>7. Releasing(k)' BY <1>4 DEF CaseInv, Releasing, Hushed, Asked, Live
<1>8. Cleared(k)' BY <1>1, <1>2 DEF CaseInv, Cleared
<1>9. OneInFlight(k)'
  <2> SUFFICES ASSUME ~case[k].reopened, NEW c \in ChangeSets, InFlight(c, k)'
               PROVE  /\ case'[k].change # None
                      /\ case'[k].change = c \/ ~cs'[case'[k].change].moved \/ MadeRoom(k)'
    BY DEF OneInFlight
  <2>1. /\ case[k].change # None
        /\ case[k].change = c \/ ~cs[case[k].change].moved \/ MadeRoom(k)
    BY <1>1 DEF CaseInv, OneInFlight
  <2>2. ~cs[case[k].change].moved => ~cs'[case[k].change].moved
    BY <1>4, <2>1 DEF Hushed
  <2> QED BY <1>2, <2>1, <2>2
<1> QED BY <1>3, <1>5, <1>6, <1>7, <1>8, <1>9 DEF CaseInv

(* A change set that keeps still is hushed.                                  *)
LEMMA Still ==
  ASSUME NEW c \in ChangeSets, NEW k, OfCase(c, k), cs'[c] = cs[c]
  PROVE  Hushed(c, k)
BY DEF Hushed, OfCase, Asked, Live

(* The events a change set sends its case while the case is attributed.      *)
LEMMA CaseEvents ==
  /\ \A s, to : NextState(CaseTable, s, "changeset.approval_requested", Free, to)
                  => s = "AWAITING_FIX" /\ to = "AWAITING_APPROVAL"
  /\ \A s, to : NextState(CaseTable, s, "changeset.approved", Free, to)
                  => s = "AWAITING_APPROVAL" /\ to = "RELEASING"
  /\ \A s, to : NextState(CaseTable, s, "changeset.rejected", Free, to)
                  => s = "AWAITING_APPROVAL" /\ to = "AWAITING_FIX"
  /\ \A s, to : NextState(CaseTable, s, "case.dispatched", Free, to)
                  => s = "OPEN" /\ to = "DISPATCHED"
  /\ \A to : NextState(CaseTable, "DISPATCHED", "experiment.requested", Free, to)
                  => to = "ATTRIBUTING"
BY DEF NextState, CaseTable, AnyState, Free

LEMMA ChangeEvents ==
  /\ \A s, to : NextState(ChangesetTable, s, "changeset.gate_attached", Free, to)
                  => s = "DRAFTED" /\ to = "GATE_ATTACHED"
  /\ \A s, to : NextState(ChangesetTable, s, "changeset.drafted", Free, to)
                  => s = "DRAFTED" /\ to = "SUPERSEDED"
  /\ \A s, to : NextState(ChangesetTable, s, "changeset.expired", Free, to)
                  => s \in {"AWAITING_APPROVAL", "APPROVED"} /\ to = "EXPIRED"
  /\ \A s, to : NextState(ChangesetTable, s, "changeset.approval_requested", Free, to)
                  => s = "GATE_ATTACHED" /\ to = "AWAITING_APPROVAL"
  /\ \A s, to : NextState(ChangesetTable, s, "changeset.approved", Free, to)
                  => s = "AWAITING_APPROVAL" /\ to = "APPROVED"
  /\ \A s, to : NextState(ChangesetTable, s, "changeset.rejected", Free, to)
                  => s = "AWAITING_APPROVAL" /\ to = "REJECTED"
BY DEF NextState, ChangesetTable, AnyState, Free

(* Change set c goes from one state to another, and from awaiting approval    *)
(* only by a decision; an attributed case goes with it and names it.         *)
Heads(k, c, from, to) ==
  /\ case[k].state = from
  /\ case'[k].state = to /\ case'[k].change = c /\ case'[k].attributed
  /\ case'[k].reopened = case[k].reopened
OneMoves(c) == \A d \in ChangeSets \ {c} : cs'[d] = cs[d]
Asks(c, k, to) ==
  /\ OneMoves(c) /\ OfCase(c, k) /\ OfCase(c, k)'
  /\ cs[c].state \in {"DRAFTED", "GATE_ATTACHED"}
  /\ cs'[c].moved
  /\ \/ /\ to = "AWAITING_APPROVAL" /\ cs'[c].state = "AWAITING_APPROVAL"
        /\ CaseOf[cs'[c].ref] = k
     \/ to = "RELEASING" /\ cs'[c].state = "APPROVED" /\ cs'[c].grant # None
  /\ Heads(k, c, "AWAITING_FIX", to)
IsDecided(c, k, to) ==
  /\ OneMoves(c) /\ OfCase(c, k) /\ OfCase(c, k)'
  /\ cs[c].state = "AWAITING_APPROVAL"
  /\ cs'[c].moved = cs[c].moved
  /\ \/ to = "AWAITING_FIX" /\ cs'[c].state = "REJECTED"
     \/ to = "RELEASING" /\ cs'[c].state = "APPROVED" /\ cs'[c].grant # None
  /\ Heads(k, c, "AWAITING_APPROVAL", to)

(* A request on a case that awaits a fix: whatever else is in flight has made *)
(* room already.                                                             *)
LEMMA CaseAsks ==
  ASSUME NEW k \in Cases, NEW c \in ChangeSets, NEW to, CaseInv(k), Asks(c, k, to)
  PROVE  CaseInv(k)'
<1>1. c # None BY NoneAssumption
<1>2. MadeRoom(k) => MadeRoom(k)' BY DEF MadeRoom, Asks, OneMoves, OfCase
<1>3. ASSUME ~case[k].reopened, NEW d \in ChangeSets, d # c, InFlight(d, k)' PROVE MadeRoom(k)'
  <2>1. InFlight(d, k) BY <1>3 DEF Asks, OneMoves, InFlight, OfCase
  <2> QED BY <1>2, <1>3, <2>1 DEF Asks, Heads, CaseInv, Cleared
<1>4. Staged(k)' /\ Tracks(k)' /\ AwaitsApproval(k)' /\ Releasing(k)' /\ Cleared(k)'
  BY <1>1 DEF Asks, Heads, Staged, Tracks, AwaitsApproval, Releasing, Cleared, Asked, Live
<1>5. OneInFlight(k)' BY <1>1, <1>3 DEF Asks, Heads, OneInFlight
<1> QED BY <1>4, <1>5 DEF CaseInv

(* A decision on a case that awaits it: only a change set that asked before   *)
(* the case was attributed decides in the place of another.                  *)
LEMMA CaseDecided ==
  ASSUME NEW k \in Cases, NEW c \in ChangeSets, NEW to, CaseInv(k), IsDecided(c, k, to)
  PROVE  CaseInv(k)'
<1>1. c # None BY NoneAssumption
<1>2. MadeRoom(k) => MadeRoom(k)' BY DEF MadeRoom, IsDecided, OneMoves, OfCase
<1>3. ~case[k].reopened =>
        \A d \in ChangeSets : InFlight(d, k) => case[k].change = d \/ MadeRoom(k)
  BY DEF IsDecided, Heads, CaseInv, OneInFlight, AwaitsApproval
<1>4. ASSUME ~case[k].reopened, NEW d \in ChangeSets, d # c, InFlight(d, k)'
      PROVE  ~cs'[c].moved \/ MadeRoom(k)'
  <2>1. InFlight(d, k) BY <1>4 DEF IsDecided, OneMoves, InFlight, OfCase
  <2>2. cs[c].moved => InFlight(c, k) BY DEF IsDecided, InFlight, Live
  <2> QED BY <1>2, <1>3, <1>4, <2>1, <2>2 DEF IsDecided
<1>5. Staged(k)' /\ Tracks(k)' /\ AwaitsApproval(k)' /\ Releasing(k)'
  BY <1>1 DEF IsDecided, Heads, Staged, Tracks, AwaitsApproval, Releasing, Asked, Live
<1>6. Cleared(k)'
  <2> SUFFICES ASSUME case'[k].state = "AWAITING_FIX", ~case'[k].reopened,
                      NEW d \in ChangeSets, InFlight(d, k)'
               PROVE  MadeRoom(k)'
    BY DEF Cleared
  <2>1. cs'[c].state = "REJECTED" /\ ~case[k].reopened BY DEF IsDecided, Heads
  <2>2. d # c BY <2>1 DEF InFlight, Live
  <2>3. ~cs'[c].moved => MadeRoom(k)' BY <2>1 DEF MadeRoom, IsDecided
  <2> QED BY <1>4, <2>1, <2>2, <2>3
<1>7. OneInFlight(k)' BY <1>1, <1>4 DEF IsDecided, Heads, OneInFlight
<1> QED BY <1>5, <1>6, <1>7 DEF CaseInv

(* The steps of a case itself: the first verdict finds nothing in flight, and *)
(* an escalation stops the case until it is reopened.                        *)
LEMMA CaseAlone ==
  ASSUME TypeOK, NEW k \in Cases, CaseInv(k), OnCase(k),
         \A c \in ChangeSets : InFlight(c, k) => Judged(k)
  PROVE  CaseInv(k)' /\ (Judged(k) => Judged(k)')
<1>1. UNCHANGED cs BY OnlyCase
<1>2. case[k] \in CaseRow BY RowTypes
<1>3. \/ /\ case[k].state = "OPEN"
         /\ case'[k] = [case[k] EXCEPT !.state = "ATTRIBUTING"]
      \/ /\ case[k].state = "ATTRIBUTING"
         /\ case'[k] = [case[k] EXCEPT !.state = "AWAITING_FIX", !.attributed = TRUE]
      \/ /\ case[k].state = "ATTRIBUTING"
         /\ case'[k] = [case[k] EXCEPT !.state = "ESCALATED", !.attributed = FALSE]
      \/ case'[k] = [case[k] EXCEPT !.state = "ESCALATED"]
      \/ case'[k] = [case[k] EXCEPT !.state = "OPEN", !.reopened = TRUE]
  <2>1. CASE DispatchCase(k) BY <2>1, CaseEvents DEF DispatchCase, TypeOK
  <2>2. CASE Attributed(k) \/ Unattributed(k) \/ EscalateCase(k) \/ ReopenCase(k)
    BY <2>2 DEF Attributed, Unattributed, EscalateCase, ReopenCase, TypeOK
  <2> QED BY <2>1, <2>2 DEF OnCase
<1>4. case'[k].change = case[k].change BY <1>2, <1>3 DEF CaseRow
<1>5. \A c \in ChangeSets : InFlight(c, k)' <=> InFlight(c, k) BY <1>1 DEF InFlight, OfCase
<1>6. MadeRoom(k)' <=> MadeRoom(k) BY <1>1 DEF MadeRoom, OfCase
<1>7. \/ /\ case[k].state = "OPEN" /\ case'[k].state = "ATTRIBUTING"
         /\ case'[k].attributed = case[k].attributed /\ case'[k].reopened = case[k].reopened
      \/ /\ case[k].state = "ATTRIBUTING" /\ case'[k].state = "AWAITING_FIX"
         /\ case'[k].attributed /\ case'[k].reopened = case[k].reopened
      \/ /\ case[k].state = "ATTRIBUTING" /\ case'[k].state = "ESCALATED"
         /\ ~case'[k].attributed /\ case'[k].reopened = case[k].reopened
      \/ /\ case'[k].state = "ESCALATED"
         /\ case'[k].attributed = case[k].attributed /\ case'[k].reopened = case[k].reopened
      \/ /\ case'[k].state = "OPEN"
         /\ case'[k].attributed = case[k].attributed /\ case'[k].reopened
  BY <1>2, <1>3 DEF CaseRow
<1>8. Staged(k) BY DEF CaseInv
<1>9. Staged(k)' BY <1>7, <1>8 DEF Staged
<1>10. Judged(k) => Judged(k)' BY <1>7, <1>8 DEF Judged, Staged
<1>11. Tracks(k)' /\ AwaitsApproval(k)' /\ Releasing(k)'
  BY <1>1, <1>4, <1>7 DEF CaseInv, Tracks, AwaitsApproval, Releasing, OfCase
<1>12. Cleared(k)' BY <1>5, <1>7, <1>8 DEF Cleared, Staged, Judged
<1>13. OneInFlight(k)'
  <2>1. case'[k].reopened \/ case'[k].reopened = case[k].reopened BY <1>7
  <2> QED BY <1>1, <1>4, <1>5, <1>6, <2>1 DEF CaseInv, OneInFlight
<1> QED BY <1>9, <1>10, <1>11, <1>12, <1>13 DEF CaseInv

GrantsStand == \A g \in Grants : Standing(g) => Standing(g)'
(* A case that was judged stays so.                                          *)
VerdictsStand == \A k \in Cases : Judged(k) => Judged(k)'

LEMMA StepStands ==
  ASSUME TypeOK, Core, Next
  PROVE  GrantsStand
<1>1. CASE UNCHANGED grant BY <1>1 DEF GrantsStand, Standing
<1>2. ASSUME NEW g \in Grants, NEW w \in WorkOrders,
             \/ \E s \in {"pending", "rejected"} : GrantInitial(g, w, s)
             \/ \E a \in Actions, r \in Releases : GrantAction(g, w, a, r)
      PROVE  GrantsStand
  BY <1>2 DEF GrantInitial, GrantAction, GrantsStand, Standing, TypeOK
<1>3. ASSUME NEW g \in Grants, NEW r \in Releases, StartCommit(g, r) PROVE GrantsStand
  <2>1. grant[g] # None /\ grant[g] \in GrantRow
    BY <1>3, RowTypes DEF StartCommit, Core, StartingPending
  <2>2. /\ grant'[g] = [grant[g] EXCEPT !.status = "consumed"]
        /\ \A h \in Grants \ {g} : grant'[h] = grant[h]
    BY <1>3 DEF StartCommit, TypeOK
  <2>3. grant'[g] \in GrantRow /\ grant'[g].status = "consumed" BY <2>1, <2>2 DEF GrantRow
  <2> QED BY <2>2, <2>3, RowsAssumption DEF GrantsStand, Standing
<1> QED BY <1>1, <1>2, <1>3
     DEF Next, RegisterReport, RegisterWorkOrder, DispatchCase, Attributed, Unattributed,
         EscalateCase, ReopenCase, Draft, AttachGate,
         RequestApproval, ExpireChange, Supersede, Decide, Lapse, StartCheck, StartRefused, Verify

(* What a change set keeps to while it keeps its case and its grant.         *)
LEMMA ChangeStands ==
  ASSUME TypeOK, GrantsStand, VerdictsStand, NEW c \in ChangeSets, ChangeInv(c),
         cs[c] # None => /\ cs'[c].case = cs[c].case
                         /\ cs'[c].moved => cs[c].moved
                         /\ \/ cs'[c].grant = cs[c].grant
                            \/ \E g \in Grants : cs'[c].grant = g /\ Standing(g)',
         cs[c] = None => cs'[c] = None
  PROVE  ChangeInv(c)'
<1> SUFFICES ASSUME cs'[c] # None
             PROVE  /\ cs'[c].moved => Judged(cs[c].case)'
                    /\ cs'[c].grant # None => Standing(cs[c].grant)'
  BY DEF ChangeInv
<1>1. cs[c] # None /\ cs[c] \in ChangeRow BY RowTypes
<1>2. PICK k \in Cases : k = cs[c].case /\ k = cs'[c].case BY <1>1 DEF ChangeRow
<1>3. cs'[c].moved => Judged(cs[c].case)'
  <2> SUFFICES ASSUME cs'[c].moved PROVE Judged(cs[c].case)' OBVIOUS
  <2>1. Judged(k) BY <1>1, <1>2 DEF ChangeInv
  <2>2. Judged(k)' BY <2>1 DEF VerdictsStand
  <2> QED BY <1>2, <2>2 DEF Judged
<1>4. cs'[c].grant # None => Standing(cs[c].grant)'
  <2> SUFFICES ASSUME cs'[c].grant # None PROVE Standing(cs[c].grant)' OBVIOUS
  <2>1. CASE cs'[c].grant = cs[c].grant
    <3>1. PICK g \in Grants : g = cs[c].grant /\ g = cs'[c].grant BY <1>1, <2>1 DEF ChangeRow
    <3>2. Standing(g) BY <1>1, <3>1 DEF ChangeInv
    <3>3. Standing(g)' BY <3>2 DEF GrantsStand
    <3> QED BY <3>1, <3>3 DEF Standing
  <2>2. ASSUME NEW g \in Grants, cs'[c].grant = g, Standing(g)' PROVE Standing(cs[c].grant)'
    BY <2>2 DEF Standing
  <2> QED BY <1>1, <2>1, <2>2
<1> QED BY <1>3, <1>4

(* A change set is drafted, or goes on without a word to its case.           *)
LEMMA FollowsQuietly ==
  ASSUME TypeOK, Follows, GrantsStand, UNCHANGED case, NEW c \in ChangeSets, NEW row,
         cs' = [cs EXCEPT ![c] = row],
         \/ /\ cs[c] # None /\ Hushed(c, cs[c].case)
            /\ row.grant = cs[c].grant \/ \E g \in Grants : row.grant = g /\ Standing(g)'
         \/ cs[c] = None /\ ~row.moved /\ row.grant = None
  PROVE  Follows'
<1>1. cs'[c] = row /\ \A d \in ChangeSets \ {c} : cs'[d] = cs[d] BY DEF TypeOK
<1>2. ASSUME NEW k \in Cases PROVE CaseInv(k)'
  <2>1. CaseInv(k) /\ case'[k] = case[k] BY DEF Follows
  <2>2. case[k].change \in ChangeSets \cup {None} BY RowTypes DEF CaseRow
  <2>3. ASSUME NEW d \in ChangeSets, OfCase(d, k) PROVE Hushed(d, k)
    <3>1. CASE d = c BY <2>3, <3>1 DEF OfCase, Hushed, Heeded
    <3>2. CASE d # c BY <1>1, <2>3, <3>2, Still
    <3> QED BY <3>1, <3>2
  <2>4. \A d \in ChangeSets : OfCase(d, k)' => OfCase(d, k) \/ ~cs'[d].moved
    BY <1>1 DEF OfCase, Hushed
  <2> QED BY <2>1, <2>2, <2>3, <2>4, CaseStands
<1>3. VerdictsStand BY DEF VerdictsStand, Judged
<1>4. ASSUME NEW d \in ChangeSets PROVE ChangeInv(d)'
  <2>1. ChangeInv(d) BY DEF Follows
  <2>2. CASE d = c /\ cs[c] = None
    <3>1. ~cs'[c].moved /\ cs'[c].grant = None BY <1>1, <2>2
    <3> QED BY <2>2, <3>1 DEF ChangeInv
  <2>3. CASE d = c /\ cs[c] # None
    <3>1. /\ cs'[c].case = cs[c].case
          /\ cs'[c].moved => cs[c].moved
          /\ \/ cs'[c].grant = cs[c].grant
             \/ \E g \in Grants : cs'[c].grant = g /\ Standing(g)'
      BY <1>1, <2>3 DEF Hushed, OfCase
    <3>2. ChangeInv(c) BY DEF Follows
    <3>3. ChangeInv(c)' BY <1>3, <2>3, <3>1, <3>2, ChangeStands
    <3> QED BY <2>3, <3>3 DEF ChangeInv
  <2>4. CASE d # c BY <1>1, <1>3, <2>1, <2>4, ChangeStands
  <2> QED BY <2>2, <2>3, <2>4
<1> QED BY <1>2, <1>4 DEF Follows

(* A change set asks or is decided, and its attributed case goes with it.    *)
LEMMA FollowsTogether ==
  ASSUME TypeOK, Follows, GrantsStand, NEW c \in ChangeSets, NEW k \in Cases, NEW to,
         NEW row \in ChangeRow, cs' = [cs EXCEPT ![c] = row],
         row.grant = cs[c].grant \/ \E g \in Grants : row.grant = g /\ Standing(g)',
         case[k].attributed, case' = [case EXCEPT ![k].state = to, ![k].change = c],
         Asks(c, k, to) \/ IsDecided(c, k, to)
  PROVE  Follows'
<1>1. cs'[c] = row /\ \A d \in ChangeSets \ {c} : cs'[d] = cs[d] BY DEF TypeOK
<1>2. cs[c] # None /\ cs[c].case = k /\ row # None /\ row.case = k
  BY <1>1 DEF OfCase, Asks, IsDecided
<1>3. \A j \in Cases \ {k} : case'[j] = case[j] BY DEF TypeOK
<1>4. ASSUME NEW j \in Cases \ {k} PROVE CaseInv(j)'
  <2>1. CaseInv(j) /\ case'[j] = case[j] BY <1>3 DEF Follows
  <2>2. case[j].change \in ChangeSets \cup {None} BY RowTypes DEF CaseRow
  <2>3. ASSUME NEW d \in ChangeSets, OfCase(d, j) PROVE Hushed(d, j)
    <3>1. d # c BY <1>2, <2>3 DEF OfCase
    <3> QED BY <1>1, <2>3, <3>1, Still
  <2>4. \A d \in ChangeSets : OfCase(d, j)' => OfCase(d, j) \/ ~cs'[d].moved
    BY <1>1, <1>2 DEF OfCase
  <2> QED BY <2>1, <2>2, <2>3, <2>4, CaseStands
<1>5. CaseInv(k)' BY CaseAsks, CaseDecided DEF Follows
<1>6. case'[k].attributed BY DEF Asks, IsDecided, Heads
<1>7. VerdictsStand BY <1>3, <1>6 DEF VerdictsStand, Judged
<1>8. ChangeInv(c)'
  <2>1. ChangeInv(c) /\ cs[c] \in ChangeRow BY <1>2, RowTypes DEF Follows
  <2>2. (cs[c].moved => Judged(cs[c].case))' BY <1>1, <1>2, <1>6 DEF Judged
  <2>3. (cs[c].grant # None => Standing(cs[c].grant))'
    <3>1. CASE row.grant = cs[c].grant
      <4> SUFFICES ASSUME cs'[c].grant # None PROVE Standing(cs[c].grant)' OBVIOUS
      <4>1. PICK g \in Grants : g = cs[c].grant /\ g = cs'[c].grant BY <1>1, <2>1, <3>1 DEF ChangeRow
      <4>2. Standing(g) BY <1>2, <2>1, <4>1 DEF ChangeInv
      <4>3. Standing(g)' BY <4>2 DEF GrantsStand
      <4> QED BY <4>1, <4>3 DEF Standing
    <3>2. ASSUME NEW g \in Grants, row.grant = g, Standing(g)' PROVE Standing(cs[c].grant)'
      BY <1>1, <3>2 DEF Standing
    <3> QED BY <3>1, <3>2
  <2> QED BY <2>2, <2>3 DEF ChangeInv
<1>9. ASSUME NEW d \in ChangeSets \ {c} PROVE ChangeInv(d)'
  BY <1>1, <1>7, ChangeStands DEF Follows
<1> QED BY <1>4, <1>5, <1>8, <1>9 DEF Follows

LEMMA FollowsStays ==
  ASSUME TypeOK, Follows, GrantsStand, UNCHANGED <<cs, case>>
  PROVE  Follows'
<1>1. ASSUME NEW k \in Cases PROVE CaseInv(k)'
  <2>1. CaseInv(k) BY DEF Follows
  <2>2. case[k].change \in ChangeSets \cup {None} BY RowTypes DEF CaseRow
  <2>3. \A d \in ChangeSets : OfCase(d, k) => Hushed(d, k) BY Still
  <2>4. \A d \in ChangeSets : OfCase(d, k)' => OfCase(d, k) BY DEF OfCase
  <2> QED BY <2>1, <2>2, <2>3, <2>4, CaseStands
<1>2. VerdictsStand BY DEF VerdictsStand, Judged
<1>3. ASSUME NEW d \in ChangeSets PROVE ChangeInv(d)'
  BY <1>2, ChangeStands DEF Follows
<1> QED BY <1>1, <1>3 DEF Follows

LEMMA FollowsOnCase ==
  ASSUME TypeOK, Follows, GrantsStand, NEW k \in Cases, OnCase(k)
  PROVE  Follows'
<1>1. UNCHANGED cs BY OnlyCase
<1>2. \A j \in Cases \ {k} : case'[j] = case[j]
  BY DEF OnCase, DispatchCase, Attributed, Unattributed, EscalateCase, ReopenCase, TypeOK
<1>3. CaseInv(k)' /\ (Judged(k) => Judged(k)')
  <2>1. \A c \in ChangeSets : InFlight(c, k) => Judged(k)
    BY DEF Follows, ChangeInv, InFlight, OfCase
  <2> QED BY <2>1, CaseAlone DEF Follows
<1>4. ASSUME NEW j \in Cases \ {k} PROVE CaseInv(j)'
  <2>1. CaseInv(j) /\ case'[j] = case[j] BY <1>2 DEF Follows
  <2>2. case[j].change \in ChangeSets \cup {None} BY RowTypes DEF CaseRow
  <2>3. \A d \in ChangeSets : OfCase(d, j) => Hushed(d, j) BY <1>1, Still
  <2>4. \A d \in ChangeSets : OfCase(d, j)' => OfCase(d, j) BY <1>1 DEF OfCase
  <2> QED BY <2>1, <2>2, <2>3, <2>4, CaseStands
<1>5. VerdictsStand BY <1>2, <1>3 DEF VerdictsStand, Judged
<1>6. ASSUME NEW d \in ChangeSets PROVE ChangeInv(d)'
  BY <1>1, <1>5, ChangeStands DEF Follows
<1> QED BY <1>3, <1>4, <1>6 DEF Follows

LEMMA FollowsDrafts ==
  ASSUME TypeOK, Follows, GrantsStand,
         \/ \E w \in WorkOrders, h \in Contents, e \in Reports : RegisterWorkOrder(w, h, e)
         \/ \E d \in Drafts : Draft(d[1], d[2], d[3], d[4])
  PROVE  Follows'
<1>1. ASSUME NEW c \in ChangeSets, NEW w, NEW h, NEW k, cs[c] = None, UNCHANGED case,
             cs' = [cs EXCEPT ![c] = Drafted(w, h, k)]
      PROVE  Follows'
  <2>1. PICK row : row = Drafted(w, h, k) OBVIOUS
  <2>2. ~row.moved /\ row.grant = None BY <2>1 DEF Drafted
  <2>3. cs' = [cs EXCEPT ![c] = row] BY <1>1, <2>1
  <2> QED BY <1>1, <2>2, <2>3, FollowsQuietly
<1>2. ASSUME NEW w \in WorkOrders, NEW h \in Contents, NEW e \in Reports,
             RegisterWorkOrder(w, h, e)
      PROVE  Follows'
  <2>1. Own[w] \in ChangeSets BY OwnAssumption
  <2>2. UNCHANGED case BY <1>2 DEF RegisterWorkOrder
  <2>3. CASE UNCHANGED cs BY <2>2, <2>3, FollowsStays
  <2>4. CASE cs[Own[w]] = None /\ cs' = [cs EXCEPT ![Own[w]] = Drafted(w, h, CaseOf[w])]
    BY <1>1, <2>1, <2>2, <2>4
  <2> QED BY <1>2, <2>3, <2>4 DEF RegisterWorkOrder
<1>3. ASSUME NEW d \in Drafts, Draft(d[1], d[2], d[3], d[4]) PROVE Follows'
  <2>1. d[1] \in ChangeSets BY DraftsAssumption
  <2> QED BY <1>1, <1>3, <2>1 DEF Draft
<1> QED BY <1>2, <1>3

(* A step of one change set that its case does not hear of.                  *)
LEMMA FollowsAlone ==
  ASSUME TypeOK, Follows, GrantsStand, UNCHANGED case, NEW c \in ChangeSets,
         cs[c] # None, NEW to \in ChangesetStates, cs' = [cs EXCEPT ![c].state = to],
         \/ cs[c].state = "DRAFTED" /\ to \in {"GATE_ATTACHED", "SUPERSEDED"}
         \/ cs[c].state \in {"AWAITING_APPROVAL", "APPROVED"} /\ to = "EXPIRED"
         \/ cs[c].state = "APPROVED" /\ to = "COMMITTED"
  PROVE  Follows'
<1>1. cs[c] \in ChangeRow BY RowTypes
<1>2. PICK row : row = [cs[c] EXCEPT !.state = to] OBVIOUS
<1>3. row \in ChangeRow /\ row.ref = cs[c].ref /\ row.moved = cs[c].moved
      /\ row.case = cs[c].case /\ row.grant = cs[c].grant /\ row.state = to
  BY <1>1, <1>2 DEF ChangeRow
<1>4. row # None BY <1>3, RowsAssumption
<1>5. cs' = [cs EXCEPT ![c] = row] BY <1>2
<1>6. cs'[c] = row BY <1>5 DEF TypeOK
<1>7. Hushed(c, cs[c].case) BY <1>3, <1>4, <1>6 DEF Hushed, OfCase, Asked, Live
<1> QED BY <1>3, <1>5, <1>7, FollowsQuietly

LEMMA FollowsRequest ==
  ASSUME TypeOK, Follows, GrantsStand, NEW c \in ChangeSets, RequestApproval(c)
  PROVE  Follows'
<1>1. cs[c] # None /\ cs[c] \in ChangeRow BY RowTypes DEF RequestApproval
<1>2. PICK k \in Cases : k = CaseOf[cs[c].ref] BY <1>1, CaseAssumption DEF ChangeRow
<1>3. /\ cs[c].state = "GATE_ATTACHED"
      /\ cs' = [cs EXCEPT ![c].state = "AWAITING_APPROVAL", ![c].moved = case[k].attributed]
  BY <1>2, ChangeEvents DEF RequestApproval, CsStep
<1>4. PICK row : row = [cs[c] EXCEPT !.state = "AWAITING_APPROVAL", !.moved = case[k].attributed]
  OBVIOUS
<1>5. case[k] \in CaseRow BY RowTypes
<1>6. /\ row \in ChangeRow /\ row.ref = cs[c].ref /\ row.grant = cs[c].grant
      /\ row.case = cs[c].case
      /\ row.moved = case[k].attributed /\ row.state = "AWAITING_APPROVAL"
  BY <1>1, <1>4, <1>5 DEF ChangeRow, CaseRow, ChangesetStates
<1>7. cs' = [cs EXCEPT ![c] = row] BY <1>3, <1>4
<1>8. cs'[c] = row /\ row # None /\ OneMoves(c)
  BY <1>6, <1>7, RowsAssumption DEF TypeOK, OneMoves
<1>9. CASE ~case[k].attributed
  <2>1. UNCHANGED case BY <1>2, <1>9 DEF RequestApproval, Projected
  <2>2. Hushed(c, cs[c].case) BY <1>3, <1>6, <1>8, <1>9 DEF Hushed, OfCase, Asked, Live
  <2> QED BY <1>1, <1>6, <1>7, <2>1, <2>2, FollowsQuietly
<1>10. CASE case[k].attributed
  <2>1. /\ cs[c].case = k /\ case[k].state = "AWAITING_FIX"
        /\ case' = [case EXCEPT ![k].state = "AWAITING_APPROVAL", ![k].change = c]
    BY <1>2, <1>10, CaseEvents DEF RequestApproval, Projected
  <2>2. Heads(k, c, "AWAITING_FIX", "AWAITING_APPROVAL")
    BY <1>5, <1>10, <2>1 DEF Heads, TypeOK, CaseRow
  <2>3. Asks(c, k, "AWAITING_APPROVAL")
    BY <1>1, <1>2, <1>3, <1>6, <1>8, <1>10, <2>1, <2>2 DEF Asks, OfCase
  <2> QED BY <1>6, <1>7, <1>10, <2>1, <2>3, FollowsTogether
<1> QED BY <1>9, <1>10

(* A change set that awaits approval is decided, in the name of case k.      *)
LEMMA FollowsDecided ==
  ASSUME TypeOK, Follows, GrantsStand, NEW c \in ChangeSets, NEW k \in Cases, cs[c] # None,
         NEW row \in ChangeRow, NEW ev, NEW to, cs' = [cs EXCEPT ![c] = row],
         row.ref = cs[c].ref, row.case = cs[c].case, row.moved = cs[c].moved,
         cs[c].state = "AWAITING_APPROVAL",
         \/ row.grant = cs[c].grant
         \/ row.grant # None /\ \E h \in Grants : row.grant = h /\ Standing(h)',
         \/ /\ to = "RELEASING" /\ row.state = "APPROVED" /\ row.grant # None
            /\ ev = "changeset.approved"
         \/ to = "AWAITING_FIX" /\ row.state = "REJECTED" /\ ev = "changeset.rejected",
         ~case[k].attributed /\ Heeded(c, cs[c].case)
           => row.state = "APPROVED" /\ BearsAnothersName(c),
         Projected(k, c, ev)
  PROVE  Follows'
<1>1. case[k] \in CaseRow BY RowTypes
<1>2. cs'[c] = row /\ row # None /\ OneMoves(c) BY RowsAssumption DEF TypeOK, OneMoves
<1>3. CASE ~case[k].attributed
  <2>1. UNCHANGED case BY <1>3 DEF Projected
  <2>2. Hushed(c, cs[c].case) BY <1>2, <1>3 DEF Hushed, OfCase, Asked, Live
  <2> QED BY <2>1, <2>2, FollowsQuietly
<1>4. CASE case[k].attributed
  <2>1. PICK t \in CaseStates :
          /\ cs[c].case = k
          /\ NextState(CaseTable, case[k].state, ev, Free, t)
          /\ case' = [case EXCEPT ![k].state = t, ![k].change = c]
    BY <1>4 DEF Projected
  <2>2. case[k].state = "AWAITING_APPROVAL" /\ t = to BY <2>1, CaseEvents
  <2>3. Heads(k, c, "AWAITING_APPROVAL", to)
    BY <1>1, <1>4, <2>1, <2>2 DEF Heads, TypeOK, CaseRow
  <2>4. IsDecided(c, k, to) BY <1>2, <2>1, <2>3 DEF IsDecided, OfCase
  <2> QED BY <1>4, <2>1, <2>2, <2>4, FollowsTogether
<1> QED BY <1>3, <1>4

(* A case that waits for a change set is attributed and that of its work      *)
(* order.                                                                    *)
LEMMA HeedsItsOwn ==
  ASSUME TypeOK, Follows, NEW c \in ChangeSets, cs[c] # None, Heeded(c, cs[c].case)
  PROVE  case[cs[c].case].attributed /\ CaseOf[cs[c].ref] = cs[c].case
<1>1. PICK k \in Cases : k = cs[c].case BY RowTypes DEF ChangeRow
<1>2. CaseInv(k) BY DEF Follows
<1> QED BY <1>1, <1>2 DEF CaseInv, Staged, AwaitsApproval, Heeded

(* approve and reject.                                                       *)
LEMMA FollowsDecide ==
  ASSUME TypeOK, Follows, GrantsStand, NEW c \in ChangeSets, NEW g \in Grants, Decide(c, g)
  PROVE  Follows'
<1>1. cs[c] # None /\ cs[c] \in ChangeRow BY RowTypes DEF Decide, InitialGrant
<1>2. PICK k \in Cases : k = CaseOf[cs[c].ref] BY <1>1, CaseAssumption DEF ChangeRow
<1>3. ~(~case[k].attributed /\ Heeded(c, cs[c].case)) BY <1>1, <1>2, HeedsItsOwn
<1>4. CASE /\ InitialGrant(c, g, "pending") /\ CsStep(c, "changeset.approved", "APPROVED")
           /\ cs' = [cs EXCEPT ![c].state = "APPROVED", ![c].grant = g]
           /\ Projected(k, c, "changeset.approved") /\ UNCHANGED grant
  <2>1. PICK row : row = [cs[c] EXCEPT !.state = "APPROVED", !.grant = g] OBVIOUS
  <2>2. /\ row \in ChangeRow /\ row.ref = cs[c].ref /\ row.case = cs[c].case
        /\ row.grant = g /\ row.moved = cs[c].moved /\ row.state = "APPROVED"
    BY <1>1, <2>1 DEF ChangeRow, ChangesetStates
  <2>3. cs' = [cs EXCEPT ![c] = row] BY <1>4, <2>1
  <2>4. cs[c].state = "AWAITING_APPROVAL" BY <1>4, ChangeEvents DEF CsStep
  <2>5. Standing(g)' BY <1>4 DEF InitialGrant, Standing
  <2>6. g # None BY NoneAssumption
  <2> QED BY <1>1, <1>3, <1>4, <2>2, <2>3, <2>4, <2>5, <2>6, FollowsDecided
<1>5. CASE /\ CsStep(c, "changeset.rejected", "REJECTED")
           /\ cs' = [cs EXCEPT ![c].state = "REJECTED"]
           /\ Projected(k, c, "changeset.rejected")
  <2>1. PICK row : row = [cs[c] EXCEPT !.state = "REJECTED"] OBVIOUS
  <2>2. /\ row \in ChangeRow /\ row.ref = cs[c].ref /\ row.case = cs[c].case
        /\ row.grant = cs[c].grant /\ row.moved = cs[c].moved /\ row.state = "REJECTED"
    BY <1>1, <2>1 DEF ChangeRow, ChangesetStates
  <2>3. cs' = [cs EXCEPT ![c] = row] BY <1>5, <2>1
  <2>4. cs[c].state = "AWAITING_APPROVAL" BY <1>5, ChangeEvents DEF CsStep
  <2> QED BY <1>1, <1>3, <1>5, <2>2, <2>3, <2>4, FollowsDecided
<1>6. \A to \in ChangesetStates :
        /\ CsStep(c, "changeset.approved", to) => to = "APPROVED"
        /\ CsStep(c, "changeset.rejected", to) => to = "REJECTED"
  BY ChangeEvents DEF CsStep
<1> QED BY <1>2, <1>4, <1>5, <1>6 DEF Decide

(* A new initial grant approves the change set that bears the name of its     *)
(* work order.                                                               *)
LEMMA FollowsGranted ==
  ASSUME TypeOK, Follows, GrantsStand, NEW g \in Grants, NEW w \in WorkOrders,
         NEW s \in {"pending", "rejected"}, GrantInitial(g, w, s)
  PROVE  Follows'
<1>1. CASE UNCHANGED <<cs, case>> BY <1>1, FollowsStays
<1>2. CASE s = "pending" /\ Advance(w, g) /\ ~UNCHANGED <<cs, case>>
  <2>1. PICK c \in ChangeSets : c = Own[w] BY OwnAssumption
  <2>2. PICK k \in Cases : k = CaseOf[w] BY CaseAssumption
  <2>3. /\ cs[c] # None
        /\ cs[c].state \in {"DRAFTED", "GATE_ATTACHED", "AWAITING_APPROVAL"}
    BY <1>2, <2>1 DEF Advance
  <2>4. cs[c] \in ChangeRow /\ case[k] \in CaseRow BY <2>3, RowTypes
  <2>5. ~case[k].attributed /\ Heeded(c, cs[c].case) => BearsAnothersName(c)
    BY <2>1, <2>2, <2>3, HeedsItsOwn DEF BearsAnothersName
  <2>6. PICK m \in BOOLEAN :
          m = IF cs[c].state = "AWAITING_APPROVAL" THEN cs[c].moved ELSE case[k].attributed
    BY <2>4 DEF ChangeRow, CaseRow
  <2>7. PICK row : row = [cs[c] EXCEPT !.state = "APPROVED", !.grant = g, !.moved = m]
    OBVIOUS
  <2>8. /\ row \in ChangeRow /\ row.ref = cs[c].ref /\ row.case = cs[c].case
        /\ row.grant = g /\ row.moved = m /\ row.state = "APPROVED"
    BY <2>4, <2>7 DEF ChangeRow, ChangesetStates
  <2>9. cs' = [cs EXCEPT ![c] = row]
    <3>1. cs' = [cs EXCEPT ![c].state = "APPROVED", ![c].grant = g,
                           ![c].moved = IF cs[c].state = "AWAITING_APPROVAL" THEN @
                                        ELSE case[k].attributed]
      BY <1>2, <2>1, <2>2, <2>3 DEF Advance
    <3> QED BY <2>6, <2>7, <3>1 DEF TypeOK
  <2>10. Standing(g)'
    <3>1. grant'[g] = [wo |-> w, status |-> s, for |-> None] BY DEF GrantInitial, TypeOK
    <3>2. grant'[g] \in GrantRow BY <3>1 DEF GrantRow
    <3> QED BY <1>2, <3>1, <3>2, RowsAssumption DEF Standing
  <2>11. g # None BY NoneAssumption
  <2>12. cs'[c] = row /\ row # None /\ OneMoves(c)
    BY <2>8, <2>9, RowsAssumption DEF TypeOK, OneMoves
  <2>13. CASE cs[c].state = "AWAITING_APPROVAL"
    <3>1. Projected(k, c, "changeset.approved") BY <1>2, <2>1, <2>2, <2>13 DEF Advance
    <3> QED BY <2>3, <2>5, <2>6, <2>8, <2>9, <2>10, <2>11, <2>13, <3>1, FollowsDecided
  <2>14. CASE cs[c].state # "AWAITING_APPROVAL" /\ ~case[k].attributed
    <3>1. UNCHANGED case BY <1>2, <2>1, <2>2, <2>3, <2>14 DEF Advance
    <3>2. Hushed(c, cs[c].case)
      BY <2>3, <2>6, <2>8, <2>11, <2>12, <2>14 DEF Hushed, OfCase, Asked, Live
    <3> QED BY <2>3, <2>8, <2>9, <2>10, <3>1, <3>2, FollowsQuietly
  <2>15. CASE cs[c].state # "AWAITING_APPROVAL" /\ case[k].attributed
    <3>1. PICK mid, to \in CaseStates :
            /\ cs[c].case = k
            /\ NextState(CaseTable, case[k].state, "changeset.approval_requested", Free, mid)
            /\ NextState(CaseTable, mid, "changeset.approved", Free, to)
            /\ case' = [case EXCEPT ![k].state = to, ![k].change = c]
      BY <1>2, <2>1, <2>2, <2>3, <2>15 DEF Advance
    <3>2. case[k].state = "AWAITING_FIX" /\ to = "RELEASING" BY <3>1, CaseEvents
    <3>3. Heads(k, c, "AWAITING_FIX", "RELEASING")
      BY <2>4, <2>15, <3>1, <3>2 DEF Heads, TypeOK, CaseRow
    <3>4. Asks(c, k, "RELEASING")
      BY <2>3, <2>6, <2>8, <2>11, <2>12, <2>15, <3>1, <3>3 DEF Asks, OfCase
    <3> QED BY <2>8, <2>9, <2>10, <2>15, <3>1, <3>2, <3>4, FollowsTogether
  <2> QED BY <2>13, <2>14, <2>15
<1> QED BY <1>1, <1>2 DEF GrantInitial

LEMMA FollowsStep ==
  ASSUME TypeOK, Core, Follows, Next
  PROVE  Follows'
<1>0. GrantsStand BY StepStands
<1>1. ASSUME NEW e \in Reports, NEW w \in WorkOrders, NEW s \in Conclusions,
             RegisterReport(e, w, s)
      PROVE  Follows'
  BY <1>0, <1>1, FollowsStays DEF RegisterReport
<1>2. ASSUME NEW c \in ChangeSets, AttachGate(c) \/ ExpireChange(c) \/ Supersede(c)
      PROVE  Follows'
  <2>1. PICK to \in ChangesetStates,
             ev \in {"changeset.gate_attached", "changeset.expired", "changeset.drafted"} :
          CsStep(c, ev, to) /\ cs' = [cs EXCEPT ![c].state = to]
    BY <1>2 DEF AttachGate, ExpireChange, Supersede
  <2>2. /\ cs[c] # None
        /\ \/ cs[c].state = "DRAFTED" /\ to \in {"GATE_ATTACHED", "SUPERSEDED"}
           \/ cs[c].state \in {"AWAITING_APPROVAL", "APPROVED"} /\ to = "EXPIRED"
    BY <2>1, ChangeEvents DEF CsStep
  <2>3. UNCHANGED case BY <1>2 DEF AttachGate, ExpireChange, Supersede
  <2> QED BY <1>0, <2>1, <2>2, <2>3, FollowsAlone
<1>3. ASSUME NEW g \in Grants, NEW r \in Releases, StartCommit(g, r) PROVE Follows'
  <2>1. grant[g] # None /\ grant[g] \in GrantRow
    BY <1>3, RowTypes DEF StartCommit, Core, StartingPending
  <2>2. PICK c \in ChangeSets : c = Own[grant[g].wo] BY <2>1, OwnAssumption DEF GrantRow
  <2>3. UNCHANGED case BY <1>3 DEF StartCommit
  <2>4. CASE UNCHANGED cs BY <1>0, <2>3, <2>4, FollowsStays
  <2>5. CASE /\ cs[c] # None /\ cs[c].state = "APPROVED"
             /\ cs' = [cs EXCEPT ![c].state = "COMMITTED"]
    <3>1. "COMMITTED" \in ChangesetStates BY DEF ChangesetStates
    <3> QED BY <1>0, <2>3, <2>5, <3>1, FollowsAlone
  <2> QED BY <1>3, <2>2, <2>4, <2>5 DEF StartCommit
<1>4. ASSUME NEW g \in Grants, NEW w \in WorkOrders, NEW a \in Actions, NEW r \in Releases,
             GrantAction(g, w, a, r)
      PROVE  Follows'
  BY <1>0, <1>4, FollowsStays DEF GrantAction
<1>5. ASSUME NEW x \in WorkOrders \cup Grants, Lapse(x) PROVE Follows'
  BY <1>0, <1>5, FollowsStays DEF Lapse
<1>6. ASSUME NEW g \in Grants, StartCheck(g) \/ StartRefused(g) PROVE Follows'
  BY <1>0, <1>6, FollowsStays DEF StartCheck, StartRefused
<1>7. ASSUME NEW r \in Releases, NEW e \in Reports, Verify(r, e) PROVE Follows'
  BY <1>0, <1>7, FollowsStays DEF Verify
<1> QED BY <1>0, <1>1, <1>2, <1>3, <1>4, <1>5, <1>6, <1>7, FollowsOnCase, FollowsDrafts,
           FollowsRequest, FollowsDecide, FollowsGranted DEF Next, OnCase

-----------------------------------------------------------------------------
(* Theorems *)

LEMMA Inductive == Spec => [](TypeOK /\ Core)
<1>1. Init => TypeOK /\ Core
  <2>1. Init => TypeOK BY DEF Init, TypeOK, CaseRow, CaseStates
  <2> QED BY <2>1, CoreInit
<1>2. TypeOK /\ Core /\ [Next]_vars => TypeOK' /\ Core'
  <2>1. ASSUME TypeOK, Core, Next PROVE TypeOK' /\ Core'
    BY <2>1, TypeStep, CoreStep DEF Core
  <2>2. ASSUME TypeOK, Core, UNCHANGED vars PROVE TypeOK' /\ Core'
    BY <2>2, CoreStays DEF vars, TypeOK
  <2> QED BY <2>1, <2>2
<1> QED BY <1>1, <1>2, PTL DEF Spec

(* Every reachable state of reports, work orders, change sets, grants,       *)
(* releases and cases is well formed.                                        *)
THEOREM TypeCorrect == Spec => []TypeOK
BY Inductive, PTL

(* A release rests on the one consumed initial grant of its work order and   *)
(* on the passed report sealed with its hash (start_release).                *)
THEOREM ReleasesRestOnGrants == Spec => []ReleaseRestsOnGrant
<1>1. TypeOK /\ Core => ReleaseRestsOnGrant
  <2> SUFFICES ASSUME TypeOK, Core, NEW r \in Releases, release[r] # None
               PROVE  LET w == release[r].wo IN
                      /\ grant[release[r].grant] = [wo |-> w, status |-> "consumed", for |-> None]
                      /\ wo[w] # None /\ Gated(w)
                      /\ \A q \in Releases : release[q] # None /\ release[q].wo = w => q = r
    BY DEF ReleaseRestsOnGrant
  <2>1. release[r] \in ReleaseRow BY RowTypes
  <2>2. PICK h \in Grants :
          /\ h = release[r].grant
          /\ grant[h] = [wo |-> release[r].wo, status |-> "consumed", for |-> None]
    BY DEF Core, Consumed
  <2>3. grant[h] \in GrantRow BY <2>1, <2>2 DEF GrantRow, ReleaseRow
  <2>4. grant[h] # None BY <2>3, RowsAssumption
  <2>5. Backed(release[r].wo) BY <2>2, <2>4 DEF Core, GrantsBacked
  <2> QED BY <2>2, <2>5 DEF Core, OneRelease, Backed
<1> QED BY <1>1, Inductive, PTL

(* A verdict, and the grants it permits, go back to a report that the gated  *)
(* work order authorised (register_report, grant_approval).                  *)
THEOREM VerdictsRestOnGates == Spec => []VerdictRestsOnGate
<1>1. TypeOK /\ Core => VerdictRestsOnGate
  <2> SUFFICES ASSUME TypeOK, Core PROVE VerdictRestsOnGate
    OBVIOUS
  <2>1. \A e \in Reports : report[e] # None /\ report[e].authorised =>
          LET w == report[e].wo IN
          /\ wo[w] # None /\ Gated(w)
          /\ wo[w].report # e /\ report[e].hash = wo[w].hash
    BY DEF Core, Later, LaterBacked, Backed
  <2>2. ASSUME NEW g \in Grants, grant[g] # None, grant[g].for # None
        PROVE  LET r == grant[g].for[2] IN
               /\ release[r] # None /\ release[r].wo = grant[g].wo
               /\ grant[g].for[1] = "promote" => PassedBy(release[r].wo)
    <3>1. PICK r \in Releases : r = grant[g].for[2]
      <4>1. grant[g] \in GrantRow BY <2>2, RowTypes
      <4> QED BY <2>2, <4>1 DEF GrantRow
    <3> QED BY <2>2, <3>1 DEF Core, ActionsBacked, VerdictsBacked
  <2> QED BY <2>1, <2>2 DEF VerdictRestsOnGate, PassedBy
<1> QED BY <1>1, Inductive, PTL

(* A committed change set was approved by the grant its own release consumed, *)
(* unless a caller drafted it for another work order under that name         *)
(* (changesets.py create, start_release, approve).                           *)
THEOREM CommitsAreReleased == Spec => []CommittedIsReleased
<1>1. Init => Committal BY DEF Init, Committal, Granted, Released
<1>2. TypeOK /\ Core /\ Committal /\ [Next]_vars => Committal'
  <2>1. ASSUME TypeOK, Core, Committal, Next PROVE Committal' BY <2>1, CommittalStep
  <2>2. ASSUME Committal, UNCHANGED vars PROVE Committal'
    BY <2>2 DEF vars, Committal, Granted, Released, CommittedBy
  <2> QED BY <2>1, <2>2
<1>3. Committal => CommittedIsReleased
  BY DEF Committal, Released, CommittedBy, CommittedIsReleased
<1> QED BY <1>1, <1>2, <1>3, Inductive, PTL DEF Spec

(* A case under approval or release names the change set that brought it      *)
(* there; until it is reopened, no second approval is in flight on it unless  *)
(* one that asked before the case was attributed heads it or has made room    *)
(* (request_approval, approve, reject, _advance_changeset_to_approved,       *)
(* project_changeset_event, reopen).                                         *)
THEOREM CasesFollowTheirChanges == Spec => []CaseFollowsItsChange
<1>1. TypeOK /\ Core /\ Follows /\ [Next]_vars => Follows'
  <2>1. ASSUME TypeOK, Core, Follows, Next PROVE Follows' BY <2>1, FollowsStep
  <2>2. ASSUME TypeOK, Follows, UNCHANGED vars PROVE Follows'
    <3>1. GrantsStand BY <2>2 DEF GrantsStand, Standing, vars
    <3> QED BY <2>2, <3>1, FollowsStays DEF vars
  <2> QED BY <2>1, <2>2
<1>2. TypeOK /\ Follows => CaseFollowsItsChange
  <2> SUFFICES ASSUME TypeOK, Follows, NEW k \in Cases
               PROVE  /\ case[k].state = "AWAITING_APPROVAL" =>
                           /\ case[k].change # None
                           /\ \/ cs[case[k].change].state \in {"AWAITING_APPROVAL", "EXPIRED"}
                              \/ /\ BearsAnothersName(case[k].change)
                                 /\ cs[case[k].change].state \in {"APPROVED", "COMMITTED"}
                      /\ case[k].state = "RELEASING" =>
                           /\ case[k].change # None
                           /\ cs[case[k].change].state \in {"APPROVED", "COMMITTED", "EXPIRED"}
                           /\ cs[case[k].change].grant # None
                           /\ grant[cs[case[k].change].grant].status \in {"pending", "consumed"}
                      /\ ~case[k].reopened => \A c \in ChangeSets : InFlight(c, k) =>
                           \/ case[k].change = c
                           \/ case[k].change # None /\ ~cs[case[k].change].moved
                           \/ MadeRoom(k)
    BY DEF CaseFollowsItsChange, InFlight, OfCase, Live, MadeRoom
  <2>1. CaseInv(k) BY DEF Follows
  <2>2. case[k].change \in ChangeSets \cup {None} BY RowTypes DEF CaseRow
  <2>3. ASSUME case[k].state = "RELEASING"
        PROVE  grant[cs[case[k].change].grant].status \in {"pending", "consumed"}
    <3>1. PICK c \in ChangeSets : /\ c = case[k].change /\ cs[c] # None /\ cs[c].grant # None
      BY <2>1, <2>2, <2>3 DEF CaseInv, Releasing, Tracks, OfCase
    <3> QED BY <3>1 DEF Follows, ChangeInv, Standing
  <2> QED BY <2>1, <2>3 DEF CaseInv, AwaitsApproval, Releasing, OneInFlight
<1> QED BY <1>1, <1>2, FollowsInit, Inductive, PTL DEF Spec
=============================================================================
