--------------------------- MODULE CaseLeaseProofs ---------------------------
(***************************************************************************)
(* Proofs about CaseLease for any cases, experiments, workers, arms, probes *)
(* and events asserted through the case API: the types, that the writes of  *)
(* a case are those of a fenced lease, that receipts are never replaced,    *)
(* that a case awaiting its fix was attributed by a complete experiment,    *)
(* and, where the API may only escalate, that work in progress is covered   *)
(* by its lease.                                                            *)
(***************************************************************************)
EXTENDS CaseLease, FiniteSetTheorems, TLAPS

-----------------------------------------------------------------------------
(* What the tables allow *)

LEMMA PutBack ==
  ASSUME NEW from, NEW ev \in {"case.worker_lost", "experiment.runner_lost"}, NEW to,
         NextState(CaseTable, from, ev, Free, to)
  PROVE  to \in {"OPEN", "DISPATCHED"}
BY DEF NextState, CaseTable, Free, AnyState

LEMMA AskedFix ==
  ASSUME NEW from, NEW ev, ev \notin DomainOwned,
         NextState(CaseTable, from, ev, Free, "AWAITING_FIX")
  PROVE  from = "AWAITING_FIX"
BY DEF NextState, CaseTable, Free, AnyState, DomainOwned

LEMMA Lost ==
  ASSUME NEW from, NEW to, NextState(ExperimentTable, from, "experiment.runner_lost", Free, to)
  PROVE  to \in {"REQUESTED", "PROTOCOL_FROZEN"}
BY DEF NextState, ExperimentTable, Free, AnyState
-----------------------------------------------------------------------------
(* Types *)

LEMMA RowTypes ==
  ASSUME TypeOK, NEW c \in Cases
  PROVE  /\ lease[c] \in LeaseRow
         /\ lease[c].token \in 0..MaxToken /\ lease[c].live \in BOOLEAN
         /\ lease[c].owner \in Workers \cup {None}
         /\ lease[c].live => lease[c].owner \in Workers /\ lease[c].token \in 1..MaxToken
         /\ case[c] \in CaseRow
         /\ case[c].state \in CaseStates /\ case[c].worker \in Workers \cup {None}
         /\ case[c].token \in 0..MaxToken /\ case[c].exp \in Exps \cup {None}
<1>1. lease[c] \in LeaseRow /\ case[c] \in CaseRow BY DEF TypeOK
<1>2. \/ lease[c] \in [owner : Workers, token : 1..MaxToken, live : BOOLEAN]
      \/ lease[c] = NoLease
  BY <1>1 DEF LeaseRow
<1>3. /\ case[c].state \in CaseStates /\ case[c].worker \in Workers \cup {None}
      /\ case[c].token \in 0..MaxToken /\ case[c].exp \in Exps \cup {None}
  BY <1>1 DEF CaseRow
<1>4. CASE lease[c] = NoLease
  BY <1>1, <1>3, <1>4, TokenAssumption DEF NoLease
<1>5. CASE lease[c] \in [owner : Workers, token : 1..MaxToken, live : BOOLEAN]
  BY <1>1, <1>3, <1>5, TokenAssumption
<1> QED BY <1>2, <1>4, <1>5

LEMMA ExpTypes ==
  ASSUME TypeOK, NEW e \in Exps
  PROVE  /\ exp[e] \in ExpRow
         /\ exp[e].state \in ExperimentStates \cup {None}
         /\ exp[e].case \in Cases \cup {None}
         /\ exp[e].runner \in Workers \cup {None}
         /\ exp[e].token \in 0..MaxToken
         /\ exp[e].verdict \in Verdicts \cup {None}
BY DEF TypeOK, ExpRow

LEMMA GrantTypes ==
  ASSUME TypeOK, NEW c \in Cases, NEW w \in Workers, GrantLease(c, w), Project(c, w)
  PROVE  /\ counter' \in 1..(MaxToken + 1)
         /\ lease' \in [Cases -> LeaseRow]
         /\ case' \in [Cases -> CaseRow]
         /\ tokens' \in [Workers -> SUBSET (1..MaxToken)]
         /\ newest' \in [Cases -> 0..MaxToken]
<1>1. counter \in 1..MaxToken BY TokenAssumption DEF TypeOK, GrantLease
<1>2. counter' \in 1..(MaxToken + 1) BY <1>1, TokenAssumption DEF GrantLease
<1>3. lease' \in [Cases -> LeaseRow] BY <1>1 DEF GrantLease, TypeOK, LeaseRow
<1>4. case' \in [Cases -> CaseRow]
  <2>1. [case[c] EXCEPT !.worker = w, !.token = counter,
                        !.state = IF case[c].state = "AWAITING_FIX" THEN case[c].state
                                                                     ELSE "DISPATCHED"] \in CaseRow
    <3>1. case[c] \in CaseRow /\ case[c].state \in CaseStates BY RowTypes
    <3>2. counter \in 0..MaxToken BY <1>1, TokenAssumption
    <3> QED BY <3>1, <3>2 DEF CaseRow, CaseStates
  <2> QED BY <2>1 DEF Project, TypeOK
<1>5. tokens' \in [Workers -> SUBSET (1..MaxToken)] BY <1>1 DEF GrantLease, TypeOK
<1>6. newest' \in [Cases -> 0..MaxToken] BY <1>1, TokenAssumption DEF GrantLease, TypeOK
<1> QED BY <1>2, <1>3, <1>4, <1>5, <1>6

LEMMA DropTypes ==
  ASSUME TypeOK, NEW c \in Cases, DropLease(c)
  PROVE  lease' \in [Cases -> LeaseRow]
BY DEF TypeOK, DropLease, LeaseRow

LEMMA FencedTypes ==
  ASSUME TypeOK, NEW c \in Cases, NEW t \in 0..MaxToken, Fenced(c, t)
  PROVE  written' \in [Cases -> 0..MaxToken]
BY DEF TypeOK, Fenced

LEMMA RequeueTypes ==
  ASSUME TypeOK, NEW c \in Cases, RequeueExperiment(c)
  PROVE  exp' \in [Exps -> ExpRow]
<1>1. CASE case[c].state # "ATTRIBUTING" BY <1>1 DEF RequeueExperiment, TypeOK
<1>2. CASE case[c].state = "ATTRIBUTING"
  <2>1. case[c].exp \in Exps /\ RunnerLost(case[c].exp)
    BY <1>2, RowTypes DEF RequeueExperiment, RunnerLosable
  <2>2. PICK to \in ExperimentStates :
          exp' = [exp EXCEPT ![case[c].exp].state = to, ![case[c].exp].runner = None,
                             ![case[c].exp].token = 0]
    BY <2>1 DEF RunnerLost
  <2>3. [exp[case[c].exp] EXCEPT !.state = to, !.runner = None, !.token = 0] \in ExpRow
    <3>1. exp[case[c].exp] \in ExpRow BY <2>1, ExpTypes
    <3>2. 0 \in 0..MaxToken BY TokenAssumption
    <3> QED BY <3>1, <3>2, <2>2 DEF ExpRow
  <2> QED BY <2>1, <2>2, <2>3 DEF TypeOK
<1> QED BY <1>1, <1>2

LEMMA TypeClaim ==
  ASSUME TypeOK, Claim
  PROVE  TypeOK'
<1>1. ASSUME NEW w \in Workers, NEW c \in Cases, ClaimLocked(w, c) PROVE TypeOK'
  <2>1. exp' \in [Exps -> ExpRow]
    <3>1. CASE RequeueExperiment(c) BY <3>1, RequeueTypes
    <3>2. CASE UNCHANGED exp BY <3>2 DEF TypeOK
    <3> QED BY <1>1, <3>1, <3>2 DEF ClaimLocked
  <2>2. GrantLease(c, w) /\ Project(c, w) BY <1>1 DEF ClaimLocked
  <2>3. UNCHANGED <<trials, arms, suggestion, pending, written>> BY <1>1 DEF ClaimLocked
  <2> QED BY <2>1, <2>2, <2>3, GrantTypes DEF TypeOK
<1>2. ASSUME NEW w \in Workers, NEW c \in Cases, ClaimRead(w, c) PROVE TypeOK'
  BY <1>2 DEF ClaimRead, TypeOK, leaseVars, expVars
<1>3. ASSUME NEW w \in Workers, ClaimCommit(w) PROVE TypeOK'
  <2> DEFINE c == pending[w]
  <2>1. c \in Cases BY <1>3 DEF ClaimCommit, TypeOK
  <2>2. pending' \in [Workers -> Cases \cup {None}] BY <1>3 DEF ClaimCommit, TypeOK
  <2>3. UNCHANGED <<expVars, suggestion, written>> BY <1>3 DEF ClaimCommit
  <2>4. CASE GrantLease(c, w) /\ Project(c, w)
    BY <2>1, <2>2, <2>3, <2>4, GrantTypes DEF TypeOK, expVars
  <2>5. CASE UNCHANGED <<leaseVars, case>>
    BY <2>2, <2>3, <2>5 DEF TypeOK, expVars, leaseVars
  <2> QED BY <1>3, <2>4, <2>5 DEF ClaimCommit
<1> QED BY <1>1, <1>2, <1>3 DEF Claim

LEMMA TypeWorker ==
  ASSUME TypeOK, WorkerNext
  PROVE  TypeOK'
<1>0. PICK c \in Cases, w \in Workers :
        \E t \in tokens[w] : \/ Heartbeat(w, c, t)
                             \/ \E key \in Keys : SubmitSuggestion(w, c, t, key)
  BY DEF WorkerNext
<1>1. PICK t \in tokens[w] :
        \/ Heartbeat(w, c, t)
        \/ \E key \in Keys : SubmitSuggestion(w, c, t, key)
  BY <1>0
<1>2. t \in 0..MaxToken BY TokenAssumption DEF TypeOK
<1>3. CASE Heartbeat(w, c, t)
  BY <1>2, <1>3, FencedTypes DEF Heartbeat, TypeOK, leaseVars, expVars
<1>4. ASSUME NEW key \in Keys, SubmitSuggestion(w, c, t, key) PROVE TypeOK'
  <2>1. written' \in [Cases -> 0..MaxToken] BY <1>2, <1>4, FencedTypes DEF SubmitSuggestion
  <2>2. suggestion' \in [Keys -> Receipt \cup {None}]
    BY <1>4 DEF SubmitSuggestion, TypeOK, Receipt
  <2> QED BY <1>4, <2>1, <2>2 DEF SubmitSuggestion, TypeOK, leaseVars, expVars
<1> QED BY <1>1, <1>3, <1>4

LEMMA ExpUpdate ==
  ASSUME TypeOK, NEW e \in Exps, NEW row \in ExpRow
  PROVE  [exp EXCEPT ![e] = row] \in [Exps -> ExpRow]
BY DEF TypeOK

LEMMA CaseUpdate ==
  ASSUME TypeOK, NEW c \in Cases, NEW row \in CaseRow
  PROVE  [case EXCEPT ![c] = row] \in [Cases -> CaseRow]
BY DEF TypeOK

LEMMA TypeOther ==
  ASSUME TypeOK, OtherNext
  PROVE  TypeOK'
<1>1. ASSUME NEW c \in Cases, Expire(c) PROVE TypeOK'
  <2>1. lease[c] \in [owner : Workers, token : 1..MaxToken, live : BOOLEAN]
    BY <1>1 DEF Expire, TypeOK, LeaseRow, NoLease
  <2>2. [lease[c] EXCEPT !.live = FALSE] \in LeaseRow BY <2>1 DEF LeaseRow
  <2>3. lease' \in [Cases -> LeaseRow] BY <1>1, <2>2 DEF Expire, TypeOK
  <2> QED BY <1>1, <2>3 DEF Expire, TypeOK, expVars
<1>2. ASSUME NEW c \in Cases, Reclaim(c) PROVE TypeOK'
  <2>1. exp' \in [Exps -> ExpRow] BY <1>2, RequeueTypes DEF Reclaim
  <2>2. PICK to \in CaseStates : case' = [case EXCEPT ![c] = [Unbound(@) EXCEPT !.state = to]]
    BY <1>2 DEF Reclaim
  <2>3. [Unbound(case[c]) EXCEPT !.state = to] \in CaseRow
    <3>1. case[c] \in CaseRow BY RowTypes
    <3>2. 0 \in 0..MaxToken BY TokenAssumption
    <3> QED BY <3>1, <3>2 DEF CaseRow, Unbound
  <2>4. case' \in [Cases -> CaseRow] BY <2>2, <2>3, CaseUpdate
  <2>5. lease' \in [Cases -> LeaseRow] BY <1>2, DropTypes DEF Reclaim
  <2> QED BY <1>2, <2>1, <2>4, <2>5 DEF Reclaim, TypeOK, DropLease
<1>3. ASSUME NEW c \in Cases, Reopen(c) PROVE TypeOK'
  <2>1. [case[c] EXCEPT !.state = "OPEN"] \in CaseRow BY RowTypes DEF CaseRow, CaseStates
  <2> QED BY <1>3, <2>1 DEF Reopen, TypeOK, leaseVars, expVars
<1>4. ASSUME NEW c \in Cases, NEW ev \in ApiEvents, NEW t \in 0..MaxToken, Transition(c, ev, t)
      PROVE  TypeOK'
  <2>1. PICK to \in CaseStates : case' = [case EXCEPT ![c].state = to] BY <1>4 DEF Transition
  <2>2. [case[c] EXCEPT !.state = to] \in CaseRow BY RowTypes DEF CaseRow
  <2>3. case' \in [Cases -> CaseRow] BY <2>1, <2>2 DEF TypeOK
  <2>4. written' \in [Cases -> 0..MaxToken]
    <3>1. CASE t = 0 BY <3>1, <1>4 DEF Transition, TypeOK
    <3>2. CASE t # 0 BY <3>2, <1>4, FencedTypes DEF Transition
    <3> QED BY <3>1, <3>2
  <2> QED BY <1>4, <2>3, <2>4 DEF Transition, TypeOK, leaseVars, expVars
<1>5. ASSUME NEW c \in Cases, NEW e \in Exps, Create(e, c) PROVE TypeOK'
  <2>1. [exp[e] EXCEPT !.state = "REQUESTED", !.case = c] \in ExpRow
    BY ExpTypes DEF ExpRow, ExperimentStates
  <2>2. [case[c] EXCEPT !.state = "ATTRIBUTING", !.exp = e] \in CaseRow
    BY RowTypes DEF CaseRow, CaseStates
  <2>3. exp' \in [Exps -> ExpRow] BY <1>5, <2>1 DEF Create, TypeOK
  <2>4. case' \in [Cases -> CaseRow] BY <1>5, <2>2 DEF Create, TypeOK
  <2> QED BY <1>5, <2>3, <2>4 DEF Create, TypeOK, leaseVars
<1>6. ASSUME NEW e \in Exps, Freeze(e) \/ EscalateFullFactorial(e) PROVE TypeOK'
  <2>1. exp' = [exp EXCEPT ![e].state = "PROTOCOL_FROZEN"]
    BY <1>6 DEF Freeze, EscalateFullFactorial
  <2>2. [exp[e] EXCEPT !.state = "PROTOCOL_FROZEN"] \in ExpRow
    BY ExpTypes DEF ExpRow, ExperimentStates
  <2>3. exp' \in [Exps -> ExpRow] BY <2>1, <2>2 DEF TypeOK
  <2>4. UNCHANGED <<leaseVars, case, trials, arms, suggestion, pending, written>>
    BY <1>6 DEF Freeze, EscalateFullFactorial
  <2> QED BY <2>3, <2>4 DEF TypeOK, leaseVars
<1> QED BY <1>1, <1>2, <1>3, <1>4, <1>5, <1>6 DEF OtherNext

(* What the requests of a runner share: the experiment and its case exist,   *)
(* and the token is a token.                                                 *)
LEMMA HeldCase ==
  ASSUME TypeOK, NEW e \in Exps, exp[e].case # None
  PROVE  exp[e].case \in Cases
BY ExpTypes

LEMMA TypeRunner ==
  ASSUME TypeOK, RunnerNext
  PROVE  TypeOK'
<1>0. PICK e \in Exps, w \in Runners :
        \E t \in tokens[w] :
          \/ Start(w, e, t) \/ Cancel(w, e, t)
          \/ \E s \in Slots, o \in Outcomes : TrialCompleted(e, t, s, o)
          \/ \E k \in Cells, p \in Positions : CellCompleted(e, t, k, p)
          \/ \E v \in Verdicts : VerdictComputed(e, t, v)
  BY DEF RunnerNext
<1>1. PICK t \in tokens[w] :
          \/ Start(w, e, t) \/ Cancel(w, e, t)
          \/ \E s \in Slots, o \in Outcomes : TrialCompleted(e, t, s, o)
          \/ \E k \in Cells, p \in Positions : CellCompleted(e, t, k, p)
          \/ \E v \in Verdicts : VerdictComputed(e, t, v)
  BY <1>0
<1>2. w \in Workers BY RolesAssumption
<1>3. t \in 1..MaxToken /\ t \in 0..MaxToken BY <1>2, TokenAssumption DEF TypeOK
<1> DEFINE c == exp[e].case
<1>4. c \in Cases /\ Fenced(c, t)
  BY <1>1, HeldCase DEF Start, Cancel, TrialCompleted, CellCompleted, VerdictComputed, RunnerHolds
<1>5. written' \in [Cases -> 0..MaxToken] BY <1>3, <1>4, FencedTypes
<1>6. exp[e] \in ExpRow /\ case[c] \in CaseRow BY <1>4, ExpTypes, RowTypes
<1>7. CASE Start(w, e, t)
  <2>1. [exp[e] EXCEPT !.state = "RUNNING", !.runner = w, !.token = t] \in ExpRow
    BY <1>2, <1>3, <1>6 DEF ExpRow, ExperimentStates
  <2>2. exp' \in [Exps -> ExpRow] BY <1>7, <2>1 DEF Start, TypeOK
  <2>3. [case[c] EXCEPT !.state = "ATTRIBUTING"] \in CaseRow BY <1>6 DEF CaseRow, CaseStates
  <2>4. case' \in [Cases -> CaseRow] BY <1>7, <2>3 DEF Start, TypeOK
  <2> QED BY <1>5, <1>7, <2>2, <2>4 DEF Start, TypeOK, leaseVars
<1>8. CASE Cancel(w, e, t)
  <2>1. [exp[e] EXCEPT !.state = "CANCELLED"] \in ExpRow BY <1>6 DEF ExpRow, ExperimentStates
  <2>2. exp' \in [Exps -> ExpRow] BY <1>8, <2>1 DEF Cancel, TypeOK
  <2>3. [Unbound(case[c]) EXCEPT !.state = "ESCALATED"] \in CaseRow
    <3>1. 0 \in 0..MaxToken BY TokenAssumption
    <3> QED BY <1>6, <3>1 DEF CaseRow, CaseStates, Unbound
  <2>4. case' \in [Cases -> CaseRow] BY <1>4, <1>8, <2>3, CaseUpdate DEF Cancel
  <2>5. lease' \in [Cases -> LeaseRow] BY <1>4, <1>8, DropTypes DEF Cancel
  <2> QED BY <1>5, <1>8, <2>2, <2>4, <2>5 DEF Cancel, TypeOK, DropLease
<1>9. ASSUME NEW s \in Slots, NEW o \in Outcomes, TrialCompleted(e, t, s, o) PROVE TypeOK'
  <2>1. trials' \in [Exps -> [Slots -> Outcomes \cup {None}]]
    BY <1>9 DEF TrialCompleted, TypeOK
  <2> QED BY <1>5, <1>9, <2>1 DEF TrialCompleted, TypeOK, leaseVars
<1>10. ASSUME NEW k \in Cells, NEW p \in Positions, CellCompleted(e, t, k, p) PROVE TypeOK'
  <2>1. arms' \in [Exps -> [Cells -> Positions \cup {None}]]
    BY <1>10 DEF CellCompleted, TypeOK
  <2> QED BY <1>5, <1>10, <2>1 DEF CellCompleted, TypeOK, leaseVars
<1>11. ASSUME NEW v \in Verdicts, VerdictComputed(e, t, v) PROVE TypeOK'
  <2>1. [exp[e] EXCEPT !.state = "VERDICT_COMPUTED", !.verdict = v] \in ExpRow
    BY <1>6 DEF ExpRow, ExperimentStates
  <2>2. exp' \in [Exps -> ExpRow] BY <1>11, <2>1 DEF VerdictComputed, TypeOK
  <2>3. /\ [case[c] EXCEPT !.state = "AWAITING_FIX", !.exp = e] \in CaseRow
        /\ [case[c] EXCEPT !.state = "ESCALATED"] \in CaseRow
    BY <1>6 DEF CaseRow, CaseStates
  <2>4. case' \in [Cases -> CaseRow]
    <3>1. CASE v = "ATTRIBUTED"
      <4>1. case' = [case EXCEPT ![c] = [case[c] EXCEPT !.state = "AWAITING_FIX", !.exp = e]]
        BY <1>11, <3>1, <1>4 DEF VerdictComputed, TypeOK
      <4> QED BY <1>4, <2>3, <4>1, CaseUpdate
    <3>2. CASE v # "ATTRIBUTED"
      <4>1. case' = [case EXCEPT ![c] = [case[c] EXCEPT !.state = "ESCALATED"]]
        BY <1>11, <3>2, <1>4 DEF VerdictComputed, TypeOK
      <4> QED BY <1>4, <2>3, <4>1, CaseUpdate
    <3> QED BY <3>1, <3>2
  <2>5. lease' \in [Cases -> LeaseRow] BY <1>4, <1>11, DropTypes DEF VerdictComputed
  <2> QED BY <1>5, <1>11, <2>2, <2>4, <2>5 DEF VerdictComputed, TypeOK, DropLease
<1> QED BY <1>1, <1>7, <1>8, <1>9, <1>10, <1>11

(* Every row, receipt and token keeps its type, in any number of cases,      *)
(* experiments and workers.                                                  *)
THEOREM TypeCorrect == Spec => []TypeOK
<1>1. Init => TypeOK
  BY TokenAssumption DEF Init, TypeOK, LeaseRow, NoLease, CaseRow, ExpRow, CaseStates
<1>2. TypeOK /\ [Next]_vars => TypeOK'
  <2> SUFFICES ASSUME TypeOK, [Next]_vars PROVE TypeOK' OBVIOUS
  <2>1. CASE Next BY <2>1, TypeClaim, TypeWorker, TypeRunner, TypeOther DEF Next
  <2>2. CASE UNCHANGED vars BY <2>2 DEF vars, leaseVars, expVars, TypeOK
  <2> QED BY <2>1, <2>2
<1> QED BY <1>1, <1>2, PTL DEF Spec

-----------------------------------------------------------------------------
(* The fenced lease *)

(* What one step does to the lease of one case and the writes it accepts.    *)
Granted(c)   == (\E w \in Workers : GrantLease(c, w)) /\ UNCHANGED written
Lapsed(c)    == /\ lease[c].live /\ lease' = [lease EXCEPT ![c].live = FALSE]
                /\ UNCHANGED <<counter, newest, written>>
Accepted(c)  == \E t \in 0..MaxToken : /\ CheckFencing(c, t) /\ Fenced(c, t)
                                       /\ UNCHANGED leaseVars \/ DropLease(c)
TakenBack(c) == ~lease[c].live /\ DropLease(c) /\ UNCHANGED written
LeaseStep == \/ \E c \in Cases : Granted(c) \/ Lapsed(c) \/ Accepted(c) \/ TakenBack(c)
             \/ UNCHANGED <<counter, lease, newest, written>>

LEMMA LeaseMoves ==
  ASSUME TypeOK, Next
  PROVE  LeaseStep
<1>1. CASE Claim
  <2>1. ASSUME NEW w \in Workers, NEW c \in Cases, ClaimLocked(w, c) PROVE LeaseStep
    BY <2>1 DEF ClaimLocked, LeaseStep, Granted
  <2>2. ASSUME NEW w \in Workers, NEW c \in Cases, ClaimRead(w, c) PROVE LeaseStep
    BY <2>2 DEF ClaimRead, LeaseStep, leaseVars
  <2>3. ASSUME NEW w \in Workers, ClaimCommit(w) PROVE LeaseStep
    <3>1. pending[w] \in Cases BY <2>3 DEF ClaimCommit, TypeOK
    <3> QED BY <2>3, <3>1 DEF ClaimCommit, LeaseStep, Granted, leaseVars
  <2> QED BY <1>1, <2>1, <2>2, <2>3 DEF Claim
<1>2. CASE WorkerNext
  <2>1. ASSUME NEW c \in Cases, NEW w \in Workers, NEW t \in tokens[w],
               Heartbeat(w, c, t) \/ \E key \in Keys : SubmitSuggestion(w, c, t, key)
        PROVE  LeaseStep
    <3>1. t \in 0..MaxToken BY TokenAssumption DEF TypeOK
    <3>2. CheckFencing(c, t) /\ Fenced(c, t) /\ UNCHANGED leaseVars
      BY <2>1 DEF Heartbeat, SubmitSuggestion, RequireActive
    <3> QED BY <3>1, <3>2 DEF LeaseStep, Accepted
  <2> QED BY <1>2, <2>1 DEF WorkerNext
<1>3. CASE RunnerNext
  <2>1. ASSUME NEW e \in Exps, NEW w \in Runners, NEW t \in tokens[w],
               \/ Start(w, e, t) \/ Cancel(w, e, t)
               \/ \E s \in Slots, o \in Outcomes : TrialCompleted(e, t, s, o)
               \/ \E k \in Cells, p \in Positions : CellCompleted(e, t, k, p)
               \/ \E v \in Verdicts : VerdictComputed(e, t, v)
        PROVE  LeaseStep
    <3>1. t \in 0..MaxToken BY TokenAssumption, RolesAssumption DEF TypeOK
    <3>2. /\ exp[e].case # None /\ CheckFencing(exp[e].case, t) /\ Fenced(exp[e].case, t)
          /\ UNCHANGED leaseVars \/ DropLease(exp[e].case)
      BY <2>1 DEF Start, Cancel, TrialCompleted, CellCompleted, VerdictComputed,
                  RunnerHolds, RequireActive
    <3>3. exp[e].case \in Cases BY <3>2, HeldCase
    <3> QED BY <3>1, <3>2, <3>3 DEF LeaseStep, Accepted
  <2> QED BY <1>3, <2>1 DEF RunnerNext
<1>4. CASE OtherNext
  <2>1. ASSUME NEW c \in Cases, Expire(c) PROVE LeaseStep
    BY <2>1 DEF Expire, LeaseStep, Lapsed
  <2>2. ASSUME NEW c \in Cases, Reclaim(c) PROVE LeaseStep
    BY <2>2 DEF Reclaim, Reclaimable, LeaseStep, TakenBack
  <2>3. ASSUME NEW c \in Cases, NEW ev \in ApiEvents, NEW t \in 0..MaxToken, Transition(c, ev, t)
        PROVE  LeaseStep
    <3>1. CASE t = 0 BY <2>3, <3>1 DEF Transition, LeaseStep, leaseVars
    <3>2. CASE t # 0 BY <2>3, <3>2 DEF Transition, LeaseStep, Accepted
    <3> QED BY <3>1, <3>2
  <2>4. ASSUME NEW c \in Cases, \/ Reopen(c) \/ \E e \in Exps : Create(e, c) PROVE LeaseStep
    BY <2>4 DEF Reopen, Create, LeaseStep, leaseVars
  <2>5. ASSUME NEW e \in Exps, Freeze(e) \/ EscalateFullFactorial(e) PROVE LeaseStep
    BY <2>5 DEF Freeze, EscalateFullFactorial, LeaseStep, leaseVars
  <2> QED BY <1>4, <2>1, <2>2, <2>3, <2>4, <2>5 DEF OtherNext
<1> QED BY <1>1, <1>2, <1>3, <1>4 DEF Next

(* The lease in force bears the newest token of its case, and the counter is *)
(* ahead of every token.                                                     *)
LeaseInv == \A c \in Cases : /\ newest[c] < counter
                             /\ lease[c].live => lease[c].token = newest[c]

LEMMA LeaseInvStep ==
  ASSUME TypeOK, LeaseInv, LeaseStep
  PROVE  LeaseInv'
<1>1. counter \in Nat /\ newest \in [Cases -> Nat] BY TokenAssumption DEF TypeOK
<1>2. ASSUME NEW c \in Cases, Granted(c) PROVE LeaseInv'
  BY <1>1, <1>2 DEF Granted, GrantLease, LeaseInv, TypeOK
<1>3. ASSUME NEW c \in Cases, Lapsed(c) PROVE LeaseInv'
  BY <1>1, <1>3 DEF Lapsed, LeaseInv, TypeOK
<1>4. ASSUME NEW c \in Cases, DropLease(c) PROVE LeaseInv'
  BY <1>1, <1>4 DEF DropLease, NoLease, LeaseInv, TypeOK
<1>5. ASSUME UNCHANGED <<counter, lease, newest>> PROVE LeaseInv'
  BY <1>5 DEF LeaseInv
<1> QED BY <1>2, <1>3, <1>4, <1>5 DEF LeaseStep, Accepted, TakenBack, leaseVars

LEMMA LeaseInvariant == Spec => []LeaseInv
<1>1. Init => LeaseInv BY DEF Init, LeaseInv, NoLease
<1>2. TypeOK /\ LeaseInv /\ [Next]_vars => LeaseInv'
  <2>1. CASE Next BY <2>1, LeaseMoves, LeaseInvStep
  <2>2. CASE UNCHANGED vars BY <2>2 DEF vars, leaseVars, LeaseInv
  <2> QED BY <2>1, <2>2
<1> QED BY <1>1, <1>2, TypeCorrect, PTL DEF Spec

LEMMA FencedStep ==
  ASSUME TypeOK, LeaseInv, LeaseStep
  PROVE  [Lock!FNext]_(Lock!fencedVars)
<1> DEFINE held == [c \in Cases |-> lease[c].live]
<1>0. newest \in [Cases -> Nat] /\ written \in [Cases -> Nat] BY TokenAssumption DEF TypeOK
<1>1. ASSUME NEW c \in Cases, Granted(c) PROVE Lock!FGrant(c)
  <2>1. newest' = [newest EXCEPT ![c] = counter] /\ newest[c] < counter
    BY <1>1 DEF Granted, GrantLease, LeaseInv
  <2>2. newest'[c] > newest[c] /\ newest' = [newest EXCEPT ![c] = newest'[c]]
    BY <1>0, <2>1, TokenAssumption DEF TypeOK
  <2>3. \A d \in Cases : lease'[d].live = IF d = c THEN TRUE ELSE lease[d].live
    BY <1>1 DEF Granted, GrantLease, TypeOK
  <2>4. held' = [held EXCEPT ![c] = TRUE] BY <2>3
  <2> QED BY <1>1, <2>2, <2>4 DEF Lock!FGrant, Granted
<1>2. ASSUME NEW c \in Cases, Lapsed(c) PROVE Lock!FDrop(c)
  <2>1. lease[c] \in [owner : Workers, token : 1..MaxToken, live : BOOLEAN]
    BY <1>2 DEF Lapsed, TypeOK, LeaseRow, NoLease
  <2>2. \A d \in Cases : lease'[d].live = IF d = c THEN FALSE ELSE lease[d].live
    BY <1>2, <2>1 DEF Lapsed, TypeOK
  <2>3. held' = [held EXCEPT ![c] = FALSE] BY <2>2
  <2> QED BY <1>2, <2>3 DEF Lock!FDrop, Lapsed
<1>3. ASSUME NEW c \in Cases, Accepted(c) PROVE Lock!FWrite(c)
  <2>1. held[c] /\ written' = [written EXCEPT ![c] = newest[c]] /\ UNCHANGED newest
    BY <1>3 DEF Accepted, CheckFencing, Fenced, LeaseInv, leaseVars, DropLease
  <2>2. CASE UNCHANGED leaseVars BY <2>1, <2>2 DEF Lock!FWrite, leaseVars
  <2>3. CASE DropLease(c)
    <3>1. \A d \in Cases : lease'[d].live = IF d = c THEN FALSE ELSE lease[d].live
      BY <2>3 DEF DropLease, NoLease, TypeOK
    <3>2. held' = [held EXCEPT ![c] = FALSE] BY <3>1
    <3> QED BY <2>1, <3>2 DEF Lock!FWrite
  <2> QED BY <1>3, <2>2, <2>3 DEF Accepted
<1>4. ASSUME NEW c \in Cases, TakenBack(c) PROVE UNCHANGED Lock!fencedVars
  <2>0. lease[c].live = FALSE BY <1>4, RowTypes DEF TakenBack
  <2>1. \A d \in Cases : lease'[d].live = lease[d].live
    BY <1>4, <2>0 DEF TakenBack, DropLease, NoLease, TypeOK
  <2>2. UNCHANGED held BY <2>1
  <2> QED BY <1>4, <2>2 DEF Lock!fencedVars, TakenBack, DropLease
<1>5. CASE UNCHANGED <<counter, lease, newest, written>> BY <1>5 DEF Lock!fencedVars
<1> QED BY <1>1, <1>2, <1>3, <1>4, <1>5 DEF LeaseStep, Lock!FNext

(* Tokens only grow, one is in force at a time and the writes of a case come *)
(* in the order of their tokens, however requests of several workers, lapses *)
(* and reclaims of its lease interleave.                                     *)
THEOREM WritesAreFenced == Spec => ImplementsFencedLease
<1>1. Init => Lock!FInit BY DEF Init, Lock!FInit, NoLease
<1>2. TypeOK /\ LeaseInv /\ [Next]_vars => [Lock!FNext]_(Lock!fencedVars)
  <2>1. CASE Next BY <2>1, LeaseMoves, FencedStep
  <2>2. CASE UNCHANGED vars BY <2>2 DEF vars, leaseVars, Lock!fencedVars
  <2> QED BY <2>1, <2>2
<1> QED BY <1>1, <1>2, TypeCorrect, LeaseInvariant, PTL DEF Spec, ImplementsFencedLease, Lock!FSpec

-----------------------------------------------------------------------------
(* The experiment behind a fix *)

(* What one step does to the receipts, the arms, the experiments and to the   *)
(* cases that await a fix.                                                   *)
TrialMoves == \A e \in Exps, s \in Slots : trials[e][s] # None => trials'[e][s] = trials[e][s]
ArmAdded(e, k, p) == /\ arms' = [arms EXCEPT ![e][k] = p]
                     /\ arms[e][k] = None /\ \A j \in Cells : arms[e][j] # p
                     /\ \A q \in Probes : trials[e][<<k, q>>] # None
ArmMoves == UNCHANGED arms \/ \E e \in Exps, k \in Cells, p \in Positions : ArmAdded(e, k, p)
ExpMoves == \A e \in Exps :
  /\ exp'[e].case = exp[e].case \/ exp[e].state = None
  /\ \/ exp'[e].verdict = exp[e].verdict
     \/ exp[e].verdict = None /\ \A k \in Cells : arms[e][k] # None
  /\ exp'[e].state = None => exp'[e] = exp[e]
CaseMoves == \A c \in Cases : case'[c].state = "AWAITING_FIX" =>
  \/ case[c].state = "AWAITING_FIX" /\ case'[c].exp = case[c].exp
  \/ \E e \in Exps : case'[c].exp = e /\ exp'[e].case = c /\ exp'[e].verdict = "ATTRIBUTED"

LEMMA KeepsExp == ASSUME UNCHANGED exp PROVE ExpMoves
BY DEF ExpMoves

LEMMA MovesState ==
  ASSUME TypeOK, NEW e \in Exps, NEW st \in ExperimentStates,
         NEW r, NEW t, NEW row, row = [exp[e] EXCEPT !.state = st, !.runner = r, !.token = t],
         exp' = [exp EXCEPT ![e] = row]
  PROVE  ExpMoves
<1>1. exp[e] \in ExpRow BY ExpTypes
<1>2. row.state = st /\ row.case = exp[e].case /\ row.verdict = exp[e].verdict
  BY <1>1 DEF ExpRow
<1>3. exp'[e] = row /\ \A d \in Exps \ {e} : exp'[d] = exp[d] BY DEF TypeOK
<1> QED BY <1>2, <1>3, NoneAssumption DEF ExpMoves

LEMMA RequeueMoves ==
  ASSUME TypeOK, NEW c \in Cases, RequeueExperiment(c)
  PROVE  ExpMoves
<1>1. CASE case[c].state # "ATTRIBUTING" BY <1>1, KeepsExp DEF RequeueExperiment
<1>2. CASE case[c].state = "ATTRIBUTING"
  <2>1. case[c].exp \in Exps /\ RunnerLost(case[c].exp)
    BY <1>2, RowTypes DEF RequeueExperiment, RunnerLosable
  <2>2. PICK to \in ExperimentStates :
          exp' = [exp EXCEPT ![case[c].exp].state = to, ![case[c].exp].runner = None,
                             ![case[c].exp].token = 0]
    BY <2>1 DEF RunnerLost
  <2>3. exp' = [exp EXCEPT ![case[c].exp] =
                  [exp[case[c].exp] EXCEPT !.state = to, !.runner = None, !.token = 0]]
    BY <2>1, <2>2 DEF TypeOK
  <2> QED BY <2>1, <2>3, MovesState
<1> QED BY <1>1, <1>2

Progress == TrialMoves /\ ArmMoves /\ ExpMoves /\ CaseMoves

LEMMA ProjectMoves ==
  ASSUME TypeOK, NEW c \in Cases, NEW w, Project(c, w)
  PROVE  CaseMoves
<1>1. \A d \in Cases \ {c} : case'[d] = case[d] BY DEF Project, TypeOK
<1>2. /\ case'[c].exp = case[c].exp
      /\ case'[c].state = "AWAITING_FIX" => case[c].state = "AWAITING_FIX"
  BY DEF Project, TypeOK, CaseRow
<1> QED BY <1>1, <1>2 DEF CaseMoves

LEMMA ProgressClaim ==
  ASSUME TypeOK, Claim \/ WorkerNext
  PROVE  Progress
<1>0. UNCHANGED <<trials, arms>>
  BY DEF Claim, ClaimLocked, ClaimRead, ClaimCommit, WorkerNext, Heartbeat, SubmitSuggestion, expVars
<1>1. TrialMoves /\ ArmMoves BY <1>0 DEF TrialMoves, ArmMoves
<1>2. ASSUME NEW w \in Workers, NEW c \in Cases, ClaimLocked(w, c) PROVE ExpMoves /\ CaseMoves
  BY <1>2, KeepsExp, RequeueMoves, ProjectMoves DEF ClaimLocked
<1>3. ASSUME NEW w \in Workers, ClaimCommit(w) PROVE ExpMoves /\ CaseMoves
  <2>1. ExpMoves BY <1>3, KeepsExp DEF ClaimCommit, expVars
  <2>2. pending[w] \in Cases BY <1>3 DEF ClaimCommit, TypeOK
  <2>3. CASE Project(pending[w], w) BY <2>1, <2>2, <2>3, ProjectMoves
  <2>4. CASE UNCHANGED case BY <2>1, <2>4 DEF CaseMoves
  <2> QED BY <1>3, <2>3, <2>4 DEF ClaimCommit
<1>4. CASE UNCHANGED <<case, exp>> BY <1>1, <1>4, KeepsExp DEF CaseMoves, Progress
<1> QED BY <1>1, <1>2, <1>3, <1>4
        DEF Claim, ClaimRead, WorkerNext, Heartbeat, SubmitSuggestion, expVars, Progress

LEMMA ProgressOther ==
  ASSUME TypeOK, OtherNext
  PROVE  Progress
<1>0. UNCHANGED <<trials, arms>>
  BY DEF OtherNext, Expire, Reclaim, Reopen, Transition, Create, Freeze,
         EscalateFullFactorial, expVars
<1>1. TrialMoves /\ ArmMoves BY <1>0 DEF TrialMoves, ArmMoves
<1>2. ASSUME NEW c \in Cases, Expire(c) PROVE ExpMoves /\ CaseMoves
  BY <1>2, KeepsExp DEF Expire, expVars, CaseMoves
<1>3. ASSUME NEW c \in Cases, Reclaim(c) PROVE ExpMoves /\ CaseMoves
  <2>1. ExpMoves BY <1>3, RequeueMoves DEF Reclaim
  <2>2. PICK ev \in {"case.worker_lost", "experiment.runner_lost"}, to \in CaseStates :
          /\ NextState(CaseTable, case[c].state, ev, Free, to)
          /\ case' = [case EXCEPT ![c] = [Unbound(@) EXCEPT !.state = to]]
    BY <1>3 DEF Reclaim
  <2>3. to # "AWAITING_FIX" BY <2>2, PutBack
  <2>4. case'[c].state = to
    <3>1. case[c] \in CaseRow BY RowTypes
    <3> QED BY <2>2, <3>1 DEF TypeOK, Unbound, CaseRow
  <2>5. \A d \in Cases \ {c} : case'[d] = case[d] BY <2>2 DEF TypeOK
  <2> QED BY <2>1, <2>3, <2>4, <2>5 DEF CaseMoves
<1>4. ASSUME NEW c \in Cases, Reopen(c) PROVE ExpMoves /\ CaseMoves
  <2>1. ExpMoves BY <1>4, KeepsExp DEF Reopen, expVars
  <2>2. case'[c].state = "OPEN" /\ \A d \in Cases \ {c} : case'[d] = case[d]
    BY <1>4 DEF Reopen, TypeOK, CaseRow
  <2> QED BY <2>1, <2>2 DEF CaseMoves
<1>5. ASSUME NEW c \in Cases, NEW ev \in ApiEvents, NEW t \in 0..MaxToken, Transition(c, ev, t)
      PROVE  ExpMoves /\ CaseMoves
  <2>1. ExpMoves BY <1>5, KeepsExp DEF Transition, expVars
  <2>2. PICK to \in CaseStates : /\ NextState(CaseTable, case[c].state, ev, Free, to)
                                /\ case' = [case EXCEPT ![c].state = to]
    BY <1>5 DEF Transition
  <2>3. to = "AWAITING_FIX" => case[c].state = "AWAITING_FIX"
    BY <1>5, <2>2, AskedFix DEF Transition
  <2>4. case'[c].state = to /\ case'[c].exp = case[c].exp BY <2>2 DEF TypeOK, CaseRow
  <2>5. \A d \in Cases \ {c} : case'[d] = case[d] BY <2>2 DEF TypeOK
  <2> QED BY <2>1, <2>3, <2>4, <2>5 DEF CaseMoves
<1>6. ASSUME NEW c \in Cases, NEW e \in Exps, Create(e, c) PROVE ExpMoves /\ CaseMoves
  <2>1. exp'[e].state = "REQUESTED" /\ exp'[e].verdict = exp[e].verdict /\ exp[e].state = None
    <3>1. exp[e] \in ExpRow BY ExpTypes
    <3> QED BY <1>6, <3>1 DEF Create, TypeOK, ExpRow
  <2>2. \A d \in Exps \ {e} : exp'[d] = exp[d] BY <1>6 DEF Create, TypeOK
  <2>3. ExpMoves BY <2>1, <2>2, NoneAssumption DEF ExpMoves, ExperimentStates
  <2>4. case'[c].state = "ATTRIBUTING" /\ \A d \in Cases \ {c} : case'[d] = case[d]
    BY <1>6 DEF Create, TypeOK, CaseRow
  <2> QED BY <2>3, <2>4 DEF CaseMoves
<1>7. ASSUME NEW e \in Exps, Freeze(e) \/ EscalateFullFactorial(e) PROVE ExpMoves /\ CaseMoves
  <2>1. exp' = [exp EXCEPT ![e].state = "PROTOCOL_FROZEN"] /\ UNCHANGED case
    BY <1>7 DEF Freeze, EscalateFullFactorial
  <2>2. exp' = [exp EXCEPT ![e] = [exp[e] EXCEPT !.state = "PROTOCOL_FROZEN",
                                   !.runner = exp[e].runner, !.token = exp[e].token]]
    <3>1. exp[e] \in ExpRow BY ExpTypes
    <3>2. [exp[e] EXCEPT !.state = "PROTOCOL_FROZEN"] =
            [exp[e] EXCEPT !.state = "PROTOCOL_FROZEN",
                           !.runner = exp[e].runner, !.token = exp[e].token]
      BY <3>1 DEF ExpRow
    <3>3. exp' = [exp EXCEPT ![e] = [exp[e] EXCEPT !.state = "PROTOCOL_FROZEN"]]
      BY <2>1 DEF TypeOK
    <3> QED BY <3>2, <3>3
  <2>3. "PROTOCOL_FROZEN" \in ExperimentStates BY DEF ExperimentStates
  <2>4. ExpMoves BY <2>2, <2>3, MovesState
  <2> QED BY <2>1, <2>4 DEF CaseMoves
<1> QED BY <1>1, <1>2, <1>3, <1>4, <1>5, <1>6, <1>7 DEF OtherNext, Progress

LEMMA ProgressRunner ==
  ASSUME TypeOK, RunnerNext
  PROVE  Progress
<1>0. PICK e \in Exps, w \in Runners :
        \E t \in tokens[w] :
          \/ Start(w, e, t) \/ Cancel(w, e, t)
          \/ \E s \in Slots, o \in Outcomes : TrialCompleted(e, t, s, o)
          \/ \E k \in Cells, p \in Positions : CellCompleted(e, t, k, p)
          \/ \E v \in Verdicts : VerdictComputed(e, t, v)
  BY DEF RunnerNext
<1>1. PICK t \in tokens[w] :
          \/ Start(w, e, t) \/ Cancel(w, e, t)
          \/ \E s \in Slots, o \in Outcomes : TrialCompleted(e, t, s, o)
          \/ \E k \in Cells, p \in Positions : CellCompleted(e, t, k, p)
          \/ \E v \in Verdicts : VerdictComputed(e, t, v)
  BY <1>0
<1> DEFINE c == exp[e].case
<1>2. exp[e] \in ExpRow BY ExpTypes
<1>3. CASE Start(w, e, t)
  <2>1. c \in Cases /\ case[c] \in CaseRow BY <1>3, HeldCase, RowTypes DEF Start
  <2>2. exp' = [exp EXCEPT ![e] = [exp[e] EXCEPT !.state = "RUNNING", !.runner = w, !.token = t]]
    BY <1>3 DEF Start, TypeOK
  <2>3. "RUNNING" \in ExperimentStates BY DEF ExperimentStates
  <2>4. ExpMoves BY <2>2, <2>3, MovesState
  <2>5. case'[c].state = "ATTRIBUTING" /\ \A d \in Cases \ {c} : case'[d] = case[d]
    BY <1>3, <2>1 DEF Start, TypeOK, CaseRow
  <2>6. CaseMoves BY <2>5 DEF CaseMoves
  <2> QED BY <1>3, <2>4, <2>6 DEF Start, Progress, TrialMoves, ArmMoves
<1>4. CASE Cancel(w, e, t)
  <2>1. c \in Cases /\ case[c] \in CaseRow BY <1>4, HeldCase, RowTypes DEF Cancel
  <2>2. exp' = [exp EXCEPT ![e] = [exp[e] EXCEPT !.state = "CANCELLED",
                                   !.runner = exp[e].runner, !.token = exp[e].token]]
    <3>1. [exp[e] EXCEPT !.state = "CANCELLED"] =
            [exp[e] EXCEPT !.state = "CANCELLED",
                           !.runner = exp[e].runner, !.token = exp[e].token]
      BY <1>2 DEF ExpRow
    <3>2. exp' = [exp EXCEPT ![e] = [exp[e] EXCEPT !.state = "CANCELLED"]]
      BY <1>4 DEF Cancel, TypeOK
    <3> QED BY <3>1, <3>2
  <2>3. "CANCELLED" \in ExperimentStates BY DEF ExperimentStates
  <2>4. ExpMoves BY <2>2, <2>3, MovesState
  <2>5. case'[c].state = "ESCALATED" /\ \A d \in Cases \ {c} : case'[d] = case[d]
    BY <1>4, <2>1 DEF Cancel, TypeOK, CaseRow, Unbound
  <2>6. CaseMoves BY <2>5 DEF CaseMoves
  <2> QED BY <1>4, <2>4, <2>6 DEF Cancel, Progress, TrialMoves, ArmMoves
<1>5. ASSUME NEW s \in Slots, NEW o \in Outcomes, TrialCompleted(e, t, s, o) PROVE Progress
  <2>1. TrialMoves BY <1>5 DEF TrialCompleted, TrialMoves, TypeOK
  <2>2. UNCHANGED <<case, exp, arms>> BY <1>5 DEF TrialCompleted
  <2> QED BY <2>1, <2>2, KeepsExp DEF Progress, ArmMoves, CaseMoves
<1>6. ASSUME NEW k \in Cells, NEW p \in Positions, CellCompleted(e, t, k, p) PROVE Progress
  <2>1. ArmAdded(e, k, p) BY <1>6 DEF CellCompleted, ArmAdded
  <2>2. UNCHANGED <<case, exp, trials>> BY <1>6 DEF CellCompleted
  <2> QED BY <2>1, <2>2, KeepsExp DEF Progress, ArmMoves, CaseMoves, TrialMoves
<1>7. ASSUME NEW v \in Verdicts, VerdictComputed(e, t, v) PROVE Progress
  <2>1. c \in Cases /\ case[c] \in CaseRow
    BY <1>7, HeldCase, RowTypes DEF VerdictComputed, RunnerHolds
  <2>2. /\ exp'[e].state = "VERDICT_COMPUTED" /\ exp'[e].verdict = v
        /\ exp'[e].case = c
        /\ \A d \in Exps \ {e} : exp'[d] = exp[d]
    BY <1>2, <1>7 DEF VerdictComputed, TypeOK, ExpRow
  <2>3. \/ exp[e].verdict = v
        \/ exp[e].verdict = None /\ \A k \in Cells : arms[e][k] # None
    BY <1>7 DEF VerdictComputed
  <2>4. ExpMoves BY <2>2, <2>3, NoneAssumption DEF ExpMoves, ExperimentStates
  <2>5. \A d \in Cases \ {c} : case'[d] = case[d] BY <1>7, <2>1 DEF VerdictComputed, TypeOK
  <2>6. case'[c].state = "AWAITING_FIX" => case'[c].exp = e /\ v = "ATTRIBUTED"
    <3>1. CASE v = "ATTRIBUTED"
      <4>1. case'[c] = [case[c] EXCEPT !.state = "AWAITING_FIX", !.exp = e]
        BY <1>7, <2>1, <3>1 DEF VerdictComputed, TypeOK
      <4> QED BY <2>1, <3>1, <4>1 DEF CaseRow
    <3>2. CASE v # "ATTRIBUTED"
      <4>1. case'[c] = [case[c] EXCEPT !.state = "ESCALATED"]
        BY <1>7, <2>1, <3>2 DEF VerdictComputed, TypeOK
      <4> QED BY <2>1, <4>1 DEF CaseRow
    <3> QED BY <3>1, <3>2
  <2>7. CaseMoves BY <2>2, <2>5, <2>6 DEF CaseMoves
  <2> QED BY <1>7, <2>4, <2>7 DEF VerdictComputed, Progress, TrialMoves, ArmMoves
<1> QED BY <1>1, <1>3, <1>4, <1>5, <1>6, <1>7

LEMMA StepMoves ==
  ASSUME TypeOK, [Next]_vars
  PROVE  Progress
<1>1. CASE Next BY <1>1, ProgressClaim, ProgressRunner, ProgressOther DEF Next
<1>2. CASE UNCHANGED vars
  BY <1>2 DEF vars, expVars, Progress, TrialMoves, ArmMoves, ExpMoves, CaseMoves
<1> QED BY <1>1, <1>2

(* A receipt, once there, is never replaced or lost, in any interleaving of   *)
(* runs, reclaims and new claims.                                            *)
THEOREM ReceiptsStay == Spec => ReceiptsFrozen
<1>1. TypeOK /\ [Next]_vars =>
        [\A e \in Exps, s \in Slots : trials[e][s] # None => trials'[e][s] = trials[e][s]]_vars
  BY StepMoves DEF Progress, TrialMoves
<1> QED BY <1>1, TypeCorrect, PTL DEF Spec, ReceiptsFrozen

(* The invariant behind a fix: an arm is in only with all its receipts and in *)
(* a place of its own, a verdict only with all arms, and a case awaits a fix *)
(* only by the verdict of its own experiment.                                *)
ArmsBacked  == \A e \in Exps, k \in Cells : arms[e][k] # None =>
                 \A q \in Probes : trials[e][<<k, q>>] # None
ArmsOrdered == \A e \in Exps, j, k \in Cells :
                 arms[e][j] # None /\ arms[e][j] = arms[e][k] => j = k
VerdictBacked == \A e \in Exps : exp[e].verdict = "ATTRIBUTED" =>
                   \A k \in Cells : arms[e][k] # None
FixBacked == \A c \in Cases : case[c].state = "AWAITING_FIX" =>
               LET e == case[c].exp IN
               e # None /\ exp[e].case = c /\ exp[e].verdict = "ATTRIBUTED"
NewIsFree == \A e \in Exps : exp[e].state = None => exp[e].case = None
FixInv == ArmsBacked /\ ArmsOrdered /\ VerdictBacked /\ FixBacked /\ NewIsFree

LEMMA FixInvInit == Init => FixInv
BY NoneAssumption DEF Init, FixInv, ArmsBacked, ArmsOrdered, VerdictBacked, FixBacked, NewIsFree

LEMMA FixInvStep ==
  ASSUME TypeOK, TypeOK', FixInv, Progress
  PROVE  FixInv'
<1>1. ArmsBacked'
  <2>1. CASE UNCHANGED arms
    BY <2>1 DEF Progress, TrialMoves, FixInv, ArmsBacked, Slots
  <2>2. ASSUME NEW e \in Exps, NEW k \in Cells, NEW p \in Positions, ArmAdded(e, k, p)
        PROVE  ArmsBacked'
    BY <2>2 DEF ArmAdded, Progress, TrialMoves, FixInv, ArmsBacked, Slots, TypeOK
  <2> QED BY <2>1, <2>2 DEF Progress, ArmMoves
<1>2. ArmsOrdered'
  <2>1. CASE UNCHANGED arms BY <2>1 DEF FixInv, ArmsOrdered
  <2>2. ASSUME NEW e \in Exps, NEW k \in Cells, NEW p \in Positions, ArmAdded(e, k, p)
        PROVE  ArmsOrdered'
    BY <2>2 DEF ArmAdded, FixInv, ArmsOrdered, TypeOK
  <2> QED BY <2>1, <2>2 DEF Progress, ArmMoves
<1>3. \A e \in Exps, k \in Cells : arms[e][k] # None => arms'[e][k] # None
  <2>1. CASE UNCHANGED arms BY <2>1
  <2>2. ASSUME NEW e \in Exps, NEW k \in Cells, NEW p \in Positions, ArmAdded(e, k, p)
        PROVE  \A d \in Exps, j \in Cells : arms[d][j] # None => arms'[d][j] # None
    BY <2>2 DEF ArmAdded, TypeOK
  <2> QED BY <2>1, <2>2 DEF Progress, ArmMoves
<1>4. VerdictBacked' BY <1>3, NoneAssumption DEF Progress, ExpMoves, FixInv, VerdictBacked
<1>5. NewIsFree'
  BY DEF Progress, ExpMoves, FixInv, NewIsFree
<1>6. FixBacked'
  <2> SUFFICES ASSUME NEW c \in Cases, case'[c].state = "AWAITING_FIX"
               PROVE  /\ case'[c].exp # None /\ exp'[case'[c].exp].case = c
                      /\ exp'[case'[c].exp].verdict = "ATTRIBUTED"
    BY DEF FixBacked
  <2>1. CASE case[c].state = "AWAITING_FIX" /\ case'[c].exp = case[c].exp
    <3> DEFINE e == case[c].exp
    <3>1. e # None /\ exp[e].case = c /\ exp[e].verdict = "ATTRIBUTED"
      BY <2>1 DEF FixInv, FixBacked
    <3>2. e \in Exps BY <3>1, RowTypes
    <3>3. exp[e].state # None BY <3>1, <3>2, WorkersAssumption DEF FixInv, NewIsFree
    <3>4. exp'[e].case = c /\ exp'[e].verdict = "ATTRIBUTED"
      BY <3>1, <3>2, <3>3, NoneAssumption DEF Progress, ExpMoves
    <3> QED BY <2>1, <3>1, <3>4
  <2>2. CASE \E e \in Exps : /\ case'[c].exp = e /\ exp'[e].case = c
                            /\ exp'[e].verdict = "ATTRIBUTED"
    BY <2>2, WorkersAssumption
  <2> QED BY <2>1, <2>2 DEF Progress, CaseMoves
<1> QED BY <1>1, <1>2, <1>4, <1>5, <1>6 DEF FixInv

(* As many places as arms, no two arms in the same one: every place is taken. *)
LEMMA AllPlaces ==
  ASSUME NEW f \in [Cells -> Positions], \A j, k \in Cells : f[j] = f[k] => j = k
  PROVE  {f[k] : k \in Cells} = Positions
<1> DEFINE B == {f[k] : k \in Cells}
<1>1. IsFiniteSet(Cells) /\ Cardinality(Cells) \in Nat BY CellsAssumption, FS_CardinalityType
<1>2. f \in Bijection(Cells, B)
  BY DEF Bijection, Injection, IsInjective, Surjection
<1>3. IsFiniteSet(B) /\ Cardinality(B) = Cardinality(Cells)
  BY <1>1, <1>2, FS_Bijection DEF ExistsBijection
<1>4. IsFiniteSet(Positions) /\ Cardinality(Positions) = Cardinality(Cells)
  BY <1>1, FS_Interval DEF Positions
<1>5. B \subseteq Positions OBVIOUS
<1> QED BY <1>3, <1>4, <1>5, FS_Subset

(* A case awaits its fix only behind a complete experiment of its own, one   *)
(* that was resumed by as many workers as it took.                           *)
THEOREM FixesAreAttributed == Spec => []FixIsAttributed
<1>1. TypeOK /\ TypeOK' /\ FixInv /\ [Next]_vars => FixInv' BY StepMoves, FixInvStep
<1>2. TypeOK /\ FixInv => FixIsAttributed
  <2> SUFFICES ASSUME TypeOK, FixInv, NEW c \in Cases, case[c].state = "AWAITING_FIX"
               PROVE  LET e == case[c].exp IN
                      /\ e # None /\ exp[e].case = c
                      /\ exp[e].verdict = "ATTRIBUTED"
                      /\ \A s \in Slots : trials[e][s] # None
                      /\ {arms[e][k] : k \in Cells} = Positions
    BY DEF FixIsAttributed
  <2> DEFINE e == case[c].exp
  <2>1. e # None /\ exp[e].case = c /\ exp[e].verdict = "ATTRIBUTED" BY DEF FixInv, FixBacked
  <2>2. e \in Exps BY <2>1, RowTypes
  <2>3. \A k \in Cells : arms[e][k] # None BY <2>1, <2>2 DEF FixInv, VerdictBacked
  <2>4. \A s \in Slots : trials[e][s] # None
    BY <2>2, <2>3 DEF FixInv, ArmsBacked, Slots
  <2>5. arms[e] \in [Cells -> Positions \cup {None}] BY <2>2 DEF TypeOK
  <2>6. arms[e] \in [Cells -> Positions] BY <2>3, <2>5
  <2>7. \A j, k \in Cells : arms[e][j] = arms[e][k] => j = k
    BY <2>2, <2>3 DEF FixInv, ArmsOrdered
  <2>8. {arms[e][k] : k \in Cells} = Positions BY <2>6, <2>7, AllPlaces
  <2> QED BY <2>1, <2>4, <2>8
<1> QED BY <1>1, <1>2, FixInvInit, TypeCorrect, PTL DEF Spec

-----------------------------------------------------------------------------
(* Work in progress is covered *)

(* The states of an experiment that can be put back.                         *)
Losable == {"REQUESTED", "PROTOCOL_FROZEN", "RUNNING"}

(* What Covered(c) says, told apart by the row of the lease and of the case. *)
InWork(c) == case[c].state \in {"DISPATCHED", "ATTRIBUTING"} /\ case[c].worker # None

LEMMA CoveredByUse ==
  ASSUME WorkIsCovered, NEW c \in Cases, InWork(c)
  PROVE  /\ lease[c].owner = case[c].worker /\ lease[c].token = case[c].token
         /\ case[c].state = "ATTRIBUTING" => RunnerLosable(c)
BY DEF WorkIsCovered, InWork, Covered

(* A step that leaves a case and the place of its lease alone leaves it       *)
(* covered, if its experiment is untouched or is put in a losable state.     *)
LEMMA StaysCovered ==
  ASSUME TypeOK, WorkIsCovered, NEW c \in Cases,
         case'[c] = case[c], lease'[c].owner = lease[c].owner, lease'[c].token = lease[c].token,
         \A e \in Exps : exp[e].case = c /\ case[c].exp = e /\ exp[e].state \in Losable =>
           \/ exp'[e] = exp[e]
           \/ exp'[e].case = c /\ exp'[e].state \in {"REQUESTED", "PROTOCOL_FROZEN"}
           \/ case[c].state # "ATTRIBUTING"
         PROVE InWork(c)' => Covered(c)'
<1> SUFFICES ASSUME InWork(c)' PROVE Covered(c)' OBVIOUS
<1>1. InWork(c) BY DEF InWork
<1>2. lease'[c].owner = case'[c].worker /\ lease'[c].token = case'[c].token
  BY <1>1, CoveredByUse
<1>3. ASSUME case[c].state = "ATTRIBUTING" PROVE RunnerLosable(c)'
  <2>1. RunnerLosable(c) BY <1>1, <1>3, CoveredByUse
  <2> DEFINE e == case[c].exp
  <2>2. e \in Exps BY <2>1, RowTypes DEF RunnerLosable
  <2>3. exp[e].case = c /\ exp[e].state \in Losable BY <2>1 DEF RunnerLosable, Losable
  <2>4. CASE exp'[e] = exp[e] BY <2>1, <2>4 DEF RunnerLosable
  <2>5. CASE exp'[e].case = c /\ exp'[e].state \in {"REQUESTED", "PROTOCOL_FROZEN"}
    BY <2>1, <2>5 DEF RunnerLosable
  <2> QED BY <1>3, <2>2, <2>3, <2>4, <2>5
<1> QED BY <1>2, <1>3 DEF Covered

(* The same for a step that touches neither cases nor experiments.           *)
LEMMA OthersStayCovered ==
  ASSUME TypeOK, WorkIsCovered, UNCHANGED <<case, exp>>,
         \A c \in Cases : lease'[c].owner = lease[c].owner /\ lease'[c].token = lease[c].token
  PROVE  WorkIsCovered'
<1> SUFFICES ASSUME NEW c \in Cases PROVE InWork(c)' => Covered(c)' BY DEF WorkIsCovered, InWork
<1> QED BY StaysCovered

LEMMA RequeueOthers ==
  ASSUME TypeOK, NEW c \in Cases, RequeueExperiment(c)
  PROVE  \A d \in Cases \ {c} : \A e \in Exps : exp[e].case = d => exp'[e] = exp[e]
<1>1. CASE case[c].state # "ATTRIBUTING" BY <1>1 DEF RequeueExperiment
<1>2. CASE case[c].state = "ATTRIBUTING"
  <2>1. case[c].exp \in Exps /\ exp[case[c].exp].case = c /\ RunnerLost(case[c].exp)
    BY <1>2, RowTypes DEF RequeueExperiment, RunnerLosable
  <2>2. \A e \in Exps \ {case[c].exp} : exp'[e] = exp[e] BY <2>1 DEF RunnerLost, TypeOK
  <2> QED BY <2>1, <2>2
<1> QED BY <1>1, <1>2

LEMMA GrantCovers ==
  ASSUME TypeOK, WorkIsCovered, NEW c \in Cases, NEW w \in Workers,
         GrantLease(c, w), Project(c, w),
         \A d \in Cases \ {c} : \A e \in Exps : exp[e].case = d => exp'[e] = exp[e]
  PROVE  WorkIsCovered'
<1> SUFFICES ASSUME NEW d \in Cases PROVE InWork(d)' => Covered(d)' BY DEF WorkIsCovered, InWork
<1>1. CASE d = c
  <2>1. case[c] \in CaseRow BY RowTypes
  <2>2. /\ case'[c].worker = w /\ case'[c].token = counter
        /\ case'[c].state # "ATTRIBUTING"
    BY <2>1 DEF Project, TypeOK, CaseRow
  <2>3. lease'[c].owner = w /\ lease'[c].token = counter BY DEF GrantLease, TypeOK
  <2> QED BY <1>1, <2>2, <2>3 DEF Covered
<1>2. CASE d # c
  <2>1. case'[d] = case[d] /\ lease'[d] = lease[d] BY <1>2 DEF GrantLease, Project, TypeOK
  <2> QED BY <1>2, <2>1, StaysCovered
<1> QED BY <1>1, <1>2

LEMMA CoveredClaim ==
  ASSUME TypeOK, WorkIsCovered, Claim
  PROVE  WorkIsCovered'
<1>1. ASSUME NEW w \in Workers, NEW c \in Cases, ClaimLocked(w, c) PROVE WorkIsCovered'
  <2>1. \A d \in Cases \ {c} : \A e \in Exps : exp[e].case = d => exp'[e] = exp[e]
    BY <1>1, RequeueOthers DEF ClaimLocked
  <2> QED BY <1>1, <2>1, GrantCovers DEF ClaimLocked
<1>2. ASSUME NEW w \in Workers, NEW c \in Cases, ClaimRead(w, c) PROVE WorkIsCovered'
  BY <1>2, OthersStayCovered DEF ClaimRead, leaseVars, expVars
<1>3. ASSUME NEW w \in Workers, ClaimCommit(w) PROVE WorkIsCovered'
  <2>1. pending[w] \in Cases /\ UNCHANGED exp BY <1>3 DEF ClaimCommit, TypeOK, expVars
  <2>2. CASE GrantLease(pending[w], w) /\ Project(pending[w], w) BY <2>1, <2>2, GrantCovers
  <2>3. CASE UNCHANGED <<leaseVars, case>> BY <2>1, <2>3, OthersStayCovered DEF leaseVars
  <2> QED BY <1>3, <2>2, <2>3 DEF ClaimCommit
<1> QED BY <1>1, <1>2, <1>3 DEF Claim

LEMMA CoveredWorker ==
  ASSUME TypeOK, WorkIsCovered, WorkerNext
  PROVE  WorkIsCovered'
BY OthersStayCovered DEF WorkerNext, Heartbeat, SubmitSuggestion, leaseVars, expVars

(* The case c leaves work or its worker; the others and their experiments    *)
(* are left as they are.                                                     *)
LEMMA LeavingCovers ==
  ASSUME TypeOK, WorkIsCovered, NEW c \in Cases,
         ~InWork(c)',
         \A d \in Cases \ {c} : /\ case'[d] = case[d] /\ lease'[d] = lease[d]
                               /\ \A e \in Exps : exp[e].case = d /\ exp[e].state \in Losable
                                                   => exp'[e] = exp[e]
  PROVE  WorkIsCovered'
<1> SUFFICES ASSUME NEW d \in Cases PROVE InWork(d)' => Covered(d)' BY DEF WorkIsCovered, InWork
<1>1. CASE d = c BY <1>1
<1>2. CASE d # c BY <1>2, StaysCovered
<1> QED BY <1>1, <1>2

LEMMA CoveredRunner ==
  ASSUME TypeOK, WorkIsCovered, RunnerNext
  PROVE  WorkIsCovered'
<1>0. PICK e \in Exps, w \in Runners :
        \E t \in tokens[w] :
          \/ Start(w, e, t) \/ Cancel(w, e, t)
          \/ \E s \in Slots, o \in Outcomes : TrialCompleted(e, t, s, o)
          \/ \E k \in Cells, p \in Positions : CellCompleted(e, t, k, p)
          \/ \E v \in Verdicts : VerdictComputed(e, t, v)
  BY DEF RunnerNext
<1>1. PICK t \in tokens[w] :
          \/ Start(w, e, t) \/ Cancel(w, e, t)
          \/ \E s \in Slots, o \in Outcomes : TrialCompleted(e, t, s, o)
          \/ \E k \in Cells, p \in Positions : CellCompleted(e, t, k, p)
          \/ \E v \in Verdicts : VerdictComputed(e, t, v)
  BY <1>0
<1>2. PICK c \in Cases : c = exp[e].case
  BY <1>1, HeldCase DEF Start, Cancel, TrialCompleted, CellCompleted, VerdictComputed, RunnerHolds
<1>3. case[c] \in CaseRow /\ exp[e] \in ExpRow BY <1>2, RowTypes, ExpTypes
<1>4. CASE Start(w, e, t)
  <2>1. /\ lease[c].owner = w /\ lease[c].token = t /\ case[c].exp = e
        /\ case[c].worker = w /\ case[c].token = t /\ UNCHANGED lease
    BY <1>2, <1>4 DEF Start, RequireActive, CheckFencing, BoundTo, leaseVars
  <2>2. /\ exp'[e].case = c /\ exp'[e].state = "RUNNING"
        /\ exp'[e].runner = w /\ exp'[e].token = t
        /\ \A d \in Exps \ {e} : exp'[d] = exp[d]
    BY <1>2, <1>3, <1>4 DEF Start, TypeOK, ExpRow
  <2>3. /\ case'[c].worker = w /\ case'[c].token = t /\ case'[c].exp = e
        /\ \A d \in Cases \ {c} : case'[d] = case[d]
    BY <1>2, <1>3, <1>4, <2>1 DEF Start, TypeOK, CaseRow
  <2> SUFFICES ASSUME NEW d \in Cases PROVE InWork(d)' => Covered(d)' BY DEF WorkIsCovered, InWork
  <2>4. CASE d = c
    <3>1. RunnerLosable(c)' BY <2>1, <2>2, <2>3, WorkersAssumption DEF RunnerLosable
    <3> QED BY <2>1, <2>3, <2>4, <3>1 DEF Covered
  <2>5. CASE d # c
    <3>1. case'[d] = case[d] /\ lease'[d] = lease[d] BY <2>1, <2>3, <2>5
    <3>2. \A f \in Exps : exp[f].case = d => exp'[f] = exp[f] BY <1>2, <2>2, <2>5
    <3> QED BY <3>1, <3>2, StaysCovered
  <2> QED BY <2>4, <2>5
<1>5. CASE Cancel(w, e, t)
  <2>1. case'[c].state = "ESCALATED" /\ \A d \in Cases \ {c} : case'[d] = case[d]
    BY <1>2, <1>3, <1>5 DEF Cancel, TypeOK, CaseRow, Unbound
  <2>2. \A d \in Cases \ {c} : lease'[d] = lease[d] BY <1>2, <1>5 DEF Cancel, DropLease, TypeOK
  <2>3. \A f \in Exps \ {e} : exp'[f] = exp[f] BY <1>5 DEF Cancel, TypeOK
  <2>4. ~InWork(c)' BY <2>1 DEF InWork
  <2> QED BY <1>2, <2>1, <2>2, <2>3, <2>4, LeavingCovers
<1>6. CASE \/ \E s \in Slots, o \in Outcomes : TrialCompleted(e, t, s, o)
           \/ \E k \in Cells, p \in Positions : CellCompleted(e, t, k, p)
  BY <1>6, OthersStayCovered DEF TrialCompleted, CellCompleted, leaseVars
<1>7. ASSUME NEW v \in Verdicts, VerdictComputed(e, t, v) PROVE WorkIsCovered'
  <2>1. \A d \in Cases \ {c} : case'[d] = case[d] /\ lease'[d] = lease[d]
    BY <1>2, <1>7 DEF VerdictComputed, DropLease, TypeOK
  <2>2. case'[c].state \in {"AWAITING_FIX", "ESCALATED"}
    <3>1. case'[c] = IF v = "ATTRIBUTED" THEN [case[c] EXCEPT !.state = "AWAITING_FIX", !.exp = e]
                                         ELSE [case[c] EXCEPT !.state = "ESCALATED"]
      BY <1>2, <1>7 DEF VerdictComputed, TypeOK
    <3> QED BY <1>3, <3>1 DEF CaseRow
  <2>3. \A f \in Exps \ {e} : exp'[f] = exp[f] BY <1>7 DEF VerdictComputed, TypeOK
  <2>4. ~InWork(c)' BY <2>2 DEF InWork
  <2> QED BY <1>2, <2>1, <2>3, <2>4, LeavingCovers
<1> QED BY <1>1, <1>4, <1>5, <1>6, <1>7

LEMMA OnlyEscalates ==
  ASSUME NEW from, NEW to, NextState(CaseTable, from, "case.escalated", Free, to)
  PROVE  to = "ESCALATED"
BY DEF NextState, CaseTable, Free, AnyState

LEMMA CoveredOther ==
  ASSUME TypeOK, WorkIsCovered, OtherNext, ApiEvents \subseteq {"case.escalated"}
  PROVE  WorkIsCovered'
<1>1. ASSUME NEW c \in Cases, Expire(c) PROVE WorkIsCovered'
  <2>1. lease[c] \in [owner : Workers, token : 1..MaxToken, live : BOOLEAN]
    BY <1>1 DEF Expire, TypeOK, LeaseRow, NoLease
  <2>2. \A d \in Cases : lease'[d].owner = lease[d].owner /\ lease'[d].token = lease[d].token
    BY <1>1, <2>1 DEF Expire, TypeOK
  <2> QED BY <1>1, <2>2, OthersStayCovered DEF Expire, expVars
<1>2. ASSUME NEW c \in Cases, Reclaim(c) PROVE WorkIsCovered'
  <2>1. case[c] \in CaseRow BY RowTypes
  <2>2. case'[c].worker = None BY <1>2, <2>1 DEF Reclaim, TypeOK, CaseRow, Unbound
  <2>3. \A d \in Cases \ {c} : case'[d] = case[d] /\ lease'[d] = lease[d]
    BY <1>2 DEF Reclaim, DropLease, TypeOK
  <2>4. \A d \in Cases \ {c} : \A e \in Exps : exp[e].case = d => exp'[e] = exp[e]
    BY <1>2, RequeueOthers DEF Reclaim
  <2>5. ~InWork(c)' BY <2>2 DEF InWork
  <2> QED BY <2>3, <2>4, <2>5, LeavingCovers
<1>3. ASSUME NEW c \in Cases, NEW st \in CaseStates \ {"DISPATCHED", "ATTRIBUTING"},
             case' = [case EXCEPT ![c].state = st], UNCHANGED <<lease, exp>>
      PROVE  WorkIsCovered'
  <2>1. case[c] \in CaseRow BY RowTypes
  <2>2. case'[c].state = st /\ \A d \in Cases \ {c} : case'[d] = case[d]
    BY <1>3, <2>1 DEF TypeOK, CaseRow
  <2>3. ~InWork(c)' BY <2>2 DEF InWork
  <2> QED BY <1>3, <2>2, <2>3, LeavingCovers
<1>4. ASSUME NEW c \in Cases, Reopen(c) PROVE WorkIsCovered'
  BY <1>3, <1>4 DEF Reopen, leaseVars, expVars, CaseStates
<1>5. ASSUME NEW c \in Cases, NEW ev \in ApiEvents, NEW t \in 0..MaxToken, Transition(c, ev, t)
      PROVE  WorkIsCovered'
  <2>1. PICK to \in CaseStates : /\ NextState(CaseTable, case[c].state, "case.escalated", Free, to)
                                /\ case' = [case EXCEPT ![c].state = to]
    BY <1>5 DEF Transition
  <2>2. to = "ESCALATED" BY <2>1, OnlyEscalates
  <2> QED BY <1>3, <1>5, <2>1, <2>2 DEF Transition, leaseVars, expVars, CaseStates
<1>6. ASSUME NEW c \in Cases, NEW e \in Exps, Create(e, c) PROVE WorkIsCovered'
  <2>1. case[c] \in CaseRow /\ exp[e] \in ExpRow BY RowTypes, ExpTypes
  <2>2. /\ exp'[e].state = "REQUESTED" /\ exp'[e].case = c
        /\ \A d \in Exps \ {e} : exp'[d] = exp[d]
    BY <1>6, <2>1 DEF Create, TypeOK, ExpRow
  <2>3. /\ case'[c].exp = e /\ case'[c].worker = case[c].worker
        /\ case'[c].token = case[c].token
        /\ \A d \in Cases \ {c} : case'[d] = case[d]
    BY <1>6, <2>1 DEF Create, TypeOK, CaseRow
  <2>4. UNCHANGED lease /\ case[c].state = "DISPATCHED" BY <1>6 DEF Create, leaseVars
  <2> SUFFICES ASSUME NEW d \in Cases PROVE InWork(d)' => Covered(d)' BY DEF WorkIsCovered, InWork
  <2>5. CASE d = c
    <3>1. RunnerLosable(c)' BY <2>2, <2>3, WorkersAssumption DEF RunnerLosable
    <3> SUFFICES ASSUME InWork(c)' PROVE Covered(c)' BY <2>5
    <3>2. lease[c].owner = case[c].worker /\ lease[c].token = case[c].token
      BY <2>3, <2>4, CoveredByUse DEF InWork
    <3> QED BY <2>3, <2>4, <3>1, <3>2 DEF Covered
  <2>6. CASE d # c
    <3>1. exp[e].state \notin Losable
      BY <1>6, NoneAssumption DEF Create, Losable, ExperimentStates
    <3> QED BY <2>2, <2>3, <2>4, <2>6, <3>1, StaysCovered
  <2> QED BY <2>5, <2>6
<1>7. ASSUME NEW e \in Exps, Freeze(e) \/ EscalateFullFactorial(e) PROVE WorkIsCovered'
  <2>1. exp[e] \in ExpRow BY ExpTypes
  <2>2. exp' = [exp EXCEPT ![e].state = "PROTOCOL_FROZEN"] /\ UNCHANGED <<case, lease>>
    BY <1>7 DEF Freeze, EscalateFullFactorial, leaseVars
  <2>3. /\ exp'[e].state = "PROTOCOL_FROZEN" /\ exp'[e].case = exp[e].case
        /\ \A d \in Exps \ {e} : exp'[d] = exp[d]
    BY <2>1, <2>2 DEF TypeOK, ExpRow
  <2> SUFFICES ASSUME NEW d \in Cases PROVE InWork(d)' => Covered(d)' BY DEF WorkIsCovered, InWork
  <2> QED BY <2>2, <2>3, StaysCovered
<1> QED BY <1>1, <1>2, <1>4, <1>5, <1>6, <1>7 DEF OtherNext

(* Where callers of the case API assert nothing but an escalation, all that   *)
(* api/cases.py lets the MCP servers assert, work that names a worker is     *)
(* always covered by exactly that worker's lease row and run: its loss can   *)
(* be seen, whoever holds it.                                                *)
THEOREM WorkStaysCovered ==
  ASSUME ApiEvents \subseteq {"case.escalated"}
  PROVE  Spec => []WorkIsCovered
<1>1. Init => WorkIsCovered BY DEF Init, WorkIsCovered
<1>2. TypeOK /\ WorkIsCovered /\ [Next]_vars => WorkIsCovered'
  <2>1. CASE Next BY <2>1, CoveredClaim, CoveredWorker, CoveredRunner, CoveredOther DEF Next
  <2>2. CASE UNCHANGED vars
    BY <2>2 DEF vars, leaseVars, expVars, WorkIsCovered, Covered, RunnerLosable
  <2> QED BY <2>1, <2>2
<1> QED BY <1>1, <1>2, TypeCorrect, PTL DEF Spec
=============================================================================
