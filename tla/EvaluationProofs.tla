--------------------------- MODULE EvaluationProofs ---------------------------
(***************************************************************************)
(* Proofs about the two jobs of the evaluation server, GateReport and       *)
(* ExperimentRun, for any probes, executors, worlds and outcomes.           *)
(*                                                                         *)
(* The gate: types, what a registered pass means, that the evaluator's      *)
(* own report is acceptable and that a registered failure names what        *)
(* failed.  Once an evaluation is on its way to the controller, its         *)
(* evidence no longer changes (Over), and its report is either the one of   *)
(* an exception or the one its complete evidence yields (Built).            *)
(*                                                                         *)
(* The experiment: that a finished report is acceptable and that the        *)
(* recorded verdict tells the truth.  Receipts only grow, so what executor  *)
(* and controller have drawn from them stays right (Knows, CellsRest,       *)
(* VerdictRests); without flaky trials the receipts say which arms are      *)
(* repaired, and the arms say who the culprit is.                           *)
(***************************************************************************)
EXTENDS GateReport, ExperimentRun, FiniteSetTheorems, TLAPS

-----------------------------------------------------------------------------
(* The evaluator's report *)

Over == {"store", "post", "done"}

Complete(r) == /\ \A k \in Kinds : r.suite[k] \in Executions
               /\ \A p \in Probes : r.answer[p] \in Answers /\ r.verdict[p] \in Verdicts
               /\ r.judge = "distinct"

Built(r) == r.report = ErrorReport \/ (r.report = RunReport(r) /\ Complete(r))

LEMMA SameEvidence ==
  ASSUME NEW r, NEW s, s.suite = r.suite, s.answer = r.answer,
         s.judge = r.judge, s.verdict = r.verdict
  PROVE  RunReport(s) = RunReport(r) /\ (Complete(r) => Complete(s))
BY DEF RunReport, RuleFailures, JudgeStatus, LiveStatus, Complete

LEMMA SummaryType ==
  ASSUME NEW x \in Executions
  PROVE  /\ Summary(x) \in [status : Statuses, passed : {0, 1}, failed : {0, 1}]
         /\ Summary(x).status = SuiteStatus(x) /\ SuiteStatus(x) \in Statuses
         /\ SuiteStatus(x) = "passed" <=> Clean(x)
         /\ Clean(x) => Summary(x) = Recomputed(x) /\ x.passed = 1 /\ Summary(x).failed = 0
BY ExecutionsAssumption DEF Summary, SuiteStatus, Recomputed, Statuses, Clean

LEMMA RunReportType ==
  ASSUME NEW r \in RunRow, Complete(r), \A p \in Probes : r.verdict[p] \notin {None, Raised},
         r.verdict \in [Probes -> Verdicts \cup {None, Raised}]
  PROVE  RunReport(r) \in ReportRow
<1> DEFINE suites == [k \in Kinds |-> Summary(r.suite[k])]
           rule == IF RuleFailures(r) = {} THEN "passed" ELSE "failed"
<1>1. suites \in [Kinds -> [status : Statuses, passed : {0, 1}, failed : {0, 1}]]
  BY SummaryType DEF Complete
<1>2. rule \in Statuses /\ RuleFailures(r) \in SUBSET Checks
  BY DEF Statuses, RuleFailures, Checks
<1>3. JudgeStatus(r) \in Statuses /\ SuitesStatus(suites) \in Statuses /\ LiveStatus(r) \in Statuses
  BY DEF JudgeStatus, SuitesStatus, LiveStatus, Statuses
<1>4. Overall({rule, JudgeStatus(r), SuitesStatus(suites), LiveStatus(r)}) \in Statuses
  BY DEF Overall, Statuses
<1>5. r.verdict \in [Probes -> Verdicts \cup {None}] BY DEF Complete
<1>6. r.suite \in [Kinds -> SuiteRun \cup {None}] /\ r.answer \in [Probes -> Answers \cup {None}]
  BY ExecutionsAssumption DEF RunRow, SuiteRun
<1>7. Bound \in 1..MaxRevision BY BoundsAssumption DEF Bound
<1> HIDE DEF suites, rule
<1>8. RunReport(r) =
        [rule |-> rule, checks |-> RuleFailures(r), judge |-> JudgeStatus(r),
         scores |-> r.verdict, suites |-> suites, det |-> SuitesStatus(suites),
         live |-> LiveStatus(r),
         overall |-> Overall({rule, JudgeStatus(r), SuitesStatus(suites), LiveStatus(r)}),
         refs |-> Kinds \cup {"candidate"}, revision |-> Bound, strict |-> TRUE,
         ran |-> r.suite, answers |-> r.answer, judged |-> r.verdict]
  BY DEF RunReport, suites, rule
<1> QED BY <1>1, <1>2, <1>3, <1>4, <1>5, <1>6, <1>7, <1>8 DEF ReportRow

LEMMA ErrorReportType == ErrorReport \in ReportRow
<1>1. Bound \in 1..MaxRevision BY BoundsAssumption DEF Bound
<1> QED BY <1>1 DEF ErrorReport, ReportRow, Statuses, Checks, Kinds

LEMMA ForgedType ==
  ASSUME NEW live \in {"passed", "failed"}, NEW high \in BOOLEAN, NEW strict \in BOOLEAN,
         NEW n \in 1..MaxRevision
  PROVE  Forged(live, high, strict, n) \in ReportRow
<1>1. PICK clean \in SuiteRun : clean = [code |-> 0, passed |-> 1, failed |-> 0, timed_out |-> FALSE]
  BY DEF SuiteRun
<1>2. PICK score \in Verdicts : score = [parsed |-> TRUE, pass |-> TRUE, high |-> high]
  BY DEF Verdicts
<1>3. PICK summary \in [status : Statuses, passed : {0, 1}, failed : {0, 1}] : summary = Summary(clean)
  <2>1. clean.code = 0 /\ clean.passed = 1 /\ clean.failed = 0 /\ clean.timed_out = FALSE BY <1>1
  <2>2. SuiteStatus(clean) = "passed" BY <2>1 DEF SuiteStatus
  <2>3. Summary(clean) = [status |-> "passed", passed |-> 1, failed |-> 0]
    BY <2>1, <2>2 DEF Summary
  <2> QED BY <2>3 DEF Statuses
<1>4. Forged(live, high, strict, n) =
        [rule |-> "passed", checks |-> {}, judge |-> "passed", scores |-> [p \in Probes |-> score],
         suites |-> [k \in Kinds |-> summary], det |-> "passed", live |-> live, overall |-> live,
         refs |-> Kinds \cup {"candidate"}, revision |-> n, strict |-> strict,
         ran |-> [k \in Kinds |-> clean], answers |-> [p \in Probes |-> "right"],
         judged |-> [p \in Probes |-> score]]
  BY <1>1, <1>2, <1>3 DEF Forged
<1> QED BY <1>4 DEF ReportRow, Statuses, Answers

-----------------------------------------------------------------------------
(* Types and the evaluator's course *)

(* The course of one evaluation: what it has when it gets so far.            *)
CourseOK(r) ==
  /\ r.pc \in {"replay", "target", "probes", "judge"} => r.suite["contract"] \in Executions
  /\ r.pc \in {"target", "probes", "judge"} => r.suite["replay"] \in Executions
  /\ r.pc = "judge" => \A p \in Probes : r.answer[p] # None
  /\ r.pc \in {"store", "post"} => Built(r)
  /\ r.report # None => Built(r) /\ r.pc \in Over

Course == /\ \A e \in Evals : CourseOK(run[e])
          /\ \A e \in Evals : gate[e] # None /\ gate[e].by = "evaluator" => run[e].pc \in Over

(* What the evaluator was answered rightly is in the log, and stays there.    *)
Heard == \A e \in Evals, p \in Probes : run[e].answer[p] = "right" => p \in logged
Grows == logged \subseteq logged' /\ logged' \subseteq Probes

(* One evaluation moves and the register is left alone.                      *)
Moves(e, r) == /\ run' = [run EXCEPT ![e] = r] /\ r \in RunRow /\ CourseOK(r)
               /\ run[e].pc \in Over => /\ r.pc \in Over /\ r.suite = run[e].suite
                                         /\ r.answer = run[e].answer /\ r.judge = run[e].judge
                                         /\ r.verdict = run[e].verdict /\ r.report = run[e].report

(* The register takes a report; the evaluator's when its evaluation has ended. *)
Registers(e, r, by) == /\ Acceptable(r) /\ gate' = Registered(e, r, by)
                       /\ by \in {"evaluator", "other"} /\ (by = "evaluator" => run[e].pc \in Over)

(* What one step is: the target, the register or one evaluation.             *)
GateStep ==
  \/ \E e \in Evals, r \in RunRow : Moves(e, r) /\ UNCHANGED <<target, gate>>
  \/ \E e \in Evals, r \in RunRow : /\ Moves(e, r) /\ UNCHANGED target
                                    /\ Registers(e, run[e].report, "evaluator") /\ Built(run[e])
  \/ \E e \in Evals, r \in ReportRow : Registers(e, r, "other") /\ UNCHANGED <<target, run>>
  \/ target' \in 1..MaxRevision /\ UNCHANGED <<run, gate>>

LEMMA RunTypes ==
  ASSUME TypeOK, Course, NEW e \in Evals
  PROVE  /\ run[e] \in RunRow /\ CourseOK(run[e])
         /\ run[e].pc \notin Over => run[e].report = None
BY DEF TypeOK, Course, CourseOK, Over

(* A step that keeps the evidence and the report.                            *)
LEMMA KeepsEvidence ==
  ASSUME NEW r \in RunRow, NEW s \in RunRow, CourseOK(r), r.pc \in {"store", "post"},
         s.suite = r.suite, s.answer = r.answer, s.judge = r.judge, s.verdict = r.verdict,
         s.report = r.report, s.pc \in Over
  PROVE  CourseOK(s)
<1>1. Built(r) BY DEF CourseOK
<1>2. Built(s) BY <1>1, SameEvidence DEF Built
<1> QED BY <1>2 DEF CourseOK, Over

LEMMA RaiseMoves ==
  ASSUME TypeOK, Course, NEW e \in Evals, run[e].pc \notin Over, NEW s,
         s = [run[e] EXCEPT !.pc = "store", !.report = ErrorReport], run' = [run EXCEPT ![e] = s]
  PROVE  Moves(e, s)
<1>1. run[e] \in RunRow BY RunTypes
<1>2. s \in RunRow /\ s.report = ErrorReport /\ s.pc = "store"
  BY <1>1, ErrorReportType DEF RunRow, PCs
<1>3. CourseOK(s) BY <1>2 DEF CourseOK, Built, Over
<1> QED BY <1>2, <1>3 DEF Moves

LEMMA BuildMoves ==
  ASSUME TypeOK, Course, NEW e \in Evals, Build(e)
  PROVE  \E r \in RunRow : Moves(e, r)
<1> DEFINE r == run[e]
<1>1. r \in RunRow /\ CourseOK(r) /\ r.pc = "judge" /\ r.judge # None /\ Judged(r)
  BY RunTypes DEF Build
<1>2. CASE r.judge = "distinct" /\ \A p \in Probes : r.verdict[p] # Raised
  <2> DEFINE s == [r EXCEPT !.pc = "store", !.report = RunReport(r)]
  <2>1. \A p \in Probes : r.verdict[p] # None BY <1>1, <1>2 DEF Judged
  <2>2. \A p \in Probes : r.verdict[p] \in Verdicts /\ r.answer[p] \in Answers
    BY <1>1, <1>2, <2>1 DEF RunRow, CourseOK
  <2>3. Complete(r) BY <1>1, <1>2, <2>2 DEF CourseOK, Complete, Kinds
  <2>4. RunReport(r) \in ReportRow BY <1>1, <1>2, <2>1, <2>3, RunReportType DEF RunRow
  <2>5. /\ s \in RunRow /\ s.pc = "store" /\ s.report = RunReport(r)
        /\ s.suite = r.suite /\ s.answer = r.answer /\ s.judge = r.judge /\ s.verdict = r.verdict
    BY <1>1, <2>4 DEF RunRow, PCs
  <2>6. Built(s) BY <2>3, <2>5, SameEvidence DEF Built
  <2>7. CourseOK(s) BY <2>5, <2>6 DEF CourseOK, Over
  <2>8. run' = [run EXCEPT ![e] = s] BY <1>2 DEF Build, TypeOK
  <2> QED BY <1>1, <2>5, <2>7, <2>8 DEF Moves, Over
<1>3. CASE ~(r.judge = "distinct" /\ \A p \in Probes : r.verdict[p] # Raised)
  <2> DEFINE s == [r EXCEPT !.pc = "store", !.report = ErrorReport]
  <2>1. run' = [run EXCEPT ![e] = s] BY <1>3 DEF Build, TypeOK
  <2>2. r.pc \notin Over BY <1>1 DEF Over
  <2>3. Moves(e, s) BY <2>1, <2>2, RaiseMoves
  <2> QED BY <2>3 DEF Moves
<1> QED BY <1>2, <1>3

LEMMA EvaluatorMoves ==
  ASSUME TypeOK, Course, NEW e \in Evals,
         \/ Begin(e) \/ ReadTarget(e) \/ ChooseJudge(e) \/ Raise(e)
         \/ \E k \in Kinds : RunSuite(e, k)
         \/ \E p \in Probes : Probe(e, p) \/ Score(e, p)
  PROVE  \E r \in RunRow : Moves(e, r)
<1> DEFINE o == run[e]
<1>1. o \in RunRow /\ CourseOK(o) /\ (o.pc \notin Over => o.report = None) BY RunTypes
<1>2. CASE Begin(e)
  <2> DEFINE s == [o EXCEPT !.pc = "contract"]
  <2>1. run' = [run EXCEPT ![e] = s] /\ o.pc = "idle" BY <1>2 DEF Begin, TypeOK
  <2>2. s \in RunRow /\ s.pc = "contract" /\ s.report = None
    BY <1>1, <2>1 DEF RunRow, PCs, Over
  <2> QED BY <2>1, <2>2 DEF Moves, CourseOK, Over
<1>3. CASE ReadTarget(e)
  <2> DEFINE s == [o EXCEPT !.pc = "probes"]
  <2>1. run' = [run EXCEPT ![e] = s] /\ o.pc = "target" BY <1>3 DEF ReadTarget, TypeOK
  <2>2. s \in RunRow /\ s.pc = "probes" /\ s.report = None /\ s.suite = o.suite
    BY <1>1, <2>1 DEF RunRow, PCs, Over
  <2> QED BY <1>1, <2>1, <2>2 DEF Moves, CourseOK, Over
<1>4. CASE ChooseJudge(e)
  <2>1. PICK j \in {"missing", "athlete", "distinct"} : run' = [run EXCEPT ![e].judge = j]
    BY <1>4 DEF ChooseJudge
  <2> DEFINE s == [o EXCEPT !.judge = j]
  <2>2. run' = [run EXCEPT ![e] = s] /\ o.pc = "judge" BY <1>4, <2>1 DEF ChooseJudge, TypeOK
  <2>3. s \in RunRow /\ s.pc = "judge" /\ s.report = None /\ s.suite = o.suite /\ s.answer = o.answer
    BY <1>1, <2>2 DEF RunRow, PCs, Over
  <2> QED BY <1>1, <2>2, <2>3 DEF Moves, CourseOK, Over
<1>5. CASE Raise(e)
  <2> DEFINE s == [o EXCEPT !.pc = "store", !.report = ErrorReport]
  <2>1. run' = [run EXCEPT ![e] = s] /\ o.pc \notin Over BY <1>5 DEF Raise, TypeOK, Over
  <2>2. Moves(e, s) BY <2>1, RaiseMoves
  <2> QED BY <2>2 DEF Moves
<1>6. ASSUME NEW k \in Kinds, RunSuite(e, k) PROVE \E r \in RunRow : Moves(e, r)
  <2>1. PICK x \in Executions :
          run' = [run EXCEPT ![e].suite[k] = x,
                             ![e].pc = IF k = "contract" THEN "replay" ELSE "target"]
    BY <1>6 DEF RunSuite
  <2> DEFINE s == [o EXCEPT !.suite = [o.suite EXCEPT ![k] = x],
                            !.pc = IF k = "contract" THEN "replay" ELSE "target"]
  <2>2. run' = [run EXCEPT ![e] = s] /\ o.pc = k BY <1>6, <2>1, <1>1 DEF RunSuite, TypeOK, RunRow
  <2>3. /\ s \in RunRow /\ s.pc = (IF k = "contract" THEN "replay" ELSE "target")
        /\ s.report = None /\ s.suite = [o.suite EXCEPT ![k] = x]
    BY <1>1, <2>2 DEF RunRow, PCs, Over, Kinds
  <2>4. s.suite[k] = x /\ (k = "replay" => s.suite["contract"] = o.suite["contract"])
    BY <1>1, <2>3 DEF RunRow, Kinds
  <2> HIDE DEF s
  <2>5. k = "replay" => s.suite["contract"] \in Executions BY <1>1, <2>2, <2>4 DEF CourseOK
  <2>6. CourseOK(s) BY <2>3, <2>4, <2>5 DEF CourseOK, Over, Kinds
  <2>7. o.pc \notin Over BY <2>2 DEF Over, Kinds
  <2> QED BY <2>2, <2>3, <2>6, <2>7 DEF Moves
<1>7. ASSUME NEW p \in Probes, Probe(e, p) PROVE \E r \in RunRow : Moves(e, r)
  <2>1. PICK a \in Answers :
          run' = [run EXCEPT ![e].answer[p] = a,
                   ![e].pc = IF \A q \in Probes \ {p} : run[e].answer[q] # None THEN "judge" ELSE @]
    BY <1>7 DEF Probe
  <2> DEFINE pc == IF \A q \in Probes \ {p} : o.answer[q] # None THEN "judge" ELSE o.pc
             s == [o EXCEPT !.answer = [o.answer EXCEPT ![p] = a], !.pc = pc]
  <2>2. run' = [run EXCEPT ![e] = s] /\ o.pc = "probes" BY <1>7, <2>1, <1>1 DEF Probe, TypeOK, RunRow
  <2>3. /\ s \in RunRow /\ s.pc = pc /\ pc \in {"probes", "judge"}
        /\ s.report = None /\ s.suite = o.suite /\ s.answer = [o.answer EXCEPT ![p] = a]
    BY <1>1, <2>2 DEF RunRow, PCs, Over
  <2>4. s.pc = "judge" => \A q \in Probes : s.answer[q] # None
    BY <1>1, <2>2, <2>3, NoneAssumption DEF RunRow
  <2> HIDE DEF s, pc
  <2> QED BY <1>1, <2>2, <2>3, <2>4 DEF Moves, CourseOK, Over
<1>8. ASSUME NEW p \in Probes, Score(e, p) PROVE \E r \in RunRow : Moves(e, r)
  <2>1. PICK v \in Verdicts \cup {Raised} : run' = [run EXCEPT ![e].verdict[p] = v]
    BY <1>8 DEF Score
  <2> DEFINE s == [o EXCEPT !.verdict = [o.verdict EXCEPT ![p] = v]]
  <2>2. run' = [run EXCEPT ![e] = s] /\ o.pc = "judge" BY <1>8, <2>1, <1>1 DEF Score, TypeOK, RunRow
  <2>3. s \in RunRow /\ s.pc = "judge" /\ s.report = None /\ s.suite = o.suite /\ s.answer = o.answer
    BY <1>1, <2>2 DEF RunRow, PCs, Over
  <2> QED BY <1>1, <2>2, <2>3 DEF Moves, CourseOK, Over
<1> QED BY <1>2, <1>3, <1>4, <1>5, <1>6, <1>7, <1>8

(* The report is kept, posted and answered.                                  *)
LEMMA PostMoves ==
  ASSUME TypeOK, Course, NEW e \in Evals, run[e].pc \in {"store", "post"},
         NEW pc \in Over, NEW status \in {"completed", "registration_failed"},
         NEW s, s = [run[e] EXCEPT !.pc = pc, !.status = status] \/ s = [run[e] EXCEPT !.pc = pc],
         run' = [run EXCEPT ![e] = s]
  PROVE  Moves(e, s) /\ s \in RunRow
<1>1. run[e] \in RunRow /\ CourseOK(run[e]) BY RunTypes
<1>2. /\ s \in RunRow /\ s.pc \in Over
      /\ s.suite = run[e].suite /\ s.answer = run[e].answer /\ s.judge = run[e].judge
      /\ s.verdict = run[e].verdict /\ s.report = run[e].report
  BY <1>1 DEF RunRow, PCs, Over
<1>3. CourseOK(s) BY <1>1, <1>2, KeepsEvidence
<1> QED BY <1>2, <1>3 DEF Moves

(* An evaluation that stops keeps what it has.                               *)
LEMMA StopMoves ==
  ASSUME TypeOK, Course, NEW e \in Evals, Stop(e)
  PROVE  \E r \in RunRow : Moves(e, r)
<1> DEFINE s == [run[e] EXCEPT !.pc = "done"]
<1>1. run[e] \in RunRow /\ CourseOK(run[e]) BY RunTypes
<1>2. run' = [run EXCEPT ![e] = s] BY DEF Stop, TypeOK
<1>3. /\ s \in RunRow /\ s.pc = "done"
      /\ s.suite = run[e].suite /\ s.answer = run[e].answer /\ s.judge = run[e].judge
      /\ s.verdict = run[e].verdict /\ s.report = run[e].report
  BY <1>1 DEF RunRow, PCs
<1>4. s.report # None => Built(s) BY <1>1, <1>3, SameEvidence DEF CourseOK, Built
<1>5. CourseOK(s) BY <1>3, <1>4 DEF CourseOK, Over
<1> HIDE DEF s
<1>6. Moves(e, s) BY <1>2, <1>3, <1>5 DEF Moves, Over
<1> QED BY <1>3, <1>6

LEMMA Steps ==
  ASSUME TypeOK, Course, Next
  PROVE  GateStep
<1>1. ASSUME NEW e \in Evals,
             \/ Begin(e) \/ ReadTarget(e) \/ ChooseJudge(e) \/ Raise(e)
             \/ \E k \in Kinds : RunSuite(e, k)
             \/ \E p \in Probes : Probe(e, p) \/ Score(e, p)
      PROVE  GateStep
  <2>1. UNCHANGED <<target, gate>>
    BY <1>1 DEF Begin, ReadTarget, ChooseJudge, Raise, RunSuite, Probe, Score
  <2>2. \E r \in RunRow : Moves(e, r) BY <1>1, EvaluatorMoves
  <2> QED BY <2>1, <2>2 DEF GateStep
<1>2. ASSUME NEW e \in Evals, Build(e) \/ Stop(e) PROVE GateStep
  <2>1. UNCHANGED <<target, gate>> BY <1>2 DEF Build, Stop
  <2>2. \E r \in RunRow : Moves(e, r) BY <1>2, BuildMoves, StopMoves
  <2> QED BY <2>1, <2>2 DEF GateStep
<1>3. ASSUME NEW e \in Evals, Store(e) PROVE GateStep
  <2> DEFINE s == [run[e] EXCEPT !.pc = "post", !.status = "completed"]
  <2>1. run' = [run EXCEPT ![e] = s] /\ run[e].pc \in {"store", "post"}
    BY <1>3 DEF Store, TypeOK
  <2>2. Moves(e, s) /\ s \in RunRow BY <2>1, PostMoves DEF Over
  <2> QED BY <1>3, <2>2 DEF Store, GateStep
<1>4. ASSUME NEW e \in Evals, Register(e) \/ Refused(e) PROVE GateStep
  <2> DEFINE s == [run[e] EXCEPT !.pc = "done"]
             t == [run[e] EXCEPT !.pc = "done", !.status = "registration_failed"]
  <2>1. run[e].pc = "post" BY <1>4 DEF Register, Refused
  <2>2. run' = [run EXCEPT ![e] = s] \/ run' = [run EXCEPT ![e] = t]
    BY <1>4 DEF Register, Refused, TypeOK
  <2>3. \E r \in RunRow : Moves(e, r)
    <3>1. "done" \in Over BY DEF Over
    <3>2. CASE run' = [run EXCEPT ![e] = s] BY <2>1, <3>1, <3>2, PostMoves
    <3>3. CASE run' = [run EXCEPT ![e] = t] BY <2>1, <3>1, <3>3, PostMoves
    <3> QED BY <2>2, <3>2, <3>3
  <2>4. CASE Register(e)
    <3>1. Registers(e, run[e].report, "evaluator") BY <2>1, <2>4 DEF Registers, Register, Over
    <3>2. Built(run[e]) BY <2>1, RunTypes DEF CourseOK
    <3> QED BY <2>3, <2>4, <3>1, <3>2 DEF GateStep, Register
  <2>5. CASE Refused(e) BY <2>3, <2>5 DEF GateStep, Refused
  <2> QED BY <1>4, <2>4, <2>5
<1>5. ASSUME NEW e \in Evals, Claim(e) PROVE GateStep
  <2>1. PICK live \in {"passed", "failed"}, high \in BOOLEAN, strict \in BOOLEAN, n \in 1..MaxRevision :
          /\ Acceptable(Forged(live, high, strict, n))
          /\ gate' = Registered(e, Forged(live, high, strict, n), "other")
    BY <1>5 DEF Claim
  <2>2. Registers(e, Forged(live, high, strict, n), "other") BY <2>1 DEF Registers
  <2>3. Forged(live, high, strict, n) \in ReportRow BY ForgedType
  <2>4. UNCHANGED <<target, run>> BY <1>5 DEF Claim
  <2> QED BY <2>2, <2>3, <2>4 DEF GateStep
<1>6. CASE Drift
  <2>1. target' \in 1..MaxRevision BY <1>6, BoundsAssumption DEF Drift, TypeOK
  <2> QED BY <1>6, <2>1 DEF Drift, GateStep
<1>7. ASSUME NEW p \in Probes, Ask(p) PROVE GateStep BY <1>7 DEF Ask, GateStep, TypeOK
<1> QED BY <1>1, <1>2, <1>3, <1>4, <1>5, <1>6, <1>7 DEF Next

LEMMA LogStep ==
  ASSUME TypeOK, Heard, Next
  PROVE  Heard' /\ Grows
<1>1. ASSUME NEW e \in Evals, NEW p \in Probes, Probe(e, p) PROVE Heard' /\ Grows
  <2>1. PICK a \in Answers :
          /\ run' = [run EXCEPT ![e].answer[p] = a,
                       ![e].pc = IF \A q \in Probes \ {p} : run[e].answer[q] # None THEN "judge" ELSE @]
          /\ logged' = IF a = "right" THEN logged \cup {p} ELSE logged
    BY <1>1 DEF Probe
  <2>2. Grows BY <2>1 DEF Grows, TypeOK
  <2>3. /\ \A d \in Evals \ {e} : run'[d] = run[d]
        /\ \A q \in Probes \ {p} : run'[e].answer[q] = run[e].answer[q]
        /\ run'[e].answer[p] = a
    BY <2>1 DEF TypeOK, RunRow
  <2>4. ASSUME NEW d \in Evals, NEW q \in Probes, run'[d].answer[q] = "right" PROVE q \in logged'
    <3>1. CASE d = e /\ q = p BY <2>1, <2>3, <2>4, <3>1
    <3>2. CASE ~(d = e /\ q = p) BY <2>2, <2>3, <2>4, <3>2 DEF Heard, Grows
    <3> QED BY <3>1, <3>2
  <2> QED BY <2>2, <2>4 DEF Heard
<1>2. ASSUME NEW p \in Probes, Ask(p) PROVE Heard' /\ Grows BY <1>2 DEF Ask, Heard, Grows, TypeOK
<1>3. ASSUME UNCHANGED logged, \A e \in Evals : run'[e].answer = run[e].answer PROVE Heard' /\ Grows
  BY <1>3 DEF Heard, Grows, TypeOK
<1>4. ASSUME NEW e \in Evals,
             \/ Begin(e) \/ ReadTarget(e) \/ ChooseJudge(e) \/ Raise(e) \/ Build(e)
             \/ Store(e) \/ Stop(e) \/ Register(e) \/ Refused(e)
             \/ (\E k \in Kinds : RunSuite(e, k)) \/ (\E p \in Probes : Score(e, p))
      PROVE  Heard' /\ Grows
  <2>1. run[e] \in RunRow BY DEF TypeOK
  <2>2. UNCHANGED logged
    BY <1>4 DEF Begin, ReadTarget, ChooseJudge, Raise, Build, Store, Stop, Register, Refused,
                RunSuite, Score
  <2>3. \A d \in Evals : run'[d].answer = run[d].answer
    <3>1. CASE Begin(e) \/ ReadTarget(e) \/ Stop(e)
      <4>1. PICK pc : run' = [run EXCEPT ![e].pc = pc] BY <3>1 DEF Begin, ReadTarget, Stop
      <4> QED BY <2>1, <4>1 DEF TypeOK, RunRow
    <3>2. CASE Store(e) \/ Register(e) \/ Refused(e)
      <4>1. \/ \E pc : run' = [run EXCEPT ![e].pc = pc]
            \/ \E pc, status : run' = [run EXCEPT ![e].pc = pc, ![e].status = status]
        BY <3>2 DEF Store, Register, Refused
      <4>2. CASE \E pc : run' = [run EXCEPT ![e].pc = pc]
        <5>1. PICK pc : run' = [run EXCEPT ![e].pc = pc] BY <4>2
        <5> QED BY <2>1, <5>1 DEF TypeOK, RunRow
      <4>3. CASE \E pc, status : run' = [run EXCEPT ![e].pc = pc, ![e].status = status]
        <5>1. PICK pc, status : run' = [run EXCEPT ![e].pc = pc, ![e].status = status] BY <4>3
        <5> QED BY <2>1, <5>1 DEF TypeOK, RunRow
      <4> QED BY <4>1, <4>2, <4>3
    <3>6. CASE ChooseJudge(e)
      <4>1. PICK j : run' = [run EXCEPT ![e].judge = j] BY <3>6 DEF ChooseJudge
      <4> QED BY <2>1, <4>1 DEF TypeOK, RunRow
    <3>7. CASE Raise(e)
      <4>1. PICK report : run' = [run EXCEPT ![e].pc = "store", ![e].report = report] BY <3>7 DEF Raise
      <4> QED BY <2>1, <4>1 DEF TypeOK, RunRow
    <3>3. CASE Build(e)
      <4>1. PICK report : run' = [run EXCEPT ![e].pc = "store", ![e].report = report]
        BY <3>3 DEF Build
      <4> QED BY <2>1, <4>1 DEF TypeOK, RunRow
    <3>4. ASSUME NEW k \in Kinds, RunSuite(e, k) PROVE \A d \in Evals : run'[d].answer = run[d].answer
      <4>1. PICK x, pc : run' = [run EXCEPT ![e].suite[k] = x, ![e].pc = pc] BY <3>4 DEF RunSuite
      <4> QED BY <2>1, <4>1 DEF TypeOK, RunRow
    <3>5. ASSUME NEW p \in Probes, Score(e, p) PROVE \A d \in Evals : run'[d].answer = run[d].answer
      <4>1. PICK v : run' = [run EXCEPT ![e].verdict[p] = v] BY <3>5 DEF Score
      <4> QED BY <2>1, <4>1 DEF TypeOK, RunRow
    <3> QED BY <1>4, <3>1, <3>2, <3>3, <3>4, <3>5, <3>6, <3>7
  <2> QED BY <1>3, <2>2, <2>3
<1>5. CASE UNCHANGED <<logged, run>> BY <1>3, <1>5
<1>6. CASE Drift \/ \E e \in Evals : Claim(e) BY <1>5, <1>6 DEF Drift, Claim
<1> QED BY <1>1, <1>2, <1>4, <1>6 DEF Next

LEMMA RegisteredType ==
  ASSUME TypeOK, NEW e \in Evals, NEW r \in ReportRow, NEW by \in {"evaluator", "other"},
         gate' = Registered(e, r, by)
  PROVE  gate' \in [Evals -> GateRow \cup {None}]
<1>1. Named(r) \in SUBSET ({"rule", "judge", "suite", "live"}
                             \X (Checks \cup Probes \cup Kinds \cup Statuses))
  BY DEF Named, ReportRow
<1>2. [overall |-> r.overall, by |-> by, revision |-> r.revision, seen |-> target,
       failing |-> IF r.overall = "failed" THEN Named(r) ELSE {}] \in GateRow
  BY <1>1 DEF GateRow, ReportRow, TypeOK
<1> QED BY <1>2 DEF Registered, TypeOK

LEMMA BuiltType ==
  ASSUME TypeOK, NEW e \in Evals, Built(run[e])
  PROVE  run[e].report \in ReportRow
<1>1. run[e] \in RunRow BY DEF TypeOK
<1>2. CASE run[e].report = ErrorReport BY <1>2, ErrorReportType
<1>3. CASE run[e].report = RunReport(run[e]) /\ Complete(run[e])
  <2>1. \A p \in Probes : run[e].verdict[p] \notin {None, Raised}
    BY <1>3, NoneAssumption DEF Complete
  <2> QED BY <1>1, <1>3, <2>1, RunReportType DEF RunRow
<1> QED BY <1>2, <1>3 DEF Built

LEMMA CourseStep ==
  ASSUME TypeOK, Course, GateStep, Grows
  PROVE  TypeOK' /\ Course'
<1>1. ASSUME NEW e \in Evals, NEW r \in RunRow, Moves(e, r)
      PROVE  /\ run' \in [Evals -> RunRow] /\ \A d \in Evals : CourseOK(run'[d])
             /\ \A d \in Evals : run[d].pc \in Over => run'[d].pc \in Over
  BY <1>1 DEF Moves, TypeOK, Course
<1>2. ASSUME NEW e \in Evals, NEW r \in ReportRow, NEW by, Registers(e, r, by)
      PROVE  /\ gate' \in [Evals -> GateRow \cup {None}]
             /\ \A d \in Evals : gate'[d] # None /\ gate'[d].by = "evaluator" => run[d].pc \in Over
  <2>1. gate' \in [Evals -> GateRow \cup {None}] BY <1>2, RegisteredType DEF Registers
  <2>2. \A d \in Evals \ {e} : gate'[d] = gate[d] BY <1>2 DEF Registers, Registered, TypeOK
  <2>3. gate'[e] = gate[e] \/ gate'[e].by = by BY <1>2 DEF Registers, Registered, TypeOK
  <2> QED BY <1>2, <2>1, <2>2, <2>3 DEF Registers, Course
<1>3. ASSUME NEW e \in Evals, NEW r \in RunRow, Moves(e, r), UNCHANGED <<target, gate>>
      PROVE  TypeOK' /\ Course'
  BY <1>1, <1>3 DEF TypeOK, Course, Grows
<1>4. ASSUME NEW e \in Evals, NEW r \in RunRow, Moves(e, r), UNCHANGED target,
             Registers(e, run[e].report, "evaluator"), Built(run[e])
      PROVE  TypeOK' /\ Course'
  <2>1. run[e].report \in ReportRow BY <1>4, BuiltType
  <2>2. /\ run' \in [Evals -> RunRow] /\ \A d \in Evals : CourseOK(run'[d])
        /\ \A d \in Evals : run[d].pc \in Over => run'[d].pc \in Over
    BY <1>1, <1>4
  <2>3. /\ gate' \in [Evals -> GateRow \cup {None}]
        /\ \A d \in Evals : gate'[d] # None /\ gate'[d].by = "evaluator" => run[d].pc \in Over
    BY <1>2, <1>4, <2>1
  <2> QED BY <1>4, <2>2, <2>3 DEF TypeOK, Course, Grows
<1>5. ASSUME NEW e \in Evals, NEW r \in ReportRow, Registers(e, r, "other"), UNCHANGED <<target, run>>
      PROVE  TypeOK' /\ Course'
  BY <1>2, <1>5 DEF TypeOK, Course, Grows
<1>6. ASSUME target' \in 1..MaxRevision, UNCHANGED <<run, gate>> PROVE TypeOK' /\ Course'
  BY <1>6 DEF TypeOK, Course, Grows
<1> QED BY <1>3, <1>4, <1>5, <1>6 DEF GateStep

LEMMA CourseInvariant == Spec => [](TypeOK /\ Course /\ Heard)
<1>1. Init => TypeOK /\ Course /\ Heard
  <2> SUFFICES ASSUME Init PROVE TypeOK /\ Course /\ Heard OBVIOUS
  <2>1. Idle \in RunRow BY DEF Idle, RunRow, PCs, Kinds
  <2>2. CourseOK(Idle) BY DEF CourseOK, Idle
  <2>3. target \in 1..MaxRevision BY BoundsAssumption DEF Init, Bound
  <2>4. \A p \in Probes : Idle.answer[p] # "right" BY NoneAssumption DEF Idle, Answers
  <2> QED BY <2>1, <2>2, <2>3, <2>4 DEF Init, TypeOK, Course, Heard
<1>2. TypeOK /\ Course /\ Heard /\ [Next]_vars => (TypeOK /\ Course /\ Heard)'
  <2> SUFFICES ASSUME TypeOK, Course, Heard, [Next]_vars PROVE (TypeOK /\ Course /\ Heard)' OBVIOUS
  <2>1. CASE Next BY <2>1, Steps, LogStep, CourseStep
  <2>2. CASE UNCHANGED vars BY <2>2 DEF vars, TypeOK, Course, Heard
  <2> QED BY <2>1, <2>2
<1> QED BY <1>1, <1>2, PTL DEF Spec

(* Evaluations, evidence, reports and the register stay well typed.          *)
THEOREM TypeCorrect == Spec => []TypeOK
BY CourseInvariant, PTL

-----------------------------------------------------------------------------
(* The evaluator and the controller agree *)

LEMMA SuitesStatusDef ==
  ASSUME NEW r, Complete(r)
  PROVE  LET s == [k \in Kinds |-> Summary(r.suite[k])] IN
         /\ SuitesStatus(s) = "passed" <=> \A k \in Kinds : Clean(r.suite[k])
         /\ SuitesStatus(s) # "error" => \A k \in Kinds : s[k].status \in {"passed", "failed"}
<1> DEFINE s == [k \in Kinds |-> Summary(r.suite[k])]
<1>1. \A k \in Kinds : /\ s[k].status \in Statuses
                       /\ s[k].status = "passed" <=> Clean(r.suite[k])
  BY SummaryType DEF Complete
<1> HIDE DEF s
<1>2. /\ SuitesStatus(s) = "passed" <=> \A k \in Kinds : s[k].status = "passed"
      /\ SuitesStatus(s) # "error" => \A k \in Kinds : s[k].status \in {"passed", "failed"}
  BY <1>1 DEF SuitesStatus, Statuses
<1>3. SuitesStatus(s) = "passed" <=> \A k \in Kinds : Clean(r.suite[k]) BY <1>1, <1>2
<1> QED BY <1>2, <1>3 DEF s

(* What the report of complete evidence says.                                *)
LEMMA ReportSays ==
  ASSUME NEW r, Complete(r)
  PROVE  LET q == RunReport(r) IN
         /\ q.checks = RuleFailures(r) /\ q.scores = r.verdict
         /\ q.suites = [k \in Kinds |-> Summary(r.suite[k])]
         /\ q.refs = Kinds \cup {"candidate"}
         /\ q.rule = (IF RuleFailures(r) = {} THEN "passed" ELSE "failed")
         /\ q.judge = (IF \A p \in Probes : Convincing(r.verdict[p]) THEN "passed" ELSE "failed")
         /\ q.det = SuitesStatus(q.suites) /\ q.det \in Statuses
         /\ q.live = LiveStatus(r) /\ q.live \in Statuses
         /\ q.overall = Overall({q.rule, q.judge, q.det, q.live})
         /\ q.revision = Bound /\ q.strict = TRUE
         /\ q.ran = r.suite /\ q.answers = r.answer /\ q.judged = r.verdict
<1>1. \A p \in Probes : r.verdict[p] \notin {None, Raised} BY NoneAssumption DEF Complete
<1>2. JudgeStatus(r) = IF \A p \in Probes : Convincing(r.verdict[p]) THEN "passed" ELSE "failed"
  BY <1>1 DEF JudgeStatus, Complete
<1>3. \A s : SuitesStatus(s) \in Statuses BY DEF SuitesStatus, Statuses
<1>4. LiveStatus(r) \in Statuses BY DEF LiveStatus, Statuses
<1> QED BY <1>2, <1>3, <1>4 DEF RunReport

LEMMA ErrorAcceptable == Acceptable(ErrorReport)
BY DEF Acceptable, ErrorReport, FollowsFromTracks, RefersToArtifacts

LEMMA RunAcceptable ==
  ASSUME NEW e \in Evals, Heard, Complete(run[e]), target = Bound
  PROVE  Acceptable(RunReport(run[e]))
<1> DEFINE r == run[e]
           q == RunReport(r)
<1>1. /\ q.checks = RuleFailures(r) /\ q.scores = r.verdict
      /\ q.suites = [k \in Kinds |-> Summary(r.suite[k])]
      /\ q.refs = Kinds \cup {"candidate"}
      /\ q.rule = (IF RuleFailures(r) = {} THEN "passed" ELSE "failed")
      /\ q.judge = (IF \A p \in Probes : Convincing(r.verdict[p]) THEN "passed" ELSE "failed")
      /\ q.det = SuitesStatus(q.suites)
      /\ q.live = LiveStatus(r)
      /\ q.overall = Overall({q.rule, q.judge, q.det, q.live})
      /\ q.revision = Bound /\ q.strict = TRUE
      /\ q.ran = r.suite /\ q.answers = r.answer /\ q.judged = r.verdict
  BY ReportSays
<1> HIDE DEF q
<1>2. q.det = "passed" => \A k \in Kinds :
        /\ Clean(r.suite[k]) /\ r.suite[k] # None
        /\ q.suites[k] = Recomputed(r.suite[k]) /\ q.suites[k].status = "passed"
        /\ q.suites[k].failed = 0 /\ q.suites[k].passed > 0
  <2> SUFFICES ASSUME q.det = "passed", NEW k \in Kinds
               PROVE  /\ Clean(r.suite[k]) /\ r.suite[k] # None
                      /\ q.suites[k] = Recomputed(r.suite[k]) /\ q.suites[k].status = "passed"
                      /\ q.suites[k].failed = 0 /\ q.suites[k].passed > 0
    OBVIOUS
  <2>1. r.suite[k] \in Executions /\ r.suite[k] # None BY NoneAssumption DEF Complete
  <2>2. Clean(r.suite[k]) BY <1>1, SuitesStatusDef
  <2>3. q.suites[k] = Summary(r.suite[k]) BY <1>1
  <2>4. Summary(r.suite[k]).passed = r.suite[k].passed BY DEF Summary
  <2> QED BY <2>1, <2>2, <2>3, <2>4, SummaryType
<1>3. FollowsFromTracks(q) BY <1>1, <1>2 DEF FollowsFromTracks, Overall, Reaches, Convincing
<1>4. RefersToArtifacts(q) BY <1>1 DEF RefersToArtifacts
<1>5. q.overall = "passed" => BorneOut(q)
  <2> SUFFICES ASSUME q.overall = "passed" PROVE BorneOut(q) OBVIOUS
  <2>1. q.rule = "passed" /\ q.judge = "passed" /\ q.det = "passed"
    <3>1. q.det \in Statuses BY ReportSays DEF q
    <3> QED BY <1>1, <3>1 DEF Overall, Statuses
  <2>2. SuitesAgree(q) BY <1>1, <1>2, <2>1 DEF SuitesAgree
  <2>3. AnswersAgree(q)
    <3>1. RuleFailures(r) = {} BY <1>1, <2>1
    <3>2. \A p \in Probes : r.answer[p] # "wrong" /\ r.answer[p] # "foreign"
      <4>1. "rule-probe-all-pass" \notin RuleFailures(r) /\ "rule-schema-compliance" \notin RuleFailures(r)
        BY <3>1
      <4> QED BY <4>1 DEF RuleFailures
    <3> QED BY <1>1, <3>2 DEF AnswersAgree, Complete, Answers, Heard
  <2>4. ScoresAgree(q)
    <3>1. \A p \in Probes : Convincing(r.verdict[p]) /\ r.verdict[p] \in Verdicts
      BY <1>1, <2>1 DEF Complete
    <3>2. ASSUME NEW v \in Verdicts, v.pass PROVE v.parsed = TRUE
      <4>1. CASE v \in [parsed : {TRUE}, pass : BOOLEAN, high : BOOLEAN] BY <4>1
      <4>2. CASE v = [parsed |-> FALSE, pass |-> FALSE, high |-> FALSE] BY <3>2, <4>2
      <4> QED BY <4>1, <4>2 DEF Verdicts
    <3>3. \A p \in Probes : r.verdict[p].parsed = TRUE BY <3>1, <3>2 DEF Convincing
    <3> QED BY <1>1, <3>1, <3>3 DEF ScoresAgree
  <2> QED BY <1>1, <2>2, <2>3, <2>4 DEF BorneOut
<1> QED BY <1>3, <1>4, <1>5 DEF Acceptable, q

(* While the target stays where it is, no report the evaluator built is      *)
(* refused for its content, whatever its suites, probes and judge did.       *)
THEOREM HonestAccepted == Spec => []HonestIsAcceptable
<1>1. TypeOK /\ Course /\ Heard => HonestIsAcceptable
  BY ErrorAcceptable, RunAcceptable DEF Course, CourseOK, Built, HonestIsAcceptable
<1> QED BY <1>1, CourseInvariant, PTL

-----------------------------------------------------------------------------
(* What is registered *)

(* A property of one registered row and the evidence of its evaluation.      *)
CleanRun(r) ==
  /\ \A k \in Kinds : r.suite[k] # None /\ Clean(r.suite[k])
  /\ \A p \in Probes : /\ r.answer[p] = "right"
                       /\ r.verdict[p] = [parsed |-> TRUE, pass |-> TRUE, high |-> TRUE]

Earned(g, r) ==
  /\ g.overall = "passed" => g.seen = g.revision
  /\ g.by = "evaluator" /\ g.overall = "passed" => g.revision = Bound /\ CleanRun(r)
  /\ g.by = "evaluator" /\ g.overall = "failed" =>
       Complete(r) /\ RunReport(r).overall = "failed" /\ g.failing = Named(RunReport(r))

Settled == \A e \in Evals : gate[e] # None =>
             /\ Earned(gate[e], run[e])
             /\ gate[e].overall = "passed" => Probes \subseteq logged

(* What a pass the controller accepts says of the report.                    *)
LEMMA PassIsBorneOut ==
  ASSUME NEW r \in ReportRow, Acceptable(r), r.overall = "passed"
  PROVE  /\ Probes \subseteq logged /\ target = r.revision
         /\ \A k \in Kinds : /\ r.ran[k] # None
                             /\ r.ran[k] \in SuiteRun => Clean(r.ran[k])
         /\ \A p \in Probes : /\ r.answers[p] = "right"
                              /\ r.strict => r.judged[p] = [parsed |-> TRUE, pass |-> TRUE, high |-> TRUE]
<1>1. FollowsFromTracks(r) /\ BorneOut(r) BY DEF Acceptable
<1>2. r.judge = "passed" /\ r.det = "passed"
  BY <1>1 DEF FollowsFromTracks, ReportRow, Statuses
<1>3. ASSUME NEW k \in Kinds PROVE r.ran[k] # None /\ (r.ran[k] \in SuiteRun => Clean(r.ran[k]))
  <2>1. r.ran[k] # None /\ r.suites[k] = Recomputed(r.ran[k])
    BY <1>1 DEF BorneOut, SuitesAgree
  <2>2. r.suites[k].status = "passed" /\ r.suites[k].failed = 0 BY <1>1, <1>2 DEF FollowsFromTracks
  <2> QED BY <2>1, <2>2 DEF Recomputed, Clean, SuiteRun
<1>4. ASSUME NEW p \in Probes, r.strict
      PROVE  r.judged[p] = [parsed |-> TRUE, pass |-> TRUE, high |-> TRUE]
  <2>1. /\ r.judged[p] \in Verdicts /\ r.judged[p].parsed /\ r.scores[p] = r.judged[p]
    BY <1>1 DEF BorneOut, ScoresAgree
  <2>2. r.scores[p].pass /\ r.scores[p].high BY <1>1, <1>2, <1>4 DEF FollowsFromTracks, Reaches
  <2> QED BY <2>1, <2>2 DEF Verdicts
<1> QED BY <1>1, <1>3, <1>4 DEF BorneOut, AnswersAgree

LEMMA RegisterSettles ==
  ASSUME TypeOK, Course, Settled, NEW e \in Evals, NEW r \in ReportRow, NEW by, Registers(e, r, by),
         by = "evaluator" => r = run[e].report /\ Built(run[e])
  PROVE  \A d \in Evals : gate'[d] # None =>
           /\ Earned(gate'[d], run[d])
           /\ gate'[d].overall = "passed" => Probes \subseteq logged
<1>1. CASE gate[e] # None BY <1>1 DEF Registers, Registered, Settled
<1>2. CASE gate[e] = None
  <2> DEFINE g == [overall |-> r.overall, by |-> by, revision |-> r.revision, seen |-> target,
                   failing |-> IF r.overall = "failed" THEN Named(r) ELSE {}]
  <2>1. gate'[e] = g /\ \A d \in Evals \ {e} : gate'[d] = gate[d]
    BY <1>2 DEF Registers, Registered, TypeOK
  <2>2. /\ g.overall = r.overall /\ g.by = by /\ g.revision = r.revision /\ g.seen = target
        /\ r.overall = "failed" => g.failing = Named(r)
    OBVIOUS
  <2>3. Acceptable(r) BY DEF Registers
  <2> HIDE DEF g
  <2>4. r.overall = "passed" => Probes \subseteq logged /\ g.seen = g.revision
    BY <2>2, <2>3, PassIsBorneOut
  <2>5. ASSUME by = "evaluator", r.overall = "passed" PROVE g.revision = Bound /\ CleanRun(run[e])
    <3>1. r = RunReport(run[e]) /\ Complete(run[e]) BY <2>5 DEF ErrorReport, Built
    <3>2. /\ r.revision = Bound /\ r.strict = TRUE
          /\ r.ran = run[e].suite /\ r.answers = run[e].answer /\ r.judged = run[e].verdict
      BY <3>1, ReportSays
    <3>3. \A k \in Kinds : run[e].suite[k] \in SuiteRun
      BY <3>1, ExecutionsAssumption DEF Complete, SuiteRun
    <3>4. /\ \A k \in Kinds : /\ r.ran[k] # None
                              /\ r.ran[k] \in SuiteRun => Clean(r.ran[k])
          /\ \A p \in Probes :
               /\ r.answers[p] = "right"
               /\ r.strict => r.judged[p] = [parsed |-> TRUE, pass |-> TRUE, high |-> TRUE]
      BY <2>3, <2>5, PassIsBorneOut
    <3> QED BY <2>2, <3>2, <3>3, <3>4 DEF CleanRun
  <2>6. ASSUME by = "evaluator", r.overall = "failed"
        PROVE  /\ Complete(run[e]) /\ RunReport(run[e]).overall = "failed"
               /\ g.failing = Named(RunReport(run[e]))
    <3>1. r = RunReport(run[e]) /\ Complete(run[e]) BY <2>6 DEF ErrorReport, Built
    <3> QED BY <2>2, <2>6, <3>1
  <2>7. Earned(g, run[e]) BY <2>2, <2>4, <2>5, <2>6 DEF Earned
  <2> QED BY <2>1, <2>2, <2>4, <2>7 DEF Settled
<1> QED BY <1>1, <1>2

LEMMA MovesKeepEarned ==
  ASSUME TypeOK, Course, NEW e \in Evals, NEW r \in RunRow, Moves(e, r),
         NEW d \in Evals, NEW g, g.by = "evaluator" => run[d].pc \in Over, Earned(g, run[d])
  PROVE  Earned(g, run'[d])
<1>1. CASE d # e BY <1>1 DEF Moves, TypeOK
<1>2. CASE d = e /\ g.by # "evaluator" BY <1>2 DEF Earned
<1>3. CASE d = e /\ g.by = "evaluator"
  <2>1. /\ run'[e] = r /\ r.suite = run[e].suite
        /\ r.answer = run[e].answer /\ r.judge = run[e].judge /\ r.verdict = run[e].verdict
    BY <1>3 DEF Moves, TypeOK
  <2>2. RunReport(r) = RunReport(run[e]) /\ (Complete(run[e]) => Complete(r))
    BY <2>1, SameEvidence
  <2>3. CleanRun(run[e]) => CleanRun(r) BY <2>1 DEF CleanRun
  <2> QED BY <1>3, <2>1, <2>2, <2>3 DEF Earned
<1> QED BY <1>1, <1>2, <1>3

LEMMA SettledStep ==
  ASSUME TypeOK, Course, Settled, GateStep, Grows
  PROVE  Settled'
<1>0. Probes \subseteq logged => Probes \subseteq logged' BY DEF Grows
<1>1. ASSUME NEW e \in Evals, NEW r \in RunRow, Moves(e, r), UNCHANGED <<target, gate>>
      PROVE  Settled'
  BY <1>0, <1>1, MovesKeepEarned DEF Settled, Course
<1>2. ASSUME NEW e \in Evals, NEW r \in RunRow, Moves(e, r), UNCHANGED target,
             Registers(e, run[e].report, "evaluator"), Built(run[e])
      PROVE  Settled'
  <2>1. run[e].report \in ReportRow BY <1>2, BuiltType
  <2>2. \A d \in Evals : gate'[d] # None =>
          /\ Earned(gate'[d], run[d])
          /\ gate'[d].overall = "passed" => Probes \subseteq logged
    BY <1>2, <2>1, RegisterSettles
  <2>3. \A d \in Evals : gate'[d] # None /\ gate'[d].by = "evaluator" => run[d].pc \in Over
    BY <1>2 DEF Registers, Registered, TypeOK, Course
  <2> QED BY <1>0, <1>2, <2>2, <2>3, MovesKeepEarned DEF Settled
<1>3. ASSUME NEW e \in Evals, NEW r \in ReportRow, Registers(e, r, "other"), UNCHANGED <<target, run>>
      PROVE  Settled'
  <2>1. \A d \in Evals : gate'[d] # None =>
          /\ Earned(gate'[d], run[d])
          /\ gate'[d].overall = "passed" => Probes \subseteq logged
    BY <1>3, RegisterSettles
  <2> QED BY <1>0, <1>3, <2>1 DEF Settled
<1>4. ASSUME UNCHANGED <<run, gate>> PROVE Settled' BY <1>0, <1>4 DEF Settled
<1> QED BY <1>1, <1>2, <1>3, <1>4 DEF GateStep

LEMMA SettledInvariant == Spec => []Settled
<1>1. Init => Settled BY DEF Init, Settled
<1>2. TypeOK /\ Course /\ Heard /\ Settled /\ [Next]_vars => Settled'
  <2>1. CASE Next BY <2>1, Steps, LogStep, SettledStep
  <2>2. CASE UNCHANGED vars BY <2>2 DEF vars, Settled
  <2> QED BY <2>1, <2>2
<1> QED BY <1>1, <1>2, CourseInvariant, PTL DEF Spec

(* Whoever posts it, a pass is registered only of a target that answered every *)
(* probe rightly and is at the revision the report names; and a pass of the     *)
(* evaluator only over suites that ran clean and scores that reach the          *)
(* configured threshold.                                                     *)
THEOREM PassesAreEarned == Spec => []PassedIsEarned
<1>1. Settled => PassedIsEarned BY DEF Settled, Earned, CleanRun, PassedIsEarned
<1> QED BY <1>1, SettledInvariant, PTL

LEMMA NamedMembers ==
  ASSUME NEW q
  PROVE  /\ \A c : <<"rule", c>> \in Named(q) <=> c \in q.checks
         /\ \A p : <<"judge", p>> \in Named(q) <=>
                     p \in Probes /\ q.scores[p] # None /\ ~Reaches(q, q.scores[p])
         /\ \A k : <<"suite", k>> \in Named(q) <=> k \in Kinds /\ q.suites[k].status # "passed"
         /\ \A x : <<"live", x>> \in Named(q) <=> x = q.live /\ x # "passed"
BY DEF Named

LEMMA FailedIsNamed ==
  ASSUME NEW r, Complete(r), RunReport(r).overall = "failed",
         NEW failing, failing = Named(RunReport(r))
  PROVE  /\ failing # {}
         /\ \A k \in Kinds : <<"suite", k>> \in failing <=> ~Clean(r.suite[k])
         /\ \A p \in Probes :
              <<"judge", p>> \in failing <=> ~(r.verdict[p].pass /\ r.verdict[p].high)
         /\ <<"rule", "rule-probe-all-pass">> \in failing <=> \E p \in Probes : r.answer[p] = "wrong"
         /\ <<"rule", "rule-json-format">> \in failing <=> \E p \in JsonProbes : r.answer[p] = "wrong"
         /\ <<"rule", "rule-schema-compliance">> \in failing
              <=> \E p \in Probes : r.answer[p] = "foreign"
<1> DEFINE q == RunReport(r)
<1>1. /\ q.checks = RuleFailures(r) /\ q.scores = r.verdict
      /\ q.suites = [k \in Kinds |-> Summary(r.suite[k])]
      /\ q.rule = (IF RuleFailures(r) = {} THEN "passed" ELSE "failed")
      /\ q.judge = (IF \A p \in Probes : Convincing(r.verdict[p]) THEN "passed" ELSE "failed")
      /\ q.det = SuitesStatus(q.suites) /\ q.det \in Statuses
      /\ q.live \in Statuses /\ q.overall = Overall({q.rule, q.judge, q.det, q.live})
      /\ q.strict = TRUE
  BY ReportSays
<1>2. q.overall = "failed" /\ failing = Named(q) OBVIOUS
<1> HIDE DEF q
<1>3. \A k \in Kinds : q.suites[k].status = "passed" <=> Clean(r.suite[k])
  BY <1>1, SummaryType DEF Complete
<1>4. \A p \in Probes : q.scores[p] # None BY <1>1, NoneAssumption DEF Complete
<1>5. \A k \in Kinds : <<"suite", k>> \in failing <=> ~Clean(r.suite[k])
  BY <1>2, <1>3, NamedMembers
<1>6. \A p \in Probes : <<"judge", p>> \in failing <=> ~Convincing(r.verdict[p])
  BY <1>1, <1>2, <1>4, NamedMembers DEF Reaches, Convincing
<1>7. \A c : <<"rule", c>> \in failing <=> c \in RuleFailures(r)
  BY <1>1, <1>2, NamedMembers
<1>8. failing # {}
  <2>1. "failed" \in {q.rule, q.judge, q.det, q.live} BY <1>1, <1>2 DEF Overall
  <2>2. CASE q.rule = "failed"
    <3>1. PICK c : c \in RuleFailures(r) BY <1>1, <2>2
    <3> QED BY <1>7, <3>1
  <2>3. CASE q.judge = "failed"
    <3>1. PICK p \in Probes : ~Convincing(r.verdict[p]) BY <1>1, <2>3
    <3> QED BY <1>6, <3>1
  <2>4. CASE q.det = "failed"
    <3>1. PICK k \in Kinds : ~Clean(r.suite[k]) BY <1>1, <2>4, SuitesStatusDef
    <3> QED BY <1>5, <3>1
  <2>5. CASE q.live = "failed" BY <1>2, <2>5, NamedMembers
  <2> QED BY <2>1, <2>2, <2>3, <2>4, <2>5
<1>9. /\ "rule-probe-all-pass" \in RuleFailures(r) <=> \E p \in Probes : r.answer[p] = "wrong"
      /\ "rule-json-format" \in RuleFailures(r) <=> \E p \in JsonProbes : r.answer[p] = "wrong"
      /\ "rule-schema-compliance" \in RuleFailures(r) <=> \E p \in Probes : r.answer[p] = "foreign"
  BY JsonProbesAssumption DEF RuleFailures
<1> QED BY <1>5, <1>6, <1>7, <1>8, <1>9 DEF Convincing

(* A failure the evaluator registered names the suites, answers and rules that *)
(* failed and no other, whatever the order of the posts.                     *)
THEOREM FailuresAreNamed == Spec => []FailureIsNamed
<1>1. Settled => FailureIsNamed
  <2> SUFFICES ASSUME Settled, NEW e \in Evals, gate[e] # None, gate[e].overall = "failed",
                      gate[e].by = "evaluator"
               PROVE  LET failing == gate[e].failing
                          wrong(p) == run[e].answer[p] = "wrong"
                      IN /\ failing # {}
                         /\ \A k \in Kinds : <<"suite", k>> \in failing <=> ~Clean(run[e].suite[k])
                         /\ \A p \in Probes : <<"judge", p>> \in failing
                                 <=> ~(run[e].verdict[p].pass /\ run[e].verdict[p].high)
                         /\ <<"rule", "rule-probe-all-pass">> \in failing <=> \E p \in Probes : wrong(p)
                         /\ <<"rule", "rule-json-format">> \in failing <=> \E p \in JsonProbes : wrong(p)
                         /\ <<"rule", "rule-schema-compliance">> \in failing
                              <=> \E p \in Probes : run[e].answer[p] = "foreign"
    BY DEF FailureIsNamed
  <2>1. /\ Complete(run[e]) /\ RunReport(run[e]).overall = "failed"
        /\ gate[e].failing = Named(RunReport(run[e]))
    BY DEF Settled, Earned
  <2> QED BY <2>1, FailedIsNamed
<1> QED BY <1>1, SettledInvariant, PTL

-----------------------------------------------------------------------------
(* The experiment: types *)

Decisions == {"INCONCLUSIVE", "CONFOUNDED"}
AnyVerdict == {Verdict(d, None) : d \in Decisions} \cup {Verdict("ATTRIBUTED", l) : l \in Layers}

Receipt == [recovered : BOOLEAN, of : Executors \X Nat]
Receipts == [Trials -> Receipt \cup {None}]

ExperimentRow ==
  [state : {"RUNNING", "PROTOCOL_FROZEN", "CANCELLED", "VERDICT_COMPUTED"}, token : Nat,
   verdict : AnyVerdict \cup {None}]

ExecutorRow ==
  [pc : {"idle", "read", "start", "run", "cells", "failed"}, calls : Nat, token : Nat,
   results : Receipts, answer : Receipt \cup {None}, posted : Nat, verdict : AnyVerdict \cup {None},
   beating : BOOLEAN]

ExperimentTypeOK ==
  /\ world \in Worlds
  /\ exp \in ExperimentRow
  /\ receipts \in Receipts
  /\ cells \in [Arms -> Nat \cup {None}]
  /\ ex \in [Executors -> ExecutorRow]

(* What an executor knows is what the controller has: a result is a receipt;  *)
(* one that is to report has them all and has adjudicated them; an answer to  *)
(* be checkpointed is one that the version under test gives.                  *)
AllAnswered(results) == \A i \in Trials : results[i] # None

Knows(x) ==
  /\ \A i \in Trials : ex[x].results[i] # None => ex[x].results[i] = receipts[i]
  /\ ex[x].pc = "cells" =>
       /\ AllAnswered(ex[x].results)
       /\ ex[x].verdict = Adjudicate(RecoveredSlots(ex[x].results))
  /\ ex[x].answer # None =>
       /\ ex[x].pc = "run" /\ Pending(ex[x].results) # {}
       /\ ex[x].answer.recovered \in Outcomes(world, Order[Trial(ex[x].results)])

(* What the controller has recorded rests on receipts that cannot change.     *)
CellsRest ==
  \A arm \in Arms : cells[arm] # None =>
    /\ \A i \in Trials : Order[i][1] = arm => receipts[i] # None
    /\ cells[arm] = RecoveredIn(RecoveredSlots(receipts), arm, Affected)

VerdictRests ==
  exp.verdict # None =>
    AllAnswered(receipts) /\ exp.verdict = RecomputedVerdict(RecoveredSlots(receipts))

ReceiptsAreOutcomes ==
  \A i \in Trials : receipts[i] # None => receipts[i].recovered \in Outcomes(world, Order[i])

ExperimentInv ==
  /\ ExperimentTypeOK
  /\ \A x \in Executors : Knows(x)
  /\ CellsRest /\ VerdictRests /\ ReceiptsAreOutcomes

-----------------------------------------------------------------------------
(* The experiment: adjudication *)

LEMMA LayerOfArm ==
  \A arm \in SingleArms : LayerOf(arm) \in Layers /\ Restored(arm) = {LayerOf(arm)}
<1>1. Restored("RP") = {"prompt"} /\ Restored("RK") = {"kb"} /\ Restored("RM") = {"model_params"}
  BY DEF Restored
<1>2. \A arm \in SingleArms : \E l \in Layers : Restored(arm) = {l}
  BY <1>1 DEF SingleArms, Layers
<1> QED BY <1>2 DEF LayerOf

\* Harness and controller adjudicate alike.
LEMMA SameAdjudication ==
  ASSUME NEW S
  PROVE  Adjudicate(S) = RecomputedVerdict(S)
BY DEF Adjudicate, RecomputedVerdict

LEMMA OnlyArm ==
  ASSUME NEW significant, significant \subseteq SingleArms, Cardinality(significant) = 1
  PROVE  (CHOOSE arm \in significant : TRUE) \in significant
<1>1. significant # {}
  BY FS_EmptySet
<1> QED BY <1>1

LEMMA VerdictType ==
  ASSUME NEW S
  PROVE  RecomputedVerdict(S) \in AnyVerdict
<1> DEFINE significant == {arm \in SingleArms : SignificantArm(S, arm)}
           only == CHOOSE arm \in significant : TRUE
<1>1. CASE Cardinality(significant) = 1
  <2>1. LayerOf(only) \in Layers
    BY <1>1, OnlyArm, LayerOfArm
  <2>2. RecomputedVerdict(S) \in {Verdict("INCONCLUSIVE", None), Verdict("CONFOUNDED", None),
                                  Verdict("ATTRIBUTED", LayerOf(only))}
    BY DEF RecomputedVerdict
  <2> QED BY <2>1, <2>2 DEF AnyVerdict, Decisions
<1>2. CASE Cardinality(significant) # 1
  <2>1. RecomputedVerdict(S) \in {Verdict("INCONCLUSIVE", None), Verdict("CONFOUNDED", None)}
    BY <1>2 DEF RecomputedVerdict
  <2> QED BY <2>1 DEF AnyVerdict, Decisions
<1> QED BY <1>1, <1>2

LEMMA CountType ==
  ASSUME NEW S, NEW arm, NEW probes \in SUBSET Affected
  PROVE  RecoveredIn(S, arm, probes) \in 0..Cardinality(Affected)
<1> DEFINE recovered == {p \in probes : <<arm, p>> \in S}
<1>1. IsFiniteSet(recovered) /\ Cardinality(recovered) <= Cardinality(Affected)
  BY GroupsAssumption, FS_Subset
<1>2. Cardinality(recovered) \in Nat /\ Cardinality(Affected) \in Nat
  BY <1>1, GroupsAssumption, FS_CardinalityType
<1> QED BY <1>1, <1>2 DEF RecoveredIn

LEMMA SlotOfTrial ==
  \A i \in Trials : Order[i] \in Slots
<1>1. Order \in Seq(Slots)
  BY OrderAssumption
<1> QED BY <1>1 DEF Trials

\* What a cell recovered depends on the results of its own trials only.
LEMMA CountOfArm ==
  ASSUME NEW R, NEW T, NEW arm,
         \A i \in Trials : Order[i][1] = arm => R[i] = T[i]
  PROVE  RecoveredIn(RecoveredSlots(R), arm, Affected)
           = RecoveredIn(RecoveredSlots(T), arm, Affected)
<1>1. ASSUME NEW p
      PROVE  <<arm, p>> \in RecoveredSlots(R) <=> <<arm, p>> \in RecoveredSlots(T)
  <2>1. \A i \in Trials : Order[i] = <<arm, p>> => R[i] = T[i]
    OBVIOUS
  <2> QED BY <2>1 DEF RecoveredSlots
<1>2. {p \in Affected : <<arm, p>> \in RecoveredSlots(R)}
        = {p \in Affected : <<arm, p>> \in RecoveredSlots(T)}
  BY <1>1
<1> QED BY <1>2 DEF RecoveredIn

-----------------------------------------------------------------------------
(* The experiment: what every step keeps *)

ReceiptsGrow == \A i \in Trials : receipts[i] # None => receipts'[i] = receipts[i]

LEMMA ReceiptsStay ==
  ASSUME ExperimentTypeOK, [ExperimentNext]_experimentVars
  PROVE  ReceiptsGrow
<1>1. ASSUME NEW x \in Executors, Checkpoint(x)
      PROVE  ReceiptsGrow
  <2> DEFINE i == Trial(ex[x].results)
             r == ex[x].answer
  <2>1. receipts[i] \in {None, r} /\ receipts' = [receipts EXCEPT ![i] = r]
    BY <1>1 DEF Checkpoint, TrialAccepted
  <2> QED BY <2>1 DEF ReceiptsGrow, ExperimentTypeOK, Receipts
<1>2. CASE UNCHANGED receipts
  BY <1>2 DEF ReceiptsGrow
<1> QED BY <1>1, <1>2 DEF ExperimentNext, experimentVars, Execute, Work, Declare, Die,
        RunnerLost, Restart, ReadReceipts, FirstBeat, BeatFails, Evaluate, Report, PostCell, PostVerdict, Fail, Cancel

LEMMA KnowsStays ==
  ASSUME NEW y \in Executors, Knows(y), ReceiptsGrow, world' = world, ex'[y] = ex[y]
  PROVE  Knows(y)'
BY DEF Knows, ReceiptsGrow

LEMMA FreshKnows ==
  ASSUME NEW y \in Executors, NEW pc \in {"idle", "read", "failed"}, NEW calls, NEW token,
         ex'[y] = Executor(pc, calls, token)
  PROVE  Knows(y)'
<1>1. /\ ex'[y].pc # "cells" /\ ex'[y].answer = None
      /\ \A i \in Trials : ex'[y].results[i] = None
  BY DEF Executor, NoResults
<1> QED BY <1>1 DEF Knows

LEMMA CellsStay ==
  ASSUME CellsRest, ReceiptsGrow, cells' = cells
  PROVE  CellsRest'
<1> SUFFICES ASSUME NEW arm \in Arms, cells[arm] # None
             PROVE  /\ \A i \in Trials : Order[i][1] = arm => receipts'[i] # None
                    /\ cells[arm] = RecoveredIn(RecoveredSlots(receipts'), arm, Affected)
  BY DEF CellsRest
<1>1. \A i \in Trials : Order[i][1] = arm => receipts[i] # None
  BY DEF CellsRest
<1>2. \A i \in Trials : Order[i][1] = arm => receipts[i] = receipts'[i]
  BY <1>1 DEF ReceiptsGrow
<1>3. RecoveredIn(RecoveredSlots(receipts), arm, Affected)
        = RecoveredIn(RecoveredSlots(receipts'), arm, Affected)
  BY <1>2, CountOfArm
<1> QED BY <1>1, <1>2, <1>3 DEF CellsRest

LEMMA VerdictStays ==
  ASSUME VerdictRests, ReceiptsGrow, exp'.verdict = exp.verdict,
         receipts \in Receipts, receipts' \in Receipts
  PROVE  VerdictRests'
<1>1. CASE exp.verdict = None
  BY <1>1 DEF VerdictRests
<1>2. CASE exp.verdict # None
  <2>1. AllAnswered(receipts)
    BY <1>2 DEF VerdictRests
  <2>2. \A i \in Trials : receipts'[i] = receipts[i]
    BY <2>1 DEF AllAnswered, ReceiptsGrow
  <2>3. receipts' = receipts
    BY <2>2 DEF Receipts
  <2> QED BY <2>3 DEF VerdictRests
<1> QED BY <1>1, <1>2

-----------------------------------------------------------------------------
(* The experiment: types *)

LEMMA NewRow ==
  ASSUME NEW pc \in {"idle", "read", "failed"}, NEW calls \in Nat, NEW token \in Nat
  PROVE  Executor(pc, calls, token) \in ExecutorRow
<1>1. NoResults \in Receipts
  BY DEF NoResults, Receipts
<1> QED BY <1>1 DEF Executor, ExecutorRow

LEMMA EndedRows ==
  ASSUME NEW x \in Executors, ExperimentTypeOK
  PROVE  /\ ex[x].calls \in Nat /\ ex[x].token \in Nat
         /\ Failed(x) \in ExecutorRow /\ Ended(x) \in ExecutorRow
<1>1. ex[x].calls \in Nat /\ ex[x].token \in Nat
  BY DEF ExperimentTypeOK, ExecutorRow
<1> QED BY <1>1, NewRow DEF Failed, Ended

LEMMA OutcomeType ==
  ASSUME NEW w, NEW s
  PROVE  Outcomes(w, s) \subseteq BOOLEAN
BY DEF Outcomes, Recovers

LEMMA CountIsNat ==
  ASSUME NEW S, NEW arm
  PROVE  RecoveredIn(S, arm, Affected) \in Nat
BY CountType

LEMMA ExperimentInitType ==
  ASSUME ExperimentInit
  PROVE  ExperimentTypeOK
<1>1. \A x \in Executors : Executor("idle", 0, 0) \in ExecutorRow
  BY NewRow
<1>2. NoResults \in Receipts
  BY DEF NoResults, Receipts
<1> QED BY <1>1, <1>2 DEF ExperimentInit, ExperimentTypeOK, ExperimentRow

\* A step of the controller alone.
LEMMA ControllerTypes ==
  ASSUME ExperimentTypeOK, RunnerLost \/ Restart
  PROVE  ExperimentTypeOK'
<1>1. CASE RunnerLost
  <2>1. exp' \in ExperimentRow
    BY <1>1 DEF RunnerLost, ExperimentTypeOK, ExperimentRow
  <2> QED BY <1>1, <2>1 DEF RunnerLost, ExperimentTypeOK
<1>2. CASE Restart
  <2>1. exp.token + 1 \in Nat
    BY DEF ExperimentTypeOK, ExperimentRow
  <2>2. exp' = [exp EXCEPT !.state = "RUNNING", !.token = exp.token + 1]
    BY <1>2 DEF Restart
  <2>3. exp' \in ExperimentRow
    BY <2>1, <2>2 DEF ExperimentTypeOK, ExperimentRow
  <2> QED BY <1>2, <2>3 DEF Restart, ExperimentTypeOK
<1> QED BY <1>1, <1>2

LEMMA VerdictPosted ==
  ASSUME ExperimentTypeOK, NEW x \in Executors, NEW results, NEW verdict,
         VerdictAccepted(x, results, verdict), Record(verdict)
  PROVE  exp' \in ExperimentRow
<1>1. verdict \in AnyVerdict
  BY VerdictType DEF VerdictAccepted
<1> QED BY <1>1 DEF Record, ExperimentTypeOK, ExperimentRow

LEMMA ExperimentTypes ==
  ASSUME ExperimentTypeOK, [ExperimentNext]_experimentVars
  PROVE  ExperimentTypeOK'
<1> USE DEF ExperimentTypeOK
<1>1. ASSUME NEW x \in Executors, Execute(x)
      PROVE  ExperimentTypeOK'
  <2>1. Executor("read", ex[x].calls + 1, exp.token) \in ExecutorRow
    BY NewRow, EndedRows DEF ExperimentRow
  <2> QED BY <1>1, <2>1 DEF Execute
<1>2. ASSUME NEW x \in Executors, ReadReceipts(x)
      PROVE  ExperimentTypeOK'
  <2>1. /\ ex' = [ex EXCEPT ![x] = [ex[x] EXCEPT !.pc = "start", !.results = receipts]]
        /\ UNCHANGED <<world, exp, receipts, cells>>
    BY <1>2 DEF ReadReceipts, ExecutorRow
  <2>2. [ex[x] EXCEPT !.pc = "start", !.results = receipts] \in ExecutorRow
    BY DEF ExecutorRow
  <2> QED BY <2>1, <2>2
<1>3. ASSUME NEW x \in Executors, Evaluate(x)
      PROVE  ExperimentTypeOK'
  <2>1. PICK recovered \in Outcomes(world, Order[Trial(ex[x].results)]) :
          ex' = [ex EXCEPT ![x].answer = [recovered |-> recovered, of |-> <<x, ex[x].calls>>]]
    BY <1>3 DEF Evaluate
  <2>2. [recovered |-> recovered, of |-> <<x, ex[x].calls>>] \in Receipt
    BY OutcomeType, EndedRows DEF Receipt
  <2> QED BY <1>3, <2>1, <2>2 DEF Evaluate, ExecutorRow
<1>4. ASSUME NEW x \in Executors, Checkpoint(x)
      PROVE  ExperimentTypeOK'
  <2>1. PICK i, r : /\ i = Trial(ex[x].results) /\ r = ex[x].answer /\ r # None
                    /\ receipts' = [receipts EXCEPT ![i] = r]
                    /\ \/ ex' = [ex EXCEPT ![x].results[i] = r, ![x].answer = None]
                       \/ ex' = [ex EXCEPT ![x] = Failed(x)]
    BY <1>4 DEF Checkpoint
  <2>2. r \in Receipt
    BY <2>1 DEF ExecutorRow
  <2>3. receipts' \in Receipts
    BY <2>1, <2>2 DEF Receipts
  <2>4. CASE ex' = [ex EXCEPT ![x] = Failed(x)]
    BY <1>4, <2>3, <2>4, EndedRows DEF Checkpoint
  <2>5. CASE ex' = [ex EXCEPT ![x].results[i] = r, ![x].answer = None]
    <3>1. ex[x] \in ExecutorRow
      OBVIOUS
    <3>2. [ex[x].results EXCEPT ![i] = r] \in Receipts
      BY <2>2, <3>1 DEF Receipts, ExecutorRow
    <3>3. [ex[x] EXCEPT !.results = [ex[x].results EXCEPT ![i] = r], !.answer = None] \in ExecutorRow
      BY <3>1, <3>2 DEF ExecutorRow
    <3>4. ex' = [ex EXCEPT ![x] = [ex[x] EXCEPT !.results = [ex[x].results EXCEPT ![i] = r],
                                                !.answer = None]]
      BY <2>5, <3>1 DEF ExecutorRow
    <3>5. ex' \in [Executors -> ExecutorRow]
      BY <3>3, <3>4
    <3> QED BY <1>4, <2>3, <3>5 DEF Checkpoint
  <2> QED BY <2>1, <2>4, <2>5
<1>5. ASSUME NEW x \in Executors, Report(x)
      PROVE  ExperimentTypeOK'
  <2>1. Adjudicate(RecoveredSlots(ex[x].results)) \in AnyVerdict
    BY SameAdjudication, VerdictType
  <2>2. PICK verdict \in AnyVerdict : verdict = Adjudicate(RecoveredSlots(ex[x].results))
    BY <2>1
  <2>3. [ex[x] EXCEPT !.pc = "cells", !.beating = FALSE, !.verdict = verdict] \in ExecutorRow
    BY DEF ExecutorRow
  <2>4. /\ ex' = [ex EXCEPT ![x] = [ex[x] EXCEPT !.pc = "cells", !.beating = FALSE, !.verdict = verdict]]
        /\ UNCHANGED <<world, exp, receipts, cells>>
    BY <1>5, <2>2 DEF Report
  <2> QED BY <2>3, <2>4
<1>6. ASSUME NEW x \in Executors, PostCell(x)
      PROVE  ExperimentTypeOK'
  <2>1. PICK arm : cells' = [cells EXCEPT ![arm] =
                       RecoveredIn(RecoveredSlots(ex[x].results), arm, Affected)]
    BY <1>6 DEF PostCell
  <2>2. cells' \in [Arms -> Nat \cup {None}]
    BY <2>1, CountIsNat
  <2>3. ex' \in [Executors -> ExecutorRow]
    <3>1. CASE ex' = [ex EXCEPT ![x].posted = @ + 1]
      <4>1. PICK n \in Nat : n = ex[x].posted + 1
        BY DEF ExecutorRow
      <4>2. [ex[x] EXCEPT !.posted = n] \in ExecutorRow
        BY DEF ExecutorRow
      <4>3. ex' = [ex EXCEPT ![x] = [ex[x] EXCEPT !.posted = n]]
        BY <3>1, <4>1 DEF ExecutorRow
      <4> QED BY <4>2, <4>3
    <3>2. CASE ex' = [ex EXCEPT ![x] = Failed(x)]
      BY <3>2, EndedRows
    <3> QED BY <1>6, <3>1, <3>2 DEF PostCell
  <2> QED BY <1>6, <2>2, <2>3 DEF PostCell
<1>7. ASSUME NEW x \in Executors, PostVerdict(x)
      PROVE  ExperimentTypeOK'
  <2>1. exp' \in ExperimentRow
    BY <1>7, VerdictPosted DEF PostVerdict
  <2> QED BY <1>7, <2>1, EndedRows DEF PostVerdict
<1>8. ASSUME NEW x \in Executors, Declare(x)
      PROVE  ExperimentTypeOK'
  <2>1. exp' \in ExperimentRow
    BY <1>8, VerdictPosted DEF Declare
  <2> QED BY <1>8, <2>1 DEF Declare
<1>9. ASSUME NEW x \in Executors, Fail(x) \/ Cancel(x) \/ Die(x)
      PROVE  ExperimentTypeOK'
  <2>1. ex' \in [Executors -> ExecutorRow]
    BY <1>9, EndedRows DEF Fail, Cancel, Die
  <2>2. exp' \in ExperimentRow
    BY <1>9 DEF Fail, Cancel, Die, ExperimentRow
  <2> QED BY <1>9, <2>1, <2>2 DEF Fail, Cancel, Die
<1>10. CASE RunnerLost \/ Restart
  BY <1>10, ControllerTypes
<1>11. ASSUME NEW x \in Executors, FirstBeat(x) \/ BeatFails(x)
       PROVE  ExperimentTypeOK'
  <2>1. PICK pc \in {ex[x].pc, "run"}, beating \in BOOLEAN :
          ex' = [ex EXCEPT ![x] = [ex[x] EXCEPT !.pc = pc, !.beating = beating]]
    BY <1>11 DEF FirstBeat, BeatFails, ExecutorRow
  <2>2. [ex[x] EXCEPT !.pc = pc, !.beating = beating] \in ExecutorRow
    BY <2>1 DEF ExecutorRow
  <2> QED BY <1>11, <2>1, <2>2 DEF FirstBeat, BeatFails
<1>12. CASE UNCHANGED experimentVars
  BY <1>12 DEF experimentVars
<1> QED BY <1>1, <1>2, <1>3, <1>4, <1>5, <1>6, <1>7, <1>8, <1>9, <1>10, <1>11, <1>12 DEF ExperimentNext, Work

-----------------------------------------------------------------------------
(* The experiment: each part of the invariant *)

LEMMA KnowsStep ==
  ASSUME ExperimentInv, [ExperimentNext]_experimentVars
  PROVE  \A y \in Executors : Knows(y)'
<1> USE DEF ExperimentInv
<1>1. ReceiptsGrow /\ world' = world
  BY ReceiptsStay DEF ExperimentNext, experimentVars, Execute, Work, Declare, Die, RunnerLost,
     Restart, ReadReceipts, FirstBeat, BeatFails, Evaluate, Checkpoint, Report, PostCell, PostVerdict, Fail, Cancel
<1>2. \A y \in Executors : ex'[y] = ex[y] => Knows(y)'
  BY <1>1, KnowsStays
<1>3. ASSUME NEW x \in Executors, Execute(x) \/ Fail(x) \/ Cancel(x) \/ Die(x) \/ PostVerdict(x)
      PROVE  \A y \in Executors : Knows(y)'
  <2>1. PICK row \in {Executor("read", ex[x].calls + 1, exp.token), Failed(x), Ended(x)} :
          ex' = [ex EXCEPT ![x] = row]
    BY <1>3 DEF Execute, Fail, Cancel, Die, PostVerdict
  <2>2. ex'[x] = row /\ \A y \in Executors \ {x} : ex'[y] = ex[y]
    BY <2>1 DEF ExperimentTypeOK
  <2>3. Knows(x)'
    BY <2>1, <2>2, FreshKnows DEF Failed, Ended
  <2> QED BY <1>2, <2>2, <2>3
<1>4. ASSUME NEW x \in Executors, ReadReceipts(x)
      PROVE  \A y \in Executors : Knows(y)'
  <2>1. /\ ex'[x] = [ex[x] EXCEPT !.pc = "start", !.results = receipts]
        /\ receipts' = receipts /\ ex[x].pc = "read"
        /\ \A y \in Executors \ {x} : ex'[y] = ex[y]
    BY <1>4 DEF ReadReceipts, ExperimentTypeOK, ExecutorRow
  <2>2. ex[x].answer = None /\ \A i \in Trials : ex[x].results[i] # None => ex[x].results[i] = receipts[i]
    BY <2>1 DEF Knows
  <2>3. /\ ex'[x].results = receipts /\ ex'[x].pc = "start" /\ ex'[x].answer = None
    BY <2>1, <2>2 DEF ExperimentTypeOK, ExecutorRow
  <2>4. Knows(x)'
    BY <2>1, <2>3 DEF Knows
  <2> QED BY <1>2, <2>1, <2>4
<1>5. ASSUME NEW x \in Executors, Evaluate(x)
      PROVE  \A y \in Executors : Knows(y)'
  <2>1. PICK recovered \in Outcomes(world, Order[Trial(ex[x].results)]) :
          ex' = [ex EXCEPT ![x].answer = [recovered |-> recovered, of |-> <<x, ex[x].calls>>]]
    BY <1>5 DEF Evaluate
  <2>2. /\ ex'[x].pc = "run" /\ ex'[x].results = ex[x].results
        /\ ex'[x].answer.recovered = recovered
        /\ \A y \in Executors \ {x} : ex'[y] = ex[y]
        /\ receipts' = receipts /\ Pending(ex[x].results) # {}
    BY <1>5, <2>1 DEF Evaluate, ExperimentTypeOK, ExecutorRow
  <2>3. Knows(x)'
    BY <1>1, <2>1, <2>2 DEF Knows
  <2> QED BY <1>2, <2>2, <2>3
<1>6. ASSUME NEW x \in Executors, Checkpoint(x)
      PROVE  \A y \in Executors : Knows(y)'
  <2>1. PICK i, r : /\ i = Trial(ex[x].results) /\ r = ex[x].answer
                    /\ receipts' = [receipts EXCEPT ![i] = r]
                    /\ \/ ex' = [ex EXCEPT ![x].results[i] = r, ![x].answer = None]
                       \/ ex' = [ex EXCEPT ![x] = Failed(x)]
    BY <1>6 DEF Checkpoint
  <2>2. \A y \in Executors \ {x} : ex'[y] = ex[y]
    BY <2>1 DEF ExperimentTypeOK
  <2>3. CASE ex' = [ex EXCEPT ![x] = Failed(x)]
    BY <1>2, <2>2, <2>3, FreshKnows DEF Failed, ExperimentTypeOK
  <2>4. CASE ex' = [ex EXCEPT ![x].results[i] = r, ![x].answer = None]
    <3>1. ex[x] \in ExecutorRow /\ receipts \in Receipts /\ ex[x].results \in Receipts
      BY DEF ExperimentTypeOK, ExecutorRow
    <3>2. /\ ex'[x].results = [ex[x].results EXCEPT ![i] = r] /\ ex'[x].answer = None
          /\ ex'[x].pc = "run"
      BY <1>6, <2>4, <3>1 DEF ExperimentTypeOK, ExecutorRow, Checkpoint
    <3>3. \A j \in Trials : ex'[x].results[j] # None => ex'[x].results[j] = receipts'[j]
      BY <2>1, <3>1, <3>2 DEF Receipts, Knows
    <3>4. Knows(x)'
      BY <3>2, <3>3 DEF Knows
    <3> QED BY <1>2, <2>2, <3>4
  <2> QED BY <2>1, <2>3, <2>4
<1>7. ASSUME NEW x \in Executors, Report(x)
      PROVE  \A y \in Executors : Knows(y)'
  <2>1. /\ ex'[x].results = ex[x].results /\ ex'[x].answer = ex[x].answer
        /\ ex'[x].verdict = Adjudicate(RecoveredSlots(ex[x].results))
        /\ receipts' = receipts /\ Pending(ex[x].results) = {}
        /\ \A y \in Executors \ {x} : ex'[y] = ex[y]
    BY <1>7 DEF Report, ExperimentTypeOK, ExecutorRow
  <2>2. AllAnswered(ex[x].results)
    BY <2>1 DEF AllAnswered, Pending
  <2>3. Knows(x)'
    BY <1>1, <2>1, <2>2 DEF Knows
  <2> QED BY <1>2, <2>1, <2>3
<1>8. ASSUME NEW x \in Executors, PostCell(x)
      PROVE  \A y \in Executors : Knows(y)'
  <2>1. CASE ex' = [ex EXCEPT ![x] = Failed(x)]
    BY <1>2, <2>1, FreshKnows DEF Failed, ExperimentTypeOK
  <2>2. CASE ex' = [ex EXCEPT ![x].posted = @ + 1]
    <3>1. /\ ex'[x].pc = ex[x].pc /\ ex'[x].results = ex[x].results
          /\ ex'[x].answer = ex[x].answer /\ ex'[x].verdict = ex[x].verdict
          /\ \A y \in Executors \ {x} : ex'[y] = ex[y]
      BY <2>2 DEF ExperimentTypeOK, ExecutorRow
    <3>2. Knows(x)'
      BY <1>1, <1>8, <3>1 DEF Knows, PostCell
    <3> QED BY <1>2, <3>1, <3>2
  <2> QED BY <1>8, <2>1, <2>2 DEF PostCell
<1>9. ASSUME NEW x \in Executors, FirstBeat(x) \/ BeatFails(x)
      PROVE  \A y \in Executors : Knows(y)'
  <2>1. /\ ex'[x].results = ex[x].results /\ ex'[x].answer = ex[x].answer
        /\ ex'[x].verdict = ex[x].verdict /\ (ex'[x].pc = ex[x].pc \/ ex'[x].pc = "run")
        /\ \A y \in Executors \ {x} : ex'[y] = ex[y]
        /\ receipts' = receipts
    BY <1>9 DEF FirstBeat, BeatFails, ExperimentTypeOK, ExecutorRow
  <2>2. Knows(x)'
    BY <1>1, <2>1 DEF Knows
  <2> QED BY <1>2, <2>1, <2>2
<1>10. CASE UNCHANGED ex
  BY <1>2, <1>10
<1> QED BY <1>3, <1>4, <1>5, <1>6, <1>7, <1>8, <1>9, <1>10 DEF ExperimentNext, Work, experimentVars,
        Declare, RunnerLost, Restart

\* A report that is to be posted holds exactly the receipts.
LEMMA ReportHoldsReceipts ==
  ASSUME ExperimentTypeOK, NEW x \in Executors, Knows(x), ex[x].pc = "cells"
  PROVE  ex[x].results = receipts /\ AllAnswered(receipts)
<1>1. \A i \in Trials : ex[x].results[i] = receipts[i] /\ receipts[i] # None
  BY DEF Knows, AllAnswered
<1>2. ex[x].results \in Receipts /\ receipts \in Receipts
  BY DEF ExperimentTypeOK, ExecutorRow
<1> QED BY <1>1, <1>2 DEF Receipts, AllAnswered

LEMMA CellsStep ==
  ASSUME ExperimentInv, [ExperimentNext]_experimentVars
  PROVE  CellsRest'
<1> USE DEF ExperimentInv
<1>1. ReceiptsGrow
  BY ReceiptsStay
<1>2. CASE cells' = cells
  BY <1>1, <1>2, CellsStay
<1>3. ASSUME NEW x \in Executors, PostCell(x)
      PROVE  CellsRest'
  <2>1. PICK arm, count :
          /\ CellAccepted(x, arm, count) /\ cells' = [cells EXCEPT ![arm] = count]
    BY <1>3 DEF PostCell
  <2>2. /\ \A i \in Trials : Order[i][1] = arm => receipts[i] # None
        /\ count = RecoveredIn(RecoveredSlots(receipts), arm, Affected)
    BY <2>1 DEF CellAccepted
  <2>3. receipts' = receipts
    BY <1>3 DEF PostCell
  <2> QED BY <2>1, <2>2, <2>3 DEF CellsRest, ExperimentTypeOK
<1> QED BY <1>2, <1>3 DEF ExperimentNext, Work, experimentVars, Execute, Declare, Die,
        RunnerLost, Restart, ReadReceipts, FirstBeat, BeatFails, Evaluate, Checkpoint, Report, PostVerdict, Fail, Cancel

LEMMA VerdictStep ==
  ASSUME ExperimentInv, [ExperimentNext]_experimentVars
  PROVE  VerdictRests'
<1> USE DEF ExperimentInv
<1>1. ReceiptsGrow /\ receipts \in Receipts /\ receipts' \in Receipts
  BY ReceiptsStay, ExperimentTypes DEF ExperimentTypeOK
<1>2. CASE exp'.verdict = exp.verdict
  BY <1>1, <1>2, VerdictStays
<1>3. ASSUME NEW x \in Executors, PostVerdict(x) \/ Declare(x)
      PROVE  VerdictRests'
  <2>1. PICK results, verdict : VerdictAccepted(x, results, verdict) /\ Record(verdict)
    BY <1>3 DEF PostVerdict, Declare
  <2>2. exp'.verdict = verdict
    BY <2>1 DEF Record, ExperimentTypeOK, ExperimentRow
  <2>3. verdict = RecomputedVerdict(RecoveredSlots(receipts))
    BY <2>1 DEF VerdictAccepted
  <2>4. AllAnswered(receipts)
    BY <1>3, ReportHoldsReceipts DEF PostVerdict, Declare
  <2>5. receipts' = receipts
    BY <1>3 DEF PostVerdict, Declare
  <2> QED BY <2>2, <2>3, <2>4, <2>5 DEF VerdictRests
<1>4. ASSUME NEW x \in Executors, Cancel(x)
      PROVE  VerdictRests'
  <2>1. exp'.verdict = exp.verdict
    BY <1>4 DEF Cancel, ExperimentTypeOK, ExperimentRow
  <2> QED BY <1>2, <2>1
<1>5. CASE RunnerLost \/ Restart
  <2>1. exp'.verdict = exp.verdict
    BY <1>5 DEF RunnerLost, Restart, ExperimentTypeOK, ExperimentRow
  <2> QED BY <1>2, <2>1
<1>6. CASE UNCHANGED exp
  BY <1>2, <1>6
<1> QED BY <1>3, <1>4, <1>5, <1>6 DEF ExperimentNext, Work, experimentVars, Execute, Die,
        ReadReceipts, FirstBeat, BeatFails, Evaluate, Checkpoint, Report, PostCell, Fail

LEMMA OutcomesStep ==
  ASSUME ExperimentInv, [ExperimentNext]_experimentVars
  PROVE  ReceiptsAreOutcomes'
<1> USE DEF ExperimentInv
<1>1. world' = world
  BY DEF ExperimentNext, experimentVars, Execute, Work, Declare, Die, RunnerLost,
     Restart, ReadReceipts, FirstBeat, BeatFails, Evaluate, Checkpoint, Report, PostCell, PostVerdict, Fail, Cancel
<1>2. ASSUME NEW x \in Executors, Checkpoint(x)
      PROVE  ReceiptsAreOutcomes'
  <2>1. PICK i, r : /\ i = Trial(ex[x].results) /\ r = ex[x].answer /\ r # None
                    /\ receipts' = [receipts EXCEPT ![i] = r]
    BY <1>2 DEF Checkpoint
  <2>2. r.recovered \in Outcomes(world, Order[i])
    BY <2>1 DEF Knows
  <2>3. \A j \in Trials : receipts'[j] = IF j = i THEN r ELSE receipts[j]
    BY <2>1 DEF ExperimentTypeOK, Receipts
  <2> QED BY <1>1, <2>2, <2>3 DEF ReceiptsAreOutcomes
<1>3. CASE UNCHANGED receipts
  BY <1>1, <1>3 DEF ReceiptsAreOutcomes
<1> QED BY <1>2, <1>3 DEF ExperimentNext, Work, experimentVars, Execute, Declare, Die,
        RunnerLost, Restart, ReadReceipts, FirstBeat, BeatFails, Evaluate, Report, PostCell, PostVerdict, Fail, Cancel

LEMMA ExperimentInvariant ==
  ExperimentSpec => []ExperimentInv
<1>1. ASSUME ExperimentInit
      PROVE  ExperimentInv
  <2>1. ExperimentTypeOK
    BY <1>1, ExperimentInitType
  <2>2. \A x \in Executors : Knows(x)
    BY <1>1 DEF ExperimentInit, Executor, NoResults, Knows
  <2> QED BY <1>1, <2>1, <2>2 DEF ExperimentInit, ExperimentInv, CellsRest, VerdictRests,
             ReceiptsAreOutcomes, NoResults
<1>2. ASSUME ExperimentInv, [ExperimentNext]_experimentVars
      PROVE  ExperimentInv'
  <2>1. ExperimentTypeOK'
    BY <1>2, ExperimentTypes DEF ExperimentInv
  <2> QED BY <1>2, <2>1, KnowsStep, CellsStep, VerdictStep, OutcomesStep DEF ExperimentInv
<1> QED BY <1>1, <1>2, PTL DEF ExperimentSpec

\* Worlds, receipts, recorded cells and verdicts and executors stay well typed.
THEOREM ExperimentTypeCorrect ==
  ExperimentSpec => []ExperimentTypeOK
<1>1. ExperimentInv => ExperimentTypeOK
  BY DEF ExperimentInv
<1> QED BY <1>1, ExperimentInvariant, PTL

\* The report of a finished execution is one the controller accepts, whichever
\* servers obtained its receipts and however often they were stopped.
THEOREM BundlesAreAcceptable ==
  ExperimentSpec => []BundleIsAcceptable
<1>1. ASSUME ExperimentInv
      PROVE  BundleIsAcceptable
  <2> SUFFICES ASSUME NEW x \in Executors, ex[x].pc = "cells"
               PROVE  /\ ex[x].results = receipts
                      /\ ex[x].verdict = RecomputedVerdict(RecoveredSlots(receipts))
                      /\ \A arm \in Arms :
                           cells[arm] \in {None, RecoveredIn(RecoveredSlots(receipts), arm, Affected)}
    BY DEF BundleIsAcceptable
  <2>1. ex[x].results = receipts
    BY <1>1, ReportHoldsReceipts DEF ExperimentInv
  <2>2. ex[x].verdict = Adjudicate(RecoveredSlots(receipts))
    BY <1>1, <2>1 DEF ExperimentInv, Knows
  <2>3. ex[x].verdict = RecomputedVerdict(RecoveredSlots(receipts))
    BY <2>2, SameAdjudication
  <2>4. \A arm \in Arms :
          cells[arm] \in {None, RecoveredIn(RecoveredSlots(receipts), arm, Affected)}
    BY <1>1 DEF ExperimentInv, CellsRest
  <2> QED BY <2>1, <2>3, <2>4
<1> QED BY <1>1, ExperimentInvariant, PTL

-----------------------------------------------------------------------------
(* The experiment: what the verdict says of the version under test *)

\* Without flaky trials, what a version set recovers is decided beforehand.
Recovered(w) == {s \in Slots : Recovers(w, s)}

\* The cells of an arm are repaired: no fault that counts is left in them.
Repaired(w, arm) ==
  \/ w.mode = "any" /\ w.faults \subseteq Restored(arm)
  \/ w.mode = "all" /\ w.faults \cap Restored(arm) # {}

LEMMA OneRun ==
  ASSUME AllAnswered(receipts), ReceiptsAreOutcomes, world.flaky = {}
  PROVE  RecoveredSlots(receipts) = Recovered(world)
<1>1. \A i \in Trials : Order[i] \in Slots
  BY SlotOfTrial
<1>2. \A i \in Trials : receipts[i] # None /\ receipts[i].recovered = Recovers(world, Order[i])
  BY DEF AllAnswered, ReceiptsAreOutcomes, Outcomes
<1>3. \A s \in Slots : \E i \in Trials : Order[i] = s
  BY OrderAssumption
<1>4. ASSUME NEW s
      PROVE  s \in RecoveredSlots(receipts) <=> s \in Recovered(world)
  BY <1>1, <1>2, <1>3 DEF RecoveredSlots, Recovered
<1> QED BY <1>4

LEMMA WorldFields ==
  ASSUME NEW w \in Worlds
  PROVE  /\ w.faults \subseteq Layers \cup {"outside"} /\ w.mode \in {"any", "all"}
         /\ w.hidden \in BOOLEAN /\ w.broken \subseteq Arms
BY WorldsAssumption

LEMMA AffectedRecovers ==
  ASSUME NEW w \in Worlds, NEW arm \in Arms, NEW p \in Affected
  PROVE  <<arm, p>> \in Recovered(w) <=> (p \in Hidden /\ ~w.hidden) \/ Repaired(w, arm)
<1>1. p \notin Controls /\ <<arm, p>> \in Slots
  BY GroupsAssumption DEF Slots
<1> QED BY <1>1 DEF Recovered, Recovers, Repaired

LEMMA ControlsShowBreakage ==
  ASSUME NEW w \in Worlds
  PROVE  ControlsPass(Recovered(w)) <=> w.broken = {}
<1>1. \A arm \in Arms, p \in Controls : <<arm, p>> \in Recovered(w) <=> arm \notin w.broken
  BY DEF Recovered, Recovers, Slots
<1>2. Controls # {} /\ w.broken \subseteq Arms
  BY GroupsAssumption, WorldFields
<1> QED BY <1>1, <1>2 DEF ControlsPass

LEMMA EqualCounts ==
  /\ Cardinality(Affected) \in Nat /\ Cardinality(Hidden) \in 0..Cardinality(Affected)
  /\ Cardinality({}) = 0
<1>1. IsFiniteSet(Affected) /\ Hidden \subseteq Affected
  BY GroupsAssumption DEF Affected
<1> QED BY <1>1, FS_CardinalityType, FS_Subset, FS_EmptySet

\* Where the hidden probes fail too, an arm recovers all its probes or none.
LEMMA AllOrNothing ==
  ASSUME NEW w \in Worlds, w.hidden, NEW arm \in Arms,
         NEW probes \in {Affected, Hidden}
  PROVE  RecoveredIn(Recovered(w), arm, probes)
           = IF Repaired(w, arm) THEN Cardinality(probes) ELSE 0
<1>1. probes \subseteq Affected
  BY DEF Affected
<1>2. \A p \in probes : <<arm, p>> \in Recovered(w) <=> Repaired(w, arm)
  BY <1>1, AffectedRecovers
<1>3. CASE Repaired(w, arm)
  <2>1. {p \in probes : <<arm, p>> \in Recovered(w)} = probes
    BY <1>2, <1>3
  <2> QED BY <1>3, <2>1 DEF RecoveredIn
<1>4. CASE ~Repaired(w, arm)
  <2>1. {p \in probes : <<arm, p>> \in Recovered(w)} = {}
    BY <1>2, <1>4
  <2> QED BY <1>4, <2>1, EqualCounts DEF RecoveredIn
<1> QED BY <1>3, <1>4

\* Where they do not, no arm stands out on them.
LEMMA HiddenProbesPass ==
  ASSUME NEW w \in Worlds, ~w.hidden, NEW arm \in Arms
  PROVE  ~ReproducedArm(Recovered(w), arm)
<1>1. "C" \in Arms /\ Hidden \subseteq Affected
  BY DEF Arms, Affected
<1>2. \A a \in Arms, p \in Hidden : <<a, p>> \in Recovered(w)
  BY <1>1, AffectedRecovers
<1>3. \A a \in Arms : {p \in Hidden : <<a, p>> \in Recovered(w)} = Hidden
  BY <1>2
<1>4. \A a \in Arms : RecoveredIn(Recovered(w), a, Hidden) = Cardinality(Hidden)
  BY <1>3 DEF RecoveredIn
<1> QED BY <1>1, <1>4, EqualCounts, SignificanceAssumption DEF ReproducedArm

LEMMA NothingIsRestored ==
  ASSUME NEW w \in Worlds, Repaired(w, "C"), NEW arm \in Arms
  PROVE  Repaired(w, arm)
<1>1. Restored("C") = {}
  BY DEF Restored
<1>2. w.mode = "any" /\ w.faults = {}
  BY <1>1 DEF Repaired
<1> QED BY <1>2 DEF Repaired

\* An arm stands out when it is repaired and the version under test is not.
LEMMA StandsOut ==
  ASSUME NEW w \in Worlds, w.hidden, NEW arm \in Arms
  PROVE  /\ SignificantArm(Recovered(w), arm) => Repaired(w, arm) /\ ~Repaired(w, "C")
         /\ EnoughProbes /\ Repaired(w, arm) /\ ~Repaired(w, "C") =>
              SignificantArm(Recovered(w), arm) /\ ReproducedArm(Recovered(w), arm)
<1>1. "C" \in Arms
  BY DEF Arms
<1>2. /\ \A n \in 0..Cardinality(Affected) : <<n, n>> \notin Significant
      /\ Cardinality(Affected) \in 0..Cardinality(Affected) /\ 0 \in 0..Cardinality(Affected)
  BY EqualCounts, SignificanceAssumption
<1>3. \A a \in {arm, "C"} :
        RecoveredIn(Recovered(w), a, Affected)
          = IF Repaired(w, a) THEN Cardinality(Affected) ELSE 0
  BY <1>1, AllOrNothing
<1>4. \A a \in {arm, "C"} :
        RecoveredIn(Recovered(w), a, Hidden)
          = IF Repaired(w, a) THEN Cardinality(Hidden) ELSE 0
  BY <1>1, AllOrNothing
<1>5. Repaired(w, "C") => Repaired(w, arm)
  BY NothingIsRestored
<1> QED BY <1>2, <1>3, <1>4, <1>5 DEF SignificantArm, ReproducedArm, EnoughProbes

\* All repaired arms stand out or none does.
LEMMA RepairedAlike ==
  ASSUME NEW w \in Worlds, w.hidden, NEW arm \in Arms, NEW other \in Arms,
         SignificantArm(Recovered(w), arm), Repaired(w, other)
  PROVE  SignificantArm(Recovered(w), other)
<1>1. RecoveredIn(Recovered(w), arm, Affected) = RecoveredIn(Recovered(w), other, Affected)
  BY AllOrNothing, StandsOut
<1> QED BY <1>1 DEF SignificantArm

\* The arms tell the culprit: it is the layer of the one arm that is repaired.
RepairedAlone(w, arm) == \A a \in SingleArms : Repaired(w, a) <=> a = arm

LEMMA CulpritIsRepaired ==
  ASSUME NEW w \in Worlds, NEW l \in Layers
  PROVE  Culprit(w, l) <=>
           /\ ~Repaired(w, "C")
           /\ \E arm \in SingleArms : LayerOf(arm) = l /\ RepairedAlone(w, arm)
<1>1. /\ Restored("C") = {} /\ Layers = {"prompt", "kb", "model_params"}
      /\ w.faults \subseteq Layers \cup {"outside"} /\ w.mode \in {"any", "all"}
  BY WorldFields DEF Restored, Layers
<1>2. /\ \A arm \in SingleArms : Restored(arm) = {LayerOf(arm)}
      /\ \A arm \in SingleArms, b \in SingleArms : LayerOf(arm) = LayerOf(b) => arm = b
      /\ \A k \in Layers : \E arm \in SingleArms : LayerOf(arm) = k
  <2>1. Restored("RP") = {"prompt"} /\ Restored("RK") = {"kb"} /\ Restored("RM") = {"model_params"}
    BY DEF Restored
  <2>2. LayerOf("RP") = "prompt" /\ LayerOf("RK") = "kb" /\ LayerOf("RM") = "model_params"
    BY <2>1, LayerOfArm DEF SingleArms
  <2> QED BY <2>1, <2>2, <1>1 DEF SingleArms
<1>3. \A arm \in SingleArms :
        Repaired(w, arm) <=> \/ w.mode = "any" /\ w.faults \subseteq {LayerOf(arm)}
                             \/ w.mode = "all" /\ LayerOf(arm) \in w.faults
  BY <1>2 DEF Repaired
<1>4. Repaired(w, "C") <=> w.mode = "any" /\ w.faults = {}
  BY <1>1 DEF Repaired
<1>5. ASSUME Culprit(w, l)
      PROVE  /\ ~Repaired(w, "C")
             /\ \E arm \in SingleArms : LayerOf(arm) = l /\ RepairedAlone(w, arm)
  <2>1. PICK arm \in SingleArms : LayerOf(arm) = l
    BY <1>2
  <2>2. l \in w.faults /\ \A k \in Layers : k \in w.faults => k = l
    BY <1>1, <1>5 DEF Culprit
  <2>3. w.mode = "any" => w.faults = {l}
    BY <1>5 DEF Culprit
  <2>4. \A a \in SingleArms : Repaired(w, a) <=> LayerOf(a) = l
    BY <1>1, <1>3, <2>2, <2>3, LayerOfArm
  <2> QED BY <1>2, <1>4, <2>1, <2>2, <2>4 DEF RepairedAlone
<1>6. ASSUME ~Repaired(w, "C"), NEW arm \in SingleArms, LayerOf(arm) = l, RepairedAlone(w, arm)
      PROVE  Culprit(w, l)
  <2>1. Repaired(w, arm) /\ \A a \in SingleArms : Repaired(w, a) => a = arm
    BY <1>6 DEF RepairedAlone
  <2>2. CASE w.mode = "any"
    BY <1>3, <1>4, <1>6, <2>1, <2>2 DEF Culprit
  <2>3. CASE w.mode = "all"
    <3>1. l \in w.faults
      BY <1>3, <1>6, <2>1, <2>3
    <3>2. \A k \in Layers : k \in w.faults => k = l
      BY <1>2, <1>3, <1>6, <2>1, <2>3
    <3> QED BY <1>1, <2>3, <3>1, <3>2 DEF Culprit
  <2> QED BY <1>1, <2>2, <2>3
<1> QED BY <1>5, <1>6

LEMMA AttributedArm ==
  ASSUME NEW S, NEW l
  PROVE  RecomputedVerdict(S) = Verdict("ATTRIBUTED", l) <=>
           /\ ControlsPass(S) /\ SignificantArm(S, "G")
           /\ \E arm \in SingleArms :
                /\ LayerOf(arm) = l /\ ReproducedArm(S, arm)
                /\ \A a \in SingleArms : SignificantArm(S, a) <=> a = arm
<1> DEFINE significant == {arm \in SingleArms : SignificantArm(S, arm)}
           only == CHOOSE arm \in significant : TRUE
<1>1. /\ Verdict("INCONCLUSIVE", None) # Verdict("ATTRIBUTED", l)
      /\ Verdict("CONFOUNDED", None) # Verdict("ATTRIBUTED", l)
      /\ \A k : Verdict("ATTRIBUTED", k) = Verdict("ATTRIBUTED", l) <=> k = l
  BY DEF Verdict
<1>2. RecomputedVerdict(S) =
        IF ~ControlsPass(S) \/ ~SignificantArm(S, "G") THEN Verdict("INCONCLUSIVE", None)
        ELSE IF Cardinality(significant) # 1 THEN Verdict("CONFOUNDED", None)
        ELSE IF ReproducedArm(S, only) THEN Verdict("ATTRIBUTED", LayerOf(only))
        ELSE Verdict("INCONCLUSIVE", None)
  BY DEF RecomputedVerdict
<1>3. RecomputedVerdict(S) = Verdict("ATTRIBUTED", l) <=>
        /\ ControlsPass(S) /\ SignificantArm(S, "G") /\ Cardinality(significant) = 1
        /\ ReproducedArm(S, only) /\ LayerOf(only) = l
  BY <1>1, <1>2
<1>4. IsFiniteSet(significant)
  <2>1. IsFiniteSet({"RP"})
    BY FS_Singleton
  <2>2. IsFiniteSet({"RP"} \cup {"RK"})
    BY <2>1, FS_AddElement
  <2>3. IsFiniteSet(({"RP"} \cup {"RK"}) \cup {"RM"})
    BY <2>2, FS_AddElement
  <2>4. significant \subseteq ({"RP"} \cup {"RK"}) \cup {"RM"}
    BY DEF SingleArms
  <2> QED BY <2>3, <2>4, FS_Subset
<1>5. Cardinality(significant) = 1 <=> \E arm : significant = {arm}
  BY <1>4, FS_Singleton
<1>6. ASSUME Cardinality(significant) = 1
      PROVE  only \in SingleArms /\ \A a \in SingleArms : SignificantArm(S, a) <=> a = only
  BY <1>5, <1>6
<1>7. ASSUME NEW arm \in SingleArms, \A a \in SingleArms : SignificantArm(S, a) <=> a = arm
      PROVE  Cardinality(significant) = 1 /\ only = arm
  <2>1. significant = {arm}
    BY <1>7
  <2> QED BY <1>5, <2>1
<1> HIDE DEF significant, only
<1> QED BY <1>3, <1>6, <1>7

LEMMA SingleArmsAreArms ==
  SingleArms \subseteq Arms /\ "G" \in Arms /\ "C" \in Arms
BY DEF SingleArms, Arms

LEMMA BaselineIsRepaired ==
  ASSUME NEW w \in Worlds, NEW arm \in SingleArms, Repaired(w, arm)
  PROVE  Repaired(w, "G")
<1>1. Restored("G") = Layers
  BY DEF Restored
<1>2. Restored(arm) \subseteq Layers
  BY LayerOfArm
<1> QED BY <1>1, <1>2 DEF Repaired

LEMMA NamedIsCulprit ==
  ASSUME NEW w \in Worlds, NEW l \in Layers,
         RecomputedVerdict(Recovered(w)) = Verdict("ATTRIBUTED", l)
  PROVE  Culprit(w, l) /\ w.hidden /\ w.broken = {}
<1>1. PICK arm \in SingleArms :
        /\ LayerOf(arm) = l /\ ReproducedArm(Recovered(w), arm)
        /\ \A a \in SingleArms : SignificantArm(Recovered(w), a) <=> a = arm
  BY AttributedArm
<1>2. w.hidden /\ w.broken = {}
  BY <1>1, AttributedArm, ControlsShowBreakage, HiddenProbesPass, SingleArmsAreArms
<1>3. Repaired(w, arm) /\ ~Repaired(w, "C")
  BY <1>1, <1>2, StandsOut, SingleArmsAreArms
<1>4. \A a \in SingleArms : Repaired(w, a) => a = arm
  BY <1>1, <1>2, RepairedAlike, SingleArmsAreArms
<1>5. RepairedAlone(w, arm)
  BY <1>3, <1>4 DEF RepairedAlone
<1>6. Culprit(w, l)
  BY <1>1, <1>3, <1>5, CulpritIsRepaired
<1> QED BY <1>2, <1>6

LEMMA CulpritIsNamed ==
  ASSUME EnoughProbes, NEW w \in Worlds, NEW l \in Layers,
         Culprit(w, l), w.hidden, w.broken = {}
  PROVE  RecomputedVerdict(Recovered(w)) = Verdict("ATTRIBUTED", l)
<1>1. ~Repaired(w, "C")
  BY CulpritIsRepaired
<1>2. PICK arm \in SingleArms : LayerOf(arm) = l /\ RepairedAlone(w, arm)
  BY CulpritIsRepaired
<1>3. Repaired(w, arm)
  BY <1>2 DEF RepairedAlone
<1>4. SignificantArm(Recovered(w), arm) /\ ReproducedArm(Recovered(w), arm)
  BY <1>1, <1>3, StandsOut, SingleArmsAreArms
<1>5. SignificantArm(Recovered(w), "G")
  BY <1>1, <1>3, BaselineIsRepaired, StandsOut, SingleArmsAreArms
<1>6. \A a \in SingleArms : SignificantArm(Recovered(w), a) <=> a = arm
  <2>1. \A a \in SingleArms : SignificantArm(Recovered(w), a) => Repaired(w, a)
    BY StandsOut, SingleArmsAreArms
  <2> QED BY <1>2, <1>4, <2>1 DEF RepairedAlone
<1>7. ControlsPass(Recovered(w))
  BY ControlsShowBreakage
<1> QED BY <1>2, <1>4, <1>5, <1>6, <1>7, AttributedArm

LEMMA VerdictOfWorld ==
  ASSUME ExperimentInv, exp.verdict # None, world.flaky = {}
  PROVE  world \in Worlds /\ exp.verdict = RecomputedVerdict(Recovered(world))
<1>1. RecoveredSlots(receipts) = Recovered(world)
  BY OneRun DEF ExperimentInv, VerdictRests
<1> QED BY <1>1 DEF ExperimentInv, VerdictRests, ExperimentTypeOK

\* However few probes there are and whatever counts as significant beyond equal
\* counts, no layer is ever named but the culprit.
OnlyTheCulprit ==
  (exp.verdict # None /\ world.flaky = {}) =>
    \A l \in Layers : exp.verdict = Verdict("ATTRIBUTED", l) => Culprit(world, l)

THEOREM OnlyCulpritsAreNamed ==
  ExperimentSpec => []OnlyTheCulprit
<1>1. ExperimentInv => OnlyTheCulprit
  BY VerdictOfWorld, NamedIsCulprit DEF OnlyTheCulprit
<1> QED BY <1>1, ExperimentInvariant, PTL

\* With enough probes it is named whenever the hidden ones show it and the
\* controls hold.
THEOREM VerdictsAreTrue ==
  ASSUME EnoughProbes
  PROVE  ExperimentSpec => []VerdictIsTrue
<1>1. ExperimentInv => VerdictIsTrue
  BY VerdictOfWorld, NamedIsCulprit, CulpritIsNamed DEF VerdictIsTrue
<1> QED BY <1>1, ExperimentInvariant, PTL
=============================================================================
