----------------------------- MODULE GateReport -----------------------------
(***************************************************************************)
(* The evaluation gate.  The evaluator (mcp-servers/servers/eval_runner.py *)
(* with eval-harness) runs the contract and replay suites, asks the target *)
(* version every frozen probe, has a judge model score every answer, keeps *)
(* what happened as artifacts and builds a report.  The gate controller    *)
(* (control-plane/app/services/gate_service.py) registers a report only if *)
(* its conclusion follows from its tracks and, when it says "passed", if   *)
(* the artifacts, judged once more, say so too.                            *)
(*                                                                         *)
(* Whoever holds the gate's token may post a report (Claim), and all of it  *)
(* is the poster's word: what the suites did, what the judge replied, the   *)
(* threshold of the scores.  Only the answers are looked up elsewhere, in   *)
(* the log Quality keeps of what the target answered.                       *)
(***************************************************************************)
EXTENDS FiniteSets, Integers, Absence

CONSTANTS
  Probes,      \* the frozen probe set
  JsonProbes,  \* those whose answer must be JSON
  Evals,       \* evaluation ids
  Executions,  \* what running a suite may do
  MaxRevision, \* bound: the target's revision
  Asked,       \* bound: the probes somebody else asks the target
  Claimed,     \* bound: the evaluations somebody else posts a report of
  Raised       \* a judge call that ended in an exception

ASSUME JsonProbesAssumption == JsonProbes \subseteq Probes
ASSUME ExecutionsAssumption ==
  Executions \subseteq [code : {0, 1}, passed : {0, 1}, failed : {0, 1}, timed_out : BOOLEAN]
ASSUME BoundsAssumption ==
  MaxRevision \in Nat \ {0} /\ Asked \subseteq Probes /\ Claimed \subseteq Evals

VARIABLES
  target,  \* the revision of the target version on Quality
  logged,  \* the probes the target answered rightly through the official
           \* provider, as Quality's log of its calls tells
  run,     \* run[e] : the evaluator's evaluation e
  gate     \* gate[e] : what the controller registered for e, for whom, and the
           \* revision the report named and the target then had

vars == <<target, logged, run, gate>>

Kinds    == {"contract", "replay"}
Statuses == {"passed", "failed", "error"}

\* An answer is right or wrong by the probe's rules, or right but not from the
\* official provider.
Answers == {"right", "wrong", "foreign"}

\* A judge's reply: whether it could be parsed, its verdict, and whether its
\* score reaches the threshold.  An unparseable reply counts as a failing zero.
Verdicts == [parsed : {TRUE}, pass : BOOLEAN, high : BOOLEAN]
              \cup {[parsed |-> FALSE, pass |-> FALSE, high |-> FALSE]}

ASSUME NoneAssumption == {None, Raised} \cap (Executions \cup Answers \cup Verdicts) = {}

Bound == 1  \* the revision the work order is bound to

Idle == [pc |-> "idle", suite |-> [k \in Kinds |-> None], answer |-> [p \in Probes |-> None],
         judge |-> None, verdict |-> [p \in Probes |-> None], report |-> None, status |-> None]

Init ==
  /\ target = Bound
  /\ logged = {}
  /\ run = [e \in Evals |-> Idle]
  /\ gate = [e \in Evals |-> None]

-----------------------------------------------------------------------------
(* Suites *)

SuiteStatus(x) ==
  IF x.timed_out THEN "error"
  ELSE IF x.code = 0 /\ x.passed > 0 /\ x.failed = 0 THEN "passed"
  ELSE IF x.code # 0 /\ x.failed > 0 THEN "failed" ELSE "error"

\* What the executor declares of an execution: an error counts as one failure.
Summary(x) ==
  [status |-> SuiteStatus(x), passed |-> x.passed,
   failed |-> IF SuiteStatus(x) = "error" /\ x.failed = 0 THEN 1 ELSE x.failed]

\* What the controller makes of the same execution's artifact.
Recomputed(x) ==
  IF x.timed_out THEN [status |-> "error", passed |-> x.passed, failed |-> 1]
  ELSE IF x.code = 0 /\ x.passed > 0 /\ x.failed = 0
    THEN [status |-> "passed", passed |-> x.passed, failed |-> x.failed]
    ELSE [status |-> IF x.code # 0 /\ x.failed > 0 THEN "failed" ELSE "error",
          passed |-> x.passed, failed |-> 1]

-----------------------------------------------------------------------------
(* The tracks *)

RuleFailures(r) ==
  {c \in {"rule-probe-all-pass", "rule-json-format", "rule-schema-compliance"} :
     \E p \in Probes :
       \/ c = "rule-probe-all-pass" /\ r.answer[p] = "wrong"
       \/ c = "rule-json-format" /\ p \in JsonProbes /\ r.answer[p] = "wrong"
       \/ c = "rule-schema-compliance" /\ r.answer[p] = "foreign"}

Convincing(v) == v.pass /\ v.high

JudgeStatus(r) ==
  IF r.judge # "distinct" \/ \E p \in Probes : r.verdict[p] \in {None, Raised} THEN "error"
  ELSE IF \A p \in Probes : Convincing(r.verdict[p]) THEN "passed" ELSE "failed"

SuitesStatus(suites) ==
  IF \E k \in Kinds : suites[k].status = "error" THEN "error"
  ELSE IF \E k \in Kinds : suites[k].status = "failed" THEN "failed" ELSE "passed"

LiveStatus(r) == IF \E p \in Probes : r.answer[p] = "wrong" THEN "failed" ELSE "passed"

\* Mutant: a failed track outweighs one that could not be run.
OverallFailedFirst(tracks) ==
  IF "failed" \in tracks THEN "failed" ELSE IF "error" \in tracks THEN "error" ELSE "passed"

Overall(tracks) ==
  IF "error" \in tracks THEN "error" ELSE IF "failed" \in tracks THEN "failed" ELSE "passed"

\* The conclusions, the artifacts (ran, answers, judged), the revision of the
\* target, and whether the threshold is the configured one.
RunReport(r) ==
  LET suites == [k \in Kinds |-> Summary(r.suite[k])]
      rule   == IF RuleFailures(r) = {} THEN "passed" ELSE "failed"
  IN [rule |-> rule, checks |-> RuleFailures(r), judge |-> JudgeStatus(r), scores |-> r.verdict,
      suites |-> suites, det |-> SuitesStatus(suites), live |-> LiveStatus(r),
      overall |-> Overall({rule, JudgeStatus(r), SuitesStatus(suites), LiveStatus(r)}),
      refs |-> Kinds \cup {"candidate"}, revision |-> Bound, strict |-> TRUE,
      ran |-> r.suite, answers |-> r.answer, judged |-> r.verdict]

\* What is left of an evaluation that raised: every track is in error and the
\* only artifact, which every suite refers to, is the exception.
ErrorReport ==
  [rule |-> "error", checks |-> {"gate-executor-error"}, judge |-> "error",
   scores |-> [p \in Probes |-> None],
   suites |-> [k \in Kinds |-> [status |-> "error", passed |-> 0, failed |-> 1]],
   det |-> "error", live |-> "error", overall |-> "error", refs |-> {"exception"},
   revision |-> Bound, strict |-> TRUE, ran |-> [k \in Kinds |-> None],
   answers |-> [p \in Probes |-> None], judged |-> [p \in Probes |-> None]]

-----------------------------------------------------------------------------
(* The evaluator *)

Begin(e) ==
  /\ run[e].pc = "idle"
  /\ run' = [run EXCEPT ![e].pc = "contract"]
  /\ UNCHANGED <<target, logged, gate>>

RunSuite(e, k) ==
  /\ run[e].pc = k
  /\ \E x \in Executions :
       run' = [run EXCEPT ![e].suite[k] = x,
                          ![e].pc = IF k = "contract" THEN "replay" ELSE "target"]
  /\ UNCHANGED <<target, logged, gate>>

\* The target must still be what the work order is bound to.
ReadTarget(e) ==
  /\ run[e].pc = "target"
  /\ target = Bound
  /\ run' = [run EXCEPT ![e].pc = "probes"]
  /\ UNCHANGED <<target, logged, gate>>

Probe(e, p) ==
  /\ run[e].pc = "probes" /\ run[e].answer[p] = None
  /\ \E a \in Answers :
       /\ run' = [run EXCEPT ![e].answer[p] = a,
                    ![e].pc = IF \A q \in Probes \ {p} : run[e].answer[q] # None THEN "judge" ELSE @]
       /\ logged' = IF a = "right" THEN logged \cup {p} ELSE logged
  /\ UNCHANGED <<target, gate>>

\* No judge may be configured, and it must not be the model it judges.
ChooseJudge(e) ==
  /\ run[e].pc = "judge" /\ run[e].judge = None
  /\ \E j \in {"missing", "athlete", "distinct"} : run' = [run EXCEPT ![e].judge = j]
  /\ UNCHANGED <<target, logged, gate>>

Score(e, p) ==
  /\ run[e].pc = "judge" /\ run[e].judge = "distinct"
  /\ run[e].verdict[p] = None
  /\ \A q \in Probes : run[e].verdict[q] # Raised
  /\ \E v \in Verdicts \cup {Raised} : run' = [run EXCEPT ![e].verdict[p] = v]
  /\ UNCHANGED <<target, logged, gate>>

Judged(r) ==
  \/ r.judge \in {"missing", "athlete"}
  \/ \E p \in Probes : r.verdict[p] = Raised
  \/ \A p \in Probes : r.verdict[p] # None

\* A report without one judge reply for every probe becomes an error report.
Build(e) ==
  LET r == run[e] IN
  /\ r.pc = "judge" /\ r.judge # None /\ Judged(r)
  /\ run' = [run EXCEPT ![e].pc = "store",
               ![e].report = IF r.judge = "distinct" /\ \A p \in Probes : r.verdict[p] # Raised
                               THEN RunReport(r) ELSE ErrorReport]
  /\ UNCHANGED <<target, logged, gate>>

\* The deadline passes, a provider fails, the target moved: any exception.
Raise(e) ==
  /\ run[e].pc \in {"contract", "replay", "target", "probes", "judge"}
  /\ run' = [run EXCEPT ![e].pc = "store", ![e].report = ErrorReport]
  /\ UNCHANGED <<target, logged, gate>>

\* The report is kept as completed before it is registered.
Store(e) ==
  /\ run[e].pc = "store"
  /\ run' = [run EXCEPT ![e].pc = "post", ![e].status = "completed"]
  /\ UNCHANGED <<target, logged, gate>>

\* An artifact too large to travel inline, or a crash: nothing more is kept.
Stop(e) ==
  /\ run[e].pc \notin {"idle", "done"}
  /\ run' = [run EXCEPT ![e].pc = "done"]
  /\ UNCHANGED <<target, logged, gate>>

-----------------------------------------------------------------------------
(* The controller *)

\* The scores are compared with the threshold the report itself names.
Reaches(r, v) == v.pass /\ (r.strict => v.high)

FollowsFromTracks(r) ==
  /\ r.overall = IF "error" \in {r.rule, r.judge, r.det, r.live} THEN "error"
                 ELSE IF "failed" \in {r.rule, r.judge, r.det, r.live} THEN "failed" ELSE "passed"
  /\ r.rule = "passed" => r.checks = {}
  /\ r.judge = "passed" => \A p \in Probes : Reaches(r, r.scores[p])
  /\ r.det = "passed" =>
       \A k \in Kinds : /\ r.suites[k].status = "passed"
                        /\ r.suites[k].failed = 0 /\ r.suites[k].passed > 0

RefersToArtifacts(r) ==
  /\ r.refs # {}
  /\ Kinds \subseteq r.refs \/ "exception" \in r.refs
  /\ r.live \in {"passed", "failed"} => "candidate" \in r.refs

\* What the poster says ran must yield the summaries, and what it says the judge
\* replied must yield the scores.
SuitesAgree(r) ==
  \A k \in Kinds : r.ran[k] # None /\ r.suites[k] = Recomputed(r.ran[k])

ScoresAgree(r) ==
  \A p \in Probes : /\ r.judged[p] \in Verdicts /\ r.judged[p].parsed
                    /\ r.scores[p] = r.judged[p]

\* Mutant: the answers are judged, but not looked up.
AnswersBelieved(r) == \A p \in Probes : r.answers[p] = "right"

AnswersAgree(r) == \A p \in Probes : r.answers[p] = "right" /\ p \in logged

\* A report that says "passed" must be borne out by its artifacts, by the
\* provider's logs and by the target as it is now.
BorneOut(r) ==
  /\ r.refs = Kinds \cup {"candidate"}
  /\ SuitesAgree(r)
  /\ target = r.revision
  /\ AnswersAgree(r)
  /\ ScoresAgree(r)

Acceptable(r) ==
  /\ FollowsFromTracks(r)
  /\ RefersToArtifacts(r)
  /\ r.overall = "passed" => BorneOut(r)

\* Mutant: a low score that passes is not named.
NamedWithoutThreshold(r) ==
  {<<"rule", c>> : c \in r.checks}
    \cup {<<"judge", p>> : p \in {q \in Probes : r.scores[q] # None /\ ~r.scores[q].pass}}
    \cup {<<"suite", k>> : k \in {j \in Kinds : r.suites[j].status # "passed"}}
    \cup {<<"live", x>> : x \in {r.live} \ {"passed"}}

Named(r) ==
  {<<"rule", c>> : c \in r.checks}
    \cup {<<"judge", p>> : p \in {q \in Probes : r.scores[q] # None /\ ~Reaches(r, r.scores[q])}}
    \cup {<<"suite", k>> : k \in {j \in Kinds : r.suites[j].status # "passed"}}
    \cup {<<"live", x>> : x \in {r.live} \ {"passed"}}

\* A second report of the same evaluation changes nothing: it is a duplicate or
\* a conflict.
Registered(e, r, by) ==
  IF gate[e] # None THEN gate
  ELSE [gate EXCEPT ![e] = [overall |-> r.overall, by |-> by, revision |-> r.revision, seen |-> target,
                            failing |-> IF r.overall = "failed" THEN Named(r) ELSE {}]]

\* The evaluator posts its report; the answer may be lost after the commit.
Register(e) ==
  /\ run[e].pc = "post"
  /\ Acceptable(run[e].report)
  /\ gate' = Registered(e, run[e].report, "evaluator")
  /\ \/ run' = [run EXCEPT ![e].pc = "done"]
     \/ run' = [run EXCEPT ![e].pc = "done", ![e].status = "registration_failed"]
  /\ UNCHANGED <<target, logged>>

\* The report is refused, or the controller cannot be reached.
Refused(e) ==
  /\ run[e].pc = "post"
  /\ run' = [run EXCEPT ![e].pc = "done", ![e].status = "registration_failed"]
  /\ UNCHANGED <<target, logged, gate>>

\* A report by somebody else: everything in it passes but perhaps the live track
\* or a low score, and its artifacts were made up to fit.
Forged(live, high, strict, n) ==
  LET score == [parsed |-> TRUE, pass |-> TRUE, high |-> high]
      clean == [code |-> 0, passed |-> 1, failed |-> 0, timed_out |-> FALSE]
  IN [rule |-> "passed", checks |-> {}, judge |-> "passed", scores |-> [p \in Probes |-> score],
      suites |-> [k \in Kinds |-> Summary(clean)], det |-> "passed", live |-> live, overall |-> live,
      refs |-> Kinds \cup {"candidate"}, revision |-> n, strict |-> strict,
      ran |-> [k \in Kinds |-> clean], answers |-> [p \in Probes |-> "right"],
      judged |-> [p \in Probes |-> score]]

Claim(e) ==
  e \in Claimed /\ \E live \in {"passed", "failed"}, high, strict \in BOOLEAN, n \in 1..MaxRevision :
    LET r == Forged(live, high, strict, n) IN
    /\ Acceptable(r)
    /\ gate' = Registered(e, r, "other")
    /\ UNCHANGED <<target, logged, run>>

\* Somebody asks the target what a probe asks, and it answers rightly.
Ask(p) ==
  /\ p \in Asked
  /\ logged' = logged \cup {p}
  /\ UNCHANGED <<target, run, gate>>

\* The lifecycle of the target moves on: it is staged, promoted, rolled back.
Drift ==
  /\ target < MaxRevision
  /\ target' = target + 1
  /\ UNCHANGED <<logged, run, gate>>

Next ==
  \/ \E e \in Evals :
       \/ Begin(e) \/ ReadTarget(e) \/ ChooseJudge(e) \/ Build(e) \/ Raise(e) \/ Store(e)
       \/ Stop(e) \/ Register(e) \/ Refused(e) \/ Claim(e)
       \/ \E k \in Kinds : RunSuite(e, k)
       \/ \E p \in Probes : Probe(e, p) \/ Score(e, p)
  \/ \E p \in Probes : Ask(p)
  \/ Drift

Spec == Init /\ [][Next]_vars

-----------------------------------------------------------------------------
(* What the gate promises *)

PCs == {"idle", "contract", "replay", "target", "probes", "judge", "store", "post", "done"}
Checks == {"rule-probe-all-pass", "rule-json-format", "rule-schema-compliance",
           "gate-executor-error"}

SuiteRun == [code : {0, 1}, passed : {0, 1}, failed : {0, 1}, timed_out : BOOLEAN]

ReportRow ==
  [rule : Statuses, checks : SUBSET Checks, judge : Statuses,
   scores : [Probes -> Verdicts \cup {None}],
   suites : [Kinds -> [status : Statuses, passed : {0, 1}, failed : {0, 1}]],
   det : Statuses, live : Statuses, overall : Statuses,
   refs : SUBSET (Kinds \cup {"candidate", "exception"}),
   revision : 1..MaxRevision, strict : BOOLEAN, ran : [Kinds -> SuiteRun \cup {None}],
   answers : [Probes -> Answers \cup {None}], judged : [Probes -> Verdicts \cup {None}]]

RunRow ==
  [pc : PCs, suite : [Kinds -> Executions \cup {None}],
   answer : [Probes -> Answers \cup {None}],
   judge : {None, "missing", "athlete", "distinct"},
   verdict : [Probes -> Verdicts \cup {None, Raised}],
   report : ReportRow \cup {None},
   status : {None, "completed", "registration_failed"}]

\* What is named is a check, a probe, a suite or the live track's status.
GateRow ==
  [overall : Statuses, by : {"evaluator", "other"}, revision : 1..MaxRevision, seen : 1..MaxRevision,
   failing : SUBSET ({"rule", "judge", "suite", "live"}
                       \X (Checks \cup Probes \cup Kinds \cup Statuses))]

\* The types of the evaluations, their evidence and the register.
TypeOK ==
  /\ target \in 1..MaxRevision
  /\ logged \subseteq Probes
  /\ run \in [Evals -> RunRow]
  /\ gate \in [Evals -> GateRow \cup {None}]

Clean(x) == ~x.timed_out /\ x.code = 0 /\ x.passed > 0 /\ x.failed = 0

\* A registered pass means what can be known of it.  Whoever posted it, the
\* target answered every probe rightly through the official provider, and was at
\* the revision the report names.  That the suites ran clean and the judge passed
\* every answer above the threshold is so if the evaluator posted it: of another's
\* report the controller cannot tell.
PassedIsEarned ==
  \A e \in Evals :
    (gate[e] # None /\ gate[e].overall = "passed") =>
      /\ Probes \subseteq logged
      /\ gate[e].seen = gate[e].revision
      /\ gate[e].by = "evaluator" =>
           /\ gate[e].revision = Bound
           /\ \A k \in Kinds : run[e].suite[k] # None /\ Clean(run[e].suite[k])
           /\ \A p \in Probes :
                /\ run[e].answer[p] = "right"
                /\ run[e].verdict[p] = [parsed |-> TRUE, pass |-> TRUE, high |-> TRUE]

\* The evaluator and the controller compute the conclusion separately and agree:
\* a report the evaluator built is never refused for its content, so that no
\* verdict is lost while the target stays where it is.
HonestIsAcceptable ==
  \A e \in Evals : (run[e].report # None /\ target = Bound) => Acceptable(run[e].report)

\* A failure the evaluator registered names what failed and only that: the suites
\* that were not clean, the probes the judge was not convinced by, the rules broken.
FailureIsNamed ==
  \A e \in Evals :
    (gate[e] # None /\ gate[e].overall = "failed" /\ gate[e].by = "evaluator") =>
      LET failing == gate[e].failing
          wrong(p) == run[e].answer[p] = "wrong"
      IN /\ failing # {}
         /\ \A k \in Kinds : <<"suite", k>> \in failing <=> ~Clean(run[e].suite[k])
         /\ \A p \in Probes :
              <<"judge", p>> \in failing <=> ~(run[e].verdict[p].pass /\ run[e].verdict[p].high)
         /\ <<"rule", "rule-probe-all-pass">> \in failing <=> \E p \in Probes : wrong(p)
         /\ <<"rule", "rule-json-format">> \in failing <=> \E p \in JsonProbes : wrong(p)
         /\ <<"rule", "rule-schema-compliance">> \in failing
              <=> \E p \in Probes : run[e].answer[p] = "foreign"

=============================================================================
