---------------------------- MODULE ExperimentRun ----------------------------
(***************************************************************************)
(* The execution of one attribution experiment.  A background thread of    *)
(* the evaluation server (mcp-servers/servers/eval_runner.py) asks the     *)
(* five cells every frozen probe in the seeded order, checkpoints each     *)
(* answer at the controller, adjudicates (eval-harness) and posts cells    *)
(* and verdict; whatever goes wrong, it cancels the experiment.  The       *)
(* controller (control-plane attribution.py, experiment_service.py) keeps  *)
(* the first receipt of every trial and computes the verdict again.        *)
(*                                                                         *)
(* Only one thread runs per process, but nothing keeps two servers, or a   *)
(* restarted one, from executing the same experiment.  CaseLease models    *)
(* how an experiment is started, lost and started again under a new token; *)
(* here that is RunnerLost and Restart.                                    *)
(***************************************************************************)
EXTENDS FiniteSets, Integers, Sequences, Absence

CONSTANTS
  Discovery, Hidden, Controls,  \* the frozen probes
  Order,        \* the seeded order of the trials, a sequence of <<cell, probe>>
  Executors,    \* the servers that may execute the experiment
  Worlds,       \* what may be wrong with the version under test
  Significant,  \* pairs of recovery counts whose difference is significant
  Reproduced,   \* the same for the hidden probes alone
  MaxTokens,    \* bound: how often the experiment is started
  MaxCalls      \* bound: calls of experiment.execute, in each world at each server

Layers   == {"prompt", "kb", "model_params"}
Arms     == {"C", "RP", "RK", "RM", "G"}
Affected == Discovery \cup Hidden
Slots    == Arms \X (Affected \cup Controls)
Trials   == 1..Len(Order)

ASSUME GroupsAssumption ==
  /\ IsFiniteSet(Affected) /\ Discovery \cap Hidden = {} /\ Affected \cap Controls = {}
  /\ Discovery # {} /\ Hidden # {} /\ Controls # {}
ASSUME OrderAssumption ==
  /\ Order \in Seq(Slots)
  /\ Len(Order) = Cardinality(Slots) /\ \A s \in Slots : \E i \in Trials : Order[i] = s
ASSUME WorldsAssumption ==
  Worlds \subseteq [faults : SUBSET (Layers \cup {"outside"}), mode : {"any", "all"},
                    hidden : BOOLEAN, broken : SUBSET Arms, flaky : SUBSET Slots]
\* Equal counts are no recovery: the lower bound of their difference is never
\* above zero, and delta_min never below.
ASSUME SignificanceAssumption ==
  \A n \in 0..Cardinality(Affected) : <<n, n>> \notin Significant \cup Reproduced
\* Enough is asked: all against none stands out.  With the default delta_min of
\* 0.2 that takes three affected and two hidden trials to a cell.
EnoughProbes ==
  /\ <<Cardinality(Affected), 0>> \in Significant
  /\ <<Cardinality(Hidden), 0>> \in Reproduced

ASSUME CallsAssumption == MaxTokens \in Nat \ {0} /\ MaxCalls \in [Worlds -> [Executors -> Nat]]

VARIABLES
  world,     \* what is wrong
  exp,       \* the experiment: its state, token and recorded verdict
  receipts,  \* experiment.trial_completed, by trial
  cells,     \* experiment.cell_completed: the recovery count of each cell
  ex         \* the executors

experimentVars == <<world, exp, receipts, cells, ex>>

-----------------------------------------------------------------------------
(* The version sets under test *)

\* The components a cell takes from the known good version.
Restored(arm) ==
  CASE arm = "C"  -> {}         [] arm = "RP" -> {"prompt"} [] arm = "RK" -> {"kb"}
    [] arm = "RM" -> {"model_params"} [] arm = "G" -> Layers

\* A probe fails in a cell as long as any faulty component is in it, or only
\* when all of them are; a fault outside the components is in every cell.
Recovers(w, s) ==
  LET arm == s[1] probe == s[2] IN
  IF probe \in Controls THEN arm \notin w.broken
  ELSE \/ probe \in Hidden /\ ~w.hidden
       \/ w.mode = "any" /\ w.faults \subseteq Restored(arm)
       \/ w.mode = "all" /\ w.faults \cap Restored(arm) # {}

Outcomes(w, s) == IF s \in w.flaky THEN BOOLEAN ELSE {Recovers(w, s)}

-----------------------------------------------------------------------------
(* Adjudication, of the recovered slots S *)

RecoveredIn(S, arm, probes) == Cardinality({p \in probes : <<arm, p>> \in S})

SignificantArm(S, arm) ==
  <<RecoveredIn(S, arm, Affected), RecoveredIn(S, "C", Affected)>> \in Significant

ReproducedArm(S, arm) ==
  <<RecoveredIn(S, arm, Hidden), RecoveredIn(S, "C", Hidden)>> \in Reproduced

ControlsPass(S) == \A arm \in Arms, p \in Controls : <<arm, p>> \in S

SingleArms == {"RP", "RK", "RM"}

Verdict(decision, layer) == [decision |-> decision, layer |-> layer]

LayerOf(arm) == CHOOSE l \in Layers : Restored(arm) = {l}

\* The harness: R1 to R5 in order.
Adjudicate(S) ==
  LET significant == {arm \in SingleArms : SignificantArm(S, arm)} IN
  IF ~ControlsPass(S) \/ ~SignificantArm(S, "G") THEN Verdict("INCONCLUSIVE", None)
  ELSE IF Cardinality(significant) # 1 THEN Verdict("CONFOUNDED", None)
  ELSE LET arm == CHOOSE a \in significant : TRUE IN
       IF ReproducedArm(S, arm) THEN Verdict("ATTRIBUTED", LayerOf(arm))
       ELSE Verdict("INCONCLUSIVE", None)

\* Mutant: a single arm is enough, whatever the known good baseline does.
VerdictWithoutR2(S) ==
  LET significant == {arm \in SingleArms : SignificantArm(S, arm)} IN
  CASE ~ControlsPass(S) -> Verdict("INCONCLUSIVE", None)
    [] ControlsPass(S) /\ significant = {} -> Verdict("CONFOUNDED", None)
    [] OTHER -> Verdict("ATTRIBUTED", LayerOf(CHOOSE arm \in significant : TRUE))

\* The controller computes it again from the receipts.
RecomputedVerdict(S) ==
  LET significant == {arm \in SingleArms : SignificantArm(S, arm)}
      only == CHOOSE arm \in significant : TRUE
  IN CASE ~ControlsPass(S) \/ ~SignificantArm(S, "G") -> Verdict("INCONCLUSIVE", None)
       [] ControlsPass(S) /\ SignificantArm(S, "G") /\ Cardinality(significant) # 1
            -> Verdict("CONFOUNDED", None)
       [] OTHER -> IF ReproducedArm(S, only) THEN Verdict("ATTRIBUTED", LayerOf(only))
                   ELSE Verdict("INCONCLUSIVE", None)

RecoveredSlots(results) == {Order[i] : i \in {j \in Trials : results[j] # None /\ results[j].recovered}}

-----------------------------------------------------------------------------
(* The controller *)

NoResults == [i \in Trials |-> None]
Executor(pc, calls, token) ==
  [pc |-> pc, calls |-> calls, token |-> token, results |-> NoResults, answer |-> None,
   posted |-> 0, verdict |-> None, beating |-> FALSE]

ExperimentInit ==
  /\ world \in Worlds
  /\ exp = [state |-> "RUNNING", token |-> 1, verdict |-> None]
  /\ receipts = NoResults
  /\ cells = [arm \in Arms |-> None]
  /\ ex = [x \in Executors |-> Executor("idle", 0, 0)]

Holds(x) == exp.state = "RUNNING" /\ ex[x].token = exp.token

\* Mutant: the latest answer to a trial replaces the one before.
TrialReplaced(x, i, r) == Holds(x)

\* The first answer to a trial stays; only an exact repetition is accepted.
TrialAccepted(x, i, r) == Holds(x) /\ receipts[i] \in {None, r}

CellAccepted(x, arm, count) ==
  /\ Holds(x)
  /\ \A i \in Trials : Order[i][1] = arm => receipts[i] # None
  /\ count = RecoveredIn(RecoveredSlots(receipts), arm, Affected)
  /\ cells[arm] \in {None, count}

VerdictAccepted(x, results, verdict) ==
  /\ Holds(x)
  /\ \A arm \in Arms : cells[arm] = RecoveredIn(RecoveredSlots(results), arm, Affected)
  /\ results = receipts
  /\ verdict = RecomputedVerdict(RecoveredSlots(receipts))

\* Heartbeats keep the lease while the trials run: not while the experiment is
\* read, nor while cells and verdict are posted.
Beats(x) == ex[x].beating /\ Holds(x)

\* Mutant: an experiment that has completed cells is not put back.
RunnerLostEarly ==
  /\ exp.state = "RUNNING"
  /\ \A x \in Executors : ~Beats(x)
  /\ \A arm \in Arms : cells[arm] = None
  /\ exp' = [exp EXCEPT !.state = "PROTOCOL_FROZEN"]
  /\ UNCHANGED <<world, receipts, cells, ex>>

\* No server's heartbeats keep the lease: it may expire, even under an execution
\* that goes on, and the case and its experiment are put back.
RunnerLost ==
  /\ exp.state = "RUNNING"
  /\ \A x \in Executors : ~Beats(x)
  /\ exp' = [exp EXCEPT !.state = "PROTOCOL_FROZEN"]
  /\ UNCHANGED <<world, receipts, cells, ex>>

\* The case is claimed again and its experiment started under a new token.
Restart ==
  /\ exp.state = "PROTOCOL_FROZEN" /\ exp.token < MaxTokens
  /\ exp' = [exp EXCEPT !.state = "RUNNING", !.token = @ + 1]
  /\ UNCHANGED <<world, receipts, cells, ex>>

-----------------------------------------------------------------------------
(* An execution *)

\* experiment.execute: the experiment is read first, its receipts later.
Execute(x) ==
  /\ ex[x].pc = "idle" /\ ex[x].calls < MaxCalls[world][x]
  /\ exp.state = "RUNNING"
  /\ ex' = [ex EXCEPT ![x] = Executor("read", ex[x].calls + 1, exp.token)]
  /\ UNCHANGED <<world, exp, receipts, cells>>

ReadReceipts(x) ==
  /\ ex[x].pc = "read"
  /\ ex' = [ex EXCEPT ![x].pc = "start", ![x].results = receipts]
  /\ UNCHANGED <<world, exp, receipts, cells>>

\* The first heartbeat must succeed before anything is asked.
FirstBeat(x) ==
  /\ ex[x].pc = "start" /\ Holds(x)
  /\ ex' = [ex EXCEPT ![x].pc = "run", ![x].beating = TRUE]
  /\ UNCHANGED <<world, exp, receipts, cells>>

\* A heartbeat is late, lost or refused: it was the last, but the trials go on.
BeatFails(x) ==
  /\ ex[x].beating
  /\ ex' = [ex EXCEPT ![x].beating = FALSE]
  /\ UNCHANGED <<world, exp, receipts, cells>>

\* A trial that has a receipt is not asked again.
Pending(results) == {i \in Trials : results[i] = None}
Trial(results)   == CHOOSE i \in Pending(results) : \A j \in Pending(results) : i <= j

Failed(x) == Executor("failed", ex[x].calls, ex[x].token)
Ended(x)  == Executor("idle", ex[x].calls, 0)

\* No two provider answers are alike: each carries the executor and its call.
Evaluate(x) ==
  /\ ex[x].pc = "run" /\ Pending(ex[x].results) # {} /\ ex[x].answer = None
  /\ \E recovered \in Outcomes(world, Order[Trial(ex[x].results)]) :
       ex' = [ex EXCEPT ![x].answer = [recovered |-> recovered, of |-> <<x, ex[x].calls>>]]
  /\ UNCHANGED <<world, exp, receipts, cells>>

\* The controller may commit the receipt and its answer be lost: the execution
\* fails, and with it the experiment.
Checkpoint(x) ==
  /\ ex[x].pc = "run" /\ ex[x].answer # None
  /\ LET i == Trial(ex[x].results) r == ex[x].answer IN
     /\ TrialAccepted(x, i, r)
     /\ receipts' = [receipts EXCEPT ![i] = r]
     /\ \/ ex' = [ex EXCEPT ![x].results[i] = r, ![x].answer = None]
        \/ ex' = [ex EXCEPT ![x] = Failed(x)]
  /\ UNCHANGED <<world, exp, cells>>

\* The heartbeats stop with the trials; if one had failed, so does the execution.
Report(x) ==
  /\ ex[x].pc = "run" /\ Pending(ex[x].results) = {} /\ ex[x].beating
  /\ ex' = [ex EXCEPT ![x].pc = "cells", ![x].beating = FALSE,
                      ![x].verdict = Adjudicate(RecoveredSlots(ex[x].results))]
  /\ UNCHANGED <<world, exp, receipts, cells>>

ArmOrder == LET first(arm) == CHOOSE i \in Trials :
                                Order[i][1] = arm /\ \A j \in 1..(i - 1) : Order[j][1] # arm
                rank(arm) == Cardinality({a \in Arms : first(a) <= first(arm)})
            IN [i \in 1..Cardinality(Arms) |-> CHOOSE arm \in Arms : rank(arm) = i]

PostCell(x) ==
  /\ ex[x].pc = "cells" /\ ex[x].posted < Len(ArmOrder)
  /\ LET arm == ArmOrder[ex[x].posted + 1]
         count == RecoveredIn(RecoveredSlots(ex[x].results), arm, Affected)
     IN /\ CellAccepted(x, arm, count)
        /\ cells' = [cells EXCEPT ![arm] = count]
  /\ \/ ex' = [ex EXCEPT ![x].posted = @ + 1]
     \/ ex' = [ex EXCEPT ![x] = Failed(x)]
  /\ UNCHANGED <<world, exp, receipts>>

Record(verdict) == exp' = [exp EXCEPT !.state = "VERDICT_COMPUTED", !.verdict = verdict]

PostVerdict(x) ==
  /\ ex[x].pc = "cells" /\ ex[x].posted = Len(ArmOrder)
  /\ VerdictAccepted(x, ex[x].results, ex[x].verdict)
  /\ Record(ex[x].verdict)
  /\ \E after \in {Ended(x), Failed(x)} : ex' = [ex EXCEPT ![x] = after]
  /\ UNCHANGED <<world, receipts, cells>>

\* The runner does not own the verdict: whoever holds its token may declare any.
Declare(x) ==
  /\ ex[x].pc = "cells"
  /\ \E verdict \in {Verdict(d, None) : d \in {"INCONCLUSIVE", "CONFOUNDED"}}
                      \cup {Verdict("ATTRIBUTED", l) : l \in Layers} :
       VerdictAccepted(x, receipts, verdict) /\ Record(verdict)
  /\ UNCHANGED <<world, receipts, cells, ex>>

\* A provider error, an answer that is refused, a heartbeat that had failed.
Fail(x) ==
  /\ ex[x].pc \in {"read", "start", "run", "cells"}
  /\ ex' = [ex EXCEPT ![x] = Failed(x)]
  /\ UNCHANGED <<world, exp, receipts, cells>>

\* Every failure cancels the experiment, if it still is this execution's.
Cancel(x) ==
  /\ ex[x].pc = "failed"
  /\ exp' = IF Holds(x) THEN [exp EXCEPT !.state = "CANCELLED"] ELSE exp
  /\ ex' = [ex EXCEPT ![x] = Ended(x)]
  /\ UNCHANGED <<world, receipts, cells>>

\* The cancellation fails too and is only logged, or the process dies.
Die(x) ==
  /\ ex[x].pc # "idle"
  /\ ex' = [ex EXCEPT ![x] = Ended(x)]
  /\ UNCHANGED <<world, exp, receipts, cells>>

Work(x) ==
  \/ ReadReceipts(x) \/ FirstBeat(x) \/ Evaluate(x) \/ Checkpoint(x) \/ Report(x) \/ PostCell(x)
  \/ PostVerdict(x) \/ Fail(x) \/ Cancel(x)

ExperimentNext ==
  \/ \E x \in Executors : Execute(x) \/ Work(x) \/ BeatFails(x) \/ Declare(x) \/ Die(x)
  \/ RunnerLost \/ Restart

\* A thread that runs goes on; the reclaimer finds every expired lease.
ExperimentSpec ==
  /\ ExperimentInit /\ [][ExperimentNext]_experimentVars
  /\ \A x \in Executors : WF_experimentVars(Work(x))
  /\ WF_experimentVars(RunnerLost)

-----------------------------------------------------------------------------
(* What an experiment promises *)

\* The report of a finished execution is one the controller accepts: it holds
\* exactly the receipts, whichever server obtained them and however often an
\* execution was resumed, and its verdict is the controller's.
BundleIsAcceptable ==
  \A x \in Executors :
    (ex[x].pc = "cells" /\ Holds(x)) =>
      /\ ex[x].results = receipts
      /\ ex[x].verdict = RecomputedVerdict(RecoveredSlots(receipts))
      /\ \A arm \in Arms :
           cells[arm] \in {None, RecoveredIn(RecoveredSlots(receipts), arm, Affected)}

\* This layer alone is at fault, or it is the only layer at fault and what is
\* wrong outside does no harm without it.
Culprit(w, l) == w.faults = {l} \/ (w.mode = "all" /\ w.faults = {l, "outside"})

\* A recorded verdict tells the truth about the version under test, unless a
\* trial was flaky: it names a layer exactly when this one is the culprit, the
\* hidden probes show it and the controls hold, whatever was declared.
VerdictIsTrue ==
  (exp.verdict # None /\ world.flaky = {}) =>
    \A l \in Layers :
      exp.verdict = Verdict("ATTRIBUTED", l)
        <=> Culprit(world, l) /\ world.hidden /\ world.broken = {}

\* No experiment is left running by whatever befalls its executions: it gets a
\* verdict, is cancelled or put back.
NeverLeftRunning == exp.state = "RUNNING" ~> exp.state # "RUNNING"

=============================================================================
