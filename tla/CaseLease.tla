------------------------------ MODULE CaseLease ------------------------------
(***************************************************************************)
(* A case in the hands of its workers: services/lease.py (leases and their  *)
(* fencing tokens), the worker operations of services/case_service.py, and  *)
(* the attribution experiment of services/experiment_service.py, which runs *)
(* under the lease of its case.                                             *)
(*                                                                         *)
(* One action is one transaction, except a claim: it reads the case before  *)
(* it waits for the lease row and looks at the case again once it holds it. *)
(* A lease id is issued with each token and stands or falls with it, so the *)
(* token stands for both.  Time is the step Expire.                         *)
(***************************************************************************)
EXTENDS Naturals, FiniteSets, StateMachines

CONSTANTS Cases, Exps, Workers,
          Runners, Officers, \* the workers whose role runs experiments, suggests
          Cells,      \* the arms of the frozen protocol (VALID_CELLS)
          Probes,     \* the (probe, repetition) pairs of its probe sets
          Outcomes,   \* what a trial can record: recovered, artifact digest
          Keys,       \* idempotency keys of suggestions
          Verdicts,   \* what the attribution arithmetic can conclude
          ApiEvents,  \* what callers assert through the generic case API
          MaxToken,   \* bound: how many tokens are issued in a behaviour
          None

ASSUME WorkersAssumption == None \notin Workers \cup Cases \cup Exps \cup Outcomes
ASSUME RolesAssumption == Runners \cup Officers \subseteq Workers
ASSUME TokenAssumption == MaxToken \in Nat
ASSUME CellsAssumption == IsFiniteSet(Cells)
ASSUME NoneAssumption == /\ None \notin {"ATTRIBUTED"} \cup ExperimentStates
                         /\ \A n \in 0..Cardinality(Cells) : None # n

VARIABLES
  counter,     \* FencingCounter.next_token
  lease,       \* the row of `leases` of each case
  case,        \* the aggregate of each case: state and projected payload
  exp,         \* the aggregate of each experiment
  trials,      \* experiment.trial_completed events, by (cell, probe)
  arms,        \* experiment.cell_completed events: the arm order index of each cell
  suggestion,  \* worker_suggestion_receipts, by idempotency key
  pending,     \* the case a worker is claiming, read but not yet locked
  tokens,      \* the tokens a worker was given, which it may still send
  newest,      \* history: the newest token granted on each case
  written      \* history: the token of the last fenced write of each case

leaseVars == <<counter, lease, tokens, newest>>
expVars   == <<exp, trials, arms>>
vars == <<leaseVars, case, expVars, suggestion, pending, written>>

NoLease == [owner |-> None, token |-> 0, live |-> FALSE]
LeaseRow == [owner : Workers, token : 1..MaxToken, live : BOOLEAN] \cup {NoLease}

Slots == Cells \X Probes
Positions == 0..(Cardinality(Cells) - 1)

CaseRow == [state : CaseStates, worker : Workers \cup {None}, token : 0..MaxToken,
            exp : Exps \cup {None}]
ExpRow  == [state : ExperimentStates \cup {None}, case : Cases \cup {None},
            runner : Workers \cup {None}, token : 0..MaxToken,
            verdict : Verdicts \cup {None}]
Receipt == [case : Cases, worker : Workers]

Init ==
  /\ counter = 1
  /\ lease = [c \in Cases |-> NoLease]
  /\ case  = [c \in Cases |-> [state |-> "OPEN", worker |-> None, token |-> 0, exp |-> None]]
  /\ exp   = [e \in Exps |-> [state |-> None, case |-> None, runner |-> None,
                              token |-> 0, verdict |-> None]]
  /\ trials = [e \in Exps |-> [s \in Slots |-> None]]
  /\ arms   = [e \in Exps |-> [k \in Cells |-> None]]
  /\ suggestion = [k \in Keys |-> None]
  /\ pending = [w \in Workers |-> None]
  /\ tokens  = [w \in Workers |-> {}]
  /\ newest  = [c \in Cases |-> 0]
  /\ written = [c \in Cases |-> 0]

----------------------------------------------------------------------------
(* Leases *)

\* Mutant: any unexpired lease will do, whatever its token.
CheckLive(c, t) == lease[c].live

(* check_fencing: the row exists, has not expired and bears this token. *)
CheckFencing(c, t) == lease[c].live /\ lease[c].token = t

(* _require_active: and its owner is the caller. *)
RequireActive(c, w, t) == CheckFencing(c, t) /\ lease[c].owner = w

(* LeaseService.claim: an unexpired lease of another owner is a conflict;   *)
(* an expired one and one's own are overwritten under a new token.          *)
LeaseFree(c, w) == ~lease[c].live \/ lease[c].owner = w

GrantLease(c, w) ==
  /\ counter <= MaxToken
  /\ counter' = counter + 1
  /\ lease'  = [lease EXCEPT ![c] = [owner |-> w, token |-> counter, live |-> TRUE]]
  /\ tokens' = [tokens EXCEPT ![w] = @ \cup {counter}]
  /\ newest' = [newest EXCEPT ![c] = counter]

DropLease(c) == /\ lease' = [lease EXCEPT ![c] = NoLease]
                /\ UNCHANGED <<counter, tokens, newest>>

(* A write accepted under the token t. *)
Fenced(c, t) == written' = [written EXCEPT ![c] = t]

(* The lease of a case reaches expires_at. *)
Expire(c) == /\ lease[c].live
             /\ lease' = [lease EXCEPT ![c].live = FALSE]
             /\ UNCHANGED <<counter, tokens, newest, case, expVars, suggestion,
                            pending, written>>

(* A worker renews a lease it still holds, whatever the state of the case.  *)
Heartbeat(w, c, t) == /\ RequireActive(c, w, t)
                      /\ Fenced(c, t)
                      /\ UNCHANGED <<leaseVars, case, expVars, suggestion, pending>>

----------------------------------------------------------------------------
(* Reclaiming a lost worker *)

(* reclaim_if_expired: the lease is still expired once its row is locked,   *)
(* and the locked case is in work under exactly this lease.                 *)
Reclaimable(c) == /\ lease[c] # NoLease /\ ~lease[c].live
                  /\ case[c].state \in {"DISPATCHED", "ATTRIBUTING"}
                  /\ case[c].token = lease[c].token
                  /\ case[c].worker = lease[c].owner

(* _experiment_runner_lost refuses an experiment it cannot put back.        *)
RunnerLosable(c) ==
  LET e == case[c].exp IN
  /\ e # None
  /\ exp[e].case = c
  /\ exp[e].state \in {"REQUESTED", "PROTOCOL_FROZEN", "RUNNING"}
  /\ exp[e].state = "RUNNING" => /\ exp[e].runner = lease[c].owner
                                 /\ exp[e].token = lease[c].token

Unbound(row) == [row EXCEPT !.worker = None, !.token = 0]

(* experiment.runner_lost: the receipts stay, the binding goes.             *)
RunnerLost(e) ==
  \E to \in ExperimentStates :
    /\ NextState(ExperimentTable, exp[e].state, "experiment.runner_lost", Free, to)
    /\ exp' = [exp EXCEPT ![e].state = to, ![e].runner = None, ![e].token = 0]

\* Mutant: only a running experiment can be put back.
RequeueRunning(c) ==
  IF case[c].state = "ATTRIBUTING"
  THEN exp[case[c].exp].state = "RUNNING" /\ RunnerLosable(c) /\ RunnerLost(case[c].exp)
  ELSE UNCHANGED exp

(* The experiment goes back with the case, when there is one running.       *)
RequeueExperiment(c) ==
  IF case[c].state = "ATTRIBUTING" THEN RunnerLosable(c) /\ RunnerLost(case[c].exp)
                                   ELSE UNCHANGED exp

\* Mutant: the experiment is put back without its receipts.
ReclaimAnew(c) ==
  /\ Reclaimable(c)
  /\ RequeueExperiment(c)
  /\ \E ev \in {"case.worker_lost", "experiment.runner_lost"}, to \in CaseStates :
       /\ NextState(CaseTable, case[c].state, ev, Free, to)
       /\ case' = [case EXCEPT ![c] = [Unbound(@) EXCEPT !.state = to]]
  /\ trials' = [e \in Exps |-> IF e = case[c].exp THEN [s \in Slots |-> None] ELSE trials[e]]
  /\ DropLease(c)
  /\ UNCHANGED <<arms, suggestion, pending, written>>

(* POST /reclaim: DISPATCHED returns to OPEN, ATTRIBUTING to DISPATCHED.    *)
Reclaim(c) ==
  /\ Reclaimable(c)
  /\ RequeueExperiment(c)
  /\ \E ev \in {"case.worker_lost", "experiment.runner_lost"}, to \in CaseStates :
       /\ NextState(CaseTable, case[c].state, ev, Free, to)
       /\ case' = [case EXCEPT ![c] = [Unbound(@) EXCEPT !.state = to]]
  /\ DropLease(c)
  /\ UNCHANGED <<trials, arms, suggestion, pending, written>>

----------------------------------------------------------------------------
(* Claiming *)

Claimable == {"OPEN", "DISPATCHED", "AWAITING_FIX"}

\* Mutant: a case that is DISPATCHED already keeps its old projection.
ProjectOnEvent(c, w) ==
  case' = [case EXCEPT ![c] =
             IF @.state = "DISPATCHED" THEN @
             ELSE [@ EXCEPT !.worker = w, !.token = counter,
                            !.state = IF @ = "AWAITING_FIX" THEN @ ELSE "DISPATCHED"]]

(* The new owner is projected on the case.  Only OPEN changes state; a case *)
(* that is DISPATCHED already changes hands without an event.               *)
Project(c, w) ==
  case' = [case EXCEPT ![c].worker = w, ![c].token = counter,
                       ![c].state = IF @ = "AWAITING_FIX" THEN @ ELSE "DISPATCHED"]

(* A case in work whose lease row exists is claimed in one go: the claim    *)
(* locks that row first, to reclaim it if it is expired.                    *)
ClaimLocked(w, c) ==
  /\ pending[w] = None
  /\ lease[c] # NoLease
  /\ \/ Reclaimable(c) /\ RequeueExperiment(c)
     \/ /\ ~Reclaimable(c) /\ case[c].state = "DISPATCHED" /\ LeaseFree(c, w)
        /\ UNCHANGED exp
  /\ GrantLease(c, w)
  /\ Project(c, w)
  /\ UNCHANGED <<trials, arms, suggestion, pending, written>>

(* Otherwise nothing is locked when the case is read...                     *)
ClaimRead(w, c) ==
  /\ pending[w] = None
  /\ case[c].state \in Claimable
  /\ case[c].state = "DISPATCHED" => lease[c] = NoLease
  /\ pending' = [pending EXCEPT ![w] = c]
  /\ UNCHANGED <<leaseVars, case, expVars, suggestion, written>>

(* ... and the lease is taken, then the case looked at again.               *)
ClaimCommit(w) ==
  LET c == pending[w] IN
  /\ c # None
  /\ pending' = [pending EXCEPT ![w] = None]
  /\ \/ /\ LeaseFree(c, w) /\ case[c].state \in Claimable
        /\ GrantLease(c, w)
        /\ Project(c, w)
     \/ /\ ~(LeaseFree(c, w) /\ case[c].state \in Claimable)
        /\ UNCHANGED <<leaseVars, case>>
  /\ UNCHANGED <<expVars, suggestion, written>>

----------------------------------------------------------------------------
(* Writes of workers on the case *)

(* submit_suggestion: a key is used once.  A retry of the same request finds *)
(* its receipt; any other use of the key is refused.                        *)
SubmitSuggestion(w, c, t, key) ==
  /\ suggestion[key] = None
  /\ RequireActive(c, w, t)
  /\ suggestion' = [suggestion EXCEPT ![key] = [case |-> c, worker |-> w]]
  /\ Fenced(c, t)
  /\ UNCHANGED <<leaseVars, case, expVars, pending>>

(* transition and write_with_fencing: an event that no other service owns,   *)
(* under a token or, with t = 0, without one.                                *)
DomainOwned == {"experiment.requested", "case.attribution_completed",
                "changeset.approval_requested", "changeset.approved",
                "changeset.rejected", "changeset.expired", "case.resolved",
                "release.rollback_failed", "case.closed", "notification.sent",
                "notification.dead_lettered"}

Transition(c, ev, t) ==
  /\ ev \notin DomainOwned
  /\ t # 0 => CheckFencing(c, t)
  /\ \E to \in CaseStates :
       /\ NextState(CaseTable, case[c].state, ev, Free, to)
       /\ case' = [case EXCEPT ![c].state = to]
  /\ IF t # 0 THEN Fenced(c, t) ELSE UNCHANGED written
  /\ UNCHANGED <<leaseVars, expVars, suggestion, pending>>

(* reopen: the officer's conclusion.  The lease, if any, is left as it is.   *)
Reopen(c) ==
  /\ case[c].state = "ESCALATED"
  /\ case' = [case EXCEPT ![c].state = "OPEN"]
  /\ UNCHANGED <<leaseVars, expVars, suggestion, pending, written>>

----------------------------------------------------------------------------
(* The experiment *)

ExpStep(e, ev, guard, to) == NextState(ExperimentTable, exp[e].state, ev, guard, to)

(* create: a DISPATCHED case becomes ATTRIBUTING.  No lease is asked for.    *)
Create(e, c) ==
  /\ exp[e].state = None
  /\ case[c].state = "DISPATCHED"
  /\ exp'  = [exp EXCEPT ![e].state = "REQUESTED", ![e].case = c]
  /\ case' = [case EXCEPT ![c].state = "ATTRIBUTING", ![c].exp = e]
  /\ UNCHANGED <<leaseVars, trials, arms, suggestion, pending, written>>

(* freeze_protocol, of a protocol that validates. *)
Freeze(e) ==
  /\ ExpStep(e, "experiment.protocol_frozen", Free, "PROTOCOL_FROZEN")
  /\ exp[e].state # None
  /\ exp' = [exp EXCEPT ![e].state = "PROTOCOL_FROZEN"]
  /\ UNCHANGED <<leaseVars, case, trials, arms, suggestion, pending, written>>

(* The case is bound to this experiment, worker and token.                   *)
BoundTo(c, e, w, t) == case[c].exp = e /\ case[c].worker = w /\ case[c].token = t

(* start: the exact lease, projected on the case, becomes the binding of the *)
(* run.  A case that had been put back resumes.                              *)
Start(w, e, t) ==
  LET c == exp[e].case IN
  /\ c # None
  /\ RequireActive(c, w, t)
  /\ case[c].state \in {"ATTRIBUTING", "DISPATCHED"}
  /\ BoundTo(c, e, w, t)
  /\ ExpStep(e, "experiment.started", Free, "RUNNING")
  /\ exp'  = [exp EXCEPT ![e].state = "RUNNING", ![e].runner = w, ![e].token = t]
  /\ case' = [case EXCEPT ![c].state = "ATTRIBUTING"]
  /\ Fenced(c, t)
  /\ UNCHANGED <<leaseVars, trials, arms, suggestion, pending>>

(* What trials, cells and the verdict ask for: the token in force, and that  *)
(* its owner is the runner of the experiment.                                *)
RunnerHolds(e, t) == /\ exp[e].case # None
                     /\ CheckFencing(exp[e].case, t)
                     /\ lease[exp[e].case].owner = exp[e].runner

(* trial_completed: one receipt a slot.  The exact retry is answered with it, *)
(* a different result for the slot is refused.                               *)
TrialCompleted(e, t, slot, outcome) ==
  /\ RunnerHolds(e, t)
  /\ exp[e].state = "RUNNING"
  /\ trials[e][slot] = None
  /\ trials' = [trials EXCEPT ![e][slot] = outcome]
  /\ Fenced(exp[e].case, t)
  /\ UNCHANGED <<leaseVars, case, exp, arms, suggestion, pending>>

\* Mutant: a cell is completed before its receipts are in.
CellCompletedEarly(e, t, cell, position) ==
  /\ RunnerHolds(e, t)
  /\ exp[e].state = "RUNNING"
  /\ arms[e][cell] = None
  /\ \A k \in Cells : arms[e][k] # position
  /\ arms' = [arms EXCEPT ![e][cell] = position]
  /\ Fenced(exp[e].case, t)
  /\ UNCHANGED <<leaseVars, case, exp, trials, suggestion, pending>>

(* cell_completed: all its receipts are in, the cell and its place in the    *)
(* arm order are new.                                                        *)
CellCompleted(e, t, cell, position) ==
  /\ RunnerHolds(e, t)
  /\ exp[e].state = "RUNNING"
  /\ \A p \in Probes : trials[e][<<cell, p>>] # None
  /\ arms[e][cell] = None
  /\ \A k \in Cells : arms[e][k] # position
  /\ arms' = [arms EXCEPT ![e][cell] = position]
  /\ Fenced(exp[e].case, t)
  /\ UNCHANGED <<leaseVars, case, exp, trials, suggestion, pending>>

(* verdict_computed: every cell is in.  The arithmetic is a function of the  *)
(* receipts, so a second verdict repeats the first.  The case must be         *)
(* ATTRIBUTING; it moves on, and the lease is released with it.              *)
VerdictComputed(e, t, v) ==
  LET c == exp[e].case IN
  /\ RunnerHolds(e, t)
  /\ \A k \in Cells : arms[e][k] # None
  /\ exp[e].verdict \in {None, v}
  /\ ExpStep(e, "experiment.verdict_computed", Free, "VERDICT_COMPUTED")
  /\ case[c].state = "ATTRIBUTING"
  /\ exp'  = [exp EXCEPT ![e].state = "VERDICT_COMPUTED", ![e].verdict = v]
  /\ case' = [case EXCEPT ![c] = IF v = "ATTRIBUTED"
                                 THEN [@ EXCEPT !.state = "AWAITING_FIX", !.exp = e]
                                 ELSE [@ EXCEPT !.state = "ESCALATED"]]
  /\ DropLease(c)
  /\ Fenced(c, t)
  /\ UNCHANGED <<trials, arms, suggestion, pending>>

(* escalate_full_factorial names the guard of the table itself.              *)
EscalateFullFactorial(e) ==
  /\ exp[e].state # None
  /\ ExpStep(e, "experiment.escalated_full_factorial", "CONFOUNDED", "PROTOCOL_FROZEN")
  /\ exp' = [exp EXCEPT ![e].state = "PROTOCOL_FROZEN"]
  /\ UNCHANGED <<leaseVars, case, trials, arms, suggestion, pending, written>>

(* cancel: the runner gives up a run, under the lease it was started with;   *)
(* the case goes to a human and the lease goes.  An exact retry is a replay. *)
Cancel(w, e, t) ==
  LET c == exp[e].case IN
  /\ c # None
  /\ exp[e].state \notin {"CANCELLED", "VERDICT_COMPUTED"}
  /\ RequireActive(c, w, t)
  /\ exp[e].runner = w /\ exp[e].token = t
  /\ case[c].state = "ATTRIBUTING" /\ BoundTo(c, e, w, t)
  /\ exp'  = [exp EXCEPT ![e].state = "CANCELLED"]
  /\ case' = [case EXCEPT ![c] = [Unbound(@) EXCEPT !.state = "ESCALATED"]]
  /\ DropLease(c)
  /\ Fenced(c, t)
  /\ UNCHANGED <<trials, arms, suggestion, pending>>

----------------------------------------------------------------------------

Claim == \E w \in Workers : ClaimCommit(w) \/ \E c \in Cases : ClaimLocked(w, c) \/ ClaimRead(w, c)

WorkerNext ==
  \E c \in Cases, w \in Workers : \E t \in tokens[w] :
    \/ Heartbeat(w, c, t)
    \/ w \in Officers /\ \E key \in Keys : SubmitSuggestion(w, c, t, key)

RunnerNext ==
  \E e \in Exps, w \in Runners : \E t \in tokens[w] :
    \/ Start(w, e, t)
    \/ Cancel(w, e, t)
    \/ \E s \in Slots, o \in Outcomes : TrialCompleted(e, t, s, o)
    \/ \E k \in Cells, p \in Positions : CellCompleted(e, t, k, p)
    \/ \E v \in Verdicts : VerdictComputed(e, t, v)

OtherNext ==
  \/ \E c \in Cases : \/ Expire(c) \/ Reclaim(c) \/ Reopen(c)
                      \/ \E ev \in ApiEvents, t \in 0..MaxToken : Transition(c, ev, t)
                      \/ \E e \in Exps : Create(e, c)
  \/ \E e \in Exps : Freeze(e) \/ EscalateFullFactorial(e)

Next == Claim \/ WorkerNext \/ RunnerNext \/ OtherNext

Spec == Init /\ [][Next]_vars

(* Workers keep asking for work (the agents poll), and a request that has     *)
(* begun comes to its end.                                                   *)
FairSpec ==
  /\ Spec
  /\ \A w \in Workers : /\ WF_vars(ClaimCommit(w))
                        /\ \A c \in Cases : WF_vars(ClaimLocked(w, c))

----------------------------------------------------------------------------
(* Properties *)

TypeOK ==
  /\ counter \in 1..(MaxToken + 1)
  /\ lease \in [Cases -> LeaseRow]
  /\ case \in [Cases -> CaseRow]
  /\ exp \in [Exps -> ExpRow]
  /\ trials \in [Exps -> [Slots -> Outcomes \cup {None}]]
  /\ arms \in [Exps -> [Cells -> Positions \cup {None}]]
  /\ suggestion \in [Keys -> Receipt \cup {None}]
  /\ pending \in [Workers -> Cases \cup {None}]
  /\ tokens \in [Workers -> SUBSET (1..MaxToken)]
  /\ newest \in [Cases -> 0..MaxToken]
  /\ written \in [Cases -> 0..MaxToken]

(* A case in work that names a worker is covered by that worker's lease row,  *)
(* and an attribution in progress by the run bound to it: a lost worker can   *)
(* always be recognised by reclaim_if_expired, which compares the two exactly. *)
Covered(c) ==
  /\ lease[c].owner = case[c].worker
  /\ lease[c].token = case[c].token
  /\ case[c].state = "ATTRIBUTING" => RunnerLosable(c)

WorkIsCovered ==
  \A c \in Cases :
    (case[c].state \in {"DISPATCHED", "ATTRIBUTING"} /\ case[c].worker # None) => Covered(c)

(* A case that awaits its fix was attributed by a complete experiment: every  *)
(* receipt is in, the arms were run in an order, and the verdict stands.       *)
FixIsAttributed ==
  \A c \in Cases :
    case[c].state = "AWAITING_FIX" =>
      LET e == case[c].exp IN
      /\ e # None /\ exp[e].case = c
      /\ exp[e].verdict = "ATTRIBUTED"
      /\ \A s \in Slots : trials[e][s] # None
      /\ {arms[e][k] : k \in Cells} = Positions

(* A receipt is never replaced or lost, whoever runs the experiment after its *)
(* writer: the run is resumed, not repeated.                                 *)
ReceiptsFrozen ==
  [][\A e \in Exps, s \in Slots : trials[e][s] # None => trials'[e][s] = trials[e][s]]_vars

(* The work of a worker that is gone is taken over, while tokens last.        *)
LostWorkIsTakenOver ==
  \A c \in Cases :
    (Reclaimable(c) /\ counter <= MaxToken) ~> (~Reclaimable(c) \/ counter > MaxToken)

(* The history of the fenced writes of each case is that of a fenced lease.   *)
Lock == INSTANCE FencedLease WITH
          Resources <- Cases, granted <- newest, written <- written,
          held <- [c \in Cases |-> lease[c].live]

ImplementsFencedLease == Lock!FSpec
=============================================================================
