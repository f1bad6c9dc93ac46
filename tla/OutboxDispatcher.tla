-------------------------- MODULE OutboxDispatcher --------------------------
(***************************************************************************)
(* What follows a release: services/outbox_relay.py claims the outbox rows  *)
(* the release wrote, feeds the trust ledger, resolves the case, queues the *)
(* reply to the complaint and delivers it through a provider; the receipt   *)
(* closes the case.  Workers claim rows under a lease, so that a slow       *)
(* worker and the one that reclaimed its row may both be at work; either    *)
(* may crash, and the provider may answer late or never.                    *)
(*                                                                         *)
(* Abstractions.  A release announces UNKNOWN at most once and then its     *)
(* result.  Rows that the domain consumer only journals are left out.  A    *)
(* retry delay is any delay.  A claim token is the worker holding it: a     *)
(* worker works on one claim at a time.  attempts is counted to             *)
(* MaxAttempts + 1 and messages to 2, where nothing more can be told apart. *)
(***************************************************************************)
EXTENDS Naturals, StateMachines

CONSTANTS
  Cases,        \* cases under repair
  Releases,     \* releases, one per approved work order
  CaseOf,       \* the case a release repairs
  Workers,      \* dispatcher processes: the fixed worker, the relay endpoint
  Crashing,     \* workers that may die at any point
  Slow,         \* workers that may outlive their claim
  Disputed,     \* cases an agent may escalate
  Flaky,        \* releases whose deliveries and transactions may fail
  Delayed,      \* releases whose reply may be due for longer than the dedup window
  MaxAttempts,  \* outbox_max_attempts
  None

ASSUME CaseAssumption == CaseOf \in [Releases -> Cases]
ASSUME WorkerAssumption ==
  Crashing \subseteq Workers /\ Slow \subseteq Workers
ASSUME AttemptAssumption == MaxAttempts \in Nat \ {0}
ASSUME NoneAssumption == None \notin Workers \cup Releases

VARIABLES
  case,      \* the case aggregates
  release,   \* the release aggregates, as far as their outcome
  trust,     \* the trust ledger: is it blocked, which releases are samples
  notif,     \* the notification of each release
  row,       \* the outbox rows
  worker,    \* what each worker is doing with the row it claimed
  messages,  \* messages the complainant has received for a release
  aged       \* releases whose first delivery is older than the dedup window

vars == <<case, release, trust, notif, row, worker, messages, aged>>

Rows == Releases \X {"unknown", "result", "notify"}
-----------------------------------------------------------------------------
Absent == [status |-> "absent", attempts |-> 0, holder |-> None]
Idle   == [pc |-> "idle", row |-> None, again |-> FALSE, retry |-> FALSE]

Init ==
  /\ case = [c \in Cases |-> [state |-> "OPEN", work |-> None, resolved |-> None]]
  /\ release = [r \in Releases |-> [state |-> "none", closure |-> FALSE]]
  /\ trust = [blocked |-> FALSE, samples |-> {}]
  /\ notif = [r \in Releases |-> "none"]
  /\ row = [x \in Rows |-> Absent]
  /\ worker = [w \in Workers |-> Idle]
  /\ messages = [r \in Releases |-> 0]
  /\ aged = {}

\* append_event with an outbox entry: the row appears with the event.
Emit(rows, x) == [rows EXCEPT ![x].status = "PENDING"]

CaseMay(c, event, to) == NextState(CaseTable, case[c].state, event, Free, to)

(***************************************************************************)
(* The case and its releases.                                              *)
(***************************************************************************)

\* The case is dispatched and attributed; its claims and experiments are left out.
Attribute(c) ==
  /\ case[c].state = "OPEN"
  /\ case' = [case EXCEPT ![c].state = "AWAITING_FIX"]
  /\ UNCHANGED <<release, trust, notif, row, worker, messages, aged>>

\* The grant of a work order requests and gives the approval of its change set
\* in one transaction; the release is started under it.
Approve(r) ==
  LET c == CaseOf[r]
  IN /\ release[r].state = "none"
     /\ CaseMay(c, "changeset.approval_requested", "AWAITING_APPROVAL")
     /\ case' = [case EXCEPT ![c].state = "RELEASING", ![c].work = r]
     /\ release' = [release EXCEPT ![r].state = "running"]
     /\ UNCHANGED <<trust, notif, row, worker, messages, aged>>

ReleaseUnknown(r) ==
  /\ release[r].state = "running"
  /\ row[<<r, "unknown">>].status = "absent"
  /\ row' = Emit(row, <<r, "unknown">>)
  /\ UNCHANGED <<case, release, trust, notif, worker, messages, aged>>

\* Promotion needs a ReleaseClosure; a rollback does not, and an escalated
\* rollback is announced to nobody.
ReleaseEnds(r, result, closure) ==
  /\ release[r].state = "running"
  /\ result = "promoted" => closure
  /\ release' = [release EXCEPT ![r] = [state |-> result, closure |-> closure]]
  /\ row' = IF result = "escalated" THEN row ELSE Emit(row, <<r, "result">>)
  /\ UNCHANGED <<case, trust, notif, worker, messages, aged>>

\* Any agent may escalate a case, whatever its state.
EscalateCase(c) ==
  /\ c \in Disputed
  /\ case[c].state # "ESCALATED"
  /\ CaseMay(c, "case.escalated", "ESCALATED")
  /\ case' = [case EXCEPT ![c].state = "ESCALATED"]
  /\ UNCHANGED <<release, trust, notif, row, worker, messages, aged>>

ReopenCase(c) ==
  /\ CaseMay(c, "case.reopened", "OPEN")
  /\ case' = [case EXCEPT ![c].state = "OPEN"]
  /\ UNCHANGED <<release, trust, notif, row, worker, messages, aged>>

(***************************************************************************)
(* resolve_and_queue: the case is resolved by a release and owes a reply.   *)
(***************************************************************************)
Resolved(r) == /\ case[CaseOf[r]].state \in {"NOTIFYING", "CLOSED"}
               /\ case[CaseOf[r]].resolved = r

Resolvable(r) ==
  /\ release[r].closure
  /\ \/ Resolved(r)
     \/ /\ release[r].state \in {"promoted", "rolled_back"}
        /\ CaseMay(CaseOf[r], "case.resolved", "NOTIFYING")

\* The projections of one resolution; the notification of a release is queued once.
ResolveAndQueue(r, rows) ==
  /\ case' = IF Resolved(r) THEN case
             ELSE [case EXCEPT ![CaseOf[r]].state = "NOTIFYING", ![CaseOf[r]].resolved = r]
  /\ IF notif[r] = "none"
     THEN notif' = [notif EXCEPT ![r] = "QUEUED"] /\ row' = Emit(rows, <<r, "notify">>)
     ELSE row' = rows /\ UNCHANGED notif

\* POST /v1/notifications.
QueueNotification(r) ==
  /\ Resolvable(r)
  /\ ResolveAndQueue(r, row)
  /\ UNCHANGED <<release, trust, worker, messages, aged>>
-----------------------------------------------------------------------------
(* Claiming.                                                               *)

\* Mutant: only a predecessor nobody has claimed yet holds a row back.
OvertakesClaimed(x) == x[2] # "result" \/ row[<<x[1], "unknown">>].status # "PENDING"

\* No unresolved predecessor in the aggregate: a dead one freezes it.
InOrder(x) == x[2] # "result" \/ row[<<x[1], "unknown">>].status \in {"absent", "SENT"}

\* Mutant: a row is claimed once, and lost with the worker that claimed it.
ClaimableOnce(x) == InOrder(x) /\ row[x].status = "PENDING"

\* outbox_claim_ttl_seconds may have passed: always for a claim nobody works
\* on any more, and for that of a slow worker.
MayExpire(x) == LET w == row[x].holder
                IN row[x].status = "PROCESSING" /\ (w \in Slow \/ worker[w].row # x)

Claimable(x) ==
  /\ InOrder(x)
  /\ row[x].status = "PENDING" \/ MayExpire(x)

\* _claim_one, one transaction under FOR UPDATE SKIP LOCKED.
Claim(w, x) ==
  /\ worker[w].pc = "idle"
  /\ Claimable(x)
  /\ row' = [row EXCEPT ![x] =
       [status |-> "PROCESSING", holder |-> w,
        attempts |-> IF @.attempts > MaxAttempts THEN @.attempts ELSE @.attempts + 1]]
  /\ worker' = [worker EXCEPT ![w] = [Idle EXCEPT !.pc = "dispatch", !.row = x,
                                                  !.again = row[x].attempts > 0]]
  /\ UNCHANGED <<case, release, trust, notif, messages, aged>>

\* _claimed_row: the row is locked and the claim is still this worker's.
Owns(w) == LET x == worker[w].row
           IN row[x].status = "PROCESSING" /\ row[x].holder = w

Works(w, pc, kind) == worker[w].pc = pc /\ worker[w].row[2] = kind

\* _clear_claim.
Unclaimed(x, status) ==
  [row EXCEPT ![x].status = status, ![x].holder = None]

Rest(w) == worker' = [worker EXCEPT ![w] = Idle]
Fail(w, retry) == worker' = [worker EXCEPT ![w].pc = "failed", ![w].retry = retry]

\* The row was settled or reclaimed: neither an effect nor a failure is recorded.
LoseClaim(w) ==
  /\ \/ worker[w].pc \in {"receipt", "failed"}
     \/ Works(w, "dispatch", "unknown") \/ Works(w, "dispatch", "result")
  /\ ~Owns(w)
  /\ Rest(w)
  /\ UNCHANGED <<case, release, trust, notif, row, messages, aged>>

Crash(w) ==
  /\ w \in Crashing
  /\ worker[w].pc # "idle"
  /\ Rest(w)
  /\ UNCHANGED <<case, release, trust, notif, row, messages, aged>>
-----------------------------------------------------------------------------
(* Domain events: consumed and acknowledged in one transaction.             *)

ConsumeUnknown(w) ==
  /\ Works(w, "dispatch", "unknown")
  /\ Owns(w)
  /\ trust' = [trust EXCEPT !.blocked = TRUE]
  /\ row' = Unclaimed(worker[w].row, "SENT")
  /\ Rest(w)
  /\ UNCHANGED <<case, release, notif, messages, aged>>

\* record_outcome refuses while the ledger is blocked; a promoted release, or
\* one with a closure, must also be able to resolve its case.
Accountable(r) ==
  /\ r \in trust.samples \/ ~trust.blocked
  /\ release[r].closure \/ release[r].state = "promoted" => Resolvable(r)

ConsumeResult(w) ==
  LET x == worker[w].row  r == x[1]
  IN /\ Works(w, "dispatch", "result")
     /\ Owns(w)
     /\ Accountable(r)
     /\ trust' = [trust EXCEPT !.samples = @ \cup {r}]
     /\ IF release[r].closure THEN ResolveAndQueue(r, Unclaimed(x, "SENT"))
        ELSE row' = Unclaimed(x, "SENT") /\ UNCHANGED <<case, notif>>
     /\ Rest(w)
     /\ UNCHANGED <<release, messages, aged>>

\* Mutant: the sample is committed before the case turns out unresolvable.
RefuseAfterSample(w) ==
  /\ Works(w, "dispatch", "result")
  /\ Owns(w)
  /\ ~Accountable(worker[w].row[1])
  /\ trust' = IF trust.blocked THEN trust
              ELSE [trust EXCEPT !.samples = @ \cup {worker[w].row[1]}]
  /\ Fail(w, FALSE)
  /\ UNCHANGED <<case, release, notif, row, messages, aged>>

\* The whole transaction is rolled back.
RefuseResult(w) ==
  /\ Works(w, "dispatch", "result")
  /\ Owns(w)
  /\ ~Accountable(worker[w].row[1])
  /\ Fail(w, FALSE)
  /\ UNCHANGED <<case, release, trust, notif, row, messages, aged>>

\* The database or the audit log is unavailable.
ConsumeFails(w) ==
  /\ Works(w, "dispatch", "unknown") \/ Works(w, "dispatch", "result")
  /\ worker[w].row[1] \in Flaky
  /\ Fail(w, TRUE)
  /\ UNCHANGED <<case, release, trust, notif, row, messages, aged>>
-----------------------------------------------------------------------------
(* Notifications: the provider is called between two transactions.         *)

\* Mutant: the age of the first attempt is not checked.
MayCallAnyTime(w) == TRUE

\* A repeated delivery only within the provider's dedup window.
MayCall(w) == ~(worker[w].again /\ worker[w].row[1] \in aged)

CheckWindow(w) ==
  /\ Works(w, "dispatch", "notify")
  /\ IF MayCall(w) THEN worker' = [worker EXCEPT ![w].pc = "call"] ELSE Fail(w, FALSE)
  /\ UNCHANGED <<case, release, trust, notif, row, messages, aged>>

\* The provider deduplicates by outbox_id, but only for a time.
Accept(r) ==
  \/ messages' = [messages EXCEPT ![r] = IF @ = 0 THEN 1 ELSE @]
  \/ r \in aged /\ messages' = [messages EXCEPT ![r] = IF @ < 2 THEN @ + 1 ELSE @]

\* Mutant: an answer that never came is taken for a receipt.
DeliverAssumed(w) ==
  /\ worker[w].pc = "call"
  /\ worker[w].row[1] \in Flaky
  /\ UNCHANGED messages \/ Accept(worker[w].row[1])
  /\ worker' = [worker EXCEPT ![w].pc = "receipt"]
  /\ UNCHANGED <<case, release, trust, notif, row, aged>>

Deliver(w) ==
  /\ worker[w].pc = "call"
  /\ Accept(worker[w].row[1])
  /\ worker' = [worker EXCEPT ![w].pc = "receipt"]
  /\ UNCHANGED <<case, release, trust, notif, row, aged>>

\* No answer, a refusal, or a receipt that is not one of this message: it may
\* have been accepted all the same.
DeliverFails(w) ==
  /\ worker[w].pc = "call"
  /\ worker[w].row[1] \in Flaky
  /\ \E retry \in BOOLEAN : Fail(w, retry)
  /\ UNCHANGED messages \/ Accept(worker[w].row[1])
  /\ UNCHANGED <<case, release, trust, notif, row, aged>>

\* An hour since the first attempt; a worker is not suspended for as long
\* between its check of the window and the answer to its call.
WindowCloses(r) ==
  /\ r \in Delayed \ aged
  /\ row[<<r, "notify">>].attempts > 0
  /\ \A w \in Workers :
       worker[w].row = <<r, "notify">> => worker[w].pc \notin {"dispatch", "call"}
  /\ aged' = aged \cup {r}
  /\ UNCHANGED <<case, release, trust, notif, row, worker, messages>>

\* acknowledge_delivery and _ack: reply, case and row are settled together.
Acknowledge(w) ==
  LET x == worker[w].row  r == x[1]  c == CaseOf[r]
  IN /\ worker[w].pc = "receipt"
     /\ Owns(w)
     /\ NextState(NotificationTable, notif[r], "notification.sent", Free, "SENT")
     /\ CaseMay(c, "case.closed", "CLOSED")
     /\ notif' = [notif EXCEPT ![r] = "SENT"]
     /\ case' = [case EXCEPT ![c].state = "CLOSED"]
     /\ row' = Unclaimed(x, "SENT")
     /\ Rest(w)
     /\ UNCHANGED <<release, trust, messages, aged>>

\* The receipt cannot archive a case that is not NOTIFYING.
RefuseReceipt(w) ==
  /\ worker[w].pc = "receipt"
  /\ Owns(w)
  /\ ~CaseMay(CaseOf[worker[w].row[1]], "case.closed", "CLOSED")
  /\ Fail(w, FALSE)
  /\ UNCHANGED <<case, release, trust, notif, row, messages, aged>>
-----------------------------------------------------------------------------
(* _record_failure.                                                        *)

Exhausted(x) == row[x].attempts >= MaxAttempts

RetryLater(w) ==
  /\ worker[w].pc = "failed"
  /\ Owns(w)
  /\ worker[w].retry /\ ~Exhausted(worker[w].row)
  /\ row' = Unclaimed(worker[w].row, "PENDING")
  /\ Rest(w)
  /\ UNCHANGED <<case, release, trust, notif, messages, aged>>

\* A dead reply escalates its case; that of a case no longer NOTIFYING cannot
\* be recorded, and the claim is left to expire.
GiveUp(w) ==
  LET x == worker[w].row  r == x[1]  c == CaseOf[r]
  IN /\ worker[w].pc = "failed"
     /\ Owns(w)
     /\ ~worker[w].retry \/ Exhausted(x)
     /\ IF x[2] # "notify"
        THEN row' = Unclaimed(x, "DEAD") /\ UNCHANGED <<case, notif>>
        ELSE IF CaseMay(c, "notification.dead_lettered", "ESCALATED")
        THEN /\ row' = Unclaimed(x, "DEAD")
             /\ notif' = [notif EXCEPT ![r] = "DEAD_LETTERED"]
             /\ case' = [case EXCEPT ![c].state = "ESCALATED"]
        ELSE UNCHANGED <<row, notif, case>>
     /\ Rest(w)
     /\ UNCHANGED <<release, trust, messages, aged>>
-----------------------------------------------------------------------------
Step(w) ==
  \/ LoseClaim(w) \/ ConsumeUnknown(w) \/ ConsumeResult(w) \/ RefuseResult(w)
  \/ ConsumeFails(w) \/ CheckWindow(w) \/ Deliver(w) \/ DeliverFails(w)
  \/ Acknowledge(w) \/ RefuseReceipt(w) \/ RetryLater(w) \/ GiveUp(w)

Outside ==
  \/ \E r \in Releases : \/ Approve(r) \/ ReleaseUnknown(r) \/ QueueNotification(r)
                         \/ WindowCloses(r)
  \/ \E r \in Releases, result \in {"promoted", "rolled_back", "escalated"},
        closure \in BOOLEAN : ReleaseEnds(r, result, closure)
  \/ \E c \in Cases : Attribute(c) \/ EscalateCase(c) \/ ReopenCase(c)

Next ==
  \/ Outside
  \/ \E w \in Workers : Step(w) \/ Crash(w) \/ \E x \in Rows : Claim(w, x)

Spec == Init /\ [][Next]_vars
-----------------------------------------------------------------------------
(* Types.  A row is held while it is processed and only then.               *)
TypeOK ==
  /\ case \in [Cases -> [state : CaseStates, work : Releases \cup {None},
                         resolved : Releases \cup {None}]]
  /\ release \in [Releases -> [state : {"none", "running", "promoted", "rolled_back", "escalated"},
                               closure : BOOLEAN]]
  /\ trust \in [blocked : BOOLEAN, samples : SUBSET Releases]
  /\ notif \in [Releases -> NotificationStates \cup {"none"}]
  /\ row \in [Rows -> [status : {"absent", "PENDING", "PROCESSING", "SENT", "DEAD"},
                       attempts : 0 .. MaxAttempts + 1,
                       holder : Workers \cup {None}]]
  /\ worker \in [Workers -> [pc : {"idle", "dispatch", "call", "receipt", "failed"},
                             row : Rows \cup {None}, again : BOOLEAN, retry : BOOLEAN]]
  /\ messages \in [Releases -> 0 .. 2]
  /\ aged \subseteq Releases
  /\ \A x \in Rows : row[x].status = "PROCESSING" <=> row[x].holder # None

(* A release whose outcome was ever unknown never counts as a sample of the  *)
(* trust ledger, in whatever order workers claim, lose and reclaim its rows. *)
UnknownNeverCounts ==
  \A r \in trust.samples : row[<<r, "unknown">>].status = "absent"

(* The ledger and the outbox agree: a release is a sample exactly when its   *)
(* result has been consumed, however often the consumption was retried.      *)
SampledWithItsRow ==
  \A r \in Releases : r \in trust.samples <=> row[<<r, "result">>].status = "SENT"

(* A case is closed only after the complainant has received a reply to it.   *)
ClosedIsAnswered ==
  \A c \in Cases : case[c].state = "CLOSED" =>
    \E r \in Releases : CaseOf[r] = c /\ messages[r] > 0 /\ notif[r] = "SENT"

(***************************************************************************)
(* The reply to a complaint, as ReplyLifecycle promises it.                *)
(***************************************************************************)
Reply == [r \in Releases |-> CASE notif[r] = "none"          -> "none"
                               [] notif[r] = "SENT"          -> "recorded"
                               [] notif[r] = "DEAD_LETTERED" -> "abandoned"
                               [] OTHER                      -> "owed"]

Replies == INSTANCE ReplyLifecycle WITH reply <- Reply

(* Claims, leases, retries and crashes together deliver a reply once, record *)
(* it only when delivered, and abandon it only with its case escalated.      *)
ImplementsReply == Replies!Spec

(***************************************************************************)
(* Liveness: a worker goes on or dies, and one that does not die finishes    *)
(* within its lease; _claim_one takes the oldest row, so that no row is      *)
(* passed over for ever.                                                    *)
(***************************************************************************)
Fairness ==
  /\ \A w \in Workers \ Slow : WF_vars(Step(w) \/ Crash(w))
  /\ \A w \in Workers \ (Crashing \cup Slow), x \in Rows : SF_vars(Claim(w, x))

FairSpec == Spec /\ Fairness

(* A reply that is owed to a case still waiting for it is delivered or given *)
(* up, even if other workers keep dying with its claim.                      *)
RepliesSettle ==
  \A r \in Releases :
    notif[r] = "QUEUED" /\ case[CaseOf[r]].state = "NOTIFYING"
      ~> notif[r] # "QUEUED" \/ case[CaseOf[r]].state # "NOTIFYING"

=============================================================================
