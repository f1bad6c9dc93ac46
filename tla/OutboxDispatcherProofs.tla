------------------------ MODULE OutboxDispatcherProofs ------------------------
(***************************************************************************)
(* Proofs about OutboxDispatcher for any cases, releases, workers, faults   *)
(* and limit of attempts: its types; that the trust ledger counts what the  *)
(* outbox has settled and nothing whose outcome was unknown; that the reply *)
(* to a complaint is delivered, recorded and abandoned as ReplyLifecycle    *)
(* promises, and a case closed only with it.                                *)
(***************************************************************************)
EXTENDS OutboxDispatcher, TLAPS

Status(r, kind) == row[<<r, kind>>].status

\* A worker that is not idle has a row, and calls the provider for replies only.
WorkerInv ==
  \A w \in Workers :
    /\ worker[w].pc # "idle" => worker[w].row \in Rows
    /\ worker[w].pc \in {"call", "receipt"} => worker[w].row[2] = "notify"

\* Which rows exist yet.
RowInv ==
  \A r \in Releases :
    /\ release[r].state = "none" => Status(r, "unknown") = "absent"
    /\ release[r].state \in {"none", "running"} => Status(r, "result") = "absent"
    /\ notif[r] = "none" <=> Status(r, "notify") = "absent"

\* A result is at work only when the UNKNOWN before it has blocked the ledger.
OrderInv ==
  \A r \in Releases :
    /\ Status(r, "unknown") = "SENT" => trust.blocked
    /\ Status(r, "result") = "PROCESSING" => Status(r, "unknown") \in {"absent", "SENT"}

IInv ==
  TypeOK /\ WorkerInv /\ RowInv /\ OrderInv /\ SampledWithItsRow /\ UnknownNeverCounts
-----------------------------------------------------------------------------
LEMMA RowParts ==
  ASSUME NEW x \in Rows
  PROVE  /\ x = <<x[1], x[2]>>
         /\ x[1] \in Releases
         /\ x[2] \in {"unknown", "result", "notify"}
BY DEF Rows

LEMMA RowsOf ==
  ASSUME NEW r \in Releases, NEW kind \in {"unknown", "result", "notify"}
  PROVE  <<r, kind>> \in Rows
BY DEF Rows

CaseRecord == [state : CaseStates, work : Releases \cup {None}, resolved : Releases \cup {None}]
ReleaseRecord == [state : {"none", "running", "promoted", "rolled_back", "escalated"},
                  closure : BOOLEAN]
RowRecord == [status : {"absent", "PENDING", "PROCESSING", "SENT", "DEAD"},
              attempts : 0 .. MaxAttempts + 1, holder : Workers \cup {None}]
WorkerRecord == [pc : {"idle", "dispatch", "call", "receipt", "failed"},
                 row : Rows \cup {None}, again : BOOLEAN, retry : BOOLEAN]

Held(rows) == \A x \in Rows : rows[x].status = "PROCESSING" <=> rows[x].holder # None

RowsOK(rows) == rows \in [Rows -> RowRecord] /\ Held(rows)
WorkersOK == worker \in [Workers -> WorkerRecord] /\ WorkerInv

LEMMA TypeParts ==
  TypeOK <=> /\ case \in [Cases -> CaseRecord]
             /\ release \in [Releases -> ReleaseRecord]
             /\ trust \in [blocked : BOOLEAN, samples : SUBSET Releases]
             /\ notif \in [Releases -> NotificationStates \cup {"none"}]
             /\ RowsOK(row)
             /\ worker \in [Workers -> WorkerRecord]
             /\ messages \in [Releases -> 0 .. 2]
             /\ aged \subseteq Releases
BY DEF TypeOK, CaseRecord, ReleaseRecord, RowRecord, WorkerRecord, RowsOK, Held

LEMMA TypePartsNext ==
  ASSUME case' \in [Cases -> CaseRecord],
         release' \in [Releases -> ReleaseRecord],
         trust' \in [blocked : BOOLEAN, samples : SUBSET Releases],
         notif' \in [Releases -> NotificationStates \cup {"none"}],
         RowsOK(row'),
         worker' \in [Workers -> WorkerRecord],
         messages' \in [Releases -> 0 .. 2],
         aged' \subseteq Releases
  PROVE  TypeOK'
BY DEF TypeOK, CaseRecord, ReleaseRecord, RowRecord, WorkerRecord, RowsOK, Held

\* What may be done to the rows: one of them changes, and their types remain.
LEMMA EmitRows ==
  ASSUME NEW rows, RowsOK(rows), NEW x \in Rows, rows[x].status # "PROCESSING"
  PROVE  /\ RowsOK(Emit(rows, x))
         /\ \A y \in Rows :
              Emit(rows, x)[y].status = IF y = x THEN "PENDING" ELSE rows[y].status
BY DEF Emit, RowRecord, Held, RowsOK

LEMMA UnclaimedRows ==
  ASSUME RowsOK(row), NEW x \in Rows, NEW status \in {"PENDING", "SENT", "DEAD"}
  PROVE  /\ RowsOK(Unclaimed(x, status))
         /\ \A y \in Rows :
              Unclaimed(x, status)[y].status = IF y = x THEN status ELSE row[y].status
BY DEF Unclaimed, RowRecord, Held, RowsOK

\* What may become of a worker.
LEMMA IdleType == Idle \in WorkerRecord
BY DEF Idle, WorkerRecord

LEMMA RestWorkers ==
  ASSUME WorkersOK, NEW w \in Workers, Rest(w)
  PROVE  WorkersOK'
<1>1. worker' \in [Workers -> WorkerRecord]
  BY IdleType DEF Rest, WorkersOK
<1>2. WorkerInv'
  BY DEF Rest, WorkersOK, WorkerInv, Idle
<1> QED  BY <1>1, <1>2 DEF WorkersOK

LEMMA FailWorkers ==
  ASSUME WorkersOK, NEW w \in Workers, worker[w].pc # "idle", NEW retry \in BOOLEAN,
         Fail(w, retry)
  PROVE  WorkersOK'
<1>1. worker' \in [Workers -> WorkerRecord]
  BY DEF Fail, WorkersOK, WorkerRecord
<1>2. WorkerInv'
  BY DEF Fail, WorkersOK, WorkerInv, WorkerRecord
<1> QED  BY <1>1, <1>2 DEF WorkersOK

LEMMA GoOnWorkers ==
  ASSUME WorkersOK, NEW w \in Workers, worker[w].pc # "idle", worker[w].row[2] = "notify",
         NEW pc \in {"call", "receipt"}, worker' = [worker EXCEPT ![w].pc = pc]
  PROVE  WorkersOK'
<1>1. worker' \in [Workers -> WorkerRecord]
  BY DEF WorkersOK, WorkerRecord
<1>2. WorkerInv'
  BY DEF WorkersOK, WorkerInv, WorkerRecord
<1> QED  BY <1>1, <1>2 DEF WorkersOK
-----------------------------------------------------------------------------
(* How rows, samples and releases move in one step.                         *)

\* The transaction that writes a row.
Announced(x) ==
  /\ x[2] = "unknown" => release[x[1]].state = "running" /\ release' = release
  /\ x[2] = "result"  => /\ release[x[1]].state = "running"
                         /\ release'[x[1]].state \notin {"none", "running"}
  /\ x[2] = "notify"  => notif[x[1]] = "none" /\ notif'[x[1]] # "none"

\* The transaction that acknowledges one.
Consumed(x) ==
  /\ x[2] = "unknown" => trust'.blocked
  /\ x[2] = "result"  => x[1] \in trust'.samples

RowMove(x) ==
  LET from == row[x].status  to == row'[x].status
  IN \/ to = from
     \/ from = "absent" /\ to = "PENDING" /\ Announced(x)
     \/ from = "PENDING" /\ to = "PROCESSING" /\ InOrder(x)
     \/ /\ from = "PROCESSING" /\ to \in {"PENDING", "SENT", "DEAD"}
        /\ to = "SENT" => Consumed(x)

TrustMove ==
  /\ trust.blocked => trust'.blocked
  /\ trust.samples \subseteq trust'.samples
  /\ \A r \in trust'.samples \ trust.samples :
       ~trust.blocked /\ Status(r, "result") = "PROCESSING" /\ Status(r, "result")' = "SENT"

ReleaseMove(r) ==
  /\ release'[r].state = "none" => release[r].state = "none"
  /\ release'[r].state = "running" => release[r].state \in {"none", "running"}
  /\ notif'[r] = "none" => notif[r] = "none"
  /\ notif[r] = "none" /\ notif'[r] # "none" => Status(r, "notify")' = "PENDING"

Moves == (\A x \in Rows : RowMove(x)) /\ TrustMove /\ \A r \in Releases : ReleaseMove(r)

LEMMA StillMoves ==
  ASSUME UNCHANGED <<release, trust, notif, row>>
  PROVE  Moves
BY DEF Moves, RowMove, TrustMove, ReleaseMove

\* The moves of the three rows of one release.
LEMMA MovesOf ==
  ASSUME NEW r \in Releases, Moves
  PROVE  /\ RowMove(<<r, "unknown">>)
         /\ RowMove(<<r, "result">>)
         /\ RowMove(<<r, "notify">>)
         /\ ReleaseMove(r)
BY RowsOf DEF Moves

LEMMA MovesKeepRows ==
  ASSUME IInv, Moves
  PROVE  RowInv'
<1> SUFFICES ASSUME NEW r \in Releases
             PROVE  /\ release'[r].state = "none" => Status(r, "unknown")' = "absent"
                    /\ release'[r].state \in {"none", "running"} =>
                         Status(r, "result")' = "absent"
                    /\ notif'[r] = "none" <=> Status(r, "notify")' = "absent"
  BY DEF RowInv, Status
<1>1. /\ release[r].state = "none" => Status(r, "unknown") = "absent"
      /\ release[r].state \in {"none", "running"} => Status(r, "result") = "absent"
      /\ notif[r] = "none" <=> Status(r, "notify") = "absent"
  BY DEF IInv, RowInv
<1>2. release'[r].state = "none" => Status(r, "unknown")' = "absent"
  BY <1>1, MovesOf DEF RowMove, ReleaseMove, Announced, Status
<1>3. release'[r].state \in {"none", "running"} => Status(r, "result")' = "absent"
  BY <1>1, MovesOf DEF RowMove, ReleaseMove, Announced, Status
<1>4. notif'[r] = "none" <=> Status(r, "notify")' = "absent"
  BY <1>1, MovesOf DEF RowMove, ReleaseMove, Announced, Status
<1> QED  BY <1>2, <1>3, <1>4

\* Once a release has a result, its UNKNOWN row is not written any more.
LEMMA NotAnnouncedLate ==
  ASSUME IInv, Moves, NEW r \in Releases, Status(r, "result") # "absent",
         Status(r, "unknown") = "absent"
  PROVE  Status(r, "unknown")' = "absent"
<1>1. release[r].state # "running"
  BY DEF IInv, RowInv
<1> QED  BY <1>1, MovesOf DEF RowMove, Announced, Status

LEMMA MovesKeepOrder ==
  ASSUME IInv, Moves
  PROVE  OrderInv'
<1> SUFFICES ASSUME NEW r \in Releases
             PROVE  /\ Status(r, "unknown")' = "SENT" => trust'.blocked
                    /\ Status(r, "result")' = "PROCESSING" =>
                         Status(r, "unknown")' \in {"absent", "SENT"}
  BY DEF OrderInv, Status
<1>1. /\ Status(r, "unknown") = "SENT" => trust.blocked
      /\ Status(r, "result") = "PROCESSING" => Status(r, "unknown") \in {"absent", "SENT"}
  BY DEF IInv, OrderInv
<1>2. Status(r, "unknown")' = "SENT" => trust'.blocked
  BY <1>1, MovesOf DEF RowMove, Moves, TrustMove, Consumed, Status
<1>3. ASSUME Status(r, "result")' = "PROCESSING"
      PROVE  Status(r, "unknown")' \in {"absent", "SENT"}
  <2>1. Status(r, "result") # "absent" /\ Status(r, "unknown") \in {"absent", "SENT"}
    BY <1>1, <1>3, MovesOf DEF RowMove, InOrder, Status
  <2>2. CASE Status(r, "unknown") = "absent"
    BY <2>1, <2>2, NotAnnouncedLate
  <2>3. CASE Status(r, "unknown") = "SENT"
    BY <2>3, MovesOf DEF RowMove, Status
  <2> QED  BY <2>1, <2>2, <2>3
<1> QED  BY <1>2, <1>3

LEMMA MovesKeepSamples ==
  ASSUME IInv, Moves
  PROVE  SampledWithItsRow'
<1> SUFFICES ASSUME NEW r \in Releases
             PROVE  r \in trust'.samples <=> Status(r, "result")' = "SENT"
  BY DEF SampledWithItsRow, Status
<1>1. r \in trust.samples <=> Status(r, "result") = "SENT"
  BY DEF IInv, SampledWithItsRow, Status
<1>2. ASSUME r \in trust'.samples  PROVE Status(r, "result")' = "SENT"
  BY <1>1, <1>2, MovesOf DEF RowMove, Moves, TrustMove, Status
<1>3. ASSUME Status(r, "result")' = "SENT"  PROVE r \in trust'.samples
  BY <1>1, <1>3, MovesOf DEF RowMove, Moves, TrustMove, Consumed, Status
<1> QED  BY <1>2, <1>3

LEMMA MovesKeepUnknownOut ==
  ASSUME IInv, Moves, trust'.samples \subseteq Releases
  PROVE  UnknownNeverCounts'
<1> SUFFICES ASSUME NEW r \in trust'.samples
             PROVE  Status(r, "unknown")' = "absent"
  BY DEF UnknownNeverCounts, Status
<1>1. r \in Releases
  OBVIOUS
<1>2. CASE r \in trust.samples
  <2>1. Status(r, "unknown") = "absent" /\ Status(r, "result") = "SENT"
    BY <1>1, <1>2 DEF IInv, UnknownNeverCounts, SampledWithItsRow, Status
  <2> QED  BY <1>1, <2>1, NotAnnouncedLate
<1>3. CASE r \notin trust.samples
  <2>1. ~trust.blocked /\ Status(r, "result") = "PROCESSING"
    BY <1>3 DEF Moves, TrustMove
  <2>2. Status(r, "unknown") = "absent"
    BY <1>1, <2>1 DEF IInv, OrderInv
  <2> QED  BY <1>1, <2>1, <2>2, NotAnnouncedLate
<1> QED  BY <1>2, <1>3
-----------------------------------------------------------------------------
(* Each action keeps the types and makes only those moves.                  *)

Kept == TypeOK' /\ WorkerInv' /\ Moves

LEMMA Parts ==
  ASSUME IInv
  PROVE  TypeOK /\ WorkersOK /\ RowsOK(row) /\ RowInv
BY TypeParts DEF IInv, WorkersOK

\* Actions that leave rows, ledger, releases and notifications alone.
Still == UNCHANGED <<release, trust, notif, row>>

LEMMA StillKept ==
  ASSUME IInv, Still, WorkersOK', case' \in [Cases -> CaseRecord],
         messages' \in [Releases -> 0 .. 2], aged' \subseteq Releases
  PROVE  Kept
<1>1. TypeOK'
  BY Parts, TypeParts, TypePartsNext DEF Still, WorkersOK
<1> QED  BY <1>1, StillMoves DEF Kept, Still, WorkersOK

LEMMA WorkersStay ==
  ASSUME IInv, UNCHANGED worker
  PROVE  WorkersOK'
BY Parts DEF WorkersOK, WorkerInv

LEMMA CaseActionsKept ==
  ASSUME IInv, NEW c \in Cases, Attribute(c) \/ EscalateCase(c) \/ ReopenCase(c)
  PROVE  Kept
<1>1. case' \in [Cases -> CaseRecord]
  <2>1. case \in [Cases -> CaseRecord] /\ case[c] \in CaseRecord BY Parts, TypeParts
  <2>2. \A s \in CaseStates : [case EXCEPT ![c].state = s] \in [Cases -> CaseRecord]
    BY <2>1 DEF CaseRecord
  <2> QED BY <2>1, <2>2 DEF Attribute, EscalateCase, ReopenCase, CaseRecord, CaseStates
<1>2. Still /\ UNCHANGED <<worker, messages, aged>>
  BY DEF Attribute, EscalateCase, ReopenCase, Still
<1> QED  BY <1>1, <1>2, WorkersStay, StillKept, Parts, TypeParts

LEMMA WindowClosesKept ==
  ASSUME IInv, NEW r \in Releases, WindowCloses(r)
  PROVE  Kept
<1>1. Still /\ UNCHANGED <<case, worker, messages>> /\ aged' \subseteq Releases
  BY Parts, TypeParts DEF WindowCloses, Still
<1> QED  BY <1>1, WorkersStay, StillKept, Parts, TypeParts

\* A worker that has a claim has a row.
LEMMA RowOf ==
  ASSUME IInv, NEW w \in Workers, worker[w].pc # "idle"
  PROVE  worker[w].row \in Rows /\ worker[w].row[1] \in Releases
BY Parts, RowParts DEF WorkersOK, WorkerInv

LEMMA AcceptType ==
  ASSUME messages \in [Releases -> 0 .. 2], NEW r \in Releases, Accept(r)
  PROVE  messages' \in [Releases -> 0 .. 2]
BY DEF Accept

\* The steps of a worker that record nothing in the database.
LEMMA WorkerActionsKept ==
  ASSUME IInv, NEW w \in Workers,
         \/ LoseClaim(w) \/ Crash(w) \/ RefuseResult(w) \/ ConsumeFails(w)
         \/ CheckWindow(w) \/ Deliver(w) \/ DeliverFails(w) \/ RefuseReceipt(w)
  PROVE  Kept
<1>1. Still /\ UNCHANGED <<case, aged>>
  BY DEF LoseClaim, Crash, RefuseResult, ConsumeFails, CheckWindow, Deliver,
         DeliverFails, RefuseReceipt, Still
<1>2. worker[w].pc # "idle"
  BY DEF LoseClaim, Crash, RefuseResult, ConsumeFails, CheckWindow, Deliver,
         DeliverFails, RefuseReceipt, Works
<1>3. messages' \in [Releases -> 0 .. 2]
  <2>1. CASE Deliver(w) \/ DeliverFails(w)
    BY <1>2, <2>1, RowOf, AcceptType, Parts, TypeParts DEF Deliver, DeliverFails
  <2>2. CASE ~(Deliver(w) \/ DeliverFails(w))
    BY <2>2, Parts, TypeParts
       DEF LoseClaim, Crash, RefuseResult, ConsumeFails, CheckWindow, RefuseReceipt
  <2> QED  BY <2>1, <2>2
<1>4. \/ Rest(w)
      \/ \E retry \in BOOLEAN : Fail(w, retry)
      \/ /\ worker[w].row[2] = "notify"
         /\ \E pc \in {"call", "receipt"} : worker' = [worker EXCEPT ![w].pc = pc]
  <2>1. worker[w].pc = "call" => worker[w].row[2] = "notify"
    BY Parts DEF WorkersOK, WorkerInv
  <2> QED  BY <2>1 DEF LoseClaim, Crash, RefuseResult, ConsumeFails, CheckWindow, Deliver,
                       DeliverFails, RefuseReceipt, Works
<1>5. WorkersOK'
  BY <1>2, <1>4, Parts, RestWorkers, FailWorkers, GoOnWorkers
<1> QED  BY <1>1, <1>3, <1>5, StillKept, Parts, TypeParts

LEMMA ClaimingType ==
  ASSUME NEW x \in Rows, NEW again \in BOOLEAN
  PROVE  [Idle EXCEPT !.pc = "dispatch", !.row = x, !.again = again] \in WorkerRecord
BY DEF Idle, WorkerRecord

LEMMA ClaimKept ==
  ASSUME IInv, NEW w \in Workers, NEW x \in Rows, Claim(w, x)
  PROVE  Kept
<1>1. /\ row[x].status \in {"PENDING", "PROCESSING"} /\ InOrder(x)
      /\ UNCHANGED <<case, release, trust, notif, messages, aged>>
  BY DEF Claim, Claimable, MayExpire
<1>2. row' \in [Rows -> RowRecord]
  BY Parts, AttemptAssumption DEF Claim, RowsOK, RowRecord
<1>3. \A y \in Rows : row'[y].status = IF y = x THEN "PROCESSING" ELSE row[y].status
  BY Parts DEF Claim, RowsOK
<1>4. Held(row')
  BY Parts, NoneAssumption DEF Claim, RowsOK, Held
<1>5. worker' \in [Workers -> WorkerRecord]
  <2> DEFINE again == row[x].attempts > 0
             rec == [Idle EXCEPT !.pc = "dispatch", !.row = x, !.again = again]
  <2>1. rec \in WorkerRecord
    <3>1. again \in BOOLEAN
      OBVIOUS
    <3> QED  BY <3>1, ClaimingType
  <2>2. worker' = [worker EXCEPT ![w] = rec]
    BY DEF Claim
  <2> QED  BY <2>1, <2>2, Parts DEF WorkersOK
<1>6. WorkerInv'
  BY Parts DEF Claim, WorkersOK, WorkerInv, Idle
<1>7. TypeOK'
  <2>1. RowsOK(row')
    BY <1>2, <1>4 DEF RowsOK
  <2> QED  BY <2>1, <1>1, <1>5, Parts, TypeParts, TypePartsNext
<1>8. Moves
  BY <1>1, <1>3, RowsOf DEF Moves, RowMove, TrustMove, ReleaseMove
<1> QED  BY <1>6, <1>7, <1>8 DEF Kept

LEMMA ApproveKept ==
  ASSUME IInv, NEW r \in Releases, Approve(r)
  PROVE  Kept
<1>1. /\ UNCHANGED <<trust, notif, row, worker, messages, aged>>
      /\ release[r].state = "none"
      /\ release' = [release EXCEPT ![r].state = "running"]
  BY DEF Approve
<1>2. case' \in [Cases -> CaseRecord]
  <2>1. case \in [Cases -> CaseRecord] /\ CaseOf[r] \in Cases
    BY Parts, TypeParts, CaseAssumption
  <2>2. case' = [case EXCEPT ![CaseOf[r]].state = "RELEASING", ![CaseOf[r]].work = r]
    BY DEF Approve
  <2> QED  BY <2>1, <2>2 DEF CaseRecord, CaseStates
<1>3. release' \in [Releases -> ReleaseRecord]
  BY <1>1, Parts, TypeParts DEF ReleaseRecord
<1>4. Moves
  BY <1>1, Parts, TypeParts DEF Moves, RowMove, TrustMove, ReleaseMove, ReleaseRecord
<1> QED  BY <1>1, <1>2, <1>3, <1>4, WorkersStay, Parts, TypeParts, TypePartsNext
         DEF Kept, WorkersOK

LEMMA ReleaseUnknownKept ==
  ASSUME IInv, NEW r \in Releases, ReleaseUnknown(r)
  PROVE  Kept
<1> DEFINE x == <<r, "unknown">>
<1>1. /\ UNCHANGED <<case, release, trust, notif, worker, messages, aged>>
      /\ release[r].state = "running" /\ row[x].status = "absent"
      /\ row' = Emit(row, x) /\ x \in Rows
  BY RowsOf DEF ReleaseUnknown
<1>2. /\ RowsOK(row')
      /\ \A y \in Rows : row'[y].status = IF y = x THEN "PENDING" ELSE row[y].status
  BY <1>1, Parts, EmitRows
<1>3. Moves
  <2>1. \A y \in Rows : RowMove(y)
    BY <1>1, <1>2 DEF RowMove, Announced
  <2> QED  BY <1>1, <2>1 DEF Moves, TrustMove, ReleaseMove
<1> QED  BY <1>1, <1>2, <1>3, WorkersStay, Parts, TypeParts, TypePartsNext
         DEF Kept, WorkersOK

LEMMA ReleaseEndsKept ==
  ASSUME IInv, NEW r \in Releases, NEW result \in {"promoted", "rolled_back", "escalated"},
         NEW closure \in BOOLEAN, ReleaseEnds(r, result, closure)
  PROVE  Kept
<1> DEFINE x == <<r, "result">>
<1>1. /\ UNCHANGED <<case, trust, notif, worker, messages, aged>>
      /\ release[r].state = "running" /\ x \in Rows
      /\ release' = [release EXCEPT ![r] = [state |-> result, closure |-> closure]]
  BY RowsOf DEF ReleaseEnds
<1>2. row[x].status = "absent"
  BY <1>1, Parts DEF RowInv, Status
<1>3. release' \in [Releases -> ReleaseRecord]
  BY <1>1, Parts, TypeParts DEF ReleaseRecord
<1>4. release'[r].state = result
      /\ \A s \in Releases : s # r => release'[s] = release[s]
  BY <1>1, Parts, TypeParts DEF ReleaseRecord
<1>5. row' = row \/ row' = Emit(row, x)
  BY DEF ReleaseEnds
<1>6. RowsOK(row')
  BY <1>1, <1>2, <1>5, Parts, EmitRows
<1>7. Moves
  <2>1. \A y \in Rows : row'[y].status = row[y].status \/ (y = x /\ row'[y].status = "PENDING")
    BY <1>1, <1>2, <1>5, Parts, EmitRows
  <2>2. \A y \in Rows : RowMove(y)
    BY <1>1, <1>2, <1>4, <2>1 DEF RowMove, Announced
  <2> QED  BY <1>1, <1>4, <2>2 DEF Moves, TrustMove, ReleaseMove
<1> QED  BY <1>1, <1>3, <1>6, <1>7, WorkersStay, Parts, TypeParts, TypePartsNext
         DEF Kept, WorkersOK

\* A resolution adds the notify row to the rows it is given, if it was not there.
LEMMA ResolveAndQueueRows ==
  ASSUME IInv, NEW r \in Releases, NEW rows, RowsOK(rows),
         rows[<<r, "notify">>].status = row[<<r, "notify">>].status,
         ResolveAndQueue(r, rows)
  PROVE  /\ case' \in [Cases -> CaseRecord]
         /\ notif' \in [Releases -> NotificationStates \cup {"none"}]
         /\ RowsOK(row')
         /\ \A y \in Rows :
              \/ row'[y].status = rows[y].status
              \/ /\ y = <<r, "notify">> /\ rows[y].status = "absent"
                 /\ row'[y].status = "PENDING"
                 /\ notif[r] = "none" /\ notif'[r] # "none"
         /\ \A s \in Releases :
              \/ notif'[s] = notif[s]
              \/ notif[s] = "none" /\ notif'[s] # "none" /\ Status(s, "notify")' = "PENDING"
<1> DEFINE x == <<r, "notify">>
<1>1. x \in Rows
  BY RowsOf
<1>2. case' \in [Cases -> CaseRecord]
  <2>1. CaseOf[r] \in Cases /\ case \in [Cases -> CaseRecord]
    BY Parts, TypeParts, CaseAssumption
  <2>2. CASE Resolved(r)
    BY <2>1, <2>2 DEF ResolveAndQueue
  <2>3. CASE ~Resolved(r)
    <3>1. case' = [case EXCEPT ![CaseOf[r]].state = "NOTIFYING", ![CaseOf[r]].resolved = r]
      BY <2>3 DEF ResolveAndQueue
    <3> QED  BY <2>1, <3>1 DEF CaseRecord, CaseStates
  <2> QED  BY <2>2, <2>3
<1>3. CASE notif[r] = "none"
  <2>1. notif' = [notif EXCEPT ![r] = "QUEUED"] /\ row' = Emit(rows, x)
    BY <1>3 DEF ResolveAndQueue
  <2>2. rows[x].status = "absent"
    BY <1>3, Parts DEF RowInv, Status
  <2>3. /\ RowsOK(row')
        /\ \A y \in Rows : row'[y].status = IF y = x THEN "PENDING" ELSE rows[y].status
    BY <1>1, <2>1, <2>2, EmitRows
  <2>4. /\ notif' \in [Releases -> NotificationStates \cup {"none"}]
        /\ \A s \in Releases : notif'[s] = IF s = r THEN "QUEUED" ELSE notif[s]
    BY <2>1, Parts, TypeParts DEF NotificationStates
  <2> QED  BY <1>1, <1>2, <1>3, <2>2, <2>3, <2>4 DEF Status
<1>4. CASE notif[r] # "none"
  <2>1. row' = rows /\ UNCHANGED notif
    BY <1>4 DEF ResolveAndQueue
  <2> QED  BY <1>2, <2>1, Parts, TypeParts
<1> QED  BY <1>3, <1>4

LEMMA QueueNotificationKept ==
  ASSUME IInv, NEW r \in Releases, QueueNotification(r)
  PROVE  Kept
<1>1. ResolveAndQueue(r, row) /\ UNCHANGED <<release, trust, worker, messages, aged>>
  BY DEF QueueNotification
<1>2. /\ case' \in [Cases -> CaseRecord]
      /\ notif' \in [Releases -> NotificationStates \cup {"none"}]
      /\ RowsOK(row')
  BY <1>1, Parts, ResolveAndQueueRows
<1>3. \A y \in Rows : RowMove(y)
  <2>1. \A y \in Rows :
          \/ row'[y].status = row[y].status
          \/ /\ y = <<r, "notify">> /\ row[y].status = "absent"
             /\ row'[y].status = "PENDING"
             /\ notif[r] = "none" /\ notif'[r] # "none"
    BY <1>1, Parts, ResolveAndQueueRows
  <2> QED  BY <2>1 DEF RowMove, Announced
<1>4. \A s \in Releases : ReleaseMove(s)
  BY <1>1, Parts, ResolveAndQueueRows DEF ReleaseMove
<1>5. Moves
  BY <1>1, <1>3, <1>4 DEF Moves, TrustMove
<1> QED  BY <1>1, <1>2, <1>5, WorkersStay, Parts, TypeParts, TypePartsNext
         DEF Kept, WorkersOK

LEMMA ConsumeUnknownKept ==
  ASSUME IInv, NEW w \in Workers, ConsumeUnknown(w)
  PROVE  Kept
<1> DEFINE x == worker[w].row
<1>1. /\ UNCHANGED <<case, release, notif, messages, aged>>
      /\ x \in Rows /\ x[2] = "unknown" /\ row[x].status = "PROCESSING"
      /\ trust' = [trust EXCEPT !.blocked = TRUE]
      /\ row' = Unclaimed(x, "SENT")
  BY RowOf DEF ConsumeUnknown, Works, Owns
<1>2. /\ RowsOK(row')
      /\ \A y \in Rows : row'[y].status = IF y = x THEN "SENT" ELSE row[y].status
  BY <1>1, Parts, UnclaimedRows
<1>3. /\ trust' \in [blocked : BOOLEAN, samples : SUBSET Releases]
      /\ trust'.blocked /\ trust'.samples = trust.samples
  BY <1>1, Parts, TypeParts
<1>4. WorkersOK'
  BY Parts, RestWorkers DEF ConsumeUnknown
<1>5. Moves
  <2>1. \A y \in Rows : RowMove(y)
    BY <1>1, <1>2, <1>3 DEF RowMove, Consumed
  <2> QED  BY <1>1, <1>3, <2>1 DEF Moves, TrustMove, ReleaseMove
<1> QED  BY <1>1, <1>2, <1>3, <1>4, <1>5, Parts, TypeParts, TypePartsNext
         DEF Kept, WorkersOK

LEMMA ConsumeResultKept ==
  ASSUME IInv, NEW w \in Workers, ConsumeResult(w)
  PROVE  Kept
<1> DEFINE x == worker[w].row
           r == x[1]
           done == Unclaimed(x, "SENT")
<1>1. /\ UNCHANGED <<release, messages, aged>>
      /\ x \in Rows /\ r \in Releases /\ x = <<r, "result">>
      /\ row[x].status = "PROCESSING"
      /\ r \in trust.samples \/ ~trust.blocked
      /\ trust' = [trust EXCEPT !.samples = @ \cup {r}]
  BY RowOf, RowParts DEF ConsumeResult, Works, Owns, Accountable
<1>2. /\ RowsOK(done)
      /\ \A y \in Rows : done[y].status = IF y = x THEN "SENT" ELSE row[y].status
  BY <1>1, Parts, UnclaimedRows
<1>3. /\ trust' \in [blocked : BOOLEAN, samples : SUBSET Releases]
      /\ trust'.blocked = trust.blocked /\ trust'.samples = trust.samples \cup {r}
  BY <1>1, Parts, TypeParts
<1>4. WorkersOK'
  BY Parts, RestWorkers DEF ConsumeResult
<1>5. /\ case' \in [Cases -> CaseRecord]
      /\ notif' \in [Releases -> NotificationStates \cup {"none"}]
      /\ RowsOK(row')
      /\ \A y \in Rows :
           \/ row'[y].status = done[y].status
           \/ /\ y = <<r, "notify">> /\ done[y].status = "absent"
              /\ row'[y].status = "PENDING"
              /\ notif[r] = "none" /\ notif'[r] # "none"
      /\ \A s \in Releases :
           \/ notif'[s] = notif[s]
           \/ notif[s] = "none" /\ notif'[s] # "none" /\ Status(s, "notify")' = "PENDING"
  <2>1. CASE release[r].closure
    <3>1. ResolveAndQueue(r, done)
      BY <2>1 DEF ConsumeResult
    <3>2. done[<<r, "notify">>].status = row[<<r, "notify">>].status
      <4>1. <<r, "notify">> \in Rows /\ <<r, "notify">> # <<r, "result">>
        BY <1>1, RowsOf
      <4> HIDE DEF r, done
      <4> QED  BY <1>1, <1>2, <4>1
    <3> HIDE DEF r, done
    <3> QED  BY <1>1, <1>2, <3>1, <3>2, ResolveAndQueueRows
  <2>2. CASE ~release[r].closure
    <3>1. row' = done /\ UNCHANGED <<case, notif>>
      BY <2>2 DEF ConsumeResult
    <3> QED  BY <1>2, <3>1, Parts, TypeParts
  <2> QED  BY <2>1, <2>2
<1>6. Moves
  <2>1. row'[x].status = "SENT"
    BY <1>1, <1>2, <1>5
  <2>2. \A y \in Rows :
          \/ row'[y].status = row[y].status
          \/ y = x /\ row'[y].status = "SENT"
          \/ /\ y = <<r, "notify">> /\ row[y].status = "absent"
             /\ row'[y].status = "PENDING"
             /\ notif[r] = "none" /\ notif'[r] # "none"
    BY <1>1, <1>2, <1>5
  <2> HIDE DEF x, r
  <2>3. \A y \in Rows : RowMove(y)
    BY <1>1, <1>3, <2>2 DEF RowMove, Consumed, Announced
  <2>4. TrustMove
    BY <1>1, <1>3, <2>1 DEF TrustMove, Status
  <2>5. \A s \in Releases : ReleaseMove(s)
    BY <1>1, <1>5 DEF ReleaseMove
  <2> QED  BY <2>3, <2>4, <2>5 DEF Moves
<1> QED  BY <1>1, <1>3, <1>4, <1>5, <1>6, Parts, TypeParts, TypePartsNext
         DEF Kept, WorkersOK

LEMMA RetryLaterKept ==
  ASSUME IInv, NEW w \in Workers, RetryLater(w)
  PROVE  Kept
<1> DEFINE x == worker[w].row
<1>1. /\ UNCHANGED <<case, release, trust, notif, messages, aged>>
      /\ x \in Rows /\ row[x].status = "PROCESSING" /\ row' = Unclaimed(x, "PENDING")
  BY RowOf DEF RetryLater, Owns
<1>2. /\ RowsOK(row')
      /\ \A y \in Rows : row'[y].status = IF y = x THEN "PENDING" ELSE row[y].status
  BY <1>1, Parts, UnclaimedRows
<1>3. Moves
  BY <1>1, <1>2 DEF Moves, RowMove, TrustMove, ReleaseMove
<1>4. WorkersOK'
  BY Parts, RestWorkers DEF RetryLater
<1> QED  BY <1>1, <1>2, <1>3, <1>4, Parts, TypeParts, TypePartsNext
         DEF Kept, WorkersOK

\* A claimed reply row is settled, whether its notification changes or not.
LEMMA SettleKept ==
  ASSUME IInv, NEW w \in Workers, Rest(w), NEW x \in Rows, row[x].status = "PROCESSING",
         NEW status \in {"SENT", "DEAD"}, row' = Unclaimed(x, status),
         status = "SENT" => x[2] = "notify",
         case' \in [Cases -> CaseRecord], UNCHANGED <<release, trust, messages, aged>>,
         \/ UNCHANGED notif
         \/ /\ x[2] = "notify"
            /\ \E to \in {"SENT", "DEAD_LETTERED"} : notif' = [notif EXCEPT ![x[1]] = to]
  PROVE  Kept
<1>1. /\ RowsOK(row')
      /\ \A y \in Rows : row'[y].status = IF y = x THEN status ELSE row[y].status
  BY Parts, UnclaimedRows
<1>2. /\ notif' \in [Releases -> NotificationStates \cup {"none"}]
      /\ \A s \in Releases :
           \/ notif'[s] = notif[s]
           \/ notif'[s] # "none" /\ notif[s] # "none"
  <2>1. CASE UNCHANGED notif
    BY <2>1, Parts, TypeParts
  <2>2. CASE ~UNCHANGED notif
    <3>1. PICK to \in {"SENT", "DEAD_LETTERED"} : notif' = [notif EXCEPT ![x[1]] = to]
      BY <2>2
    <3>2. x = <<x[1], "notify">> /\ x[1] \in Releases
      BY <2>2, RowParts
    <3>3. notif[x[1]] # "none"
      BY <3>2, Parts DEF RowInv, Status
    <3> QED  BY <3>1, <3>2, <3>3, Parts, TypeParts DEF NotificationStates
  <2> QED  BY <2>1, <2>2
<1>3. Moves
  <2>1. \A y \in Rows : RowMove(y)
    BY <1>1 DEF RowMove, Consumed
  <2>2. \A s \in Releases : ReleaseMove(s)
    BY <1>2 DEF ReleaseMove
  <2> QED  BY <2>1, <2>2 DEF Moves, TrustMove
<1> QED  BY <1>1, <1>2, <1>3, RestWorkers, Parts, TypeParts, TypePartsNext
         DEF Kept, WorkersOK

LEMMA AcknowledgeKept ==
  ASSUME IInv, NEW w \in Workers, Acknowledge(w)
  PROVE  Kept
<1> DEFINE x == worker[w].row
<1>1. /\ Rest(w) /\ UNCHANGED <<release, trust, messages, aged>>
      /\ x \in Rows /\ x[2] = "notify" /\ row[x].status = "PROCESSING"
      /\ row' = Unclaimed(x, "SENT") /\ notif' = [notif EXCEPT ![x[1]] = "SENT"]
  BY RowOf, Parts DEF Acknowledge, Owns, WorkersOK, WorkerInv
<1>2. case' \in [Cases -> CaseRecord]
  <2>1. case \in [Cases -> CaseRecord] /\ CaseOf[x[1]] \in Cases
    BY <1>1, Parts, TypeParts, RowParts, CaseAssumption
  <2>2. case' = [case EXCEPT ![CaseOf[x[1]]].state = "CLOSED"]
    BY DEF Acknowledge
  <2> QED  BY <2>1, <2>2 DEF CaseRecord, CaseStates
<1> QED  BY <1>1, <1>2, SettleKept

LEMMA GiveUpKept ==
  ASSUME IInv, NEW w \in Workers, GiveUp(w)
  PROVE  Kept
<1> DEFINE x == worker[w].row
<1>1. /\ Rest(w) /\ UNCHANGED <<release, trust, messages, aged>>
      /\ x \in Rows /\ row[x].status = "PROCESSING"
  BY RowOf DEF GiveUp, Owns
<1>2. case' \in [Cases -> CaseRecord]
  <2>1. \/ case' = case
        \/ case' = [case EXCEPT ![CaseOf[x[1]]].state = "ESCALATED"]
    BY DEF GiveUp
  <2>2. case \in [Cases -> CaseRecord] /\ CaseOf[x[1]] \in Cases
    BY <1>1, Parts, TypeParts, RowParts, CaseAssumption
  <2> QED  BY <2>1, <2>2 DEF CaseRecord, CaseStates
<1>3. \/ UNCHANGED <<row, notif>>
      \/ row' = Unclaimed(x, "DEAD") /\ UNCHANGED notif
      \/ /\ row' = Unclaimed(x, "DEAD") /\ x[2] = "notify"
         /\ notif' = [notif EXCEPT ![x[1]] = "DEAD_LETTERED"]
  BY DEF GiveUp
<1>4. CASE UNCHANGED <<row, notif>>
  BY <1>1, <1>2, <1>4, RestWorkers, StillKept, Parts, TypeParts DEF Still
<1>5. CASE ~UNCHANGED <<row, notif>>
  BY <1>1, <1>2, <1>3, <1>5, SettleKept
<1> QED  BY <1>4, <1>5

LEMMA StutterKept ==
  ASSUME IInv, UNCHANGED vars
  PROVE  Kept
BY WorkersStay, StillKept, Parts, TypeParts DEF vars, Still
-----------------------------------------------------------------------------
(* The theorems.                                                           *)

LEMMA StepKept ==
  ASSUME IInv, [Next]_vars
  PROVE  Kept
<1>1. ASSUME NEW r \in Releases,
             \/ Approve(r) \/ ReleaseUnknown(r) \/ QueueNotification(r) \/ WindowCloses(r)
      PROVE  Kept
  BY <1>1, ApproveKept, ReleaseUnknownKept, QueueNotificationKept, WindowClosesKept
<1>2. ASSUME NEW r \in Releases, NEW result \in {"promoted", "rolled_back", "escalated"},
             NEW closure \in BOOLEAN, ReleaseEnds(r, result, closure)
      PROVE  Kept
  BY <1>2, ReleaseEndsKept
<1>3. ASSUME NEW c \in Cases, Attribute(c) \/ EscalateCase(c) \/ ReopenCase(c)
      PROVE  Kept
  BY <1>3, CaseActionsKept
<1>4. ASSUME NEW w \in Workers, Step(w) \/ Crash(w)
      PROVE  Kept
  BY <1>4, WorkerActionsKept, ConsumeUnknownKept, ConsumeResultKept, RetryLaterKept,
     AcknowledgeKept, GiveUpKept DEF Step
<1>5. ASSUME NEW w \in Workers, NEW x \in Rows, Claim(w, x)
      PROVE  Kept
  BY <1>5, ClaimKept
<1>6. ASSUME UNCHANGED vars
      PROVE  Kept
  BY <1>6, StutterKept
<1> QED  BY <1>1, <1>2, <1>3, <1>4, <1>5, <1>6 DEF Next, Outside

LEMMA InitInvariant ==
  ASSUME Init
  PROVE  IInv
<1>1. TypeOK
  <2>1. RowsOK(row)
    BY NoneAssumption, AttemptAssumption DEF Init, Absent, RowsOK, RowRecord, Held
  <2> QED  BY <2>1, IdleType, TypeParts DEF Init, CaseRecord, CaseStates, ReleaseRecord
<1>2. \A r \in Releases, kind \in {"unknown", "result", "notify"} : Status(r, kind) = "absent"
  BY RowsOf DEF Init, Absent, Status
<1>3. WorkerInv
  BY DEF Init, Idle, WorkerInv
<1>4. RowInv /\ OrderInv
  BY <1>2 DEF Init, RowInv, OrderInv
<1>5. SampledWithItsRow /\ UnknownNeverCounts
  BY <1>2 DEF Init, SampledWithItsRow, UnknownNeverCounts, Status
<1> QED  BY <1>1, <1>3, <1>4, <1>5 DEF IInv

LEMMA StepInvariant ==
  ASSUME IInv, [Next]_vars
  PROVE  IInv'
<1>1. Kept
  BY StepKept
<1>2. trust'.samples \subseteq Releases
  BY <1>1 DEF Kept, TypeOK
<1> QED  BY <1>1, <1>2, MovesKeepRows, MovesKeepOrder, MovesKeepSamples, MovesKeepUnknownOut
         DEF Kept, IInv

(* The inductive invariant of the dispatcher, its workers and the ledger.    *)
THEOREM Inductive == Spec => []IInv
<1>1. Init => IInv
  BY InitInvariant
<1>2. IInv /\ [Next]_vars => IInv'
  BY StepInvariant
<1> QED  BY <1>1, <1>2, PTL DEF Spec

(* The dispatcher keeps its types, and a row is held exactly while it is      *)
(* processed: no claim outlives the settlement of its row.                   *)
THEOREM TypeCorrect == Spec => []TypeOK
<1>1. IInv => TypeOK
  BY DEF IInv
<1> QED  BY <1>1, Inductive, PTL

(* The ledger counts a release exactly when its result row is acknowledged,  *)
(* through every crash, lease expiry, reclaim and retry of its consumption.  *)
THEOREM SampledOnce == Spec => []SampledWithItsRow
<1>1. IInv => SampledWithItsRow
  BY DEF IInv
<1> QED  BY <1>1, Inductive, PTL

(* No release that ever announced an UNKNOWN outcome is counted, however     *)
(* many workers take its rows: the order of an aggregate's rows and the      *)
(* blocked ledger together exclude it.                                       *)
THEOREM UnknownExcluded == Spec => []UnknownNeverCounts
<1>1. IInv => UnknownNeverCounts
  BY DEF IInv
<1> QED  BY <1>1, Inductive, PTL
-----------------------------------------------------------------------------
(***************************************************************************)
(* The reply to a release: what is recorded of it, what the complainant has *)
(* received and what the workers at its row know of that.                   *)
(***************************************************************************)

\* The notification and its outbox row are settled together, after delivery.
AnswerInv ==
  \A r \in Releases :
    /\ notif[r] \in {"none", "QUEUED", "SENT", "DEAD_LETTERED"}
    /\ Status(r, "notify") = "SENT" <=> notif[r] = "SENT"
    /\ Status(r, "notify") = "DEAD" <=> notif[r] = "DEAD_LETTERED"
    /\ messages[r] \in {0, 1}
    /\ notif[r] = "SENT" => messages[r] = 1

\* A receipt stands for a message; once the provider has forgotten the first
\* attempt, whoever holds the row knows that it is not the first.
CallInv ==
  \A w \in Workers, r \in Releases :
    worker[w].pc # "idle" /\ worker[w].row = <<r, "notify">> =>
      /\ notif[r] # "none"
      /\ worker[w].pc = "receipt" => messages[r] = 1
      /\ worker[w].pc = "dispatch" => worker[w].again \/ r \notin aged
      /\ worker[w].pc = "call" => r \notin aged

WindowInv == \A r \in aged : row[<<r, "notify">>].attempts > 0

ReplyInv == AnswerInv /\ CallInv /\ WindowInv /\ ClosedIsAnswered

\* What a step does to the replies.
Owes(r) ==
  /\ notif[r] = "none" /\ notif' = [notif EXCEPT ![r] = "QUEUED"]
  /\ UNCHANGED messages

Tells(r) ==
  /\ notif[r] \in {"QUEUED", "DEAD_LETTERED"}
  /\ messages[r] = 0 /\ messages' = [messages EXCEPT ![r] = 1]
  /\ UNCHANGED notif

Records(r) ==
  /\ notif[r] = "QUEUED" /\ notif' = [notif EXCEPT ![r] = "SENT"]
  /\ messages[r] = 1 /\ UNCHANGED messages
  /\ case'[CaseOf[r]].state = "CLOSED"
  /\ Status(r, "notify")' = "SENT"

Abandons(r) ==
  /\ notif[r] = "QUEUED" /\ notif' = [notif EXCEPT ![r] = "DEAD_LETTERED"]
  /\ UNCHANGED messages
  /\ case'[CaseOf[r]].state = "ESCALATED"
  /\ Status(r, "notify")' = "DEAD"

\* The row of any other reply is neither acknowledged nor given up.
RowsRest(except) ==
  \A r \in Releases \ except :
    \/ Status(r, "notify")' = Status(r, "notify")
    \/ Status(r, "notify")' \notin {"SENT", "DEAD"}

\* A case is closed by the record of a reply and by nothing else.
CasesRest == \A c \in Cases : case'[c].state = "CLOSED" => case[c].state = "CLOSED"

ReplyStep ==
  \/ UNCHANGED <<notif, messages>> /\ RowsRest({}) /\ CasesRest
  \/ \E r \in Releases : (Owes(r) \/ Tells(r)) /\ RowsRest({}) /\ CasesRest
  \/ \E r \in Releases : /\ Records(r) /\ RowsRest({r})
                         /\ \A c \in Cases \ {CaseOf[r]} : case'[c] = case[c]
  \/ \E r \in Releases : Abandons(r) /\ RowsRest({r}) /\ CasesRest

\* What a step does to the workers and their claims.
WorkerMove(w) ==
  \/ worker'[w] = worker[w]
  \/ worker'[w] = Idle
  \/ /\ worker'[w].pc = "failed" /\ worker[w].pc # "idle" /\ worker'[w].row = worker[w].row
  \/ /\ worker'[w].pc = "dispatch" /\ worker'[w].row \in Rows
     /\ row[worker'[w].row].status # "absent"
     /\ worker'[w].again = (row[worker'[w].row].attempts > 0)
  \/ /\ worker[w].pc = "dispatch" /\ worker'[w].pc = "call"
     /\ worker'[w].row = worker[w].row /\ worker[w].row[2] = "notify" /\ MayCall(w)
  \/ /\ worker[w].pc = "call" /\ worker'[w].pc = "receipt"
     /\ worker'[w].row = worker[w].row /\ worker[w].row[2] = "notify"
     /\ messages'[worker[w].row[1]] > 0

\* The dedup window of a reply closes between its deliveries.
WindowMove ==
  \/ UNCHANGED aged
  \/ /\ UNCHANGED worker
     /\ \E r \in Releases :
          /\ aged' = aged \cup {r} /\ row[<<r, "notify">>].attempts > 0
          /\ \A w \in Workers :
               worker[w].row = <<r, "notify">> => worker[w].pc \notin {"dispatch", "call"}

AttemptsGrow == \A x \in Rows : row[x].attempts > 0 => row'[x].attempts > 0

ClaimStep == (\A w \in Workers : WorkerMove(w)) /\ WindowMove /\ AttemptsGrow
-----------------------------------------------------------------------------
(* Those two kinds of move keep the invariant.                              *)

LEMMA ReplyStepKeepsAnswers ==
  ASSUME IInv, ReplyInv, Moves, TypeOK', ReplyStep
  PROVE  AnswerInv'
<1> SUFFICES ASSUME NEW r \in Releases
             PROVE  /\ notif'[r] \in {"none", "QUEUED", "SENT", "DEAD_LETTERED"}
                    /\ Status(r, "notify")' = "SENT" <=> notif'[r] = "SENT"
                    /\ Status(r, "notify")' = "DEAD" <=> notif'[r] = "DEAD_LETTERED"
                    /\ messages'[r] \in {0, 1}
                    /\ notif'[r] = "SENT" => messages'[r] = 1
  BY DEF AnswerInv, Status
<1>1. /\ notif[r] \in {"none", "QUEUED", "SENT", "DEAD_LETTERED"}
      /\ Status(r, "notify") = "SENT" <=> notif[r] = "SENT"
      /\ Status(r, "notify") = "DEAD" <=> notif[r] = "DEAD_LETTERED"
      /\ messages[r] \in {0, 1}
      /\ notif[r] = "SENT" => messages[r] = 1
  BY DEF ReplyInv, AnswerInv
<1>2. Status(r, "notify") \in {"SENT", "DEAD"} => Status(r, "notify")' = Status(r, "notify")
  BY MovesOf DEF RowMove, Status
<1>3. notif \in [Releases -> NotificationStates \cup {"none"}] /\ messages \in [Releases -> 0 .. 2]
  BY Parts, TypeParts
<1>4. CASE UNCHANGED <<notif, messages>> /\ RowsRest({})
  BY <1>1, <1>2, <1>4 DEF RowsRest
<1>5. ASSUME NEW s \in Releases, Owes(s) \/ Tells(s), RowsRest({})
      PROVE  /\ notif'[r] \in {"none", "QUEUED", "SENT", "DEAD_LETTERED"}
             /\ Status(r, "notify")' = "SENT" <=> notif'[r] = "SENT"
             /\ Status(r, "notify")' = "DEAD" <=> notif'[r] = "DEAD_LETTERED"
             /\ messages'[r] \in {0, 1}
             /\ notif'[r] = "SENT" => messages'[r] = 1
  BY <1>1, <1>2, <1>3, <1>5 DEF RowsRest, Owes, Tells
<1>6. ASSUME NEW s \in Releases, Records(s) \/ Abandons(s), RowsRest({s})
      PROVE  /\ notif'[r] \in {"none", "QUEUED", "SENT", "DEAD_LETTERED"}
             /\ Status(r, "notify")' = "SENT" <=> notif'[r] = "SENT"
             /\ Status(r, "notify")' = "DEAD" <=> notif'[r] = "DEAD_LETTERED"
             /\ messages'[r] \in {0, 1}
             /\ notif'[r] = "SENT" => messages'[r] = 1
  <2>1. CASE s = r
    BY <1>1, <1>3, <1>6, <2>1 DEF Records, Abandons
  <2>2. CASE s # r
    BY <1>1, <1>2, <1>3, <1>6, <2>2 DEF RowsRest, Records, Abandons
  <2> QED  BY <2>1, <2>2
<1> QED  BY <1>4, <1>5, <1>6 DEF ReplyStep

LEMMA ReplyStepKeepsClosed ==
  ASSUME IInv, ReplyInv, TypeOK', ReplyStep
  PROVE  ClosedIsAnswered'
<1> SUFFICES ASSUME NEW c \in Cases, case'[c].state = "CLOSED"
             PROVE  \E r \in Releases : CaseOf[r] = c /\ messages'[r] > 0 /\ notif'[r] = "SENT"
  BY DEF ClosedIsAnswered
<1>1. notif \in [Releases -> NotificationStates \cup {"none"}] /\ messages \in [Releases -> 0 .. 2]
  BY Parts, TypeParts
<1>2. ASSUME NEW r \in Releases, Records(r), CaseOf[r] = c
      PROVE  messages'[r] > 0 /\ notif'[r] = "SENT"
  BY <1>1, <1>2 DEF Records
<1>3. ASSUME case[c].state = "CLOSED"
      PROVE  \E r \in Releases : CaseOf[r] = c /\ messages'[r] > 0 /\ notif'[r] = "SENT"
  <2>1. PICK r \in Releases : CaseOf[r] = c /\ messages[r] > 0 /\ notif[r] = "SENT"
    BY <1>3 DEF ReplyInv, ClosedIsAnswered
  <2>2. messages'[r] > 0 /\ notif'[r] = "SENT"
    BY <1>1, <2>1 DEF ReplyStep, Owes, Tells, Records, Abandons
  <2> QED  BY <2>1, <2>2
<1>4. \/ case[c].state = "CLOSED"
      \/ \E r \in Releases : Records(r) /\ CaseOf[r] = c
  BY DEF ReplyStep, CasesRest
<1> QED  BY <1>2, <1>3, <1>4

LEMMA ReplyStepGrows ==
  ASSUME IInv, ReplyInv, ReplyStep, NEW r \in Releases
  PROVE  /\ notif[r] # "none" => notif'[r] # "none"
         /\ messages[r] = 1 => messages'[r] = 1
<1>1. notif \in [Releases -> NotificationStates \cup {"none"}] /\ messages \in [Releases -> 0 .. 2]
  BY Parts, TypeParts
<1> QED  BY <1>1 DEF ReplyStep, Owes, Tells, Records, Abandons

LEMMA ClaimStepKeepsWindow ==
  ASSUME IInv, ReplyInv, ClaimStep
  PROVE  WindowInv'
<1>1. \A r \in aged' : row[<<r, "notify">>].attempts > 0 /\ r \in Releases
  BY Parts, TypeParts DEF ReplyInv, WindowInv, ClaimStep, WindowMove
<1> QED  BY <1>1, RowsOf DEF WindowInv, ClaimStep, AttemptsGrow

LEMMA ClaimStepKeepsCalls ==
  ASSUME IInv, ReplyInv, AnswerInv', ClaimStep, ReplyStep
  PROVE  CallInv'
<1> SUFFICES ASSUME NEW w \in Workers, NEW r \in Releases,
                    worker'[w].pc # "idle", worker'[w].row = <<r, "notify">>
             PROVE  /\ notif'[r] # "none"
                    /\ worker'[w].pc = "receipt" => messages'[r] = 1
                    /\ worker'[w].pc = "dispatch" => worker'[w].again \/ r \notin aged'
                    /\ worker'[w].pc = "call" => r \notin aged'
  BY DEF CallInv
<1> DEFINE x == <<r, "notify">>
<1>1. x \in Rows /\ x[1] = r /\ x[2] = "notify"
  BY RowsOf
<1>2. WorkerMove(w) /\ WindowMove
  BY DEF ClaimStep
<1>3. worker[w].pc # "idle" /\ worker[w].row = x =>
        /\ notif[r] # "none"
        /\ worker[w].pc = "receipt" => messages[r] = 1
        /\ worker[w].pc = "dispatch" => worker[w].again \/ r \notin aged
        /\ worker[w].pc = "call" => r \notin aged
  BY DEF ReplyInv, CallInv
<1>4. messages'[r] \in {0, 1}
  BY DEF AnswerInv
<1> HIDE DEF x
<1>5. CASE worker'[w] = worker[w]
  <2>1. worker[w].pc \in {"dispatch", "call"} /\ r \in aged' => r \in aged
    BY <1>2, <1>5 DEF WindowMove, x
  <2> QED  BY <1>3, <1>5, <2>1, ReplyStepGrows DEF x
<1>6. CASE worker'[w] # worker[w]
  <2>1. UNCHANGED aged
    BY <1>2, <1>6 DEF WindowMove
  <2>2. CASE worker'[w] = Idle
    BY <2>2 DEF Idle
  <2>3. CASE worker'[w].pc = "failed" /\ worker[w].pc # "idle" /\ worker'[w].row = worker[w].row
    BY <1>3, <2>3, ReplyStepGrows DEF x
  <2>4. CASE /\ worker'[w].pc = "dispatch" /\ row[worker'[w].row].status # "absent"
             /\ worker'[w].again = (row[worker'[w].row].attempts > 0)
    <3>1. notif[r] # "none"
      BY <2>4, Parts DEF RowInv, Status, x
    <3>2. r \in aged => worker'[w].again
      BY <2>4 DEF ReplyInv, WindowInv, x
    <3> QED  BY <2>1, <2>4, <3>1, <3>2, ReplyStepGrows
  <2>5. CASE /\ worker[w].pc = "dispatch" /\ worker'[w].pc = "call"
             /\ worker'[w].row = worker[w].row /\ MayCall(w)
    BY <1>1, <1>3, <2>1, <2>5, ReplyStepGrows DEF MayCall, x
  <2>6. CASE /\ worker[w].pc = "call" /\ worker'[w].pc = "receipt"
             /\ worker'[w].row = worker[w].row
             /\ messages'[worker[w].row[1]] > 0
    BY <1>1, <1>3, <1>4, <2>6, ReplyStepGrows DEF x
  <2> QED  BY <1>2, <1>6, <2>2, <2>3, <2>4, <2>5, <2>6 DEF WorkerMove
<1> QED  BY <1>5, <1>6
-----------------------------------------------------------------------------
(* Each action makes only those moves.                                      *)

Tracked == ReplyStep /\ ClaimStep

LEMMA QuietReplies ==
  ASSUME UNCHANGED <<notif, messages, row>>, CasesRest
  PROVE  ReplyStep
BY DEF ReplyStep, RowsRest, Status

LEMMA QuietClaims ==
  ASSUME UNCHANGED <<row, aged>>, \A w \in Workers : WorkerMove(w)
  PROVE  ClaimStep
BY DEF ClaimStep, WindowMove, AttemptsGrow

LEMMA RestMoves ==
  ASSUME IInv, NEW w \in Workers, Rest(w)
  PROVE  \A v \in Workers : WorkerMove(v)
BY Parts DEF Rest, WorkersOK, WorkerMove

LEMMA FailMoves ==
  ASSUME IInv, NEW w \in Workers, NEW retry \in BOOLEAN, worker[w].pc # "idle", Fail(w, retry)
  PROVE  \A v \in Workers : WorkerMove(v)
<1>1. /\ \A v \in Workers \ {w} : worker'[v] = worker[v]
      /\ worker'[w].pc = "failed" /\ worker'[w].row = worker[w].row
  BY Parts DEF Fail, WorkersOK, WorkerRecord
<1> QED  BY <1>1 DEF WorkerMove

LEMMA StayMoves ==
  ASSUME UNCHANGED worker
  PROVE  \A v \in Workers : WorkerMove(v)
BY DEF WorkerMove

LEMMA CaseActionsTracked ==
  ASSUME IInv, NEW c \in Cases, Attribute(c) \/ EscalateCase(c) \/ ReopenCase(c)
  PROVE  Tracked
<1>1. UNCHANGED <<notif, messages, row, worker, aged>>
  BY DEF Attribute, EscalateCase, ReopenCase
<1>2. CasesRest
  BY Parts, TypeParts DEF Attribute, EscalateCase, ReopenCase, CasesRest, CaseRecord
<1> QED  BY <1>1, <1>2, QuietReplies, QuietClaims, StayMoves DEF Tracked

LEMMA WindowClosesTracked ==
  ASSUME IInv, NEW r \in Releases, WindowCloses(r)
  PROVE  Tracked
<1>1. UNCHANGED <<case, notif, messages, row, worker>>
  BY DEF WindowCloses
<1>2. ReplyStep
  BY <1>1, QuietReplies DEF CasesRest
<1>3. ClaimStep
  BY <1>1, StayMoves DEF WindowCloses, ClaimStep, WindowMove, AttemptsGrow
<1> QED  BY <1>2, <1>3 DEF Tracked

\* A worker that loses its claim, refuses, fails or checks the window.
LEMMA WorkerActionsTracked ==
  ASSUME IInv, NEW w \in Workers,
         \/ LoseClaim(w) \/ Crash(w) \/ RefuseResult(w) \/ ConsumeFails(w)
         \/ CheckWindow(w) \/ RefuseReceipt(w)
  PROVE  Tracked
<1>1. UNCHANGED <<case, notif, messages, row, aged>>
  BY DEF LoseClaim, Crash, RefuseResult, ConsumeFails, CheckWindow, RefuseReceipt
<1>2. worker[w].pc # "idle"
  BY DEF LoseClaim, Crash, RefuseResult, ConsumeFails, CheckWindow, RefuseReceipt, Works
<1>3. \/ Rest(w)
      \/ \E retry \in BOOLEAN : Fail(w, retry)
      \/ CheckWindow(w) /\ MayCall(w)
  BY DEF LoseClaim, Crash, RefuseResult, ConsumeFails, CheckWindow, RefuseReceipt
<1>4. ASSUME CheckWindow(w), MayCall(w)
      PROVE  \A v \in Workers : WorkerMove(v)
  <2>1. /\ \A v \in Workers \ {w} : worker'[v] = worker[v]
        /\ worker'[w].pc = "call" /\ worker'[w].row = worker[w].row
    BY <1>4, Parts DEF CheckWindow, WorkersOK, WorkerRecord
  <2> QED  BY <1>4, <2>1 DEF WorkerMove, CheckWindow, Works
<1>5. \A v \in Workers : WorkerMove(v)
  BY <1>2, <1>3, <1>4, RestMoves, FailMoves
<1> QED  BY <1>1, <1>5, QuietReplies, QuietClaims DEF Tracked, CasesRest

\* The provider is called within its window: it accepts a message once.
LEMMA DeliveriesTracked ==
  ASSUME IInv, ReplyInv, NEW w \in Workers, Deliver(w) \/ DeliverFails(w)
  PROVE  Tracked
<1> DEFINE r == worker[w].row[1]
<1>1. UNCHANGED <<case, notif, row, aged>> /\ worker[w].pc = "call"
  BY DEF Deliver, DeliverFails
<1>2. worker[w].row = <<r, "notify">> /\ r \in Releases
  BY <1>1, RowOf, RowParts, Parts DEF WorkersOK, WorkerInv
<1>3. r \notin aged /\ notif[r] # "none"
  BY <1>1, <1>2 DEF ReplyInv, CallInv
<1>4. messages \in [Releases -> 0 .. 2] /\ messages[r] \in {0, 1}
  BY <1>2, Parts, TypeParts DEF ReplyInv, AnswerInv
<1>5. notif[r] \in {"none", "QUEUED", "SENT", "DEAD_LETTERED"} /\ (notif[r] = "SENT" => messages[r] = 1)
  BY <1>2 DEF ReplyInv, AnswerInv
<1> HIDE DEF r
<1>6. Accept(r) => (UNCHANGED messages /\ messages[r] = 1) \/ Tells(r)
  BY <1>1, <1>2, <1>3, <1>4, <1>5 DEF Accept, Tells
<1>7. ReplyStep
  <2>1. UNCHANGED messages \/ Accept(r)
    BY DEF Deliver, DeliverFails, r
  <2> QED  BY <1>1, <1>2, <1>6, <2>1 DEF ReplyStep, RowsRest, CasesRest, Status
<1>8. \A v \in Workers : WorkerMove(v)
  <2>1. CASE Deliver(w)
    <3>1. /\ \A v \in Workers \ {w} : worker'[v] = worker[v]
          /\ worker'[w].pc = "receipt" /\ worker'[w].row = worker[w].row
      BY <2>1, Parts DEF Deliver, WorkersOK, WorkerRecord
    <3>2. messages'[r] > 0
      <4>1. Accept(r)
        BY <2>1 DEF Deliver, r
      <4>2. messages'[r] = 1
        BY <1>2, <1>4, <1>6, <4>1 DEF Tells
      <4> QED  BY <4>2
    <3> QED  BY <1>1, <1>2, <3>1, <3>2 DEF WorkerMove, r
  <2>2. CASE DeliverFails(w)
    <3>1. \E retry \in BOOLEAN : Fail(w, retry)
      BY <2>2 DEF DeliverFails
    <3> QED  BY <1>1, <3>1, FailMoves
  <2> QED  BY <2>1, <2>2
<1> QED  BY <1>1, <1>7, <1>8, QuietClaims DEF Tracked

LEMMA ClaimTracked ==
  ASSUME IInv, NEW w \in Workers, NEW x \in Rows, Claim(w, x)
  PROVE  Tracked
<1>1. /\ row[x].status \in {"PENDING", "PROCESSING"}
      /\ UNCHANGED <<case, notif, messages, aged>>
  BY DEF Claim, Claimable, MayExpire
<1>2. \A y \in Rows :
        /\ row'[y].status = IF y = x THEN "PROCESSING" ELSE row[y].status
        /\ row[y].attempts > 0 => row'[y].attempts > 0
  BY Parts, AttemptAssumption DEF Claim, RowsOK, RowRecord
<1>3. ReplyStep
  BY <1>1, <1>2, RowsOf DEF ReplyStep, RowsRest, CasesRest, Status
<1>4. \A v \in Workers : WorkerMove(v)
  <2>1. /\ \A v \in Workers \ {w} : worker'[v] = worker[v]
        /\ worker'[w].pc = "dispatch" /\ worker'[w].row = x
        /\ worker'[w].again = (row[x].attempts > 0)
    BY Parts DEF Claim, WorkersOK, Idle
  <2> QED  BY <1>1, <2>1 DEF WorkerMove
<1> QED  BY <1>1, <1>2, <1>3, <1>4 DEF Tracked, ClaimStep, WindowMove, AttemptsGrow

LEMMA EmitAttempts ==
  ASSUME NEW rows, RowsOK(rows), NEW x \in Rows
  PROVE  \A y \in Rows : Emit(rows, x)[y].attempts = rows[y].attempts
BY DEF Emit, RowRecord, RowsOK

LEMMA UnclaimedAttempts ==
  ASSUME RowsOK(row), NEW x \in Rows, NEW status
  PROVE  \A y \in Rows : Unclaimed(x, status)[y].attempts = row[y].attempts
BY DEF Unclaimed, RowRecord, RowsOK

\* A transaction that writes rows without settling a reply.
LEMMA RowsWrittenTracked ==
  ASSUME IInv, UNCHANGED <<notif, messages, aged>>, CasesRest,
         \A v \in Workers : WorkerMove(v), AttemptsGrow, RowsRest({})
  PROVE  Tracked
BY DEF Tracked, ReplyStep, ClaimStep, WindowMove

LEMMA ReleaseActionsTracked ==
  ASSUME IInv, NEW r \in Releases,
         \/ Approve(r) \/ ReleaseUnknown(r)
         \/ \E result \in {"promoted", "rolled_back", "escalated"}, closure \in BOOLEAN :
              ReleaseEnds(r, result, closure)
  PROVE  Tracked
<1>1. UNCHANGED <<notif, messages, worker, aged>>
  BY DEF Approve, ReleaseUnknown, ReleaseEnds
<1>2. CasesRest
  BY Parts, TypeParts DEF Approve, ReleaseUnknown, ReleaseEnds, CasesRest, CaseRecord
<1>3. row' = row \/ \E kind \in {"unknown", "result"} : row' = Emit(row, <<r, kind>>)
  BY DEF Approve, ReleaseUnknown, ReleaseEnds
<1>4. ASSUME NEW kind \in {"unknown", "result"}, row' = Emit(row, <<r, kind>>)
      PROVE  RowsRest({}) /\ AttemptsGrow
  <2>0. <<r, kind>> \in Rows /\ RowsOK(row)
    BY RowsOf, Parts
  <2>1. \A y \in Rows : row'[y].attempts = row[y].attempts
    BY <1>4, <2>0, EmitAttempts
  <2>2. \A y \in Rows \ {<<r, kind>>} : row'[y].status = row[y].status
    BY <1>4, RowsOf, Parts DEF Emit, RowsOK, RowRecord
  <2> QED  BY <2>1, <2>2, RowsOf DEF RowsRest, AttemptsGrow, Status
<1>5. RowsRest({}) /\ AttemptsGrow
  BY <1>3, <1>4 DEF RowsRest, AttemptsGrow, Status
<1> QED  BY <1>1, <1>2, <1>5, StayMoves, RowsWrittenTracked

\* A resolution owes the reply of its release, unless it was owed before.
LEMMA ResolutionTracked ==
  ASSUME IInv, NEW r \in Releases, NEW rows, RowsOK(rows), ResolveAndQueue(r, rows),
         rows[<<r, "notify">>].status = row[<<r, "notify">>].status,
         \A y \in Rows : rows[y].attempts = row[y].attempts,
         \A s \in Releases : rows[<<s, "notify">>].status = row[<<s, "notify">>].status,
         UNCHANGED <<messages, aged>>, \A v \in Workers : WorkerMove(v)
  PROVE  Tracked
<1> DEFINE x == <<r, "notify">>
<1>1. CasesRest
  <2>1. CaseOf[r] \in Cases /\ case \in [Cases -> CaseRecord]
    BY Parts, TypeParts, CaseAssumption
  <2> QED  BY <2>1 DEF ResolveAndQueue, CasesRest, CaseRecord
<1>2. CASE notif[r] = "none"
  <2>1. notif' = [notif EXCEPT ![r] = "QUEUED"] /\ row' = Emit(rows, x)
    BY <1>2 DEF ResolveAndQueue
  <2>2. rows[x].status = "absent" /\ x \in Rows
    BY <1>2, Parts, RowsOf DEF RowInv, Status
  <2>3. AttemptsGrow
    BY <2>1, <2>2, EmitAttempts DEF AttemptsGrow
  <2>4. RowsRest({})
    <3> SUFFICES ASSUME NEW s \in Releases
                 PROVE  \/ Status(s, "notify")' = Status(s, "notify")
                        \/ Status(s, "notify")' \notin {"SENT", "DEAD"}
      BY DEF RowsRest
    <3>1. row'[<<s, "notify">>].status = IF <<s, "notify">> = x THEN "PENDING"
                                         ELSE rows[<<s, "notify">>].status
      BY <2>1, <2>2, RowsOf, EmitRows
    <3> QED  BY <3>1 DEF Status
  <2> QED  BY <1>1, <1>2, <2>1, <2>3, <2>4 DEF Tracked, ReplyStep, Owes, ClaimStep, WindowMove
<1>3. CASE notif[r] # "none"
  <2>1. row' = rows /\ UNCHANGED notif
    BY <1>3 DEF ResolveAndQueue
  <2> QED  BY <1>1, <2>1, RowsWrittenTracked DEF RowsRest, AttemptsGrow, Status
<1> QED  BY <1>2, <1>3

LEMMA QueueNotificationTracked ==
  ASSUME IInv, NEW r \in Releases, QueueNotification(r)
  PROVE  Tracked
<1>1. ResolveAndQueue(r, row) /\ UNCHANGED <<worker, messages, aged>>
  BY DEF QueueNotification
<1> QED  BY <1>1, Parts, StayMoves, ResolutionTracked

\* Settling a row that is not a reply's, or handing one back.
LEMMA UnclaimedTracked ==
  ASSUME IInv, NEW x \in Rows, NEW status \in {"PENDING", "SENT", "DEAD"},
         x[2] = "notify" => status = "PENDING"
  PROVE  /\ RowsOK(Unclaimed(x, status))
         /\ \A y \in Rows : Unclaimed(x, status)[y].attempts = row[y].attempts
         /\ \A s \in Releases :
              LET y == <<s, "notify">>
              IN \/ Unclaimed(x, status)[y].status = row[y].status
                 \/ y = x /\ Unclaimed(x, status)[y].status = "PENDING"
<1>1. /\ RowsOK(Unclaimed(x, status))
      /\ \A y \in Rows : Unclaimed(x, status)[y].status = IF y = x THEN status ELSE row[y].status
  BY Parts, UnclaimedRows
<1>2. \A y \in Rows : Unclaimed(x, status)[y].attempts = row[y].attempts
  BY Parts, UnclaimedAttempts
<1>3. ASSUME NEW s \in Releases
      PROVE  \/ Unclaimed(x, status)[<<s, "notify">>].status = row[<<s, "notify">>].status
             \/ <<s, "notify">> = x /\ Unclaimed(x, status)[<<s, "notify">>].status = "PENDING"
  <2>1. CASE <<s, "notify">> = x
    <3>1. x[2] = "notify"
      BY <2>1
    <3> QED  BY <1>1, <2>1, <3>1
  <2>2. CASE <<s, "notify">> # x
    BY <1>1, <2>2, RowsOf
  <2> QED  BY <2>1, <2>2
<1> QED  BY <1>1, <1>2, <1>3

LEMMA ConsumeTracked ==
  ASSUME IInv, NEW w \in Workers, ConsumeUnknown(w) \/ ConsumeResult(w)
  PROVE  Tracked
<1> DEFINE x == worker[w].row
           r == x[1]
           done == Unclaimed(x, "SENT")
<1>1. /\ UNCHANGED <<messages, aged>> /\ Rest(w)
      /\ x \in Rows /\ r \in Releases /\ x[2] \in {"unknown", "result"}
  BY RowOf DEF ConsumeUnknown, ConsumeResult, Works
<1>2. /\ RowsOK(done)
      /\ \A y \in Rows : done[y].attempts = row[y].attempts
      /\ \A s \in Releases : done[<<s, "notify">>].status = row[<<s, "notify">>].status
  <2>1. \A s \in Releases : <<s, "notify">> # x
    BY <1>1
  <2> QED  BY <1>1, <2>1, UnclaimedTracked
<1>3. \/ row' = done /\ UNCHANGED <<case, notif>>
      \/ ResolveAndQueue(r, done)
  BY DEF ConsumeUnknown, ConsumeResult
<1>4. \A v \in Workers : WorkerMove(v)
  BY <1>1, RestMoves
<1> HIDE DEF done, r
<1>5. CASE row' = done /\ UNCHANGED <<case, notif>>
  BY <1>1, <1>2, <1>4, <1>5, RowsWrittenTracked DEF RowsRest, AttemptsGrow, CasesRest, Status
<1>6. CASE ResolveAndQueue(r, done)
  BY <1>1, <1>2, <1>4, <1>6, ResolutionTracked
<1> QED  BY <1>3, <1>5, <1>6

LEMMA RetryLaterTracked ==
  ASSUME IInv, NEW w \in Workers, RetryLater(w)
  PROVE  Tracked
<1>1. /\ UNCHANGED <<case, notif, messages, aged>> /\ Rest(w)
      /\ worker[w].row \in Rows /\ row' = Unclaimed(worker[w].row, "PENDING")
  BY RowOf DEF RetryLater
<1>2. AttemptsGrow /\ RowsRest({})
  BY <1>1, UnclaimedTracked DEF AttemptsGrow, RowsRest, Status
<1> QED  BY <1>1, <1>2, RestMoves, RowsWrittenTracked DEF CasesRest

LEMMA SettledOne ==
  ASSUME NEW r \in Releases,
         \A y \in Rows : y # <<r, "notify">> => row'[y].status = row[y].status
  PROVE  RowsRest({r})
BY RowsOf DEF RowsRest, Status

\* A row still processed is that of a reply still owed.
LEMMA OwedWhileProcessed ==
  ASSUME IInv, ReplyInv, NEW r \in Releases, row[<<r, "notify">>].status = "PROCESSING"
  PROVE  notif[r] = "QUEUED"
BY Parts DEF ReplyInv, AnswerInv, RowInv, Status

LEMMA AcknowledgeTracked ==
  ASSUME IInv, ReplyInv, NEW w \in Workers, Acknowledge(w)
  PROVE  Tracked
<1> DEFINE x == worker[w].row
<1>0. PICK r \in Releases : r = x[1]
  BY RowOf DEF Acknowledge
<1>1. /\ Rest(w) /\ UNCHANGED <<messages, aged>>
      /\ x = <<r, "notify">> /\ x \in Rows /\ r \in Releases /\ row[x].status = "PROCESSING"
      /\ row' = Unclaimed(x, "SENT") /\ notif' = [notif EXCEPT ![r] = "SENT"]
      /\ case' = [case EXCEPT ![CaseOf[r]].state = "CLOSED"]
  BY <1>0, RowOf, RowParts, Parts DEF Acknowledge, Owns, WorkersOK, WorkerInv
<1>2. messages[r] = 1 /\ notif[r] = "QUEUED"
  BY <1>1, OwedWhileProcessed DEF Acknowledge, ReplyInv, CallInv
<1>3. /\ \A y \in Rows : row'[y].attempts = row[y].attempts
      /\ \A y \in Rows : row'[y].status = IF y = x THEN "SENT" ELSE row[y].status
  BY <1>1, Parts, UnclaimedRows, UnclaimedAttempts
<1>4. CaseOf[r] \in Cases /\ case \in [Cases -> CaseRecord]
  BY <1>1, Parts, TypeParts, CaseAssumption
<1> HIDE DEF x
<1>5. /\ case'[CaseOf[r]].state = "CLOSED"
      /\ \A c \in Cases \ {CaseOf[r]} : case'[c] = case[c]
  BY <1>1, <1>4 DEF CaseRecord
<1>6. Records(r) /\ RowsRest({r})
  <2>1. Status(r, "notify")' = "SENT"
    BY <1>1, <1>3 DEF Status
  <2>2. RowsRest({r})
    BY <1>1, <1>3, SettledOne
  <2> QED  BY <1>1, <1>2, <1>5, <2>1, <2>2 DEF Records
<1> QED  BY <1>1, <1>3, <1>5, <1>6, RestMoves
         DEF Tracked, ReplyStep, ClaimStep, WindowMove, AttemptsGrow, x

LEMMA GiveUpTracked ==
  ASSUME IInv, ReplyInv, NEW w \in Workers, GiveUp(w)
  PROVE  Tracked
<1> DEFINE x == worker[w].row
<1>0. PICK r \in Releases : r = x[1]
  BY RowOf DEF GiveUp
<1>1. /\ Rest(w) /\ UNCHANGED <<messages, aged>>
      /\ x = <<r, x[2]>> /\ x \in Rows /\ r \in Releases /\ row[x].status = "PROCESSING"
  BY <1>0, RowOf, RowParts DEF GiveUp, Owns
<1>2. \A v \in Workers : WorkerMove(v)
  BY <1>1, RestMoves
<1>3. CASE UNCHANGED <<row, notif, case>>
  BY <1>1, <1>2, <1>3, QuietReplies, QuietClaims DEF Tracked, CasesRest
<1>4. CASE x[2] # "notify" /\ row' = Unclaimed(x, "DEAD") /\ UNCHANGED <<case, notif>>
  <2>1. AttemptsGrow /\ RowsRest({})
    BY <1>1, <1>4, UnclaimedTracked DEF AttemptsGrow, RowsRest, Status
  <2> QED  BY <1>1, <1>2, <1>4, <2>1, RowsWrittenTracked DEF CasesRest
<1>5. CASE /\ x[2] = "notify" /\ row' = Unclaimed(x, "DEAD")
           /\ notif' = [notif EXCEPT ![r] = "DEAD_LETTERED"]
           /\ case' = [case EXCEPT ![CaseOf[r]].state = "ESCALATED"]
  <2>1. x = <<r, "notify">> /\ notif[r] = "QUEUED"
    BY <1>1, <1>5, OwedWhileProcessed
  <2>2. /\ \A y \in Rows : row'[y].attempts = row[y].attempts
        /\ \A y \in Rows : row'[y].status = IF y = x THEN "DEAD" ELSE row[y].status
    BY <1>1, <1>5, Parts, UnclaimedRows, UnclaimedAttempts
  <2>3. CaseOf[r] \in Cases /\ case \in [Cases -> CaseRecord]
    BY <1>1, Parts, TypeParts, CaseAssumption
  <2> HIDE DEF x
  <2>4. case'[CaseOf[r]].state = "ESCALATED" /\ CasesRest
    BY <1>5, <2>3 DEF CaseRecord, CasesRest
  <2>5. Abandons(r) /\ RowsRest({r})
    <3>1. Status(r, "notify")' = "DEAD"
      BY <1>1, <2>1, <2>2 DEF Status
    <3>2. RowsRest({r})
      BY <1>1, <2>1, <2>2, SettledOne
    <3> QED  BY <1>1, <1>5, <2>1, <2>4, <3>1, <3>2 DEF Abandons
  <2>6. ReplyStep
    BY <1>1, <2>4, <2>5 DEF ReplyStep
  <2> QED  BY <1>1, <1>2, <2>2, <2>6 DEF Tracked, ClaimStep, WindowMove, AttemptsGrow
<1> QED  BY <1>0, <1>3, <1>4, <1>5 DEF GiveUp

LEMMA StutterTracked ==
  ASSUME UNCHANGED vars
  PROVE  Tracked
BY StayMoves, QuietReplies, QuietClaims DEF vars, Tracked, CasesRest

LEMMA StepTracked ==
  ASSUME IInv, ReplyInv, [Next]_vars
  PROVE  Tracked
<1>1. ASSUME NEW r \in Releases,
             \/ Approve(r) \/ ReleaseUnknown(r) \/ QueueNotification(r) \/ WindowCloses(r)
      PROVE  Tracked
  BY <1>1, ReleaseActionsTracked, QueueNotificationTracked, WindowClosesTracked
<1>2. ASSUME NEW r \in Releases, NEW result \in {"promoted", "rolled_back", "escalated"},
             NEW closure \in BOOLEAN, ReleaseEnds(r, result, closure)
      PROVE  Tracked
  BY <1>2, ReleaseActionsTracked
<1>3. ASSUME NEW c \in Cases, Attribute(c) \/ EscalateCase(c) \/ ReopenCase(c)
      PROVE  Tracked
  BY <1>3, CaseActionsTracked
<1>4. ASSUME NEW w \in Workers, Step(w) \/ Crash(w)
      PROVE  Tracked
  BY <1>4, WorkerActionsTracked, DeliveriesTracked, ConsumeTracked, RetryLaterTracked,
     AcknowledgeTracked, GiveUpTracked DEF Step
<1>5. ASSUME NEW w \in Workers, NEW x \in Rows, Claim(w, x)
      PROVE  Tracked
  BY <1>5, ClaimTracked
<1>6. ASSUME UNCHANGED vars
      PROVE  Tracked
  BY <1>6, StutterTracked
<1> QED  BY <1>1, <1>2, <1>3, <1>4, <1>5, <1>6 DEF Next, Outside
-----------------------------------------------------------------------------
LEMMA InitReplies ==
  ASSUME Init
  PROVE  ReplyInv
<1>1. AnswerInv
  BY RowsOf DEF Init, Absent, AnswerInv, Status
<1>2. CallInv /\ WindowInv /\ ClosedIsAnswered
  BY DEF Init, Idle, CallInv, WindowInv, ClosedIsAnswered
<1> QED  BY <1>1, <1>2 DEF ReplyInv

LEMMA StepReplies ==
  ASSUME IInv, ReplyInv, [Next]_vars
  PROVE  ReplyInv' /\ ReplyStep
<1>1. Tracked /\ Kept
  BY StepTracked, StepKept
<1>2. AnswerInv'
  BY <1>1, ReplyStepKeepsAnswers DEF Tracked, Kept
<1> QED  BY <1>1, <1>2, ReplyStepKeepsClosed, ClaimStepKeepsCalls, ClaimStepKeepsWindow
         DEF Tracked, Kept, ReplyInv

(* The inductive invariant of the reply, on top of the dispatcher's.          *)
LEMMA RepliesInductive == Spec => []ReplyInv
<1>1. Init => ReplyInv
  BY InitReplies
<1>2. IInv /\ ReplyInv /\ [Next]_vars => ReplyInv'
  BY StepReplies
<1> QED  BY <1>1, <1>2, Inductive, PTL DEF Spec

(* A case is archived only on a receipt for a message the complainant has,    *)
(* whichever workers delivered it, lost their claim, died or delivered again. *)
THEOREM ClosedCasesAreAnswered == Spec => []ClosedIsAnswered
<1>1. ReplyInv => ClosedIsAnswered
  BY DEF ReplyInv
<1> QED  BY <1>1, RepliesInductive, PTL

LEMMA RefinesReply ==
  ASSUME IInv, ReplyInv, ReplyStep
  PROVE  [Replies!Next]_(Replies!vars)
<1>1. notif \in [Releases -> NotificationStates \cup {"none"}]
  BY Parts, TypeParts
<1>2. CASE UNCHANGED <<notif, messages>>
  BY <1>2 DEF Replies!vars, Reply
<1>3. ASSUME NEW r \in Releases, Owes(r)
      PROVE  Replies!Owe(r)
  <2>1. Reply[r] = "none" /\ Reply' = [Reply EXCEPT ![r] = "owed"]
    BY <1>1, <1>3 DEF Owes, Reply
  <2> QED  BY <1>3, <2>1 DEF Owes, Replies!Owe
<1>4. ASSUME NEW r \in Releases, Tells(r)
      PROVE  Replies!Tell(r)
  <2>1. Reply[r] \in {"owed", "abandoned"} /\ UNCHANGED Reply
    BY <1>4 DEF Tells, Reply
  <2> QED  BY <1>4, <2>1 DEF Tells, Replies!Tell
<1>5. ASSUME NEW r \in Releases, Records(r)
      PROVE  Replies!Record(r)
  <2>1. Reply[r] = "owed" /\ Reply' = [Reply EXCEPT ![r] = "recorded"]
    BY <1>1, <1>5 DEF Records, Reply
  <2> QED  BY <1>5, <2>1 DEF Records, Replies!Record
<1>6. ASSUME NEW r \in Releases, Abandons(r)
      PROVE  Replies!Abandon(r)
  <2>1. Reply[r] = "owed" /\ Reply' = [Reply EXCEPT ![r] = "abandoned"]
    BY <1>1, <1>6 DEF Abandons, Reply
  <2> QED  BY <1>6, <2>1 DEF Abandons, Replies!Abandon
<1> QED  BY <1>2, <1>3, <1>4, <1>5, <1>6 DEF ReplyStep, Replies!Next

(* Claims, leases, retries, crashes and a provider that forgets implement a   *)
(* reply that is delivered at most once, recorded only when delivered and     *)
(* abandoned only with its case escalated.                                    *)
THEOREM DeliveryImplementsReply == Spec => ImplementsReply
<1>1. Init => Replies!Init
  BY DEF Init, Replies!Init, Reply
<1>2. IInv /\ ReplyInv /\ [Next]_vars => [Replies!Next]_(Replies!vars)
  BY StepReplies, RefinesReply
<1> QED  BY <1>1, <1>2, Inductive, RepliesInductive, PTL
         DEF Spec, ImplementsReply, Replies!Spec
=============================================================================
