--------------------------- MODULE ExternalIntents ---------------------------
(***************************************************************************)
(* The writes of services/release_service.py to the Quality API that answer  *)
(* for an intent of their own: create_candidate, under the lease of a        *)
(* repairer, and inject_demo_fault and recover_demo_fault.  Each commits its  *)
(* intent, calls Quality with no transaction open, and settles the intent in  *)
(* a second transaction.  Quality is the one of quality/client.py.           *)
(*                                                                         *)
(* A candidate creation has one content: its key stands for its binding and   *)
(* names the VersionSet Quality makes for it.  The other VersionSets are the   *)
(* base, which is active, and the fault.                                     *)
(***************************************************************************)
EXTENDS Naturals, FiniteSets

CONSTANTS Keys, KindOf,        \* idempotency keys and the operation they are for
          Requests, KeyOf,     \* the handlers that may run, each for one key
          Teams,               \* the sets of handlers that run in one behaviour
          Workers, WorkerOf,   \* the repairer of a candidate request
          BaseOf,              \* the VersionSet and revision a candidate is derived from
          Quarantined,         \* the candidate a recovery also rolls back, or None
          Movable,             \* candidates a release moves on meanwhile
          MaxFaults,           \* bound: messages, handlers and leases that are lost
          Malformed,           \* an answer that breaks the contract of the operation
          Refused,             \* an HTTP error
          NoAnswer,            \* a network error or a timeout
          None

Kinds == {"create", "inject", "recover"}
OfKind(kind) == {k \in Keys : KindOf[k] = kind}

ASSUME KeysAssumption == /\ KindOf \in [Keys -> Kinds]
                         /\ KeyOf \in [Requests -> Keys]
                         /\ WorkerOf \in [Requests -> Workers] /\ Workers # {}
                         /\ Keys \cap {"base", "fault", "B1"} = {}
ASSUME BoundAssumption == MaxFaults \in Nat
ASSUME CandidatesAssumption == /\ Movable \subseteq OfKind("create")
                               /\ Quarantined \in OfKind("create") \cup {None}

(* A VersionSet, what demo operations answer, and the states of an intent.   *)
VersionRow == [status : {"absent", "draft", "staged", "canary", "active", "superseded",
                         "rolled_back"}, rev : Nat]
Receipts == [previous : Nat, fault : Nat] \cup
            [restored : Nat, fault : Nat, quarantined : VersionRow \cup {None}]
IntentStates == {"PENDING", "UNKNOWN", "FAILED", "COMPLETED"}

ASSUME AnswersAssumption == /\ None \notin VersionRow \cup Receipts \cup IntentStates
                            /\ Malformed \notin VersionRow \cup Receipts

VARIABLES
  intent,    \* candidate_creation, demo_fault_injection, demo_fault_recovery
  candidate, \* the candidate aggregates
  completed, \* how many completion events each intent has
  holder,    \* the worker whose lease on the case is active
  bound,     \* the case still awaits the fix of this attribution
  req,       \* where each handler is, the answer it got, whether it is sound
  ver,       \* the VersionSets of Quality
  cache,     \* the receipts Quality keeps by what was asked
  stray,     \* keys of messages given up by their sender and not yet arrived
  faults     \* how many faults have happened

local  == <<intent, candidate, completed>>
remote == <<ver, cache, stray>>
vars   == <<local, holder, bound, req, remote, faults>>

VersionSets == {"base", "fault"} \cup OfKind("create")
Ver(status, rev) == [status |-> status, rev |-> rev]
Absent == Ver("absent", 0)

Init ==
  /\ intent = [k \in Keys |-> [state |-> None, external |-> None, receipt |-> None]]
  /\ candidate = [k \in OfKind("create") |-> None]
  /\ completed = [k \in Keys |-> 0]
  /\ holder = CHOOSE w \in Workers : TRUE
  /\ bound = TRUE
  /\ \E team \in Teams :
       req = [q \in Requests |-> [at |-> IF q \in team THEN "idle" ELSE "absent",
                                  answer |-> None, sound |-> FALSE]]
  /\ ver = [v \in VersionSets |-> CASE v = "base" -> Ver("active", 1)
                                    [] v = "fault" -> Ver("draft", 1)
                                    [] OTHER -> Absent]
  /\ cache = [t \in {"inject", "recover"} |-> None]
  /\ stray = {}
  /\ faults = 0

----------------------------------------------------------------------------
(* Quality: what it does with a request and answers to it.                   *)

Does(v, c, a) == [ver |-> v, cache |-> c, answer |-> a]
Bump(v, id, status) == [v EXCEPT ![id] = Ver(status, @.rev + 1)]

(* POST /v2/versionsets answers a repeated key with its VersionSet as it is.  *)
Create(k) ==
  IF ver[k] = Absent
    THEN Does([ver EXCEPT ![k] = Ver("draft", 1)], cache, Ver("draft", 1))
    ELSE Does(ver, cache, ver[k])

(* inject B1 is idempotent on the pair of VersionSets, not on a key.         *)
Inject ==
  LET v == Bump(Bump(ver, "base", "superseded"), "fault", "active")
      receipt == [previous |-> v["base"].rev, fault |-> v["fault"].rev]
  IN IF cache["inject"] # None THEN Does(ver, cache, cache["inject"])
     ELSE IF ver["base"].status # "active" THEN Does(ver, cache, Refused)
     ELSE Does(v, [cache EXCEPT !["inject"] = receipt], receipt)

RecoverReceipt(v) == [restored |-> v["base"].rev, fault |-> v["fault"].rev,
                      quarantined |-> IF Quarantined = None THEN None ELSE v[Quarantined]]

(* recover B1: already recovered, drifted, or to be switched back.  The pair   *)
(* is switched before the quarantined candidate is looked at.                *)
Recover ==
  LET back == Bump(Bump(ver, "fault", "draft"), "base", "active")
      done == IF Quarantined # None /\ ver[Quarantined].status \in {"staged", "canary"}
                THEN Bump(back, Quarantined, "rolled_back") ELSE back
      Gone(statuses) == Quarantined # None /\ ver[Quarantined].status \notin statuses
      Keep(v) == Does(v, [cache EXCEPT !["recover"] = RecoverReceipt(v)], RecoverReceipt(v))
  IN IF cache["recover"] # None THEN Does(ver, cache, cache["recover"])
     ELSE IF Quarantined # None /\ ver[Quarantined] = Absent THEN Does(ver, cache, Refused)
     ELSE IF ver["base"].status = "active" /\ ver["fault"].status # "active"
       THEN IF Gone({"draft", "rolled_back"}) THEN Does(ver, cache, Refused) ELSE Keep(ver)
     ELSE IF ver["fault"].status # "active" \/ ver["base"].status # "superseded"
       THEN Does(ver, cache, Refused)
     ELSE IF Gone({"draft", "staged", "canary"}) THEN Does(back, cache, Refused)
     ELSE Keep(done)

Quality(k) == CASE KindOf[k] = "create" -> Create(k)
                [] KindOf[k] = "inject" -> Inject
                [] KindOf[k] = "recover" -> Recover

Arrives(k) == ver' = Quality(k).ver /\ cache' = Quality(k).cache

----------------------------------------------------------------------------
(* The handlers *)

Leased(q) == holder = WorkerOf[q]

(* A demo operation is begun, or begun again, unless it is completed.         *)
MayOperate(k) == intent[k].state \in {None, "PENDING", "UNKNOWN"}

(* A candidate needs the lease, the case and an unchanged active base; a      *)
(* creation recorded as failed is refused.                                   *)
MayCreate(q) ==
  LET k == KeyOf[q] IN
  /\ Leased(q) /\ bound
  /\ intent[k].state \notin {"COMPLETED", "FAILED"}
  /\ ver[BaseOf[k].id] = Ver("active", BaseOf[k].rev)

\* Mutant: an operation of unknown outcome is refused.
MayBeginKnown(q) ==
  LET k == KeyOf[q] IN
  /\ intent[k].state \in {None, "PENDING"}
  /\ KindOf[k] = "create" => MayCreate(q)

MayBegin(q) == IF KindOf[KeyOf[q]] = "create" THEN MayCreate(q) ELSE MayOperate(KeyOf[q])

At(q, place, answer, sound) ==
  req' = [req EXCEPT ![q] = [at |-> place, answer |-> answer, sound |-> sound]]
Return(q) == At(q, "idle", None, FALSE)

\* Mutant: the intent is not committed before the call.
BeginUncommitted(q) ==
  /\ req[q].at = "idle"
  /\ MayBegin(q)
  /\ At(q, "calling", None, FALSE)
  /\ UNCHANGED <<local, holder, bound, remote, faults>>

(* The intent is committed, once, before Quality is called.                  *)
Begin(q) ==
  LET k == KeyOf[q] IN
  /\ req[q].at = "idle"
  /\ MayBegin(q)
  /\ intent' = IF intent[k].state # None THEN intent
               ELSE [intent EXCEPT ![k].state = "PENDING"]
  /\ At(q, "calling", None, FALSE)
  /\ UNCHANGED <<candidate, completed, holder, bound, remote, faults>>

(* Whether an answer has the shape the handler demands of it.                *)
Sound(k, answer) ==
  /\ answer # Malformed
  /\ KindOf[k] = "create" => answer = Ver("draft", 1)

Answered(q, answer) ==
  LET k == KeyOf[q] IN
  IF answer \in {Refused, NoAnswer} THEN At(q, "answered", answer, FALSE)
  ELSE IF KindOf[k] = "recover" THEN At(q, "unread", answer, FALSE)
  ELSE At(q, "answered", answer, Sound(k, answer))

Call(q) ==
  /\ req[q].at = "calling"
  /\ Arrives(KeyOf[q])
  /\ Answered(q, Quality(KeyOf[q]).answer)
  /\ UNCHANGED <<local, holder, bound, stray, faults>>

Fault == faults < MaxFaults /\ faults' = faults + 1

(* The message, its answer, or the handler fails; what was sent may still    *)
(* arrive later.  An HTTP error can follow an effect (5xx).                  *)
CallFails(q) ==
  /\ Fault
  /\ req[q].at = "calling"
  /\ \/ /\ Arrives(KeyOf[q])
        /\ \/ \E answer \in {Refused, NoAnswer, Malformed} : Answered(q, answer)
           \/ Return(q)
        /\ UNCHANGED stray
     \/ /\ UNCHANGED <<ver, cache>>
        /\ At(q, "answered", NoAnswer, FALSE) \/ Return(q)
        /\ stray' \in {stray, stray \cup {KeyOf[q]}}
  /\ UNCHANGED <<local, holder, bound>>

LateArrival(k) ==
  /\ k \in stray
  /\ Arrives(k)
  /\ stray' = stray \ {k}
  /\ UNCHANGED <<local, holder, bound, req, faults>>

(* A recovery reads the VersionSets back and compares them with its receipt.  *)
ReadBack(q) ==
  /\ req[q].at = "unread"
  /\ At(q, "answered", req[q].answer,
        /\ req[q].answer = RecoverReceipt(ver)
        /\ ver["base"].status = "active" /\ ver["fault"].status # "active"
        /\ Quarantined # None => ver[Quarantined].status \in {"draft", "rolled_back"})
  /\ UNCHANGED <<local, holder, bound, remote, faults>>

ReadFails(q) ==
  /\ Fault
  /\ req[q].at = "unread"
  /\ At(q, "answered", NoAnswer, FALSE) \/ Return(q)
  /\ UNCHANGED <<local, holder, bound, remote>>

----------------------------------------------------------------------------
(* Settling the intent *)

Settled(k) == intent[k].state = "COMPLETED"

(* record_creation_state overwrites every state but COMPLETED, a failure      *)
(* included; _record_demo_unknown moves a PENDING operation only.            *)
Record(k, state, external) ==
  intent' = IF \/ Settled(k)
               \/ KindOf[k] # "create" /\ intent[k].state # "PENDING"
            THEN intent
            ELSE [intent EXCEPT ![k].state = state,
                                ![k].external = IF external = None THEN @ ELSE external]

RecordError(q) ==
  LET k == KeyOf[q]
      state == IF KindOf[k] = "create" /\ req[q].answer = Refused THEN "FAILED" ELSE "UNKNOWN"
  IN /\ req[q].at = "answered"
     /\ req[q].answer \in {Refused, NoAnswer}
     /\ Record(k, state, None)
     /\ Return(q)
     /\ UNCHANGED <<candidate, completed, holder, bound, remote, faults>>

\* Mutant: the lease and the case are not looked at again after the call.
StillAllowedAlways(q) == TRUE

(* The lease and the case, checked again after the call.                     *)
StillAllowed(q) == KindOf[KeyOf[q]] = "create" => Leased(q) /\ bound

(* An unsound answer, or a sound one that came too late, is kept with the     *)
(* intent.                                                                   *)
RecordUnknown(q) ==
  /\ req[q].at = "answered"
  /\ req[q].answer \notin {Refused, NoAnswer}
  /\ ~req[q].sound \/ ~StillAllowed(q)
  /\ Record(KeyOf[q], "UNKNOWN", req[q].answer)
  /\ Return(q)
  /\ UNCHANGED <<candidate, completed, holder, bound, remote, faults>>

\* Mutant: the intent is not looked at again under its lock.
CompletableTwice(k, answer) == intent[k].external \in {None, answer}

(* The intent, looked at under its lock.                                     *)
Completable(k, answer) == /\ intent[k].state \in {"PENDING", "UNKNOWN"}
                          /\ intent[k].external \in {None, answer}

(* The aggregate of the candidate is made with the completion.               *)
Recorded(k, answer) ==
  candidate' = IF KindOf[k] = "create" THEN [candidate EXCEPT ![k] = answer] ELSE candidate

Complete(q) ==
  LET k == KeyOf[q] IN
  /\ req[q].at = "answered"
  /\ req[q].sound
  /\ StillAllowed(q)
  /\ Completable(k, req[q].answer)
  /\ intent' = [intent EXCEPT ![k].state = "COMPLETED", ![k].receipt = req[q].answer]
  /\ Recorded(k, req[q].answer)
  /\ completed' = [completed EXCEPT ![k] = @ + 1]
  /\ Return(q)
  /\ UNCHANGED <<holder, bound, remote, faults>>

(* Somebody else completed it, it failed meanwhile, or the receipt is another. *)
GiveUp(q) ==
  /\ req[q].at = "answered"
  /\ req[q].sound
  /\ StillAllowed(q)
  /\ ~Completable(KeyOf[q], req[q].answer)
  /\ Return(q)
  /\ UNCHANGED <<local, holder, bound, remote, faults>>

----------------------------------------------------------------------------
(* What others do meanwhile *)

(* A lease that changes hands counts as a fault.                             *)
Reassign(w) ==
  /\ Fault
  /\ holder # w
  /\ holder' = w
  /\ UNCHANGED <<local, bound, req, remote>>

CaseMoves ==
  /\ bound
  /\ bound' = FALSE
  /\ UNCHANGED <<local, holder, req, remote, faults>>

(* A release moves a candidate on; promotion supersedes what was active.     *)
CandidateMoves(k) ==
  /\ \/ /\ ver[k].status = "draft"
        /\ ver' = Bump(ver, k, "staged")
     \/ /\ ver[k].status = "staged"
        /\ \E a \in {"base", "fault"} :
             /\ ver[a].status = "active"
             /\ ver' = Bump(Bump(ver, a, "superseded"), k, "active")
  /\ UNCHANGED <<local, holder, bound, req, cache, stray, faults>>

Handler(q) == \/ Begin(q) \/ Call(q) \/ ReadBack(q) \/ RecordError(q)
              \/ RecordUnknown(q) \/ Complete(q) \/ GiveUp(q)

Next ==
  \/ \E q \in Requests : Handler(q) \/ CallFails(q) \/ ReadFails(q)
  \/ \E k \in Keys : LateArrival(k)
  \/ \E w \in Workers \cup {None} : Reassign(w)
  \/ CaseMoves
  \/ \E k \in Movable : CandidateMoves(k)

Spec == Init /\ [][Next]_vars

(* Each caller asks again with its key until it is told how it ended, and a   *)
(* handler that runs goes on; only finitely many messages are lost.          *)
FairSpec == Spec /\ \A q \in Requests : WF_vars(Handler(q))

----------------------------------------------------------------------------
(* Properties *)

Answers == VersionRow \cup Receipts \cup {Malformed, Refused, NoAnswer}

TypeOK ==
  /\ intent \in [Keys -> [state : IntentStates \cup {None}, external : Answers \cup {None},
                         receipt : Answers \cup {None}]]
  /\ candidate \in [OfKind("create") -> Answers \cup {None}]
  /\ completed \in [Keys -> Nat]
  /\ holder \in Workers \cup {None}
  /\ bound \in BOOLEAN
  /\ req \in [Requests -> [at : {"absent", "idle", "calling", "unread", "answered"},
                           answer : Answers \cup {None}, sound : BOOLEAN]]
  /\ ver \in [VersionSets -> VersionRow]
  /\ cache \in [{"inject", "recover"} -> Receipts \cup {None}]
  /\ stray \subseteq Keys
  /\ faults \in Nat

(* An intent is completed once, with a receipt of what Quality really did,    *)
(* and a candidate exists exactly when its creation is completed: through     *)
(* concurrent requests for one key, lost answers, retries and late arrivals.  *)
CompletedIsReal ==
  /\ \A k \in Keys :
       /\ completed[k] = IF Settled(k) THEN 1 ELSE 0
       /\ Settled(k) => IF KindOf[k] = "create" THEN ver[k] # Absent
                        ELSE intent[k].receipt = cache[KindOf[k]]
  /\ \A k \in OfKind("create") :
       candidate[k] # None <=> Settled(k) /\ candidate[k] = intent[k].receipt

(* A candidate is recorded for the repairer whose lease is active then, while *)
(* the case still awaits the fix of the attribution it was proposed for,      *)
(* however long Quality took to create it.                                   *)
CandidateUnderLease ==
  [][\A k \in OfKind("create") :
       candidate'[k] # candidate[k] =>
         /\ bound
         /\ \E q \in Requests : KeyOf[q] = k /\ Leased(q) /\ req[q].at = "answered"]_vars

(* Without handlers, leases and messages every step is one of DurableIntent:  *)
(* nothing takes effect on Quality that was not recorded first, no completion *)
(* without effect, and none is undone.                                       *)
Effects == OfKind("create") \cup {"inject", "recover"}
Effect(k) == IF KindOf[k] = "create" THEN k ELSE KindOf[k]
PhaseOf(k) == CASE intent[k].state = None -> "none"
                [] intent[k].state = "PENDING" -> "pending"
                [] intent[k].state = "UNKNOWN" -> "unknown"
                [] intent[k].state = "FAILED" -> "failed"
                [] intent[k].state = "COMPLETED" -> "completed"

Durable == INSTANCE DurableIntent WITH
  Intents <- Keys, EffectOf <- [k \in Keys |-> Effect(k)],
  NoReceipt <- None,
  phase <- [k \in Keys |-> PhaseOf(k)],
  landed <- {k \in OfKind("create") : ver[k] # Absent} \cup
            {t \in {"inject", "recover"} : cache[t] # None},
  proof <- [k \in Keys |-> intent[k].receipt]

ImplementsDurableIntent == Durable!DSpec

(* A retry finds out: an injection that took place, or a creation whose lease *)
(* and draft remain, is completed, unless it was recorded as failed or an     *)
(* answer nobody could trust was kept with it.                               *)
LandedIsRecorded ==
  \A k \in Keys :
    (/\ intent[k].state # None
     /\ KindOf[k] = "create" => ver[k] # Absent
     /\ KindOf[k] # "create" => cache[KindOf[k]] # None)
    ~> \/ intent[k].state \in {"COMPLETED", "FAILED"}
       \/ intent[k].external # None
       \/ KindOf[k] = "create" /\ \/ ver[k] # Ver("draft", 1)
                                  \/ ver[BaseOf[k].id] # Ver("active", BaseOf[k].rev)
                                  \/ ~bound
                                  \/ \A q \in Requests : KeyOf[q] = k => ~Leased(q)
       \/ KindOf[k] = "recover"
=============================================================================
