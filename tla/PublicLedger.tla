---------------------------- MODULE PublicLedger ----------------------------
(* The frame every command of the public API runs in: one READ COMMITTED     *)
(* transaction that takes its locks in order, looks its key up in the        *)
(* idempotency ledger, and commits its records, their receipts and its       *)
(* ledger entry together.  It holds every lock until it ends; the last is    *)
(* the registration of the controller that owns the records, so that no two  *)
(* commands write one table at once.  What a command decides by, and what it *)
(* writes, is for the modules of the services to say.                        *)
EXTENDS Naturals, Sequences, FiniteSets

CONSTANTS Requests,   \* the requests of the public API
          Tables,     \* the tables the commands write
          Teams,      \* what the requests ask, on which committed records
          MaxResends, \* bound: how many requests are sent a second time
          None

ASSUME MaxResendsAssumption == MaxResends \in Nat

VARIABLES cmd,       \* what each request asks: intent, who, key, body
          db,        \* the committed rows of each table, by identity
          ledger,    \* the committed idempotency records
          sessions,  \* the transaction of each request
          answers    \* every answer given

vars == <<cmd, db, ledger, sessions, answers>>

Closed(n) == [at |-> "closed", sent |-> n, locks |-> <<>>]

Init ==
  \E t \in Teams :
    /\ cmd = t.cmd
    /\ db = [k \in Tables |-> IF k \in DOMAIN t.seed THEN t.seed[k] ELSE {}]
    /\ ledger = {}
    /\ sessions = [r \in Requests |-> Closed(0)]
    /\ answers = {}

-----------------------------------------------------------------------------
Intent(r) == cmd[r].intent
Body(r) == cmd[r].body
Attempt(r) == <<r, sessions[r].sent>>
Namespace(r) == [intent |-> cmd[r].intent, who |-> cmd[r].who, key |-> cmd[r].key]

KeyLock(r) == <<"key", Namespace(r)>>
ControllerLock(owner) == <<"controller", owner>>
Held(r) == {sessions[r].locks[i] : i \in DOMAIN sessions[r].locks}
Free(lock, r) == \A q \in Requests \ {r} : lock \notin Held(q)

(* The record under the key of a request, if there is one.                   *)
Recorded(r) == {e \in ledger : e.namespace = Namespace(r)}

Refuse(code) == [code |-> code, audited |-> FALSE]  \* the transaction is rolled back
Deny(code) == [code |-> code, audited |-> TRUE]     \* its audit row is committed

Finish(r, n, answer, resource) ==
  /\ sessions' = [sessions EXCEPT ![r] = Closed(n)]
  /\ answers' = answers \cup {[request |-> r, code |-> answer.code,
                               audited |-> answer.audited, resource |-> resource]}

Ids(table) == {row.id : row \in db[table]}

-----------------------------------------------------------------------------
(* A client sends its request, and may send it a second time.                *)
Resent == {q \in Requests : sessions[q].sent > 1}
MaySend(r) == /\ sessions[r].at = "closed"
              /\ sessions[r].sent = 0 \/ (sessions[r].sent = 1 /\ Cardinality(Resent) < MaxResends)

(* It arrives and is admitted or not.                                        *)
Begin(r, refusal) ==
  /\ MaySend(r)
  /\ IF refusal # None
     THEN Finish(r, sessions[r].sent + 1, refusal, None)
     ELSE /\ sessions' = [sessions EXCEPT ![r].at = "open", ![r].sent = @ + 1]
          /\ UNCHANGED answers
  /\ UNCHANGED <<cmd, db, ledger>>

NextLock(r, plan) == plan[Len(sessions[r].locks) + 1]
Unlocked(r, plan) == sessions[r].at = "open" /\ Len(sessions[r].locks) < Len(plan)

(* Under its key it finds what it did before, or that the key stands for     *)
(* another request.                                                          *)
Replay(r, plan, reused) ==
  /\ Unlocked(r, plan) /\ NextLock(r, plan) = KeyLock(r) /\ Free(KeyLock(r), r)
  /\ \E e \in Recorded(r) :
       IF e.body = cmd[r].body
       THEN Finish(r, sessions[r].sent, Deny("replayed"), e.resource)
       ELSE Finish(r, sessions[r].sent, reused, None)
  /\ UNCHANGED <<cmd, db, ledger>>

(* It takes its next lock once no other transaction holds it, and is refused *)
(* for what it then reads or goes on.                                        *)
Take(r, plan, refusal) ==
  /\ Unlocked(r, plan) /\ Free(NextLock(r, plan), r)
  /\ NextLock(r, plan) = KeyLock(r) => Recorded(r) = {}
  /\ IF refusal # None
     THEN Finish(r, sessions[r].sent, refusal, None)
     ELSE /\ sessions' = [sessions EXCEPT ![r].locks = Append(@, NextLock(r, plan))]
          /\ UNCHANGED answers
  /\ UNCHANGED <<cmd, db, ledger>>

(* A row of another transaction has an identity that is to be written.       *)
Clash(new) == \E t \in Tables : \E row \in new[t] : \E old \in db[t] : old.id = row.id

\* Mutant: what a command did is not kept under its key.
CommitUnrecorded(r, plan, new, resource, taken) ==
  /\ sessions[r].at = "open" /\ Len(sessions[r].locks) = Len(plan)
  /\ ~Clash(new)
  /\ db' = [t \in Tables |-> db[t] \cup new[t]]
  /\ Finish(r, sessions[r].sent, Deny("completed"), resource)
  /\ UNCHANGED <<cmd, ledger>>

(* With every lock it writes its rows, `new' by table, and its record in the *)
(* ledger, and is done; the unique indexes have the last word.               *)
Commit(r, plan, new, resource, taken) ==
  /\ sessions[r].at = "open" /\ Len(sessions[r].locks) = Len(plan)
  /\ IF Clash(new) \/ Recorded(r) # {}
     THEN /\ Finish(r, sessions[r].sent, IF Clash(new) THEN taken ELSE Refuse("INTERNAL_ERROR"), None)
          /\ UNCHANGED <<db, ledger>>
     ELSE /\ db' = [t \in Tables |-> db[t] \cup new[t]]
          /\ ledger' = ledger \cup {[namespace |-> Namespace(r), body |-> cmd[r].body,
                                     resource |-> resource]}
          /\ Finish(r, sessions[r].sent, Deny("completed"), resource)
  /\ UNCHANGED cmd

(* The process dies, or the registration, the audit or the contract fails    *)
(* it: everything is rolled back and its client may ask again.               *)
Fail(r) ==
  /\ sessions[r].at = "open"
  /\ sessions' = [sessions EXCEPT ![r] = Closed(sessions[r].sent)]
  /\ UNCHANGED <<cmd, db, ledger, answers>>
=============================================================================
