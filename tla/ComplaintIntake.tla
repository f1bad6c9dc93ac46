---------------------------- MODULE ComplaintIntake ----------------------------
(***************************************************************************)
(* How complaints become cases: ingest_complaint of services/case_service.py *)
(* with the two handlers of api/cases.py that call it.  One is given a       *)
(* complaint; the other is given the id of a Feishu message, and maybe a demo *)
(* fault the message is evidence of, and fetches the message itself.          *)
(*                                                                         *)
(* A handler reads the inbox and later inserts into it, in one transaction    *)
(* that is not serialised: the primary key of the inbox is all that stands    *)
(* between two handlers.  Hours are the steps Tick.                          *)
(***************************************************************************)
EXTENDS Naturals, FiniteSets, Absence

CONSTANTS
  Requests,      \* calls of the two handlers
  Complaints,    \* what POST /v1/complaints is given
  Messages,      \* messages of Feishu, by id
  Injections,    \* idempotency keys of demo fault injections
  Texts, Fixture,\* what can be written, and what the B1 fixture holds
  Fingerprint,   \* of a text: its digest once it is redacted and normalised
  Threads, Ids,  \* threads and external ids that complaints name
  Cases,         \* case ids to be issued
  Window,        \* COMPLAINT_DEDUP_WINDOW_HOURS
  MaxTime        \* bound: the last hour of a behaviour

ComplaintType == [source : {"webhook", "poll"}, id : Ids \cup {None},
                  text : Texts, thread : Threads \cup {None}]

ASSUME InputsAssumption == /\ Complaints \subseteq ComplaintType
                           /\ Messages \subseteq Ids
                           /\ Fixture \in Texts
                           /\ DOMAIN Fingerprint = Texts
ASSUME TimeAssumption == Window \in Nat /\ MaxTime \in Nat

VARIABLES
  now,       \* the hour
  message,   \* Feishu: the text of each message and when it was sent
  injection, \* when each completed demo fault was injected
  inbox,     \* the rows of `inbox`, by dedup_key
  case,      \* the case aggregates
  req        \* where each handler is, what it was asked and what it answers

vars == <<now, message, injection, inbox, case, req>>

Hours == 0..MaxTime
Exts == Ids \cup {Fingerprint[t] : t \in Texts}
Origins == [source : {"webhook", "poll"}, ext : Exts]

(* The digest of source, external id and, for a complaint that is filed again, *)
(* the case it was filed as before.                                          *)
DedupKeys == [origin : Origins, refile : Cases \cup {None}]
DedupKey(o, previous) == [origin |-> o, refile |-> previous]

(* What a filing is bound to: the demo fault it is evidence of, and the time   *)
(* and the text of the message it was fetched from.                          *)
Provenance == [sent : Hours, text : Texts]
InputType == [origin : Origins, injection : Injections \cup {None},
              provenance : Provenance \cup {None}]

RowOf(C) == [case : C, received : Hours, previous : Cases \cup {None},
             injection : Injections \cup {None}, provenance : Provenance \cup {None}]
InboxRow == RowOf(Cases)

Answers == {"filed", "duplicate", "failed"}
Opened == {"RECEIVED", "OPEN"}

ASSUME NoneAssumption == /\ None \notin Ids \cup Texts \cup Cases \cup Injections \cup Threads
                         /\ None \notin Nat \cup InboxRow \cup Provenance
                         /\ None \notin Answers \cup Opened

Unwritten == [text |-> None, sent |-> None]
Idle == [at |-> "idle", message |-> None, injection |-> None, input |-> None,
         row |-> None, key |-> None, known |-> {}, answer |-> None, case |-> None]

Init ==
  /\ now = 0
  /\ message = [m \in Messages |-> Unwritten]
  /\ injection = [i \in Injections |-> None]
  /\ inbox = [k \in DedupKeys |-> None]
  /\ case = [c \in Cases |-> None]
  /\ req = [r \in Requests |-> Idle]

----------------------------------------------------------------------------
(* The world: time, Feishu and demo faults *)

Tick == now < MaxTime /\ now' = now + 1 /\ UNCHANGED <<message, injection, inbox, case, req>>

(* Somebody writes a message, rewrites it or takes it back for good. *)
Write(m) ==
  \E t \in Texts \cup {None} :
    /\ IF message[m].sent = None THEN t # None
                                ELSE message[m].text \notin {None, t}
    /\ message' = [message EXCEPT ![m] =
         [text |-> t, sent |-> IF @.sent = None THEN now ELSE @.sent]]
    /\ UNCHANGED <<now, injection, inbox, case, req>>

(* inject_demo_fault commits its receipt, whose time Quality gave. *)
InjectionCompletes(i) ==
  /\ injection[i] = None
  /\ injection' = [injection EXCEPT ![i] = now]
  /\ UNCHANGED <<now, message, inbox, case, req>>

----------------------------------------------------------------------------
(* The handlers *)

Move(r, step) == req' = [req EXCEPT ![r] = step]
Answer(r, answer, c) ==
  Move(r, [req[r] EXCEPT !.at = "done", !.message = None, !.row = None, !.key = None,
                         !.answer = answer, !.case = c])

(* A call that is refused, with a 4xx or a 503, leaves nothing behind and may   *)
(* be made again.                                                            *)
Refuse(r) == Move(r, Idle) /\ UNCHANGED <<now, message, injection, inbox, case>>

Input(source, ext, i, provenance) ==
  [origin |-> [source |-> source, ext |-> ext], injection |-> i, provenance |-> provenance]

(* redact_text, then case and blanks folded, then a digest. *)
ContentKey(text) == Fingerprint[text]

(* What a complaint is known by: its external id, else what it says. *)
Ext(c) == IF c.id # None THEN c.id ELSE ContentKey(c.text)
Traceable(c) == c.thread # None \/ c.id # None

(* POST /v1/complaints *)
PostComplaint(r) ==
  /\ req[r].at = "idle"
  /\ \E c \in Complaints :
       /\ Traceable(c)
       /\ Move(r, [req[r] EXCEPT !.at = "ready",
                                 !.input = Input(c.source, Ext(c), None, None)])
  /\ UNCHANGED <<now, message, injection, inbox, case>>

(* POST /v1/inbox/feishu/messages/{message_id}/complaint: the demo fault it   *)
(* names must have been injected.                                            *)
FileMessage(r) ==
  /\ req[r].at = "idle"
  /\ \E m \in Messages, i \in Injections \cup {None} :
       /\ i # None => injection[i] # None
       /\ Move(r, [req[r] EXCEPT !.at = "fetch", !.message = m, !.injection = i])
  /\ UNCHANGED <<now, message, injection, inbox, case>>

(* Evidence of a demo fault is the fixture, written after the fault came. *)
EvidenceOf(m, i) ==
  i # None => message[m].text = Fixture /\ message[m].sent > injection[i]

(* The message is read as it is at that moment. *)
Fetch(r) ==
  LET m == req[r].message
      i == req[r].injection
  IN /\ req[r].at = "fetch"
     /\ message[m].text # None
     /\ EvidenceOf(m, i)
     /\ Move(r, [req[r] EXCEPT !.at = "ready", !.input = Input("webhook", m, i, message[m])])
     /\ UNCHANGED <<now, message, injection, inbox, case>>

(* Feishu does not answer, the message is not there or it is no evidence. *)
FetchFails(r) == req[r].at = "fetch" /\ Refuse(r)

\* Mutant: only the demo fault of a duplicate is compared.
AgreesOnFault(input, row) == input.injection \in {None, row.injection}

(* A duplicate may leave out what its row is bound to, and change none of it. *)
Agrees(input, row) ==
  /\ input.injection \in {None, row.injection}
  /\ input.provenance \in {None, row.provenance}

InWindow(row) == now <= row.received + Window

(* History: the cases of a complaint whose windows are still open. *)
KnownCases(o) == {inbox[k].case : k \in {j \in DedupKeys :
                    j.origin = o /\ inbox[j] # None /\ InWindow(inbox[j])}}

Row(input, previous) ==
  [case |-> None, received |-> now, previous |-> previous,
   injection |-> input.injection, provenance |-> input.provenance]

(* The row of the complaint is looked up by its first key: within the window   *)
(* it answers the call, after it the complaint is to be filed under another.  *)
Existing(r) == inbox[DedupKey(req[r].input.origin, None)]
Repeated(r) == Existing(r) # None /\ InWindow(Existing(r))

ToFile(r, previous) ==
  /\ ~ Repeated(r)
  /\ Move(r, [req[r] EXCEPT !.at = "new", !.row = Row(req[r].input, previous),
                            !.key = DedupKey(req[r].input.origin, previous),
                            !.known = KnownCases(req[r].input.origin)])
  /\ UNCHANGED <<now, message, injection, inbox, case>>

LookUpNew(r) == req[r].at = "ready" /\ Existing(r) = None /\ ToFile(r, None)
LookUpOld(r) == req[r].at = "ready" /\ Existing(r) # None /\ ToFile(r, Existing(r).case)

Duplicate(r) ==
  /\ req[r].at = "ready" /\ Repeated(r) /\ Agrees(req[r].input, Existing(r))
  /\ Answer(r, "duplicate", Existing(r).case)
  /\ UNCHANGED <<now, message, injection, inbox, case>>

Conflict(r) ==
  /\ req[r].at = "ready" /\ Repeated(r) /\ ~ Agrees(req[r].input, Existing(r))
  /\ Refuse(r)

\* Mutant: the row is written over one that another handler inserted.
InsertOver(r) ==
  /\ req[r].at = "new"
  /\ \E c \in Cases :
       /\ case[c] = None
       /\ case' = [case EXCEPT ![c] = "OPEN"]
       /\ inbox' = [inbox EXCEPT ![req[r].key] = [req[r].row EXCEPT !.case = c]]
       /\ Answer(r, "filed", c)
  /\ UNCHANGED <<now, message, injection>>

(* The row, the case and its events are inserted together; auto_open. *)
Insert(r) ==
  /\ req[r].at = "new"
  /\ inbox[req[r].key] = None
  /\ \E c \in Cases, state \in Opened :
       /\ case[c] = None
       /\ case' = [case EXCEPT ![c] = state]
       /\ inbox' = [inbox EXCEPT ![req[r].key] = [req[r].row EXCEPT !.case = c]]
       /\ Answer(r, "filed", c)
  /\ UNCHANGED <<now, message, injection>>

(* The key is taken: the insert fails and nothing catches it. *)
Collide(r) ==
  /\ req[r].at = "new" /\ inbox[req[r].key] # None
  /\ Answer(r, "failed", None)
  /\ UNCHANGED <<now, message, injection, inbox, case>>

(* The audit log is part of the transaction of a filing and of a duplicate. *)
AuditFails(r) ==
  /\ \/ req[r].at = "new" /\ inbox[req[r].key] = None
     \/ req[r].at = "ready" /\ Repeated(r) /\ Agrees(req[r].input, Existing(r))
  /\ Refuse(r)

Next ==
  \/ Tick
  \/ \E m \in Messages : Write(m)
  \/ \E i \in Injections : InjectionCompletes(i)
  \/ \E r \in Requests : \/ PostComplaint(r) \/ FileMessage(r) \/ Fetch(r) \/ FetchFails(r)
                         \/ LookUpNew(r) \/ LookUpOld(r) \/ Duplicate(r) \/ Conflict(r)
                         \/ Insert(r) \/ Collide(r) \/ AuditFails(r)

Spec == Init /\ [][Next]_vars

----------------------------------------------------------------------------
(* Properties *)

ReqType ==
  [at : {"idle", "fetch", "ready", "new", "done"},
   message : Messages \cup {None}, injection : Injections \cup {None},
   input : InputType \cup {None},
   row : RowOf({None}) \cup {None},
   key : DedupKeys \cup {None}, known : SUBSET Cases,
   answer : Answers \cup {None}, case : Cases \cup {None}]

(* Types; a call is answered with a case exactly when it filed one or repeats  *)
(* one (the response of ingest_complaint).                                   *)
TypeOK ==
  /\ now \in Hours
  /\ message \in [Messages -> [text : Texts \cup {None}, sent : Hours] \cup {Unwritten}]
  /\ injection \in [Injections -> Hours \cup {None}]
  /\ inbox \in [DedupKeys -> InboxRow \cup {None}]
  /\ case \in [Cases -> Opened \cup {None}]
  /\ req \in [Requests -> ReqType]
  /\ \A r \in Requests : req[r].case # None <=> req[r].answer \in {"filed", "duplicate"}

Succeeds(k, j) == /\ inbox[k].previous = inbox[j].case
                  /\ inbox[k].received > inbox[j].received + Window

(* However the handlers interleave, every case has its row in the inbox, and   *)
(* of two cases of one complaint the later was received after the window of   *)
(* the earlier had closed and names it (the dedup of ingest_complaint, whose  *)
(* lookup is not serialised with its insert).                                *)
OneCasePerWindow ==
  /\ \A c \in Cases : case[c] # None =>
       \E k \in DedupKeys : inbox[k] # None /\ inbox[k].case = c
  /\ \A j, k \in DedupKeys :
       j # k /\ j.origin = k.origin /\ None \notin {inbox[j], inbox[k]} =>
         Succeeds(j, k) \/ Succeeds(k, j)

IsEvidence(row) ==
  row.injection # None =>
    /\ injection[row.injection] # None
    /\ row.provenance # None
    /\ row.provenance.text = Fixture
    /\ row.provenance.sent > injection[row.injection]

(* Who is told a case can rely on it: the row of that case is of the complaint *)
(* it brought, of the very text it fetched and of the demo fault it named,    *)
(* though the message was rewritten between two calls, and that fault came     *)
(* before its message (file_feishu_complaint and the duplicate branch).        *)
FiledAsAsked ==
  \A r \in Requests : req[r].case # None =>
    \E k \in DedupKeys :
      /\ inbox[k] # None
      /\ inbox[k].case = req[r].case
      /\ k.origin = req[r].input.origin
      /\ req[r].input.provenance \in {None, inbox[k].provenance}
      /\ req[r].injection \in {None, inbox[k].injection}
      /\ IsEvidence(inbox[k])

(* control-plane/README.md says of the inbox that within the window a repeated  *)
(* complaint is answered with its case: no call fails that was looked up while *)
(* the window of a case of its complaint was open.                           *)
RepeatIsAnswered ==
  \A r \in Requests : req[r].answer = "failed" => req[r].known = {}
=============================================================================
