----------------------------- MODULE SignalIntake -----------------------------
(* services/signal_intake.py: a signal a maintainer reports opens a case, with *)
(* the link between them and a receipt of the evidence there is, in one        *)
(* transaction; the same event of its source under another key is answered    *)
(* with what the first one made.  And the reads of services/public_read.py.   *)
(* A signal, its case and their receipts are named by the event of the source. *)
EXTENDS ApplicationCatalog

CONSTANTS Sources,    \* the active manual sources
          Sees        \* the environments a principal may see

SignalIntents == {"signals.submit"}
SourceLock(s) == <<"source", s>>
EventLock(id) == <<"event", id>>

EventOf(r) == <<Body(r).source, Body(r).event>>
Earlier(r) == {s \in db["signal"] : s.id = EventOf(r)}

(* A resource of no project or no environment is for everybody.               *)
Granted(p, project, env) == project \in Grants[p] \cup {None} /\ env \in Sees[p] \cup {None}

SubmitAdmission(r) ==
  LET p == cmd[r].who IN
  IF Body(r).reporter # p THEN Refuse("VALIDATION_FAILED")
  ELSE IF "signal" \notin Can[p] THEN Refuse("SCOPE_FORBIDDEN")
  ELSE IF ~Granted(p, Body(r).project, Body(r).env) THEN Refuse("WORKSPACE_ACCESS_DENIED")
  ELSE None

(* What it read under the lock on the event it goes by to its end.            *)
Opens(r) == <<"opens", Attempt(r)>>
Slice(r) == IF Opens(r) \notin Held(r) /\ Earlier(r) # {} THEN <<>>
            ELSE <<Opens(r), ControllerLock("signal"), ControllerLock("case"), ControllerLock("evidence")>>

\* Mutant: only the keys and the source are looked at, not the event.
SubmitPlanUnserialised(r) == <<KeyLock(r)>> \o Slice(r)

(* The key, the source, its event and, for a new one, the three controllers.  *)
SubmitPlan(r) == <<KeyLock(r), SourceLock(Body(r).source), EventLock(EventOf(r))>> \o Slice(r)

SubmitRefusal(r, lock) ==
  IF lock = SourceLock(Body(r).source) /\ Body(r).source \notin Sources
    THEN Refuse("RESOURCE_NOT_FOUND")
  ELSE IF lock = EventLock(EventOf(r)) /\ \E s \in Earlier(r) : s.body # Body(r)
    THEN Refuse("VALIDATION_FAILED")
  ELSE None

SignalRow(r) == [id |-> EventOf(r), by |-> Attempt(r), body |-> Body(r)]
CaseRow(r) == [id |-> EventOf(r), by |-> Attempt(r), project |-> Body(r).project,
               env |-> Body(r).env, signal |-> EventOf(r)]
LinkRow(r) == [id |-> <<EventOf(r), EventOf(r)>>, by |-> Attempt(r)]
EvidenceRow(r) == [id |-> EventOf(r), by |-> Attempt(r)]

SubmitRows(r) ==
  IF Opens(r) \notin Held(r) THEN [t \in Tables |-> {}]
  ELSE [t \in Tables |-> CASE t = "signal" -> {SignalRow(r)}
                          [] t = "case" -> {CaseRow(r)}
                          [] t = "link" -> {LinkRow(r)}
                          [] t = "evidence" -> {EvidenceRow(r)}
                          [] OTHER -> {}]

SubmitCommand(r) ==
  \/ Begin(r, SubmitAdmission(r))
  \/ Replay(r, SubmitPlan(r), Refuse("IDEMPOTENCY_CONFLICT"))
  \/ Unlocked(r, SubmitPlan(r)) /\ Take(r, SubmitPlan(r), SubmitRefusal(r, NextLock(r, SubmitPlan(r))))
  \/ Commit(r, SubmitPlan(r), SubmitRows(r), <<"signal", EventOf(r)>>, Refuse("INTERNAL_ERROR"))

-----------------------------------------------------------------------------
(* Reading a case or the evidence of a signal: one that does not fit together  *)
(* is an internal error.                                                      *)

LinkedTo(c) == {l.id[1] : l \in {x \in db["link"] : x.id[2] = c.id}}
GraphFits(c) == /\ c.signal \in LinkedTo(c) /\ LinkedTo(c) \subseteq Ids("signal")
                /\ LinkedTo(c) \cap Ids("evidence") # {}

CaseAnswer(p, id) ==
  LET found == {c \in db["case"] : c.id = id} IN
  IF \A c \in found : ~Granted(p, c.project, c.env) THEN "RESOURCE_NOT_FOUND"
  ELSE IF \A c \in found : GraphFits(c) THEN "ok"
  ELSE "INTERNAL_ERROR"

EvidenceAnswer(p, id) ==
  LET about == {s \in db["signal"] : s.id = id} IN
  IF id \notin Ids("evidence") THEN "RESOURCE_NOT_FOUND"
  ELSE IF about = {} THEN "INTERNAL_ERROR"
  ELSE IF \A s \in about : Granted(p, s.body.project, s.body.env) THEN "ok"
  ELSE "RESOURCE_NOT_FOUND"
=============================================================================
