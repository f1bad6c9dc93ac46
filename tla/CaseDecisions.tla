---------------------------- MODULE CaseDecisions ----------------------------
(* services/case_binding.py and services/acceptance.py: which application and *)
(* environment a case is about, and the acceptance criteria proposed for it   *)
(* and confirmed by somebody else.  Each locks the case before its key.       *)
EXTENDS SystemVersions, SignalIntake

VARIABLES seen,       \* proposals older than the newest credential of a principal
          presented   \* the same, of the credential a request was made with

BindIntents == {"cases.bind-application"}
ProposeIntents == {"acceptance-criteria.propose"}
ConfirmIntents == {"acceptance-criteria.confirm"}

CaseLock(c) == <<"case", c>>
CaseAccessible(p, id) == \E c \in db["case"] : c.id = id /\ Granted(p, c.project, c.env)

-----------------------------------------------------------------------------
(* Binding a case to an application *)

TargetOf(r) == [env |-> <<Body(r).app, Body(r).env>>, version |-> Body(r).version]
BindingOf(r) == {b \in db["binding"] : b.id = Body(r).case}

TargetExists(p, target) ==
  /\ target.env \in Ids("environment") /\ target.env \in Sees[p]
  /\ Accessible(p, target.env[1])

TargetFits(id, target) ==
  \A c \in db["case"] : c.id = id => /\ c.project \in {None, ProjectOf(target.env[1])}
                                    /\ c.env \in {None, target.env}

(* A declared VersionSet is one of the same application and environment.      *)
DeclaredFits(target) ==
  target.version # None =>
    \E v \in db["version"] : v.id = target.version /\ v.env = target.env

(* An existing binding needs no controller: only the ledger is written.       *)
BindPlan(r) == <<CaseLock(Body(r).case), KeyLock(r)>> \o
               (IF BindingOf(r) # {} THEN <<>> ELSE <<ControllerLock("case")>>)

BindRefusal(r, lock) ==
  LET p == cmd[r].who  c == Body(r).case IN
  IF lock = CaseLock(c)
    THEN IF /\ CaseAccessible(p, c) /\ TargetExists(p, TargetOf(r))
            /\ TargetFits(c, TargetOf(r)) /\ DeclaredFits(TargetOf(r))
         THEN None ELSE Deny("RESOURCE_NOT_FOUND")
  ELSE IF lock = KeyLock(r) /\ \E b \in BindingOf(r) : b.target # TargetOf(r)
    THEN Deny("CATALOG_CONFLICT")
  ELSE None

BindingRows(r) ==
  IF BindingOf(r) # {} THEN {}
  ELSE {[id |-> Body(r).case, by |-> Attempt(r), target |-> TargetOf(r)]}

(* The issue a bind brings along, which a case has once in each version.      *)
SnapshotRows(r) ==
  LET id == <<Body(r).case, Body(r).issue>> IN
  IF Body(r).issue = None \/ id \in Ids("snapshot") THEN {} ELSE {[id |-> id, by |-> Attempt(r)]}

BindRows(r) == [t \in Tables |-> CASE t = "binding" -> BindingRows(r)
                                  [] t = "snapshot" -> SnapshotRows(r)
                                  [] OTHER -> {}]

Admit(r, capability) == IF capability \in Can[cmd[r].who] THEN None ELSE Deny("SCOPE_FORBIDDEN")
Reused == Deny("IDEMPOTENCY_CONFLICT")

BindCommand(r) ==
  \/ Begin(r, Admit(r, "bind"))
  \/ Replay(r, BindPlan(r), Reused)
  \/ Unlocked(r, BindPlan(r)) /\ Take(r, BindPlan(r), BindRefusal(r, NextLock(r, BindPlan(r))))
  \/ Commit(r, BindPlan(r), BindRows(r), <<"binding", Body(r).case>>, Refuse("CATALOG_CONFLICT"))

-----------------------------------------------------------------------------
(* Proposing acceptance criteria *)

\* Mutant: the controller is resolved before the case is locked.
ProposePlanController(r) == <<ControllerLock("case"), CaseLock(Body(r).case), KeyLock(r)>>

ProposePlan(r) == <<CaseLock(Body(r).case), KeyLock(r), ControllerLock("case")>>

ProposeRefusal(r, lock) ==
  IF lock = CaseLock(Body(r).case) /\ ~CaseAccessible(cmd[r].who, Body(r).case)
  THEN Deny("RESOURCE_NOT_FOUND") ELSE None

ProposalRow(r) == [id |-> <<Body(r).case, Attempt(r)>>, by |-> Attempt(r), proposer |-> cmd[r].who]

ProposeCommand(r) ==
  \/ Begin(r, Admit(r, "propose"))
  \/ Replay(r, ProposePlan(r), Reused)
  \/ Unlocked(r, ProposePlan(r))
     /\ Take(r, ProposePlan(r), ProposeRefusal(r, NextLock(r, ProposePlan(r))))
  \/ Commit(r, ProposePlan(r), Only("proposal", ProposalRow(r)), <<"proposal", ProposalRow(r).id>>,
            Refuse("CATALOG_CONFLICT"))

-----------------------------------------------------------------------------
(* Confirming them.  A request names the proposal of another request; it      *)
(* knows its identity once that is committed.                                *)

Proposed(r) == {x \in db["proposal"] : x.by[1] = Body(r).of}
TheProposal(r) == CHOOSE x \in Proposed(r) : TRUE
ConfirmationOf(x) == {c \in db["confirmation"] : c.id = x.id}

\* Mutant: any credential of the confirmer will do.
FreshCredentialAny(r, x) == TRUE

(* The credential was issued after the criteria were proposed.                *)
FreshCredential(r, x) == x.id \in presented[r]

ProposalLock(r) == IF Proposed(r) = {} THEN <<"proposal", None>> ELSE <<"proposal", TheProposal(r).id>>

ConfirmPlan(r) ==
  <<ProposalLock(r), CaseLock(Body(r).case), KeyLock(r), ControllerLock("case")>>

ConfirmRefusal(r, lock) ==
  LET p == cmd[r].who  x == TheProposal(r) IN
  IF Proposed(r) = {} THEN Deny("RESOURCE_NOT_FOUND")
  ELSE IF lock = CaseLock(Body(r).case)
    THEN IF ~CaseAccessible(p, Body(r).case) THEN Deny("RESOURCE_NOT_FOUND")
         ELSE IF x.proposer = p \/ ~FreshCredential(r, x) THEN Deny("VALIDATION_FAILED")
         ELSE None
  ELSE IF lock = KeyLock(r) /\ ConfirmationOf(x) # {} THEN Deny("CATALOG_CONFLICT")
  ELSE None

ConfirmationRow(r) == [id |-> TheProposal(r).id, by |-> Attempt(r), confirmer |-> cmd[r].who]

ConfirmCommand(r) ==
  \/ Begin(r, Admit(r, "confirm"))
  \/ Replay(r, ConfirmPlan(r), Reused)
  \/ Unlocked(r, ConfirmPlan(r))
     /\ Take(r, ConfirmPlan(r), ConfirmRefusal(r, NextLock(r, ConfirmPlan(r))))
  \/ Commit(r, ConfirmPlan(r), Only("confirmation", ConfirmationRow(r)),
            <<"confirmation", TheProposal(r).id>>, Deny("CATALOG_CONFLICT"))

-----------------------------------------------------------------------------
(* Reading a binding and the criteria of a case, and all they rest on again.  *)

BindingAnswer(p, c) ==
  LET bound == {b \in db["binding"] : b.id = c} IN
  IF /\ CaseAccessible(p, c) /\ bound # {}
     /\ \A b \in bound : TargetExists(p, b.target) /\ DeclaredFits(b.target)
  THEN "ok" ELSE "RESOURCE_NOT_FOUND"

(* A confirmation is of a proposal that is there, by a credential that is      *)
(* younger.                                                                  *)
ConfirmationFits(x) == \E y \in db["proposal"] : y.id = x.id /\ y.id \in seen[x.confirmer]

CriteriaAnswer(p, c) ==
  IF ~CaseAccessible(p, c) THEN "RESOURCE_NOT_FOUND"
  ELSE IF \A x \in db["confirmation"] : x.id[1] = c => ConfirmationFits(x) THEN "ok"
  ELSE "INTERNAL_ERROR"

-----------------------------------------------------------------------------
(* A principal gets a new credential; a proposal is as old as the moment its  *)
(* command had its key.                                                      *)
Proposing == {q \in Requests : cmd[q].intent \in ProposeIntents /\ KeyLock(q) \in Held(q)}

Reauthenticate(p) ==
  /\ seen' = [seen EXCEPT ![p] = Ids("proposal") \cup {<<Body(q).case, Attempt(q)>> : q \in Proposing}]
  /\ seen'[p] # seen[p]
  /\ UNCHANGED <<vars, presented>>

(* A request presents the newest credential of its principal as it arrives.   *)
Present(r) ==
  presented' = IF sessions[r].at = "closed" /\ Intent(r) \in ConfirmIntents
               THEN [presented EXCEPT ![r] = seen[cmd[r].who]] ELSE presented
=============================================================================
