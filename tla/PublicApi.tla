------------------------------ MODULE PublicApi ------------------------------
(* The commands of api/public_v4.py and api/public_v5.py together, in several  *)
(* processes at once.                                                        *)
EXTENDS CaseDecisions

allVars == <<vars, seen, presented>>

Intents == SignalIntents \cup CatalogIntents \cup ImportIntents \cup BindIntents
           \cup ProposeIntents \cup ConfirmIntents

ASSUME TablesAssumption ==
  {"application", "environment", "component", "edge", "version", "assignment", "binding",
   "snapshot", "proposal", "confirmation", "signal", "case", "link", "evidence"} \subseteq Tables

(* What the wire model lets through of a manifest: its dependencies are between *)
(* its own components, which are finitely many, and what a component depends   *)
(* on does not lead back to it.                                              *)
ManifestFits(b) ==
  /\ IsFiniteSet(b.components)
  /\ \A i \in DOMAIN b.edges :
       /\ {b.edges[i][1], b.edges[i][2]} \subseteq b.components
       /\ \E T \in SUBSET b.components :
            /\ b.edges[i][2] \in T /\ b.edges[i][1] \notin T
            /\ \A j \in DOMAIN b.edges : b.edges[j][1] \in T => b.edges[j][2] \in T

ASSUME RequestsAssumption ==
  /\ \A t \in Teams : \A r \in Requests :
       /\ t.cmd[r].intent \in Intents /\ t.cmd[r].who \in DOMAIN Can
       /\ t.cmd[r].intent \in ImportIntents => ManifestFits(t.cmd[r].body)
  /\ \A code \in {"SCOPE_FORBIDDEN", "RESOURCE_NOT_FOUND", "VALIDATION_FAILED"} :
       None \notin {Deny(code), Refuse(code)}

(* What earlier commands may have committed: a case, its link and its evidence *)
(* with the signal of its event, and proposals by attempts nobody confirmed.   *)
SignalsFit(d) ==
  /\ \A s \in d["signal"] : \E c \in d["case"] : c.id = s.id
  /\ \A c \in d["case"] : /\ c.signal = c.id /\ \E s \in d["signal"] : s.id = c.id
                          /\ \A e \in d["case"] : e.id = c.id => e = c
  /\ \A l \in d["link"] : \E s \in d["signal"] : l.id = <<s.id, s.id>>
  /\ \A e \in d["evidence"] : \E s \in d["signal"] : s.id = e.id

SeedOf(t) == [k \in Tables |-> IF k \in DOMAIN t.seed THEN t.seed[k] ELSE {}]

ASSUME SeedsAssumption ==
  \A t \in Teams :
    /\ \A k \in Tables : \A row \in SeedOf(t)[k] : row.by[1] \notin Requests
    /\ IsFiniteSet(SeedOf(t)["component"])
    /\ SignalsFit(SeedOf(t))
    /\ SeedOf(t)["confirmation"] = {}
    /\ \A x \in SeedOf(t)["proposal"] : x.id[2] = x.by

Command(r) ==
  CASE Intent(r) \in SignalIntents -> SubmitCommand(r)
    [] Intent(r) \in CatalogIntents -> CatalogCommand(r)
    [] Intent(r) \in ImportIntents -> ImportCommand(r)
    [] Intent(r) \in BindIntents -> BindCommand(r)
    [] Intent(r) \in ProposeIntents -> ProposeCommand(r)
    [] Intent(r) \in ConfirmIntents -> ConfirmCommand(r)

Step(r) == Command(r) /\ Present(r) /\ UNCHANGED seen

PublicInit == /\ Init
              /\ seen = [p \in DOMAIN Can |-> {}]
              /\ presented = [r \in Requests |-> {}]

Broken(r) == Fail(r) /\ UNCHANGED <<seen, presented>>

Next == \/ \E r \in Requests : Step(r) \/ Broken(r)
        \/ \E r \in Requests : Intent(r) \in ConfirmIntents /\ Reauthenticate(cmd[r].who)

Spec == PublicInit /\ [][Next]_allVars

(* A command that runs goes on: a lock it waits for is granted once it is     *)
(* free, and locks are kept only by transactions that run.                   *)
FairSpec == Spec /\ \A r \in Requests : WF_allVars(sessions[r].at = "open" /\ Step(r))

-----------------------------------------------------------------------------
(* Properties *)

(* However often a request is sent, by how many processes at once and whatever *)
(* fails between, what its key stands for is done once, and every answer that *)
(* names a record names that one, and names it only once it is committed.     *)
SameKey(r, q) == cmd[r].who = cmd[q].who /\ cmd[r].intent = cmd[q].intent /\ cmd[r].key = cmd[q].key

OncePerKey ==
  /\ \A t \in Tables : \A x, y \in db[t] :
       {x.by[1], y.by[1]} \subseteq Requests /\ SameKey(x.by[1], y.by[1]) => x.by = y.by
  /\ \A a, b \in answers :
       a.resource # None /\ b.resource # None /\ SameKey(a.request, b.request)
         => a.resource = b.resource
  /\ \A a \in answers : a.resource # None => a.resource[2] \in Ids(a.resource[1])

(* No component depends on itself, whichever edges were checked at once.      *)
GraphIsAcyclic == \A e \in db["edge"] : ~WouldCreateCycle(e.from, e.to)

(* Acceptance criteria are confirmed once, by somebody else than proposed      *)
(* them who logged in after they were proposed.                              *)
ConfirmationsAreEarned ==
  \A c \in db["confirmation"] :
    /\ c.id \in seen[c.confirmer]
    /\ \E x \in db["proposal"] : x.id = c.id /\ x.proposer # c.confirmer
    /\ \A d \in db["confirmation"] : d.id = c.id => d = c

(* A manifest may list a dependency twice: the wire model looks for unknown    *)
(* names and for cycles only, and the import writes an edge for each entry.  *)
RepeatsADependency(b) ==
  \E i, j \in DOMAIN b.edges : i # j /\ \A k \in 1..3 : b.edges[i][k] = b.edges[j][k]

Repeating(v) == v.by[1] \in Requests /\ RepeatsADependency(cmd[v.by[1]].body)

(* Whatever a command committed, those who may see it can read, and go on      *)
(* being able to while the catalog grows; except a version whose manifest     *)
(* listed a dependency twice, which the import accepts and no read of it, then *)
(* or later, ever gets through.                                              *)
CommittedIsReadable ==
  \A p \in DOMAIN Can :
    /\ \A v \in db["version"] : Accessible(p, v.app) =>
         VersionAnswer(p, v.id) = IF Repeating(v) THEN "INTERNAL_ERROR" ELSE "ok"
    /\ \A t \in {"environment", "component", "edge"} : \A row \in db[t] :
         ProjectOf(row.id[1]) \in Grants[p] => CatalogAnswer(p, t, row.id) = "ok"
    /\ \A b \in db["binding"] :
         CaseAccessible(p, b.id) /\ TargetExists(p, b.target) => BindingAnswer(p, b.id) = "ok"
    /\ \A c \in db["case"] : /\ CaseAnswer(p, c.id) = "ok" <=> Granted(p, c.project, c.env)
                              /\ CriteriaAnswer(p, c.id) # "INTERNAL_ERROR"
    /\ \A e \in db["evidence"] : EvidenceAnswer(p, e.id) # "INTERNAL_ERROR"

(* However two reports of one event of a source meet, under one key or two, it *)
(* opens one case and both are told of it: no lock is missing that leaves it   *)
(* to a unique index to stop the second.                                     *)
SignalsAreMerged ==
  \A a \in answers : Intent(a.request) \in SignalIntents =>
    /\ a.code # "INTERNAL_ERROR"
    /\ a.resource # None =>
         \E c \in db["case"] : c.signal = a.resource[2] /\ \A d \in db["case"] : d.signal = c.signal => d = c

(* Every command that was admitted is answered or fails: however commands     *)
(* meet, none waits for a lock that waits for it.                            *)
Answered == \A r \in Requests : sessions[r].at = "open" ~> sessions[r].at = "closed"
=============================================================================
