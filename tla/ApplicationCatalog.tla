------------------------- MODULE ApplicationCatalog -------------------------
(* services/application_catalog.py: applications, their environments and     *)
(* components, and the dependency edges between components.  A row is named   *)
(* by the identity the unique index of its table is on; an edge, which has    *)
(* none, by the attempt that recorded it as well.                            *)
EXTENDS PublicLedger

CONSTANTS Can,      \* what the type, the scopes and the roles of a principal allow
          Grants,   \* the projects it may see
          Owners    \* the active principals of the workspace

ApplicationIntents == {"applications.register"}
PartIntents == {"environments.register", "system-components.register"}
CatalogIntents == ApplicationIntents \cup PartIntents \cup {"dependency-edges.record"}

ProjectOf(app) == app[1]
Only(table, row) == [t \in Tables |-> IF t = table THEN {row} ELSE {}]

-----------------------------------------------------------------------------
(* Admission *)

MayMutate(p) == "catalog" \in Can[p]
Accessible(p, app) == app \in Ids("application") /\ ProjectOf(app) \in Grants[p]

(* A reference to an unknown application is denied and audited; one to an    *)
(* application of another project fails inside its denial.                   *)
RefuseReference(p, app) ==
  IF app \notin Ids("application") THEN Deny("RESOURCE_NOT_FOUND")
  ELSE IF ~Accessible(p, app) THEN Refuse("INTERNAL_ERROR")
  ELSE None

CatalogAdmission(r) ==
  LET p == cmd[r].who IN
  IF ~MayMutate(p) THEN Deny("SCOPE_FORBIDDEN")
  ELSE IF Intent(r) \notin ApplicationIntents THEN RefuseReference(p, Body(r).app)
  ELSE IF ProjectOf(Body(r).app) \notin Grants[p] THEN Deny("WORKSPACE_ACCESS_DENIED")
  ELSE None

-----------------------------------------------------------------------------
(* The dependency graph of an application *)

GraphLock(app) == <<"graph", app>>
Arrows == {<<e.from, e.to>> : e \in db["edge"]}

(* What can be reached from a component along committed edges, in at most as  *)
(* many steps as there are components.                                       *)
Reach(start) ==
  LET Further(set) == set \cup {a[2] : a \in {x \in Arrows : x[1] \in set}}
      step[n \in Nat] == IF n = 0 THEN {start} ELSE Further(step[n - 1])
  IN step[Cardinality(db["component"])]

WouldCreateCycle(from, to) == from \in Reach(to)
ComponentBelongs(app, c) == c \in Ids("component") /\ c[1] = app

RefuseEdge(r) ==
  LET b == Body(r) IN
  IF ~ComponentBelongs(b.app, b.from) \/ ~ComponentBelongs(b.app, b.to)
    THEN Refuse("RESOURCE_NOT_FOUND")      \* its audit row is rolled back
  ELSE IF b.from = b.to \/ WouldCreateCycle(b.from, b.to) THEN Refuse("VALIDATION_FAILED")
  ELSE None

-----------------------------------------------------------------------------
(* What a command locks, refuses for and writes *)

OwnersKnown(r) == "owner" \in DOMAIN Body(r) => Body(r).owner \in Owners

TableOf(r) == CASE Intent(r) = "applications.register" -> "application"
                [] Intent(r) = "environments.register" -> "environment"
                [] Intent(r) = "system-components.register" -> "component"
                [] Intent(r) = "dependency-edges.record" -> "edge"

ApplicationRow(r) == [id |-> Body(r).app, by |-> Attempt(r)]
PartRow(r) == [id |-> <<Body(r).app, Body(r).name>>, by |-> Attempt(r)]
EdgeRow(r) == [id |-> <<Body(r).app, Attempt(r)>>, by |-> Attempt(r),
               from |-> Body(r).from, to |-> Body(r).to, relation |-> Body(r).relation]

CatalogRow(r) == IF Intent(r) \in ApplicationIntents THEN ApplicationRow(r)
                 ELSE IF Intent(r) \in PartIntents THEN PartRow(r)
                 ELSE EdgeRow(r)

\* Mutant: the checks on the graph are not serialised.
CatalogPlanUnserialised(r) == <<KeyLock(r), ControllerLock("catalog")>>

(* The key, the graph for an edge, the controller of the catalog.            *)
CatalogPlan(r) ==
  LET graph == IF TableOf(r) = "edge" THEN <<GraphLock(Body(r).app)>> ELSE <<>>
  IN <<KeyLock(r)>> \o graph \o <<ControllerLock("catalog")>>

(* What a command that holds its key is refused for when it takes a lock.    *)
CatalogRefusal(r, lock) ==
  IF lock = KeyLock(r) /\ TableOf(r) # "edge"
    THEN IF ~OwnersKnown(r) THEN Refuse("VALIDATION_FAILED")
         ELSE IF CatalogRow(r).id \in Ids(TableOf(r)) THEN Refuse("CATALOG_CONFLICT")
         ELSE None
  ELSE IF lock = GraphLock(Body(r).app) THEN RefuseEdge(r)
  ELSE None

CatalogCommand(r) ==
  \/ Begin(r, CatalogAdmission(r))
  \/ Replay(r, CatalogPlan(r), Refuse("IDEMPOTENCY_CONFLICT"))
  \/ Unlocked(r, CatalogPlan(r)) /\ Take(r, CatalogPlan(r), CatalogRefusal(r, NextLock(r, CatalogPlan(r))))
  \/ Commit(r, CatalogPlan(r), Only(TableOf(r), CatalogRow(r)), <<TableOf(r), CatalogRow(r).id>>,
            Refuse("CATALOG_CONFLICT"))

-----------------------------------------------------------------------------
(* Reading a catalog record: one that is unknown, or of an application of     *)
(* another project, is not found.                                            *)

ApplicationOf(table, id) == IF table = "application" THEN id ELSE id[1]

CatalogAnswer(p, table, id) ==
  IF id \in Ids(table) /\ Accessible(p, ApplicationOf(table, id)) THEN "ok"
  ELSE "RESOURCE_NOT_FOUND"
=============================================================================
