--------------------------- MODULE SystemVersions ---------------------------
(* services/system_versions.py: the import of a manifest, which bootstraps an *)
(* empty workspace with an application, an environment, the components and    *)
(* their edges, and the VersionSet, attestation and assignment that bind      *)
(* them; and the reading of a VersionSet, which verifies all of it again.     *)
(* A VersionSet is named by the digest of its manifest.                      *)
EXTENDS ApplicationCatalog

ImportIntents == {"system-manifests.import"}
ImportLock == <<"import">>

MayImport(p) == "import" \in Can[p]

(* None of these refusals is audited.                                        *)
ImportAdmission(r) ==
  IF MayImport(cmd[r].who) /\ ProjectOf(Body(r).app) \in Grants[cmd[r].who] THEN None
  ELSE Refuse("SCOPE_FORBIDDEN")

Imported(r) == {v \in db["version"] : v.id = Body(r).digest}

(* The workspace, the key and, unless the manifest was imported before, the   *)
(* controllers of the catalog and of the versions.                           *)
ImportPlan(r) == <<ImportLock, KeyLock(r)>> \o
                 (IF Imported(r) # {} THEN <<>>
                  ELSE <<ControllerLock("catalog"), ControllerLock("version")>>)

BootstrapEmpty == db["application"] = {}

ImportRefusal(r, lock) ==
  IF lock # KeyLock(r) \/ Imported(r) # {} THEN None
  ELSE IF ~BootstrapEmpty THEN Refuse("CATALOG_CONFLICT")
  ELSE IF ~OwnersKnown(r) THEN Refuse("VALIDATION_FAILED")
  ELSE None

-----------------------------------------------------------------------------
(* The rows of a manifest.  Its names become the identities of components.    *)

ComponentId(r, name) == <<Body(r).app, name>>
EnvironmentId(r) == <<Body(r).app, Body(r).env>>
PartsOf(r) == {ComponentId(r, n) : n \in Body(r).components}

(* The policy of the approvers is recorded as a component too.                *)
PolicyOf(r) == IF Body(r).policy = None THEN {} ELSE {ComponentId(r, Body(r).policy)}

ManifestEdges(r) ==
  {[id |-> <<Body(r).app, Append(Attempt(r), i)>>, by |-> Attempt(r),
    from |-> ComponentId(r, Body(r).edges[i][1]), to |-> ComponentId(r, Body(r).edges[i][2]),
    relation |-> Body(r).edges[i][3]]
     : i \in DOMAIN Body(r).edges}

\* Mutant: the topology lists every component written, the policy included.
TopologyOfAll(r) == [components |-> PartsOf(r) \cup PolicyOf(r),
                     edges |-> {e.id : e \in ManifestEdges(r)}]

(* The topology has the components bound by a revision, without the policy.   *)
Topology(r) == [components |-> PartsOf(r), edges |-> {e.id : e \in ManifestEdges(r)}]

VersionRow(r) ==
  [id |-> Body(r).digest, by |-> Attempt(r), app |-> Body(r).app, env |-> EnvironmentId(r),
   components |-> PartsOf(r), topology |-> Topology(r)]

AssignmentRow(r) == [id |-> <<EnvironmentId(r), 1>>, by |-> Attempt(r), version |-> Body(r).digest]

ImportRows(r) ==
  IF Imported(r) # {} THEN [t \in Tables |-> {}]
  ELSE [t \in Tables |->
          CASE t = "application" -> {ApplicationRow(r)}
            [] t = "environment" -> {[id |-> EnvironmentId(r), by |-> Attempt(r)]}
            [] t = "component" -> {[id |-> c, by |-> Attempt(r)] : c \in PartsOf(r) \cup PolicyOf(r)}
            [] t = "edge" -> ManifestEdges(r)
            [] t = "version" -> {VersionRow(r)}
            [] t = "assignment" -> {AssignmentRow(r)}
            [] OTHER -> {}]

ImportCommand(r) ==
  \/ Begin(r, ImportAdmission(r))
  \/ Replay(r, ImportPlan(r), Refuse("IDEMPOTENCY_CONFLICT"))
  \/ Unlocked(r, ImportPlan(r)) /\ Take(r, ImportPlan(r), ImportRefusal(r, NextLock(r, ImportPlan(r))))
  \/ Commit(r, ImportPlan(r), ImportRows(r), <<"version", Body(r).digest>>,
            Refuse("CATALOG_CONFLICT"))

-----------------------------------------------------------------------------
(* Reading a VersionSet: _verified_system_version_graph fails it with          *)
(* INTERNAL_ERROR unless all it binds is there and fits together.             *)

EdgesOf(v) == {e \in db["edge"] : e.id \in v.topology.edges}

PartsFit(v) == /\ v.app \in Ids("application") /\ v.env \in Ids("environment")
               /\ v.components \subseteq {c \in Ids("component") : c[1] = v.app}
               /\ v.topology.components = v.components

(* Two of its edges may not stand for the same dependency.                    *)
EdgesFit(v) == /\ v.topology.edges \subseteq Ids("edge")
               /\ \A e \in EdgesOf(v) : {e.from, e.to} \subseteq v.components
               /\ \A e, f \in EdgesOf(v) : 
                    e.from = f.from /\ e.to = f.to /\ e.relation = f.relation => e = f

VersionAnswer(p, id) ==
  LET found == {v \in db["version"] : v.id = id} IN
  IF \A v \in found : ~Accessible(p, v.app) THEN "RESOURCE_NOT_FOUND"
  ELSE IF \A v \in found : PartsFit(v) /\ EdgesFit(v) THEN "ok"
  ELSE "INTERNAL_ERROR"
=============================================================================
