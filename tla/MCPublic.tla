------------------------------- MODULE MCPublic -------------------------------
(* Instances of PublicApi: three requests that meet, on the records they need. *)
EXTENDS PublicApi, TLC

MCTables == {"application", "environment", "component", "edge", "version", "assignment",
             "binding", "snapshot", "proposal", "confirmation", "signal", "case", "link", "evidence"}
App == <<"shop", "bot">>
Foreign == <<"lab", "bot">>

Ask(intent, who, key, body) == [intent |-> intent, who |-> who, key |-> key, body |-> body]
Case == <<"s1", "e1">>
Signal(who, key, text) ==
  Ask("signals.submit", who, key, [source |-> "s1", event |-> "e1", reporter |-> who, text |-> text,
                                   project |-> "shop", env |-> None])
Edge(who, key, from, to) ==
  Ask("dependency-edges.record", who, key, [app |-> App, from |-> <<App, from>>, to |-> <<App, to>>,
                                          relation |-> "INVOKES"])
Application(who, key) == Ask("applications.register", who, key, [app |-> App, owner |-> "ann"])
Environment(who, key) == Ask("environments.register", who, key, [app |-> App, name |-> "prod"])
Component(who, key, app) ==
  Ask("system-components.register", who, key, [app |-> app, name |-> "c", owner |-> "ann"])
Manifest(who, key, digest, edges) ==
  Ask("system-manifests.import", who, key,
      [digest |-> digest, app |-> App, env |-> "prod", components |-> {"a", "b"}, policy |-> "p",
       edges |-> edges, owner |-> "ann"])
BindIssue(who, key, version, issue) ==
  Ask("cases.bind-application", who, key,
      [case |-> Case, app |-> App, env |-> "prod", version |-> version, issue |-> issue])
Bind(who, key, version) == BindIssue(who, key, version, None)
Propose(who) == Ask("acceptance-criteria.propose", who, "k1", [case |-> Case])
Confirm(who, of) == Ask("acceptance-criteria.confirm", who, "k1", [case |-> Case, of |-> of])

Rows(ids) == {[id |-> i, by |-> <<"seed", 0>>] : i \in ids}
Catalog == "application" :> Rows({App, Foreign}) @@ "environment" :> Rows({<<App, "prod">>})
           @@ "component" :> Rows({<<App, "a">>, <<App, "b">>, <<App, "d">>, <<Foreign, "x">>})
Reported == [id |-> Case, by |-> <<"seed", 0>>]
WithCase == "signal" :> {Reported @@ [body |-> Signal("ann", "k0", "t").body]} @@ "evidence" :> {Reported}
            @@ "case" :> {Reported @@ [project |-> "shop", env |-> None, signal |-> Case]}
            @@ "link" :> Rows({<<Case, Case>>})
Released == Catalog @@ "version" :>
  {[id |-> "v1", by |-> <<"seed", 0>>, app |-> App, env |-> <<App, "prod">>, components |-> {<<App, "a">>},
    topology |-> [components |-> {<<App, "a">>}, edges |-> {}]]}
Versioned == Released @@ WithCase
Seeded == Versioned @@ "proposal" :> {[id |-> <<Case, <<"seed", 0>>>>, by |-> <<"seed", 0>>, proposer |-> "ann"]}
Empty == [t \in {} |-> {}]

MCRequests == {"r1", "r2", "r3"}
Team(c1, c2, c3, seed) == [cmd |-> "r1" :> c1 @@ "r2" :> c2 @@ "r3" :> c3, seed |-> seed]

OneEdge == <<<<"a", "b", "INVOKES">>>>
TwoEdges == <<<<"a", "b", "INVOKES">>, <<"a", "b", "CONTAINS">>>>
TwiceOneEdge == OneEdge \o OneEdge
MCTeams == {
  Team(Edge("ann", "k1", "a", "b"), Edge("bob", "k1", "b", "d"), Edge("ann", "k2", "d", "a"), Catalog),
  Team(Edge("ann", "k1", "a", "b"), Edge("ann", "k1", "b", "a"), Edge("bob", "k1", "a", "x"), Catalog),
  Team(Manifest("ann", "k1", "m1", TwoEdges), Manifest("bob", "k1", "m1", TwoEdges), Application("cat", "k1"), Empty),
  Team(Manifest("ann", "k1", "m1", OneEdge), Component("ann", "k1", App), Edge("bob", "k1", "b", "a"), Empty),
  Team(Manifest("ann", "k1", "m1", TwiceOneEdge), Manifest("ann", "k1", "m2", <<>>), Manifest("bob", "k2", "m2", <<>>), Empty),
  Team(Application("ann", "k1"), Application("bob", "k1"), Environment("ann", "k1"), Empty),
  Team(Component("ann", "k1", App), Component("bob", "k1", App), Component("bob", "k2", Foreign), Catalog),
  Team(BindIssue("ann", "k1", "v1", "i1"), BindIssue("bob", "k1", "v1", "i1"), BindIssue("bob", "k2", None, "i2"), Versioned),
  Team(Bind("ann", "k1", "v1"), Bind("ann", "k1", None), Bind("bob", "k1", "v1"), Versioned),
  Team(Signal("ann", "k1", "t"), Signal("ann", "k1", "t"), Signal("ann", "k2", "t"), Empty),
  Team(Signal("ann", "k1", "t"), Signal("ann", "k2", "u"), Signal("bob", "k1", "t"), Empty),
  Team(Signal("ann", "k1", "t"), Bind("bob", "k1", "v1"), Propose("ann"), Released),
  Team(Propose("ann"), Propose("ann"), Confirm("bob", "r1"), Versioned),
  Team(Propose("ann"), Confirm("bob", "r1"), Confirm("cat", "r1"), Versioned),
  Team(Confirm("ann", "seed"), Bind("ann", "k1", "v2"), Propose("eve"), Seeded),
  Team(Bind("ann", "k1", "v1"), Propose("ann"), Confirm("bob", "seed"), Seeded)}

People == {"ann", "bob", "cat", "eve"}
MCCan == [p \in People |->
            CASE p = "eve" -> {} [] p = "cat" -> {"catalog", "confirm"}
              [] OTHER -> {"catalog", "import", "bind", "propose", "confirm", "signal"}]
MCGrants == [p \in People |-> {"shop"}]
MCSees == [p \in People |-> {<<App, "prod">>}]
=============================================================================
