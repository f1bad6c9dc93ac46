----------------------------- MODULE IssueFiling -----------------------------
(* The command line (cli/src/agentmed_cli): `case from-issue' files a case    *)
(* for the version of a GitHub issue it has before it, binds it and proposes  *)
(* acceptance criteria; `acceptance-criteria confirm' lets the owner confirm  *)
(* them.  Both are rerun, in several shells, by people whose credentials      *)
(* LocalIdentity makes.  A command on the server is one step here; how those  *)
(* are made of locks and rows is PublicApi's subject.                         *)
EXTENDS LocalIdentity

CONSTANTS Processes,    \* the shells
          MaxEdits,     \* bound: edits of the issue
          MaxRuns,      \* bound: runs of the two commands
          MaxAttempts   \* how often the client sends a request

VARIABLES issue,      \* the version of the issue on GitHub
          cache,      \* the version kept on disk, "torn" or None
          run,        \* what a shell runs, or None
          runs,       \* how many were started
          wire,       \* requests on their way to the server
          ledger,     \* the idempotency ledger: what a key was used for
          cases,      \* the versions there is a case for, in the order they were filed
          bindings,   \* the cases that are bound
          drafts,     \* the proposed criteria: case, and when they were proposed
          confirmed   \* the drafts that are confirmed

server == <<ledger, cases, bindings, drafts, confirmed>>
filing == <<issue, cache, run, runs, wire, server>>
filingVars == <<identity, filing>>

Torn == 0  \* the content of a cache file that was not written to its end

FilingInit ==
  /\ IdentityInit
  /\ issue = 1 /\ cache = None /\ runs = 0
  /\ run = [p \in Processes |-> None]
  /\ wire = {} /\ ledger = {} /\ bindings = {} /\ confirmed = {}
  /\ cases = <<>> /\ drafts = <<>>

-----------------------------------------------------------------------------
(* The people *)

EditIssue == issue <= MaxEdits /\ issue' = issue + 1
             /\ UNCHANGED <<identity, cache, run, runs, wire, server>>

Import == \E c \in DOMAIN credentials : ImportSystem(c)
Rotate == \E q \in Installs, c \in DOMAIN credentials : RotateOperator(q, c)

(* The proposal stands, of a case that is bound.                              *)
ProposalStands(d) == drafts[d].case \in bindings /\ drafts[d].at <= clock
Login == \E q \in Catalog, d \in DOMAIN drafts :
           ProposalStands(d) /\ ReauthenticateOwner(q, drafts[d].at)

People == (Pass \/ Bootstrap \/ Import \/ Rotate \/ Login) /\ UNCHANGED filing

-----------------------------------------------------------------------------
(* The snapshot of the issue *)

(* It is whole and of this issue.  It comes from the cache or, when there is  *)
(* none or a fresh one is asked for, from GitHub; then it is written to the   *)
(* cache, which may fail.                                                     *)
Usable(snapshot) == snapshot \notin {None, Torn}

FetchIssue(p) ==
  /\ run[p] # None /\ run[p].at = "fetch"
  /\ \/ /\ Usable(cache)
        /\ run' = [run EXCEPT ![p].at = "resolve", ![p].version = cache]
        /\ UNCHANGED cache
     \/ /\ run' = [run EXCEPT ![p].at = "resolve", ![p].version = issue]
        /\ cache' \in {cache, Torn, issue}
  /\ UNCHANGED <<identity, issue, runs, wire, server>>

-----------------------------------------------------------------------------
(* The requests of a command.  What it only reads is one step; a command that *)
(* cannot go on, or is killed, stops.                                         *)

NextStep == [resolve |-> "signal", signal |-> "criteria", criteria |-> "bind",
             bind |-> "propose", propose |-> "done", proposal |-> "confirm", confirm |-> "done"]
Writes == {"signal", "bind", "propose", "confirm"}

NewRun(at, token, draft) ==
  [at |-> at, token |-> token, draft |-> draft, version |-> None, case |-> None,
   number |-> runs + 1, tries |-> 0, waiting |-> FALSE]

Start(p, r) == /\ run[p] = None /\ runs < MaxRuns
               /\ runs' = runs + 1 /\ run' = [run EXCEPT ![p] = r]
               /\ UNCHANGED <<identity, issue, cache, wire, server>>

FromIssue(p, token) ==
  /\ credentials[token].who \in {Operator(q) : q \in Catalog}
  /\ Start(p, NewRun("fetch", token, None))

ConfirmCriteria(p, token, d) ==
  /\ credentials[token].who \in {Owner(q) : q \in Catalog}
  /\ Start(p, NewRun("proposal", token, d))

Advance(r) == IF NextStep[r.at] = "done" THEN None
              ELSE [r EXCEPT !.at = NextStep[r.at], !.tries = 0, !.waiting = FALSE]

(* The application, the environment and the declared version, before anything *)
(* is written; the exact revision of the case; the proposal to be confirmed.  *)
Read(p) ==
  /\ run[p] # None /\ run[p].at \in {"resolve", "criteria", "proposal"}
  /\ ResolvesThere(run[p].token)
  /\ run' = [run EXCEPT ![p] = Advance(@)]
  /\ UNCHANGED <<identity, issue, cache, runs, wire, server>>

Stop(p) == /\ run[p] # None /\ run' = [run EXCEPT ![p] = None]
           /\ UNCHANGED <<identity, issue, cache, runs, wire, server>>

(* A key is the issue's, with its version; the confirmation's is made up.     *)
\* Mutant: the key of a binding leaves out the version.
KeyUnversioned(r) == <<r.at, CASE r.at = "confirm" -> r.number
                               [] r.at = "bind" -> None
                               [] OTHER -> r.version>>
KeyOf(r) == <<r.at, IF r.at = "confirm" THEN r.number ELSE r.version>>

(* It is sent again under the same request id, unless it was the last time.   *)
Send(p) ==
  /\ run[p] # None /\ run[p].at \in Writes
  /\ ~run[p].waiting /\ run[p].tries < MaxAttempts
  /\ wire' = wire \cup {[from |-> p, number |-> run[p].number, at |-> run[p].at,
                         token |-> run[p].token, key |-> KeyOf(run[p]),
                         version |-> run[p].version, case |-> run[p].case, draft |-> run[p].draft]}
  /\ run' = [run EXCEPT ![p].tries = @ + 1, ![p].waiting = TRUE]
  /\ UNCHANGED <<identity, issue, cache, runs, server>>

(* The answer does not come, or says that the server cannot be reached.       *)
TimeOut(p) ==
  /\ run[p] # None /\ run[p].waiting
  /\ run' = [run EXCEPT ![p] = IF @.tries = MaxAttempts THEN None ELSE [@ EXCEPT !.waiting = FALSE]]
  /\ UNCHANGED <<identity, issue, cache, runs, wire, server>>

-----------------------------------------------------------------------------
(* What the server does with a request, early, late or never, and what the    *)
(* client makes of the answer when it still waits for it.                     *)

Kinds(at) == IF at = "signal" THEN IntakeKinds ELSE {"decision"}
Body(m) == <<m.version, m.case, m.draft>>
Used(m) == {e \in ledger : e.key = m.key}

Conflicts(m) == \/ \E e \in Used(m) : e.body # Body(m)
                \/ m.at = "confirm" /\ Used(m) = {} /\ m.draft \in confirmed

(* The credential of a confirmation was issued after the proposal.            *)
Fresh(m) == m.at = "confirm" => credentials[m.token].issued > drafts[m.draft].at

Admitted(m) == /\ ResolvesThere(m.token) /\ ~Conflicts(m)
               /\ Used(m) = {} => /\ \A k \in Kinds(m.at) : Sole(k)
                                  /\ m.at = "signal" => sources # {}
                                  /\ Fresh(m)

(* The case of an event, which is the same for every report of it.            *)
CaseOf(v) == {c \in DOMAIN cases : cases[c] = v}
Filed(m) == IF m.at = "signal" /\ CaseOf(m.version) = {} THEN Append(cases, m.version) ELSE cases

WriteRows(m) ==
  /\ cases' = Filed(m)
  /\ bindings' = IF m.at = "bind" THEN bindings \cup {m.case} ELSE bindings
  /\ drafts' = IF m.at = "propose" THEN Append(drafts, [case |-> m.case, at |-> clock]) ELSE drafts
  /\ confirmed' = IF m.at = "confirm" THEN confirmed \cup {m.draft} ELSE confirmed
  /\ ledger' = ledger \cup {[key |-> m.key, body |-> Body(m)]}

WaitsFor(m) == LET r == run[m.from] IN
  r # None /\ r.waiting /\ <<r.number, r.at>> = <<m.number, m.at>>

(* An answer bears the id of the request or says that it was given before,    *)
(* and the receipt in it is for this very request.                            *)
Heard(m) ==
  LET case == IF m.at = "signal" THEN CHOOSE c \in DOMAIN cases' : cases'[c] = m.version
                                 ELSE run[m.from].case
  IN run' = [run EXCEPT ![m.from] = Advance([@ EXCEPT !.case = case])]

Serve(m) ==
  /\ Admitted(m) /\ wire' = wire \ {m}
  /\ IF Used(m) = {} THEN WriteRows(m) ELSE UNCHANGED server
  /\ \/ UNCHANGED run
     \/ WaitsFor(m) /\ Heard(m)
  /\ UNCHANGED <<identity, issue, cache, runs>>

Reject(m) ==
  /\ ~Admitted(m) /\ wire' = wire \ {m}
  /\ \/ UNCHANGED run
     \/ WaitsFor(m) /\ run' = [run EXCEPT ![m.from] = None]
  /\ UNCHANGED <<identity, issue, cache, runs, server>>

-----------------------------------------------------------------------------
Shell(p) == \/ \E c \in DOMAIN credentials : \/ FromIssue(p, c)
                                             \/ \E d \in DOMAIN drafts : ConfirmCriteria(p, c, d)
            \/ FetchIssue(p) \/ Read(p) \/ Stop(p) \/ Send(p) \/ TimeOut(p)

FilingNext ==
  \/ People \/ EditIssue
  \/ \E p \in Processes : Shell(p)
  \/ \E m \in wire : Serve(m) \/ Reject(m)

FilingSpec == FilingInit /\ [][FilingNext]_filingVars

-----------------------------------------------------------------------------
(* Nobody ever has two credentials at once: what the operator did with the    *)
(* old one, or the owner before a proposal, is never done with a leftover.    *)
OneLiveCredential ==
  \A c, d \in DOMAIN credentials :
    credentials[c].who = credentials[d].who /\ Active(c) /\ Active(d) => c = d

(* However often a filing is run, killed, answered late or run in two shells, *)
(* a version of the issue has one case and one draft, and no request of it    *)
(* is ever refused because of an earlier one.                                 *)
FilingIsRepeatable ==
  /\ \A c, d \in DOMAIN cases : cases[c] = cases[d] => c = d
  /\ \A d, e \in DOMAIN drafts : drafts[d].case = drafts[e].case => d = e
  /\ \A m \in wire : m.at # "confirm" => ~Conflicts(m)

=============================================================================
