---------------------------- MODULE LocalIdentity ----------------------------
(* bootstrap/v5_catalog_local.py and bootstrap/stage1a_local.py, which make   *)
(* the people, credentials, sources and controllers of a workspace, and       *)
(* public_api/credential_resolver.py, which tells who a bearer is.  A command *)
(* is one READ COMMITTED transaction under an advisory lock: a bootstrap      *)
(* looks at what there is and later writes what is missing; the other two     *)
(* read only rows that nothing but themselves changes, and are one step.      *)
EXTENDS Naturals, Sequences, FiniteSets, Absence

CONSTANTS Installs,       \* the bootstrap requests, each with identities of its own
          Catalog,        \* those of v5_catalog_local; the others are of stage1a_local
          Lifetime,       \* how long a credential is valid
          MaxAge,         \* how old the credential of a rotation or a login may be
          MaxClock,       \* bound: the time that passes
          MaxCredentials  \* bound: the credentials that are made

ASSUME LocalAssumption == /\ Catalog \subseteq Installs
                          /\ {Lifetime, MaxAge, MaxClock, MaxCredentials} \subseteq Nat

VARIABLES clock,         \* the time
          sources,       \* the requests whose manual source is active
          registrations, \* the active controllers: what they are for and their request
          people,        \* the principals there are
          bound,         \* those of them whose claims name the environment
          credentials,   \* the rows of public_credentials, in the order they were made
          environment,   \* when the environment was imported
          ready          \* the bootstraps that have looked and not yet written

identity == <<clock, sources, registrations, people, bound, credentials, environment, ready>>

(* The identities of one request are all different.                           *)
Operator(q) == <<"operator", q>>
Owner(q) == <<"owner", q>>

(* The kinds of commands for which a request registers a controller: two of   *)
(* them, for cases and for decisions about them, have the same owner.         *)
IntakeKinds == {"signal", "case", "evidence"}
CatalogKinds == {"catalog", "version", "decision"}

IdentityInit ==
  /\ clock = 0 /\ environment = None
  /\ sources = {} /\ registrations = {} /\ people = {} /\ bound = {} /\ ready = {}
  /\ credentials = <<>>

Pass == clock < MaxClock /\ clock' = clock + 1
        /\ UNCHANGED <<sources, registrations, people, bound, credentials, environment, ready>>

-----------------------------------------------------------------------------
(* Who a bearer is *)

Expired(c) == clock >= credentials[c].issued + Lifetime

(* The claims of a principal name the environment or do not; those of its     *)
(* credential are the same, to the letter.                                    *)
ClaimsOf(p) == p \in bound
GrantsMatch(c) == /\ credentials[c].who \in people
                  /\ credentials[c].bound = ClaimsOf(credentials[c].who)

Resolves(c) == /\ credentials[c].state = "ACTIVE"
               /\ ~Expired(c) /\ credentials[c].issued <= clock
               /\ GrantsMatch(c)

(* The context of a request in the environment.                               *)
ResolvesThere(c) == Resolves(c) /\ credentials[c].bound

(* A controller decides only while it is the one registered for the command.  *)
Sole(kind) == Cardinality({r \in registrations : r.kind = kind}) = 1

CredentialsOf(p) == {c \in DOMAIN credentials : credentials[c].who = p}
Active(c) == credentials[c].state = "ACTIVE"

(* A new credential, made no earlier than MaxAge ago.                         *)
Room == Len(credentials) < MaxCredentials
Issued(p, inEnvironment, at) == [who |-> p, bound |-> inEnvironment, issued |-> at, state |-> "ACTIVE"]
Recent == {t \in 0..clock : clock - t <= MaxAge /\ clock < t + Lifetime}

-----------------------------------------------------------------------------
(* The bootstraps: what is there already is exactly what the request says, or *)
(* the command is refused.  One holds the lock of its kind until it is done,  *)
(* and that on the active credential.                                         *)

SourceFits(q) == sources \subseteq {q}

(* Its operator has the one active credential that the request made for it.   *)
CredentialFits(q) ==
  \A c \in CredentialsOf(Operator(q)) : Active(c) /\ ~Expired(c)

Ready(q) ==
  /\ Operator(q) \in people \/ Room
  /\ ready' = ready \cup {q}
  /\ UNCHANGED <<clock, sources, registrations, people, bound, credentials, environment>>

ControllersFit(q, kinds) == \A r \in registrations : r.kind \in kinds => r.by = q

(* Its people must not be in an environment yet.                              *)
PeopleFit(q) == {Operator(q), Owner(q)} \cap bound = {}

HoldsLock(q, peers) == q \in peers /\ ready \cap peers = {}

CheckCatalog(q) ==
  /\ HoldsLock(q, Catalog)
  /\ SourceFits(q) /\ ControllersFit(q, IntakeKinds \cup CatalogKinds)
  /\ PeopleFit(q) /\ CredentialFits(q) /\ Ready(q)

IntakeFits(q) == ControllersFit(q, IntakeKinds)

CheckIntake(q) ==
  /\ HoldsLock(q, Installs \ Catalog)
  /\ SourceFits(q) /\ CredentialFits(q) /\ IntakeFits(q) /\ Ready(q)

(* It writes what it did not find, with the audits, and commits.              *)
Register(q, kinds) == registrations' = registrations \cup {[kind |-> k, by |-> q] : k \in kinds}

Enrol(q, inEnvironment) ==
  IF Operator(q) \in people THEN UNCHANGED credentials
  ELSE \E t \in 0..clock :
         /\ clock < t + Lifetime
         /\ credentials' = Append(credentials, Issued(Operator(q), inEnvironment, t))

InstallCatalog(q) ==
  /\ q \in ready \cap Catalog /\ ready' = ready \ {q}
  /\ sources' = sources \cup {q}
  /\ people' = people \cup {Operator(q), Owner(q)}
  /\ Register(q, IntakeKinds \cup CatalogKinds) /\ Enrol(q, FALSE)
  /\ UNCHANGED <<clock, bound, environment>>

InstallIntake(q) ==
  /\ q \in ready \ Catalog /\ ready' = ready \ {q}
  /\ sources' = sources \cup {q}
  /\ people' = people \cup {Operator(q)}
  /\ bound' = bound \cup {Operator(q)}
  /\ Register(q, IntakeKinds) /\ Enrol(q, TRUE)
  /\ UNCHANGED <<clock, environment>>

(* It dies, or an audit cannot be written: nothing is kept.                   *)
Abandon(q) ==
  /\ q \in ready /\ ready' = ready \ {q}
  /\ UNCHANGED <<clock, sources, registrations, people, bound, credentials, environment>>

-----------------------------------------------------------------------------
(* The environment, the operator who is moved into it and the owner who logs  *)
(* in to confirm.                                                             *)

(* The operator imports the system, in an environment its claims cannot name. *)
ImportSystem(c) ==
  /\ environment = None
  /\ Resolves(c) /\ credentials[c].who \in {Operator(q) : q \in Catalog}
  /\ Sole("catalog") /\ Sole("version")
  /\ environment' = clock
  /\ UNCHANGED <<clock, sources, registrations, people, bound, credentials, ready>>

EnvironmentStands == environment # None

(* A new credential that was issued after something, for a principal who is   *)
(* not in the environment yet.                                                *)
Admit(p, after, rows) ==
  /\ Room /\ EnvironmentStands
  /\ \E t \in Recent : t > after /\ credentials' = Append(rows, Issued(p, TRUE, t))
  /\ bound' = bound \cup {p}
  /\ UNCHANGED <<clock, sources, registrations, people, environment, ready>>

ValidAt(c, t) == credentials[c].issued <= t /\ t < credentials[c].issued + Lifetime

(* The credential to be replaced is the one the environment was imported with *)
(* or one that was valid at the time.                                         *)
PreviousFits(p, c) == /\ c \in CredentialsOf(p) /\ Active(c) /\ ~credentials[c].bound
                      /\ ValidAt(c, environment)

OperatorOutside(q) == q \in Catalog /\ Operator(q) \in people \ bound

(* A second time the exchange is found done and changes nothing.              *)
RotateOperator(q, previous) ==
  /\ OperatorOutside(q) /\ q \notin ready
  /\ EnvironmentStands /\ PreviousFits(Operator(q), previous)
  /\ Admit(Operator(q), environment, [credentials EXCEPT ![previous].state = "REVOKED"])

(* The operator proposed at that time with the one credential it has.         *)
OperatorProposed(q, at) ==
  /\ Operator(q) \in bound
  /\ \E c \in CredentialsOf(Operator(q)) :
       /\ {d \in CredentialsOf(Operator(q)) : Active(d)} = {c}
       /\ credentials[c].bound /\ ValidAt(c, at)

OwnerOutside(q) == Owner(q) \in people \ bound

\* Mutant: an owner who has logged in gets another credential.
ReauthenticateAgain(q, proposedAt) ==
  /\ Owner(q) \in people /\ OperatorProposed(q, proposedAt)
  /\ Admit(Owner(q), proposedAt, credentials)

(* The owner gets a credential for a proposal that was made before it, once.  *)
ReauthenticateOwner(q, proposedAt) ==
  /\ OwnerOutside(q) /\ OperatorProposed(q, proposedAt)
  /\ Admit(Owner(q), proposedAt, credentials)

-----------------------------------------------------------------------------
Bootstrap == \E q \in Installs : \/ CheckCatalog(q) \/ InstallCatalog(q)
                                 \/ CheckIntake(q) \/ InstallIntake(q) \/ Abandon(q)
=============================================================================
