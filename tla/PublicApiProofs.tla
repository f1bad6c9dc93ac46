--------------------------- MODULE PublicApiProofs ---------------------------
(***************************************************************************)
(* Proofs about PublicApi for any requests, principals and committed records *)
(* that fit together: that a key stands for one effect, that the reports of   *)
(* one event are merged, that a confirmation was earned, that no component   *)
(* comes to depend on itself, and that what is committed can be read.         *)
(***************************************************************************)
EXTENDS PublicApi, FiniteSetTheorems, TLAPS

-----------------------------------------------------------------------------
(* What the commands have in common                                         *)

Open(r) == sessions[r].at = "open"
Locks(r) == sessions[r].locks

Plan(r) == CASE Intent(r) \in SignalIntents -> SubmitPlan(r)
             [] Intent(r) \in CatalogIntents -> CatalogPlan(r)
             [] Intent(r) \in ImportIntents -> ImportPlan(r)
             [] Intent(r) \in BindIntents -> BindPlan(r)
             [] Intent(r) \in ProposeIntents -> ProposePlan(r)
             [] Intent(r) \in ConfirmIntents -> ConfirmPlan(r)

New(r) == CASE Intent(r) \in SignalIntents -> SubmitRows(r)
            [] Intent(r) \in CatalogIntents -> Only(TableOf(r), CatalogRow(r))
            [] Intent(r) \in ImportIntents -> ImportRows(r)
            [] Intent(r) \in BindIntents -> BindRows(r)
            [] Intent(r) \in ProposeIntents -> Only("proposal", ProposalRow(r))
            [] Intent(r) \in ConfirmIntents -> Only("confirmation", ConfirmationRow(r))

Resource(r) == CASE Intent(r) \in SignalIntents -> <<"signal", EventOf(r)>>
                 [] Intent(r) \in CatalogIntents -> <<TableOf(r), CatalogRow(r).id>>
                 [] Intent(r) \in ImportIntents -> <<"version", Body(r).digest>>
                 [] Intent(r) \in BindIntents -> <<"binding", Body(r).case>>
                 [] Intent(r) \in ProposeIntents -> <<"proposal", ProposalRow(r).id>>
                 [] Intent(r) \in ConfirmIntents -> <<"confirmation", TheProposal(r).id>>

Refusal(r, lock) == CASE Intent(r) \in SignalIntents -> SubmitRefusal(r, lock)
                      [] Intent(r) \in ConfirmIntents -> ConfirmRefusal(r, lock)
                      [] OTHER -> None

(* Where in its plan a command takes its key.                                *)
KeyAt(r) == CASE Intent(r) \in SignalIntents \cup CatalogIntents -> 1
              [] Intent(r) \in ImportIntents \cup BindIntents \cup ProposeIntents -> 2
              [] Intent(r) \in ConfirmIntents -> 3

Known == \A r \in Requests : Intent(r) \in Intents /\ cmd[r].who \in DOMAIN Can

(* The kinds of steps a request takes, whatever it asks.                     *)
Arrives(r) == /\ sessions[r].at = "closed"
              /\ sessions' = [sessions EXCEPT ![r].at = "open", ![r].sent = @ + 1]
              /\ UNCHANGED <<db, ledger, answers>>
Ends(r) == \E n \in {sessions[r].sent, sessions[r].sent + 1} : \E code, audited, x :
  /\ Open(r) \/ n = sessions[r].sent + 1
  /\ sessions' = [sessions EXCEPT ![r] = Closed(n)]
  /\ answers' = answers \cup {[request |-> r, code |-> code, audited |-> audited, resource |-> x]}
  /\ x # None => \E e \in Recorded(r) : e.resource = x
  /\ Intent(r) \in SignalIntents => code # "INTERNAL_ERROR"
  /\ UNCHANGED <<db, ledger>>
Locks1(r, lock) ==
  /\ Open(r) /\ Len(Locks(r)) < Len(Plan(r)) /\ lock = Plan(r)[Len(Locks(r)) + 1]
  /\ Free(lock, r)
  /\ lock = KeyLock(r) => Recorded(r) = {}
  /\ Intent(r) \in SignalIntents \cup ConfirmIntents => Refusal(r, lock) = None
  /\ sessions' = [sessions EXCEPT ![r].locks = Append(@, lock)]
  /\ UNCHANGED <<db, ledger, answers>>
Writes(r) ==
  /\ Open(r) /\ Len(Locks(r)) = Len(Plan(r))
  /\ ~Clash(New(r)) /\ Recorded(r) = {}
  /\ db' = [t \in Tables |-> db[t] \cup New(r)[t]]
  /\ ledger' = ledger \cup {[namespace |-> Namespace(r), body |-> cmd[r].body,
                             resource |-> Resource(r)]}
  /\ Finish(r, sessions[r].sent, Deny("completed"), Resource(r))

LEMMA KindsApart ==
  ASSUME NEW r \in Requests
  PROVE  /\ Intent(r) \in SignalIntents =>
              /\ Plan(r) = SubmitPlan(r) /\ New(r) = SubmitRows(r) /\ KeyAt(r) = 1
              /\ Resource(r) = <<"signal", EventOf(r)>>
              /\ \A lock : Refusal(r, lock) = SubmitRefusal(r, lock)
         /\ Intent(r) \in CatalogIntents =>
              /\ Plan(r) = CatalogPlan(r) /\ New(r) = Only(TableOf(r), CatalogRow(r))
              /\ KeyAt(r) = 1 /\ Resource(r) = <<TableOf(r), CatalogRow(r).id>>
              /\ Intent(r) \notin SignalIntents \cup ConfirmIntents
         /\ Intent(r) \in ImportIntents =>
              /\ Plan(r) = ImportPlan(r) /\ New(r) = ImportRows(r) /\ KeyAt(r) = 2
              /\ Resource(r) = <<"version", Body(r).digest>>
              /\ Intent(r) \notin SignalIntents \cup ConfirmIntents
         /\ Intent(r) \in BindIntents =>
              /\ Plan(r) = BindPlan(r) /\ New(r) = BindRows(r) /\ KeyAt(r) = 2
              /\ Resource(r) = <<"binding", Body(r).case>>
              /\ Intent(r) \notin SignalIntents \cup ConfirmIntents
         /\ Intent(r) \in ProposeIntents =>
              /\ Plan(r) = ProposePlan(r) /\ New(r) = Only("proposal", ProposalRow(r))
              /\ KeyAt(r) = 2 /\ Resource(r) = <<"proposal", ProposalRow(r).id>>
              /\ Intent(r) \notin SignalIntents \cup ConfirmIntents
         /\ Intent(r) \in ConfirmIntents =>
              /\ Plan(r) = ConfirmPlan(r) /\ New(r) = Only("confirmation", ConfirmationRow(r))
              /\ KeyAt(r) = 3 /\ Resource(r) = <<"confirmation", TheProposal(r).id>>
              /\ \A lock : Refusal(r, lock) = ConfirmRefusal(r, lock)
              /\ Intent(r) \notin SignalIntents
BY DEF Plan, New, Resource, KeyAt, Refusal, SignalIntents, CatalogIntents, ApplicationIntents,
       PartIntents, ImportIntents, BindIntents, ProposeIntents, ConfirmIntents

(* A plan begins with the locks every such command takes.                    *)
LEMMA Begins ==
  ASSUME NEW S, NEW s \in Seq(S), NEW t \in Seq(S)
  PROVE  /\ s \o t \in Seq(S) /\ Len(s \o t) = Len(s) + Len(t)
         /\ \A i \in 1..Len(s) : (s \o t)[i] = s[i]
         /\ \A i \in 1..Len(t) : (s \o t)[Len(s) + i] = t[i]
OBVIOUS

LEMMA SubmitPlanIs ==
  ASSUME NEW r \in Requests
  PROVE  /\ SubmitPlan(r)[1] = KeyLock(r)
         /\ SubmitPlan(r)[2] = SourceLock(Body(r).source)
         /\ SubmitPlan(r)[3] = EventLock(EventOf(r))
         /\ IF Opens(r) \notin Held(r) /\ Earlier(r) # {} THEN Len(SubmitPlan(r)) = 3
            ELSE Len(SubmitPlan(r)) = 7 /\ SubmitPlan(r)[4] = Opens(r)
<1> DEFINE first == <<KeyLock(r), SourceLock(Body(r).source), EventLock(EventOf(r))>>
           rest == <<Opens(r), ControllerLock("signal"), ControllerLock("case"),
                     ControllerLock("evidence")>>
           S == {first[1], first[2], first[3], rest[1], rest[2], rest[3], rest[4]}
<1>1. first \in Seq(S) /\ Len(first) = 3 /\ rest \in Seq(S) /\ Len(rest) = 4 /\ rest[1] = Opens(r)
  OBVIOUS
<1>2. <<>> \in Seq(S) /\ Len(<<>>) = 0 OBVIOUS
<1>3. /\ first[1] = KeyLock(r) /\ first[2] = SourceLock(Body(r).source)
      /\ first[3] = EventLock(EventOf(r))
  OBVIOUS
<1>4. SubmitPlan(r) = first \o Slice(r) BY DEF SubmitPlan
<1>5. Slice(r) = IF Opens(r) \notin Held(r) /\ Earlier(r) # {} THEN <<>> ELSE rest
  BY DEF Slice
<1>6. Slice(r) \in Seq(S) BY <1>1, <1>2, <1>5
<1> HIDE DEF first, rest, S
<1>7. \A s, t \in Seq(S) : /\ Len(s \o t) = Len(s) + Len(t)
                           /\ \A i \in 1..Len(s) : (s \o t)[i] = s[i]
                           /\ \A i \in 1..Len(t) : (s \o t)[Len(s) + i] = t[i]
  BY Begins
<1>8. PICK p, t : p = SubmitPlan(r) /\ t = Slice(r) OBVIOUS
<1>9. /\ Len(p) = Len(first) + Len(t)
      /\ \A i \in 1..Len(first) : p[i] = first[i]
      /\ \A i \in 1..Len(t) : p[Len(first) + i] = t[i]
  <2>1. p = first \o t BY <1>4, <1>8
  <2>2. first \in Seq(S) BY <1>1
  <2>3. t \in Seq(S) BY <1>6, <1>8
  <2> QED BY <1>7, <2>1, <2>2, <2>3
<1>10. p[1] = KeyLock(r) /\ p[2] = SourceLock(Body(r).source) /\ p[3] = EventLock(EventOf(r))
  BY <1>1, <1>3, <1>9
<1>11. IF Opens(r) \notin Held(r) /\ Earlier(r) # {} THEN Len(p) = 3
       ELSE Len(p) = 7 /\ p[4] = Opens(r)
  <2>1. CASE Opens(r) \notin Held(r) /\ Earlier(r) # {}
    BY <1>1, <1>2, <1>5, <1>8, <1>9, <2>1
  <2>2. CASE ~(Opens(r) \notin Held(r) /\ Earlier(r) # {})
    <3>0. t = rest BY <1>5, <1>8, <2>2
    <3>1. t = rest /\ Len(t) = 4 /\ 1 \in 1..Len(t) BY <1>1, <3>0
    <3>2. p[Len(first) + 1] = t[1] BY <1>9, <3>1
    <3>3. p[4] = Opens(r) BY <1>1, <3>1, <3>2
    <3>4. Len(p) = Len(first) + Len(t) BY <1>9
    <3>5. Len(first) = 3 BY <1>1
    <3>6. Len(p) = 7 BY <3>1, <3>4, <3>5
    <3> QED BY <2>2, <3>3, <3>6
  <2> QED BY <2>1, <2>2
<1> QED BY <1>8, <1>10, <1>11

LEMMA PlanHasKey ==
  ASSUME NEW r \in Requests, Intent(r) \in Intents
  PROVE  /\ Len(Plan(r)) \in Nat /\ KeyAt(r) \in {1, 2, 3} /\ KeyAt(r) <= Len(Plan(r))
         /\ Plan(r)[KeyAt(r)] = KeyLock(r)
<1>0. ASSUME NEW S, NEW s \in Seq(S), NEW t \in Seq(S), Plan(r) = s \o t,
             KeyAt(r) \in 1..Len(s), s[KeyAt(r)] = KeyLock(r), KeyAt(r) \in {1, 2, 3}
      PROVE  /\ Len(Plan(r)) \in Nat /\ KeyAt(r) <= Len(Plan(r))
             /\ Plan(r)[KeyAt(r)] = KeyLock(r)
  <2>1. /\ s \o t \in Seq(S) /\ Len(s \o t) = Len(s) + Len(t)
        /\ \A i \in 1..Len(s) : (s \o t)[i] = s[i]
    BY Begins
  <2> QED BY <1>0, <2>1
<1>1. CASE Intent(r) \in SignalIntents
  <2>1. Plan(r) = SubmitPlan(r) /\ KeyAt(r) = 1 BY <1>1, KindsApart
  <2> QED BY <2>1, SubmitPlanIs
<1>2. CASE Intent(r) \in CatalogIntents
  <2>1. Plan(r) = CatalogPlan(r) /\ KeyAt(r) = 1 BY <1>2, KindsApart
  <2>2. PICK graph : graph = IF TableOf(r) = "edge" THEN <<GraphLock(Body(r).app)>> ELSE <<>>
    OBVIOUS
  <2>3. PICK S : S = {KeyLock(r), GraphLock(Body(r).app), ControllerLock("catalog")} OBVIOUS
  <2>4. /\ <<KeyLock(r)>> \in Seq(S) /\ graph \in Seq(S) /\ <<ControllerLock("catalog")>> \in Seq(S)
        /\ Len(<<KeyLock(r)>>) = 1 /\ <<KeyLock(r)>>[1] = KeyLock(r)
    <3>1. graph = <<GraphLock(Body(r).app)>> \/ graph = <<>> BY <2>2
    <3>2. \A a \in S : <<a>> \in Seq(S) OBVIOUS
    <3>3. <<>> \in Seq(S) OBVIOUS
    <3>4. KeyLock(r) \in S /\ GraphLock(Body(r).app) \in S /\ ControllerLock("catalog") \in S
      BY <2>3
    <3> QED BY <3>1, <3>2, <3>3, <3>4
  <2>5. PICK s : s = <<KeyLock(r)>> \o graph OBVIOUS
  <2>6. s \in Seq(S) /\ 1 \in 1..Len(s) /\ s[1] = KeyLock(r) BY <2>4, <2>5, Begins
  <2>7. Plan(r) = s \o <<ControllerLock("catalog")>> BY <2>1, <2>2, <2>5 DEF CatalogPlan
  <2> QED BY <1>0, <2>1, <2>4, <2>6, <2>7
<1>3. CASE Intent(r) \in ImportIntents
  <2>1. Plan(r) = ImportPlan(r) /\ KeyAt(r) = 2 BY <1>3, KindsApart
  <2>2. PICK S : S = {ImportLock, KeyLock(r), ControllerLock("catalog"), ControllerLock("version")}
    OBVIOUS
  <2>3. PICK t : t = IF Imported(r) # {} THEN <<>>
                     ELSE <<ControllerLock("catalog"), ControllerLock("version")>>
    OBVIOUS
  <2>4. PICK s : s = <<ImportLock, KeyLock(r)>> OBVIOUS
  <2>5. s \in Seq(S) /\ t \in Seq(S) /\ 2 \in 1..Len(s) /\ s[2] = KeyLock(r)
    <3>1. t = <<>> \/ t = <<ControllerLock("catalog"), ControllerLock("version")>> BY <2>3
    <3>2. <<>> \in Seq(S) /\ \A a, b \in S : <<a, b>> \in Seq(S) OBVIOUS
    <3>3. /\ ImportLock \in S /\ KeyLock(r) \in S
          /\ ControllerLock("catalog") \in S /\ ControllerLock("version") \in S
      BY <2>2
    <3>4. Len(s) = 2 /\ s[2] = KeyLock(r) BY <2>4
    <3>5. s \in Seq(S) BY <2>4, <3>2, <3>3
    <3>6. t \in Seq(S) BY <3>1, <3>2, <3>3
    <3> QED BY <3>4, <3>5, <3>6
  <2>6. Plan(r) = s \o t BY <2>1, <2>3, <2>4 DEF ImportPlan
  <2> QED BY <1>0, <2>1, <2>5, <2>6
<1>4. CASE Intent(r) \in BindIntents
  <2>1. Plan(r) = BindPlan(r) /\ KeyAt(r) = 2 BY <1>4, KindsApart
  <2>2. PICK S : S = {CaseLock(Body(r).case), KeyLock(r), ControllerLock("case")} OBVIOUS
  <2>3. PICK t : t = IF BindingOf(r) # {} THEN <<>> ELSE <<ControllerLock("case")>> OBVIOUS
  <2>4. PICK s : s = <<CaseLock(Body(r).case), KeyLock(r)>> OBVIOUS
  <2>5. s \in Seq(S) /\ t \in Seq(S) /\ 2 \in 1..Len(s) /\ s[2] = KeyLock(r)
    <3>1. t = <<>> \/ t = <<ControllerLock("case")>> BY <2>3
    <3>2. /\ <<>> \in Seq(S) /\ \A a, b \in S : <<a, b>> \in Seq(S)
          /\ \A a \in S : <<a>> \in Seq(S)
      OBVIOUS
    <3>3. CaseLock(Body(r).case) \in S /\ KeyLock(r) \in S /\ ControllerLock("case") \in S
      BY <2>2
    <3>4. Len(s) = 2 /\ s[2] = KeyLock(r) BY <2>4
    <3>5. s \in Seq(S) BY <2>4, <3>2, <3>3
    <3>6. t \in Seq(S) BY <3>1, <3>2, <3>3
    <3> QED BY <3>4, <3>5, <3>6
  <2>6. Plan(r) = s \o t BY <2>1, <2>3, <2>4 DEF BindPlan
  <2> QED BY <1>0, <2>1, <2>5, <2>6
<1>5. CASE Intent(r) \in ProposeIntents
  <2>1. Plan(r) = ProposePlan(r) /\ KeyAt(r) = 2 BY <1>5, KindsApart
  <2> QED BY <2>1 DEF ProposePlan
<1>6. CASE Intent(r) \in ConfirmIntents
  <2>1. Plan(r) = ConfirmPlan(r) /\ KeyAt(r) = 3 BY <1>6, KindsApart
  <2> QED BY <2>1 DEF ConfirmPlan
<1> QED BY <1>1, <1>2, <1>3, <1>4, <1>5, <1>6 DEF Intents

-----------------------------------------------------------------------------
(* The transactions and their locks                                          *)

SessionsOK ==
  /\ sessions = [r \in Requests |-> [at |-> sessions[r].at, sent |-> sessions[r].sent,
                                     locks |-> sessions[r].locks]]
  /\ \A r \in Requests : /\ sessions[r].at \in {"open", "closed"} /\ sessions[r].sent \in Nat
                         /\ Locks(r) \in Seq(Held(r))
                         /\ Open(r) \/ Locks(r) = <<>>

(* No lock is held twice.                                                    *)
Exclusive == \A q, r \in Requests : q # r => Held(q) \cap Held(r) = {}

(* Who has its key has found it unused.                                      *)
Keyed(r) == Len(Locks(r)) >= KeyAt(r) => Locks(r)[KeyAt(r)] = KeyLock(r) /\ Recorded(r) = {}

Others(r) == \A q \in Requests \ {r} :
  /\ sessions'[q] = sessions[q] /\ Locks(q)' = Locks(q) /\ Held(q)' = Held(q) /\ Open(q)' = Open(q)

LEMMA HeldOf ==
  ASSUME NEW r, NEW H, sessions[r].locks \in Seq(H)
  PROVE  /\ Len(Locks(r)) \in Nat /\ Held(r) = {Locks(r)[i] : i \in 1..Len(Locks(r))}
         /\ \A i \in 1..Len(Locks(r)) : Locks(r)[i] \in Held(r)
BY DEF Held, Locks

LEMMA SameOthers ==
  ASSUME SessionsOK, NEW r \in Requests, NEW row, sessions' = [sessions EXCEPT ![r] = row]
  PROVE  Others(r) /\ sessions'[r] = row
<1>1. DOMAIN sessions = Requests BY DEF SessionsOK
<1>2. sessions'[r] = row BY <1>1
<1>3. ASSUME NEW q \in Requests \ {r} PROVE sessions'[q] = sessions[q] BY <1>1
<1> QED BY <1>2, <1>3 DEF Others, Locks, Held, Open

(* SessionsOK, one request at a time.                                        *)
LEMMA OneSession ==
  ASSUME SessionsOK, NEW r \in Requests, NEW at \in {"open", "closed"}, NEW sent \in Nat, NEW H,
         NEW locks \in Seq(H), H = {locks[i] : i \in 1..Len(locks)},
         at = "open" \/ locks = <<>>,
         sessions' = [sessions EXCEPT ![r] = [at |-> at, sent |-> sent, locks |-> locks]]
  PROVE  /\ SessionsOK' /\ Others(r)
         /\ sessions'[r].at = at /\ sessions'[r].sent = sent /\ sessions'[r].locks = locks
         /\ Held(r)' = H
<1>1. Others(r) /\ sessions'[r] = [at |-> at, sent |-> sent, locks |-> locks] BY SameOthers
<1>2. sessions'[r].at = at /\ sessions'[r].sent = sent /\ sessions'[r].locks = locks BY <1>1
<1>3. Held(r)' = H BY <1>2 DEF Held
<1>4. sessions' = [q \in Requests |-> [at |-> sessions'[q].at, sent |-> sessions'[q].sent,
                                       locks |-> sessions'[q].locks]]
  <2>1. ASSUME NEW q \in Requests
        PROVE  sessions'[q] = [at |-> sessions'[q].at, sent |-> sessions'[q].sent,
                               locks |-> sessions'[q].locks]
    <3>1. CASE q = r BY <1>1, <3>1
    <3>2. CASE q # r
      <4>1. sessions[q] = [at |-> sessions[q].at, sent |-> sessions[q].sent,
                           locks |-> sessions[q].locks]
        BY DEF SessionsOK
      <4> QED BY <1>1, <3>2, <4>1 DEF Others
    <3> QED BY <3>1, <3>2
  <2>2. DOMAIN sessions = Requests BY DEF SessionsOK
  <2>3. sessions' = [q \in Requests |-> sessions'[q]] BY <2>2
  <2> QED BY <2>1, <2>3
<1>5. ASSUME NEW q \in Requests
      PROVE  /\ sessions'[q].at \in {"open", "closed"} /\ sessions'[q].sent \in Nat
             /\ Locks(q)' \in Seq(Held(q)')
             /\ Open(q)' \/ Locks(q)' = <<>>
  <2>1. CASE q = r BY <1>2, <1>3, <2>1 DEF Locks, Open
  <2>2. CASE q # r BY <1>1, <2>2 DEF Others, SessionsOK, Locks, Open
  <2> QED BY <2>1, <2>2
<1>6. SessionsOK' BY <1>4, <1>5 DEF SessionsOK
<1> QED BY <1>1, <1>2, <1>3, <1>6

LEMMA Arrived ==
  ASSUME SessionsOK, NEW r \in Requests, Arrives(r)
  PROVE  /\ SessionsOK' /\ Others(r) /\ Open(r)' /\ Held(r)' = {} /\ Locks(r)' = <<>>
         /\ Held(r) = {} /\ Locks(r) = <<>>
         /\ sessions'[r].sent = sessions[r].sent + 1
<1>1. Locks(r) = <<>> /\ sessions[r].sent \in Nat BY DEF SessionsOK, Arrives, Open
<1>2. sessions' = [sessions EXCEPT ![r] = [at |-> "open", sent |-> sessions[r].sent + 1,
                                           locks |-> <<>>]]
  <2>1. sessions[r] = [at |-> sessions[r].at, sent |-> sessions[r].sent, locks |-> <<>>]
    BY <1>1 DEF SessionsOK, Locks
  <2>2. PICK at, sent : at = sessions[r].at /\ sent = sessions[r].sent OBVIOUS
  <2>3. sessions[r] = [at |-> at, sent |-> sent, locks |-> <<>>] BY <2>1, <2>2
  <2>4. [sessions[r] EXCEPT !.at = "open", !.sent = sent + 1]
        = [at |-> "open", sent |-> sent + 1, locks |-> <<>>]
    <3>1. ASSUME NEW row, NEW locks, NEW next, row = [at |-> at, sent |-> sent, locks |-> locks]
          PROVE  [row EXCEPT !.at = "open", !.sent = next]
                 = [at |-> "open", sent |-> next, locks |-> locks]
      <4>1. [row EXCEPT !.at = "open"] = [at |-> "open", sent |-> sent, locks |-> locks]
        BY <3>1
      <4>2. [row EXCEPT !.at = "open", !.sent = next]
            = [[row EXCEPT !.at = "open"] EXCEPT !.sent = next]
        OBVIOUS
      <4>3. PICK mid : mid = [row EXCEPT !.at = "open"] OBVIOUS
      <4>4. mid = [at |-> "open", sent |-> sent, locks |-> locks] BY <4>1, <4>3
      <4>5. [mid EXCEPT !.sent = next] = [at |-> "open", sent |-> next, locks |-> locks]
        BY <4>4
      <4> QED BY <4>2, <4>3, <4>5
    <3> QED BY <2>3, <3>1
  <2>5. sessions' = [sessions EXCEPT ![r] = [sessions[r] EXCEPT !.at = "open", !.sent = sent + 1]]
    BY <2>2 DEF Arrives, SessionsOK
  <2> QED BY <2>2, <2>4, <2>5
<1>3. <<>> \in Seq({}) /\ Len(<<>>) = 0 /\ {} = {<<>>[i] : i \in 1..0} OBVIOUS
<1>4. Held(r) = {} BY <1>1, <1>3 DEF Held, Locks
<1>5. PICK sent \in Nat : sent = sessions[r].sent + 1 BY <1>1
<1>6. sessions' = [sessions EXCEPT ![r] = [at |-> "open", sent |-> sent, locks |-> <<>>]]
  BY <1>2, <1>5
<1>7. /\ SessionsOK' /\ Others(r) /\ sessions'[r].at = "open" /\ sessions'[r].sent = sent
      /\ sessions'[r].locks = <<>> /\ Held(r)' = {}
  BY <1>3, <1>6, OneSession
<1> QED BY <1>1, <1>4, <1>5, <1>7 DEF Open, Locks

LEMMA Closes ==
  ASSUME SessionsOK, NEW r \in Requests, NEW n \in Nat,
         sessions' = [sessions EXCEPT ![r] = Closed(n)]
  PROVE  /\ SessionsOK' /\ Others(r) /\ ~Open(r)' /\ Held(r)' = {} /\ Locks(r)' = <<>>
         /\ sessions'[r].sent = n
<1>1. <<>> \in Seq({}) /\ Len(<<>>) = 0 /\ {} = {<<>>[i] : i \in 1..0} OBVIOUS
<1>2. sessions' = [sessions EXCEPT ![r] = [at |-> "closed", sent |-> n, locks |-> <<>>]]
  BY DEF Closed
<1> QED BY <1>1, <1>2, OneSession DEF Open, Locks

LEMMA Longer ==
  ASSUME NEW H, NEW s \in Seq(H), H = {s[i] : i \in 1..Len(s)}, NEW x
  PROVE  /\ Append(s, x) \in Seq(H \cup {x}) /\ Len(Append(s, x)) = Len(s) + 1
         /\ Len(s) \in Nat
         /\ \A i \in 1..Len(s) : Append(s, x)[i] = s[i]
         /\ Append(s, x)[Len(s) + 1] = x
         /\ H \cup {x} = {Append(s, x)[i] : i \in 1..Len(Append(s, x))}
<1>1. s \in Seq(H \cup {x}) OBVIOUS
<1>2. PICK t : t = Append(s, x) OBVIOUS
<1>3. /\ t \in Seq(H \cup {x}) /\ Len(t) = Len(s) + 1 /\ Len(s) \in Nat
      /\ \A i \in 1..Len(s) : t[i] = s[i]
      /\ t[Len(s) + 1] = x
  BY <1>1, <1>2
<1>4. \A h \in H \cup {x} : \E i \in 1..Len(t) : h = t[i]
  <2>1. ASSUME NEW h \in H PROVE \E i \in 1..Len(t) : h = t[i]
    <3>1. PICK i \in 1..Len(s) : h = s[i] BY <2>1
    <3> QED BY <1>3, <3>1
  <2>2. Len(s) + 1 \in 1..Len(t) BY <1>3
  <2> QED BY <1>3, <2>1, <2>2
<1>5. \A i \in 1..Len(t) : t[i] \in H \cup {x} BY <1>3
<1>6. H \cup {x} = {t[i] : i \in 1..Len(t)} BY <1>4, <1>5
<1> QED BY <1>2, <1>3, <1>6

LEMMA Locked ==
  ASSUME SessionsOK, NEW r \in Requests, NEW lock, Locks1(r, lock)
  PROVE  /\ SessionsOK' /\ Others(r) /\ Open(r)' /\ sessions'[r].sent = sessions[r].sent
         /\ Held(r)' = Held(r) \cup {lock}
         /\ Len(Locks(r)) \in Nat /\ Len(Locks(r)') = Len(Locks(r)) + 1
         /\ \A i \in 1..Len(Locks(r)) : Locks(r)'[i] = Locks(r)[i]
         /\ Locks(r)'[Len(Locks(r)) + 1] = lock
<1>1. PICK s : s = Locks(r) OBVIOUS
<1>2. /\ sessions[r] = [at |-> "open", sent |-> sessions[r].sent, locks |-> s]
      /\ sessions[r].sent \in Nat /\ s \in Seq(Held(r))
  BY <1>1 DEF SessionsOK, Locks, Locks1, Open
<1>3. Held(r) = {s[i] : i \in 1..Len(s)} BY <1>1, <1>2, HeldOf DEF Locks
<1>4. PICK t : t = Append(s, lock) OBVIOUS
<1>5. /\ t \in Seq(Held(r) \cup {lock}) /\ Len(t) = Len(s) + 1 /\ Len(s) \in Nat
      /\ \A i \in 1..Len(s) : t[i] = s[i]
      /\ t[Len(s) + 1] = lock
      /\ Held(r) \cup {lock} = {t[i] : i \in 1..Len(t)}
  BY <1>2, <1>3, <1>4, Longer
<1>8. PICK H, sent : H = Held(r) \cup {lock} /\ sent = sessions[r].sent OBVIOUS
<1>6. sessions' = [sessions EXCEPT ![r] = [at |-> "open", sent |-> sessions[r].sent, locks |-> t]]
  <2>1. sessions' = [sessions EXCEPT ![r] = [sessions[r] EXCEPT !.locks = t]]
    BY <1>1, <1>4 DEF Locks1, Locks, SessionsOK
  <2>2. [sessions[r] EXCEPT !.locks = t] = [at |-> "open", sent |-> sessions[r].sent, locks |-> t]
    BY <1>2
  <2> QED BY <2>1, <2>2
<1>7. /\ SessionsOK' /\ Others(r)
      /\ sessions'[r].at = "open" /\ sessions'[r].sent = sessions[r].sent
      /\ sessions'[r].locks = t
      /\ Held(r)' = Held(r) \cup {lock}
  <2>1. t \in Seq(H) /\ H = {t[i] : i \in 1..Len(t)} /\ sent \in Nat
    BY <1>2, <1>5, <1>8
  <2>2. sessions' = [sessions EXCEPT ![r] = [at |-> "open", sent |-> sent, locks |-> t]]
    BY <1>6, <1>8
  <2>3. /\ SessionsOK' /\ Others(r)
        /\ sessions'[r].at = "open" /\ sessions'[r].sent = sent /\ sessions'[r].locks = t
        /\ Held(r)' = H
    BY <2>1, <2>2, OneSession
  <2> QED BY <1>8, <2>3
<1> QED BY <1>1, <1>5, <1>7 DEF Open, Locks

-----------------------------------------------------------------------------
(* What the ledger, the rows and the answers know of each other              *)

Unique == \A e, f \in ledger : f.namespace = e.namespace => f = e
(* What a key stands for is there.                                           *)
Shown == \A e \in ledger : /\ e.resource[1] \in Tables /\ e.resource[2] \in Ids(e.resource[1])
                           /\ e.namespace.intent \in SignalIntents => e.resource[1] = "signal"
(* The rows of a request are in the ledger, and are of one attempt.          *)
Kept == \A t \in Tables : \A x \in db[t] : x.by[1] \in Requests =>
          /\ Recorded(x.by[1]) # {}
          /\ \A y \in db[t] :
               y.by[1] \in Requests /\ Namespace(y.by[1]) = Namespace(x.by[1]) => x.by = y.by
Told == \A a \in answers : a.resource # None => \E e \in Recorded(a.request) : e.resource = a.resource

LedgerPart == /\ Known /\ SessionsOK /\ Exclusive /\ (\A r \in Requests : Keyed(r))
              /\ Unique /\ Shown /\ Kept /\ Told

(* A signal goes on only while its event is locked, and opens a case only for *)
(* an event that is new.                                                     *)
Watches(r) == Intent(r) \in SignalIntents =>
  /\ Len(Locks(r)) >= 1 => Locks(r)[1] = KeyLock(r)
  /\ Len(Locks(r)) >= 2 => Locks(r)[2] = SourceLock(Body(r).source)
  /\ Len(Locks(r)) >= 3 => Locks(r)[3] = EventLock(EventOf(r))
  /\ Len(Locks(r)) >= 4 => Locks(r)[4] = Opens(r) /\ Earlier(r) = {}
Sane == \A a \in answers : Intent(a.request) \in SignalIntents => a.code # "INTERNAL_ERROR"
SignalPart == SignalsFit(db) /\ (\A r \in Requests : Watches(r)) /\ Sane

LEMMA OpensHeld ==
  ASSUME SessionsOK, NEW r \in Requests, Intent(r) \in SignalIntents, Watches(r)
  PROVE  /\ Len(Locks(r)) \in Nat
         /\ Opens(r) \in Held(r) <=> Len(Locks(r)) >= 4
         /\ Len(Locks(r)) >= 3 => EventLock(EventOf(r)) \in Held(r)
<1>1. /\ Len(Locks(r)) \in Nat /\ Held(r) = {Locks(r)[i] : i \in 1..Len(Locks(r))}
      /\ \A i \in 1..Len(Locks(r)) : Locks(r)[i] \in Held(r)
  BY HeldOf DEF SessionsOK, Locks
<1>2. Len(Locks(r)) >= 3 => EventLock(EventOf(r)) \in Held(r) BY <1>1 DEF Watches
<1>3. Len(Locks(r)) >= 4 => Opens(r) \in Held(r) BY <1>1 DEF Watches
<1>4. ASSUME NEW i \in 1..Len(Locks(r)), Locks(r)[i] = Opens(r) PROVE Len(Locks(r)) >= 4
  <2>1. /\ Opens(r) # KeyLock(r) /\ Opens(r) # SourceLock(Body(r).source)
        /\ Opens(r) # EventLock(EventOf(r))
    BY DEF Opens, KeyLock, SourceLock, EventLock
  <2>2. i = 1 => FALSE BY <1>1, <1>4, <2>1 DEF Watches
  <2>3. i = 2 => FALSE BY <1>1, <1>4, <2>1 DEF Watches
  <2>4. i = 3 => FALSE BY <1>1, <1>4, <2>1 DEF Watches
  <2> QED BY <1>1, <2>2, <2>3, <2>4
<1> QED BY <1>1, <1>2, <1>3, <1>4

LEMMA SubmitEnds ==
  ASSUME SessionsOK, NEW r \in Requests, Intent(r) \in SignalIntents, Watches(r),
         Len(Locks(r)) = Len(Plan(r))
  PROVE  /\ EventLock(EventOf(r)) \in Held(r)
         /\ \/ Opens(r) \notin Held(r) /\ Earlier(r) # {}
            \/ Opens(r) \in Held(r) /\ Earlier(r) = {}
<1>1. Plan(r) = SubmitPlan(r) BY KindsApart
<1> QED BY <1>1, OpensHeld, SubmitPlanIs DEF Watches

LEMMA SubmitClear ==
  ASSUME SignalsFit(db), NEW r \in Requests, Opens(r) \in Held(r) => Earlier(r) = {}
  PROVE  ~Clash(SubmitRows(r))
<1>1. CASE Opens(r) \notin Held(r)
  <2>1. \A t \in Tables : SubmitRows(r)[t] = {} BY <1>1 DEF SubmitRows
  <2> QED BY <2>1 DEF Clash
<1>2. CASE Opens(r) \in Held(r)
  <2>1. \A s \in db["signal"] : s.id # EventOf(r) BY <1>2 DEF Earlier
  <2>2. ASSUME NEW t \in Tables, NEW row \in SubmitRows(r)[t], NEW old \in db[t], old.id = row.id
        PROVE  FALSE
    <3>1. \/ t = "signal" /\ row = SignalRow(r)
          \/ t = "case" /\ row = CaseRow(r)
          \/ t = "link" /\ row = LinkRow(r)
          \/ t = "evidence" /\ row = EvidenceRow(r)
      BY <1>2, <2>2 DEF SubmitRows
    <3>2. CASE t = "signal" /\ row = SignalRow(r) BY <2>1, <2>2, <3>2 DEF SignalRow
    <3>3. CASE t = "case" /\ row = CaseRow(r) BY <2>1, <2>2, <3>3 DEF CaseRow, SignalsFit
    <3>4. CASE t = "link" /\ row = LinkRow(r)
      <4>1. PICK s \in db["signal"] : old.id = <<s.id, s.id>> BY <2>2, <3>4 DEF SignalsFit
      <4>2. old.id = <<EventOf(r), EventOf(r)>> BY <2>2, <3>4 DEF LinkRow
      <4>3. s.id = EventOf(r) BY <4>1, <4>2
      <4> QED BY <2>1, <4>3
    <3>5. CASE t = "evidence" /\ row = EvidenceRow(r)
      BY <2>1, <2>2, <3>5 DEF EvidenceRow, SignalsFit
    <3> QED BY <3>1, <3>2, <3>3, <3>4, <3>5
  <2> QED BY <2>2 DEF Clash
<1> QED BY <1>1, <1>2

LEMMA BeginIs ==
  ASSUME NEW r \in Requests, NEW refusal, Begin(r, refusal),
         Intent(r) \in SignalIntents => refusal = None \/ refusal.code # "INTERNAL_ERROR"
  PROVE  Arrives(r) \/ Ends(r)
<1>1. CASE refusal = None BY <1>1 DEF Begin, MaySend, Arrives
<1>2. CASE refusal # None
  <2>1. PICK n : n = sessions[r].sent + 1 OBVIOUS
  <2>2. Finish(r, n, refusal, None) /\ UNCHANGED <<db, ledger>> BY <1>2, <2>1 DEF Begin
  <2> QED BY <1>2, <2>1, <2>2 DEF Ends, Finish
<1> QED BY <1>1, <1>2

LEMMA ReplayIs ==
  ASSUME NEW r \in Requests, NEW reused, Replay(r, Plan(r), reused),
         Intent(r) \in SignalIntents => reused.code # "INTERNAL_ERROR"
  PROVE  Ends(r)
<1>1. Open(r) /\ UNCHANGED <<db, ledger>> BY DEF Replay, Unlocked, Open
<1>2. PICK e \in Recorded(r) : \/ Finish(r, sessions[r].sent, Deny("replayed"), e.resource)
                               \/ Finish(r, sessions[r].sent, reused, None)
  BY DEF Replay
<1>3. CASE Finish(r, sessions[r].sent, Deny("replayed"), e.resource)
  <2>1. Deny("replayed").code # "INTERNAL_ERROR" BY DEF Deny
  <2> QED BY <1>1, <1>3, <2>1 DEF Ends, Finish
<1>4. CASE Finish(r, sessions[r].sent, reused, None) BY <1>1, <1>4 DEF Ends, Finish
<1> QED BY <1>2, <1>3, <1>4

LEMMA TakeIs ==
  ASSUME NEW r \in Requests, NEW refusal, Take(r, Plan(r), refusal),
         Intent(r) \in SignalIntents => refusal = None \/ refusal.code # "INTERNAL_ERROR",
         Intent(r) \in SignalIntents \cup ConfirmIntents => refusal = Refusal(r, NextLock(r, Plan(r)))
  PROVE  Ends(r) \/ \E lock : Locks1(r, lock)
<1>1. /\ Open(r) /\ UNCHANGED <<db, ledger>> /\ Len(Locks(r)) < Len(Plan(r))
      /\ Free(NextLock(r, Plan(r)), r)
      /\ NextLock(r, Plan(r)) = KeyLock(r) => Recorded(r) = {}
  BY DEF Take, Unlocked, Open, Locks
<1>2. CASE refusal # None
  <2>1. Finish(r, sessions[r].sent, refusal, None) BY <1>2 DEF Take
  <2> QED BY <1>1, <1>2, <2>1 DEF Ends, Finish
<1>3. CASE refusal = None
  <2>1. PICK lock : lock = NextLock(r, Plan(r)) OBVIOUS
  <2>2. lock = Plan(r)[Len(Locks(r)) + 1] BY <2>1 DEF NextLock, Locks
  <2>3. sessions' = [sessions EXCEPT ![r].locks = Append(@, lock)] /\ UNCHANGED answers
    BY <1>3, <2>1 DEF Take
  <2>4. Intent(r) \in SignalIntents \cup ConfirmIntents => Refusal(r, lock) = None
    BY <1>3, <2>1
  <2> QED BY <1>1, <2>1, <2>2, <2>3, <2>4 DEF Locks1
<1> QED BY <1>2, <1>3

LEMMA CommitIs ==
  ASSUME NEW r \in Requests, NEW taken, Commit(r, Plan(r), New(r), Resource(r), taken),
         Recorded(r) = {}, Intent(r) \in SignalIntents => ~Clash(New(r))
  PROVE  Ends(r) \/ Writes(r)
<1>1. Open(r) /\ Len(Locks(r)) = Len(Plan(r)) BY DEF Commit, Open, Locks
<1>2. CASE Clash(New(r))
  <2>1. Finish(r, sessions[r].sent, taken, None) /\ UNCHANGED <<db, ledger>> BY <1>2 DEF Commit
  <2> QED BY <1>1, <1>2, <2>1 DEF Ends, Finish
<1>3. CASE ~Clash(New(r)) BY <1>1, <1>3 DEF Commit, Writes
<1> QED BY <1>2, <1>3

(* A command that has all its locks has its key, which is still unused.       *)
LEMMA EndsKeyed ==
  ASSUME LedgerPart, NEW r \in Requests, Len(Locks(r)) = Len(Plan(r))
  PROVE  Recorded(r) = {} /\ KeyLock(r) \in Held(r)
<1>1. KeyAt(r) \in {1, 2, 3} /\ KeyAt(r) <= Len(Plan(r)) /\ Len(Plan(r)) \in Nat
  BY PlanHasKey DEF LedgerPart, Known
<1>2. Locks(r)[KeyAt(r)] = KeyLock(r) /\ Recorded(r) = {} BY <1>1 DEF LedgerPart, Keyed
<1>3. \A i \in 1..Len(Locks(r)) : Locks(r)[i] \in Held(r)
  BY HeldOf DEF LedgerPart, SessionsOK, Locks
<1> QED BY <1>1, <1>2, <1>3

LEMMA StepIs ==
  ASSUME LedgerPart, SignalPart, NEW r \in Requests, Step(r)
  PROVE  /\ UNCHANGED <<cmd, seen>>
         /\ Arrives(r) \/ Ends(r) \/ (\E lock : Locks1(r, lock)) \/ Writes(r)
<1>1. UNCHANGED <<cmd, seen>>
  BY DEF Step, Command, SubmitCommand, CatalogCommand, ImportCommand, BindCommand, ProposeCommand,
         ConfirmCommand, Begin, Replay, Take, Commit, Known, LedgerPart, Intents
<1>2. Intent(r) \in Intents BY DEF LedgerPart, Known
<1>3. ASSUME Len(Locks(r)) = Len(Plan(r)), Intent(r) \in SignalIntents PROVE ~Clash(New(r))
  <2>1. Opens(r) \in Held(r) => Earlier(r) = {}
    BY <1>3, SubmitEnds DEF LedgerPart, SignalPart
  <2> QED BY <1>3, <2>1, SubmitClear, KindsApart DEF SignalPart
<1>4. ASSUME NEW taken, Commit(r, Plan(r), New(r), Resource(r), taken) PROVE Ends(r) \/ Writes(r)
  <2>1. Len(Locks(r)) = Len(Plan(r)) BY <1>4 DEF Commit, Locks
  <2> QED BY <1>3, <1>4, <2>1, EndsKeyed, CommitIs
<1>5. CASE Intent(r) \in SignalIntents
  <2>1. /\ Plan(r) = SubmitPlan(r) /\ New(r) = SubmitRows(r)
        /\ Resource(r) = <<"signal", EventOf(r)>>
        /\ \A lock : Refusal(r, lock) = SubmitRefusal(r, lock)
    BY <1>5, KindsApart
  <2>2. SubmitCommand(r) BY <1>5 DEF Step, Command, SignalIntents, CatalogIntents, ImportIntents,
          BindIntents, ProposeIntents, ConfirmIntents, ApplicationIntents, PartIntents
  <2>3. SubmitAdmission(r) = None \/ SubmitAdmission(r).code # "INTERNAL_ERROR"
    BY DEF SubmitAdmission, Refuse
  <2>4. \A lock : SubmitRefusal(r, lock) = None \/ SubmitRefusal(r, lock).code # "INTERNAL_ERROR"
    BY DEF SubmitRefusal, Refuse
  <2>5. Refuse("IDEMPOTENCY_CONFLICT").code # "INTERNAL_ERROR" BY DEF Refuse
  <2>6. CASE Begin(r, SubmitAdmission(r)) BY <2>3, <2>6, BeginIs, <1>1
  <2>7. CASE Replay(r, SubmitPlan(r), Refuse("IDEMPOTENCY_CONFLICT"))
    BY <1>1, <2>1, <2>5, <2>7, ReplayIs
  <2>8. CASE Take(r, SubmitPlan(r), SubmitRefusal(r, NextLock(r, SubmitPlan(r))))
    BY <1>1, <2>1, <2>4, <2>8, TakeIs
  <2>9. CASE Commit(r, SubmitPlan(r), SubmitRows(r), <<"signal", EventOf(r)>>, Refuse("INTERNAL_ERROR"))
    BY <1>1, <1>4, <2>1, <2>9
  <2> QED BY <2>2, <2>6, <2>7, <2>8, <2>9 DEF SubmitCommand
<1>6. CASE Intent(r) \in ConfirmIntents
  <2>1. /\ Plan(r) = ConfirmPlan(r) /\ New(r) = Only("confirmation", ConfirmationRow(r))
        /\ Resource(r) = <<"confirmation", TheProposal(r).id>>
        /\ \A lock : Refusal(r, lock) = ConfirmRefusal(r, lock)
        /\ Intent(r) \notin SignalIntents
    BY <1>6, KindsApart
  <2>2. ConfirmCommand(r) BY <1>6 DEF Step, Command, SignalIntents, CatalogIntents, ImportIntents,
          BindIntents, ProposeIntents, ConfirmIntents, ApplicationIntents, PartIntents
  <2>3. CASE Begin(r, Admit(r, "confirm")) BY <1>1, <2>1, <2>3, BeginIs
  <2>4. CASE Replay(r, ConfirmPlan(r), Reused) BY <1>1, <2>1, <2>4, ReplayIs
  <2>5. CASE Take(r, ConfirmPlan(r), ConfirmRefusal(r, NextLock(r, ConfirmPlan(r))))
    BY <1>1, <2>1, <2>5, TakeIs
  <2>6. CASE Commit(r, ConfirmPlan(r), Only("confirmation", ConfirmationRow(r)),
                    <<"confirmation", TheProposal(r).id>>, Deny("CATALOG_CONFLICT"))
    BY <1>1, <1>4, <2>1, <2>6
  <2> QED BY <2>2, <2>3, <2>4, <2>5, <2>6 DEF ConfirmCommand
<1>7. CASE Intent(r) \notin SignalIntents \cup ConfirmIntents
  <2>1. \/ \E refusal : Begin(r, refusal)
        \/ \E reused : Replay(r, Plan(r), reused)
        \/ \E refusal : Take(r, Plan(r), refusal)
        \/ \E taken : Commit(r, Plan(r), New(r), Resource(r), taken)
    <3>1. CASE Intent(r) \in CatalogIntents
      <4>1. CatalogCommand(r) BY <3>1 DEF Step, Command, SignalIntents, CatalogIntents,
              ImportIntents, BindIntents, ProposeIntents, ConfirmIntents, ApplicationIntents,
              PartIntents
      <4> QED BY <3>1, <4>1, KindsApart DEF CatalogCommand
    <3>2. CASE Intent(r) \in ImportIntents
      <4>1. ImportCommand(r) BY <3>2 DEF Step, Command, SignalIntents, CatalogIntents,
              ImportIntents, BindIntents, ProposeIntents, ConfirmIntents, ApplicationIntents,
              PartIntents
      <4> QED BY <3>2, <4>1, KindsApart DEF ImportCommand
    <3>3. CASE Intent(r) \in BindIntents
      <4>1. BindCommand(r) BY <3>3 DEF Step, Command, SignalIntents, CatalogIntents,
              ImportIntents, BindIntents, ProposeIntents, ConfirmIntents, ApplicationIntents,
              PartIntents
      <4> QED BY <3>3, <4>1, KindsApart DEF BindCommand
    <3>4. CASE Intent(r) \in ProposeIntents
      <4>1. ProposeCommand(r) BY <3>4 DEF Step, Command, SignalIntents, CatalogIntents,
              ImportIntents, BindIntents, ProposeIntents, ConfirmIntents, ApplicationIntents,
              PartIntents
      <4> QED BY <3>4, <4>1, KindsApart DEF ProposeCommand
    <3> QED BY <1>2, <1>7, <3>1, <3>2, <3>3, <3>4 DEF Intents
  <2>2. ASSUME NEW refusal, Begin(r, refusal) PROVE Arrives(r) \/ Ends(r)
    BY <1>7, <2>2, BeginIs
  <2>3. ASSUME NEW reused, Replay(r, Plan(r), reused) PROVE Ends(r) BY <1>7, <2>3, ReplayIs
  <2>4. ASSUME NEW refusal, Take(r, Plan(r), refusal)
        PROVE  Ends(r) \/ \E lock : Locks1(r, lock)
    BY <1>7, <2>4, TakeIs
  <2> QED BY <1>1, <1>4, <2>1, <2>2, <2>3, <2>4
<1> QED BY <1>2, <1>5, <1>6, <1>7 DEF Intents

-----------------------------------------------------------------------------
(* What the commands write                                                   *)

Signals == {"signal", "case", "link", "evidence"}

LEMMA TableOfIs ==
  ASSUME NEW r \in Requests, Intent(r) \in CatalogIntents
  PROVE  TableOf(r) \in {"application", "environment", "component", "edge"}
BY DEF TableOf, CatalogIntents, ApplicationIntents, PartIntents

LEMMA WhoWrites ==
  ASSUME NEW r \in Requests, Intent(r) \in Intents
  PROVE  /\ Intent(r) \notin SignalIntents => \A t \in Signals : New(r)[t] = {}
         /\ Intent(r) \notin ProposeIntents => New(r)["proposal"] = {}
         /\ Intent(r) \in ProposeIntents => New(r)["proposal"] = {ProposalRow(r)}
         /\ Intent(r) \notin ConfirmIntents => New(r)["confirmation"] = {}
         /\ Intent(r) \in ConfirmIntents => New(r)["confirmation"] = {ConfirmationRow(r)}
<1>1. Signals \cup {"proposal", "confirmation"} \subseteq Tables BY TablesAssumption DEF Signals
<1>2. CASE Intent(r) \in SignalIntents
  <2>1. New(r) = SubmitRows(r) BY <1>2, KindsApart
  <2>2. SubmitRows(r)["proposal"] = {} /\ SubmitRows(r)["confirmation"] = {}
    BY <1>1 DEF SubmitRows
  <2> QED BY <1>2, <2>1, <2>2 DEF SignalIntents, ProposeIntents, ConfirmIntents
<1>3. CASE Intent(r) \in CatalogIntents
  <2>1. New(r) = Only(TableOf(r), CatalogRow(r)) BY <1>3, KindsApart
  <2>2. \A t \in Signals \cup {"proposal", "confirmation"} : New(r)[t] = {}
    BY <1>1, <1>3, <2>1, TableOfIs DEF Only, Signals
  <2> QED BY <1>3, <2>2
           DEF CatalogIntents, ApplicationIntents, PartIntents, ProposeIntents, ConfirmIntents
<1>4. CASE Intent(r) \in ImportIntents
  <2>1. New(r) = ImportRows(r) BY <1>4, KindsApart
  <2>2. \A t \in Signals \cup {"proposal", "confirmation"} : New(r)[t] = {}
    BY <1>1, <2>1 DEF ImportRows, Signals
  <2> QED BY <1>4, <2>2 DEF ImportIntents, ProposeIntents, ConfirmIntents
<1>5. CASE Intent(r) \in BindIntents
  <2>1. New(r) = BindRows(r) BY <1>5, KindsApart
  <2>2. \A t \in Signals \cup {"proposal", "confirmation"} : New(r)[t] = {}
    BY <1>1, <2>1 DEF BindRows, Signals
  <2> QED BY <1>5, <2>2 DEF BindIntents, ProposeIntents, ConfirmIntents
<1>6. CASE Intent(r) \in ProposeIntents
  <2>1. New(r) = Only("proposal", ProposalRow(r)) BY <1>6, KindsApart
  <2>2. /\ \A t \in Signals \cup {"confirmation"} : New(r)[t] = {}
        /\ New(r)["proposal"] = {ProposalRow(r)}
    BY <1>1, <2>1 DEF Only, Signals
  <2> QED BY <1>6, <2>2 DEF ProposeIntents, ConfirmIntents
<1>7. CASE Intent(r) \in ConfirmIntents
  <2>1. New(r) = Only("confirmation", ConfirmationRow(r)) BY <1>7, KindsApart
  <2>2. /\ \A t \in Signals \cup {"proposal"} : New(r)[t] = {}
        /\ New(r)["confirmation"] = {ConfirmationRow(r)}
    BY <1>1, <2>1 DEF Only, Signals
  <2> QED BY <1>7, <2>2 DEF ProposeIntents, ConfirmIntents
<1> QED BY <1>2, <1>3, <1>4, <1>5, <1>6, <1>7 DEF Intents

(* Every row says which attempt wrote it.                                    *)
LEMMA RowsAreSigned ==
  ASSUME NEW r \in Requests, Intent(r) \in Intents, NEW t \in Tables, NEW x \in New(r)[t]
  PROVE  x.by = Attempt(r)
<1>1. CASE Intent(r) \in SignalIntents
  <2>1. x \in SubmitRows(r)[t] BY <1>1, KindsApart
  <2>2. x \in {SignalRow(r), CaseRow(r), LinkRow(r), EvidenceRow(r)} BY <2>1 DEF SubmitRows
  <2> QED BY <2>2 DEF SignalRow, CaseRow, LinkRow, EvidenceRow
<1>2. CASE Intent(r) \in CatalogIntents
  <2>1. x \in Only(TableOf(r), CatalogRow(r))[t] BY <1>2, KindsApart
  <2>2. x = CatalogRow(r) BY <2>1 DEF Only
  <2> QED BY <2>2 DEF CatalogRow, ApplicationRow, PartRow, EdgeRow
<1>3. CASE Intent(r) \in ImportIntents
  <2>1. x \in ImportRows(r)[t] BY <1>3, KindsApart
  <2>2. \/ x \in {ApplicationRow(r), VersionRow(r), AssignmentRow(r),
                  [id |-> EnvironmentId(r), by |-> Attempt(r)]}
        \/ x \in {[id |-> c, by |-> Attempt(r)] : c \in PartsOf(r) \cup PolicyOf(r)}
        \/ x \in ManifestEdges(r)
    BY <2>1 DEF ImportRows
  <2> QED BY <2>2 DEF ApplicationRow, VersionRow, AssignmentRow, ManifestEdges
<1>4. CASE Intent(r) \in BindIntents
  <2>1. x \in BindRows(r)[t] BY <1>4, KindsApart
  <2>2. x \in BindingRows(r) \cup SnapshotRows(r) BY <2>1 DEF BindRows
  <2> QED BY <2>2 DEF BindingRows, SnapshotRows
<1>5. CASE Intent(r) \in ProposeIntents
  <2>1. x \in Only("proposal", ProposalRow(r))[t] BY <1>5, KindsApart
  <2> QED BY <2>1 DEF Only, ProposalRow
<1>6. CASE Intent(r) \in ConfirmIntents
  <2>1. x \in Only("confirmation", ConfirmationRow(r))[t] BY <1>6, KindsApart
  <2> QED BY <2>1 DEF Only, ConfirmationRow
<1> QED BY <1>1, <1>2, <1>3, <1>4, <1>5, <1>6 DEF Intents

(* What a command tells is there when it has committed.                      *)
LEMMA ResourceIsThere ==
  ASSUME LedgerPart, SignalPart, NEW r \in Requests, Writes(r)
  PROVE  /\ Resource(r)[1] \in Tables /\ (\E x \in db'[Resource(r)[1]] : x.id = Resource(r)[2])
         /\ Intent(r) \in SignalIntents => Resource(r)[1] = "signal"
<1>1. Intent(r) \in Intents BY DEF LedgerPart, Known
<1>2. \A t \in Tables : db'[t] = db[t] \cup New(r)[t] BY DEF Writes
<1>3. CASE Intent(r) \in SignalIntents
  <2>1. Resource(r) = <<"signal", EventOf(r)>> /\ New(r) = SubmitRows(r) BY <1>3, KindsApart
  <2>2. \E x \in db'["signal"] : x.id = EventOf(r)
    <3>1. CASE Opens(r) \notin Held(r)
      <4>1. PICK s \in db["signal"] : s.id = EventOf(r)
        BY <1>3, <3>1, SubmitEnds DEF LedgerPart, SignalPart, Writes, Earlier
      <4> QED BY <1>2, <4>1, TablesAssumption
    <3>2. CASE Opens(r) \in Held(r)
      <4>1. SignalRow(r) \in db'["signal"]
        BY <1>2, <2>1, <3>2, TablesAssumption DEF SubmitRows
      <4> QED BY <4>1 DEF SignalRow
    <3> QED BY <3>1, <3>2
  <2> QED BY <2>1, <2>2, TablesAssumption
<1>4. ASSUME NEW t \in Tables, NEW row, row \in New(r)[t], Resource(r) = <<t, row.id>>,
             Intent(r) \notin SignalIntents
      PROVE  /\ Resource(r)[1] \in Tables /\ (\E x \in db'[Resource(r)[1]] : x.id = Resource(r)[2])
             /\ Intent(r) \in SignalIntents => Resource(r)[1] = "signal"
  <2>1. row \in db'[t] BY <1>2, <1>4
  <2> QED BY <1>4, <2>1
<1>5. CASE Intent(r) \in CatalogIntents
  <2>1. TableOf(r) \in Tables BY <1>5, TableOfIs, TablesAssumption
  <2>2. CatalogRow(r) \in New(r)[TableOf(r)] BY <1>5, <2>1, KindsApart DEF Only
  <2> QED BY <1>4, <1>5, <2>1, <2>2, KindsApart
<1>6. CASE Intent(r) \in ImportIntents
  <2>1. /\ Resource(r) = <<"version", Body(r).digest>> /\ New(r) = ImportRows(r)
        /\ Intent(r) \notin SignalIntents
    BY <1>6, KindsApart
  <2>2. CASE Imported(r) = {}
    <3>1. VersionRow(r) \in New(r)["version"] BY <2>1, <2>2, TablesAssumption DEF ImportRows
    <3>2. VersionRow(r).id = Body(r).digest BY DEF VersionRow
    <3> QED BY <1>4, <2>1, <3>1, <3>2, TablesAssumption
  <2>3. CASE Imported(r) # {}
    <3>1. PICK v \in db["version"] : v.id = Body(r).digest BY <2>3 DEF Imported
    <3>2. v \in db'["version"] BY <1>2, TablesAssumption
    <3> QED BY <2>1, <3>1, <3>2, TablesAssumption
  <2> QED BY <2>2, <2>3
<1>7. CASE Intent(r) \in BindIntents
  <2>1. /\ Resource(r) = <<"binding", Body(r).case>> /\ New(r) = BindRows(r)
        /\ Intent(r) \notin SignalIntents
    BY <1>7, KindsApart
  <2>2. CASE BindingOf(r) = {}
    <3>1. PICK row : row = [id |-> Body(r).case, by |-> Attempt(r), target |-> TargetOf(r)] OBVIOUS
    <3>2. row \in New(r)["binding"] BY <2>1, <2>2, <3>1, TablesAssumption DEF BindRows, BindingRows
    <3>3. row.id = Body(r).case BY <3>1
    <3> QED BY <1>4, <2>1, <3>2, <3>3, TablesAssumption
  <2>3. CASE BindingOf(r) # {}
    <3>1. PICK b \in db["binding"] : b.id = Body(r).case BY <2>3 DEF BindingOf
    <3>2. b \in db'["binding"] BY <1>2, TablesAssumption
    <3> QED BY <2>1, <3>1, <3>2, TablesAssumption
  <2> QED BY <2>2, <2>3
<1>8. CASE Intent(r) \in ProposeIntents
  <2>1. ProposalRow(r) \in New(r)["proposal"] BY <1>1, <1>8, WhoWrites
  <2> QED BY <1>4, <1>8, <2>1, KindsApart, TablesAssumption
<1>9. CASE Intent(r) \in ConfirmIntents
  <2>1. ConfirmationRow(r) \in New(r)["confirmation"] BY <1>1, <1>9, WhoWrites
  <2>2. ConfirmationRow(r).id = TheProposal(r).id BY DEF ConfirmationRow
  <2> QED BY <1>4, <1>9, <2>1, <2>2, KindsApart, TablesAssumption
<1> QED BY <1>1, <1>3, <1>5, <1>6, <1>7, <1>8, <1>9 DEF Intents

-----------------------------------------------------------------------------
(* The ledger: a key stands for one effect                                   *)

LEMMA CmdStays ==
  ASSUME UNCHANGED cmd
  PROVE  \A q \in Requests :
           /\ Intent(q)' = Intent(q) /\ Body(q)' = Body(q) /\ Namespace(q)' = Namespace(q)
           /\ KeyLock(q)' = KeyLock(q) /\ KeyAt(q)' = KeyAt(q)
BY DEF Intent, Body, Namespace, KeyLock, KeyAt

LEMMA Quiet ==
  ASSUME LedgerPart, UNCHANGED <<cmd, db, ledger>>
  PROVE  /\ Known' /\ Unique' /\ Shown' /\ Kept'
         /\ \A q : Recorded(q)' = Recorded(q)
         /\ \A t \in Tables : Ids(t)' = Ids(t)
<1>1. \A q : Recorded(q)' = Recorded(q) /\ Namespace(q)' = Namespace(q)
  BY DEF Recorded, Namespace
<1>2. \A t : Ids(t)' = Ids(t) BY DEF Ids
<1>3. Known' BY DEF LedgerPart, Known, Intent
<1>4. Unique' BY DEF LedgerPart, Unique
<1>5. Shown' BY <1>2 DEF LedgerPart, Shown
<1>6. Kept' BY <1>1 DEF LedgerPart, Kept
<1> QED BY <1>1, <1>2, <1>3, <1>4, <1>5, <1>6

(* A request that holds no lock, or one more that was free.                  *)
LEMMA StillExclusive ==
  ASSUME Exclusive, NEW r \in Requests, Others(r), NEW H, Held(r)' = H,
         \A q \in Requests \ {r} : Held(q) \cap H = {}
  PROVE  Exclusive'
<1> SUFFICES ASSUME NEW p \in Requests, NEW q \in Requests, p # q
             PROVE  Held(p)' \cap Held(q)' = {}
  BY DEF Exclusive
<1>1. CASE p = r BY <1>1 DEF Others
<1>2. CASE q = r BY <1>2 DEF Others
<1>3. CASE p # r /\ q # r BY <1>3 DEF Others, Exclusive
<1> QED BY <1>1, <1>2, <1>3

LEMMA OthersKeyed ==
  ASSUME LedgerPart, UNCHANGED <<cmd, db, ledger>>, NEW r \in Requests, Others(r), Keyed(r)'
  PROVE  \A q \in Requests : Keyed(q)'
<1>1. ASSUME NEW q \in Requests \ {r} PROVE Keyed(q)'
  <2>1. Locks(q)' = Locks(q) /\ Recorded(q)' = Recorded(q) BY Quiet DEF Others
  <2>2. KeyAt(q)' = KeyAt(q) /\ KeyLock(q)' = KeyLock(q) BY CmdStays
  <2>3. Keyed(q) BY DEF LedgerPart
  <2> QED BY <2>1, <2>2, <2>3 DEF Keyed
<1> QED BY <1>1

(* Without a lock a request has no key.                                      *)
LEMMA NothingKeyed ==
  ASSUME UNCHANGED cmd, NEW r \in Requests, Intent(r) \in Intents, Locks(r)' = <<>> PROVE Keyed(r)'
<1>1. KeyAt(r)' >= 1 BY CmdStays, PlanHasKey
<1>2. Len(Locks(r)') = 0 BY DEF Locks
<1> QED BY <1>1, <1>2, CmdStays, PlanHasKey DEF Keyed

LEMMA LedgerClosed ==
  ASSUME LedgerPart, UNCHANGED <<cmd, db, ledger>>, NEW r \in Requests, Others(r), SessionsOK',
         Held(r)' = {}, Locks(r)' = <<>>, Told'
  PROVE  LedgerPart'
<1>1. Exclusive' BY StillExclusive DEF LedgerPart
<1>2. Keyed(r)' BY NothingKeyed DEF LedgerPart, Known
<1>3. \A q \in Requests : Keyed(q)' BY <1>2, OthersKeyed
<1> QED BY <1>1, <1>3, Quiet DEF LedgerPart

LEMMA LedgerArrives ==
  ASSUME LedgerPart, UNCHANGED cmd, NEW r \in Requests, Arrives(r) PROVE LedgerPart'
<1>1. UNCHANGED <<cmd, db, ledger, answers>> BY DEF Arrives
<1>2. Told' BY <1>1, Quiet DEF LedgerPart, Told
<1> QED BY <1>1, <1>2, Arrived, LedgerClosed DEF LedgerPart

LEMMA LedgerBreaks ==
  ASSUME LedgerPart, NEW r \in Requests, Fail(r) PROVE LedgerPart'
<1>1. /\ UNCHANGED <<cmd, db, ledger, answers>>
      /\ sessions' = [sessions EXCEPT ![r] = Closed(sessions[r].sent)]
      /\ sessions[r].sent \in Nat
  BY DEF Fail, LedgerPart, SessionsOK
<1>2. Told' BY <1>1, Quiet DEF LedgerPart, Told
<1> QED BY <1>1, <1>2, Closes, LedgerClosed DEF LedgerPart

LEMMA LedgerEnds ==
  ASSUME LedgerPart, UNCHANGED cmd, NEW r \in Requests, Ends(r) PROVE LedgerPart'
<1>1. UNCHANGED <<cmd, db, ledger>> BY DEF Ends
<1>0. PICK n \in {sessions[r].sent, sessions[r].sent + 1} : \E code, audited, x :
        /\ sessions' = [sessions EXCEPT ![r] = Closed(n)]
        /\ answers' = answers \cup {[request |-> r, code |-> code, audited |-> audited, resource |-> x]}
        /\ x # None => \E e \in Recorded(r) : e.resource = x
  BY DEF Ends
<1>2. PICK code, audited, x :
        /\ sessions' = [sessions EXCEPT ![r] = Closed(n)]
        /\ answers' = answers \cup {[request |-> r, code |-> code, audited |-> audited, resource |-> x]}
        /\ x # None => \E e \in Recorded(r) : e.resource = x
  BY <1>0
<1>3. n \in Nat
  <2>1. sessions[r].sent \in Nat BY DEF LedgerPart, SessionsOK
  <2> QED BY <2>1
<1>4. Told'
  <2> SUFFICES ASSUME NEW a \in answers', a.resource # None
               PROVE  \E e \in Recorded(a.request)' : e.resource = a.resource
    BY DEF Told
  <2>1. CASE a \in answers
    <3>1. \E e \in Recorded(a.request) : e.resource = a.resource BY <2>1 DEF LedgerPart, Told
    <3> QED BY <1>1, <3>1, Quiet
  <2>2. CASE a \notin answers
    <3>1. a = [request |-> r, code |-> code, audited |-> audited, resource |-> x]
      BY <1>2, <2>2
    <3>2. a.request = r /\ a.resource = x BY <3>1
    <3>3. PICK e \in Recorded(r) : e.resource = x BY <1>2, <3>2
    <3> QED BY <1>1, <3>2, <3>3, Quiet
  <2> QED BY <2>1, <2>2
<1> QED BY <1>1, <1>2, <1>3, <1>4, Closes, LedgerClosed DEF LedgerPart

LEMMA LedgerLocks ==
  ASSUME LedgerPart, UNCHANGED cmd, NEW r \in Requests, NEW lock, Locks1(r, lock)
  PROVE  LedgerPart'
<1>1. UNCHANGED <<cmd, db, ledger, answers>> BY DEF Locks1
<1>2. /\ SessionsOK' /\ Others(r) /\ Held(r)' = Held(r) \cup {lock}
      /\ Len(Locks(r)) \in Nat /\ Len(Locks(r)') = Len(Locks(r)) + 1
      /\ \A i \in 1..Len(Locks(r)) : Locks(r)'[i] = Locks(r)[i]
      /\ Locks(r)'[Len(Locks(r)) + 1] = lock
  BY Locked DEF LedgerPart
<1>3. Told' BY <1>1, Quiet DEF LedgerPart, Told
<1>4. Exclusive'
  <2>1. PICK H : H = Held(r) \cup {lock} OBVIOUS
  <2>2. \A q \in Requests \ {r} : Held(q) \cap H = {}
    BY <2>1 DEF LedgerPart, Exclusive, Locks1, Free
  <2> QED BY <1>2, <2>1, <2>2, StillExclusive DEF LedgerPart
<1>5. Keyed(r)'
  <2> SUFFICES ASSUME Len(Locks(r)') >= KeyAt(r)
               PROVE  Locks(r)'[KeyAt(r)] = KeyLock(r) /\ Recorded(r)' = {}
    BY CmdStays DEF Keyed
  <2>1. KeyAt(r) \in {1, 2, 3} /\ Plan(r)[KeyAt(r)] = KeyLock(r)
    BY PlanHasKey DEF LedgerPart, Known
  <2>2. CASE Len(Locks(r)) >= KeyAt(r)
    <3>1. Locks(r)[KeyAt(r)] = KeyLock(r) /\ Recorded(r) = {} BY <2>2 DEF LedgerPart, Keyed
    <3>2. KeyAt(r) \in 1..Len(Locks(r)) BY <1>2, <2>1, <2>2
    <3> QED BY <1>1, <1>2, <3>1, <3>2, Quiet
  <2>3. CASE Len(Locks(r)) + 1 = KeyAt(r)
    <3>1. lock = KeyLock(r) BY <2>1, <2>3 DEF Locks1
    <3>2. Recorded(r) = {} BY <3>1 DEF Locks1
    <3> QED BY <1>1, <1>2, <2>3, <3>1, <3>2, Quiet
  <2> QED BY <1>2, <2>1, <2>2, <2>3
<1>6. \A q \in Requests : Keyed(q)' BY <1>1, <1>2, <1>5, OthersKeyed
<1> QED BY <1>1, <1>2, <1>3, <1>4, <1>6, Quiet DEF LedgerPart

LEMMA Written ==
  ASSUME LedgerPart, UNCHANGED cmd, NEW r \in Requests, Writes(r)
  PROVE  /\ SessionsOK' /\ Others(r) /\ ~Open(r)' /\ Held(r)' = {} /\ Locks(r)' = <<>>
         /\ sessions'[r].sent = sessions[r].sent
         /\ Intent(r) \in Intents
         /\ \A t \in Tables : db'[t] = db[t] \cup New(r)[t]
         /\ \A t \in Tables : \A x \in New(r)[t] : x.by = Attempt(r) /\ x.by[1] = r
         /\ \A q \in Requests : Namespace(q) # Namespace(r) => Recorded(q)' = Recorded(q)
         /\ \A q : Recorded(q) \subseteq Recorded(q)'
         /\ \E e \in Recorded(r)' : e.resource = Resource(r)
         /\ \E answer : /\ answers' = answers \cup {answer} /\ answer.request = r
                        /\ answer.code = "completed" /\ answer.resource = Resource(r)
<1>1. sessions' = [sessions EXCEPT ![r] = Closed(sessions[r].sent)] /\ sessions[r].sent \in Nat
  BY DEF Writes, Finish, LedgerPart, SessionsOK
<1>2. Intent(r) \in Intents BY DEF LedgerPart, Known
<1>3. ASSUME NEW t \in Tables, NEW x \in New(r)[t] PROVE x.by = Attempt(r) /\ x.by[1] = r
  <2>1. x.by = Attempt(r) BY <1>2, RowsAreSigned
  <2>2. Attempt(r)[1] = r BY DEF Attempt
  <2> QED BY <2>1, <2>2
<1>4. PICK e : e = [namespace |-> Namespace(r), body |-> cmd[r].body, resource |-> Resource(r)]
  OBVIOUS
<1>5. e.namespace = Namespace(r) /\ e.resource = Resource(r) /\ ledger' = ledger \cup {e}
  BY <1>4 DEF Writes
<1>6. \A q : Namespace(q)' = Namespace(q) BY DEF Namespace
<1>7. /\ \A q \in Requests : Namespace(q) # Namespace(r) => Recorded(q)' = Recorded(q)
      /\ \A q : Recorded(q) \subseteq Recorded(q)'
      /\ e \in Recorded(r)'
  BY <1>5, <1>6 DEF Recorded
<1>8. PICK answer : answer = [request |-> r, code |-> Deny("completed").code,
                              audited |-> Deny("completed").audited, resource |-> Resource(r)]
  OBVIOUS
<1>9. /\ answers' = answers \cup {answer} /\ answer.request = r
      /\ answer.code = "completed" /\ answer.resource = Resource(r)
  BY <1>8 DEF Writes, Finish, Deny
<1>10. \A t \in Tables : db'[t] = db[t] \cup New(r)[t] BY DEF Writes
<1>11. /\ SessionsOK' /\ Others(r) /\ ~Open(r)' /\ Held(r)' = {} /\ Locks(r)' = <<>>
       /\ sessions'[r].sent = sessions[r].sent
  BY <1>1, Closes DEF LedgerPart
<1> QED BY <1>2, <1>3, <1>5, <1>7, <1>9, <1>10, <1>11

(* Whoever else has the same key waits.                                      *)
LEMMA KeyIsAlone ==
  ASSUME LedgerPart, NEW r \in Requests, Len(Locks(r)) = Len(Plan(r)),
         NEW q \in Requests \ {r}, Len(Locks(q)) >= KeyAt(q)
  PROVE  Namespace(q) # Namespace(r)
<1>1. KeyLock(r) \in Held(r) BY EndsKeyed
<1>2. KeyAt(q) \in {1, 2, 3} BY PlanHasKey DEF LedgerPart, Known
<1>3. Locks(q)[KeyAt(q)] = KeyLock(q) BY DEF LedgerPart, Keyed
<1>4. KeyLock(q) \in Held(q) BY <1>2, <1>3, HeldOf DEF LedgerPart, SessionsOK, Locks
<1>5. KeyLock(q) # KeyLock(r) BY <1>1, <1>4 DEF LedgerPart, Exclusive
<1> QED BY <1>5 DEF KeyLock

LEMMA LedgerWrites ==
  ASSUME LedgerPart, SignalPart, UNCHANGED cmd, NEW r \in Requests, Writes(r)
  PROVE  LedgerPart'
<1>1. /\ SessionsOK' /\ Others(r) /\ Held(r)' = {} /\ Locks(r)' = <<>>
      /\ Intent(r) \in Intents
      /\ \A t \in Tables : db'[t] = db[t] \cup New(r)[t]
      /\ \A t \in Tables : \A x \in New(r)[t] : x.by = Attempt(r) /\ x.by[1] = r
      /\ \A q \in Requests : Namespace(q) # Namespace(r) => Recorded(q)' = Recorded(q)
      /\ \A q : Recorded(q) \subseteq Recorded(q)'
      /\ \E e \in Recorded(r)' : e.resource = Resource(r)
  BY Written
<1>2. Recorded(r) = {} /\ Len(Locks(r)) = Len(Plan(r)) BY DEF Writes
<1>3. Exclusive' BY <1>1, StillExclusive DEF LedgerPart
<1>4. ASSUME NEW q \in Requests PROVE Keyed(q)'
  <2>1. CASE q = r BY <1>1, <2>1, NothingKeyed
  <2>2. CASE q # r
    <3> SUFFICES ASSUME Len(Locks(q)) >= KeyAt(q)
                 PROVE  Locks(q)[KeyAt(q)] = KeyLock(q) /\ Recorded(q)' = {}
      BY <1>1, <2>2, CmdStays DEF Keyed, Others
    <3>1. Locks(q)[KeyAt(q)] = KeyLock(q) /\ Recorded(q) = {} BY DEF LedgerPart, Keyed
    <3>2. Namespace(q) # Namespace(r) BY <1>2, <2>2, KeyIsAlone
    <3> QED BY <1>1, <3>1, <3>2
  <2> QED BY <2>1, <2>2
<1>5. PICK e : /\ e.namespace = Namespace(r) /\ e.resource = Resource(r)
               /\ ledger' = ledger \cup {e}
  <2>1. PICK e : e = [namespace |-> Namespace(r), body |-> cmd[r].body, resource |-> Resource(r)]
    OBVIOUS
  <2> QED BY <2>1 DEF Writes
<1>6. \A f \in ledger : f.namespace # Namespace(r) BY <1>2 DEF Recorded
<1>7. Unique' BY <1>5, <1>6 DEF LedgerPart, Unique
<1>8. Shown'
  <2>1. ASSUME NEW f \in ledger
        PROVE  /\ f.resource[1] \in Tables
               /\ \E x \in db'[f.resource[1]] : x.id = f.resource[2]
               /\ f.namespace.intent \in SignalIntents => f.resource[1] = "signal"
    BY <1>1 DEF LedgerPart, Shown, Ids
  <2>2. /\ Resource(r)[1] \in Tables
        /\ \E x \in db'[Resource(r)[1]] : x.id = Resource(r)[2]
        /\ Intent(r) \in SignalIntents => Resource(r)[1] = "signal"
    BY ResourceIsThere
  <2>3. e.namespace.intent = Intent(r) BY <1>5 DEF Namespace, Intent
  <2>4. ASSUME NEW f \in ledger'
        PROVE  /\ f.resource[1] \in Tables
               /\ \E x \in db'[f.resource[1]] : x.id = f.resource[2]
               /\ f.namespace.intent \in SignalIntents => f.resource[1] = "signal"
    <3>1. CASE f \in ledger BY <2>1, <3>1
    <3>2. CASE f = e BY <1>5, <2>2, <2>3, <3>2
    <3> QED BY <1>5, <3>1, <3>2
  <2> QED BY <2>4 DEF Shown, Ids
<1>9. Kept'
  <2> SUFFICES ASSUME NEW t \in Tables, NEW x \in db'[t], x.by[1] \in Requests
               PROVE  /\ Recorded(x.by[1])' # {}
                      /\ \A y \in db'[t] :
                           y.by[1] \in Requests /\ Namespace(y.by[1]) = Namespace(x.by[1])
                             => x.by = y.by
    BY CmdStays DEF Kept
  <2>1. ASSUME NEW y \in db[t], y.by[1] \in Requests
        PROVE  Recorded(y.by[1]) # {} /\ Namespace(y.by[1]) # Namespace(r)
    <3>1. Recorded(y.by[1]) # {} BY <2>1 DEF LedgerPart, Kept
    <3> QED BY <1>2, <3>1 DEF Recorded
  <2>2. CASE x \in db[t]
    <3>1. Recorded(x.by[1])' # {} BY <1>1, <2>1, <2>2
    <3>2. ASSUME NEW y \in db'[t], y.by[1] \in Requests, Namespace(y.by[1]) = Namespace(x.by[1])
          PROVE  x.by = y.by
      <4>1. CASE y \in db[t] BY <2>2, <3>2, <4>1 DEF LedgerPart, Kept
      <4>2. CASE y \in New(r)[t] BY <1>1, <2>1, <2>2, <3>2, <4>2
      <4> QED BY <1>1, <4>1, <4>2
    <3> QED BY <3>1, <3>2
  <2>3. CASE x \in New(r)[t]
    <3>1. x.by = Attempt(r) /\ x.by[1] = r BY <1>1, <2>3
    <3>2. Recorded(x.by[1])' # {} BY <1>1, <3>1
    <3>3. ASSUME NEW y \in db'[t], y.by[1] \in Requests, Namespace(y.by[1]) = Namespace(x.by[1])
          PROVE  x.by = y.by
      <4>1. CASE y \in db[t] BY <2>1, <3>1, <3>3, <4>1
      <4>2. CASE y \in New(r)[t] BY <1>1, <3>1, <4>2
      <4> QED BY <1>1, <4>1, <4>2
    <3> QED BY <3>2, <3>3
  <2> QED BY <1>1, <2>2, <2>3
<1>10. Told'
  <2>1. PICK answer : /\ answers' = answers \cup {answer} /\ answer.request = r
                      /\ answer.code = "completed" /\ answer.resource = Resource(r)
    BY Written
  <2> SUFFICES ASSUME NEW a \in answers', a.resource # None
               PROVE  \E f \in Recorded(a.request)' : f.resource = a.resource
    BY DEF Told
  <2>2. CASE a \in answers
    <3>1. PICK f \in Recorded(a.request) : f.resource = a.resource BY <2>2 DEF LedgerPart, Told
    <3> QED BY <1>1, <3>1
  <2>3. CASE a = answer BY <1>1, <2>1, <2>3
  <2> QED BY <2>1, <2>2, <2>3
<1>11. Known' BY CmdStays DEF LedgerPart, Known
<1> QED BY <1>1, <1>3, <1>4, <1>7, <1>8, <1>9, <1>10, <1>11 DEF LedgerPart

-----------------------------------------------------------------------------
(* Signals: one event, one case                                              *)

LEMMA EventStays ==
  ASSUME UNCHANGED cmd
  PROVE  \A q \in Requests : /\ EventOf(q)' = EventOf(q)
                             /\ sessions'[q].sent = sessions[q].sent => Opens(q)' = Opens(q)
                             /\ db'["signal"] = db["signal"] => Earlier(q)' = Earlier(q)
BY DEF EventOf, Body, Opens, Attempt, Earlier

LEMMA OthersWatch ==
  ASSUME UNCHANGED cmd, NEW r \in Requests, Others(r), NEW q \in Requests \ {r}, Watches(q),
         Intent(q) \in SignalIntents /\ Len(Locks(q)) >= 4 => Earlier(q)' = {}
  PROVE  Watches(q)'
<1>1. Locks(q)' = Locks(q) /\ sessions'[q] = sessions[q] BY DEF Others
<1>2. /\ Intent(q)' = Intent(q) /\ KeyLock(q)' = KeyLock(q) /\ Body(q)' = Body(q)
      /\ EventOf(q)' = EventOf(q) /\ Opens(q)' = Opens(q)
  BY <1>1, CmdStays, EventStays
<1>3. SourceLock(Body(q).source)' = SourceLock(Body(q).source) BY <1>2 DEF SourceLock
<1>4. EventLock(EventOf(q))' = EventLock(EventOf(q)) BY <1>2 DEF EventLock
<1> QED BY <1>1, <1>2, <1>3, <1>4 DEF Watches

LEMMA SignalQuiet ==
  ASSUME SignalPart, UNCHANGED <<cmd, db>>, NEW r \in Requests, Others(r), Watches(r)', Sane'
  PROVE  SignalPart'
<1>1. SignalsFit(db)' BY DEF SignalPart, SignalsFit
<1>2. ASSUME NEW q \in Requests \ {r} PROVE Watches(q)'
  <2>1. Watches(q) BY DEF SignalPart
  <2>2. Earlier(q)' = Earlier(q) BY EventStays
  <2>3. Intent(q) \in SignalIntents /\ Len(Locks(q)) >= 4 => Earlier(q)' = {}
    BY <2>1, <2>2 DEF Watches
  <2> QED BY <2>1, <2>3, OthersWatch
<1> QED BY <1>1, <1>2 DEF SignalPart

LEMMA NothingWatched == ASSUME NEW r, Locks(r)' = <<>> PROVE Watches(r)'
<1>1. Len(Locks(r)') = 0 BY DEF Locks
<1> QED BY <1>1 DEF Watches

LEMMA SignalEnds ==
  ASSUME LedgerPart, SignalPart, UNCHANGED cmd, NEW r \in Requests,
         Arrives(r) \/ Ends(r) \/ Fail(r)
  PROVE  SignalPart'
<1>0. sessions[r].sent \in Nat BY DEF LedgerPart, SessionsOK
<1>1. CASE Arrives(r)
  <2>1. Sane' BY <1>1, CmdStays DEF Arrives, SignalPart, Sane, Intent
  <2>2. Others(r) /\ Watches(r)' BY <1>1, Arrived, NothingWatched DEF LedgerPart
  <2> QED BY <1>1, <2>1, <2>2, SignalQuiet DEF Arrives
<1>2. CASE Fail(r)
  <2>1. Sane' BY <1>2 DEF Fail, SignalPart, Sane, Intent
  <2>2. Others(r) /\ Watches(r)' BY <1>0, <1>2, Closes, NothingWatched DEF LedgerPart, Fail
  <2> QED BY <1>2, <2>1, <2>2, SignalQuiet DEF Fail
<1>3. CASE Ends(r)
  <2>1. PICK n \in {sessions[r].sent, sessions[r].sent + 1} : \E code, audited, x :
          /\ sessions' = [sessions EXCEPT ![r] = Closed(n)]
          /\ answers' = answers \cup
               {[request |-> r, code |-> code, audited |-> audited, resource |-> x]}
          /\ Intent(r) \in SignalIntents => code # "INTERNAL_ERROR"
    BY <1>3 DEF Ends
  <2>2. PICK code, audited, x :
          /\ sessions' = [sessions EXCEPT ![r] = Closed(n)]
          /\ answers' = answers \cup
               {[request |-> r, code |-> code, audited |-> audited, resource |-> x]}
          /\ Intent(r) \in SignalIntents => code # "INTERNAL_ERROR"
    BY <2>1
  <2>3. n \in Nat BY <1>0
  <2>4. Sane'
    <3>1. PICK answer : answer = [request |-> r, code |-> code, audited |-> audited, resource |-> x]
      OBVIOUS
    <3>2. answer.request = r /\ answer.code = code /\ answers' = answers \cup {answer}
      BY <2>2, <3>1
    <3>3. \A a : Intent(a)' = Intent(a) BY DEF Intent
    <3> QED BY <2>2, <3>2, <3>3 DEF Sane, SignalPart
  <2>5. Others(r) /\ Watches(r)' BY <2>2, <2>3, Closes, NothingWatched DEF LedgerPart
  <2> QED BY <1>3, <2>4, <2>5, SignalQuiet DEF Ends
<1> QED BY <1>1, <1>2, <1>3

LEMMA SignalLocks ==
  ASSUME LedgerPart, SignalPart, UNCHANGED cmd, NEW r \in Requests, NEW lock, Locks1(r, lock)
  PROVE  SignalPart'
<1>1. /\ Others(r) /\ sessions'[r].sent = sessions[r].sent
      /\ Len(Locks(r)) \in Nat /\ Len(Locks(r)') = Len(Locks(r)) + 1
      /\ \A i \in 1..Len(Locks(r)) : Locks(r)'[i] = Locks(r)[i]
      /\ Locks(r)'[Len(Locks(r)) + 1] = lock
  BY Locked DEF LedgerPart
<1>2. Sane' BY DEF Locks1, SignalPart, Sane, Intent
<1>3. CASE Intent(r) \notin SignalIntents
  <2>1. Watches(r)' BY <1>3, CmdStays DEF Watches
  <2> QED BY <1>1, <1>2, <2>1, SignalQuiet DEF Locks1
<1>4. CASE Intent(r) \in SignalIntents
  <2>1. /\ KeyLock(r)' = KeyLock(r) /\ Body(r)' = Body(r)
        /\ EventOf(r)' = EventOf(r) /\ Opens(r)' = Opens(r) /\ Earlier(r)' = Earlier(r)
    BY <1>1, CmdStays, EventStays DEF Locks1
  <2>2. SourceLock(Body(r).source)' = SourceLock(Body(r).source) BY <2>1 DEF SourceLock
  <2>3. EventLock(EventOf(r))' = EventLock(EventOf(r)) BY <2>1 DEF EventLock
  <2>4. Watches(r) BY DEF SignalPart
  <2>5. /\ lock = SubmitPlan(r)[Len(Locks(r)) + 1] /\ Len(Locks(r)) < Len(SubmitPlan(r))
    BY <1>4, KindsApart DEF Locks1
  <2>6. /\ Opens(r) \in Held(r) <=> Len(Locks(r)) >= 4
    BY <1>4, <2>4, OpensHeld DEF LedgerPart
  <2>7. Len(Locks(r)) = 0 => lock = KeyLock(r) BY <2>5, SubmitPlanIs
  <2>8. Len(Locks(r)) = 1 => lock = SourceLock(Body(r).source) BY <2>5, SubmitPlanIs
  <2>9. Len(Locks(r)) = 2 => lock = EventLock(EventOf(r)) BY <2>5, SubmitPlanIs
  <2>10. Len(Locks(r)) = 3 => lock = Opens(r) /\ Earlier(r) = {} BY <2>5, <2>6, SubmitPlanIs
  <2>11. PICK s, t : s = Locks(r) /\ t = Locks(r)' OBVIOUS
  <2>12. /\ Len(s) \in Nat /\ Len(t) = Len(s) + 1 /\ \A i \in 1..Len(s) : t[i] = s[i]
         /\ t[Len(s) + 1] = lock
    BY <1>1, <2>11
  <2>13. Len(t) >= 1 => t[1] = KeyLock(r)
    BY <1>4, <2>4, <2>7, <2>11, <2>12 DEF Watches
  <2>18. PICK m \in Nat, n \in Nat : m = Len(s) /\ n = Len(t) /\ n = m + 1 BY <2>12
  <2>14. n >= 2 => t[2] = SourceLock(Body(r).source)
    <3>1. m >= 2 => s[2] = SourceLock(Body(r).source) BY <1>4, <2>4, <2>11, <2>18 DEF Watches
    <3>2. m >= 2 => t[2] = s[2] BY <2>12, <2>18
    <3>3. m = 1 => t[2] = lock BY <2>12, <2>18
    <3>4. m = 1 => lock = SourceLock(Body(r).source) BY <2>8, <2>11, <2>18
    <3>5. n >= 2 => m >= 2 \/ m = 1
      <4>1. n = m + 1 BY <2>18
      <4> QED BY <4>1
    <3> QED BY <3>1, <3>2, <3>3, <3>4, <3>5
  <2>15. n >= 3 => t[3] = EventLock(EventOf(r))
    <3>1. m >= 3 => s[3] = EventLock(EventOf(r)) BY <1>4, <2>4, <2>11, <2>18 DEF Watches
    <3>2. m >= 3 => t[3] = s[3] BY <2>12, <2>18
    <3>3. m = 2 => t[3] = lock BY <2>12, <2>18
    <3>4. m = 2 => lock = EventLock(EventOf(r)) BY <2>9, <2>11, <2>18
    <3>5. n >= 3 => m >= 3 \/ m = 2
      <4>1. n = m + 1 BY <2>18
      <4> QED BY <4>1
    <3> QED BY <3>1, <3>2, <3>3, <3>4, <3>5
  <2>16. n >= 4 => t[4] = Opens(r) /\ Earlier(r) = {}
    <3>1. m >= 4 => s[4] = Opens(r) /\ Earlier(r) = {} BY <1>4, <2>4, <2>11, <2>18 DEF Watches
    <3>2. m >= 4 => t[4] = s[4] BY <2>12, <2>18
    <3>3. m = 3 => t[4] = lock BY <2>12, <2>18
    <3>4. m = 3 => lock = Opens(r) /\ Earlier(r) = {} BY <2>10, <2>11, <2>18
    <3>5. n >= 4 => m >= 4 \/ m = 3
      <4>1. n = m + 1 BY <2>18
      <4> QED BY <4>1
    <3> QED BY <3>1, <3>2, <3>3, <3>4, <3>5
  <2>17. Watches(r)'
    BY <2>1, <2>2, <2>3, <2>11, <2>13, <2>14, <2>15, <2>16, <2>18 DEF Watches
  <2> QED BY <1>1, <1>2, <2>17, SignalQuiet DEF Locks1
<1> QED BY <1>3, <1>4

LEMMA SignalWrites ==
  ASSUME LedgerPart, SignalPart, UNCHANGED cmd, NEW r \in Requests, Writes(r)
  PROVE  SignalPart'
<1>1. /\ Others(r) /\ Locks(r)' = <<>> /\ Intent(r) \in Intents
      /\ \A t \in Tables : db'[t] = db[t] \cup New(r)[t]
      /\ \E answer : /\ answers' = answers \cup {answer} /\ answer.request = r
                     /\ answer.code = "completed" /\ answer.resource = Resource(r)
  BY Written
<1>2. Signals \subseteq Tables BY TablesAssumption DEF Signals
<1>3. Sane'
  <2>1. PICK answer : /\ answers' = answers \cup {answer} /\ answer.request = r
                      /\ answer.code = "completed" /\ answer.resource = Resource(r)
    BY <1>1
  <2>2. \A a : Intent(a)' = Intent(a) BY DEF Intent
  <2> QED BY <2>1, <2>2 DEF Sane, SignalPart
<1>4. Watches(r)' BY <1>1, NothingWatched
<1>5. CASE \A t \in Signals : New(r)[t] = {}
  <2>1. \A t \in Signals : db'[t] = db[t] BY <1>1, <1>2, <1>5
  <2>2. SignalsFit(db)' BY <2>1 DEF SignalPart, SignalsFit, Signals
  <2>3. ASSUME NEW q \in Requests \ {r} PROVE Watches(q)'
    <3>1. Watches(q) BY DEF SignalPart
    <3>2. Earlier(q)' = Earlier(q) BY <2>1, EventStays DEF Signals
    <3> QED BY <1>1, <3>1, <3>2, OthersWatch DEF Watches
  <2> QED BY <1>3, <1>4, <2>2, <2>3 DEF SignalPart
<1>6. CASE Intent(r) \in SignalIntents /\ Opens(r) \in Held(r)
  <2>1. New(r) = SubmitRows(r) BY <1>6, KindsApart
  <2>2. /\ New(r)["signal"] = {SignalRow(r)} /\ New(r)["case"] = {CaseRow(r)}
        /\ New(r)["link"] = {LinkRow(r)} /\ New(r)["evidence"] = {EvidenceRow(r)}
    BY <1>2, <1>6, <2>1 DEF SubmitRows, Signals
  <2>3. /\ db'["signal"] = db["signal"] \cup {SignalRow(r)}
        /\ db'["case"] = db["case"] \cup {CaseRow(r)}
        /\ db'["link"] = db["link"] \cup {LinkRow(r)}
        /\ db'["evidence"] = db["evidence"] \cup {EvidenceRow(r)}
    BY <1>1, <1>2, <2>2 DEF Signals
  <2>4. EventLock(EventOf(r)) \in Held(r) /\ Earlier(r) = {}
    BY <1>6, SubmitEnds DEF LedgerPart, SignalPart, Writes
  <2>5. PICK e : e = EventOf(r) OBVIOUS
  <2>6. /\ SignalRow(r).id = e /\ CaseRow(r).id = e /\ CaseRow(r).signal = e
        /\ LinkRow(r).id = <<e, e>> /\ EvidenceRow(r).id = e
    BY <2>5 DEF SignalRow, CaseRow, LinkRow, EvidenceRow
  <2>7. \A c \in db["case"] : c.id # e
    BY <2>4, <2>5 DEF Earlier, SignalPart, SignalsFit
  <2>8. SignalsFit(db)'
    <3>1. \A s \in db'["signal"] : \E c \in db'["case"] : c.id = s.id
      BY <2>3, <2>6 DEF SignalPart, SignalsFit
    <3>2. ASSUME NEW c \in db'["case"]
          PROVE  /\ c.signal = c.id /\ \E s \in db'["signal"] : s.id = c.id
                 /\ \A d \in db'["case"] : d.id = c.id => d = c
      <4>1. c.signal = c.id /\ \E s \in db'["signal"] : s.id = c.id
        BY <2>3, <2>6 DEF SignalPart, SignalsFit
      <4>2. \A d \in db'["case"] : d.id = c.id => d = c
        BY <2>3, <2>6, <2>7 DEF SignalPart, SignalsFit
      <4> QED BY <4>1, <4>2
    <3>3. \A l \in db'["link"] : \E s \in db'["signal"] : l.id = <<s.id, s.id>>
      BY <2>3, <2>6 DEF SignalPart, SignalsFit
    <3>4. \A x \in db'["evidence"] : \E s \in db'["signal"] : s.id = x.id
      BY <2>3, <2>6 DEF SignalPart, SignalsFit
    <3> QED BY <3>1, <3>2, <3>3, <3>4 DEF SignalsFit
  <2>9. ASSUME NEW q \in Requests \ {r} PROVE Watches(q)'
    <3>1. Watches(q) BY DEF SignalPart
    <3>2. ASSUME Intent(q) \in SignalIntents, Len(Locks(q)) >= 4 PROVE Earlier(q)' = {}
      <4>1. Earlier(q) = {} /\ EventLock(EventOf(q)) \in Held(q)
        BY <3>1, <3>2, OpensHeld DEF Watches, LedgerPart
      <4>2. EventLock(EventOf(q)) # EventLock(EventOf(r))
        BY <2>4, <4>1 DEF LedgerPart, Exclusive
      <4>3. EventOf(q) # e BY <2>5, <4>2
      <4>4. EventOf(q)' = EventOf(q) BY EventStays
      <4> QED BY <2>3, <2>6, <4>1, <4>3, <4>4 DEF Earlier
    <3> QED BY <1>1, <3>1, <3>2, OthersWatch
  <2> QED BY <1>3, <1>4, <2>8, <2>9 DEF SignalPart
<1>7. CASE Intent(r) \notin SignalIntents BY <1>1, <1>5, <1>7, WhoWrites
<1>8. CASE Intent(r) \in SignalIntents /\ Opens(r) \notin Held(r)
  <2>1. New(r) = SubmitRows(r) BY <1>8, KindsApart
  <2>2. \A t \in Signals : New(r)[t] = {} BY <1>2, <1>8, <2>1 DEF SubmitRows
  <2> QED BY <1>5, <2>2
<1> QED BY <1>6, <1>7, <1>8

-----------------------------------------------------------------------------
(* Confirmations: of what was there before the credential they are made with  *)

(* What a new credential is younger than.                                    *)
Ready == Ids("proposal") \cup {<<Body(q).case, Attempt(q)>> : q \in Proposing}
(* The proposal of an attempt that has not come as far as its key.           *)
NotYet(i) == \E q \in Requests, n \in Nat :
  /\ i[2] = <<q, n>>
  /\ n > sessions[q].sent \/ (n = sessions[q].sent /\ Open(q) /\ q \notin Proposing)

(* What a confirmation was let on for.                                       *)
Earns(r) == Intent(r) \in ConfirmIntents =>
  /\ Len(Locks(r)) >= 1 => Proposed(r) # {}
  /\ Len(Locks(r)) >= 2 => /\ TheProposal(r).proposer # cmd[r].who
                           /\ TheProposal(r).id \in presented[r]
(* A credential that was issued after a proposal stays the older one's heir.  *)
Fresh(r) == Intent(r) \in ConfirmIntents => presented[r] \cap Ready \subseteq seen[cmd[r].who]
(* No credential is younger than what is still to come.                      *)
Past == /\ \A r \in Requests : \A i \in presented[r] : ~NotYet(i)
        /\ \A p \in DOMAIN Can : \A i \in seen[p] : ~NotYet(i)
        /\ \A i \in Ids("proposal") : ~NotYet(i)
ConfirmPart == /\ seen = [p \in DOMAIN Can |-> seen[p]]
               /\ presented = [r \in Requests |-> presented[r]]
               /\ (\A r \in Requests : Earns(r) /\ Fresh(r)) /\ Past /\ ConfirmationsAreEarned

(* What a step of a request does to its transaction.                         *)
Moved(r) ==
  /\ SessionsOK' /\ Others(r)
  /\ \/ /\ Held(r)' = {}
        /\ \/ ~Open(r)' /\ sessions'[r].sent \in {sessions[r].sent, sessions[r].sent + 1}
           \/ sessions'[r].sent = sessions[r].sent + 1
     \/ /\ Open(r) /\ Open(r)' /\ sessions'[r].sent = sessions[r].sent
        /\ Held(r) \subseteq Held(r)'

LEMMA MovedIs ==
  ASSUME LedgerPart, UNCHANGED cmd, NEW r \in Requests,
         Arrives(r) \/ Ends(r) \/ (\E lock : Locks1(r, lock)) \/ Writes(r) \/ Fail(r)
  PROVE  Moved(r)
<1>0. SessionsOK /\ sessions[r].sent \in Nat BY DEF LedgerPart, SessionsOK
<1>1. CASE Arrives(r) BY <1>0, <1>1, Arrived DEF Moved
<1>2. CASE Ends(r)
  <2>1. PICK n \in {sessions[r].sent, sessions[r].sent + 1} :
          sessions' = [sessions EXCEPT ![r] = Closed(n)]
    BY <1>2 DEF Ends
  <2>2. n \in Nat BY <1>0
  <2>3. /\ SessionsOK' /\ Others(r) /\ ~Open(r)' /\ Held(r)' = {} /\ sessions'[r].sent = n
    BY <1>0, <2>1, <2>2, Closes
  <2> QED BY <2>3 DEF Moved
<1>3. CASE \E lock : Locks1(r, lock)
  <2>1. PICK lock : Locks1(r, lock) BY <1>3
  <2>2. /\ SessionsOK' /\ Others(r) /\ Open(r)' /\ sessions'[r].sent = sessions[r].sent
        /\ Held(r)' = Held(r) \cup {lock}
    BY <1>0, <2>1, Locked
  <2> QED BY <2>1, <2>2 DEF Moved, Locks1
<1>4. CASE Writes(r)
  <2>1. /\ SessionsOK' /\ Others(r) /\ ~Open(r)' /\ Held(r)' = {}
        /\ sessions'[r].sent = sessions[r].sent
    BY <1>4, Written
  <2> QED BY <2>1 DEF Moved
<1>5. CASE Fail(r)
  <2>1. sessions' = [sessions EXCEPT ![r] = Closed(sessions[r].sent)] BY <1>5 DEF Fail
  <2>2. /\ SessionsOK' /\ Others(r) /\ ~Open(r)' /\ Held(r)' = {}
        /\ sessions'[r].sent = sessions[r].sent
    BY <1>0, <2>1, Closes
  <2> QED BY <2>2 DEF Moved
<1> QED BY <1>1, <1>2, <1>3, <1>4, <1>5

LEMMA OthersPropose ==
  ASSUME UNCHANGED cmd, NEW r \in Requests, Others(r), NEW q \in Requests \ {r}
  PROVE  /\ q \in Proposing' <=> q \in Proposing
         /\ Attempt(q)' = Attempt(q) /\ Body(q)' = Body(q)
         /\ sessions'[q].sent = sessions[q].sent /\ Open(q)' = Open(q)
<1>1. sessions'[q] = sessions[q] /\ Held(q)' = Held(q) /\ Open(q)' = Open(q) BY DEF Others
<1>2. KeyLock(q)' = KeyLock(q) /\ Body(q)' = Body(q) BY CmdStays
<1> QED BY <1>1, <1>2 DEF Proposing, Attempt

(* What is to come only gets less.                                           *)
LEMMA ToCome ==
  ASSUME LedgerPart, UNCHANGED cmd, NEW r \in Requests, Moved(r), NEW i, NotYet(i)'
  PROVE  NotYet(i)
<1>1. PICK q \in Requests, n \in Nat :
        /\ i[2] = <<q, n>>
        /\ n > sessions'[q].sent \/ (n = sessions'[q].sent /\ Open(q)' /\ q \notin Proposing')
  BY DEF NotYet
<1>2. CASE q # r BY <1>1, <1>2, OthersPropose DEF NotYet, Moved
<1>3. CASE q = r
  <2>1. sessions[r].sent \in Nat BY DEF LedgerPart, SessionsOK
  <2>2. CASE n > sessions[r].sent BY <1>1, <1>3, <2>2 DEF NotYet
  <2>3. CASE ~(n > sessions[r].sent)
    <3>1. /\ n = sessions'[r].sent /\ n = sessions[r].sent /\ Open(r)' /\ r \notin Proposing'
          /\ Open(r) /\ Held(r) \subseteq Held(r)'
      BY <1>1, <1>3, <2>1, <2>3 DEF Moved
    <3>2. r \notin Proposing BY <3>1, CmdStays DEF Proposing
    <3> QED BY <1>1, <1>3, <3>1, <3>2 DEF NotYet
  <2> QED BY <2>2, <2>3
<1> QED BY <1>2, <1>3

(* What proposals a step adds.                                               *)
LEMMA ProposalsGrow ==
  ASSUME LedgerPart, UNCHANGED cmd, NEW r \in Requests, UNCHANGED db \/ Writes(r)
  PROVE  /\ db["proposal"] \subseteq db'["proposal"]
         /\ \A x \in db'["proposal"] \ db["proposal"] :
              /\ x = ProposalRow(r) /\ x.id = <<Body(r).case, Attempt(r)>> /\ x.by[1] = r
              /\ r \in Proposing /\ Writes(r)
         /\ Intent(r) \in ConfirmIntents => db'["proposal"] = db["proposal"]
<1>1. CASE UNCHANGED db BY <1>1
<1>2. CASE Writes(r)
  <2>1. db'["proposal"] = db["proposal"] \cup New(r)["proposal"] /\ Intent(r) \in Intents
    BY <1>2, Written, TablesAssumption
  <2>2. CASE Intent(r) \notin ProposeIntents
    <3>1. New(r)["proposal"] = {} BY <2>1, <2>2, WhoWrites
    <3> QED BY <2>1, <3>1
  <2>3. CASE Intent(r) \in ProposeIntents
    <3>1. New(r)["proposal"] = {ProposalRow(r)} BY <2>1, <2>3, WhoWrites
    <3>2. /\ ProposalRow(r).id = <<Body(r).case, Attempt(r)>> /\ ProposalRow(r).by[1] = r
      BY DEF ProposalRow, Attempt
    <3>3. KeyLock(r) \in Held(r) BY <1>2, EndsKeyed DEF Writes
    <3>4. r \in Proposing BY <2>3, <3>3 DEF Proposing, Intent
    <3>5. Intent(r) \notin ConfirmIntents BY <2>3 DEF ProposeIntents, ConfirmIntents
    <3> QED BY <1>2, <2>1, <3>1, <3>2, <3>4, <3>5
  <2> QED BY <2>2, <2>3
<1> QED BY <1>1, <1>2

LEMMA ReadyGrows ==
  ASSUME LedgerPart, UNCHANGED cmd, NEW r \in Requests, Moved(r), UNCHANGED db \/ Writes(r),
         NEW i \in Ready'
  PROVE  i \in Ready \/ NotYet(i)
<1>1. CASE i \in Ids("proposal")'
  <2>1. PICK x \in db'["proposal"] : i = x.id BY <1>1 DEF Ids
  <2>2. CASE x \in db["proposal"] BY <2>1, <2>2 DEF Ready, Ids
  <2>3. CASE x \notin db["proposal"]
    <3>1. i = <<Body(r).case, Attempt(r)>> /\ r \in Proposing BY <2>1, <2>3, ProposalsGrow
    <3> QED BY <3>1 DEF Ready
  <2> QED BY <2>2, <2>3
<1>2. CASE i \notin Ids("proposal")'
  <2>1. PICK q \in Proposing' : i = <<Body(q)'.case, Attempt(q)'>> BY <1>2 DEF Ready
  <2>2. q \in Requests BY DEF Proposing
  <2>3. CASE q # r
    <3>1. i = <<Body(q).case, Attempt(q)>> /\ q \in Proposing
      BY <2>1, <2>2, <2>3, OthersPropose DEF Moved
    <3> QED BY <3>1 DEF Ready
  <2>4. CASE q = r
    <3>1. /\ Open(r) /\ Open(r)' /\ sessions'[r].sent = sessions[r].sent
          /\ Held(r) \subseteq Held(r)'
      BY <2>1, <2>4 DEF Proposing, Moved
    <3>2. i = <<Body(r).case, Attempt(r)>> /\ i[2] = <<r, sessions[r].sent>>
      BY <2>1, <2>4, <3>1, CmdStays DEF Attempt
    <3>3. sessions[r].sent \in Nat BY DEF LedgerPart, SessionsOK
    <3> QED BY <3>1, <3>2, <3>3 DEF Ready, NotYet
  <2> QED BY <2>3, <2>4
<1> QED BY <1>1, <1>2

(* The proposal a confirmation names stays what it is.                        *)
LEMMA NamedStays ==
  ASSUME LedgerPart, UNCHANGED cmd, NEW r \in Requests, UNCHANGED db \/ Writes(r),
         NEW q \in Requests, Proposed(q) # {}
  PROVE  Proposed(q)' = Proposed(q) /\ TheProposal(q)' = TheProposal(q)
<1>1. Body(q)' = Body(q) BY CmdStays
<1>2. ASSUME NEW x \in db'["proposal"], x \notin db["proposal"] PROVE x.by[1] # Body(q).of
  <2>1. x.by[1] = r /\ Writes(r) BY <1>2, ProposalsGrow
  <2>2. Recorded(r) = {} BY <2>1 DEF Writes
  <2>3. PICK y \in db["proposal"] : y.by[1] = Body(q).of BY DEF Proposed
  <2>4. y.by[1] \in Requests => Recorded(y.by[1]) # {} BY TablesAssumption DEF LedgerPart, Kept
  <2> QED BY <2>1, <2>2, <2>3, <2>4
<1>3. db["proposal"] \subseteq db'["proposal"] BY ProposalsGrow
<1>4. Proposed(q)' = Proposed(q) BY <1>1, <1>2, <1>3 DEF Proposed
<1>5. PICK P : P = Proposed(q) OBVIOUS
<1>6. TheProposal(q) = CHOOSE x \in P : TRUE BY <1>5 DEF TheProposal
<1>7. TheProposal(q)' = CHOOSE x \in P : TRUE BY <1>4, <1>5 DEF TheProposal
<1> QED BY <1>4, <1>6, <1>7

LEMMA TheProposalIs ==
  ASSUME NEW r \in Requests, Proposed(r) # {}
  PROVE  TheProposal(r) \in db["proposal"] /\ TheProposal(r).id \in Ids("proposal")
<1>1. TheProposal(r) \in Proposed(r) BY DEF TheProposal
<1> QED BY <1>1 DEF Proposed, Ids

-----------------------------------------------------------------------------
(* A request presents the newest credential of its principal as it arrives.   *)
Shows(r) == \/ presented' = presented
            \/ /\ Locks(r)' = <<>> /\ Intent(r) \in ConfirmIntents
               /\ presented' = [presented EXCEPT ![r] = seen[cmd[r].who]]

LEMMA ShownIs ==
  ASSUME ConfirmPart, NEW r \in Requests, Shows(r)
  PROVE  /\ presented' = [q \in Requests |-> presented'[q]]
         /\ \A q \in Requests \ {r} : presented'[q] = presented[q]
         /\ \/ presented'[r] = presented[r]
            \/ /\ Locks(r)' = <<>> /\ Intent(r) \in ConfirmIntents
               /\ presented'[r] = seen[cmd[r].who]
<1>1. DOMAIN presented = Requests /\ presented = [q \in Requests |-> presented[q]]
  BY DEF ConfirmPart
<1>2. CASE presented' = presented BY <1>1, <1>2
<1>3. CASE /\ Locks(r)' = <<>> /\ Intent(r) \in ConfirmIntents
           /\ presented' = [presented EXCEPT ![r] = seen[cmd[r].who]]
  <2>1. PICK s : s = seen[cmd[r].who] OBVIOUS
  <2>2. presented' = [presented EXCEPT ![r] = s] BY <1>3, <2>1
  <2>3. presented'[r] = s /\ \A q \in Requests \ {r} : presented'[q] = presented[q]
    BY <1>1, <2>2
  <2>4. presented' = [q \in Requests |-> presented'[q]] BY <1>1, <2>2
  <2> QED BY <1>3, <2>1, <2>3, <2>4
<1> QED BY <1>2, <1>3 DEF Shows

LEMMA PastStays ==
  ASSUME LedgerPart, ConfirmPart, UNCHANGED <<cmd, seen>>, NEW r \in Requests, Moved(r),
         UNCHANGED db \/ Writes(r), Shows(r)
  PROVE  Past'
<1>0. cmd[r].who \in DOMAIN Can BY DEF LedgerPart, Known
<1>1. ASSUME NEW q \in Requests, NEW i \in presented'[q] PROVE ~NotYet(i)'
  <2>1. CASE presented'[q] = presented[q] BY <1>1, <2>1, ToCome DEF ConfirmPart, Past
  <2>2. CASE q = r /\ presented'[r] = seen[cmd[r].who]
    BY <1>0, <1>1, <2>2, ToCome DEF ConfirmPart, Past
  <2> QED BY <2>1, <2>2, ShownIs
<1>2. ASSUME NEW p \in DOMAIN Can, NEW i \in seen'[p] PROVE ~NotYet(i)'
  BY <1>2, ToCome DEF ConfirmPart, Past
<1>3. ASSUME NEW i \in Ids("proposal")' PROVE ~NotYet(i)'
  <2>1. PICK x \in db'["proposal"] : i = x.id BY DEF Ids
  <2>2. CASE x \in db["proposal"]
    <3>1. i \in Ids("proposal") BY <2>1, <2>2 DEF Ids
    <3> QED BY <3>1, ToCome DEF ConfirmPart, Past
  <2>3. CASE x \notin db["proposal"]
    <3>1. i = <<Body(r).case, Attempt(r)>> /\ Writes(r) BY <2>1, <2>3, ProposalsGrow
    <3>2. i[2] = <<r, sessions[r].sent>> BY <3>1 DEF Attempt
    <3>3. ~Open(r)' /\ sessions'[r].sent = sessions[r].sent BY <3>1, Written
    <3>4. sessions[r].sent \in Nat BY DEF LedgerPart, SessionsOK
    <3> SUFFICES ASSUME NEW q \in Requests, NEW n \in Nat, i[2] = <<q, n>>,
                        n > sessions'[q].sent \/ (n = sessions'[q].sent /\ Open(q)')
                 PROVE  FALSE
      BY DEF NotYet
    <3>5. q = r /\ n = sessions[r].sent BY <3>2
    <3> QED BY <3>3, <3>4, <3>5
  <2> QED BY <2>2, <2>3
<1> QED BY <1>1, <1>2, <1>3 DEF Past

LEMMA FreshStays ==
  ASSUME LedgerPart, ConfirmPart, UNCHANGED <<cmd, seen>>, NEW r \in Requests, Moved(r),
         UNCHANGED db \/ Writes(r), Shows(r), NEW q \in Requests
  PROVE  Fresh(q)'
<1>0. Intent(q)' = Intent(q) BY CmdStays
<1> SUFFICES ASSUME Intent(q) \in ConfirmIntents, NEW i \in presented'[q], i \in Ready'
             PROVE  i \in seen[cmd[q].who]
  BY <1>0 DEF Fresh
<1>1. CASE presented'[q] = presented[q]
  <2>1. ~NotYet(i) BY <1>1 DEF ConfirmPart, Past
  <2>2. i \in Ready BY <2>1, ReadyGrows
  <2> QED BY <1>1, <2>2 DEF ConfirmPart, Fresh
<1>2. CASE q = r /\ presented'[r] = seen[cmd[r].who] BY <1>2
<1> QED BY <1>1, <1>2, ShownIs

LEMMA OthersEarn ==
  ASSUME LedgerPart, ConfirmPart, UNCHANGED cmd, NEW r \in Requests, Moved(r),
         UNCHANGED db \/ Writes(r), Shows(r), NEW q \in Requests \ {r}
  PROVE  Earns(q)'
<1>1. Intent(q)' = Intent(q) /\ Locks(q)' = Locks(q) BY CmdStays DEF Moved, Others
<1>2. presented'[q] = presented[q] BY ShownIs
<1>3. Earns(q) BY DEF ConfirmPart
<1>4. CASE Proposed(q) # {}
  <2>1. Proposed(q)' = Proposed(q) /\ TheProposal(q)' = TheProposal(q) BY <1>4, NamedStays
  <2> QED BY <1>1, <1>2, <1>3, <1>4, <2>1 DEF Earns
<1>5. CASE Proposed(q) = {}
  <2>1. Len(Locks(q)) \in Nat BY HeldOf DEF LedgerPart, SessionsOK, Locks
  <2>2. Intent(q) \in ConfirmIntents => ~(Len(Locks(q)) >= 1) /\ ~(Len(Locks(q)) >= 2)
    BY <1>3, <1>5, <2>1 DEF Earns
  <2> QED BY <1>1, <2>2 DEF Earns
<1> QED BY <1>4, <1>5

LEMMA NothingEarned == ASSUME NEW r, Locks(r)' = <<>> PROVE Earns(r)'
<1>1. Len(Locks(r)') = 0 BY DEF Locks
<1> QED BY <1>1 DEF Earns

(* A lock is taken on what earns it.                                         *)
LEMMA LocksEarn ==
  ASSUME LedgerPart, ConfirmPart, UNCHANGED <<cmd, presented>>, NEW r \in Requests,
         NEW lock, Locks1(r, lock)
  PROVE  Earns(r)'
<1>1. CASE Intent(r) \notin ConfirmIntents BY <1>1, CmdStays DEF Earns
<1>2. CASE Intent(r) \in ConfirmIntents
  <2>1. Intent(r)' = Intent(r) /\ Body(r)' = Body(r) /\ cmd'[r] = cmd[r] BY CmdStays
  <2>2. Proposed(r)' = Proposed(r) BY <2>1 DEF Proposed, Locks1
  <2>3. PICK P : P = Proposed(r) OBVIOUS
  <2>4. TheProposal(r) = CHOOSE x \in P : TRUE BY <2>3 DEF TheProposal
  <2>5. TheProposal(r)' = CHOOSE x \in P : TRUE BY <2>2, <2>3 DEF TheProposal
  <2>6. TheProposal(r)' = TheProposal(r) BY <2>4, <2>5
  <2>7. /\ Len(Locks(r)) \in Nat /\ Len(Locks(r)') = Len(Locks(r)) + 1
    BY Locked DEF LedgerPart
  <2>8. PICK m \in Nat, n \in Nat : m = Len(Locks(r)) /\ n = Len(Locks(r)') /\ n = m + 1
    BY <2>7
  <2>9. Plan(r) = ConfirmPlan(r) /\ Refusal(r, lock) = ConfirmRefusal(r, lock)
    BY <1>2, KindsApart
  <2>10. ConfirmRefusal(r, lock) = None /\ lock = ConfirmPlan(r)[m + 1]
    BY <1>2, <2>8, <2>9 DEF Locks1
  <2>11. Deny("RESOURCE_NOT_FOUND") # None /\ Deny("VALIDATION_FAILED") # None
    BY RequestsAssumption
  <2>12. Proposed(r) # {} BY <2>10, <2>11 DEF ConfirmRefusal
  <2>13. m >= 2 => TheProposal(r).proposer # cmd[r].who /\ TheProposal(r).id \in presented[r]
    BY <1>2, <2>8 DEF ConfirmPart, Earns
  <2>14. m = 1 => TheProposal(r).proposer # cmd[r].who /\ TheProposal(r).id \in presented[r]
    <3>1. m = 1 => lock = CaseLock(Body(r).case) BY <2>10 DEF ConfirmPlan
    <3> QED BY <2>10, <2>11, <3>1 DEF ConfirmRefusal, FreshCredential
  <2>15. n >= 2 => m >= 2 \/ m = 1
    <3>1. n = m + 1 BY <2>8
    <3> QED BY <3>1
  <2>16. n >= 2 => TheProposal(r).proposer # cmd[r].who /\ TheProposal(r).id \in presented[r]
    BY <2>13, <2>14, <2>15
  <2> QED BY <2>1, <2>2, <2>6, <2>8, <2>12, <2>16 DEF Earns
<1> QED BY <1>1, <1>2

(* What is written is earned.                                                *)
LEMMA EarnedStays ==
  ASSUME LedgerPart, ConfirmPart, UNCHANGED <<cmd, seen>>, NEW r \in Requests,
         UNCHANGED db \/ Writes(r)
  PROVE  ConfirmationsAreEarned'
<1>1. CASE UNCHANGED db BY <1>1 DEF ConfirmPart, ConfirmationsAreEarned
<1>2. CASE Writes(r)
  <2>1. /\ db'["confirmation"] = db["confirmation"] \cup New(r)["confirmation"]
        /\ Intent(r) \in Intents
    BY <1>2, Written, TablesAssumption
  <2>2. db["proposal"] \subseteq db'["proposal"] BY <1>2, ProposalsGrow
  <2>3. CASE Intent(r) \notin ConfirmIntents
    <3>1. db'["confirmation"] = db["confirmation"] BY <2>1, <2>3, WhoWrites
    <3> QED BY <2>2, <3>1 DEF ConfirmPart, ConfirmationsAreEarned
  <2>4. CASE Intent(r) \in ConfirmIntents
    <3>1. New(r)["confirmation"] = {ConfirmationRow(r)} BY <2>1, <2>4, WhoWrites
    <3>2. PICK new : new = ConfirmationRow(r) OBVIOUS
    <3>3. new.id = TheProposal(r).id /\ new.confirmer = cmd[r].who
      BY <3>2 DEF ConfirmationRow
    <3>4. Plan(r) = ConfirmPlan(r) BY <2>4, KindsApart
    <3>5. Len(Locks(r)) = 4 BY <1>2, <3>4 DEF Writes, ConfirmPlan
    <3>6. /\ Proposed(r) # {} /\ TheProposal(r).proposer # cmd[r].who
          /\ TheProposal(r).id \in presented[r]
      BY <2>4, <3>5 DEF ConfirmPart, Earns
    <3>7. TheProposal(r) \in db["proposal"] /\ TheProposal(r).id \in Ready
      BY <3>6, TheProposalIs DEF Ready
    <3>8. new.id \in seen[new.confirmer]
      BY <2>4, <3>3, <3>6, <3>7 DEF ConfirmPart, Fresh
    <3>9. \E x \in db["proposal"] : x.id = new.id /\ x.proposer # new.confirmer
      BY <3>3, <3>6, <3>7
    <3>10. \A old \in db["confirmation"] : old.id # new.id
      BY <1>2, <3>1, <3>2, TablesAssumption DEF Writes, Clash
    <3>11. db'["confirmation"] = db["confirmation"] \cup {new} BY <2>1, <3>1, <3>2
    <3> SUFFICES ASSUME NEW c \in db'["confirmation"]
                 PROVE  /\ c.id \in seen[c.confirmer]
                        /\ \E x \in db'["proposal"] : x.id = c.id /\ x.proposer # c.confirmer
                        /\ \A d \in db'["confirmation"] : d.id = c.id => d = c
      BY DEF ConfirmationsAreEarned
    <3>12. CASE c = new BY <2>2, <3>8, <3>9, <3>10, <3>11, <3>12
    <3>13. CASE c \in db["confirmation"]
      BY <2>2, <3>10, <3>11, <3>13 DEF ConfirmPart, ConfirmationsAreEarned
    <3> QED BY <3>11, <3>12, <3>13
  <2> QED BY <2>3, <2>4
<1> QED BY <1>1, <1>2

LEMMA ConfirmMoves ==
  ASSUME LedgerPart, ConfirmPart, UNCHANGED <<cmd, seen>>, NEW r \in Requests, Moved(r),
         UNCHANGED db \/ Writes(r), Shows(r), Earns(r)'
  PROVE  ConfirmPart'
<1>1. presented' = [q \in Requests |-> presented'[q]] BY ShownIs
<1>2. seen' = [p \in DOMAIN Can |-> seen'[p]] BY DEF ConfirmPart
<1>3. \A q \in Requests : Earns(q)' BY OthersEarn
<1>4. \A q \in Requests : Fresh(q)' BY FreshStays
<1>5. Past' BY PastStays
<1>6. ConfirmationsAreEarned' BY EarnedStays
<1> QED BY <1>1, <1>2, <1>3, <1>4, <1>5, <1>6 DEF ConfirmPart

LEMMA ConfirmSteps ==
  ASSUME LedgerPart, ConfirmPart, UNCHANGED <<cmd, seen>>, NEW r \in Requests, Present(r),
         Arrives(r) \/ Ends(r) \/ (\E lock : Locks1(r, lock)) \/ Writes(r)
  PROVE  ConfirmPart'
<1>1. Moved(r) BY MovedIs
<1>2. CASE Arrives(r) \/ Ends(r)
  <2>1. UNCHANGED db BY <1>2 DEF Arrives, Ends
  <2>2. Locks(r)' = <<>>
    <3>1. CASE Arrives(r) BY <3>1, Arrived DEF LedgerPart
    <3>2. CASE Ends(r)
      <4>1. sessions[r].sent \in Nat BY DEF LedgerPart, SessionsOK
      <4>2. PICK n \in {sessions[r].sent, sessions[r].sent + 1} :
              sessions' = [sessions EXCEPT ![r] = Closed(n)]
        BY <3>2 DEF Ends
      <4>3. n \in Nat BY <4>1
      <4> QED BY <4>2, <4>3, Closes DEF LedgerPart
    <3> QED BY <1>2, <3>1, <3>2
  <2>3. Shows(r) BY <2>2 DEF Present, Shows
  <2>4. Earns(r)' BY <2>2, NothingEarned
  <2> QED BY <1>1, <2>1, <2>3, <2>4, ConfirmMoves
<1>3. CASE \E lock : Locks1(r, lock)
  <2>1. PICK lock : Locks1(r, lock) BY <1>3
  <2>2. UNCHANGED <<db, presented>> BY <2>1 DEF Locks1, Open, Present
  <2>3. Earns(r)' BY <2>1, <2>2, LocksEarn
  <2> QED BY <1>1, <2>2, <2>3, ConfirmMoves DEF Shows
<1>4. CASE Writes(r)
  <2>1. presented' = presented BY <1>4 DEF Writes, Open, Present
  <2>2. Earns(r)' BY <1>4, Written, NothingEarned
  <2> QED BY <1>1, <1>4, <2>1, <2>2, ConfirmMoves DEF Shows
<1> QED BY <1>2, <1>3, <1>4

LEMMA ConfirmBreaks ==
  ASSUME LedgerPart, ConfirmPart, NEW r \in Requests, Broken(r)
  PROVE  ConfirmPart'
<1>1. UNCHANGED <<cmd, db, seen, presented>> /\ Fail(r) BY DEF Broken, Fail
<1>2. Moved(r) BY <1>1, MovedIs
<1>3. sessions' = [sessions EXCEPT ![r] = Closed(sessions[r].sent)] /\ sessions[r].sent \in Nat
  BY <1>1 DEF Fail, LedgerPart, SessionsOK
<1>4. Earns(r)' BY <1>3, Closes, NothingEarned DEF LedgerPart
<1> QED BY <1>1, <1>2, <1>4, ConfirmMoves DEF Shows

(* A new credential is younger than all that is there.                       *)
LEMMA ConfirmRenews ==
  ASSUME LedgerPart, ConfirmPart, NEW p \in DOMAIN Can, Reauthenticate(p)
  PROVE  ConfirmPart'
<1>1. UNCHANGED <<cmd, db, ledger, sessions, answers, presented>>
  BY DEF Reauthenticate, vars
<1>2. seen' = [seen EXCEPT ![p] = Ready] BY DEF Reauthenticate, Ready
<1>3. seen = [q \in DOMAIN Can |-> seen[q]] /\ DOMAIN seen = DOMAIN Can BY DEF ConfirmPart
<1>4. seen'[p] = Ready /\ \A q \in DOMAIN Can \ {p} : seen'[q] = seen[q] BY <1>2, <1>3
<1>5. seen' = [q \in DOMAIN Can |-> seen'[q]] BY <1>2, <1>3
<1>6. Ready' = Ready BY <1>1 DEF Ready, Ids, Body, Attempt, Proposing, KeyLock, Namespace, Held
<1>7. \A i : NotYet(i)' = NotYet(i)
  BY <1>1 DEF NotYet, Open, Proposing, KeyLock, Namespace, Held
<1>8. \A q \in Requests : Earns(q)'
  BY <1>1 DEF ConfirmPart, Earns, Intent, Locks, Proposed, TheProposal, Body
<1>9. ASSUME NEW q \in Requests PROVE Fresh(q)'
  <2>1. Intent(q)' = Intent(q) /\ cmd'[q].who = cmd[q].who /\ presented'[q] = presented[q]
    BY <1>1 DEF Intent
  <2>2. cmd[q].who \in DOMAIN Can BY DEF LedgerPart, Known
  <2>3. Fresh(q) BY DEF ConfirmPart
  <2>4. CASE cmd[q].who = p BY <1>4, <1>6, <2>1, <2>4 DEF Fresh
  <2>5. CASE cmd[q].who # p BY <1>4, <1>6, <2>1, <2>2, <2>3, <2>5 DEF Fresh
  <2> QED BY <2>4, <2>5
<1>10. \A i \in Ready : ~NotYet(i)
  <2> SUFFICES ASSUME NEW i \in Ready PROVE ~NotYet(i)
    OBVIOUS
  <2>1. CASE i \in Ids("proposal") BY <2>1 DEF ConfirmPart, Past
  <2>2. CASE i \notin Ids("proposal")
    <3>1. PICK q \in Proposing : i = <<Body(q).case, Attempt(q)>> BY <2>2 DEF Ready
    <3>2. i[2] = <<q, sessions[q].sent>> BY <3>1 DEF Attempt
    <3>3. sessions[q].sent \in Nat BY DEF Proposing, LedgerPart, SessionsOK
    <3> SUFFICES ASSUME NEW a \in Requests, NEW n \in Nat, i[2] = <<a, n>>,
                        n > sessions[a].sent \/ (n = sessions[a].sent /\ a \notin Proposing)
                 PROVE  FALSE
      BY DEF NotYet
    <3>4. a = q /\ n = sessions[q].sent BY <3>2
    <3> QED BY <3>1, <3>3, <3>4
  <2> QED BY <2>1, <2>2
<1>11. Past'
  <2>1. \A r \in Requests : \A i \in presented'[r] : ~NotYet(i) BY <1>1 DEF ConfirmPart, Past
  <2>2. ASSUME NEW q \in DOMAIN Can, NEW i \in seen'[q] PROVE ~NotYet(i)
    <3>1. CASE q = p BY <1>4, <1>10, <2>2, <3>1
    <3>2. CASE q # p BY <1>4, <2>2, <3>2 DEF ConfirmPart, Past
    <3> QED BY <3>1, <3>2
  <2>3. \A i \in Ids("proposal")' : ~NotYet(i) BY <1>1 DEF ConfirmPart, Past, Ids
  <2> QED BY <1>7, <2>1, <2>2, <2>3 DEF Past
<1>12. ConfirmationsAreEarned'
  <2> SUFFICES ASSUME NEW c \in db["confirmation"]
               PROVE  /\ c.id \in seen'[c.confirmer]
                      /\ \E x \in db["proposal"] : x.id = c.id /\ x.proposer # c.confirmer
                      /\ \A d \in db["confirmation"] : d.id = c.id => d = c
    BY <1>1 DEF ConfirmationsAreEarned
  <2>1. /\ c.id \in seen[c.confirmer]
        /\ \E x \in db["proposal"] : x.id = c.id /\ x.proposer # c.confirmer
        /\ \A d \in db["confirmation"] : d.id = c.id => d = c
    BY DEF ConfirmPart, ConfirmationsAreEarned
  <2>2. c.id \in Ready BY <2>1 DEF Ready, Ids
  <2>3. c.id \in seen'[c.confirmer]
    <3>1. CASE c.confirmer = p BY <1>4, <2>2, <3>1
    <3>2. CASE c.confirmer # p BY <1>2, <2>1, <3>2
    <3> QED BY <3>1, <3>2
  <2> QED BY <2>1, <2>3
<1> QED BY <1>1, <1>5, <1>8, <1>9, <1>11, <1>12 DEF ConfirmPart

-----------------------------------------------------------------------------
(* The invariant, and what it gives                                          *)

ApiInv == LedgerPart /\ SignalPart /\ ConfirmPart

LEMMA ApiInit == ASSUME PublicInit PROVE ApiInv
<1>1. PICK t \in Teams : /\ cmd = t.cmd
                         /\ db = [k \in Tables |-> IF k \in DOMAIN t.seed THEN t.seed[k] ELSE {}]
  BY DEF PublicInit, Init
<1>2. /\ ledger = {} /\ answers = {} /\ sessions = [r \in Requests |-> Closed(0)]
      /\ seen = [p \in DOMAIN Can |-> {}] /\ presented = [r \in Requests |-> {}]
  BY DEF PublicInit, Init
<1>3. db = SeedOf(t) BY <1>1 DEF SeedOf
<1>4. ASSUME NEW r \in Requests
      PROVE  /\ sessions[r] = [at |-> "closed", sent |-> 0, locks |-> <<>>]
             /\ Locks(r) = <<>> /\ Held(r) = {} /\ ~Open(r) /\ sessions[r].sent = 0
  <2>1. sessions[r] = [at |-> "closed", sent |-> 0, locks |-> <<>>] BY <1>2 DEF Closed
  <2>2. sessions[r].at = "closed" /\ sessions[r].sent = 0 /\ sessions[r].locks = <<>> BY <2>1
  <2> QED BY <2>1, <2>2 DEF Locks, Held, Open
<1>5. Known BY <1>1, RequestsAssumption DEF Known, Intent
<1>6. SessionsOK
  <2>1. \A r \in Requests : sessions[r] = [at |-> sessions[r].at, sent |-> sessions[r].sent,
                                           locks |-> sessions[r].locks]
    BY <1>4
  <2>2. sessions = [r \in Requests |-> sessions[r]] BY <1>2
  <2>3. sessions = [r \in Requests |-> [at |-> sessions[r].at, sent |-> sessions[r].sent,
                                        locks |-> sessions[r].locks]]
    BY <2>1, <2>2
  <2>4. ASSUME NEW r \in Requests
        PROVE  /\ sessions[r].at \in {"open", "closed"} /\ sessions[r].sent \in Nat
               /\ Locks(r) \in Seq(Held(r)) /\ Locks(r) = <<>>
    <3>1. <<>> \in Seq({}) OBVIOUS
    <3>2. sessions[r].at = "closed" /\ sessions[r].sent = 0 BY <1>4
    <3>3. Locks(r) = <<>> /\ Held(r) = {} BY <1>4
    <3>4. Locks(r) \in Seq(Held(r)) BY <3>1, <3>3
    <3> QED BY <3>2, <3>3, <3>4
  <2> QED BY <2>3, <2>4 DEF SessionsOK
<1>7. Exclusive BY <1>4 DEF Exclusive
<1>8. ASSUME NEW r \in Requests PROVE Keyed(r) /\ Watches(r) /\ Earns(r)
  <2>1. Len(Locks(r)) = 0 BY <1>4
  <2>2. KeyAt(r) \in {1, 2, 3} BY <1>5, PlanHasKey DEF Known
  <2>3. Keyed(r) BY <2>1, <2>2 DEF Keyed
  <2> QED BY <2>1, <2>3 DEF Watches, Earns
<1>9. Unique /\ Shown /\ Told /\ Sane BY <1>2 DEF Unique, Shown, Told, Sane
<1>10. \A k \in Tables : \A x \in db[k] : x.by[1] \notin Requests BY <1>3, SeedsAssumption
<1>11. Kept BY <1>10 DEF Kept
<1>12. SignalsFit(db) /\ db["confirmation"] = {} /\ \A x \in db["proposal"] : x.id[2] = x.by
  BY <1>3, SeedsAssumption
<1>13. Past
  <2>1. ASSUME NEW i \in Ids("proposal") PROVE ~NotYet(i)
    <3>1. PICK x \in db["proposal"] : i = x.id BY DEF Ids
    <3>2. i[2] = x.by /\ x.by[1] \notin Requests BY <1>10, <1>12, <3>1, TablesAssumption
    <3> SUFFICES ASSUME NEW q \in Requests, NEW n \in Nat, i[2] = <<q, n>> PROVE FALSE
      BY DEF NotYet
    <3> QED BY <3>2
  <2> QED BY <1>2, <2>1 DEF Past
<1>14. ConfirmationsAreEarned BY <1>12 DEF ConfirmationsAreEarned
<1>15. ASSUME NEW r \in Requests PROVE Fresh(r) BY <1>2 DEF Fresh
<1>16. ConfirmPart
  <2>1. seen = [p \in DOMAIN Can |-> seen[p]] /\ presented = [r \in Requests |-> presented[r]]
    BY <1>2
  <2> QED BY <2>1, <1>8, <1>13, <1>14, <1>15 DEF ConfirmPart
<1> QED BY <1>5, <1>6, <1>7, <1>8, <1>9, <1>11, <1>12, <1>16
        DEF ApiInv, LedgerPart, SignalPart

LEMMA ApiStep == ASSUME ApiInv, NEW r \in Requests, Step(r) PROVE ApiInv'
<1>1. LedgerPart /\ SignalPart /\ ConfirmPart BY DEF ApiInv
<1>2. /\ UNCHANGED <<cmd, seen>> /\ Present(r)
      /\ Arrives(r) \/ Ends(r) \/ (\E lock : Locks1(r, lock)) \/ Writes(r)
  BY <1>1, StepIs DEF Step
<1>3. LedgerPart' /\ SignalPart'
  <2>1. CASE Arrives(r) BY <1>1, <1>2, <2>1, LedgerArrives, SignalEnds
  <2>2. CASE Ends(r) BY <1>1, <1>2, <2>2, LedgerEnds, SignalEnds
  <2>3. CASE \E lock : Locks1(r, lock)
    <3>1. PICK lock : Locks1(r, lock) BY <2>3
    <3> QED BY <1>1, <1>2, <3>1, LedgerLocks, SignalLocks
  <2>4. CASE Writes(r) BY <1>1, <1>2, <2>4, LedgerWrites, SignalWrites
  <2> QED BY <1>2, <2>1, <2>2, <2>3, <2>4
<1>4. ConfirmPart' BY <1>1, <1>2, ConfirmSteps
<1> QED BY <1>3, <1>4 DEF ApiInv

LEMMA ApiBreaks == ASSUME ApiInv, NEW r \in Requests, Broken(r) PROVE ApiInv'
<1>1. LedgerPart /\ SignalPart /\ ConfirmPart /\ Fail(r) /\ UNCHANGED cmd
  BY DEF ApiInv, Broken, Fail
<1>2. LedgerPart' BY <1>1, LedgerBreaks
<1>3. SignalPart' BY <1>1, SignalEnds
<1>4. ConfirmPart' BY <1>1, ConfirmBreaks
<1> QED BY <1>2, <1>3, <1>4 DEF ApiInv

LEMMA LedgerSame == ASSUME LedgerPart, UNCHANGED vars PROVE LedgerPart'
<1>1. UNCHANGED <<cmd, db, ledger, sessions, answers>> BY DEF vars
<1>2. /\ Known' /\ Unique' /\ Shown' /\ Kept' /\ \A q : Recorded(q)' = Recorded(q)
  BY <1>1, Quiet
<1>3. Told' BY <1>1, <1>2 DEF LedgerPart, Told
<1>4. SessionsOK' BY <1>1 DEF LedgerPart, SessionsOK, Locks, Open, Held
<1>5. Exclusive' BY <1>1 DEF LedgerPart, Exclusive, Held
<1>6. ASSUME NEW r \in Requests PROVE Keyed(r)'
  <2>1. Keyed(r) BY DEF LedgerPart
  <2> QED BY <1>1, <1>2, <2>1, CmdStays DEF Keyed, Locks
<1> QED BY <1>2, <1>3, <1>4, <1>5, <1>6 DEF LedgerPart

LEMMA SignalSame == ASSUME SignalPart, UNCHANGED vars PROVE SignalPart'
<1>1. UNCHANGED <<cmd, db, ledger, sessions, answers>> BY DEF vars
<1>2. SignalsFit(db)' BY <1>1 DEF SignalPart, SignalsFit
<1>3. Sane' BY <1>1 DEF SignalPart, Sane, Intent
<1>4. ASSUME NEW r \in Requests PROVE Watches(r)'
  <2>1. Watches(r) BY DEF SignalPart
  <2> QED BY <1>1, <2>1 DEF Watches, Locks, Intent, KeyLock, Namespace, Body, SourceLock,
                          EventLock, EventOf, Opens, Attempt, Earlier
<1> QED BY <1>2, <1>3, <1>4 DEF SignalPart

LEMMA ConfirmSame == ASSUME ConfirmPart, UNCHANGED allVars PROVE ConfirmPart'
<1>1. UNCHANGED <<cmd, db, ledger, sessions, answers, seen, presented>> BY DEF allVars, vars
<1>2. Ready' = Ready BY <1>1 DEF Ready, Ids, Body, Attempt, Proposing, KeyLock, Namespace, Held
<1>3. \A i : NotYet(i)' = NotYet(i)
  BY <1>1 DEF NotYet, Open, Proposing, KeyLock, Namespace, Held
<1>4. Past' BY <1>1, <1>3 DEF ConfirmPart, Past, Ids
<1>5. ASSUME NEW r \in Requests PROVE Earns(r)' /\ Fresh(r)'
  <2>1. Earns(r) /\ Fresh(r) BY DEF ConfirmPart
  <2>2. Earns(r)' BY <1>1, <2>1 DEF Earns, Intent, Locks, Proposed, TheProposal, Body
  <2>3. Fresh(r)' BY <1>1, <1>2, <2>1 DEF Fresh, Intent
  <2> QED BY <2>2, <2>3
<1>6. ConfirmationsAreEarned' BY <1>1 DEF ConfirmPart, ConfirmationsAreEarned
<1> QED BY <1>1, <1>4, <1>5, <1>6 DEF ConfirmPart

LEMMA ApiNext == ASSUME ApiInv, [Next]_allVars PROVE ApiInv'
<1>1. ASSUME NEW r \in Requests, Step(r) PROVE ApiInv' BY <1>1, ApiStep
<1>2. ASSUME NEW r \in Requests, Broken(r) PROVE ApiInv' BY <1>2, ApiBreaks
<1>3. ASSUME NEW r \in Requests, Reauthenticate(cmd[r].who) PROVE ApiInv'
  <2>1. UNCHANGED vars BY <1>3 DEF Reauthenticate
  <2>2. cmd[r].who \in DOMAIN Can BY DEF ApiInv, LedgerPart, Known
  <2>3. LedgerPart' BY <2>1, LedgerSame DEF ApiInv
  <2>4. SignalPart' BY <2>1, SignalSame DEF ApiInv
  <2>5. ConfirmPart' BY <1>3, <2>2, ConfirmRenews DEF ApiInv
  <2> QED BY <2>3, <2>4, <2>5 DEF ApiInv
<1>4. CASE UNCHANGED allVars
  <2>1. UNCHANGED vars BY <1>4 DEF allVars
  <2> QED BY <1>4, <2>1, LedgerSame, SignalSame, ConfirmSame DEF ApiInv
<1> QED BY <1>1, <1>2, <1>3, <1>4 DEF Next

LEMMA ApiInductive == Spec => []ApiInv
<1>1. PublicInit => ApiInv BY ApiInit
<1>2. ApiInv /\ [Next]_allVars => ApiInv' BY ApiNext
<1> QED BY <1>1, <1>2, PTL DEF Spec

LEMMA SameKeyIs ==
  ASSUME NEW q, NEW r
  PROVE  SameKey(q, r) <=> Namespace(q) = Namespace(r)
BY DEF SameKey, Namespace

(* However often a request is sent, by how many processes at once and whatever *)
(* fails between, what its key stands for is done once, every answer that     *)
(* names a record names that one, and it is committed by then: for any        *)
(* requests of any principals, with the plans and the rows of every service.  *)
THEOREM OneEffectPerKey == Spec => []OncePerKey
<1>1. ASSUME ApiInv PROVE OncePerKey
  <2>1. LedgerPart BY <1>1 DEF ApiInv
  <2>2. ASSUME NEW t \in Tables, NEW x \in db[t], NEW y \in db[t],
               {x.by[1], y.by[1]} \subseteq Requests, SameKey(x.by[1], y.by[1])
        PROVE  x.by = y.by
    <3>1. Namespace(y.by[1]) = Namespace(x.by[1]) BY <2>2, SameKeyIs
    <3> QED BY <2>1, <2>2, <3>1 DEF LedgerPart, Kept
  <2>3. ASSUME NEW a \in answers, NEW b \in answers, a.resource # None, b.resource # None,
               SameKey(a.request, b.request)
        PROVE  a.resource = b.resource
    <3>1. PICK e \in Recorded(a.request) : e.resource = a.resource
      BY <2>1, <2>3 DEF LedgerPart, Told
    <3>2. PICK f \in Recorded(b.request) : f.resource = b.resource
      BY <2>1, <2>3 DEF LedgerPart, Told
    <3>3. Namespace(a.request) = Namespace(b.request) BY <2>3, SameKeyIs
    <3>4. e \in ledger /\ f \in ledger /\ f.namespace = e.namespace
      BY <3>1, <3>2, <3>3 DEF Recorded
    <3> QED BY <2>1, <3>1, <3>2, <3>4 DEF LedgerPart, Unique
  <2>4. ASSUME NEW a \in answers, a.resource # None
        PROVE  a.resource[2] \in Ids(a.resource[1])
    <3>1. PICK e \in Recorded(a.request) : e.resource = a.resource
      BY <2>1, <2>4 DEF LedgerPart, Told
    <3> QED BY <2>1, <3>1 DEF LedgerPart, Shown, Recorded
  <2> QED BY <2>2, <2>3, <2>4 DEF OncePerKey
<1> QED BY <1>1, ApiInductive, PTL

(* However two reports of one event of a source meet, under one key or two,   *)
(* no unique index has to stop the second, and who is told of the event is    *)
(* told of one case.                                                         *)
THEOREM OneCasePerEvent == Spec => []SignalsAreMerged
<1>1. ASSUME ApiInv PROVE SignalsAreMerged
  <2>1. LedgerPart /\ SignalPart BY <1>1 DEF ApiInv
  <2> SUFFICES ASSUME NEW a \in answers, Intent(a.request) \in SignalIntents
               PROVE  /\ a.code # "INTERNAL_ERROR"
                      /\ a.resource # None =>
                           \E c \in db["case"] :
                             /\ c.signal = a.resource[2]
                             /\ \A d \in db["case"] : d.signal = c.signal => d = c
    BY DEF SignalsAreMerged
  <2>2. a.code # "INTERNAL_ERROR" BY <2>1 DEF SignalPart, Sane
  <2>3. ASSUME a.resource # None
        PROVE  \E c \in db["case"] : /\ c.signal = a.resource[2]
                                     /\ \A d \in db["case"] : d.signal = c.signal => d = c
    <3>1. PICK e \in Recorded(a.request) : e.resource = a.resource
      BY <2>1, <2>3 DEF LedgerPart, Told
    <3>2. e \in ledger /\ e.namespace.intent = Intent(a.request)
      BY <3>1 DEF Recorded, Namespace, Intent
    <3>3. a.resource[1] = "signal" /\ a.resource[2] \in Ids("signal")
      BY <2>1, <3>1, <3>2 DEF LedgerPart, Shown
    <3>4. PICK s \in db["signal"] : s.id = a.resource[2] BY <3>3 DEF Ids
    <3>5. PICK c \in db["case"] : c.id = s.id BY <2>1 DEF SignalPart, SignalsFit
    <3> QED BY <2>1, <3>4, <3>5 DEF SignalPart, SignalsFit
  <2> QED BY <2>2, <2>3
<1> QED BY <1>1, ApiInductive, PTL

(* A confirmation is of a proposal that is there, by somebody else than        *)
(* proposed it, whose credential was issued after it; there is one of each    *)
(* proposal, however confirmations, proposals and new credentials meet.       *)
THEOREM OthersConfirm == Spec => []ConfirmationsAreEarned
<1>1. ApiInv => ConfirmationsAreEarned BY DEF ApiInv, ConfirmPart
<1> QED BY <1>1, ApiInductive, PTL

-----------------------------------------------------------------------------
(* A search along the arrows of a graph                                      *)

(* Every set of numbers has a least one; so what goes on from each number to   *)
(* the next holds of all.                                                    *)
LEMMA LeastNumber ==
  ASSUME NEW T, T \subseteq Nat, T # {} PROVE \E m \in T : \A n \in T : m <= n
<1>1. PICK R, F, U : R = StrictSubsetOrdering(Nat) /\ F = FiniteSubsetsOf(Nat) /\ U = {1..n : n \in T}
  OBVIOUS
<1>2. IsWellFoundedOn(R, F) BY <1>1, FS_StrictSubsetOrderingWellFounded
<1>3. ASSUME NEW n \in T PROVE 1..n \in F
  <2>1. IsFiniteSet(1..n) BY FS_Interval
  <2> QED BY <1>1, <2>1 DEF FiniteSubsetsOf
<1>4. U \subseteq F /\ U # {} BY <1>1, <1>3
<1>5. PICK x \in U : \A y \in U : ~(<<y, x>> \in R) BY <1>2, <1>4, WFMin
<1>6. PICK m \in T : x = 1..m BY <1>1
<1>7. ASSUME NEW n \in T, n < m PROVE FALSE
  <2>1. m \in 1..m /\ m \notin 1..n /\ 1..n \subseteq 1..m BY <1>7
  <2>2. <<1..n, 1..m>> \in R BY <1>1, <2>1 DEF StrictSubsetOrdering
  <2> QED BY <1>1, <1>5, <1>6, <2>2
<1> QED BY <1>7

LEMMA AllNumbers ==
  ASSUME NEW S, S \subseteq Nat, 0 \in S, \A n \in S : n + 1 \in S PROVE S = Nat
<1> SUFFICES ASSUME Nat \ S # {} PROVE FALSE OBVIOUS
<1>1. PICK m \in Nat \ S : \A n \in Nat \ S : m <= n BY LeastNumber
<1>2. m - 1 \in Nat /\ m - 1 \notin Nat \ S BY <1>1
<1>3. (m - 1) + 1 = m BY <1>2
<1> QED BY <1>1, <1>2, <1>3

(* The steps of a search.                                                    *)
Further(set) == set \cup {a[2] : a \in {x \in Arrows : x[1] \in set}}
IsSearch(f, start) == f = [n \in Nat |-> IF n = 0 THEN {start} ELSE Further(f[n - 1])]
Search(start) == CHOOSE f : IsSearch(f, start)

(* The paths of n steps at most, on which one may rest.                       *)
Paths(start, n) ==
  {p \in [0..n -> {start} \cup {a[2] : a \in Arrows}] :
     /\ p[0] = start
     /\ \A i \in 1..n : p[i] = p[i - 1] \/ \E a \in Arrows : a[1] = p[i - 1] /\ a[2] = p[i]}
Rests(start) == [n \in Nat |-> {p[n] : p \in Paths(start, n)}]

LEMMA PathsSearch == ASSUME NEW start PROVE IsSearch(Rests(start), start)
<1>1. PICK f : f = Rests(start) OBVIOUS
<1>2. PICK V : V = {start} \cup {a[2] : a \in Arrows} OBVIOUS
<1>3. f[0] = {start}
  <2>1. PICK p : p = [i \in 0..0 |-> start] OBVIOUS
  <2>2. p \in Paths(start, 0) BY <2>1 DEF Paths
  <2>3. p[0] = start BY <2>1
  <2>4. \A q \in Paths(start, 0) : q[0] = start BY DEF Paths
  <2>5. f[0] = {q[0] : q \in Paths(start, 0)} BY <1>1 DEF Rests
  <2> QED BY <2>2, <2>3, <2>4, <2>5
<1>4. ASSUME NEW n \in Nat PROVE f[n + 1] = Further(f[n])
  <2>1. /\ f[n] = {p[n] : p \in Paths(start, n)}
        /\ f[n + 1] = {p[n + 1] : p \in Paths(start, n + 1)}
    BY <1>1 DEF Rests
  <2>2. ASSUME NEW y \in f[n + 1] PROVE y \in Further(f[n])
    <3>1. PICK p \in Paths(start, n + 1) : y = p[n + 1] BY <2>1
    <3>2. /\ p \in [0..n+1 -> V] /\ p[0] = start
          /\ \A i \in 1..n+1 : p[i] = p[i - 1] \/ \E a \in Arrows : a[1] = p[i - 1] /\ a[2] = p[i]
      BY <1>2 DEF Paths
    <3>3. PICK q : q = [i \in 0..n |-> p[i]] OBVIOUS
    <3>4. q \in [0..n -> V] /\ q[0] = start /\ q[n] = p[n] BY <3>2, <3>3
    <3>5. \A i \in 1..n : q[i] = q[i - 1] \/ \E a \in Arrows : a[1] = q[i - 1] /\ a[2] = q[i]
      BY <3>2, <3>3
    <3>6. q \in Paths(start, n) BY <1>2, <3>4, <3>5 DEF Paths
    <3>9. p[n] \in f[n] BY <2>1, <3>4, <3>6
    <3>7. n + 1 \in 1..n+1 /\ (n + 1) - 1 = n OBVIOUS
    <3>8. y = p[n] \/ \E a \in Arrows : a[1] = p[n] /\ a[2] = y BY <3>1, <3>2, <3>7
    <3> QED BY <3>8, <3>9 DEF Further
  <2>3. ASSUME NEW y \in Further(f[n]) PROVE y \in f[n + 1]
    <3>1. PICK x \in f[n] : x = y \/ \E a \in Arrows : a[1] = x /\ a[2] = y BY <2>3 DEF Further
    <3>2. PICK q \in Paths(start, n) : x = q[n] BY <2>1, <3>1
    <3>3. /\ q \in [0..n -> V] /\ q[0] = start
          /\ \A i \in 1..n : q[i] = q[i - 1] \/ \E a \in Arrows : a[1] = q[i - 1] /\ a[2] = q[i]
      BY <1>2 DEF Paths
    <3>4. y \in V BY <1>2, <3>1, <3>2, <3>3
    <3>5. PICK p : p = [i \in 0..n+1 |-> IF i = n + 1 THEN y ELSE q[i]] OBVIOUS
    <3>6. p \in [0..n+1 -> V] /\ p[0] = start /\ p[n + 1] = y /\ p[n] = x
      BY <3>2, <3>3, <3>4, <3>5
    <3>7. ASSUME NEW i \in 1..n+1
          PROVE  p[i] = p[i - 1] \/ \E a \in Arrows : a[1] = p[i - 1] /\ a[2] = p[i]
      <4>1. CASE i = n + 1 BY <3>1, <3>6, <4>1
      <4>2. CASE i # n + 1
        <5>1. i \in 1..n /\ p[i] = q[i] /\ p[i - 1] = q[i - 1] BY <3>5, <4>2
        <5> QED BY <3>3, <5>1
      <4> QED BY <4>1, <4>2
    <3>8. p \in Paths(start, n + 1) BY <1>2, <3>6, <3>7 DEF Paths
    <3> QED BY <2>1, <3>6, <3>8
  <2> QED BY <2>2, <2>3
<1>5. ASSUME NEW n \in Nat PROVE f[n] = IF n = 0 THEN {start} ELSE Further(f[n - 1])
  <2>1. CASE n = 0 BY <1>3, <2>1
  <2>2. CASE n # 0
    <3>1. n - 1 \in Nat /\ (n - 1) + 1 = n BY <2>2
    <3> QED BY <1>4, <2>2, <3>1
  <2> QED BY <2>1, <2>2
<1>6. f = [n \in Nat |-> f[n]] BY <1>1 DEF Rests
<1> QED BY <1>1, <1>5, <1>6 DEF IsSearch

LEMMA SearchIs ==
  ASSUME NEW start
  PROVE  /\ Search(start)[0] = {start}
         /\ \A n \in Nat : Search(start)[n + 1] = Further(Search(start)[n])
<1>1. IsSearch(Search(start), start) BY PathsSearch DEF Search
<1>2. PICK f : f = Search(start) OBVIOUS
<1>3. f = [n \in Nat |-> IF n = 0 THEN {start} ELSE Further(f[n - 1])] BY <1>1, <1>2 DEF IsSearch
<1>4. f[0] = {start} BY <1>3
<1>5. ASSUME NEW n \in Nat PROVE f[n + 1] = Further(f[n])
  <2>1. n + 1 \in Nat /\ n + 1 # 0 /\ (n + 1) - 1 = n OBVIOUS
  <2>2. f[n + 1] = Further(f[(n + 1) - 1]) BY <1>3, <2>1
  <2> QED BY <2>1, <2>2
<1> QED BY <1>2, <1>4, <1>5

LEMMA ReachIs == ASSUME NEW start PROVE Reach(start) = Search(start)[Cardinality(db["component"])]
BY DEF Reach, Search, IsSearch, Further

(* A set no arrow leaves.                                                    *)
Shut(T) == \A a \in Arrows : a[1] \in T => a[2] \in T

LEMMA SearchIsInside ==
  ASSUME NEW start, NEW T, start \in T, Shut(T)
  PROVE  \A n \in Nat : Search(start)[n] \subseteq T
<1>1. PICK f : f = Search(start) OBVIOUS
<1>2. f[0] = {start} /\ \A n \in Nat : f[n + 1] = Further(f[n]) BY <1>1, SearchIs
<1>3. PICK S : S = {n \in Nat : f[n] \subseteq T} OBVIOUS
<1>4. 0 \in S BY <1>2, <1>3
<1>5. ASSUME NEW n \in S PROVE n + 1 \in S BY <1>2, <1>3 DEF Further, Shut
<1>6. S = Nat BY <1>3, <1>4, <1>5, AllNumbers
<1> QED BY <1>1, <1>3, <1>6

(* Where a step of the search adds nothing it is at its end, and there is     *)
(* such a step before as many as there are places.                           *)
LEMMA SearchEnds ==
  ASSUME NEW start, NEW C, IsFiniteSet(C), start \in C, Shut(C),
         NEW c \in Nat, Cardinality(C) <= c
  PROVE  Shut(Search(start)[c])
<1>1. PICK f : f = Search(start) OBVIOUS
<1>2. f[0] = {start} /\ \A n \in Nat : f[n + 1] = Further(f[n]) BY <1>1, SearchIs
<1>3. Cardinality(C) \in Nat BY FS_CardinalityType
<1>4. ASSUME NEW n \in Nat
      PROVE  IsFiniteSet(f[n]) /\ Cardinality(f[n]) \in Nat /\ Cardinality(f[n]) <= c
  <2>1. f[n] \in SUBSET C BY <1>1, SearchIsInside
  <2>2. IsFiniteSet(f[n]) /\ Cardinality(f[n]) <= Cardinality(C) BY <2>1, FS_Subset
  <2>3. Cardinality(f[n]) \in Nat BY <2>2, FS_CardinalityType
  <2> QED BY <1>3, <2>2, <2>3
<1>5. \A n \in Nat : f[n] \subseteq f[n + 1] BY <1>2 DEF Further
<1>6. \E n \in 0..c : f[n + 1] = f[n]
  <2> SUFFICES ASSUME \A n \in 0..c : f[n + 1] # f[n] PROVE FALSE OBVIOUS
  <2>1. PICK S : S = {n \in Nat : n <= c + 1 => Cardinality(f[n]) >= n + 1} OBVIOUS
  <2>2. 0 \in S
    <3>1. Cardinality(f[0]) = 1 BY <1>2, FS_Singleton
    <3> QED BY <2>1, <3>1
  <2>3. ASSUME NEW n \in S, n + 1 <= c + 1 PROVE Cardinality(f[n + 1]) >= n + 2
    <3>1. n \in Nat /\ n \in 0..c /\ Cardinality(f[n]) >= n + 1 BY <1>3, <2>1, <2>3
    <3>2. n + 1 \in Nat BY <3>1
    <3>3. f[n] \in SUBSET f[n + 1] /\ f[n] # f[n + 1] BY <1>5, <3>1
    <3>4. Cardinality(f[n]) <= Cardinality(f[n + 1]) /\ Cardinality(f[n]) # Cardinality(f[n + 1])
      BY <1>4, <3>2, <3>3, FS_Subset
    <3>5. PICK k, l \in Nat : k = Cardinality(f[n]) /\ l = Cardinality(f[n + 1])
      BY <1>4, <3>1, <3>2
    <3>6. k <= l /\ k # l /\ k >= n + 1 BY <3>1, <3>4, <3>5
    <3>7. l >= n + 2 BY <3>1, <3>6
    <3> QED BY <3>5, <3>7
  <2>4. ASSUME NEW n \in S PROVE n + 1 \in S
    <3>1. n \in Nat /\ n + 1 \in Nat /\ (n + 1) + 1 = n + 2 BY <2>1
    <3> QED BY <2>1, <2>3, <3>1
  <2>5. S = Nat BY <2>1, <2>2, <2>4, AllNumbers
  <2>6. c + 1 \in Nat BY <1>3
  <2>7. Cardinality(f[c + 1]) >= c + 2
    <3>1. PICK d \in Nat : d = c + 1 BY <2>6
    <3>2. Cardinality(f[d]) >= d + 1 BY <2>1, <2>5, <3>1
    <3>3. d + 1 = c + 2 BY <1>3, <3>1
    <3> QED BY <3>1, <3>2, <3>3
  <2>8. PICK k \in Nat : k = Cardinality(f[c + 1]) /\ k <= c BY <1>4, <2>6
  <2> QED BY <1>3, <2>7, <2>8
<1>7. PICK n \in 0..c : f[n + 1] = f[n] BY <1>6
<1>8. PICK S : S = {k \in Nat : f[n + k] = f[n]} OBVIOUS
<1>9. 0 \in S /\ n \in Nat BY <1>8, <1>7
<1>10. ASSUME NEW k \in S PROVE k + 1 \in S
  <2>1. k \in Nat /\ n + k \in Nat /\ f[n + k] = f[n] BY <1>8, <1>9
  <2>2. n + (k + 1) = (n + k) + 1 BY <1>9, <2>1
  <2>3. f[n + (k + 1)] = Further(f[n]) BY <1>2, <2>1, <2>2
  <2>4. f[n + (k + 1)] = f[n] BY <1>2, <1>7, <1>9, <2>3
  <2> QED BY <1>8, <2>1, <2>4
<1>11. S = Nat BY <1>8, <1>9, <1>10, AllNumbers
<1>12. PICK k \in Nat : k = c - n /\ n + k = c BY <1>7
<1>13. f[c] = f[n] BY <1>8, <1>11, <1>12
<1>14. Further(f[c]) = f[c] BY <1>2, <1>7, <1>9, <1>13
<1>15. Shut(f[c]) BY <1>14 DEF Further, Shut
<1> QED BY <1>1, <1>15

-----------------------------------------------------------------------------
(* The graph of dependencies                                                 *)

(* Whatever was imported passed the wire model.                              *)
Imports == \A r \in Requests : Intent(r) \in ImportIntents => ManifestFits(Body(r))

(* A dependency is between components of one application.                    *)
Joined == \A e \in db["edge"] : {e.from, e.to} \subseteq Ids("component") /\ e.from[1] = e.to[1]

(* From b one does not come to a: b is in a set of components of its           *)
(* application that no edge leaves, and a is not.                            *)
PartsUnder(app) == {c \in Ids("component") : c[1] = app}
Parts(a, b, T) == T \subseteq PartsUnder(b[1]) /\ b \in T /\ a \notin T /\ Shut(T)
Apart(a, b) == \E T : Parts(a, b, T)
NoWayBack == \A e \in db["edge"] : Apart(e.from, e.to)

(* Who records an edge and has the lock of the graph has seen that it closes   *)
(* no cycle.                                                                 *)
Draws(r) == Intent(r) = "dependency-edges.record"
Clears(r) == Draws(r) /\ Len(Locks(r)) >= 2 =>
  /\ Locks(r)[2] = GraphLock(Body(r).app)
  /\ {Body(r).from, Body(r).to} \subseteq PartsUnder(Body(r).app)
  /\ Apart(Body(r).from, Body(r).to)

GraphPart == /\ IsFiniteSet(db["component"]) /\ Joined /\ NoWayBack /\ Imports
             /\ \A r \in Requests : Clears(r)

LEMMA ShutIs ==
  ASSUME NEW T PROVE Shut(T) <=> \A e \in db["edge"] : e.from \in T => e.to \in T
<1>1. ASSUME Shut(T), NEW e \in db["edge"], e.from \in T PROVE e.to \in T
  <2>1. PICK a : a = <<e.from, e.to>> OBVIOUS
  <2>2. a \in Arrows /\ a[1] = e.from /\ a[2] = e.to BY <2>1 DEF Arrows
  <2> QED BY <1>1, <2>2 DEF Shut
<1>2. ASSUME \A e \in db["edge"] : e.from \in T => e.to \in T, NEW a \in Arrows, a[1] \in T
      PROVE  a[2] \in T
  <2>1. PICK e \in db["edge"] : a = <<e.from, e.to>> BY DEF Arrows
  <2>2. a[1] = e.from /\ a[2] = e.to BY <2>1
  <2> QED BY <1>2, <2>2
<1> QED BY <1>1, <1>2 DEF Shut

(* The search finds all there is to find, and no more.                       *)
LEMMA ReachFinds ==
  ASSUME IsFiniteSet(db["component"]), Joined, NEW a, NEW b \in Ids("component")
  PROVE  Apart(a, b) <=> ~WouldCreateCycle(a, b)
<1>1. PICK n : n = Cardinality(db["component"]) OBVIOUS
<1>2. n \in Nat BY <1>1, FS_CardinalityType
<1>3. Reach(b) = Search(b)[n] BY <1>1, ReachIs
<1>4. ASSUME Apart(a, b) PROVE a \notin Reach(b)
  <2>1. PICK T : Parts(a, b, T) BY <1>4 DEF Apart
  <2> QED BY <1>2, <1>3, <2>1, SearchIsInside DEF Parts
<1>5. ASSUME a \notin Reach(b) PROVE Apart(a, b)
  <2>1. PICK C : C = Ids("component") OBVIOUS
  <2>2. IsFiniteSet(C) /\ Cardinality(C) <= n
    <3>1. PICK f : f = [row \in db["component"] |-> row.id] OBVIOUS
    <3>2. f \in Surjection(db["component"], C) BY <2>1, <3>1 DEF Ids, Surjection
    <3> QED BY <1>1, <3>2, FS_Surjection
  <2>3. Shut(C) BY <2>1, ShutIs DEF Joined
  <2>4. Shut(Search(b)[n]) BY <1>2, <2>1, <2>2, <2>3, SearchEnds
  <2>5. Search(b)[n] \subseteq C BY <1>2, <2>1, <2>3, SearchIsInside
  <2>6. b \in Search(b)[n]
    <3>1. PICK f : f = Search(b) OBVIOUS
    <3>2. f[0] = {b} /\ \A k \in Nat : f[k + 1] = Further(f[k]) BY <3>1, SearchIs
    <3>3. PICK S : S = {k \in Nat : b \in f[k]} OBVIOUS
    <3>4. 0 \in S /\ \A k \in S : k + 1 \in S BY <3>2, <3>3 DEF Further
    <3>5. S = Nat BY <3>3, <3>4, AllNumbers
    <3> QED BY <1>2, <3>1, <3>3, <3>5
  <2>7. PICK T : T = {c \in Search(b)[n] : c[1] = b[1]} OBVIOUS
  <2>8. T \subseteq PartsUnder(b[1]) /\ b \in T /\ a \notin T
    BY <1>3, <1>5, <2>1, <2>5, <2>6, <2>7 DEF PartsUnder
  <2>9. ASSUME NEW e \in db["edge"], e.from \in T PROVE e.to \in T
    <3>1. e.to \in Search(b)[n] BY <2>4, <2>7, <2>9, ShutIs
    <3>2. e.from[1] = e.to[1] BY DEF Joined
    <3> QED BY <2>7, <2>9, <3>1, <3>2
  <2>10. Shut(T) BY <2>9, ShutIs
  <2> QED BY <2>8, <2>10 DEF Apart, Parts
<1> QED BY <1>4, <1>5 DEF WouldCreateCycle

(* A set that shuts a off goes on to, if no new edge leaves it.               *)
LEMMA PartsStay ==
  ASSUME NEW a, NEW b, NEW T, Parts(a, b, T), Ids("component") \subseteq Ids("component")',
         \A e \in db'["edge"] \ db["edge"] : e.from \in T => e.to \in T
  PROVE  Apart(a, b)'
<1>1. PartsUnder(b[1]) \subseteq PartsUnder(b[1])' BY DEF PartsUnder
<1>2. T \subseteq PartsUnder(b[1])' /\ b \in T /\ a \notin T BY <1>1 DEF Parts
<1>3. \A e \in db["edge"] : e.from \in T => e.to \in T BY ShutIs DEF Parts
<1>4. \A x \in Arrows' : x[1] \in T => x[2] \in T
  <2> SUFFICES ASSUME NEW x \in Arrows', x[1] \in T PROVE x[2] \in T OBVIOUS
  <2>1. PICK e \in db'["edge"] : x = <<e.from, e.to>> BY DEF Arrows
  <2>2. x[1] = e.from /\ x[2] = e.to BY <2>1
  <2> QED BY <1>3, <2>2
<1>5. Shut(T)' BY <1>4 DEF Shut
<1> QED BY <1>2, <1>5 DEF Apart, Parts

-----------------------------------------------------------------------------
(* What is committed fits together                                           *)

Placed == \A t \in {"environment", "component", "edge"} :
  \A row \in db[t] : row.id[1] \in Ids("application")
Sound(v) == /\ PartsFit(v) /\ v.topology.edges \subseteq Ids("edge")
            /\ EdgesFit(v) <=> ~Repeating(v)
            /\ \A w \in db["version"] : w.id = v.id => (Repeating(w) <=> Repeating(v))
Whole == \A v \in db["version"] : Sound(v)
Bound == \A b \in db["binding"] : /\ DeclaredFits(b.target)
                                  /\ \A a \in db["binding"] : a.id = b.id => a = b
Linked == \A c \in db["case"] : c.signal \in LinkedTo(c) /\ LinkedTo(c) \cap Ids("evidence") # {}
RecordsFit == Placed /\ Whole /\ Bound /\ Linked

(* A command that is let on has an application to write to, and one that has  *)
(* locked its case a version to declare.                                     *)
Located(r) == Open(r) /\ Intent(r) \in CatalogIntents \ ApplicationIntents =>
                Body(r).app \in Ids("application")
Declares(r) == Intent(r) \in BindIntents /\ Len(Locks(r)) >= 1 => DeclaredFits(TargetOf(r))

ReadPart == RecordsFit /\ Imports /\ \A r \in Requests : Located(r) /\ Declares(r)

LEMMA RowsGrow ==
  ASSUME NEW r \in Requests, UNCHANGED db \/ Writes(r)
  PROVE  \A t \in Tables : db[t] \subseteq db'[t] /\ Ids(t) \subseteq Ids(t)'
<1>1. ASSUME NEW t \in Tables PROVE db[t] \subseteq db'[t]
  <2>1. CASE UNCHANGED db BY <2>1
  <2>2. CASE Writes(r) BY <2>2 DEF Writes
  <2> QED BY <2>1, <2>2
<1> QED BY <1>1 DEF Ids

LEMMA DeclaredStays ==
  ASSUME NEW r \in Requests, UNCHANGED db \/ Writes(r), NEW target, DeclaredFits(target)
  PROVE  DeclaredFits(target)'
<1>1. db["version"] \subseteq db'["version"] BY RowsGrow, TablesAssumption
<1> QED BY <1>1 DEF DeclaredFits

(* What a command writes of the catalog.                                     *)
LEMMA CatalogWrites ==
  ASSUME NEW r \in Requests, Intent(r) \in Intents,
         NEW t \in {"environment", "component", "edge"}, NEW x \in New(r)[t]
  PROVE  /\ x.id[1] = Body(r).app
         /\ \/ Intent(r) \in CatalogIntents \ ApplicationIntents
            \/ Intent(r) \in ImportIntents /\ Imported(r) = {}
<1>0. t \in Tables BY TablesAssumption
<1>1. CASE Intent(r) \in SignalIntents
  <2>1. New(r) = SubmitRows(r) BY <1>1, KindsApart
  <2> QED BY <1>0, <2>1 DEF SubmitRows
<1>2. CASE Intent(r) \in CatalogIntents
  <2>1. New(r) = Only(TableOf(r), CatalogRow(r)) BY <1>2, KindsApart
  <2>2. t = TableOf(r) /\ x = CatalogRow(r) BY <1>0, <2>1 DEF Only
  <2>3. Intent(r) \notin ApplicationIntents BY <2>2 DEF TableOf, ApplicationIntents
  <2>4. x = PartRow(r) \/ x = EdgeRow(r) BY <2>2, <2>3 DEF CatalogRow
  <2>5. x.id[1] = Body(r).app BY <2>4 DEF PartRow, EdgeRow
  <2> QED BY <1>2, <2>3, <2>5
<1>3. CASE Intent(r) \in ImportIntents
  <2>1. New(r) = ImportRows(r) BY <1>3, KindsApart
  <2>2. Imported(r) = {} BY <1>0, <2>1 DEF ImportRows
  <2>3. \/ x = [id |-> EnvironmentId(r), by |-> Attempt(r)]
        \/ x \in {[id |-> c, by |-> Attempt(r)] : c \in PartsOf(r) \cup PolicyOf(r)}
        \/ x \in ManifestEdges(r)
    BY <1>0, <2>1, <2>2 DEF ImportRows
  <2>4. CASE x = [id |-> EnvironmentId(r), by |-> Attempt(r)]
    BY <1>3, <2>2, <2>4 DEF EnvironmentId
  <2>5. CASE x \in {[id |-> c, by |-> Attempt(r)] : c \in PartsOf(r) \cup PolicyOf(r)}
    <3>1. PICK c \in PartsOf(r) \cup PolicyOf(r) : x = [id |-> c, by |-> Attempt(r)] BY <2>5
    <3>2. c[1] = Body(r).app BY DEF PartsOf, PolicyOf, ComponentId
    <3>3. x.id = c BY <3>1
    <3> QED BY <1>3, <2>2, <3>2, <3>3
  <2>6. CASE x \in ManifestEdges(r)
    <3>1. x.id[1] = Body(r).app BY <2>6 DEF ManifestEdges
    <3> QED BY <1>3, <2>2, <3>1
  <2> QED BY <2>3, <2>4, <2>5, <2>6
<1>4. CASE Intent(r) \in BindIntents
  <2>1. New(r) = BindRows(r) BY <1>4, KindsApart
  <2> QED BY <1>0, <2>1 DEF BindRows
<1>5. CASE Intent(r) \in ProposeIntents
  <2>1. New(r) = Only("proposal", ProposalRow(r)) BY <1>5, KindsApart
  <2> QED BY <1>0, <2>1 DEF Only
<1>6. CASE Intent(r) \in ConfirmIntents
  <2>1. New(r) = Only("confirmation", ConfirmationRow(r)) BY <1>6, KindsApart
  <2> QED BY <1>0, <2>1 DEF Only
<1> QED BY <1>1, <1>2, <1>3, <1>4, <1>5, <1>6 DEF Intents

(* Versions and bindings have one writer each.                               *)
LEMMA WhoElseWrites ==
  ASSUME NEW r \in Requests, Intent(r) \in Intents
  PROVE  /\ New(r)["version"] # {} => /\ Intent(r) \in ImportIntents /\ Imported(r) = {}
                                      /\ New(r) = ImportRows(r)
         /\ New(r)["binding"] # {} => /\ Intent(r) \in BindIntents /\ BindingOf(r) = {}
                                      /\ New(r)["binding"] = BindingRows(r)
<1>0. {"version", "binding"} \subseteq Tables BY TablesAssumption
<1>1. CASE Intent(r) \in SignalIntents
  <2>1. New(r) = SubmitRows(r) BY <1>1, KindsApart
  <2> QED BY <1>0, <2>1 DEF SubmitRows
<1>2. CASE Intent(r) \in CatalogIntents
  <2>1. New(r) = Only(TableOf(r), CatalogRow(r)) BY <1>2, KindsApart
  <2> QED BY <1>0, <1>2, <2>1, TableOfIs DEF Only
<1>3. CASE Intent(r) \in ImportIntents
  <2>1. New(r) = ImportRows(r) BY <1>3, KindsApart
  <2>2. New(r)["binding"] = {} BY <1>0, <2>1 DEF ImportRows
  <2>3. Imported(r) # {} => New(r)["version"] = {} BY <1>0, <2>1 DEF ImportRows
  <2> QED BY <1>3, <2>1, <2>2, <2>3
<1>4. CASE Intent(r) \in BindIntents
  <2>1. New(r) = BindRows(r) BY <1>4, KindsApart
  <2>2. New(r)["version"] = {} /\ New(r)["binding"] = BindingRows(r)
    BY <1>0, <2>1 DEF BindRows
  <2>3. BindingOf(r) # {} => BindingRows(r) = {} BY DEF BindingRows
  <2> QED BY <1>4, <2>2, <2>3
<1>5. CASE Intent(r) \in ProposeIntents
  <2>1. New(r) = Only("proposal", ProposalRow(r)) BY <1>5, KindsApart
  <2> QED BY <1>0, <2>1 DEF Only
<1>6. CASE Intent(r) \in ConfirmIntents
  <2>1. New(r) = Only("confirmation", ConfirmationRow(r)) BY <1>6, KindsApart
  <2> QED BY <1>0, <2>1 DEF Only
<1> QED BY <1>1, <1>2, <1>3, <1>4, <1>5, <1>6 DEF Intents

LEMMA PlacedStays ==
  ASSUME LedgerPart, ReadPart, UNCHANGED cmd, NEW r \in Requests, UNCHANGED db \/ Writes(r)
  PROVE  Placed'
<1>1. Ids("application") \subseteq Ids("application")' BY RowsGrow, TablesAssumption
<1> SUFFICES ASSUME NEW t \in {"environment", "component", "edge"}, NEW x \in db'[t]
             PROVE  x.id[1] \in Ids("application")'
  BY DEF Placed
<1>2. t \in Tables BY TablesAssumption
<1>3. CASE x \in db[t] BY <1>1, <1>3 DEF ReadPart, RecordsFit, Placed
<1>4. CASE x \notin db[t]
  <2>1. Writes(r) /\ x \in New(r)[t] BY <1>2, <1>4 DEF Writes
  <2>2. Intent(r) \in Intents /\ Open(r) BY <2>1 DEF LedgerPart, Known, Writes
  <2>3. /\ x.id[1] = Body(r).app
        /\ \/ Intent(r) \in CatalogIntents \ ApplicationIntents
           \/ Intent(r) \in ImportIntents /\ Imported(r) = {}
    BY <2>1, <2>2, CatalogWrites
  <2>4. CASE Intent(r) \in CatalogIntents \ ApplicationIntents
    BY <1>1, <2>2, <2>3, <2>4 DEF ReadPart, Located
  <2>5. CASE Intent(r) \in ImportIntents /\ Imported(r) = {}
    <3>1. ApplicationRow(r) \in New(r)["application"]
      BY <2>5, KindsApart, TablesAssumption DEF ImportRows
    <3>2. ApplicationRow(r) \in db'["application"] BY <2>1, <3>1, TablesAssumption DEF Writes
    <3>3. ApplicationRow(r).id = Body(r).app BY DEF ApplicationRow
    <3> QED BY <2>3, <3>2, <3>3 DEF Ids
  <2> QED BY <2>3, <2>4, <2>5
<1> QED BY <1>3, <1>4

(* A version stays what it binds: nobody can write under the names of its     *)
(* edges.                                                                    *)
LEMMA VersionStays ==
  ASSUME NEW r \in Requests, UNCHANGED db \/ Writes(r), NEW v,
         PartsFit(v), v.topology.edges \subseteq Ids("edge")
  PROVE  PartsFit(v)' /\ v.topology.edges \subseteq Ids("edge")' /\ (EdgesFit(v)' <=> EdgesFit(v))
<1>1. /\ Ids("application") \subseteq Ids("application")'
      /\ Ids("environment") \subseteq Ids("environment")'
      /\ Ids("component") \subseteq Ids("component")' /\ Ids("edge") \subseteq Ids("edge")'
      /\ db["edge"] \subseteq db'["edge"]
  BY RowsGrow, TablesAssumption
<1>2. PartsFit(v)' BY <1>1 DEF PartsFit
<1>3. ASSUME NEW e \in db'["edge"], e \notin db["edge"], e.id \in v.topology.edges PROVE FALSE
  <2>1. Writes(r) /\ e \in New(r)["edge"] BY <1>3, TablesAssumption DEF Writes
  <2>2. PICK old \in db["edge"] : old.id = e.id BY <1>3 DEF Ids
  <2> QED BY <2>1, <2>2, TablesAssumption DEF Writes, Clash
<1>4. EdgesOf(v)' = EdgesOf(v) BY <1>1, <1>3 DEF EdgesOf
<1>5. v.topology.edges \subseteq Ids("edge")' BY <1>1
<1>6. EdgesFit(v)' <=> EdgesFit(v) BY <1>4, <1>5 DEF EdgesFit
<1> QED BY <1>2, <1>5, <1>6

(* What an imported version binds is there, and its edges fit together unless  *)
(* its manifest listed one of them twice.                                    *)
LEMMA VersionFits ==
  ASSUME Imports, NEW r \in Requests, Writes(r),
         Intent(r) \in ImportIntents, Imported(r) = {},
         NEW v, v = VersionRow(r)
  PROVE  /\ PartsFit(v)' /\ v.topology.edges \subseteq Ids("edge")'
         /\ EdgesFit(v)' <=> ~RepeatsADependency(Body(r))
<1>1. New(r) = ImportRows(r) BY KindsApart
<1>2. /\ New(r)["application"] = {ApplicationRow(r)}
      /\ New(r)["environment"] = {[id |-> EnvironmentId(r), by |-> Attempt(r)]}
      /\ New(r)["component"] = {[id |-> c, by |-> Attempt(r)] : c \in PartsOf(r) \cup PolicyOf(r)}
      /\ New(r)["edge"] = ManifestEdges(r)
  BY <1>1, TablesAssumption DEF ImportRows
<1>3. \A t \in Tables : db'[t] = db[t] \cup New(r)[t] BY DEF Writes
<1>4. PICK app, env, parts, M :
        app = Body(r).app /\ env = EnvironmentId(r) /\ parts = PartsOf(r) /\ M = ManifestEdges(r)
  OBVIOUS
<1>5. /\ v.app = app /\ v.env = env /\ v.components = parts
      /\ v.topology.components = parts /\ v.topology.edges = {e.id : e \in M}
  BY <1>4 DEF VersionRow, Topology
<1>6. PartsFit(v)'
  <2>1. app \in Ids("application")'
    <3>1. ApplicationRow(r) \in db'["application"] BY <1>2, <1>3, TablesAssumption
    <3>2. ApplicationRow(r).id = app BY <1>4 DEF ApplicationRow
    <3> QED BY <3>1, <3>2 DEF Ids
  <2>2. env \in Ids("environment")'
    <3>1. [id |-> EnvironmentId(r), by |-> Attempt(r)] \in db'["environment"]
      BY <1>2, <1>3, TablesAssumption
    <3>2. PICK row : row = [id |-> EnvironmentId(r), by |-> Attempt(r)] OBVIOUS
    <3>3. row.id = env BY <1>4, <3>2
    <3> QED BY <3>1, <3>2, <3>3 DEF Ids
  <2>3. ASSUME NEW c \in parts PROVE c \in Ids("component")' /\ c[1] = app
    <3>1. PICK row : row = [id |-> c, by |-> Attempt(r)] OBVIOUS
    <3>2. row \in db'["component"] BY <1>2, <1>3, <1>4, <3>1, TablesAssumption
    <3>3. row.id = c BY <3>1
    <3>4. c[1] = app BY <1>4 DEF PartsOf, ComponentId
    <3> QED BY <3>2, <3>3, <3>4 DEF Ids
  <2> QED BY <1>5, <2>1, <2>2, <2>3 DEF PartsFit
<1>7. EdgesOf(v)' = M
  <2>1. M \subseteq db'["edge"] BY <1>2, <1>3, <1>4, TablesAssumption
  <2>2. ASSUME NEW e \in db'["edge"], e \notin M, NEW f \in M, e.id = f.id PROVE FALSE
    <3>1. e \in db["edge"] /\ f \in New(r)["edge"] BY <1>2, <1>3, <1>4, <2>2, TablesAssumption
    <3> QED BY <2>2, <3>1, TablesAssumption DEF Writes, Clash
  <2>3. \A e \in M : e.id \in v.topology.edges BY <1>5
  <2>4. \A e \in db'["edge"] : e.id \in v.topology.edges => e \in M BY <1>5, <2>2
  <2>5. EdgesOf(v)' = {e \in db'["edge"] : e.id \in v.topology.edges} BY DEF EdgesOf
  <2> QED BY <2>1, <2>3, <2>4, <2>5
<1>8. v.topology.edges \subseteq Ids("edge")'
  <2>1. M \subseteq db'["edge"] BY <1>2, <1>3, <1>4, TablesAssumption
  <2> QED BY <1>5, <2>1 DEF Ids
<1>9. PICK edges : edges = Body(r).edges OBVIOUS
<1>10. \A i \in DOMAIN edges : edges[i][1] \in Body(r).components /\ edges[i][2] \in Body(r).components
  BY <1>9 DEF Imports, ManifestFits
<1>11. PICK row : /\ \A e : e \in M <=> \E i \in DOMAIN edges : e = row[i]
                  /\ \A i \in DOMAIN edges :
                       /\ row[i].id = <<app, Append(Attempt(r), i)>>
                       /\ row[i].from = <<app, edges[i][1]>> /\ row[i].to = <<app, edges[i][2]>>
                       /\ row[i].relation = edges[i][3]
  <2>1. PICK row :
          row = [i \in DOMAIN edges |->
                  [id |-> <<app, Append(Attempt(r), i)>>, by |-> Attempt(r),
                   from |-> <<app, edges[i][1]>>, to |-> <<app, edges[i][2]>>,
                   relation |-> edges[i][3]]]
    OBVIOUS
  <2>2. M = {[id |-> <<app, Append(Attempt(r), i)>>, by |-> Attempt(r),
              from |-> <<app, edges[i][1]>>, to |-> <<app, edges[i][2]>>,
              relation |-> edges[i][3]] : i \in DOMAIN edges}
    BY <1>4, <1>9 DEF ManifestEdges, ComponentId
  <2>3. ASSUME NEW e PROVE e \in M <=> \E i \in DOMAIN edges : e = row[i] BY <2>1, <2>2
  <2>4. ASSUME NEW i \in DOMAIN edges
        PROVE  /\ row[i].id = <<app, Append(Attempt(r), i)>>
               /\ row[i].from = <<app, edges[i][1]>> /\ row[i].to = <<app, edges[i][2]>>
               /\ row[i].relation = edges[i][3]
    BY <2>1
  <2> QED BY <2>3, <2>4
<1>12. ASSUME NEW e \in M PROVE {e.from, e.to} \subseteq parts
  <2>1. PICK i \in DOMAIN edges : e.from = <<app, edges[i][1]>> /\ e.to = <<app, edges[i][2]>>
    BY <1>11
  <2>2. edges[i][1] \in Body(r).components /\ edges[i][2] \in Body(r).components BY <1>10
  <2> QED BY <1>4, <2>1, <2>2 DEF PartsOf, ComponentId
<1>13. (\A e, f \in M : e.from = f.from /\ e.to = f.to /\ e.relation = f.relation => e = f)
         <=> ~RepeatsADependency(Body(r))
  <2>1. RepeatsADependency(Body(r)) <=>
          \E i, j \in DOMAIN edges : /\ i # j /\ edges[i][1] = edges[j][1]
                                     /\ edges[i][2] = edges[j][2] /\ edges[i][3] = edges[j][3]
    <3>1. 1..3 = {1, 2, 3} OBVIOUS
    <3> QED BY <1>9, <3>1 DEF RepeatsADependency
  <2>2. ASSUME NEW i \in DOMAIN edges, NEW j \in DOMAIN edges, row[i].id = row[j].id PROVE i = j
    <3>1. Append(Attempt(r), i) = Append(Attempt(r), j) BY <1>11, <2>2
    <3>2. PICK n : Attempt(r) = <<r, n>> BY DEF Attempt
    <3>3. Append(<<r, n>>, i)[3] = i /\ Append(<<r, n>>, j)[3] = j OBVIOUS
    <3> QED BY <3>1, <3>2, <3>3
  <2>3. ASSUME NEW i \in DOMAIN edges, NEW j \in DOMAIN edges
        PROVE  /\ row[i] \in M
               /\ row[i].from = row[j].from <=> edges[i][1] = edges[j][1]
               /\ row[i].to = row[j].to <=> edges[i][2] = edges[j][2]
               /\ row[i].relation = row[j].relation <=> edges[i][3] = edges[j][3]
    BY <1>11
  <2>4. ASSUME NEW e \in M, NEW f \in M, e.from = f.from, e.to = f.to, e.relation = f.relation, e # f
        PROVE  RepeatsADependency(Body(r))
    <3>1. PICK i \in DOMAIN edges, j \in DOMAIN edges : e = row[i] /\ f = row[j] BY <1>11
    <3> QED BY <2>1, <2>3, <2>4, <3>1
  <2>5. ASSUME RepeatsADependency(Body(r))
        PROVE  \E e, f \in M : e.from = f.from /\ e.to = f.to /\ e.relation = f.relation /\ e # f
    <3>1. PICK i \in DOMAIN edges, j \in DOMAIN edges :
            i # j /\ edges[i][1] = edges[j][1] /\ edges[i][2] = edges[j][2] /\ edges[i][3] = edges[j][3]
      BY <2>1, <2>5
    <3> QED BY <2>2, <2>3, <3>1
  <2> QED BY <2>4, <2>5
<1>14. EdgesFit(v)' <=> ~RepeatsADependency(Body(r)) BY <1>5, <1>7, <1>8, <1>12, <1>13 DEF EdgesFit
<1> QED BY <1>6, <1>8, <1>14

LEMMA WholeStays ==
  ASSUME LedgerPart, ReadPart, UNCHANGED cmd, NEW r \in Requests, UNCHANGED db \/ Writes(r)
  PROVE  Whole'
<1>1. ASSUME NEW v PROVE Repeating(v)' <=> Repeating(v) BY DEF Repeating, RepeatsADependency
<1>2. ASSUME NEW v \in db'["version"], v \notin db["version"]
      PROVE  /\ Writes(r) /\ v = VersionRow(r) /\ Intent(r) \in ImportIntents /\ Imported(r) = {}
             /\ \A w \in db["version"] : w.id # v.id
             /\ Repeating(v) <=> RepeatsADependency(Body(r))
  <2>1. Writes(r) /\ v \in New(r)["version"] BY <1>2, TablesAssumption DEF Writes
  <2>2. Intent(r) \in Intents BY DEF LedgerPart, Known
  <2>3. Intent(r) \in ImportIntents /\ Imported(r) = {} /\ New(r) = ImportRows(r)
    BY <2>1, <2>2, WhoElseWrites
  <2>4. v = VersionRow(r) BY <2>1, <2>3, TablesAssumption DEF ImportRows
  <2>5. v.id = Body(r).digest /\ v.by = Attempt(r) BY <2>4 DEF VersionRow
  <2>6. v.by[1] = r BY <2>5 DEF Attempt
  <2>7. Repeating(v) <=> RepeatsADependency(Body(r)) BY <2>6 DEF Repeating, Body
  <2>8. \A w \in db["version"] : w.id # v.id BY <2>3, <2>5 DEF Imported
  <2> QED BY <2>1, <2>3, <2>4, <2>7, <2>8
<1>3. \A w \in db["version"] : Sound(w) BY DEF ReadPart, RecordsFit, Whole
<1>4. ASSUME NEW v \in db'["version"]
      PROVE  /\ PartsFit(v)' /\ v.topology.edges \subseteq Ids("edge")'
             /\ EdgesFit(v)' <=> ~Repeating(v)
  <2>1. CASE v \in db["version"]
    <3>1. PartsFit(v) /\ v.topology.edges \subseteq Ids("edge") /\ (EdgesFit(v) <=> ~Repeating(v))
      BY <1>3, <2>1 DEF Sound
    <3> QED BY <3>1, VersionStays
  <2>2. CASE v \notin db["version"]
    <3>1. PICK b \in BOOLEAN : b = RepeatsADependency(Body(r)) BY DEF RepeatsADependency
    <3>2. Writes(r) /\ v = VersionRow(r) /\ Intent(r) \in ImportIntents /\ Imported(r) = {}
      BY <1>2, <2>2
    <3>3. PartsFit(v)' /\ v.topology.edges \subseteq Ids("edge")' /\ (EdgesFit(v)' <=> ~b)
      BY <3>1, <3>2, VersionFits DEF ReadPart
    <3>4. Repeating(v) <=> b BY <1>2, <2>2, <3>1
    <3> QED BY <3>3, <3>4
  <2> QED BY <2>1, <2>2
<1>5. ASSUME NEW v \in db'["version"], NEW w \in db'["version"], w.id = v.id
      PROVE  Repeating(w) <=> Repeating(v)
  <2>1. CASE v \in db["version"] /\ w \in db["version"] BY <1>3, <1>5, <2>1 DEF Sound
  <2>2. CASE v \notin db["version"] /\ w \notin db["version"]
    <3>1. v = w BY <1>2, <2>2
    <3> QED BY <3>1
  <2>3. CASE v \in db["version"] /\ w \notin db["version"] BY <1>2, <1>5, <2>3
  <2>4. CASE v \notin db["version"] /\ w \in db["version"] BY <1>2, <1>5, <2>4
  <2> QED BY <2>1, <2>2, <2>3, <2>4
<1> QED BY <1>1, <1>4, <1>5 DEF Whole, Sound

LEMMA BoundStays ==
  ASSUME LedgerPart, ReadPart, NEW r \in Requests, UNCHANGED db \/ Writes(r)
  PROVE  Bound'
<1>1. \A b \in db["binding"] : /\ DeclaredFits(b.target)
                               /\ \A a \in db["binding"] : a.id = b.id => a = b
  BY DEF ReadPart, RecordsFit, Bound
<1>2. ASSUME NEW b \in db["binding"] PROVE DeclaredFits(b.target)'
  <2>1. PICK target : target = b.target OBVIOUS
  <2>2. DeclaredFits(target) BY <1>1, <2>1
  <2>3. DeclaredFits(target)' BY <2>2, DeclaredStays
  <2> QED BY <2>1, <2>3
<1>3. CASE db'["binding"] = db["binding"] BY <1>1, <1>2, <1>3 DEF Bound
<1>4. CASE db'["binding"] # db["binding"]
  <2>1. Writes(r) /\ New(r)["binding"] # {} /\ db'["binding"] = db["binding"] \cup New(r)["binding"]
    BY <1>4, TablesAssumption DEF Writes
  <2>2. /\ Intent(r) \in BindIntents /\ BindingOf(r) = {} /\ New(r)["binding"] = BindingRows(r)
    BY <2>1, WhoElseWrites DEF LedgerPart, Known
  <2>3. PICK new : new = [id |-> Body(r).case, by |-> Attempt(r), target |-> TargetOf(r)] OBVIOUS
  <2>4. db'["binding"] = db["binding"] \cup {new} BY <2>1, <2>2, <2>3 DEF BindingRows
  <2>5. new.id = Body(r).case /\ new.target = TargetOf(r) BY <2>3
  <2>6. \A b \in db["binding"] : b.id # new.id BY <2>2, <2>5 DEF BindingOf
  <2>7. PICK target : target = new.target OBVIOUS
  <2>8. DeclaredFits(target)
    <3>1. Len(Locks(r)) = Len(Plan(r)) BY <2>1 DEF Writes
    <3>2. KeyAt(r) = 2 /\ KeyAt(r) <= Len(Plan(r)) /\ Len(Plan(r)) \in Nat
      BY <2>2, KindsApart, PlanHasKey DEF Intents
    <3>3. Len(Locks(r)) >= 1 BY <3>1, <3>2
    <3> QED BY <2>2, <2>5, <2>7, <3>3 DEF ReadPart, Declares
  <2>9. DeclaredFits(target)' BY <2>8, DeclaredStays
  <2>10. DeclaredFits(new.target)' BY <2>7, <2>9
  <2> QED BY <1>1, <1>2, <2>4, <2>6, <2>10 DEF Bound
<1> QED BY <1>3, <1>4

LEMMA LinkedStays ==
  ASSUME LedgerPart, ReadPart, NEW r \in Requests, UNCHANGED db \/ Writes(r)
  PROVE  Linked'
<1>1. Ids("evidence") \subseteq Ids("evidence")' /\ db["link"] \subseteq db'["link"]
  BY RowsGrow, TablesAssumption
<1> SUFFICES ASSUME NEW c \in db'["case"]
             PROVE  c.signal \in LinkedTo(c)' /\ (LinkedTo(c) \cap Ids("evidence"))' # {}
  BY DEF Linked
<1>2. LinkedTo(c) \subseteq LinkedTo(c)' BY <1>1 DEF LinkedTo
<1>3. CASE c \in db["case"]
  <2>1. c.signal \in LinkedTo(c) /\ LinkedTo(c) \cap Ids("evidence") # {}
    BY <1>3 DEF ReadPart, RecordsFit, Linked
  <2> QED BY <1>1, <1>2, <2>1
<1>4. CASE c \notin db["case"]
  <2>1. Writes(r) /\ c \in New(r)["case"] BY <1>4, TablesAssumption DEF Writes
  <2>2. Intent(r) \in SignalIntents BY <2>1, WhoWrites DEF LedgerPart, Known, Signals
  <2>3. New(r) = SubmitRows(r) BY <2>2, KindsApart
  <2>4. /\ c = CaseRow(r) /\ New(r)["link"] = {LinkRow(r)} /\ New(r)["evidence"] = {EvidenceRow(r)}
    BY <2>1, <2>3, TablesAssumption DEF SubmitRows
  <2>5. LinkRow(r) \in db'["link"] /\ EvidenceRow(r) \in db'["evidence"]
    BY <2>1, <2>4, TablesAssumption DEF Writes
  <2>6. PICK e, l : e = EventOf(r) /\ l = LinkRow(r) OBVIOUS
  <2>7. c.id = e /\ c.signal = e BY <2>4, <2>6 DEF CaseRow
  <2>8. l.id = <<e, e>> BY <2>6 DEF LinkRow
  <2>9. e \in LinkedTo(c)' BY <2>5, <2>6, <2>7, <2>8 DEF LinkedTo
  <2>10. e \in Ids("evidence")'
    <3>1. EvidenceRow(r).id = e BY <2>6 DEF EvidenceRow
    <3> QED BY <2>5, <3>1 DEF Ids
  <2> QED BY <2>7, <2>9, <2>10
<1> QED BY <1>3, <1>4

(* A command is let on to the catalog only for an application that is there.  *)
LEMMA ArrivalIsLocated ==
  ASSUME LedgerPart, NEW r \in Requests, Step(r), Arrives(r), UNCHANGED cmd
  PROVE  Located(r)'
<1>1. Intent(r)' = Intent(r) /\ Body(r)' = Body(r) BY CmdStays
<1>2. CASE Intent(r) \notin CatalogIntents \ ApplicationIntents BY <1>1, <1>2 DEF Located
<1>3. CASE Intent(r) \in CatalogIntents \ ApplicationIntents
  <2>1. CatalogCommand(r)
    BY <1>3 DEF Step, Command, SignalIntents, CatalogIntents, ImportIntents,
          BindIntents, ProposeIntents, ConfirmIntents, ApplicationIntents, PartIntents
  <2>2. sessions[r].at = "closed" /\ sessions'[r].at = "open"
    BY Arrived DEF Arrives, Open, LedgerPart
  <2>3. Begin(r, CatalogAdmission(r))
    BY <2>1, <2>2 DEF CatalogCommand, Replay, Unlocked, Commit
  <2>4. CatalogAdmission(r) = None
    <3>1. ASSUME CatalogAdmission(r) # None PROVE FALSE
      <4>1. sessions' = [sessions EXCEPT ![r] = Closed(sessions[r].sent + 1)]
        BY <2>3, <3>1 DEF Begin, Finish
      <4>2. sessions'[r].at = "closed"
        <5>0. sessions[r].sent \in Nat BY DEF LedgerPart, SessionsOK
        <5>1. sessions[r].sent + 1 \in Nat BY <5>0
        <5> QED BY <4>1, <5>1, Closes DEF Open, LedgerPart, SessionsOK
      <4> QED BY <2>2, <4>2
    <3> QED BY <3>1
  <2>5. Body(r).app \in Ids("application")
    BY <1>3, <2>4, RequestsAssumption DEF CatalogAdmission, RefuseReference
  <2>6. Ids("application")' = Ids("application") BY DEF Arrives, Ids
  <2> QED BY <1>1, <2>5, <2>6 DEF Located
<1> QED BY <1>2, <1>3

(* A binding goes on with its case locked only if its version is declared.    *)
LEMMA BindingIsDeclared ==
  ASSUME LedgerPart, ReadPart, NEW r \in Requests, Step(r), UNCHANGED cmd,
         NEW lock, Locks1(r, lock)
  PROVE  Declares(r)'
<1>1. Intent(r)' = Intent(r) /\ TargetOf(r)' = TargetOf(r) BY CmdStays DEF TargetOf
<1>2. UNCHANGED db BY DEF Locks1
<1>3. DeclaredFits(TargetOf(r))' <=> DeclaredFits(TargetOf(r))
  BY <1>1, <1>2 DEF DeclaredFits
<1>4. CASE Intent(r) \notin BindIntents BY <1>1, <1>4 DEF Declares
<1>5. CASE Len(Locks(r)) >= 1 BY <1>1, <1>3, <1>5 DEF Declares, ReadPart
<1>6. CASE Intent(r) \in BindIntents /\ ~(Len(Locks(r)) >= 1)
  <2>1. BindCommand(r)
    BY <1>6 DEF Step, Command, SignalIntents, CatalogIntents, ImportIntents,
          BindIntents, ProposeIntents, ConfirmIntents, ApplicationIntents, PartIntents
  <2>2. sessions[r].at = "open" /\ sessions'[r].at = "open" /\ Len(Locks(r)) = 0
    <3>1. Len(Locks(r)) \in Nat /\ Open(r)' BY Locked DEF LedgerPart
    <3> QED BY <1>6, <3>1 DEF Locks1, Open
  <2>3. ASSUME NEW answer, NEW resource, Finish(r, sessions[r].sent, answer, resource) PROVE FALSE
    <3>1. sessions' = [sessions EXCEPT ![r] = Closed(sessions[r].sent)] BY <2>3 DEF Finish
    <3>2. sessions[r].sent \in Nat BY DEF LedgerPart, SessionsOK
    <3>3. ~Open(r)' BY <3>1, <3>2, Closes DEF LedgerPart
    <3> QED BY <2>2, <3>3 DEF Open
  <2>4. Take(r, BindPlan(r), BindRefusal(r, NextLock(r, BindPlan(r))))
    <3>1. ~Begin(r, Admit(r, "bind")) BY <2>2 DEF Begin, MaySend
    <3>2. ~Replay(r, BindPlan(r), Reused) BY <2>3 DEF Replay
    <3>3. ~Commit(r, BindPlan(r), BindRows(r), <<"binding", Body(r).case>>, Refuse("CATALOG_CONFLICT"))
      BY <2>3 DEF Commit
    <3> QED BY <2>1, <3>1, <3>2, <3>3 DEF BindCommand
  <2>5. BindRefusal(r, NextLock(r, BindPlan(r))) = None BY <2>3, <2>4 DEF Take
  <2>6. NextLock(r, BindPlan(r)) = CaseLock(Body(r).case)
    <3>1. NextLock(r, BindPlan(r)) = BindPlan(r)[1] BY <2>2 DEF NextLock, Locks
    <3>2. BindPlan(r)[1] = CaseLock(Body(r).case)
      <4>1. PICK c, k, o : c = CaseLock(Body(r).case) /\ k = KeyLock(r) /\ o = ControllerLock("case")
        OBVIOUS
      <4>2. PICK t : t = IF BindingOf(r) # {} THEN <<>> ELSE <<o>> OBVIOUS
      <4>3. PICK S : S = {c, k, o} OBVIOUS
      <4>4. t \in Seq(S)
        <5>1. <<o>> \in Seq(S) BY <4>3
        <5>2. <<>> \in Seq(S) OBVIOUS
        <5> QED BY <4>2, <5>1, <5>2
      <4>5. <<c, k>> \in Seq(S) /\ Len(<<c, k>>) = 2 /\ <<c, k>>[1] = c BY <4>3
      <4>6. BindPlan(r) = <<c, k>> \o t BY <4>1, <4>2 DEF BindPlan
      <4>7. PICK s : s = <<c, k>> OBVIOUS
      <4>8. s \in Seq(S) /\ 1 \in 1..Len(s) /\ s[1] = c BY <4>5, <4>7
      <4>9. (s \o t)[1] = s[1] BY <4>4, <4>8, Begins
      <4> QED BY <4>1, <4>6, <4>7, <4>8, <4>9
    <3> QED BY <3>1, <3>2
  <2>7. DeclaredFits(TargetOf(r)) BY <2>5, <2>6, RequestsAssumption DEF BindRefusal
  <2> QED BY <1>3, <2>7 DEF Declares
<1> QED BY <1>4, <1>5, <1>6

LEMMA ClosedReads ==
  ASSUME NEW r, ~Open(r)', Locks(r)' = <<>> PROVE Located(r)' /\ Declares(r)'
<1>1. Len(Locks(r)') = 0 BY DEF Locks
<1> QED BY <1>1 DEF Located, Declares

LEMMA OthersRead ==
  ASSUME ReadPart, UNCHANGED cmd, NEW r \in Requests, UNCHANGED db \/ Writes(r), Others(r),
         NEW q \in Requests \ {r}
  PROVE  Located(q)' /\ Declares(q)'
<1>1. /\ Intent(q)' = Intent(q) /\ Body(q)' = Body(q) /\ TargetOf(q)' = TargetOf(q)
      /\ Open(q)' = Open(q) /\ Locks(q)' = Locks(q)
  BY CmdStays DEF TargetOf, Others
<1>2. Located(q) /\ Declares(q) BY DEF ReadPart
<1>3. Ids("application") \subseteq Ids("application")' BY RowsGrow, TablesAssumption
<1>4. Located(q)' BY <1>1, <1>2, <1>3 DEF Located
<1>5. Declares(q)'
  <2>1. ASSUME DeclaredFits(TargetOf(q)) PROVE DeclaredFits(TargetOf(q))'
    <3>1. PICK target : target = TargetOf(q) OBVIOUS
    <3>2. DeclaredFits(target) BY <2>1, <3>1
    <3>3. DeclaredFits(target)' BY <3>2, DeclaredStays
    <3> QED BY <1>1, <3>1, <3>3 DEF DeclaredFits
  <2> QED BY <1>1, <1>2, <2>1 DEF Declares
<1> QED BY <1>4, <1>5

LEMMA ReadMoves ==
  ASSUME LedgerPart, ReadPart, UNCHANGED cmd, NEW r \in Requests, UNCHANGED db \/ Writes(r),
         Others(r), Located(r)', Declares(r)'
  PROVE  ReadPart'
<1>1. RecordsFit' BY PlacedStays, WholeStays, BoundStays, LinkedStays DEF RecordsFit
<1>2. Imports' BY CmdStays DEF ReadPart, Imports
<1>3. \A q \in Requests : Located(q)' /\ Declares(q)' BY OthersRead
<1> QED BY <1>1, <1>2, <1>3 DEF ReadPart

LEMMA ReadStep ==
  ASSUME LedgerPart, SignalPart, ReadPart, NEW r \in Requests, Step(r) PROVE ReadPart'
<1>1. UNCHANGED cmd /\ (Arrives(r) \/ Ends(r) \/ (\E lock : Locks1(r, lock)) \/ Writes(r))
  BY StepIs
<1>2. CASE Arrives(r)
  <2>1. Others(r) /\ Locks(r)' = <<>> BY <1>2, Arrived DEF LedgerPart
  <2>2. Len(Locks(r)') = 0 BY <2>1 DEF Locks
  <2>3. Declares(r)' BY <2>2 DEF Declares
  <2>4. Located(r)' BY <1>1, <1>2, ArrivalIsLocated
  <2>5. UNCHANGED db BY <1>2 DEF Arrives
  <2> QED BY <1>1, <2>1, <2>3, <2>4, <2>5, ReadMoves
<1>3. CASE Ends(r)
  <2>1. sessions[r].sent \in Nat BY DEF LedgerPart, SessionsOK
  <2>2. PICK n \in {sessions[r].sent, sessions[r].sent + 1} :
          sessions' = [sessions EXCEPT ![r] = Closed(n)]
    BY <1>3 DEF Ends
  <2>3. n \in Nat BY <2>1
  <2>4. Others(r) /\ ~Open(r)' /\ Locks(r)' = <<>> BY <2>2, <2>3, Closes DEF LedgerPart
  <2>5. UNCHANGED db BY <1>3 DEF Ends
  <2> QED BY <1>1, <2>4, <2>5, ClosedReads, ReadMoves
<1>4. CASE \E lock : Locks1(r, lock)
  <2>1. PICK lock : Locks1(r, lock) BY <1>4
  <2>2. Others(r) /\ UNCHANGED db BY <2>1, Locked DEF LedgerPart, Locks1
  <2>3. Declares(r)' BY <1>1, <2>1, BindingIsDeclared
  <2>4. Located(r)'
    <3>1. Intent(r)' = Intent(r) /\ Body(r)' = Body(r) BY <1>1, CmdStays
    <3>2. Open(r) BY <2>1 DEF Locks1
    <3>3. Ids("application")' = Ids("application") BY <2>2 DEF Ids
    <3> QED BY <3>1, <3>2, <3>3 DEF ReadPart, Located
  <2> QED BY <1>1, <2>2, <2>3, <2>4, ReadMoves
<1>5. CASE Writes(r)
  <2>1. Others(r) /\ ~Open(r)' /\ Locks(r)' = <<>> BY <1>1, <1>5, Written
  <2> QED BY <1>1, <1>5, <2>1, ClosedReads, ReadMoves
<1> QED BY <1>1, <1>2, <1>3, <1>4, <1>5

LEMMA ReadBreaks ==
  ASSUME LedgerPart, ReadPart, NEW r \in Requests, Fail(r) PROVE ReadPart'
<1>1. /\ UNCHANGED <<cmd, db>> /\ sessions[r].sent \in Nat
      /\ sessions' = [sessions EXCEPT ![r] = Closed(sessions[r].sent)]
  BY DEF Fail, LedgerPart, SessionsOK
<1>2. Others(r) /\ ~Open(r)' /\ Locks(r)' = <<>> BY <1>1, Closes DEF LedgerPart
<1> QED BY <1>1, <1>2, ClosedReads, ReadMoves

LEMMA ReadSame == ASSUME ReadPart, UNCHANGED vars PROVE ReadPart'
<1>1. UNCHANGED <<cmd, db, sessions>> BY DEF vars
<1>2. RecordsFit'
  <2>1. Placed' BY <1>1 DEF ReadPart, RecordsFit, Placed, Ids
  <2>2. Whole'
    <3>1. ASSUME NEW v PROVE (Repeating(v)' <=> Repeating(v)) /\ (EdgesFit(v)' <=> EdgesFit(v))
      BY <1>1 DEF Repeating, RepeatsADependency, EdgesFit, EdgesOf, Ids
    <3>2. ASSUME NEW v \in db["version"] PROVE Sound(v)'
      <4>1. Sound(v) BY DEF ReadPart, RecordsFit, Whole
      <4>2. PartsFit(v)' /\ v.topology.edges \subseteq Ids("edge")' BY <1>1, <4>1 DEF Sound, PartsFit, Ids
      <4> QED BY <1>1, <3>1, <4>1, <4>2 DEF Sound
    <3> QED BY <1>1, <3>2 DEF Whole
  <2>3. Bound' BY <1>1 DEF ReadPart, RecordsFit, Bound, DeclaredFits
  <2>4. Linked' BY <1>1 DEF ReadPart, RecordsFit, Linked, LinkedTo, Ids
  <2> QED BY <2>1, <2>2, <2>3, <2>4 DEF RecordsFit
<1>3. Imports' BY <1>1, CmdStays DEF ReadPart, Imports
<1>4. ASSUME NEW r \in Requests PROVE Located(r)' /\ Declares(r)'
  <2>1. Located(r) /\ Declares(r) BY DEF ReadPart
  <2>2. Located(r)' BY <1>1, <2>1 DEF Located, Open, Intent, Body, Ids
  <2>3. Declares(r)' BY <1>1, <2>1 DEF Declares, Intent, Locks, DeclaredFits, TargetOf, Body
  <2> QED BY <2>2, <2>3
<1> QED BY <1>2, <1>3, <1>4 DEF ReadPart

LEMMA ReadNext == ASSUME ApiInv, ReadPart, [Next]_allVars PROVE ReadPart'
<1>1. LedgerPart /\ SignalPart BY DEF ApiInv
<1>2. ASSUME NEW r \in Requests, Step(r) PROVE ReadPart' BY <1>1, <1>2, ReadStep
<1>3. ASSUME NEW r \in Requests, Broken(r) PROVE ReadPart' BY <1>1, <1>3, ReadBreaks DEF Broken
<1>4. ASSUME NEW r \in Requests, Reauthenticate(cmd[r].who) PROVE ReadPart'
  BY <1>4, ReadSame DEF Reauthenticate
<1>5. CASE UNCHANGED allVars BY <1>5, ReadSame DEF allVars
<1> QED BY <1>2, <1>3, <1>4, <1>5 DEF Next

LEMMA ReadInit == ASSUME PublicInit, RecordsFit PROVE ReadPart
<1>1. PICK t \in Teams : cmd = t.cmd BY DEF PublicInit, Init
<1>2. Imports BY <1>1, RequestsAssumption DEF Imports, Intent, Body
<1>3. ASSUME NEW r \in Requests PROVE Located(r) /\ Declares(r)
  <2>1. sessions[r] = Closed(0) BY DEF PublicInit, Init
  <2>2. sessions[r].at = "closed" /\ sessions[r].locks = <<>> BY <2>1 DEF Closed
  <2>3. ~Open(r) /\ Len(Locks(r)) = 0 BY <2>2 DEF Open, Locks
  <2> QED BY <2>3 DEF Located, Declares
<1> QED BY <1>2, <1>3 DEF ReadPart

(* Whatever the commands commit, however they meet and break off, those who    *)
(* may see it can read, and go on being able to while the catalog grows, if    *)
(* what was committed before fits together; except the versions whose manifest *)
(* listed a dependency twice, and those can never be read.                   *)
THEOREM CommitsAreReadable == Spec /\ RecordsFit => []CommittedIsReadable
<1>1. ASSUME ApiInv, ReadPart PROVE CommittedIsReadable
  <2>1. SignalsFit(db) /\ ConfirmationsAreEarned BY <1>1 DEF ApiInv, SignalPart, ConfirmPart
  <2>2. Placed /\ Whole /\ Bound /\ Linked BY <1>1 DEF ReadPart, RecordsFit
  <2> SUFFICES ASSUME NEW p \in DOMAIN Can
               PROVE
      /\ \A v \in db["version"] : Accessible(p, v.app) =>
           VersionAnswer(p, v.id) = IF Repeating(v) THEN "INTERNAL_ERROR" ELSE "ok"
      /\ \A t \in {"environment", "component", "edge"} : \A row \in db[t] :
           ProjectOf(row.id[1]) \in Grants[p] => CatalogAnswer(p, t, row.id) = "ok"
      /\ \A b \in db["binding"] :
           CaseAccessible(p, b.id) /\ TargetExists(p, b.target) => BindingAnswer(p, b.id) = "ok"
      /\ \A c \in db["case"] : /\ CaseAnswer(p, c.id) = "ok" <=> Granted(p, c.project, c.env)
                                /\ CriteriaAnswer(p, c.id) # "INTERNAL_ERROR"
      /\ \A e \in db["evidence"] : EvidenceAnswer(p, e.id) # "INTERNAL_ERROR"
    BY DEF CommittedIsReadable
  <2>3. ASSUME NEW v \in db["version"], Accessible(p, v.app)
        PROVE  VersionAnswer(p, v.id) = IF Repeating(v) THEN "INTERNAL_ERROR" ELSE "ok"
    <3>1. PICK found : found = {w \in db["version"] : w.id = v.id} OBVIOUS
    <3>2. v \in found BY <3>1
    <3>3. \A w \in found : PartsFit(w) /\ (EdgesFit(w) <=> ~Repeating(v))
      BY <2>2, <3>1 DEF Whole, Sound
    <3>4. VersionAnswer(p, v.id) =
            IF \A w \in found : ~Accessible(p, w.app) THEN "RESOURCE_NOT_FOUND"
            ELSE IF \A w \in found : PartsFit(w) /\ EdgesFit(w) THEN "ok"
            ELSE "INTERNAL_ERROR"
      BY <3>1 DEF VersionAnswer
    <3> QED BY <2>3, <3>2, <3>3, <3>4
  <2>4. ASSUME NEW t \in {"environment", "component", "edge"}, NEW row \in db[t],
               ProjectOf(row.id[1]) \in Grants[p]
        PROVE  CatalogAnswer(p, t, row.id) = "ok"
    <3>1. row.id \in Ids(t) BY DEF Ids
    <3>2. ApplicationOf(t, row.id) = row.id[1] BY DEF ApplicationOf
    <3>3. row.id[1] \in Ids("application") BY <2>2 DEF Placed
    <3> QED BY <2>4, <3>1, <3>2, <3>3 DEF CatalogAnswer, Accessible
  <2>5. ASSUME NEW b \in db["binding"], CaseAccessible(p, b.id), TargetExists(p, b.target)
        PROVE  BindingAnswer(p, b.id) = "ok"
    BY <2>2, <2>5 DEF BindingAnswer, Bound
  <2>6. ASSUME NEW c \in db["case"]
        PROVE  /\ CaseAnswer(p, c.id) = "ok" <=> Granted(p, c.project, c.env)
               /\ CriteriaAnswer(p, c.id) # "INTERNAL_ERROR"
    <3>1. \A d \in db["case"] : d.id = c.id => d = c BY <2>1 DEF SignalsFit
    <3>2. GraphFits(c)
      <4>1. LinkedTo(c) \subseteq Ids("signal")
        <5>1. ASSUME NEW l \in db["link"] PROVE l.id[1] \in Ids("signal")
          <6>1. PICK s \in db["signal"] : l.id = <<s.id, s.id>> BY <2>1 DEF SignalsFit
          <6> QED BY <6>1 DEF Ids
        <5> QED BY <5>1 DEF LinkedTo
      <4> QED BY <2>2, <4>1 DEF GraphFits, Linked
    <3>3. CaseAnswer(p, c.id) = "ok" <=> Granted(p, c.project, c.env)
      <4>1. CASE Granted(p, c.project, c.env) BY <3>1, <3>2, <4>1 DEF CaseAnswer
      <4>2. CASE ~Granted(p, c.project, c.env)
        <5>1. CaseAnswer(p, c.id) = "RESOURCE_NOT_FOUND" BY <3>1, <4>2 DEF CaseAnswer
        <5> QED BY <4>2, <5>1
      <4> QED BY <4>1, <4>2
    <3>4. \A x \in db["confirmation"] : ConfirmationFits(x)
      BY <2>1 DEF ConfirmationsAreEarned, ConfirmationFits
    <3> QED BY <3>3, <3>4 DEF CriteriaAnswer
  <2>7. ASSUME NEW e \in db["evidence"] PROVE EvidenceAnswer(p, e.id) # "INTERNAL_ERROR"
    BY <2>1 DEF EvidenceAnswer, SignalsFit
  <2> QED BY <2>3, <2>4, <2>5, <2>6, <2>7
<1>2. PublicInit /\ RecordsFit => ReadPart BY ReadInit
<1>3. ApiInv /\ ReadPart /\ [Next]_allVars => ReadPart' BY ReadNext
<1> QED BY <1>1, <1>2, <1>3, ApiInductive, PTL DEF Spec

-----------------------------------------------------------------------------
(* Nothing a command commits closes a cycle                                 *)

LEMMA NewFinite ==
  ASSUME Imports, NEW r \in Requests, Intent(r) \in Intents
  PROVE  IsFiniteSet(New(r)["component"])
<1>0. "component" \in Tables BY TablesAssumption
<1>1. ASSUME NEW t, NEW row PROVE IsFiniteSet(Only(t, row)["component"])
  <2>1. Only(t, row)["component"] = {row} \/ Only(t, row)["component"] = {} BY <1>0 DEF Only
  <2> QED BY <2>1, FS_EmptySet, FS_Singleton
<1>2. CASE Intent(r) \in SignalIntents
  <2>1. New(r) = SubmitRows(r) BY <1>2, KindsApart
  <2>2. New(r)["component"] = {} BY <1>0, <2>1 DEF SubmitRows
  <2> QED BY <2>2, FS_EmptySet
<1>3. CASE Intent(r) \in CatalogIntents
  <2>1. New(r) = Only(TableOf(r), CatalogRow(r)) BY <1>3, KindsApart
  <2> QED BY <1>1, <2>1
<1>4. CASE Intent(r) \in ImportIntents
  <2>1. New(r) = ImportRows(r) BY <1>4, KindsApart
  <2>2. CASE Imported(r) # {}
    <3>1. New(r)["component"] = {} BY <1>0, <2>1, <2>2 DEF ImportRows
    <3> QED BY <3>1, FS_EmptySet
  <2>3. CASE Imported(r) = {}
    <3>1. PICK parts, all, rows :
            /\ parts = PartsOf(r) /\ all = PartsOf(r) \cup PolicyOf(r)
            /\ rows = {[id |-> c, by |-> Attempt(r)] : c \in all}
      OBVIOUS
    <3>2. New(r)["component"] = rows BY <1>0, <2>1, <2>3, <3>1 DEF ImportRows
    <3>3. PICK names : names = Body(r).components OBVIOUS
    <3>4. IsFiniteSet(names) BY <1>4, <3>3 DEF Imports, ManifestFits
    <3>5. IsFiniteSet(parts)
      <4>1. PICK f : f = [n \in names |-> ComponentId(r, n)] OBVIOUS
      <4>2. f \in Surjection(names, parts) BY <3>1, <3>3, <4>1 DEF PartsOf, Surjection
      <4> QED BY <3>4, <4>2, FS_Surjection
    <3>6. IsFiniteSet(PolicyOf(r))
      <4>1. PolicyOf(r) = {} \/ PolicyOf(r) = {ComponentId(r, Body(r).policy)} BY DEF PolicyOf
      <4> QED BY <4>1, FS_EmptySet, FS_Singleton
    <3>7. IsFiniteSet(all) BY <3>1, <3>5, <3>6, FS_Union
    <3>8. IsFiniteSet(rows)
      <4>1. PICK f : f = [c \in all |-> [id |-> c, by |-> Attempt(r)]] OBVIOUS
      <4>2. f \in Surjection(all, rows) BY <3>1, <4>1 DEF Surjection
      <4> QED BY <3>7, <4>2, FS_Surjection
    <3> QED BY <3>2, <3>8
  <2> QED BY <2>2, <2>3
<1>5. CASE Intent(r) \in BindIntents
  <2>1. New(r) = BindRows(r) BY <1>5, KindsApart
  <2>2. New(r)["component"] = {} BY <1>0, <2>1 DEF BindRows
  <2> QED BY <2>2, FS_EmptySet
<1>6. CASE Intent(r) \in ProposeIntents
  <2>1. New(r) = Only("proposal", ProposalRow(r)) BY <1>6, KindsApart
  <2> QED BY <1>1, <2>1
<1>7. CASE Intent(r) \in ConfirmIntents
  <2>1. New(r) = Only("confirmation", ConfirmationRow(r)) BY <1>7, KindsApart
  <2> QED BY <1>1, <2>1
<1> QED BY <1>2, <1>3, <1>4, <1>5, <1>6, <1>7 DEF Intents

(* Edges are written one by one, or with the manifest that has them.          *)
LEMMA WhoDraws ==
  ASSUME NEW r \in Requests, Intent(r) \in Intents, NEW e \in New(r)["edge"]
  PROVE  \/ Draws(r) /\ New(r)["edge"] = {EdgeRow(r)}
         \/ /\ Intent(r) \in ImportIntents /\ Imported(r) = {} /\ New(r) = ImportRows(r)
            /\ New(r)["edge"] = ManifestEdges(r)
<1>0. "edge" \in Tables BY TablesAssumption
<1>1. CASE Intent(r) \in SignalIntents
  <2>1. New(r) = SubmitRows(r) BY <1>1, KindsApart
  <2> QED BY <1>0, <2>1 DEF SubmitRows
<1>2. CASE Intent(r) \in CatalogIntents
  <2>1. New(r) = Only(TableOf(r), CatalogRow(r)) BY <1>2, KindsApart
  <2>2. TableOf(r) = "edge" /\ New(r)["edge"] = {CatalogRow(r)} BY <1>0, <2>1 DEF Only
  <2>3. Draws(r) BY <1>2, <2>2 DEF TableOf, Draws, CatalogIntents, ApplicationIntents, PartIntents
  <2>4. CatalogRow(r) = EdgeRow(r) BY <2>3 DEF CatalogRow, Draws, ApplicationIntents, PartIntents
  <2> QED BY <2>2, <2>3, <2>4
<1>3. CASE Intent(r) \in ImportIntents
  <2>1. New(r) = ImportRows(r) BY <1>3, KindsApart
  <2>2. Imported(r) = {} BY <1>0, <2>1 DEF ImportRows
  <2>3. New(r)["edge"] = ManifestEdges(r) BY <1>0, <2>1, <2>2 DEF ImportRows
  <2> QED BY <1>3, <2>1, <2>2, <2>3
<1>4. CASE Intent(r) \in BindIntents
  <2>1. New(r) = BindRows(r) BY <1>4, KindsApart
  <2> QED BY <1>0, <2>1 DEF BindRows
<1>5. CASE Intent(r) \in ProposeIntents
  <2>1. New(r) = Only("proposal", ProposalRow(r)) BY <1>5, KindsApart
  <2> QED BY <1>0, <2>1 DEF Only
<1>6. CASE Intent(r) \in ConfirmIntents
  <2>1. New(r) = Only("confirmation", ConfirmationRow(r)) BY <1>6, KindsApart
  <2> QED BY <1>0, <2>1 DEF Only
<1> QED BY <1>1, <1>2, <1>3, <1>4, <1>5, <1>6 DEF Intents

LEMMA EdgePlanIs ==
  ASSUME NEW r \in Requests, Draws(r)
  PROVE  /\ Plan(r) = CatalogPlan(r) /\ TableOf(r) = "edge"
         /\ Len(CatalogPlan(r)) = 3 /\ CatalogPlan(r)[2] = GraphLock(Body(r).app)
         /\ Intent(r) \in CatalogIntents
<1>1. Intent(r) \in CatalogIntents BY DEF Draws, CatalogIntents
<1>2. TableOf(r) = "edge" BY DEF Draws, TableOf
<1>3. PICK k, g, o : k = KeyLock(r) /\ g = GraphLock(Body(r).app) /\ o = ControllerLock("catalog")
  OBVIOUS
<1>4. PICK S, s, t, u, p : S = {k, g, o} /\ s = <<k>> /\ t = <<g>> /\ u = <<o>> /\ p = s \o t
  OBVIOUS
<1>5. CatalogPlan(r) = p \o u BY <1>2, <1>3, <1>4 DEF CatalogPlan
<1>6. /\ s \in Seq(S) /\ t \in Seq(S) /\ u \in Seq(S) /\ Len(s) = 1 /\ Len(t) = 1 /\ Len(u) = 1
      /\ t[1] = g
  BY <1>4
<1>7. p \in Seq(S) /\ Len(p) = 2 /\ p[2] = g BY <1>4, <1>6, Begins
<1>8. Len(p \o u) = 3 /\ (p \o u)[2] = g
  <2>1. Len(p \o u) = Len(p) + Len(u) /\ \A i \in 1..Len(p) : (p \o u)[i] = p[i]
    BY <1>6, <1>7, Begins
  <2>2. 2 \in 1..Len(p) BY <1>7
  <2> QED BY <1>6, <1>7, <2>1, <2>2
<1> QED BY <1>1, <1>2, <1>3, <1>5, <1>8, KindsApart

(* Who takes the lock of the graph goes on only if its edge closes no cycle.   *)
LEMMA GraphIsCleared ==
  ASSUME LedgerPart, GraphPart, NEW r \in Requests, Step(r), UNCHANGED cmd,
         NEW lock, Locks1(r, lock)
  PROVE  Clears(r)'
<1>1. Intent(r)' = Intent(r) /\ Body(r)' = Body(r) BY CmdStays
<1>2. UNCHANGED db BY DEF Locks1
<1>3. PICK b : b = Body(r) OBVIOUS
<1>4. /\ Len(Locks(r)) \in Nat /\ Len(Locks(r)') = Len(Locks(r)) + 1 /\ Open(r)'
      /\ \A i \in 1..Len(Locks(r)) : Locks(r)'[i] = Locks(r)[i]
      /\ Locks(r)'[Len(Locks(r)) + 1] = lock
  BY Locked DEF LedgerPart
<1>5. /\ PartsUnder(b.app)' = PartsUnder(b.app)
      /\ Apart(b.from, b.to)' <=> Apart(b.from, b.to)
  BY <1>2 DEF PartsUnder, Apart, Parts, Shut, Arrows, Ids
<1>6. CASE ~Draws(r) BY <1>1, <1>6 DEF Clears, Draws
<1>7. CASE Len(Locks(r)) = 0
  <2>1. ~(Len(Locks(r)') >= 2) BY <1>4, <1>7
  <2> QED BY <2>1 DEF Clears
<1>8. CASE Len(Locks(r)) >= 2
  <2>1. 2 \in 1..Len(Locks(r)) BY <1>4, <1>8
  <2>2. Locks(r)'[2] = Locks(r)[2] BY <1>4, <2>1
  <2>3. Clears(r) BY DEF GraphPart
  <2>4. GraphLock(b.app)' = GraphLock(b.app) BY DEF GraphLock
  <2> QED BY <1>1, <1>3, <1>5, <1>8, <2>2, <2>3 DEF Clears, Draws, GraphLock
<1>9. CASE Draws(r) /\ Len(Locks(r)) = 1
  <2>1. /\ Plan(r) = CatalogPlan(r) /\ TableOf(r) = "edge" /\ Len(CatalogPlan(r)) = 3
        /\ CatalogPlan(r)[2] = GraphLock(b.app) /\ Intent(r) \in CatalogIntents
    BY <1>3, <1>9, EdgePlanIs
  <2>2. CatalogCommand(r)
    BY <2>1 DEF Step, Command, SignalIntents, CatalogIntents, ImportIntents,
          BindIntents, ProposeIntents, ConfirmIntents, ApplicationIntents, PartIntents
  <2>3. sessions[r].at = "open" /\ sessions'[r].at = "open" BY <1>4 DEF Locks1, Open
  <2>4. ASSUME NEW answer, NEW resource, Finish(r, sessions[r].sent, answer, resource) PROVE FALSE
    <3>1. sessions' = [sessions EXCEPT ![r] = Closed(sessions[r].sent)] BY <2>4 DEF Finish
    <3>2. sessions[r].sent \in Nat BY DEF LedgerPart, SessionsOK
    <3>3. ~Open(r)' BY <3>1, <3>2, Closes DEF LedgerPart
    <3> QED BY <2>3, <3>3 DEF Open
  <2>5. Take(r, CatalogPlan(r), CatalogRefusal(r, NextLock(r, CatalogPlan(r))))
    <3>1. ~Begin(r, CatalogAdmission(r)) BY <2>3 DEF Begin, MaySend
    <3>2. ~Replay(r, CatalogPlan(r), Refuse("IDEMPOTENCY_CONFLICT")) BY <2>4 DEF Replay
    <3>3. ~Commit(r, CatalogPlan(r), Only(TableOf(r), CatalogRow(r)),
                  <<TableOf(r), CatalogRow(r).id>>, Refuse("CATALOG_CONFLICT"))
      BY <2>4 DEF Commit
    <3> QED BY <2>2, <3>1, <3>2, <3>3 DEF CatalogCommand
  <2>6. CatalogRefusal(r, NextLock(r, CatalogPlan(r))) = None BY <2>4, <2>5 DEF Take
  <2>7. NextLock(r, CatalogPlan(r)) = GraphLock(b.app)
    <3>1. Len(sessions[r].locks) + 1 = 2 BY <1>9 DEF Locks
    <3> QED BY <2>1, <3>1 DEF NextLock
  <2>8. lock = GraphLock(b.app)
    <3>1. Len(Locks(r)) + 1 = 2 BY <1>9
    <3> QED BY <2>1, <3>1 DEF Locks1
  <2>9. RefuseEdge(r) = None BY <1>3, <2>1, <2>6, <2>7 DEF CatalogRefusal
  <2>10. /\ ComponentBelongs(b.app, b.from) /\ ComponentBelongs(b.app, b.to)
         /\ ~WouldCreateCycle(b.from, b.to)
    BY <1>3, <2>9, RequestsAssumption DEF RefuseEdge
  <2>11. {b.from, b.to} \subseteq PartsUnder(b.app) BY <2>10 DEF ComponentBelongs, PartsUnder
  <2>12. Apart(b.from, b.to) BY <2>10, ReachFinds DEF GraphPart, ComponentBelongs
  <2>13. Locks(r)'[2] = GraphLock(b.app)
    <3>1. Len(Locks(r)) + 1 = 2 BY <1>9
    <3> QED BY <1>4, <2>8, <3>1
  <2> QED BY <1>1, <1>3, <1>5, <2>11, <2>12, <2>13 DEF Clears, GraphLock
<1>10. Len(Locks(r)) = 0 \/ Len(Locks(r)) = 1 \/ Len(Locks(r)) >= 2
  <2>1. PICK k \in Nat : k = Len(Locks(r)) BY <1>4
  <2>2. k = 0 \/ k = 1 \/ k >= 2 OBVIOUS
  <2> QED BY <2>1, <2>2
<1> QED BY <1>6, <1>7, <1>8, <1>9, <1>10

(* An edge between two sets keeps what was apart so, if it does not join the   *)
(* two sides of what it closes no cycle for.                                 *)
LEMMA EdgeKeepsApart ==
  ASSUME Ids("component") \subseteq Ids("component")', NEW n, NEW cut, Parts(n.from, n.to, cut),
         n.from[1] = n.to[1], db'["edge"] \subseteq db["edge"] \cup {n},
         NEW a, NEW b, Apart(a, b), b[1] = n.from[1] /\ a \in cut => b \in cut
  PROVE  Apart(a, b)'
<1>1. PICK T : Parts(a, b, T) BY DEF Apart
<1>2. CASE n.from \notin T
  <2>1. \A e \in db'["edge"] \ db["edge"] : e.from \in T => e.to \in T BY <1>2
  <2> QED BY <1>1, <2>1, PartsStay
<1>3. CASE n.from \in T
  <2>1. b[1] = n.from[1] BY <1>1, <1>3 DEF Parts, PartsUnder
  <2>2. CASE a \in cut
    <3>1. PICK both : both = T \cap cut OBVIOUS
    <3>2. Shut(both) BY <1>1, <3>1 DEF Parts, Shut
    <3>3. Parts(a, b, both) BY <1>1, <2>1, <2>2, <3>1, <3>2 DEF Parts
    <3>4. \A e \in db'["edge"] \ db["edge"] : e.from \in both => e.to \in both
      BY <3>1 DEF Parts
    <3> QED BY <3>3, <3>4, PartsStay
  <2>3. CASE a \notin cut
    <3>1. PICK all : all = T \cup cut OBVIOUS
    <3>2. Shut(all) BY <1>1, <3>1 DEF Parts, Shut
    <3>3. Parts(a, b, all) BY <1>1, <2>1, <2>3, <3>1, <3>2 DEF Parts
    <3>4. \A e \in db'["edge"] \ db["edge"] : e.from \in all => e.to \in all
      BY <3>1 DEF Parts
    <3> QED BY <3>3, <3>4, PartsStay
  <2> QED BY <2>2, <2>3
<1> QED BY <1>2, <1>3

(* What holds of the graph when db changes.                                  *)
Drawn(r) == /\ Joined' /\ NoWayBack'
            /\ \A q \in Requests \ {r} : Draws(q) /\ Len(Locks(q)) >= 2 =>
                 Apart(Body(q).from, Body(q).to)'

LEMMA EdgeIsDrawn ==
  ASSUME LedgerPart, GraphPart, UNCHANGED cmd, NEW r \in Requests, Writes(r), Draws(r),
         New(r)["edge"] = {EdgeRow(r)}
  PROVE  Drawn(r)
<1>1. Ids("component") \subseteq Ids("component")' BY RowsGrow, TablesAssumption
<1>2. PICK n, app : n = EdgeRow(r) /\ app = Body(r).app OBVIOUS
<1>3. n.from = Body(r).from /\ n.to = Body(r).to BY <1>2 DEF EdgeRow
<1>4. db'["edge"] = db["edge"] \cup {n} BY <1>2, TablesAssumption DEF Writes
<1>5. Len(Locks(r)) = 3 BY EdgePlanIs DEF Writes
<1>6. Locks(r)[2] = GraphLock(app) /\ {n.from, n.to} \subseteq PartsUnder(app) /\ Apart(n.from, n.to)
  <2>1. PICK k : k = Len(Locks(r)) OBVIOUS
  <2>2. k >= 2 BY <1>5, <2>1
  <2> QED BY <1>2, <1>3, <2>1, <2>2 DEF GraphPart, Clears
<1>7. PICK cut : Parts(n.from, n.to, cut) BY <1>6 DEF Apart
<1>8. n.from[1] = app /\ n.to[1] = app /\ {n.from, n.to} \subseteq Ids("component")
  BY <1>6 DEF PartsUnder
<1>9. Joined' BY <1>1, <1>4, <1>8 DEF GraphPart, Joined
<1>10. ASSUME NEW e \in db'["edge"] PROVE Apart(e.from, e.to)'
  <2>1. PICK a, b : a = e.from /\ b = e.to OBVIOUS
  <2>2. CASE e \in db["edge"]
    <3>1. Apart(a, b) BY <2>1, <2>2 DEF GraphPart, NoWayBack
    <3>2. a \in cut => b \in cut BY <1>7, <2>1, <2>2, ShutIs DEF Parts
    <3>3. Apart(a, b)' BY <1>1, <1>4, <1>7, <1>8, <3>1, <3>2, EdgeKeepsApart
    <3> QED BY <2>1, <3>3
  <2>3. CASE e = n
    <3>1. \A x \in db'["edge"] \ db["edge"] : x.from \in cut => x.to \in cut BY <1>4, <1>7 DEF Parts
    <3>2. Parts(a, b, cut) BY <1>7, <2>1, <2>3
    <3>3. Apart(a, b)' BY <1>1, <3>1, <3>2, PartsStay
    <3> QED BY <2>1, <3>3
  <2> QED BY <1>4, <2>2, <2>3
<1>11. ASSUME NEW q \in Requests \ {r}, Draws(q), Len(Locks(q)) >= 2
       PROVE  Apart(Body(q).from, Body(q).to)'
  <2>1. PICK a, b, other : a = Body(q).from /\ b = Body(q).to /\ other = Body(q).app OBVIOUS
  <2>2. Locks(q)[2] = GraphLock(other) /\ {a, b} \subseteq PartsUnder(other) /\ Apart(a, b)
    BY <1>11, <2>1 DEF GraphPart, Clears
  <2>3. GraphLock(other) \in Held(q)
    <3>1. 2 \in 1..Len(Locks(q)) BY <1>11, HeldOf DEF LedgerPart, SessionsOK, Locks
    <3> QED BY <2>2, <3>1, HeldOf DEF LedgerPart, SessionsOK, Locks
  <2>4. GraphLock(app) \in Held(r)
    <3>1. 2 \in 1..Len(Locks(r)) BY <1>5
    <3> QED BY <1>6, <3>1, HeldOf DEF LedgerPart, SessionsOK, Locks
  <2>5. other # app BY <2>3, <2>4 DEF LedgerPart, Exclusive
  <2>6. b[1] # n.from[1] BY <1>8, <2>2, <2>5 DEF PartsUnder
  <2>7. Apart(a, b)' BY <1>1, <1>4, <1>7, <1>8, <2>2, <2>6, EdgeKeepsApart
  <2>8. Body(q)' = Body(q) BY CmdStays
  <2> QED BY <2>1, <2>7, <2>8 DEF Apart, Parts
<1> QED BY <1>9, <1>10, <1>11 DEF Drawn, NoWayBack

(* The components of a manifest are new, so none of its edges leaves what was  *)
(* there before.                                                             *)
LEMMA ManifestIsDrawn ==
  ASSUME LedgerPart, GraphPart, UNCHANGED cmd, NEW r \in Requests, Writes(r),
         Intent(r) \in ImportIntents, Imported(r) = {}, New(r) = ImportRows(r),
         New(r)["edge"] = ManifestEdges(r)
  PROVE  Drawn(r)
<1>1. Ids("component") \subseteq Ids("component")' BY RowsGrow, TablesAssumption
<1>2. PICK app, names, edges : app = Body(r).app /\ names = Body(r).components /\ edges = Body(r).edges
  OBVIOUS
<1>3. db'["edge"] = db["edge"] \cup ManifestEdges(r) BY TablesAssumption DEF Writes
<1>4. New(r)["component"] = {[id |-> c, by |-> Attempt(r)] : c \in PartsOf(r) \cup PolicyOf(r)}
  BY TablesAssumption DEF ImportRows
<1>5. ASSUME NEW x \in names
      PROVE  <<app, x>> \notin Ids("component") /\ <<app, x>> \in PartsUnder(app)'
  <2>1. PICK c, row : c = <<app, x>> /\ row = [id |-> c, by |-> Attempt(r)] OBVIOUS
  <2>2. c \in PartsOf(r) BY <1>2, <2>1 DEF PartsOf, ComponentId
  <2>3. row \in New(r)["component"] /\ row.id = c BY <1>4, <2>1, <2>2
  <2>4. row \in db'["component"] BY <2>3, TablesAssumption DEF Writes
  <2>5. c \in Ids("component")' BY <2>3, <2>4 DEF Ids
  <2>6. c \notin Ids("component")
    <3>1. ASSUME NEW old \in db["component"], old.id = c PROVE FALSE
      BY <2>3, <3>1, TablesAssumption DEF Writes, Clash
    <3> QED BY <3>1 DEF Ids
  <2>7. c[1] = app BY <2>1
  <2> QED BY <2>1, <2>5, <2>6, <2>7 DEF PartsUnder
<1>6. ASSUME NEW e \in ManifestEdges(r)
      PROVE  \E i \in DOMAIN edges : e.from = <<app, edges[i][1]>> /\ e.to = <<app, edges[i][2]>>
  <2>1. PICK i \in DOMAIN edges :
          e = [id |-> <<Body(r).app, Append(Attempt(r), i)>>, by |-> Attempt(r),
               from |-> ComponentId(r, edges[i][1]), to |-> ComponentId(r, edges[i][2]),
               relation |-> edges[i][3]]
    BY <1>2 DEF ManifestEdges
  <2>2. e.from = ComponentId(r, edges[i][1]) /\ e.to = ComponentId(r, edges[i][2]) BY <2>1
  <2> QED BY <1>2, <2>2 DEF ComponentId
<1>7. \A i \in DOMAIN edges :
        /\ {edges[i][1], edges[i][2]} \subseteq names
        /\ \E T \in SUBSET names :
             /\ edges[i][2] \in T /\ edges[i][1] \notin T
             /\ \A j \in DOMAIN edges : edges[j][1] \in T => edges[j][2] \in T
  BY <1>2 DEF GraphPart, Imports, ManifestFits
<1>8. ASSUME NEW e \in ManifestEdges(r)
      PROVE  {e.from, e.to} \subseteq Ids("component")' /\ e.from[1] = e.to[1]
             /\ e.from \notin Ids("component")
  <2>1. PICK i \in DOMAIN edges : e.from = <<app, edges[i][1]>> /\ e.to = <<app, edges[i][2]>>
    BY <1>6
  <2>2. edges[i][1] \in names /\ edges[i][2] \in names BY <1>7
  <2>3. <<app, edges[i][1]>> \notin Ids("component") BY <1>5, <2>2
  <2>4. e.from \in PartsUnder(app)' /\ e.to \in PartsUnder(app)' BY <1>5, <2>1, <2>2
  <2>5. e.from[1] = app /\ e.to[1] = app BY <2>1
  <2> QED BY <2>1, <2>3, <2>4, <2>5 DEF PartsUnder
<1>9. Joined' BY <1>1, <1>3, <1>8 DEF GraphPart, Joined
<1>10. ASSUME NEW a, NEW b, Apart(a, b) PROVE Apart(a, b)'
  <2>1. PICK T : Parts(a, b, T) BY <1>10 DEF Apart
  <2>2. \A e \in db'["edge"] \ db["edge"] : e.from \notin T
    BY <1>3, <1>8, <2>1 DEF Parts, PartsUnder
  <2> QED BY <1>1, <2>1, <2>2, PartsStay
<1>11. ASSUME NEW e \in ManifestEdges(r) PROVE Apart(e.from, e.to)'
  <2>1. PICK i \in DOMAIN edges : e.from = <<app, edges[i][1]>> /\ e.to = <<app, edges[i][2]>>
    BY <1>6
  <2>2. PICK T \in SUBSET names :
          /\ edges[i][2] \in T /\ edges[i][1] \notin T
          /\ \A j \in DOMAIN edges : edges[j][1] \in T => edges[j][2] \in T
    BY <1>7
  <2>3. PICK a, b, cut : a = e.from /\ b = e.to /\ cut = {<<app, x>> : x \in T} OBVIOUS
  <2>4. \A x : <<app, x>> \in cut <=> x \in T
    <3>1. ASSUME NEW x, NEW y, <<app, x>> = <<app, y>> PROVE x = y BY <3>1
    <3> QED BY <2>3, <3>1
  <2>5. b \in cut /\ a \notin cut BY <2>1, <2>2, <2>3, <2>4
  <2>6. b[1] = app BY <2>1, <2>3
  <2>7. cut \subseteq PartsUnder(app)' BY <1>5, <2>3
  <2>8. ASSUME NEW x \in Arrows', x[1] \in cut PROVE x[2] \in cut
    <3>1. PICK f \in db'["edge"] : x = <<f.from, f.to>> BY DEF Arrows
    <3>2. x[1] = f.from /\ x[2] = f.to BY <3>1
    <3>3. cut \cap Ids("component") = {} BY <1>5, <2>3
    <3>4. f \in ManifestEdges(r) BY <1>3, <2>8, <3>2, <3>3 DEF GraphPart, Joined
    <3>5. PICK j \in DOMAIN edges : f.from = <<app, edges[j][1]>> /\ f.to = <<app, edges[j][2]>>
      BY <1>6, <3>4
    <3>6. edges[j][1] \in T BY <2>4, <2>8, <3>2, <3>5
    <3>7. edges[j][2] \in T BY <2>2, <3>6
    <3> QED BY <2>4, <3>2, <3>5, <3>7
  <2>9. Shut(cut)' BY <2>8 DEF Shut
  <2>10. Apart(a, b)' BY <2>5, <2>6, <2>7, <2>9 DEF Apart, Parts
  <2> QED BY <2>3, <2>10
<1>12. ASSUME NEW e \in db'["edge"] PROVE Apart(e.from, e.to)'
  <2>1. CASE e \in ManifestEdges(r) BY <1>11, <2>1
  <2>2. CASE e \in db["edge"]
    <3>1. PICK a, b : a = e.from /\ b = e.to OBVIOUS
    <3>2. Apart(a, b) BY <2>2, <3>1 DEF GraphPart, NoWayBack
    <3>3. Apart(a, b)' BY <1>10, <3>2
    <3> QED BY <3>1, <3>3
  <2> QED BY <1>3, <2>1, <2>2
<1>13. ASSUME NEW q \in Requests \ {r}, Draws(q), Len(Locks(q)) >= 2
       PROVE  Apart(Body(q).from, Body(q).to)'
  <2>1. PICK a, b : a = Body(q).from /\ b = Body(q).to OBVIOUS
  <2>2. Apart(a, b) BY <1>13, <2>1 DEF GraphPart, Clears
  <2>3. Apart(a, b)' BY <1>10, <2>2
  <2>4. Body(q)' = Body(q) BY CmdStays
  <2> QED BY <2>1, <2>3, <2>4 DEF Apart, Parts
<1> QED BY <1>9, <1>12, <1>13 DEF Drawn, NoWayBack

LEMMA StaysDrawn ==
  ASSUME LedgerPart, GraphPart, UNCHANGED cmd, NEW r \in Requests, UNCHANGED db \/ Writes(r)
  PROVE  Drawn(r) /\ IsFiniteSet(db["component"])'
<1>1. IsFiniteSet(db["component"])'
  <2>1. CASE UNCHANGED db BY <2>1 DEF GraphPart
  <2>2. CASE Writes(r)
    <3>1. IsFiniteSet(New(r)["component"]) BY NewFinite DEF LedgerPart, Known, GraphPart
    <3>2. db'["component"] = db["component"] \cup New(r)["component"]
      BY <2>2, TablesAssumption DEF Writes
    <3> QED BY <3>1, <3>2, FS_Union DEF GraphPart
  <2> QED BY <2>1, <2>2
<1>2. CASE \E e \in db'["edge"] : e \notin db["edge"]
  <2>1. PICK e \in New(r)["edge"] : Writes(r) BY <1>2, TablesAssumption DEF Writes
  <2>2. Intent(r) \in Intents BY DEF LedgerPart, Known
  <2> QED BY <1>1, <2>1, <2>2, WhoDraws, EdgeIsDrawn, ManifestIsDrawn
<1>3. CASE db'["edge"] \subseteq db["edge"]
  <2>1. Ids("component") \subseteq Ids("component")' BY RowsGrow, TablesAssumption
  <2>2. ASSUME NEW a, NEW b, Apart(a, b) PROVE Apart(a, b)'
    <3>1. PICK T : Parts(a, b, T) BY <2>2 DEF Apart
    <3> QED BY <1>3, <2>1, <3>1, PartsStay
  <2>3. Joined' BY <1>3, <2>1 DEF GraphPart, Joined
  <2>4. ASSUME NEW e \in db'["edge"] PROVE Apart(e.from, e.to)'
    <3>1. PICK a, b : a = e.from /\ b = e.to OBVIOUS
    <3>2. Apart(a, b) BY <1>3, <3>1 DEF GraphPart, NoWayBack
    <3>3. Apart(a, b)' BY <2>2, <3>2
    <3> QED BY <3>1, <3>3
  <2>5. ASSUME NEW q \in Requests \ {r}, Draws(q), Len(Locks(q)) >= 2
        PROVE  Apart(Body(q).from, Body(q).to)'
    <3>1. PICK a, b : a = Body(q).from /\ b = Body(q).to OBVIOUS
    <3>2. Apart(a, b) BY <2>5, <3>1 DEF GraphPart, Clears
    <3>3. Apart(a, b)' BY <2>2, <3>2
    <3>4. Body(q)' = Body(q) BY CmdStays
    <3> QED BY <3>1, <3>3, <3>4 DEF Apart, Parts
  <2> QED BY <1>1, <2>3, <2>4, <2>5 DEF Drawn, NoWayBack
<1> QED BY <1>2, <1>3

LEMMA GraphMoves ==
  ASSUME LedgerPart, GraphPart, UNCHANGED cmd, NEW r \in Requests, UNCHANGED db \/ Writes(r),
         Others(r), Clears(r)'
  PROVE  GraphPart'
<1>1. Drawn(r) /\ IsFiniteSet(db["component"])' BY StaysDrawn
<1>2. Imports' BY CmdStays DEF GraphPart, Imports
<1>3. ASSUME NEW q \in Requests \ {r} PROVE Clears(q)'
  <2>1. Intent(q)' = Intent(q) /\ Body(q)' = Body(q) /\ Locks(q)' = Locks(q)
    BY CmdStays DEF Others
  <2>2. CASE ~(Draws(q) /\ Len(Locks(q)) >= 2) BY <2>1, <2>2 DEF Clears, Draws
  <2>3. CASE Draws(q) /\ Len(Locks(q)) >= 2
    <3>1. Locks(q)[2] = GraphLock(Body(q).app)
          /\ {Body(q).from, Body(q).to} \subseteq PartsUnder(Body(q).app)
      BY <2>3 DEF GraphPart, Clears
    <3>2. Apart(Body(q).from, Body(q).to)' BY <1>1, <2>3 DEF Drawn
    <3>3. Ids("component") \subseteq Ids("component")' BY RowsGrow, TablesAssumption
    <3>4. {Body(q).from, Body(q).to}' \subseteq PartsUnder(Body(q).app)'
      BY <2>1, <3>1, <3>3 DEF PartsUnder
    <3> QED BY <2>1, <3>1, <3>2, <3>4 DEF Clears, GraphLock
  <2> QED BY <2>2, <2>3
<1>4. \A q \in Requests : Clears(q)' BY <1>3
<1> QED BY <1>1, <1>2, <1>4 DEF Drawn, GraphPart

LEMMA NothingCleared == ASSUME NEW r, Locks(r)' = <<>> PROVE Clears(r)'
<1>1. Len(Locks(r)') = 0 BY DEF Locks
<1> QED BY <1>1 DEF Clears

LEMMA GraphStep ==
  ASSUME LedgerPart, SignalPart, GraphPart, NEW r \in Requests, Step(r) PROVE GraphPart'
<1>1. UNCHANGED cmd /\ (Arrives(r) \/ Ends(r) \/ (\E lock : Locks1(r, lock)) \/ Writes(r))
  BY StepIs
<1>2. CASE Arrives(r)
  <2>1. Others(r) /\ Locks(r)' = <<>> BY <1>2, Arrived DEF LedgerPart
  <2>2. UNCHANGED db BY <1>2 DEF Arrives
  <2> QED BY <1>1, <2>1, <2>2, NothingCleared, GraphMoves
<1>3. CASE Ends(r)
  <2>1. sessions[r].sent \in Nat BY DEF LedgerPart, SessionsOK
  <2>2. PICK n \in {sessions[r].sent, sessions[r].sent + 1} :
          sessions' = [sessions EXCEPT ![r] = Closed(n)]
    BY <1>3 DEF Ends
  <2>3. n \in Nat BY <2>1
  <2>4. Others(r) /\ Locks(r)' = <<>> BY <2>2, <2>3, Closes DEF LedgerPart
  <2>5. UNCHANGED db BY <1>3 DEF Ends
  <2> QED BY <1>1, <2>4, <2>5, NothingCleared, GraphMoves
<1>4. CASE \E lock : Locks1(r, lock)
  <2>1. PICK lock : Locks1(r, lock) BY <1>4
  <2>2. Others(r) /\ UNCHANGED db BY <2>1, Locked DEF LedgerPart, Locks1
  <2>3. Clears(r)' BY <1>1, <2>1, GraphIsCleared
  <2> QED BY <1>1, <2>2, <2>3, GraphMoves
<1>5. CASE Writes(r)
  <2>1. Others(r) /\ Locks(r)' = <<>> BY <1>1, <1>5, Written
  <2> QED BY <1>1, <1>5, <2>1, NothingCleared, GraphMoves
<1> QED BY <1>1, <1>2, <1>3, <1>4, <1>5

LEMMA GraphBreaks ==
  ASSUME LedgerPart, GraphPart, NEW r \in Requests, Fail(r) PROVE GraphPart'
<1>1. /\ UNCHANGED <<cmd, db>> /\ sessions[r].sent \in Nat
      /\ sessions' = [sessions EXCEPT ![r] = Closed(sessions[r].sent)]
  BY DEF Fail, LedgerPart, SessionsOK
<1>2. Others(r) /\ Locks(r)' = <<>> BY <1>1, Closes DEF LedgerPart
<1> QED BY <1>1, <1>2, NothingCleared, GraphMoves

LEMMA GraphSame == ASSUME GraphPart, UNCHANGED vars PROVE GraphPart'
<1>1. UNCHANGED <<cmd, db, sessions>> BY DEF vars
<1>2. IsFiniteSet(db["component"])' /\ Joined' BY <1>1 DEF GraphPart, Joined, Ids
<1>3. Imports' BY <1>1, CmdStays DEF GraphPart, Imports
<1>4. NoWayBack' BY <1>1 DEF GraphPart, NoWayBack, Apart, Parts, PartsUnder, Shut, Arrows, Ids
<1>5. ASSUME NEW r \in Requests PROVE Clears(r)'
  <2>1. Clears(r) BY DEF GraphPart
  <2> QED BY <1>1, <2>1
        DEF Clears, Draws, Intent, Body, Locks, GraphLock, Apart, Parts, PartsUnder, Shut, Arrows, Ids
<1> QED BY <1>2, <1>3, <1>4, <1>5 DEF GraphPart

LEMMA GraphNext == ASSUME ApiInv, GraphPart, [Next]_allVars PROVE GraphPart'
<1>1. LedgerPart /\ SignalPart BY DEF ApiInv
<1>2. ASSUME NEW r \in Requests, Step(r) PROVE GraphPart' BY <1>1, <1>2, GraphStep
<1>3. ASSUME NEW r \in Requests, Broken(r) PROVE GraphPart' BY <1>1, <1>3, GraphBreaks DEF Broken
<1>4. ASSUME NEW r \in Requests, Reauthenticate(cmd[r].who) PROVE GraphPart'
  BY <1>4, GraphSame DEF Reauthenticate
<1>5. CASE UNCHANGED allVars BY <1>5, GraphSame DEF allVars
<1> QED BY <1>2, <1>3, <1>4, <1>5 DEF Next

LEMMA GraphInit == ASSUME PublicInit, Joined, GraphIsAcyclic PROVE GraphPart
<1>1. PICK t \in Teams : /\ cmd = t.cmd
                        /\ db = [k \in Tables |-> IF k \in DOMAIN t.seed THEN t.seed[k] ELSE {}]
  BY DEF PublicInit, Init
<1>2. Imports BY <1>1, RequestsAssumption DEF Imports, Intent, Body
<1>3. IsFiniteSet(db["component"])
  <2>1. db["component"] = SeedOf(t)["component"] BY <1>1 DEF SeedOf
  <2> QED BY <2>1, SeedsAssumption
<1>4. ASSUME NEW e \in db["edge"] PROVE Apart(e.from, e.to)
  <2>1. e.to \in Ids("component") /\ ~WouldCreateCycle(e.from, e.to) BY DEF Joined, GraphIsAcyclic
  <2> QED BY <1>3, <2>1, ReachFinds
<1>5. ASSUME NEW r \in Requests PROVE Clears(r)
  <2>1. sessions[r] = Closed(0) BY DEF PublicInit, Init
  <2>2. sessions[r].locks = <<>> BY <2>1 DEF Closed
  <2>3. Len(Locks(r)) = 0 BY <2>2 DEF Locks
  <2> QED BY <2>3 DEF Clears
<1> QED BY <1>2, <1>3, <1>4, <1>5 DEF GraphPart, NoWayBack

(* However many edges are recorded at once, and whatever manifests are         *)
(* imported beside them, no component comes to depend on itself, if none did  *)
(* and every dependency was between components of one application: the search *)
(* an edge is let through by stays true until it is written, for the lock of  *)
(* its graph is held until then.                                             *)
THEOREM DependenciesStayAcyclic == Spec /\ Joined /\ GraphIsAcyclic => []GraphIsAcyclic
<1>1. ASSUME GraphPart PROVE GraphIsAcyclic
  <2> SUFFICES ASSUME NEW e \in db["edge"] PROVE ~WouldCreateCycle(e.from, e.to)
    BY DEF GraphIsAcyclic
  <2>1. e.to \in Ids("component") /\ Apart(e.from, e.to) BY <1>1 DEF GraphPart, Joined, NoWayBack
  <2> QED BY <1>1, <2>1, ReachFinds DEF GraphPart
<1>2. PublicInit /\ Joined /\ GraphIsAcyclic => GraphPart BY GraphInit
<1>3. ApiInv /\ GraphPart /\ [Next]_allVars => GraphPart' BY GraphNext
<1> QED BY <1>1, <1>2, <1>3, ApiInductive, PTL DEF Spec
=============================================================================
