------------------------ MODULE ExternalIntentsProofs ------------------------
(***************************************************************************)
(* Proofs about ExternalIntents for any keys, handlers, teams, workers,      *)
(* candidates and bound on faults: the types, that what is completed is what *)
(* Quality did, that a candidate is recorded under its lease, and that every *)
(* step is one of DurableIntent.                                            *)
(***************************************************************************)
EXTENDS ExternalIntents, TLAPS

-----------------------------------------------------------------------------
(* What Quality does with a request *)

Versions == [VersionSets -> VersionRow]
Caches == [{"inject", "recover"} -> Receipts \cup {None}]

LEMMA RowsApart ==
  /\ "base" \in VersionSets /\ "fault" \in VersionSets
  /\ "base" \notin OfKind("create") /\ "fault" \notin OfKind("create")
  /\ Absent \in VersionRow
BY KeysAssumption DEF VersionSets, OfKind, Absent, Ver, VersionRow

LEMMA BumpStands ==
  ASSUME NEW v \in Versions, NEW id \in VersionSets,
         NEW status \in {"draft", "staged", "canary", "active", "superseded", "rolled_back"}
  PROVE  /\ Bump(v, id, status) \in Versions
         /\ Bump(v, id, status)[id] # Absent
         /\ \A j \in VersionSets \ {id} : Bump(v, id, status)[j] = v[j]
<1>1. v[id].rev + 1 \in Nat BY DEF Versions, VersionRow
<1>2. Ver(status, v[id].rev + 1) \in VersionRow /\ Ver(status, v[id].rev + 1) # Absent
  BY <1>1 DEF Ver, VersionRow, Absent
<1> QED BY <1>2 DEF Bump, Versions

(* Which candidates there are is for their creation alone to change.         *)
Same(v, w) == \A j \in OfKind("create") : v[j] = Absent <=> w[j] = Absent

LEMMA BumpOther ==
  ASSUME NEW v \in Versions, NEW id \in VersionSets,
         NEW status \in {"draft", "staged", "canary", "active", "superseded", "rolled_back"},
         id \in OfKind("create") => v[id] # Absent
  PROVE  Bump(v, id, status) \in Versions /\ Same(v, Bump(v, id, status))
<1> DEFINE w == Bump(v, id, status)
<1>1. w \in Versions /\ w[id] # Absent /\ \A j \in VersionSets \ {id} : w[j] = v[j]
  <2>1. /\ Bump(v, id, status) \in Versions
        /\ Bump(v, id, status)[id] # Absent
        /\ \A j \in VersionSets \ {id} : Bump(v, id, status)[j] = v[j]
    BY BumpStands
  <2> QED BY <2>1
<1>2. OfKind("create") \subseteq VersionSets BY DEF VersionSets
<1> HIDE DEF w
<1>3. Same(v, w) BY <1>1, <1>2 DEF Same
<1> QED BY <1>1, <1>3 DEF w

(* A demo operation is answered by a refusal or by the receipt Quality keeps. *)
Receives(t, r) ==
  /\ r.ver \in Versions /\ Same(ver, r.ver)
  /\ r.cache \in Caches
  /\ \A u \in {"inject", "recover"} : cache[u] # None \/ u # t => r.cache[u] = cache[u]
  /\ r.answer = Refused \/ (r.cache[t] # None /\ r.answer = r.cache[t])

LEMMA Refuses ==
  ASSUME TypeOK, NEW t, NEW r, NEW v \in Versions, Same(ver, v), r = Does(v, cache, Refused)
  PROVE  Receives(t, r)
BY DEF Receives, Does, TypeOK, Caches

LEMMA Repeats ==
  ASSUME TypeOK, NEW t \in {"inject", "recover"}, NEW r, cache[t] # None,
         r = Does(ver, cache, cache[t])
  PROVE  Receives(t, r)
BY DEF Receives, Does, TypeOK, Caches, Same, Versions

LEMMA Keeps ==
  ASSUME TypeOK, NEW t \in {"inject", "recover"}, NEW r, cache[t] = None,
         NEW v \in Versions, Same(ver, v), NEW receipt \in Receipts,
         r = Does(v, [cache EXCEPT ![t] = receipt], receipt)
  PROVE  Receives(t, r)
<1>1. receipt # None BY AnswersAssumption
<1> QED BY <1>1 DEF Receives, Does, TypeOK, Caches

LEMMA InjectReceives ==
  ASSUME TypeOK PROVE Receives("inject", Inject)
<1>0. ver \in Versions /\ Same(ver, ver) BY DEF TypeOK, Versions, Same
<1>1. CASE cache["inject"] # None
  <2>1. Inject = Does(ver, cache, cache["inject"]) BY <1>1 DEF Inject
  <2> QED BY <1>1, <2>1, Repeats
<1>2. CASE cache["inject"] = None /\ ver["base"].status # "active"
  <2>1. Inject = Does(ver, cache, Refused) BY <1>2 DEF Inject
  <2> QED BY <1>0, <2>1, Refuses
<1>3. CASE cache["inject"] = None /\ ver["base"].status = "active"
  <2>1. PICK u \in Versions : u = Bump(ver, "base", "superseded") /\ Same(ver, u)
    BY <1>0, RowsApart, BumpOther
  <2>2. PICK v \in Versions : v = Bump(u, "fault", "active") /\ Same(u, v)
    BY RowsApart, BumpOther
  <2>3. Same(ver, v) BY <2>1, <2>2 DEF Same
  <2>4. PICK receipt : receipt = [previous |-> v["base"].rev, fault |-> v["fault"].rev]
    OBVIOUS
  <2>5. receipt \in Receipts BY <2>4, RowsApart DEF Receipts, Versions, VersionRow
  <2>6. Inject = Does(v, [cache EXCEPT !["inject"] = receipt], receipt)
    BY <1>3, <2>1, <2>2, <2>4 DEF Inject
  <2> QED BY <1>3, <2>3, <2>5, <2>6, Keeps
<1> QED BY <1>1, <1>2, <1>3

LEMMA ReceiptType ==
  ASSUME NEW v \in Versions PROVE RecoverReceipt(v) \in Receipts
<1>1. (IF Quarantined = None THEN None ELSE v[Quarantined]) \in VersionRow \cup {None}
  BY CandidatesAssumption DEF Versions, VersionSets
<1>2. v["base"].rev \in Nat /\ v["fault"].rev \in Nat BY RowsApart DEF Versions, VersionRow
<1> QED BY <1>1, <1>2 DEF RecoverReceipt, Receipts

LEMMA RecoverReceives ==
  ASSUME TypeOK PROVE Receives("recover", Recover)
<1> DEFINE staged == Quarantined # None /\ ver[Quarantined].status \in {"staged", "canary"}
           Kept(v) == Does(v, [cache EXCEPT !["recover"] = RecoverReceipt(v)], RecoverReceipt(v))
<1>0. ver \in Versions /\ Same(ver, ver) BY DEF TypeOK, Versions, Same
<1>1. PICK u \in Versions : u = Bump(ver, "fault", "draft") /\ Same(ver, u)
  BY <1>0, RowsApart, BumpOther
<1>2. PICK back \in Versions : back = Bump(u, "base", "active") /\ Same(u, back)
  BY RowsApart, BumpOther
<1>3. Same(ver, back) BY <1>1, <1>2 DEF Same
<1>4. PICK done \in Versions :
        /\ done = IF staged THEN Bump(back, Quarantined, "rolled_back") ELSE back
        /\ Same(ver, done)
  <2>1. CASE staged
    <3>1. Quarantined \in VersionSets /\ Quarantined \in OfKind("create")
      BY <2>1, CandidatesAssumption DEF VersionSets
    <3>2. ver[Quarantined] # Absent BY <2>1 DEF Absent, Ver
    <3>3. back[Quarantined] # Absent BY <1>3, <3>1, <3>2 DEF Same
    <3>4. PICK v \in Versions : v = Bump(back, Quarantined, "rolled_back") /\ Same(back, v)
      BY <3>1, <3>3, BumpOther
    <3>5. Same(ver, v) BY <1>3, <3>4 DEF Same
    <3> QED BY <2>1, <3>4, <3>5
  <2>2. CASE ~staged BY <1>3, <2>2
  <2> QED BY <2>1, <2>2
<1>5. CASE cache["recover"] # None
  <2>1. Recover = Does(ver, cache, cache["recover"]) BY <1>5 DEF Recover
  <2> QED BY <1>5, <2>1, Repeats
<1>6. CASE cache["recover"] = None
  <2>1. \/ Recover = Does(ver, cache, Refused)
        \/ Recover = Kept(ver)
        \/ Recover = Does(back, cache, Refused)
        \/ Recover = Kept(done)
    BY <1>1, <1>2, <1>4, <1>6 DEF Recover
  <2>2. ASSUME NEW v \in Versions, Same(ver, v), Recover = Kept(v)
        PROVE  Receives("recover", Recover)
    <3>1. PICK receipt \in Receipts : receipt = RecoverReceipt(v) BY ReceiptType
    <3> QED BY <1>6, <2>2, <3>1, Keeps
  <2> QED BY <1>0, <1>3, <1>4, <2>1, <2>2, Refuses
<1> QED BY <1>5, <1>6

(* Every request: it makes at most its own candidate, and no receipt that is  *)
(* kept is replaced.                                                         *)
Takes(k, r) ==
  /\ r.ver \in Versions /\ r.cache \in Caches
  /\ \A j \in OfKind("create") : ver[j] # Absent => r.ver[j] # Absent
  /\ \A j \in OfKind("create") : ver[j] = Absent /\ r.ver[j] # Absent => j = k
  /\ \A t \in {"inject", "recover"} : cache[t] # None => r.cache[t] = cache[t]
  /\ \A t \in {"inject", "recover"} : r.cache[t] # cache[t] => t = KindOf[k]
  /\ KindOf[k] = "create" => r.ver[k] # Absent /\ r.answer \in VersionRow
  /\ KindOf[k] # "create" => \/ r.answer = Refused
                             \/ /\ r.cache[KindOf[k]] # None
                                /\ r.answer = r.cache[KindOf[k]]

LEMMA QualityTakes ==
  ASSUME TypeOK, NEW k \in Keys PROVE Takes(k, Quality(k))
<1>1. CASE KindOf[k] = "create"
  <2>1. k \in VersionSets /\ ver[k] \in VersionRow
    BY <1>1 DEF TypeOK, OfKind, VersionSets
  <2>2. Ver("draft", 1) \in VersionRow /\ Ver("draft", 1) # Absent
    BY DEF Ver, VersionRow, Absent
  <2>3. CASE ver[k] = Absent
    <3>1. Quality(k) = Does([ver EXCEPT ![k] = Ver("draft", 1)], cache, Ver("draft", 1))
      BY <1>1, <2>3 DEF Quality, Create
    <3>2. PICK v : v = [ver EXCEPT ![k] = Ver("draft", 1)] OBVIOUS
    <3>3. /\ v \in Versions /\ v[k] # Absent
          /\ \A j \in VersionSets \ {k} : v[j] = ver[j]
      BY <2>1, <2>2, <3>2 DEF TypeOK, Versions
    <3>4. OfKind("create") \subseteq VersionSets BY DEF VersionSets
    <3> QED BY <1>1, <2>2, <2>3, <3>1, <3>2, <3>3, <3>4 DEF Takes, Does, TypeOK, Caches
  <2>4. CASE ver[k] # Absent
    <3>1. Quality(k) = Does(ver, cache, ver[k]) BY <1>1, <2>4 DEF Quality, Create
    <3> QED BY <1>1, <2>1, <2>4, <3>1 DEF Takes, Does, TypeOK, Caches, Versions
  <2> QED BY <2>3, <2>4
<1>2. ASSUME NEW t \in {"inject", "recover"}, NEW r, Receives(t, r), KindOf[k] = t
      PROVE  Takes(k, r)
  BY <1>2 DEF Takes, Receives, Same
<1>3. CASE KindOf[k] = "inject" BY <1>2, <1>3, InjectReceives DEF Quality
<1>4. CASE KindOf[k] = "recover" BY <1>2, <1>4, RecoverReceives DEF Quality
<1> QED BY <1>1, <1>3, <1>4, KeysAssumption DEF Kinds

LEMMA AnswerType ==
  ASSUME TypeOK, NEW k \in Keys PROVE Quality(k).answer \in Answers
<1>1. KindOf[k] \in {"create", "inject", "recover"} BY KeysAssumption DEF Kinds
<1>2. Takes(k, Quality(k)) BY QualityTakes
<1> QED BY <1>1, <1>2 DEF Takes, Caches, Answers

-----------------------------------------------------------------------------
(* What handlers and intents know of Quality *)

Intended(k) == intent[k].state # None
IsKept(t, receipt) == cache[t] # None /\ receipt = cache[t]

(* Whatever is under way, or on the wire, was recorded.                      *)
Sent == /\ \A q \in Requests : req[q].at \in {"calling", "unread", "answered"} => Intended(KeyOf[q])
        /\ \A k \in stray : Intended(k)
(* What took effect was recorded.                                            *)
Landed == /\ \A k \in OfKind("create") : ver[k] # Absent => Intended(k)
          /\ \A t \in {"inject", "recover"} : cache[t] # None => \E k \in OfKind(t) : Intended(k)
(* A recovery reads back what Quality kept, or nonsense.                     *)
Reads(q) == req[q].at = "unread" =>
  /\ KindOf[KeyOf[q]] = "recover"
  /\ req[q].answer = Malformed \/ IsKept("recover", req[q].answer)
(* A sound answer is the effect of the operation.                            *)
IsProof(k, answer) == IF KindOf[k] = "create"
                      THEN answer = Ver("draft", 1) /\ ver[k] # Absent
                      ELSE IsKept(KindOf[k], answer)
Holds(q) == req[q].at = "answered" /\ req[q].sound => IsProof(KeyOf[q], req[q].answer)
(* A completed intent was completed once, with such an answer.               *)
Completed(k) ==
  /\ completed[k] = IF Settled(k) THEN 1 ELSE 0
  /\ Settled(k) => IF KindOf[k] = "create" THEN ver[k] # Absent
                   ELSE IsKept(KindOf[k], intent[k].receipt)
  /\ KindOf[k] = "create" => IF Settled(k)
                             THEN candidate[k] # None /\ candidate[k] = intent[k].receipt
                             ELSE candidate[k] = None
  /\ intent[k].state = "FAILED" => KindOf[k] = "create"

RealInv == /\ Sent /\ Landed
           /\ \A q \in Requests : Reads(q) /\ Holds(q)
           /\ \A k \in Keys : Completed(k)

LEMMA RealInit == Init => TypeOK /\ RealInv
<1> SUFFICES ASSUME Init PROVE TypeOK /\ RealInv OBVIOUS
<1>1. (CHOOSE w \in Workers : TRUE) \in Workers BY KeysAssumption
<1>2. \A v \in VersionSets : ver[v] \in VersionRow
  BY DEF Init, Ver, Absent, VersionRow
<1>3. ver \in [VersionSets -> VersionRow] BY <1>2 DEF Init
<1>4. PICK team \in Teams :
        req = [q \in Requests |-> [at |-> IF q \in team THEN "idle" ELSE "absent",
                                   answer |-> None, sound |-> FALSE]]
  BY DEF Init
<1>5. TypeOK BY <1>1, <1>3, <1>4, BoundAssumption DEF Init, TypeOK
<1>6. \A k \in OfKind("create") : ver[k] = Absent
  BY KeysAssumption DEF Init, OfKind, VersionSets
<1>7. \A k \in Keys : intent[k].state = None /\ ~Settled(k)
  BY AnswersAssumption DEF Init, Settled, IntentStates
<1>8. Sent /\ Landed BY <1>4, <1>6 DEF Init, Sent, Landed
<1>9. \A q \in Requests : Reads(q) /\ Holds(q) BY <1>4 DEF Reads, Holds
<1>10. ASSUME NEW k \in Keys PROVE Completed(k)
  <2>1. KindOf[k] = "create" => candidate[k] = None BY DEF Init, OfKind
  <2>2. completed[k] = 0 BY DEF Init
  <2>3. intent[k].state # "FAILED" BY <1>7, AnswersAssumption DEF IntentStates
  <2> QED BY <1>7, <2>1, <2>2, <2>3 DEF Completed
<1> QED BY <1>5, <1>8, <1>9, <1>10 DEF RealInv

-----------------------------------------------------------------------------
(* The invariant is inductive                                               *)

ReqRows == [Requests -> [at : {"absent", "idle", "calling", "unread", "answered"},
                         answer : Answers \cup {None}, sound : BOOLEAN]]

(* What is done at Quality stays done.                                       *)
Grows == /\ ver' \in Versions /\ cache' \in Caches
         /\ \A j \in OfKind("create") : ver[j] # Absent => ver'[j] # Absent
         /\ \A t \in {"inject", "recover"} : cache[t] # None => cache'[t] = cache[t]
Advances == \A k \in Keys : Intended(k) => Intended(k)'

LEMMA ProofsStand ==
  ASSUME Grows
  PROVE  /\ \A t \in {"inject", "recover"} : \A a : IsKept(t, a) => IsKept(t, a)'
         /\ \A k \in Keys : \A a : IsProof(k, a) => IsProof(k, a)'
<1>1. \A t \in {"inject", "recover"} : \A a : IsKept(t, a) => IsKept(t, a)' BY DEF Grows, IsKept
<1>2. ASSUME NEW k \in Keys, NEW a, IsProof(k, a) PROVE IsProof(k, a)'
  <2>1. CASE KindOf[k] = "create" BY <1>2, <2>1 DEF IsProof, Grows, OfKind
  <2>2. CASE KindOf[k] # "create"
    <3>1. KindOf[k] \in {"inject", "recover"} BY <2>2, KeysAssumption DEF Kinds
    <3> QED BY <1>1, <1>2, <2>2, <3>1 DEF IsProof
  <2> QED BY <2>1, <2>2
<1> QED BY <1>1, <1>2

LEMMA RemoteStays == ASSUME TypeOK, UNCHANGED <<ver, cache>> PROVE Grows
BY DEF Grows, TypeOK, Versions, Caches

LEMMA ArrivalGrows ==
  ASSUME TypeOK, Landed, NEW k \in Keys, Intended(k), UNCHANGED intent, Arrives(k)
  PROVE  /\ Grows /\ Landed' /\ Takes(k, Quality(k))
         /\ ver' = Quality(k).ver /\ cache' = Quality(k).cache
<1>1. Takes(k, Quality(k)) BY QualityTakes
<1>2. ver' = Quality(k).ver /\ cache' = Quality(k).cache BY DEF Arrives
<1>3. Grows BY <1>1, <1>2 DEF Takes, Grows
<1>4. ASSUME NEW j \in OfKind("create"), ver'[j] # Absent PROVE Intended(j)'
  BY <1>1, <1>2, <1>4 DEF Takes, Landed, Intended
<1>5. ASSUME NEW t \in {"inject", "recover"}, cache'[t] # None
      PROVE  \E j \in OfKind(t) : Intended(j)'
  <2>1. CASE cache'[t] = cache[t] BY <1>5, <2>1 DEF Landed, Intended
  <2>2. CASE cache'[t] # cache[t]
    <3>1. k \in OfKind(t) BY <1>1, <1>2, <2>2 DEF Takes, OfKind
    <3> QED BY <3>1 DEF Intended
  <2> QED BY <2>1, <2>2
<1>6. Landed' BY <1>4, <1>5 DEF Landed
<1> QED BY <1>1, <1>2, <1>3, <1>6

LEMMA LandedStays ==
  ASSUME TypeOK, Landed, Advances, UNCHANGED <<ver, cache>> PROVE Landed'
<1>1. OfKind("create") \subseteq Keys /\ \A t \in {"inject", "recover"} : OfKind(t) \subseteq Keys
  BY DEF OfKind
<1> QED BY <1>1 DEF Landed, Advances

LEMMA CompletedStands ==
  ASSUME NEW k \in Keys, Completed(k), Grows, UNCHANGED local PROVE Completed(k)'
<1>1. Settled(k)' <=> Settled(k) BY DEF Settled, local
<1>2. CASE KindOf[k] = "create" BY <1>1, <1>2 DEF Completed, local, Grows, OfKind
<1>3. CASE KindOf[k] # "create"
  <2>1. KindOf[k] \in {"inject", "recover"} BY <1>3, KeysAssumption DEF Kinds
  <2> QED BY <1>1, <1>3, <2>1 DEF Completed, local, Grows, IsKept
<1> QED BY <1>2, <1>3

(* Where one handler moves, the others hold what they held.                  *)
LEMMA OneMoves ==
  ASSUME TypeOK, RealInv, Grows, Advances, Landed', \A k \in Keys : Completed(k)',
         NEW q \in Requests, \A p \in Requests \ {q} : req'[p] = req[p],
         req'[q].at \in {"calling", "unread", "answered"} => Intended(KeyOf[q])',
         Reads(q)', Holds(q)',
         \A k \in stray' : k \in stray \/ (k \in Keys /\ Intended(k))
  PROVE  RealInv'
<1>1. Sent'
  <2>1. ASSUME NEW p \in Requests, req'[p].at \in {"calling", "unread", "answered"}
        PROVE  Intended(KeyOf[p])'
    BY <2>1, KeysAssumption DEF RealInv, Sent, Advances
  <2>2. ASSUME NEW k \in stray' PROVE Intended(k)'
    BY <2>2 DEF RealInv, Sent, Advances, TypeOK
  <2> QED BY <2>1, <2>2 DEF Sent
<1>2. ASSUME NEW p \in Requests \ {q} PROVE Reads(p)' /\ Holds(p)'
  <2>1. PICK a : a = req[p].answer OBVIOUS
  <2>2. req'[p] = req[p] /\ req'[p].answer = a BY <2>1
  <2>3. Reads(p) /\ Holds(p) BY DEF RealInv
  <2>4. Reads(p)' BY <2>1, <2>2, <2>3, ProofsStand DEF Reads, IsKept
  <2>5. Holds(p)'
    <3> SUFFICES ASSUME req'[p].at = "answered", req'[p].sound
                 PROVE  IsProof(KeyOf[p], req[p].answer)'
      BY DEF Holds
    <3>1. IsProof(KeyOf[p], a) BY <2>1, <2>2, <2>3 DEF Holds
    <3>2. IsProof(KeyOf[p], a)' BY <3>1, KeysAssumption, ProofsStand
    <3> QED BY <2>2, <3>2 DEF IsProof, IsKept
  <2> QED BY <2>4, <2>5
<1> QED BY <1>1, <1>2 DEF RealInv

(* What a handler makes of an answer.                                        *)
LEMMA AnsweredHolds ==
  ASSUME TypeOK, NEW q \in Requests, NEW answer \in Answers, Answered(q, answer),
         \/ answer \in {Refused, NoAnswer, Malformed}
         \/ LET k == KeyOf[q] IN
            /\ KindOf[k] = "create" => ver'[k] # Absent
            /\ KindOf[k] # "create" => answer = Refused \/ IsKept(KindOf[k], answer)'
  PROVE  /\ req' \in ReqRows
         /\ \A p \in Requests \ {q} : req'[p] = req[p]
         /\ req'[q].at \in {"unread", "answered"}
         /\ Reads(q)' /\ Holds(q)'
<1>1. PICK place \in {"unread", "answered"}, sound \in BOOLEAN :
        /\ req' = [req EXCEPT ![q] = [at |-> place, answer |-> answer, sound |-> sound]]
        /\ place = "unread" => KindOf[KeyOf[q]] = "recover" /\ answer \notin {Refused, NoAnswer}
        /\ sound => Sound(KeyOf[q], answer) /\ answer \notin {Refused, NoAnswer}
  BY DEF Answered, At, Sound
<1>2. /\ req'[q].at = place /\ req'[q].answer = answer /\ req'[q].sound = sound
      /\ \A p \in Requests \ {q} : req'[p] = req[p]
  BY <1>1 DEF TypeOK
<1>3. req' \in ReqRows
  BY <1>1 DEF TypeOK, ReqRows
<1>4. Reads(q)'
  <2> SUFFICES ASSUME place = "unread"
               PROVE  /\ KindOf[KeyOf[q]] = "recover"
                      /\ answer = Malformed \/ IsKept("recover", answer)'
    BY <1>2 DEF Reads, IsKept
  <2> QED BY <1>1
<1>5. Holds(q)'
  <2> SUFFICES ASSUME sound PROVE IsProof(KeyOf[q], answer)' BY <1>2 DEF Holds, IsProof, IsKept
  <2> QED BY <1>1 DEF Sound, IsProof
<1> QED BY <1>1, <1>2, <1>3, <1>4, <1>5

LEMMA AtHolds ==
  ASSUME TypeOK, NEW q \in Requests, NEW place \in {"absent", "idle", "calling", "unread", "answered"},
         NEW answer \in Answers \cup {None}, NEW sound \in BOOLEAN, At(q, place, answer, sound)
  PROVE  /\ req' \in ReqRows
         /\ req'[q] = [at |-> place, answer |-> answer, sound |-> sound]
         /\ \A p \in Requests \ {q} : req'[p] = req[p]
BY DEF At, TypeOK, ReqRows

(* Without a sound answer a handler holds nothing.                           *)
LEMMA UnsoundHolds ==
  ASSUME TypeOK, NEW q \in Requests, NEW place \in {"idle", "calling", "answered"},
         NEW answer \in Answers \cup {None}, At(q, place, answer, FALSE)
  PROVE  /\ req' \in ReqRows
         /\ req'[q].at = place /\ Reads(q)' /\ Holds(q)'
         /\ \A p \in Requests \ {q} : req'[p] = req[p]
<1>1. /\ req' \in ReqRows
      /\ \A p \in Requests \ {q} : req'[p] = req[p]
  BY DEF At, TypeOK, ReqRows
<1>2. req'[q].at = place /\ req'[q].sound = FALSE BY DEF At, TypeOK
<1>3. Reads(q)' BY <1>2 DEF Reads
<1>4. Holds(q)' BY <1>2 DEF Holds
<1> QED BY <1>1, <1>2, <1>3, <1>4

LEMMA ReturnHolds ==
  ASSUME TypeOK, NEW q \in Requests, Return(q)
  PROVE  /\ req' \in ReqRows
         /\ req'[q].at = "idle" /\ Reads(q)' /\ Holds(q)'
         /\ \A p \in Requests \ {q} : req'[p] = req[p]
<1>1. At(q, "idle", None, FALSE) BY DEF Return
<1> QED BY <1>1, UnsoundHolds

LEMMA RealBegin ==
  ASSUME TypeOK, RealInv, NEW q \in Requests, Begin(q) PROVE TypeOK' /\ RealInv'
<1>1. PICK k \in Keys : k = KeyOf[q] BY KeysAssumption
<1>2. /\ At(q, "calling", None, FALSE)
      /\ UNCHANGED <<candidate, completed, holder, bound, ver, cache, stray, faults>>
  BY DEF Begin, remote
<1>3. /\ req' \in ReqRows
      /\ req'[q].at = "calling" /\ \A p \in Requests \ {q} : req'[p] = req[p]
  BY <1>2, UnsoundHolds
<1>4. /\ intent' \in [Keys -> [state : IntentStates \cup {None}, external : Answers \cup {None},
                               receipt : Answers \cup {None}]]
      /\ \A j \in Keys : /\ intent'[j] = intent[j] \/ (intent[j].state = None /\ intent'[j].state = "PENDING")
                         /\ intent'[j].receipt = intent[j].receipt
      /\ Intended(k)'
  <2>1. CASE intent[k].state # None BY <1>1, <2>1 DEF Begin, TypeOK, Intended
  <2>2. CASE intent[k].state = None
    <3>1. intent' = [intent EXCEPT ![k].state = "PENDING"] BY <1>1, <2>2 DEF Begin
    <3>2. intent[k] \in [state : IntentStates \cup {None}, external : Answers \cup {None},
                         receipt : Answers \cup {None}]
      BY DEF TypeOK
    <3>3. intent'[k] = [intent[k] EXCEPT !.state = "PENDING"] BY <3>1 DEF TypeOK
    <3>4. "PENDING" \in IntentStates /\ None # "PENDING" BY AnswersAssumption DEF IntentStates
    <3> QED BY <2>2, <3>1, <3>2, <3>3, <3>4 DEF TypeOK, Intended
  <2> QED BY <2>1, <2>2
<1>5. Advances BY <1>4, AnswersAssumption DEF Advances, Intended, IntentStates
<1>6. ASSUME NEW j \in Keys PROVE Completed(j)'
  <2>1. Completed(j) BY DEF RealInv
  <2>2. Settled(j)' <=> Settled(j) BY <1>4, AnswersAssumption DEF Settled, IntentStates
  <2>3. intent'[j].state = "FAILED" => intent[j].state = "FAILED" BY <1>4
  <2> QED BY <1>2, <1>4, <2>1, <2>2, <2>3 DEF Completed, IsKept
<1>7. TypeOK' BY <1>2, <1>3, <1>4 DEF TypeOK, ReqRows
<1>8. Grows /\ Landed' BY <1>2, <1>5, RemoteStays, LandedStays DEF RealInv
<1>9. Reads(q)' /\ Holds(q)' BY <1>3 DEF Reads, Holds
<1> QED BY <1>1, <1>2, <1>3, <1>4, <1>5, <1>6, <1>7, <1>8, <1>9, OneMoves

(* A handler that moves while no intent does, and what it sent with it.      *)
LEMMA HandlerMoves ==
  ASSUME TypeOK, RealInv, NEW q \in Requests, UNCHANGED <<local, holder, bound>>,
         faults' \in Nat, req[q].at \in {"calling", "unread", "answered"},
         Grows, Landed', stray' \in {stray, stray \cup {KeyOf[q]}},
         req' \in ReqRows,
         \A p \in Requests \ {q} : req'[p] = req[p],
         Reads(q)', Holds(q)'
  PROVE  TypeOK' /\ RealInv'
<1>1. PICK k \in Keys : k = KeyOf[q] BY KeysAssumption
<1>2. Intended(k) /\ UNCHANGED <<intent, candidate, completed>>
  BY <1>1 DEF RealInv, Sent, local
<1>3. Advances BY <1>2 DEF Advances, Intended
<1>4. \A j \in Keys : Completed(j)' BY CompletedStands DEF RealInv
<1>5. TypeOK' BY <1>1, <1>2 DEF TypeOK, Grows, Versions, Caches, ReqRows
<1>6. Intended(k)' BY <1>2, <1>3 DEF Advances
<1> QED BY <1>1, <1>2, <1>3, <1>4, <1>5, <1>6, OneMoves

LEMMA RealCall ==
  ASSUME TypeOK, RealInv, NEW q \in Requests, Call(q) PROVE TypeOK' /\ RealInv'
<1>1. PICK k \in Keys : k = KeyOf[q] BY KeysAssumption
<1>2. /\ req[q].at = "calling" /\ Arrives(k) /\ Answered(q, Quality(k).answer)
      /\ UNCHANGED <<local, holder, bound, intent>> /\ stray' = stray /\ faults' = faults
  BY <1>1 DEF Call, local
<1>3. Intended(k) /\ Landed BY <1>1, <1>2 DEF RealInv, Sent
<1>4. /\ Grows /\ Landed' /\ Takes(k, Quality(k))
      /\ ver' = Quality(k).ver /\ cache' = Quality(k).cache
  BY <1>2, <1>3, ArrivalGrows
<1>5. PICK answer \in Answers : answer = Quality(k).answer BY AnswerType
<1>6. /\ KindOf[k] = "create" => ver'[k] # Absent
      /\ KindOf[k] # "create" => answer = Refused \/ IsKept(KindOf[k], answer)'
  BY <1>4, <1>5 DEF Takes, IsKept
<1>7. Answered(q, answer) BY <1>2, <1>5
<1> QED BY <1>1, <1>2, <1>4, <1>6, <1>7, AnsweredHolds, HandlerMoves DEF TypeOK

LEMMA RealCallFails ==
  ASSUME TypeOK, RealInv, NEW q \in Requests, CallFails(q) PROVE TypeOK' /\ RealInv'
<1>1. PICK k \in Keys : k = KeyOf[q] BY KeysAssumption
<1>2. /\ req[q].at = "calling" /\ UNCHANGED <<local, holder, bound, intent>>
      /\ stray' \in {stray, stray \cup {KeyOf[q]}} /\ faults' \in Nat
  <2>1. /\ req[q].at = "calling" /\ UNCHANGED <<local, holder, bound>>
        /\ stray' \in {stray, stray \cup {KeyOf[q]}}
    BY DEF CallFails
  <2>2. faults' = faults + 1 BY DEF CallFails, Fault
  <2>3. faults' \in Nat BY <2>2 DEF TypeOK
  <2> QED BY <2>1, <2>3 DEF local
<1>3. Intended(k) /\ Landed BY <1>1, <1>2 DEF RealInv, Sent
<1>4. Grows /\ Landed'
  <2>1. CASE Arrives(k) BY <1>2, <1>3, <2>1, ArrivalGrows
  <2>2. CASE UNCHANGED <<ver, cache>>
    <3>1. Advances BY <1>2 DEF Advances, Intended
    <3> QED BY <1>3, <2>2, <3>1, RemoteStays, LandedStays
  <2> QED BY <1>1, <2>1, <2>2 DEF CallFails
<1>5. /\ req' \in ReqRows
      /\ \A p \in Requests \ {q} : req'[p] = req[p]
      /\ Reads(q)' /\ Holds(q)'
  <2>1. ASSUME NEW answer \in {Refused, NoAnswer, Malformed}, Answered(q, answer)
        PROVE  <1>5
    BY <2>1, AnsweredHolds DEF Answers
  <2>2. ASSUME At(q, "answered", NoAnswer, FALSE) PROVE <1>5
    <3>1. NoAnswer \in Answers BY DEF Answers
    <3> QED BY <2>2, <3>1, UnsoundHolds
  <2> QED BY <2>1, <2>2, ReturnHolds DEF CallFails
<1> QED BY <1>2, <1>4, <1>5, HandlerMoves

LEMMA RealReadBack ==
  ASSUME TypeOK, RealInv, NEW q \in Requests, ReadBack(q) \/ ReadFails(q)
  PROVE  TypeOK' /\ RealInv'
<1>1. /\ req[q].at = "unread" /\ UNCHANGED <<local, holder, bound, intent, ver, cache>>
      /\ stray' = stray /\ faults' \in Nat
  <2>1. req[q].at = "unread" /\ UNCHANGED <<local, holder, bound, remote>>
    BY DEF ReadBack, ReadFails
  <2>2. faults' = faults \/ faults' = faults + 1 BY DEF ReadBack, ReadFails, Fault
  <2>3. faults' \in Nat BY <2>2 DEF TypeOK
  <2> QED BY <2>1, <2>3 DEF local, remote
<1>2. Grows /\ Landed'
  <2>1. Advances BY <1>1 DEF Advances, Intended
  <2> QED BY <1>1, <2>1, RemoteStays, LandedStays DEF RealInv
<1>3. CASE ReadFails(q)
  <2>1. CASE At(q, "answered", NoAnswer, FALSE)
    <3>1. NoAnswer \in Answers BY DEF Answers
    <3> QED BY <1>1, <1>2, <2>1, <3>1, UnsoundHolds, HandlerMoves
  <2> QED BY <1>1, <1>2, <1>3, <2>1, ReturnHolds, HandlerMoves DEF ReadFails
<1>4. CASE ReadBack(q)
  <2>1. PICK answer \in Answers \cup {None} : answer = req[q].answer BY DEF TypeOK
  <2>2. PICK sound \in BOOLEAN :
          At(q, "answered", answer, sound) /\ (sound => answer = RecoverReceipt(ver))
    BY <1>4, <2>1 DEF ReadBack
  <2>3. req'[q] = [at |-> "answered", answer |-> answer, sound |-> sound] BY <2>2, AtHolds
  <2>4. RecoverReceipt(ver) # Malformed BY ReceiptType, AnswersAssumption DEF TypeOK, Versions
  <2>5. sound => KindOf[KeyOf[q]] = "recover" /\ IsKept("recover", answer)
    BY <1>1, <2>1, <2>2, <2>4 DEF RealInv, Reads
  <2>6. IsKept("recover", answer) => IsKept("recover", answer)' BY <1>2, ProofsStand
  <2>7. Holds(q)' /\ Reads(q)' BY <2>3, <2>5, <2>6 DEF Holds, Reads, IsProof, IsKept
  <2> QED BY <1>1, <1>2, <2>2, <2>7, AtHolds, HandlerMoves
<1> QED BY <1>3, <1>4

(* No handler moves, while Quality may.                                      *)
LEMMA NobodyMoves ==
  ASSUME TypeOK, RealInv, Grows, Landed', UNCHANGED <<local, req>>, stray' \subseteq stray,
         holder' \in Workers \cup {None}, bound' \in BOOLEAN, faults' \in Nat
  PROVE  TypeOK' /\ RealInv'
<1>1. UNCHANGED <<intent, candidate, completed>> BY DEF local
<1>2. \A j \in Keys : Completed(j)' BY <1>1, CompletedStands DEF RealInv
<1>3. TypeOK' BY <1>1 DEF TypeOK, Grows, Versions, Caches
<1>4. Sent' BY <1>1 DEF RealInv, Sent, Intended
<1>5. ASSUME NEW p \in Requests PROVE Reads(p)' /\ Holds(p)'
  <2>1. PICK a : a = req[p].answer OBVIOUS
  <2>2. Reads(p) /\ Holds(p) BY DEF RealInv
  <2>3. Reads(p)' BY <2>1, <2>2, ProofsStand DEF Reads, IsKept
  <2>4. Holds(p)'
    <3> SUFFICES ASSUME req'[p].at = "answered", req'[p].sound
                 PROVE  IsProof(KeyOf[p], req[p].answer)'
      BY DEF Holds
    <3>1. IsProof(KeyOf[p], a) BY <2>1, <2>2 DEF Holds
    <3>2. IsProof(KeyOf[p], a)' BY <3>1, KeysAssumption, ProofsStand
    <3> QED BY <2>1, <3>2 DEF IsProof, IsKept
  <2> QED BY <2>3, <2>4
<1> QED BY <1>2, <1>3, <1>4, <1>5 DEF RealInv

LEMMA RealLate ==
  ASSUME TypeOK, RealInv, NEW k \in Keys, LateArrival(k) PROVE TypeOK' /\ RealInv'
<1>1. /\ Arrives(k) /\ Intended(k) /\ stray' \subseteq stray
      /\ UNCHANGED <<local, holder, bound, req, faults, intent>>
  BY DEF LateArrival, RealInv, Sent, local
<1>2. Grows /\ Landed' BY <1>1, ArrivalGrows DEF RealInv
<1> QED BY <1>1, <1>2, NobodyMoves DEF TypeOK

LEMMA MoveSame ==
  ASSUME TypeOK, NEW k \in Movable, CandidateMoves(k)
  PROVE  ver' \in Versions /\ Same(ver, ver')
<1>1. k \in OfKind("create") /\ k \in VersionSets /\ ver \in Versions
  BY CandidatesAssumption DEF VersionSets, TypeOK, Versions
<1>2. CASE ver[k].status = "draft" /\ ver' = Bump(ver, k, "staged")
  <2>1. ver[k] # Absent BY <1>2 DEF Absent, Ver
  <2> QED BY <1>1, <1>2, <2>1, BumpOther
<1>3. ASSUME ver[k].status = "staged", NEW a \in {"base", "fault"},
             ver' = Bump(Bump(ver, a, "superseded"), k, "active")
      PROVE  ver' \in Versions /\ Same(ver, ver')
  <2>1. PICK v \in Versions : v = Bump(ver, a, "superseded") /\ Same(ver, v)
    BY <1>1, RowsApart, BumpOther
  <2>2. ver[k] # Absent BY <1>3 DEF Absent, Ver
  <2>3. v[k] # Absent BY <1>1, <2>1, <2>2 DEF Same
  <2>4. PICK w \in Versions : w = Bump(v, k, "active") /\ Same(v, w)
    BY <1>1, <2>3, BumpOther
  <2>5. Same(ver, w) BY <2>1, <2>4 DEF Same
  <2> QED BY <1>3, <2>1, <2>4, <2>5
<1> QED BY <1>2, <1>3 DEF CandidateMoves

LEMMA RealOthers ==
  ASSUME TypeOK, RealInv,
         \/ \E w \in Workers \cup {None} : Reassign(w)
         \/ CaseMoves
         \/ \E k \in Movable : CandidateMoves(k)
  PROVE  TypeOK' /\ RealInv'
<1>1. ASSUME NEW w \in Workers \cup {None}, Reassign(w) PROVE TypeOK' /\ RealInv'
  <2>1. /\ UNCHANGED <<local, req, bound, ver, cache, stray>> /\ holder' = w
        /\ faults' = faults + 1
    BY <1>1 DEF Reassign, remote, Fault
  <2>2. Grows /\ Landed' BY <2>1, RemoteStays DEF RealInv, Landed, Intended, local
  <2> QED BY <2>1, <2>2, NobodyMoves DEF TypeOK
<1>2. CASE CaseMoves
  <2>1. UNCHANGED <<local, req, holder, ver, cache, stray, faults>> /\ bound' = FALSE
    BY <1>2 DEF CaseMoves, remote
  <2>2. Grows /\ Landed' BY <2>1, RemoteStays DEF RealInv, Landed, Intended, local
  <2> QED BY <2>1, <2>2, NobodyMoves DEF TypeOK
<1>3. ASSUME NEW k \in Movable, CandidateMoves(k) PROVE TypeOK' /\ RealInv'
  <2>1. UNCHANGED <<local, req, holder, bound, cache, stray, faults>>
    BY <1>3 DEF CandidateMoves
  <2>2. ver' \in Versions /\ Same(ver, ver') BY <1>3, MoveSame
  <2>3. Grows BY <2>1, <2>2 DEF Grows, Same, TypeOK, Caches
  <2>4. Landed' BY <2>1, <2>2 DEF RealInv, Landed, Intended, local, Same
  <2> QED BY <2>1, <2>3, <2>4, NobodyMoves DEF TypeOK
<1> QED BY <1>1, <1>2, <1>3

IntentRow == [state : IntentStates \cup {None}, external : Answers \cup {None},
              receipt : Answers \cup {None}]

(* What recording a doubt does to an intent, which somebody meant.           *)
LEMMA RecordHolds ==
  ASSUME TypeOK, NEW k \in Keys, Intended(k), NEW state \in {"UNKNOWN", "FAILED"},
         NEW external \in Answers \cup {None}, Record(k, state, external)
  PROVE  /\ intent' \in [Keys -> IntentRow]
         /\ \A j \in Keys \ {k} : intent'[j] = intent[j]
         /\ \/ intent'[k] = intent[k]
            \/ /\ intent[k].state \in {"PENDING", "UNKNOWN", "FAILED"} /\ intent'[k].state = state
               /\ intent'[k].receipt = intent[k].receipt
<1>1. intent[k] \in IntentRow /\ intent \in [Keys -> IntentRow] BY DEF TypeOK, IntentRow
<1>2. CASE UNCHANGED intent BY <1>1, <1>2
<1>3. ASSUME NEW x \in Answers \cup {None}, ~Settled(k),
             intent' = [intent EXCEPT ![k].state = state, ![k].external = x]
      PROVE  /\ intent' \in [Keys -> IntentRow]
             /\ \A j \in Keys \ {k} : intent'[j] = intent[j]
             /\ intent[k].state \in {"PENDING", "UNKNOWN", "FAILED"} /\ intent'[k].state = state
             /\ intent'[k].receipt = intent[k].receipt
  <2>1. [intent[k] EXCEPT !.state = state, !.external = x] \in IntentRow
    BY <1>1 DEF IntentRow, IntentStates
  <2>2. /\ intent' \in [Keys -> IntentRow]
        /\ \A j \in Keys \ {k} : intent'[j] = intent[j]
        /\ intent'[k] = [intent[k] EXCEPT !.state = state, !.external = x]
    BY <1>1, <1>3, <2>1
  <2>3. intent[k].state \in {"PENDING", "UNKNOWN", "FAILED"}
    BY <1>1, <1>3 DEF Settled, Intended, IntentRow, IntentStates
  <2> QED BY <1>1, <2>2, <2>3 DEF IntentRow
<1>4. \/ UNCHANGED intent
      \/ /\ ~Settled(k)
         /\ \E x \in Answers \cup {None} :
              intent' = [intent EXCEPT ![k].state = state, ![k].external = x]
  <2>1. PICK x \in Answers \cup {None} :
          x = IF external = None THEN intent[k].external ELSE external
    BY <1>1 DEF IntentRow
  <2>2. CASE Settled(k) \/ (KindOf[k] # "create" /\ intent[k].state # "PENDING")
    BY <2>2 DEF Record
  <2>3. CASE ~(Settled(k) \/ (KindOf[k] # "create" /\ intent[k].state # "PENDING"))
    <3>1. intent' = [intent EXCEPT ![k].state = state,
                                   ![k].external = IF external = None THEN @ ELSE external]
      BY <2>3 DEF Record
    <3>2. intent' = [intent EXCEPT ![k].state = state, ![k].external = x]
      BY <1>1, <2>1, <3>1
    <3> QED BY <2>3, <3>2
  <2> QED BY <2>2, <2>3
<1> QED BY <1>2, <1>3, <1>4

LEMMA RealRecord ==
  ASSUME TypeOK, RealInv, NEW q \in Requests, RecordError(q) \/ RecordUnknown(q)
  PROVE  TypeOK' /\ RealInv'
<1>1. PICK k \in Keys : k = KeyOf[q] BY KeysAssumption
<1>2. PICK state \in {"UNKNOWN", "FAILED"}, external \in Answers \cup {None} :
        /\ Record(k, state, external)
        /\ state = "FAILED" => KindOf[k] = "create"
  <2>1. CASE RecordError(q) BY <1>1, <2>1 DEF RecordError
  <2>2. CASE RecordUnknown(q)
    <3>1. req[q].answer \in Answers \cup {None} BY DEF TypeOK
    <3> QED BY <1>1, <2>2, <3>1 DEF RecordUnknown
  <2> QED BY <2>1, <2>2
<1>3. /\ req[q].at = "answered" /\ Return(q)
      /\ UNCHANGED <<candidate, completed, holder, bound, ver, cache, stray, faults>>
  BY DEF RecordError, RecordUnknown, remote
<1>4. Intended(k) BY <1>1, <1>3 DEF RealInv, Sent
<1>5. /\ intent' \in [Keys -> IntentRow]
      /\ \A j \in Keys \ {k} : intent'[j] = intent[j]
      /\ \/ intent'[k] = intent[k]
         \/ /\ intent[k].state \in {"PENDING", "UNKNOWN", "FAILED"} /\ intent'[k].state = state
            /\ intent'[k].receipt = intent[k].receipt
  BY <1>2, <1>4, RecordHolds
<1>6. Advances BY <1>5, AnswersAssumption DEF Advances, Intended, IntentStates
<1>7. ASSUME NEW j \in Keys PROVE Completed(j)'
  <2>1. Completed(j) BY DEF RealInv
  <2>2. Settled(j)' <=> Settled(j) BY <1>5 DEF Settled
  <2>3. intent'[j].receipt = intent[j].receipt BY <1>5
  <2>4. intent'[j].state = "FAILED" => intent[j].state = "FAILED" \/ KindOf[j] = "create"
    BY <1>2, <1>5
  <2> QED BY <1>3, <2>1, <2>2, <2>3, <2>4 DEF Completed, IsKept
<1>8. req' \in ReqRows /\ req'[q].at = "idle" /\ Reads(q)' /\ Holds(q)'
      /\ \A p \in Requests \ {q} : req'[p] = req[p]
  BY <1>3, ReturnHolds
<1>9. TypeOK' BY <1>3, <1>5, <1>8 DEF TypeOK, ReqRows, IntentRow
<1>10. Grows /\ Landed' BY <1>3, <1>6, RemoteStays, LandedStays DEF RealInv
<1>11. \A j \in stray' : j \in stray BY <1>3
<1> QED BY <1>6, <1>7, <1>8, <1>9, <1>10, <1>11, OneMoves

(* A completion: the answer is the effect, and nobody completed it before.   *)
LEMMA CompleteHolds ==
  ASSUME TypeOK, RealInv, NEW q \in Requests, Complete(q)
  PROVE  LET k == KeyOf[q] IN
         /\ IsProof(k, req[q].answer) /\ req[q].answer \in Answers /\ req[q].answer # None
         /\ intent[k].state \in {"PENDING", "UNKNOWN"} /\ intent'[k].state = "COMPLETED"
         /\ intent'[k].receipt = req[q].answer
         /\ completed[k] = 0 /\ completed' = [completed EXCEPT ![k] = 1]
         /\ intent' \in [Keys -> IntentRow]
         /\ \A j \in Keys \ {k} : intent'[j] = intent[j]
<1>1. PICK k \in Keys : k = KeyOf[q] BY KeysAssumption
<1>2. PICK answer \in Answers \cup {None} : answer = req[q].answer BY DEF TypeOK
<1>3. IsProof(k, answer) BY <1>1, <1>2 DEF Complete, RealInv, Holds
<1>4. answer # None
  <2>1. Ver("draft", 1) \in VersionRow BY DEF Ver, VersionRow
  <2> QED BY <1>3, <2>1, AnswersAssumption DEF IsProof, IsKept
<1>5. intent[k] \in IntentRow /\ intent \in [Keys -> IntentRow] BY DEF TypeOK, IntentRow
<1>6. intent[k].state \in {"PENDING", "UNKNOWN"} BY <1>1 DEF Complete, Completable
<1>7. intent' = [intent EXCEPT ![k].state = "COMPLETED", ![k].receipt = answer]
  BY <1>1, <1>2 DEF Complete
<1>8. [intent[k] EXCEPT !.state = "COMPLETED", !.receipt = answer] \in IntentRow
  BY <1>5 DEF IntentRow, IntentStates
<1>9. /\ intent' \in [Keys -> IntentRow]
      /\ \A j \in Keys \ {k} : intent'[j] = intent[j]
      /\ intent'[k] = [intent[k] EXCEPT !.state = "COMPLETED", !.receipt = answer]
  BY <1>5, <1>7, <1>8
<1>10. intent'[k].state = "COMPLETED" /\ intent'[k].receipt = answer
  BY <1>5, <1>9 DEF IntentRow
<1>11. completed[k] = 0 BY <1>6 DEF RealInv, Completed, Settled
<1>12. completed' = [completed EXCEPT ![k] = 1]
  BY <1>1, <1>11 DEF Complete, TypeOK
<1> QED BY <1>1, <1>2, <1>3, <1>4, <1>6, <1>9, <1>10, <1>11, <1>12

LEMMA RealComplete ==
  ASSUME TypeOK, RealInv, NEW q \in Requests, Complete(q) PROVE TypeOK' /\ RealInv'
<1>1. PICK k \in Keys : k = KeyOf[q] BY KeysAssumption
<1>2. PICK answer \in Answers : answer = req[q].answer BY CompleteHolds
<1>3. /\ IsProof(k, answer) /\ answer # None
      /\ intent[k].state \in {"PENDING", "UNKNOWN"} /\ intent'[k].state = "COMPLETED"
      /\ intent'[k].receipt = answer
      /\ completed[k] = 0 /\ completed' = [completed EXCEPT ![k] = 1]
      /\ intent' \in [Keys -> IntentRow]
      /\ \A j \in Keys \ {k} : intent'[j] = intent[j]
  BY <1>1, <1>2, CompleteHolds
<1>4. Return(q) /\ UNCHANGED <<holder, bound, ver, cache, stray, faults>>
  BY DEF Complete, remote
<1>5. candidate' = IF KindOf[k] = "create" THEN [candidate EXCEPT ![k] = answer] ELSE candidate
  BY <1>1, <1>2 DEF Complete, Recorded
<1>6. Advances BY <1>3, AnswersAssumption DEF Advances, Intended, IntentStates
<1>7. Grows /\ Landed' BY <1>4, <1>6, RemoteStays, LandedStays DEF RealInv
<1>8. /\ req' \in ReqRows /\ req'[q].at = "idle" /\ Reads(q)' /\ Holds(q)'
      /\ \A p \in Requests \ {q} : req'[p] = req[p]
  BY <1>4, ReturnHolds
<1>9. TypeOK' BY <1>3, <1>4, <1>5, <1>8 DEF TypeOK, ReqRows, IntentRow
<1>10. Completed(k)'
  <2>1. Settled(k)' /\ completed'[k] = 1 BY <1>3 DEF Settled, TypeOK
  <2>2. KindOf[k] = "create" => candidate'[k] = answer BY <1>5 DEF TypeOK, OfKind
  <2>3. IsProof(k, answer)' BY <1>3, <1>7, ProofsStand
  <2> QED BY <1>3, <2>1, <2>2, <2>3 DEF Completed, IsProof, IsKept
<1>11. ASSUME NEW j \in Keys \ {k} PROVE Completed(j)'
  <2>1. Completed(j) /\ intent'[j] = intent[j] BY <1>3 DEF RealInv
  <2>2. completed'[j] = completed[j] BY <1>3 DEF TypeOK
  <2>3. KindOf[j] = "create" => candidate'[j] = candidate[j] BY <1>5 DEF TypeOK, OfKind
  <2>4. Settled(j)' <=> Settled(j) BY <2>1 DEF Settled
  <2> QED BY <1>4, <2>1, <2>2, <2>3, <2>4 DEF Completed, IsKept
<1>12. \A j \in stray' : j \in stray BY <1>4
<1> QED BY <1>6, <1>7, <1>8, <1>9, <1>10, <1>11, <1>12, OneMoves

LEMMA RealGiveUp ==
  ASSUME TypeOK, RealInv, NEW q \in Requests, GiveUp(q) PROVE TypeOK' /\ RealInv'
<1>1. /\ req[q].at = "answered" /\ Return(q)
      /\ UNCHANGED <<local, holder, bound, intent, ver, cache, stray, faults>>
  BY DEF GiveUp, local, remote
<1>2. Advances BY <1>1 DEF Advances, Intended
<1>3. Grows /\ Landed' BY <1>1, <1>2, RemoteStays, LandedStays DEF RealInv
<1> QED BY <1>1, <1>3, ReturnHolds, HandlerMoves DEF TypeOK

LEMMA RealStep == ASSUME TypeOK, RealInv, Next PROVE TypeOK' /\ RealInv'
BY RealBegin, RealCall, RealCallFails, RealReadBack, RealRecord, RealComplete, RealGiveUp,
   RealLate, RealOthers
   DEF Next, Handler

LEMMA Inductive == Spec => [](TypeOK /\ RealInv)
<1>1. TypeOK /\ RealInv /\ [Next]_vars => TypeOK' /\ RealInv'
  <2>1. ASSUME TypeOK, RealInv, Next PROVE TypeOK' /\ RealInv' BY <2>1, RealStep
  <2>2. ASSUME TypeOK, RealInv, UNCHANGED vars PROVE TypeOK' /\ RealInv'
    <3>1. UNCHANGED <<local, req, holder, bound, ver, cache, stray, faults>>
      BY <2>2 DEF vars, remote
    <3>2. Grows /\ Landed' BY <2>2, <3>1, RemoteStays DEF RealInv, Landed, Intended, local
    <3> QED BY <2>2, <3>1, <3>2, NobodyMoves DEF TypeOK
  <2> QED BY <2>1, <2>2
<1> QED BY <1>1, RealInit, PTL DEF Spec

-----------------------------------------------------------------------------
(* Every step is one of DurableIntent                                        *)

Phase == [k \in Keys |-> PhaseOf(k)]
Effected == {k \in OfKind("create") : ver[k] # Absent} \cup
            {t \in {"inject", "recover"} : cache[t] # None}
Proof == [k \in Keys |-> intent[k].receipt]

LEMMA PhaseIs ==
  ASSUME NEW k \in Keys
  PROVE  /\ intent[k].state = None => PhaseOf(k) = "none"
         /\ intent[k].state = "PENDING" => PhaseOf(k) = "pending"
         /\ intent[k].state = "UNKNOWN" => PhaseOf(k) = "unknown"
         /\ intent[k].state = "FAILED" => PhaseOf(k) = "failed"
         /\ intent[k].state = "COMPLETED" => PhaseOf(k) = "completed"
BY AnswersAssumption DEF PhaseOf, IntentStates

LEMMA PhaseIsNext ==
  ASSUME NEW k \in Keys
  PROVE  /\ intent'[k].state = "PENDING" => PhaseOf(k)' = "pending"
         /\ intent'[k].state = "UNKNOWN" => PhaseOf(k)' = "unknown"
         /\ intent'[k].state = "FAILED" => PhaseOf(k)' = "failed"
         /\ intent'[k].state = "COMPLETED" => PhaseOf(k)' = "completed"
BY AnswersAssumption DEF PhaseOf, IntentStates

(* A step of one intent.                                                     *)
LEMMA PhaseMoves ==
  ASSUME NEW k \in Keys, \A j \in Keys \ {k} : intent'[j] = intent[j]
  PROVE  /\ Phase' = [Phase EXCEPT ![k] = PhaseOf(k)']
         /\ Proof' = [Proof EXCEPT ![k] = intent'[k].receipt]
         /\ intent'[k] = intent[k] => Phase' = Phase /\ Proof' = Proof
         /\ intent'[k].receipt = intent[k].receipt => Proof' = Proof
<1>1. \A j \in Keys \ {k} : PhaseOf(j)' = PhaseOf(j) BY DEF PhaseOf
<1>2. intent'[k] = intent[k] => PhaseOf(k)' = PhaseOf(k) BY DEF PhaseOf
<1> QED BY <1>1, <1>2 DEF Phase, Proof

LEMMA PhasesStay == ASSUME UNCHANGED intent PROVE UNCHANGED <<Phase, Proof>>
BY DEF Phase, Proof, PhaseOf

(* What takes effect is at most what was asked for, by an intent on record.  *)
LEMMA ArrivalLands ==
  ASSUME TypeOK, Landed, NEW k \in Keys, Intended(k), UNCHANGED intent, Arrives(k)
  PROVE  Durable!DNext \/ UNCHANGED <<Phase, Effected, Proof>>
<1>1. /\ Takes(k, Quality(k)) /\ Grows
      /\ ver' = Quality(k).ver /\ cache' = Quality(k).cache
  BY ArrivalGrows
<1>2. KindOf[k] \in {"create", "inject", "recover"} BY KeysAssumption DEF Kinds
<1>3. Effected \subseteq Effected' BY <1>1 DEF Effected, Grows
<1>4. Effected' \subseteq Effected \cup {Effect(k)}
  <2>1. ASSUME NEW j \in OfKind("create"), ver'[j] # Absent, j \notin Effected
        PROVE  j = Effect(k)
    <3>1. ver[j] = Absent BY <2>1 DEF Effected
    <3>2. j = k BY <1>1, <2>1, <3>1 DEF Takes
    <3> QED BY <2>1, <3>2 DEF Effect, OfKind
  <2>2. ASSUME NEW t \in {"inject", "recover"}, cache'[t] # None, t \notin Effected
        PROVE  t = Effect(k)
    <3>1. cache[t] = None BY <2>2 DEF Effected
    <3>2. t = KindOf[k] BY <1>1, <2>2, <3>1 DEF Takes
    <3> QED BY <3>2 DEF Effect
  <2> QED BY <2>1, <2>2 DEF Effected
<1>5. UNCHANGED <<Phase, Proof>> BY PhasesStay
<1>6. CASE Effected' = Effected BY <1>5, <1>6
<1>7. CASE Effected' # Effected
  <2>1. Effect(k) \notin Effected /\ Effected' = Effected \cup {Effect(k)}
    BY <1>3, <1>4, <1>7
  <2>2. Effect(k) \in Effects BY <1>2 DEF Effect, Effects, OfKind
  <2>3. Phase[k] # "none"
    <3>1. intent[k].state \in IntentStates BY DEF TypeOK, Intended
    <3>2. PhaseOf(k) \in {"pending", "unknown", "failed", "completed"}
      BY <3>1, PhaseIs DEF IntentStates
    <3> QED BY <3>2 DEF Phase
  <2>4. Durable!Land(Effect(k))
    BY <1>5, <2>1, <2>3 DEF Durable!Land, Phase, Effected, Proof
  <2> QED BY <2>2, <2>4 DEF Durable!DNext
<1> QED BY <1>6, <1>7
LEMMA BeginIntends ==
  ASSUME TypeOK, NEW q \in Requests, Begin(q)
  PROVE  Durable!DNext \/ UNCHANGED <<Phase, Effected, Proof>>
<1>1. PICK k \in Keys : k = KeyOf[q] BY KeysAssumption
<1>2. UNCHANGED Effected BY DEF Begin, remote, Effected
<1>3. CASE UNCHANGED intent BY <1>2, <1>3, PhasesStay
<1>4. CASE intent[k].state = None /\ intent' = [intent EXCEPT ![k].state = "PENDING"]
  <2>1. /\ \A j \in Keys \ {k} : intent'[j] = intent[j]
        /\ intent'[k].state = "PENDING" /\ intent'[k].receipt = intent[k].receipt
    BY <1>4 DEF TypeOK
  <2>2. PhaseOf(k) = "none" /\ PhaseOf(k)' = "pending" BY <1>4, <2>1, PhaseIs, PhaseIsNext
  <2>3. Phase' = [Phase EXCEPT ![k] = "pending"] /\ Proof' = Proof
    BY <2>1, <2>2, PhaseMoves
  <2>4. Phase[k] = "none" BY <2>2 DEF Phase
  <2>5. Durable!Intend(k)
    BY <1>2, <2>3, <2>4 DEF Durable!Intend, Phase, Effected, Proof
  <2> QED BY <2>5 DEF Durable!DNext
<1> QED BY <1>1, <1>3, <1>4 DEF Begin

LEMMA RecordDoubts ==
  ASSUME TypeOK, RealInv, NEW q \in Requests, RecordError(q) \/ RecordUnknown(q)
  PROVE  Durable!DNext \/ UNCHANGED <<Phase, Effected, Proof>>
<1>1. PICK k \in Keys : k = KeyOf[q] BY KeysAssumption
<1>2. PICK state \in {"UNKNOWN", "FAILED"}, external \in Answers \cup {None} :
        Record(k, state, external)
  <2>1. CASE RecordError(q) BY <1>1, <2>1 DEF RecordError
  <2>2. CASE RecordUnknown(q)
    <3>1. req[q].answer \in Answers \cup {None} BY DEF TypeOK
    <3> QED BY <1>1, <2>2, <3>1 DEF RecordUnknown
  <2> QED BY <2>1, <2>2
<1>3. UNCHANGED Effected BY DEF RecordError, RecordUnknown, remote, Effected
<1>4. Intended(k) BY <1>1 DEF RealInv, Sent, RecordError, RecordUnknown
<1>5. /\ \A j \in Keys \ {k} : intent'[j] = intent[j]
      /\ \/ intent'[k] = intent[k]
         \/ /\ intent[k].state \in {"PENDING", "UNKNOWN", "FAILED"} /\ intent'[k].state = state
            /\ intent'[k].receipt = intent[k].receipt
  BY <1>2, <1>4, RecordHolds
<1>6. CASE intent'[k] = intent[k] BY <1>3, <1>5, <1>6, PhaseMoves
<1>7. CASE /\ intent[k].state \in {"PENDING", "UNKNOWN", "FAILED"} /\ intent'[k].state = state
           /\ intent'[k].receipt = intent[k].receipt
  <2>1. PICK p \in {"unknown", "failed"} : PhaseOf(k)' = p BY <1>7, PhaseIsNext
  <2>2. Phase[k] \in {"pending", "unknown", "failed"} BY <1>7, PhaseIs DEF Phase
  <2>3. Phase' = [Phase EXCEPT ![k] = p] /\ Proof' = Proof
    BY <1>5, <1>7, <2>1, PhaseMoves
  <2>4. Durable!Doubt(k)
    BY <1>3, <2>2, <2>3 DEF Durable!Doubt, Phase, Effected, Proof
  <2> QED BY <2>4 DEF Durable!DNext
<1> QED BY <1>5, <1>6, <1>7

LEMMA CompleteProves ==
  ASSUME TypeOK, RealInv, NEW q \in Requests, Complete(q) PROVE Durable!DNext
<1>1. PICK k \in Keys : k = KeyOf[q] BY KeysAssumption
<1>2. PICK answer : answer = req[q].answer OBVIOUS
<1>3. /\ IsProof(k, answer) /\ answer # None
      /\ intent[k].state \in {"PENDING", "UNKNOWN"} /\ intent'[k].state = "COMPLETED"
      /\ intent'[k].receipt = answer
      /\ \A j \in Keys \ {k} : intent'[j] = intent[j]
  BY <1>1, <1>2, CompleteHolds
<1>4. UNCHANGED Effected BY DEF Complete, remote, Effected
<1>5. Effect(k) \in Effected
  <2>1. CASE KindOf[k] = "create" BY <1>3, <2>1 DEF IsProof, Effect, Effected, OfKind
  <2>2. CASE KindOf[k] # "create"
    <3>1. KindOf[k] \in {"inject", "recover"} BY <2>2, KeysAssumption DEF Kinds
    <3> QED BY <1>3, <2>2, <3>1 DEF IsProof, IsKept, Effect, Effected
  <2> QED BY <2>1, <2>2
<1>6. Phase[k] \in {"pending", "unknown"} BY <1>3, PhaseIs DEF Phase
<1>7. PhaseOf(k)' = "completed" BY <1>3, PhaseIsNext
<1>8. /\ Phase' = [Phase EXCEPT ![k] = "completed"]
      /\ Proof' = [Proof EXCEPT ![k] = answer]
  BY <1>3, <1>7, PhaseMoves
<1>9. Proof'[k] = answer BY <1>8 DEF Proof
<1>10. Durable!Prove(k)
  BY <1>3, <1>4, <1>5, <1>6, <1>8, <1>9 DEF Durable!Prove, Phase, Effected, Proof
<1> QED BY <1>10 DEF Durable!DNext

LEMMA NextIsDurable ==
  ASSUME TypeOK, RealInv, Next
  PROVE  Durable!DNext \/ UNCHANGED <<Phase, Effected, Proof>>
<1>1. ASSUME NEW k \in Keys, Intended(k), UNCHANGED local,
             Arrives(k) \/ UNCHANGED <<ver, cache>>
      PROVE  Durable!DNext \/ UNCHANGED <<Phase, Effected, Proof>>
  <2>1. UNCHANGED intent BY <1>1 DEF local
  <2>2. CASE Arrives(k) BY <1>1, <2>1, <2>2, ArrivalLands DEF RealInv
  <2>3. CASE UNCHANGED <<ver, cache>> BY <2>1, <2>3, PhasesStay DEF Effected
  <2> QED BY <1>1, <2>2, <2>3
<1>2. ASSUME NEW q \in Requests, Call(q) \/ CallFails(q)
      PROVE  Durable!DNext \/ UNCHANGED <<Phase, Effected, Proof>>
  <2>1. PICK k \in Keys : k = KeyOf[q] BY KeysAssumption
  <2>2. Intended(k) BY <1>2, <2>1 DEF RealInv, Sent, Call, CallFails
  <2>3. UNCHANGED local /\ (Arrives(k) \/ UNCHANGED <<ver, cache>>)
    BY <1>2, <2>1 DEF Call, CallFails
  <2> QED BY <1>1, <2>2, <2>3
<1>3. ASSUME NEW k \in Keys, LateArrival(k)
      PROVE  Durable!DNext \/ UNCHANGED <<Phase, Effected, Proof>>
  <2>1. Intended(k) /\ UNCHANGED local /\ Arrives(k)
    BY <1>3 DEF LateArrival, RealInv, Sent
  <2> QED BY <1>1, <2>1
<1>4. ASSUME UNCHANGED <<local, ver, cache>> PROVE UNCHANGED <<Phase, Effected, Proof>>
  BY <1>4, PhasesStay DEF local, Effected
<1>5. ASSUME NEW k \in Movable, CandidateMoves(k) PROVE UNCHANGED <<Phase, Effected, Proof>>
  <2>1. Same(ver, ver') /\ UNCHANGED <<intent, cache>>
    BY <1>5, MoveSame DEF CandidateMoves, local
  <2> QED BY <2>1, PhasesStay DEF Same, Effected
<1>6. ASSUME NEW q \in Requests, ReadBack(q) \/ ReadFails(q) \/ GiveUp(q)
      PROVE  UNCHANGED <<local, ver, cache>>
  BY <1>6 DEF ReadBack, ReadFails, GiveUp, remote
<1>7. ASSUME \/ \E w \in Workers \cup {None} : Reassign(w)
             \/ CaseMoves
      PROVE  UNCHANGED <<local, ver, cache>>
  BY <1>7 DEF Reassign, CaseMoves, remote
<1> QED BY <1>2, <1>3, <1>4, <1>5, <1>6, <1>7, BeginIntends, RecordDoubts, CompleteProves
        DEF Next, Handler

-----------------------------------------------------------------------------
(* The theorems                                                             *)

(* Handlers, intents, candidates and the state of Quality stay of their types *)
(* and within the states the code names.                                     *)
THEOREM TypeCorrect == Spec => []TypeOK
<1> QED BY Inductive, PTL

(* What release_service.py records as completed, Quality did; it is recorded  *)
(* once, and a candidate exists exactly for a completed creation: whatever    *)
(* messages are lost or late and whoever asks again.                         *)
THEOREM CompletionsAreReal == Spec => []CompletedIsReal
<1>1. TypeOK /\ RealInv => CompletedIsReal
  <2> SUFFICES ASSUME TypeOK, RealInv PROVE CompletedIsReal OBVIOUS
  <2>1. ASSUME NEW k \in Keys
        PROVE  /\ completed[k] = IF Settled(k) THEN 1 ELSE 0
               /\ Settled(k) => IF KindOf[k] = "create" THEN ver[k] # Absent
                                ELSE intent[k].receipt = cache[KindOf[k]]
    BY DEF RealInv, Completed, IsKept
  <2>2. ASSUME NEW k \in OfKind("create")
        PROVE  candidate[k] # None <=> Settled(k) /\ candidate[k] = intent[k].receipt
    <3>1. k \in Keys /\ KindOf[k] = "create" BY DEF OfKind
    <3> QED BY <3>1 DEF RealInv, Completed
  <2> QED BY <2>1, <2>2 DEF CompletedIsReal
<1> QED BY <1>1, Inductive, PTL

(* complete_candidate_creation looks at the lease and the case again after    *)
(* the call: no candidate is recorded for a repairer who lost either.         *)
THEOREM CandidatesUnderLease == Spec => CandidateUnderLease
<1> DEFINE A == \A k \in OfKind("create") :
                  candidate'[k] # candidate[k] =>
                    /\ bound
                    /\ \E q \in Requests : KeyOf[q] = k /\ Leased(q) /\ req[q].at = "answered"
<1>1. TypeOK /\ [Next]_vars => [A]_vars
  <2> SUFFICES ASSUME TypeOK, Next, NEW k \in OfKind("create"), candidate'[k] # candidate[k]
               PROVE  /\ bound
                      /\ \E q \in Requests :
                           KeyOf[q] = k /\ Leased(q) /\ req[q].at = "answered"
    OBVIOUS
  <2>1. PICK q \in Requests : Complete(q)
    BY DEF Next, Handler, Begin, Call, CallFails, LateArrival, ReadBack, ReadFails, RecordError,
           RecordUnknown, GiveUp, Reassign, CaseMoves, CandidateMoves, local
  <2>2. /\ req[q].at = "answered" /\ StillAllowed(q) /\ Recorded(KeyOf[q], req[q].answer)
    BY <2>1 DEF Complete
  <2>3. KindOf[KeyOf[q]] = "create" /\ KeyOf[q] = k
    BY <2>2, KeysAssumption DEF Recorded, TypeOK, OfKind
  <2> QED BY <2>2, <2>3 DEF StillAllowed
<1> QED BY <1>1, Inductive, PTL DEF Spec, CandidateUnderLease

(* Whoever reads an intent can rely on it: recorded before its effect, never  *)
(* completed without it, never undone, through every retry and lost answer.   *)
THEOREM IntentsAreDurable == Spec => ImplementsDurableIntent
<1>1. Init => Durable!DInit
  <2> SUFFICES ASSUME Init PROVE Durable!DInit OBVIOUS
  <2>1. \A k \in OfKind("create") : ver[k] = Absent
    BY KeysAssumption DEF Init, OfKind, VersionSets
  <2>2. Effected = {} BY <2>1 DEF Effected, Init
  <2>3. \A k \in Keys : PhaseOf(k) = "none" BY PhaseIs DEF Init
  <2> QED BY <2>2, <2>3 DEF Init, Durable!DInit, Effected
<1>2. TypeOK /\ RealInv /\ [Next]_vars => [Durable!DNext]_(Durable!intentVars)
  <2>1. ASSUME TypeOK, RealInv, Next PROVE [Durable!DNext]_(Durable!intentVars)
    BY <2>1, NextIsDurable DEF Durable!intentVars, Phase, Effected, Proof
  <2>2. ASSUME UNCHANGED vars PROVE UNCHANGED <<Phase, Effected, Proof>>
    BY <2>2, PhasesStay DEF vars, local, remote, Effected
  <2> QED BY <2>1, <2>2 DEF Durable!intentVars, Phase, Effected, Proof
<1> QED BY <1>1, <1>2, Inductive, PTL DEF Spec, ImplementsDurableIntent, Durable!DSpec

=============================================================================
