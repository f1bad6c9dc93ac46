---------------------------- MODULE FilingProofs ----------------------------
(****************************************************************************)
(* Proofs about the two ways a case is filed, ComplaintIntake and           *)
(* IssueFiling (with LocalIdentity), for any calls, messages, faults, texts,*)
(* shells and people, and every bound.                                      *)
(*                                                                          *)
(* The inbox: the types, one case per complaint and window, and that a case *)
(* is what those who were told of it had brought.  A complaint has at most  *)
(* two rows, its first and one filed again after the case of the first,     *)
(* because both keys are a function of the first row, which never changes   *)
(* (Rows); and what a call carries from one step to the next stays true,    *)
(* since faults and rows only accumulate (Carried).                         *)
(*                                                                          *)
(* The command line: one active credential each, and that a filing may be   *)
(* repeated.  Whoever has a credential is enrolled (HoldersAreKnown), so a  *)
(* first one is made for somebody without.  A key is a function of step and *)
(* version, and so is what is sent under it: an entry of the ledger says    *)
(* what its key says (EntryOK), of a case that stays, so that a request     *)
(* sent again never disagrees with it.                                      *)
(****************************************************************************)
EXTENDS ComplaintIntake, IssueFiling, TLAPS

-----------------------------------------------------------------------------
(* The inbox *)

Base(o) == inbox[DedupKey(o, None)]

(* A complaint is filed again only after the window of its first row. *)
RefileOK(o, previous, received) ==
  previous # None => /\ Base(o) # None
                     /\ Base(o).case = previous
                     /\ received > Base(o).received + Window

Rows == \A k \in DedupKeys : inbox[k] # None =>
          /\ inbox[k].previous = k.refile
          /\ RefileOK(k.origin, k.refile, inbox[k].received)
          /\ case[inbox[k].case] # None
          /\ IsEvidence(inbox[k])

EachHasRow == \A c \in Cases : case[c] # None =>
                \E k \in DedupKeys : inbox[k] # None /\ inbox[k].case = c

(* What a call found out and still relies on. *)
Carried(r) ==
  /\ r.at = "idle" => r = Idle
  /\ r.at = "fetch" => /\ r.message \in Messages
                       /\ r.injection # None => injection[r.injection] # None
  /\ r.at \in {"ready", "new"} => /\ r.input \in InputType
                                  /\ r.input.injection = r.injection
                                  /\ IsEvidence(r.input)
  /\ r.at = "new" => /\ r.row \in RowOf({None})
                     /\ r.key = DedupKey(r.input.origin, r.row.previous)
                     /\ r.row.injection = r.input.injection
                     /\ r.row.provenance = r.input.provenance
                     /\ RefileOK(r.input.origin, r.row.previous, r.row.received)
  /\ r.at # "done" => r.answer = None /\ r.case = None

Told(r) == r.case # None =>
  \E k \in DedupKeys :
    /\ inbox[k] # None
    /\ inbox[k].case = r.case
    /\ k.origin = r.input.origin
    /\ r.input.provenance \in {None, inbox[k].provenance}
    /\ r.injection \in {None, inbox[k].injection}

Calls == \A r \in Requests : Carried(req[r]) /\ Told(req[r])

IInv == TypeOK /\ Rows /\ EachHasRow /\ Calls

-----------------------------------------------------------------------------
(* What the invariant says *)

LEMMA NoneFacts ==
  /\ None \notin Ids /\ None \notin Texts /\ None \notin Cases /\ None \notin Injections
  /\ None \notin Hours /\ None \notin InboxRow /\ None \notin Provenance
  /\ None \notin Answers /\ None \notin Opened
BY NoneAssumption DEF Hours

LEMMA KeyType ==
  ASSUME NEW o \in Origins, NEW p \in Cases \cup {None}
  PROVE  /\ DedupKey(o, p) \in DedupKeys
         /\ DedupKey(o, p).origin = o /\ DedupKey(o, p).refile = p
BY DEF DedupKeys, DedupKey

LEMMA KeyIs ==
  ASSUME NEW k \in DedupKeys
  PROVE  k = DedupKey(k.origin, k.refile) /\ k.origin \in Origins /\ k.refile \in Cases \cup {None}
BY DEF DedupKeys, DedupKey

(* Of two rows of one complaint one is the first, and the other follows it. *)
LEMMA TwoRows == IInv => OneCasePerWindow
<1> SUFFICES ASSUME IInv PROVE OneCasePerWindow
  OBVIOUS
<1>1. \A c \in Cases : case[c] # None =>
        \E k \in DedupKeys : inbox[k] # None /\ inbox[k].case = c
  BY DEF IInv, EachHasRow
<1>2. ASSUME NEW j \in DedupKeys, NEW k \in DedupKeys, j # k, j.origin = k.origin,
             inbox[j] # None, inbox[k] # None, j.refile = None
      PROVE  Succeeds(k, j)
  <2>1. k.refile # None BY <1>2, KeyIs
  <2>2. Base(k.origin) = inbox[j] BY <1>2, KeyIs DEF Base
  <2>3. inbox[k].previous = k.refile /\ RefileOK(k.origin, k.refile, inbox[k].received)
    BY <1>2 DEF IInv, Rows
  <2> QED BY <2>1, <2>2, <2>3 DEF RefileOK, Succeeds
<1>3. ASSUME NEW j \in DedupKeys, NEW k \in DedupKeys, j # k, j.origin = k.origin,
             inbox[j] # None, inbox[k] # None
      PROVE  j.refile = None \/ k.refile = None
  <2> SUFFICES ASSUME j.refile # None, k.refile # None PROVE FALSE
    OBVIOUS
  <2>1. j.refile = Base(j.origin).case /\ k.refile = Base(k.origin).case
    BY <1>3 DEF IInv, Rows, RefileOK
  <2>2. j.refile = k.refile BY <2>1, <1>3
  <2> QED BY <2>2, <1>3, KeyIs
<1> QED BY <1>1, <1>2, <1>3 DEF OneCasePerWindow

LEMMA ToldIsFiled == IInv => FiledAsAsked
BY DEF IInv, Rows, Calls, Told, FiledAsAsked

-----------------------------------------------------------------------------
(* Steps *)

Told2Case(s) == s.case # None <=> s.answer \in {"filed", "duplicate"}

stored == <<now, message, injection, inbox, case>>

LEMMA IdleType == Idle \in ReqType /\ Told2Case(Idle)
BY NoneFacts DEF Idle, ReqType, Told2Case, Answers

LEMMA Starts == Init => IInv
<1> SUFFICES ASSUME Init PROVE IInv
  OBVIOUS
<1>1. TypeOK
  BY IdleType, TimeAssumption, NoneFacts DEF Init, TypeOK, Hours, Told2Case, Unwritten
<1>2. Rows /\ EachHasRow BY DEF Init, Rows, EachHasRow
<1>3. Calls BY DEF Init, Calls, Carried, Told, Idle
<1> QED BY <1>1, <1>2, <1>3 DEF IInv

(* Rows and faults that are there stay, so what a call carries stays true. *)
LEMMA CarriedOn ==
  ASSUME NEW r \in Requests, Carried(req[r]), Told(req[r]), req'[r] = req[r],
         \A k \in DedupKeys : inbox[k] # None => inbox'[k] = inbox[k],
         \A i \in Injections : injection[i] # None => injection'[i] = injection[i],
         req[r] \in ReqType
  PROVE  Carried(req[r])' /\ Told(req[r])'
<1> DEFINE s == req[r]
<1>1. Told(req[r])' BY DEF Told
<1>2. ASSUME s.at = "fetch", s.injection # None PROVE injection'[s.injection] # None
  BY <1>2 DEF Carried, ReqType
<1>3. ASSUME s.at \in {"ready", "new"} PROVE IsEvidence(s.input)'
  <2>1. s.input \in InputType /\ IsEvidence(s.input) BY <1>3 DEF Carried
  <2> QED BY <2>1 DEF IsEvidence, InputType
<1>4. ASSUME s.at = "new" PROVE RefileOK(s.input.origin, s.row.previous, s.row.received)'
  <2>1. RefileOK(s.input.origin, s.row.previous, s.row.received) BY <1>4 DEF Carried
  <2>2. DedupKey(s.input.origin, None) \in DedupKeys
    BY <1>4, KeyType DEF Carried, InputType
  <2> QED BY <2>1, <2>2 DEF RefileOK, Base
<1>5. Carried(req[r])' BY <1>2, <1>3, <1>4 DEF Carried
<1> QED BY <1>1, <1>5

(* A step of one call that stores nothing. *)
LEMMA OnlyReq ==
  ASSUME IInv, NEW r \in Requests, NEW s \in ReqType, Told2Case(s), Move(r, s),
         UNCHANGED stored, Carried(req[r])', Told(req[r])'
  PROVE  IInv'
<1>1. TypeOK' BY DEF IInv, TypeOK, Move, stored, Told2Case
<1>2. Rows' /\ EachHasRow'
  BY DEF IInv, Rows, EachHasRow, stored, RefileOK, Base, IsEvidence
<1>3. ASSUME NEW q \in Requests, q # r PROVE Carried(req[q])' /\ Told(req[q])'
  <2>1. req'[q] = req[q] /\ req[q] \in ReqType BY <1>3 DEF Move, IInv, TypeOK
  <2>2. Carried(req[q]) /\ Told(req[q]) BY DEF IInv, Calls
  <2> QED BY <2>1, <2>2, CarriedOn DEF stored
<1>4. Calls' BY <1>3 DEF Calls
<1> QED BY <1>1, <1>2, <1>4 DEF IInv

LEMMA RefuseStep == ASSUME IInv, NEW r \in Requests, Refuse(r) PROVE IInv'
<1>1. req'[r] = Idle BY DEF Refuse, Move, IInv, TypeOK
<1>2. Carried(req[r])' /\ Told(req[r])' BY <1>1 DEF Carried, Told, Idle
<1> QED BY <1>2, IdleType, OnlyReq DEF Refuse, stored

LEMMA PostStep == ASSUME IInv, NEW r \in Requests, PostComplaint(r) PROVE IInv'
<1>1. PICK c \in Complaints :
        /\ Traceable(c)
        /\ Move(r, [req[r] EXCEPT !.at = "ready", !.input = Input(c.source, Ext(c), None, None)])
  BY DEF PostComplaint
<1> DEFINE in == Input(c.source, Ext(c), None, None)
           s == [req[r] EXCEPT !.at = "ready", !.input = in]
<1>2. c \in ComplaintType BY InputsAssumption
<1>3. Ext(c) \in Exts BY <1>2 DEF Ext, ContentKey, Exts, ComplaintType
<1>4. in \in InputType /\ in.injection = None /\ in.provenance = None
  BY <1>2, <1>3 DEF Input, InputType, Origins, ComplaintType
<1>5. req[r] = Idle /\ req[r] \in ReqType BY DEF PostComplaint, IInv, Calls, Carried, TypeOK
<1>6. /\ s \in ReqType /\ Told2Case(s)
      /\ s.at = "ready" /\ s.input = in /\ s.injection = None /\ s.case = None /\ s.answer = None
  <2> HIDE DEF in
  <2>1. s = [at |-> "ready", message |-> None, injection |-> None, input |-> in,
             row |-> None, key |-> None, known |-> {}, answer |-> None, case |-> None]
    <3>1. s = [Idle EXCEPT !.at = "ready", !.input = in] BY <1>5
    <3> HIDE DEF s
    <3> QED BY <3>1 DEF Idle
  <2> HIDE DEF s
  <2>2. None \notin {"filed", "duplicate"} BY NoneFacts DEF Answers
  <2> QED BY <2>1, <2>2, <1>4 DEF ReqType, Told2Case
<1>7. req'[r] = s BY <1>1 DEF Move, IInv, TypeOK
<1> HIDE DEF s, in
<1>8. Carried(req[r])' /\ Told(req[r])'
  BY <1>4, <1>6, <1>7 DEF Carried, Told, IsEvidence
<1> QED BY <1>1, <1>6, <1>8, OnlyReq DEF PostComplaint, stored, s, in

LEMMA FileMessageStep == ASSUME IInv, NEW r \in Requests, FileMessage(r) PROVE IInv'
<1>1. PICK m \in Messages, i \in Injections \cup {None} :
        /\ i # None => injection[i] # None
        /\ Move(r, [req[r] EXCEPT !.at = "fetch", !.message = m, !.injection = i])
  BY DEF FileMessage
<1> DEFINE s == [req[r] EXCEPT !.at = "fetch", !.message = m, !.injection = i]
<1>2. req[r] = Idle /\ req[r] \in ReqType BY DEF FileMessage, IInv, Calls, Carried, TypeOK
<1>3. /\ s \in ReqType /\ Told2Case(s)
      /\ s.at = "fetch" /\ s.message = m /\ s.injection = i /\ s.case = None /\ s.answer = None
  <2>1. s = [at |-> "fetch", message |-> m, injection |-> i, input |-> None, row |-> None,
             key |-> None, known |-> {}, answer |-> None, case |-> None]
    <3>1. s = [Idle EXCEPT !.at = "fetch", !.message = m, !.injection = i] BY <1>2
    <3> HIDE DEF s
    <3> QED BY <3>1 DEF Idle
  <2> HIDE DEF s
  <2>2. None \notin {"filed", "duplicate"} BY NoneFacts DEF Answers
  <2> QED BY <2>1, <2>2 DEF ReqType, Told2Case
<1>4. req'[r] = s BY <1>1 DEF Move, IInv, TypeOK
<1> HIDE DEF s
<1>5. Carried(req[r])' /\ Told(req[r])'
  BY <1>1, <1>3, <1>4 DEF Carried, Told, FileMessage
<1> QED BY <1>1, <1>3, <1>5, OnlyReq DEF FileMessage, stored, s

LEMMA FetchStep == ASSUME IInv, NEW r \in Requests, Fetch(r) PROVE IInv'
<1> DEFINE m == req[r].message
           i == req[r].injection
           in == Input("webhook", m, i, message[m])
           s == [req[r] EXCEPT !.at = "ready", !.input = in]
<1>1. req[r] \in ReqType /\ Told2Case(req[r]) BY DEF IInv, TypeOK, Told2Case
<1>2. /\ m \in Messages /\ (i # None => injection[i] # None)
      /\ req[r].case = None /\ req[r].answer = None
  BY DEF Fetch, IInv, Calls, Carried
<1>3. message[m] \in Provenance
  BY <1>2 DEF IInv, TypeOK, Fetch, Unwritten, Provenance
<1>4. in \in InputType /\ in.injection = i /\ in.provenance = message[m]
  BY <1>1, <1>2, <1>3, InputsAssumption DEF Input, InputType, Origins, Exts, ReqType
<1>5. IsEvidence(in)
  BY <1>2, <1>3, <1>4, NoneFacts DEF Fetch, EvidenceOf, IsEvidence
<1> HIDE DEF in
<1>6. /\ s \in ReqType /\ Told2Case(s)
      /\ s.at = "ready" /\ s.input = in /\ s.injection = i /\ s.case = None /\ s.answer = None
  BY <1>1, <1>2, <1>4 DEF ReqType, Told2Case
<1>7. req'[r] = s BY DEF Fetch, Move, IInv, TypeOK, in
<1> HIDE DEF s
<1>8. Carried(req[r])' /\ Told(req[r])'
  BY <1>4, <1>5, <1>6, <1>7 DEF Carried, Told, Fetch, IsEvidence
<1> QED BY <1>6, <1>8, OnlyReq DEF Fetch, stored, s, in

LEMMA ToFileStep ==
  ASSUME IInv, NEW r \in Requests, req[r].at = "ready", NEW p \in Cases \cup {None},
         p # None => Existing(r) # None /\ Existing(r).case = p, ToFile(r, p)
  PROVE  IInv'
<1> DEFINE in == req[r].input
           row == Row(in, p)
           key == DedupKey(in.origin, p)
           s == [req[r] EXCEPT !.at = "new", !.row = row, !.key = key,
                               !.known = KnownCases(in.origin)]
<1>1. req[r] \in ReqType /\ Told2Case(req[r]) /\ inbox \in [DedupKeys -> InboxRow \cup {None}]
  BY DEF IInv, TypeOK, Told2Case
<1>2. /\ in \in InputType /\ in.injection = req[r].injection /\ IsEvidence(in)
      /\ req[r].case = None /\ req[r].answer = None
  BY DEF IInv, Calls, Carried
<1>3. /\ row \in RowOf({None}) /\ row.injection = in.injection
      /\ row.provenance = in.provenance /\ row.previous = p /\ row.received = now
  BY <1>2 DEF Row, RowOf, InputType, IInv, TypeOK
<1>4. key \in DedupKeys BY <1>2, KeyType DEF InputType
<1>5. KnownCases(in.origin) \subseteq Cases
  BY <1>1 DEF KnownCases, InboxRow, RowOf
<1>6. RefileOK(in.origin, p, now)
  <2> SUFFICES ASSUME p # None PROVE now > Base(in.origin).received + Window
    BY DEF RefileOK, Existing, Base
  <2>1. Base(in.origin) = Existing(r) BY DEF Base, Existing
  <2>2. Existing(r) \in InboxRow BY <1>1, <1>2, KeyType DEF Existing, InputType
  <2>3. ~ (now <= Existing(r).received + Window) BY DEF ToFile, Repeated, InWindow
  <2>4. now \in Nat /\ Existing(r).received \in Nat /\ Window \in Nat
    BY <2>2, TimeAssumption DEF IInv, TypeOK, Hours, InboxRow, RowOf
  <2> QED BY <2>1, <2>3, <2>4
<1> HIDE DEF in, row, key
<1>7. /\ s \in ReqType /\ Told2Case(s)
      /\ s.at = "new" /\ s.input = in /\ s.injection = req[r].injection
      /\ s.row = row /\ s.key = key /\ s.case = None /\ s.answer = None
  BY <1>1, <1>2, <1>3, <1>4, <1>5 DEF ReqType, Told2Case, in
<1>8. req'[r] = s BY DEF ToFile, Move, IInv, TypeOK, in, row, key
<1> HIDE DEF s
<1>9. Carried(req[r])' /\ Told(req[r])'
  <2>1. UNCHANGED stored BY DEF ToFile, stored
  <2> QED BY <2>1, <1>2, <1>3, <1>6, <1>7, <1>8
          DEF Carried, Told, key, stored, IsEvidence, RefileOK, Base
<1> QED BY <1>7, <1>9, OnlyReq DEF ToFile, stored, s, in, row, key

LEMMA DuplicateStep == ASSUME IInv, NEW r \in Requests, Duplicate(r) PROVE IInv'
<1> DEFINE row == Existing(r)
           k == DedupKey(req[r].input.origin, None)
           s == [req[r] EXCEPT !.at = "done", !.message = None, !.row = None, !.key = None,
                               !.answer = "duplicate", !.case = row.case]
<1>1. req[r] \in ReqType /\ inbox \in [DedupKeys -> InboxRow \cup {None}]
  BY DEF IInv, TypeOK
<1>2. req[r].input \in InputType /\ req[r].input.injection = req[r].injection
  BY DEF Duplicate, IInv, Calls, Carried
<1>3. k \in DedupKeys /\ k.origin = req[r].input.origin BY <1>2, KeyType DEF InputType
<1>4. row = inbox[k] /\ row # None /\ row \in InboxRow /\ Agrees(req[r].input, row)
  BY <1>1, <1>3 DEF Duplicate, Repeated, Existing
<1>5. row.case \in Cases BY <1>4 DEF InboxRow, RowOf
<1> HIDE DEF row, k
<1>6. /\ s \in ReqType /\ Told2Case(s)
      /\ s.at = "done" /\ s.input = req[r].input /\ s.injection = req[r].injection
      /\ s.case = row.case
  BY <1>1, <1>5, NoneFacts DEF ReqType, Told2Case, Answers
<1>7. req'[r] = s BY DEF Duplicate, Answer, Move, IInv, TypeOK, row
<1> HIDE DEF s
<1>8. Carried(req[r])' BY <1>6, <1>7 DEF Carried
<1>9. Told(req[r])'
  BY <1>2, <1>3, <1>4, <1>6, <1>7 DEF Told, Agrees, Duplicate
<1> QED BY <1>6, <1>8, <1>9, OnlyReq DEF Duplicate, Answer, stored, s, row

LEMMA CollideStep == ASSUME IInv, NEW r \in Requests, Collide(r) PROVE IInv'
<1> DEFINE s == [req[r] EXCEPT !.at = "done", !.message = None, !.row = None, !.key = None,
                               !.answer = "failed", !.case = None]
<1>1. req[r] \in ReqType BY DEF IInv, TypeOK
<1>2. s \in ReqType /\ Told2Case(s) /\ s.at = "done" /\ s.case = None
  BY <1>1 DEF ReqType, Told2Case, Answers
<1>3. req'[r] = s BY DEF Collide, Answer, Move, IInv, TypeOK
<1> HIDE DEF s
<1>4. Carried(req[r])' /\ Told(req[r])' BY <1>2, <1>3 DEF Carried, Told
<1> QED BY <1>2, <1>4, OnlyReq DEF Collide, Answer, stored, s

(* The one step that stores: a first row, or one filed again.                *)
LEMMA InsertStep == ASSUME IInv, NEW r \in Requests, Insert(r) PROVE IInv'
<1>1. PICK c \in Cases, state \in Opened :
        /\ case[c] = None
        /\ case' = [case EXCEPT ![c] = state]
        /\ inbox' = [inbox EXCEPT ![req[r].key] = [req[r].row EXCEPT !.case = c]]
        /\ Answer(r, "filed", c)
  BY DEF Insert
<1> DEFINE in == req[r].input
           k0 == req[r].key
           row == [req[r].row EXCEPT !.case = c]
           s == [req[r] EXCEPT !.at = "done", !.message = None, !.row = None, !.key = None,
                               !.answer = "filed", !.case = c]
<1>2. /\ req[r] \in ReqType /\ inbox \in [DedupKeys -> InboxRow \cup {None}]
      /\ case \in [Cases -> Opened \cup {None}] /\ req \in [Requests -> ReqType]
  BY DEF IInv, TypeOK
<1>3. /\ in \in InputType /\ in.injection = req[r].injection /\ IsEvidence(in)
      /\ req[r].row \in RowOf({None}) /\ k0 = DedupKey(in.origin, req[r].row.previous)
      /\ req[r].row.injection = in.injection /\ req[r].row.provenance = in.provenance
      /\ RefileOK(in.origin, req[r].row.previous, req[r].row.received)
      /\ inbox[k0] = None
  BY DEF Insert, IInv, Calls, Carried
<1>4. /\ row \in InboxRow /\ row.case = c /\ row.received = req[r].row.received
      /\ row.previous = req[r].row.previous
      /\ row.injection = in.injection /\ row.provenance = in.provenance
  BY <1>3 DEF RowOf, InboxRow
<1>5. /\ k0 \in DedupKeys /\ k0.origin = in.origin /\ k0.refile = row.previous
  BY <1>3, <1>4, KeyType DEF InputType, RowOf, InboxRow
<1>6. /\ s \in ReqType /\ Told2Case(s)
      /\ s.at = "done" /\ s.input = in /\ s.injection = req[r].injection /\ s.case = c
  BY <1>2, NoneFacts DEF ReqType, Told2Case, Answers
<1>7. req' = [req EXCEPT ![r] = s] /\ inbox' = [inbox EXCEPT ![k0] = row]
      /\ case' = [case EXCEPT ![c] = state] /\ UNCHANGED <<now, message, injection>>
  BY <1>1 DEF Insert, Answer, Move
<1> HIDE DEF in, k0, row, s
<1>8. inbox'[k0] = row /\ \A k \in DedupKeys : k # k0 => inbox'[k] = inbox[k]
  BY <1>2, <1>5, <1>7
<1>9. \A k \in DedupKeys : inbox[k] # None => inbox'[k] = inbox[k]
  BY <1>8, <1>3 DEF k0
<1>10. row # None /\ state # None BY <1>4, NoneFacts
<1>11. TypeOK'
  <2>1. inbox' \in [DedupKeys -> InboxRow \cup {None}] BY <1>2, <1>4, <1>7
  <2>2. case' \in [Cases -> Opened \cup {None}] BY <1>2, <1>7
  <2>3. req' \in [Requests -> ReqType] BY <1>2, <1>6, <1>7
  <2>4. \A q \in Requests : Told2Case(req'[q])
    BY <1>2, <1>6, <1>7 DEF IInv, TypeOK, Told2Case
  <2> QED BY <2>1, <2>2, <2>3, <2>4, <1>7 DEF IInv, TypeOK, Told2Case
<1>12. \A o \in Origins : Base(o) # None => Base(o)' = Base(o)
  BY <1>9, KeyType DEF Base
<1>13. Rows'
  <2> SUFFICES ASSUME NEW k \in DedupKeys, inbox'[k] # None
               PROVE  /\ inbox'[k].previous = k.refile
                      /\ RefileOK(k.origin, k.refile, inbox[k].received)'
                      /\ case'[inbox'[k].case] # None
                      /\ IsEvidence(inbox[k])'
    BY DEF Rows
  <2>1. CASE k = k0
    <3>1. RefileOK(k.origin, k.refile, row.received) BY <2>1, <1>3, <1>4, <1>5
    <3>2. k.origin \in Origins BY KeyIs
    <3>3. case'[c] = state BY <1>2, <1>7
    <3>4. IsEvidence(row)
      BY <1>3, <1>4 DEF IsEvidence
    <3>5. inbox'[k] = row BY <2>1, <1>8
    <3>6. RefileOK(k.origin, k.refile, inbox[k].received)'
      BY <3>1, <3>2, <3>5, <1>12 DEF RefileOK
    <3>7. IsEvidence(inbox[k])' BY <3>4, <3>5, <1>7 DEF IsEvidence
    <3> QED BY <2>1, <3>3, <3>5, <3>6, <3>7, <1>4, <1>5, <1>10
  <2>2. CASE k # k0
    <3>1. inbox'[k] = inbox[k] BY <2>2, <1>8
    <3>2. /\ inbox[k].previous = k.refile /\ RefileOK(k.origin, k.refile, inbox[k].received)
          /\ case[inbox[k].case] # None /\ IsEvidence(inbox[k]) /\ k.origin \in Origins
      BY <3>1, KeyIs DEF IInv, Rows
    <3>3. case'[inbox[k].case] # None
      BY <3>1, <3>2, <1>2, <1>7, <1>10 DEF InboxRow, RowOf
    <3>4. RefileOK(k.origin, k.refile, inbox[k].received)'
      BY <3>1, <3>2, <1>12 DEF RefileOK
    <3>5. IsEvidence(inbox[k])' BY <3>1, <3>2, <1>7 DEF IsEvidence
    <3> QED BY <3>1, <3>2, <3>3, <3>4, <3>5
  <2> QED BY <2>1, <2>2
<1>14. EachHasRow'
  <2> SUFFICES ASSUME NEW d \in Cases, case'[d] # None
               PROVE  \E k \in DedupKeys : inbox'[k] # None /\ inbox'[k].case = d
    BY DEF EachHasRow
  <2>1. CASE d = c BY <2>1, <1>4, <1>5, <1>8, <1>10
  <2>2. CASE d # c
    <3>1. case[d] # None BY <2>2, <1>2, <1>7
    <3> QED BY <3>1, <1>9 DEF IInv, EachHasRow
  <2> QED BY <2>1, <2>2
<1>15. ASSUME NEW q \in Requests PROVE Carried(req[q])' /\ Told(req[q])'
  <2>1. CASE q = r
    <3>1. req'[q] = s BY <2>1, <1>2, <1>7
    <3> QED BY <3>1, <1>3, <1>4, <1>5, <1>6, <1>8, <1>10 DEF Carried, Told, in
  <2>2. CASE q # r
    <3>1. req'[q] = req[q] /\ req[q] \in ReqType BY <2>2, <1>2, <1>7
    <3>2. Carried(req[q]) /\ Told(req[q]) BY DEF IInv, Calls
    <3> QED BY <3>1, <3>2, <1>7, <1>9, CarriedOn
  <2> QED BY <2>1, <2>2
<1>16. Calls' BY <1>15 DEF Calls
<1> QED BY <1>11, <1>13, <1>14, <1>16 DEF IInv

-----------------------------------------------------------------------------
(* The world *)

LEMMA WorldStep ==
  ASSUME IInv, TypeOK', UNCHANGED <<inbox, req>>,
         case' = case,
         \A i \in Injections : injection[i] # None => injection'[i] = injection[i]
  PROVE  IInv'
<1>1. Rows'
  <2> SUFFICES ASSUME NEW k \in DedupKeys, inbox[k] # None
               PROVE  case'[inbox[k].case] # None /\ IsEvidence(inbox[k])'
    BY DEF Rows, IInv, RefileOK, Base
  <2>1. inbox[k] \in InboxRow BY DEF IInv, TypeOK
  <2>2. case[inbox[k].case] # None /\ IsEvidence(inbox[k]) BY DEF IInv, Rows
  <2> QED BY <2>1, <2>2 DEF InboxRow, RowOf, IsEvidence
<1>2. EachHasRow' BY DEF IInv, EachHasRow
<1>3. ASSUME NEW r \in Requests PROVE Carried(req[r])' /\ Told(req[r])'
  <2>1. Carried(req[r]) /\ Told(req[r]) /\ req[r] \in ReqType BY DEF IInv, Calls, TypeOK
  <2> QED BY <2>1, CarriedOn
<1>4. Calls' BY <1>3 DEF Calls
<1> QED BY <1>1, <1>2, <1>4 DEF IInv

LEMMA TickStep == ASSUME IInv, Tick PROVE IInv'
<1>1. TypeOK' BY TimeAssumption DEF Tick, IInv, TypeOK, Hours
<1> QED BY <1>1, WorldStep DEF Tick

LEMMA WriteStep == ASSUME IInv, NEW m \in Messages, Write(m) PROVE IInv'
<1>1. PICK t \in Texts \cup {None} :
        message' = [message EXCEPT ![m] =
          [text |-> t, sent |-> IF @.sent = None THEN now ELSE @.sent]]
  BY DEF Write
<1>2. message[m] \in [text : Texts \cup {None}, sent : Hours] \cup {Unwritten} /\ now \in Hours
  BY DEF IInv, TypeOK
<1>3. (IF message[m].sent = None THEN now ELSE message[m].sent) \in Hours
  BY <1>2 DEF Unwritten
<1>4. TypeOK' BY <1>1, <1>3 DEF Write, IInv, TypeOK
<1> QED BY <1>4, WorldStep DEF Write

LEMMA InjectionStep ==
  ASSUME IInv, NEW i \in Injections, InjectionCompletes(i) PROVE IInv'
<1>1. TypeOK' BY DEF InjectionCompletes, IInv, TypeOK
<1>2. \A j \in Injections : injection[j] # None => injection'[j] = injection[j]
  BY DEF InjectionCompletes, IInv, TypeOK
<1> QED BY <1>1, <1>2, WorldStep DEF InjectionCompletes

-----------------------------------------------------------------------------
(* Theorems *)

LEMMA StutterStep == ASSUME IInv, UNCHANGED vars PROVE IInv'
<1>1. TypeOK' BY DEF vars, IInv, TypeOK
<1> QED BY <1>1, WorldStep DEF vars

LEMMA Steps == ASSUME IInv, [Next]_vars PROVE IInv'
<1>1. ASSUME NEW r \in Requests, LookUpNew(r) PROVE IInv'
  BY <1>1, ToFileStep DEF LookUpNew
<1>2. ASSUME NEW r \in Requests, LookUpOld(r) PROVE IInv'
  <2>1. Existing(r).case \in Cases
    <3>1. req[r].input \in InputType BY <1>2 DEF LookUpOld, IInv, Calls, Carried
    <3>2. Existing(r) \in InboxRow
      BY <1>2, <3>1, KeyType DEF LookUpOld, Existing, InputType, IInv, TypeOK
    <3> QED BY <3>2 DEF InboxRow, RowOf
  <2> QED BY <2>1, <1>2, ToFileStep DEF LookUpOld
<1>3. ASSUME NEW r \in Requests, FetchFails(r) \/ Conflict(r) \/ AuditFails(r) PROVE IInv'
  BY <1>3, RefuseStep DEF FetchFails, Conflict, AuditFails
<1> QED BY <1>1, <1>2, <1>3, PostStep, FileMessageStep, FetchStep, DuplicateStep, CollideStep,
           InsertStep, TickStep, WriteStep, InjectionStep, StutterStep
        DEF Next

(* The invariant holds in every state, whatever the constants are.           *)
THEOREM Inductive == Spec => []IInv
<1>1. Init => IInv BY Starts
<1>2. IInv /\ [Next]_vars => IInv' BY Steps
<1> QED BY <1>1, <1>2, PTL DEF Spec

(* The inbox, the cases and the calls stay well typed, and a call is answered *)
(* with a case exactly when it filed one or repeats one (ingest_complaint).   *)
THEOREM TypeCorrect == Spec => []TypeOK
<1>1. IInv => TypeOK BY DEF IInv
<1> QED BY <1>1, Inductive, PTL

(* Two cases of one complaint are a window apart and linked, however the       *)
(* handlers of any number of calls interleave (ingest_complaint).             *)
THEOREM OnePerWindow == Spec => []OneCasePerWindow
<1> QED BY TwoRows, Inductive, PTL

(* A case is of the complaint, text and demo fault that whoever was told of it *)
(* brought, and the fault came before its message (file_feishu_complaint).     *)
THEOREM AsAsked == Spec => []FiledAsAsked
<1> QED BY ToldIsFiled, Inductive, PTL

-----------------------------------------------------------------------------
(* Credentials *)

Persons == {Operator(q) : q \in Installs} \cup {Owner(q) : q \in Installs}
Credential == [who : Persons, bound : BOOLEAN, issued : Nat, state : {"ACTIVE", "REVOKED"}]
Registration == [kind : IntakeKinds \cup CatalogKinds, by : Installs]

IdentityTypeOK ==
  /\ clock \in Nat /\ environment \in Nat \cup {None}
  /\ sources \subseteq Installs /\ ready \subseteq Installs /\ registrations \subseteq Registration
  /\ people \subseteq Persons /\ bound \subseteq Persons
  /\ credentials \in Seq(Credential)

(* Whoever has a credential is enrolled, and an owner with one is bound; so a *)
(* first credential is made for somebody who has none.                        *)
HoldersAreKnown ==
  \A c \in DOMAIN credentials :
    /\ credentials[c].who \in people
    /\ \A q \in Catalog : credentials[c].who = Owner(q) => Owner(q) \in bound

IdentityInv == IdentityTypeOK /\ HoldersAreKnown /\ OneLiveCredential

\* Rows of the sequences of the model: a new one, and one changed in place.
LEMMA Appended ==
  ASSUME NEW S, NEW s \in Seq(S), NEW v \in S
  PROVE  /\ Append(s, v) \in Seq(S)
         /\ DOMAIN Append(s, v) = DOMAIN s \cup {Len(s) + 1} /\ Len(s) + 1 \notin DOMAIN s
         /\ Append(s, v)[Len(s) + 1] = v
         /\ \A i \in DOMAIN s : Append(s, v)[i] = s[i]
OBVIOUS

LEMMA Replaced ==
  ASSUME NEW S, NEW s \in Seq(S), NEW i \in DOMAIN s, NEW v \in S
  PROVE  /\ [s EXCEPT ![i] = v] \in Seq(S)
         /\ DOMAIN [s EXCEPT ![i] = v] = DOMAIN s
         /\ \A j \in DOMAIN s : [s EXCEPT ![i] = v][j] = IF j = i THEN v ELSE s[j]
OBVIOUS

\* The identities of operators and owners differ.
LEMMA PersonsDiffer ==
  ASSUME NEW q, NEW r
  PROVE  Operator(q) # Owner(r)
BY DEF Operator, Owner

LEMMA IdentityStarts ==
  ASSUME IdentityInit
  PROVE  IdentityInv
BY DEF IdentityInit, IdentityInv, IdentityTypeOK, HoldersAreKnown, OneLiveCredential

\* A credential for somebody who has none.
LEMMA FirstCredential ==
  ASSUME IdentityInv, NEW p \in Persons, NEW inEnvironment \in BOOLEAN, NEW t \in Nat,
         CredentialsOf(p) = {},
         credentials' = Append(credentials, Issued(p, inEnvironment, t)),
         people \subseteq people', p \in people', bound \subseteq bound',
         \A q \in Catalog : p = Owner(q) => p \in bound'
  PROVE  credentials' \in Seq(Credential) /\ HoldersAreKnown' /\ OneLiveCredential'
<1>1. PICK new \in Credential :
        new = Issued(p, inEnvironment, t) /\ new.who = p /\ new.state = "ACTIVE"
  BY DEF Issued, Credential
<1>2. credentials \in Seq(Credential)
  BY DEF IdentityInv, IdentityTypeOK
<1>3. /\ credentials' \in Seq(Credential)
      /\ \A c \in DOMAIN credentials' :
           \/ c \in DOMAIN credentials /\ credentials'[c] = credentials[c]
           \/ c = Len(credentials) + 1 /\ credentials'[c] = new
  BY <1>1, <1>2
<1>4. \A c \in DOMAIN credentials : credentials[c].who # p
  BY DEF CredentialsOf
<1>5. HoldersAreKnown'
  BY <1>1, <1>3 DEF IdentityInv, HoldersAreKnown
<1>6. OneLiveCredential'
  BY <1>1, <1>3, <1>4 DEF IdentityInv, OneLiveCredential, Active
<1> QED BY <1>3, <1>5, <1>6

\* One in the place of the only one there was.
LEMMA ExchangedCredential ==
  ASSUME IdentityInv, NEW p \in Persons, NEW t \in Nat, NEW previous \in CredentialsOf(p),
         Active(previous),
         credentials' = Append([credentials EXCEPT ![previous].state = "REVOKED"], Issued(p, TRUE, t)),
         people' = people, p \in people, bound \subseteq bound',
         \A q \in Catalog : p # Owner(q)
  PROVE  credentials' \in Seq(Credential) /\ HoldersAreKnown' /\ OneLiveCredential'
<1> DEFINE new == Issued(p, TRUE, t)
           old == [credentials[previous] EXCEPT !.state = "REVOKED"]
           rows == [credentials EXCEPT ![previous] = old]
<1>1. new \in Credential /\ new.who = p
  BY DEF Issued, Credential
<1>2. credentials \in Seq(Credential) /\ previous \in DOMAIN credentials
  BY DEF IdentityInv, IdentityTypeOK, CredentialsOf
<1>3. old \in Credential /\ old.who = p /\ old.state = "REVOKED"
  <2>1. credentials[previous] \in Credential /\ credentials[previous].who = p
    BY <1>2 DEF CredentialsOf
  <2> QED BY <2>1 DEF Credential
<1>4. credentials' = Append(rows, new)
  OBVIOUS
<1> HIDE DEF new, old
<1>5. /\ rows \in Seq(Credential) /\ DOMAIN rows = DOMAIN credentials
      /\ \A c \in DOMAIN credentials : rows[c] = IF c = previous THEN old ELSE credentials[c]
  BY <1>2, <1>3, Replaced
<1> HIDE DEF rows
<1>9. /\ credentials' \in Seq(Credential)
      /\ \A c \in DOMAIN credentials' :
           \/ c \in DOMAIN credentials /\ credentials'[c] = rows[c]
           \/ c = Len(rows) + 1 /\ credentials'[c] = new
  <2>1. /\ Append(rows, new) \in Seq(Credential)
        /\ DOMAIN Append(rows, new) = DOMAIN rows \cup {Len(rows) + 1}
        /\ Append(rows, new)[Len(rows) + 1] = new
        /\ \A c \in DOMAIN rows : Append(rows, new)[c] = rows[c]
    <3>1. rows \in Seq(Credential) /\ new \in Credential
      BY <1>1, <1>5
    <3> QED BY <3>1
  <2> QED BY <1>4, <1>5, <2>1
<1>6. \A c \in DOMAIN credentials : credentials[c].who = p /\ Active(c) => c = previous
  BY DEF IdentityInv, OneLiveCredential, CredentialsOf
<1>7. HoldersAreKnown'
  <2>1. \A c \in DOMAIN credentials' :
          \/ credentials'[c].who = p
          \/ c \in DOMAIN credentials /\ credentials'[c].who = credentials[c].who
    BY <1>1, <1>3, <1>5, <1>9
  <2> QED BY <2>1 DEF IdentityInv, HoldersAreKnown
<1>8. OneLiveCredential'
  <2>1. ASSUME NEW c \in DOMAIN credentials', Active(c)'
        PROVE  \/ c = Len(rows) + 1 /\ credentials'[c].who = p
               \/ /\ c \in DOMAIN credentials /\ Active(c) /\ credentials[c].who # p
                  /\ credentials'[c].who = credentials[c].who
    BY <1>1, <1>3, <1>5, <1>6, <1>9, <2>1 DEF Active
  <2>2. ASSUME NEW c \in DOMAIN credentials', NEW d \in DOMAIN credentials',
               credentials'[c].who = credentials'[d].who, Active(c)', Active(d)'
        PROVE  c = d
    BY <2>1, <2>2 DEF IdentityInv, OneLiveCredential
  <2> QED BY <2>2 DEF OneLiveCredential
<1> QED BY <1>9, <1>7, <1>8

LEMMA PersonTypes ==
  ASSUME NEW q \in Installs
  PROVE  Operator(q) \in Persons /\ Owner(q) \in Persons
BY DEF Persons

\* Whoever is not enrolled has no credential, nor has an owner who is not in
\* the environment.
LEMMA NoneYet ==
  ASSUME HoldersAreKnown, NEW p
  PROVE  /\ p \notin people => CredentialsOf(p) = {}
         /\ \A q \in Catalog : p = Owner(q) /\ p \notin bound => CredentialsOf(p) = {}
BY DEF HoldersAreKnown, CredentialsOf

LEMMA SameCredentials ==
  ASSUME IdentityInv, credentials' = credentials, people \subseteq people', bound \subseteq bound'
  PROVE  credentials' \in Seq(Credential) /\ HoldersAreKnown' /\ OneLiveCredential'
BY DEF IdentityInv, IdentityTypeOK, HoldersAreKnown, OneLiveCredential, Active

\* A bootstrap makes a credential only for an operator it enrols.
LEMMA EnrolKeeps ==
  ASSUME IdentityInv, NEW q \in Installs, NEW inEnvironment \in BOOLEAN, Enrol(q, inEnvironment),
         people \subseteq people', Operator(q) \in people', bound \subseteq bound'
  PROVE  credentials' \in Seq(Credential) /\ HoldersAreKnown' /\ OneLiveCredential'
<1>1. CASE Operator(q) \in people
  BY <1>1, SameCredentials DEF Enrol
<1>2. CASE Operator(q) \notin people
  <2>1. PICK t \in Nat : credentials' = Append(credentials, Issued(Operator(q), inEnvironment, t))
    BY <1>2 DEF Enrol
  <2>2. CredentialsOf(Operator(q)) = {} /\ Operator(q) \in Persons
    BY <1>2, NoneYet, PersonTypes DEF IdentityInv
  <2>3. \A r \in Catalog : Operator(q) # Owner(r)
    BY PersonsDiffer
  <2> QED BY <2>1, <2>2, <2>3, FirstCredential
<1> QED BY <1>1, <1>2

LEMMA BootstrapKeeps ==
  ASSUME IdentityInv, Bootstrap
  PROVE  IdentityInv'
<1> USE LocalAssumption DEF IdentityInv
<1>1. PICK q \in Installs : \/ CheckCatalog(q) \/ InstallCatalog(q)
                            \/ CheckIntake(q) \/ InstallIntake(q) \/ Abandon(q)
  BY DEF Bootstrap
<1>2. CASE CheckCatalog(q) \/ CheckIntake(q) \/ Abandon(q)
  <2>1. /\ ready' \subseteq Installs
        /\ UNCHANGED <<clock, sources, registrations, people, bound, credentials, environment>>
    BY <1>2 DEF CheckCatalog, CheckIntake, Abandon, Ready, IdentityTypeOK
  <2> QED BY <2>1, SameCredentials DEF IdentityTypeOK
<1>3. CASE InstallCatalog(q)
  <2>1. credentials' \in Seq(Credential) /\ HoldersAreKnown' /\ OneLiveCredential'
    BY <1>3, EnrolKeeps DEF InstallCatalog
  <2>2. registrations' \subseteq Registration
    BY <1>3 DEF InstallCatalog, Register, IdentityTypeOK, Registration
  <2> QED BY <1>3, <2>1, <2>2, PersonTypes DEF InstallCatalog, IdentityTypeOK
<1>4. CASE InstallIntake(q)
  <2>1. credentials' \in Seq(Credential) /\ HoldersAreKnown' /\ OneLiveCredential'
    BY <1>4, EnrolKeeps DEF InstallIntake
  <2>2. registrations' \subseteq Registration
    BY <1>4 DEF InstallIntake, Register, IdentityTypeOK, Registration
  <2> QED BY <1>4, <2>1, <2>2, PersonTypes DEF InstallIntake, IdentityTypeOK
<1> QED BY <1>1, <1>2, <1>3, <1>4

\* A credential is made at a time there was.
LEMMA RecentTimes ==
  Recent \subseteq Nat
BY DEF Recent

\* The operator's credential is exchanged, so that it has one still.
LEMMA RotationKeeps ==
  ASSUME IdentityInv, NEW q \in Installs, NEW previous, RotateOperator(q, previous)
  PROVE  IdentityInv'
<1> USE DEF IdentityInv
<1>1. /\ Operator(q) \in people /\ Operator(q) \in Persons
      /\ previous \in CredentialsOf(Operator(q)) /\ Active(previous)
  BY PersonTypes DEF RotateOperator, OperatorOutside, PreviousFits
<1>2. /\ bound' = bound \cup {Operator(q)}
      /\ UNCHANGED <<clock, sources, registrations, people, environment, ready>>
  BY DEF RotateOperator, Admit
<1>3. PICK t \in Nat : credentials' = Append([credentials EXCEPT ![previous].state = "REVOKED"],
                                             Issued(Operator(q), TRUE, t))
  BY RecentTimes DEF RotateOperator, Admit
<1>4. \A r \in Catalog : Operator(q) # Owner(r)
  BY PersonsDiffer
<1>5. credentials' \in Seq(Credential) /\ HoldersAreKnown' /\ OneLiveCredential'
  BY <1>1, <1>2, <1>3, <1>4, ExchangedCredential
<1> QED BY <1>1, <1>2, <1>5 DEF IdentityTypeOK

\* An owner outside the environment has no credential yet.
LEMMA LoginKeeps ==
  ASSUME IdentityInv, NEW q \in Catalog, NEW at, ReauthenticateOwner(q, at)
  PROVE  IdentityInv'
<1> USE LocalAssumption DEF IdentityInv
<1>1. /\ Owner(q) \in people /\ Owner(q) \in Persons /\ CredentialsOf(Owner(q)) = {}
  BY PersonTypes, NoneYet DEF ReauthenticateOwner, OwnerOutside
<1>2. /\ bound' = bound \cup {Owner(q)}
      /\ UNCHANGED <<clock, sources, registrations, people, environment, ready>>
  BY DEF ReauthenticateOwner, Admit
<1>3. PICK t \in Nat : credentials' = Append(credentials, Issued(Owner(q), TRUE, t))
  BY RecentTimes DEF ReauthenticateOwner, Admit
<1>4. credentials' \in Seq(Credential) /\ HoldersAreKnown' /\ OneLiveCredential'
  BY <1>1, <1>2, <1>3, FirstCredential
<1> QED BY <1>1, <1>2, <1>4 DEF IdentityTypeOK

\* Every other step of a filing leaves people and credentials alone.
LEMMA IdentityStep ==
  ASSUME IdentityInv, [FilingNext]_filingVars
  PROVE  IdentityInv'
<1> USE DEF IdentityInv
<1>1. CASE UNCHANGED identity
  BY <1>1, SameCredentials DEF identity, IdentityTypeOK
<1>2. CASE Pass
  BY <1>2, SameCredentials DEF Pass, IdentityTypeOK
<1>3. CASE Bootstrap
  BY <1>3, BootstrapKeeps
<1>4. CASE Import
  <2>1. /\ environment' = clock
        /\ UNCHANGED <<clock, sources, registrations, people, bound, credentials, ready>>
    BY <1>4 DEF Import, ImportSystem
  <2> QED BY <2>1, SameCredentials DEF IdentityTypeOK
<1>5. CASE Rotate
  BY <1>5, RotationKeeps DEF Rotate
<1>6. CASE Login
  BY <1>6, LoginKeeps DEF Login
<1>7. \/ UNCHANGED identity \/ People
  BY DEF FilingNext, filingVars, EditIssue, Shell, FromIssue, ConfirmCriteria, Start, FetchIssue,
     Read, Stop, Send, TimeOut, Serve, Reject
<1> QED BY <1>1, <1>2, <1>3, <1>4, <1>5, <1>6, <1>7 DEF People

-----------------------------------------------------------------------------
(* Filings: types *)

FilingSteps == {"fetch", "resolve", "signal", "criteria", "bind", "propose"}
RunSteps == FilingSteps \cup {"proposal", "confirm"}
Count == Nat \cup {None}

Run == [at : RunSteps, token : Nat, draft : Count, version : Count, case : Count,
        number : Nat, tries : Nat, waiting : BOOLEAN]
Request == [from : Processes, number : Nat, at : Writes, token : Nat, key : Writes \X Count,
            version : Count, case : Count, draft : Count]
Entry == [key : Writes \X Count, body : Count \X Count \X Count]

FilingTypeOK ==
  /\ issue \in Nat /\ cache \in Count /\ runs \in Nat
  /\ run \in [Processes -> Run \cup {None}]
  /\ wire \subseteq Request /\ ledger \subseteq Entry
  /\ cases \in Seq(Count) /\ drafts \in Seq([case : Count, at : Nat])
  /\ bindings \subseteq Count /\ confirmed \subseteq Count

(* What a shell has learnt, by the step it is at.                             *)
OfVersion(c, v) == c \in DOMAIN cases /\ cases[c] = v

RunOK(r) ==
  /\ r.number <= runs
  /\ r.at \in FilingSteps => r.draft = None
  /\ r.at \in {"fetch", "resolve", "signal"} => r.case = None
  /\ r.at \in {"criteria", "bind", "propose"} => OfVersion(r.case, r.version)

(* What a request says follows from its step and its version.                 *)
RequestOK(m) ==
  /\ m.number <= runs
  /\ m.key = <<m.at, IF m.at = "confirm" THEN m.number ELSE m.version>>
  /\ m.at # "confirm" => m.draft = None
  /\ m.at = "signal" => m.case = None
  /\ m.at \in {"bind", "propose"} => OfVersion(m.case, m.version)

(* A shell that sent a request has still the version it sent it for.          *)
SentOf(m, r) == r.number = m.number => r.at # "fetch" /\ r.version = m.version

(* What a key was used for follows from the key, and has its case.            *)
EntryOK(e) ==
  /\ e.key[1] = "signal" => /\ e.body = <<e.key[2], None, None>>
                            /\ \E c : OfVersion(c, e.key[2])
  /\ e.key[1] \in {"bind", "propose"} =>
       \E c : OfVersion(c, e.key[2]) /\ e.body = <<e.key[2], c, None>>

(* A draft is of a case whose proposal has used its key.                      *)
DraftOK(d) ==
  /\ drafts[d].case \in DOMAIN cases
  /\ \E e \in ledger : e.key = <<"propose", cases[drafts[d].case]>>

CasesDiffer == \A c, d \in DOMAIN cases : cases[c] = cases[d] => c = d
DraftsDiffer == \A d, e \in DOMAIN drafts : drafts[d].case = drafts[e].case => d = e

RunsOK == \A p \in Processes : run[p] # None => RunOK(run[p])
WireOK == \A m \in wire : RequestOK(m) /\ (run[m.from] # None => SentOf(m, run[m.from]))
LedgerOK == \A e \in ledger : EntryOK(e)
DraftsOK == \A d \in DOMAIN drafts : DraftOK(d)

FilingInv ==
  FilingTypeOK /\ RunsOK /\ WireOK /\ LedgerOK /\ DraftsOK /\ CasesDiffer /\ DraftsDiffer

-----------------------------------------------------------------------------
(* Filings: the steps of a run *)

AfterStep == {<<"resolve", "signal">>, <<"signal", "criteria">>, <<"criteria", "bind">>,
              <<"bind", "propose">>, <<"proposal", "confirm">>}

LEMMA StepsFollow ==
  /\ NextStep["resolve"] = "signal" /\ NextStep["signal"] = "criteria"
  /\ NextStep["criteria"] = "bind" /\ NextStep["bind"] = "propose"
  /\ NextStep["proposal"] = "confirm"
  /\ NextStep["propose"] = "done" /\ NextStep["confirm"] = "done"
BY DEF NextStep

\* A run that is only at another step, or in another state of its request.
AtStep(r, at, tries, waiting) == [r EXCEPT !.at = at, !.tries = tries, !.waiting = waiting]

\* Such a run is a run.
LEMMA MovedRun ==
  ASSUME NEW r \in Run, NEW at \in RunSteps, NEW tries \in Nat, NEW waiting \in BOOLEAN
  PROVE  /\ AtStep(r, at, tries, waiting) \in Run
         /\ AtStep(r, at, tries, waiting).at = at
         /\ AtStep(r, at, tries, waiting).number = r.number
         /\ AtStep(r, at, tries, waiting).version = r.version
         /\ AtStep(r, at, tries, waiting).case = r.case
         /\ AtStep(r, at, tries, waiting).draft = r.draft
<1> DEFINE s == AtStep(r, at, tries, waiting)
<1>1. s \in Run
  BY DEF AtStep, Run
<1>2. s.at = at /\ s.number = r.number /\ s.version = r.version
  BY DEF AtStep, Run
<1>3. s.case = r.case /\ s.draft = r.draft
  BY DEF AtStep, Run
<1> QED BY <1>1, <1>2, <1>3

\* A run goes to the next step or ends, and keeps what it has learnt.
LEMMA Advances ==
  ASSUME NEW r \in Run, r.at # "fetch"
  PROVE  \/ Advance(r) = None
         \/ /\ Advance(r) \in Run /\ <<r.at, Advance(r).at>> \in AfterStep
            /\ Advance(r).number = r.number /\ Advance(r).version = r.version
            /\ Advance(r).case = r.case /\ Advance(r).draft = r.draft
<1>1. CASE r.at \in {"propose", "confirm"}
  BY <1>1, StepsFollow DEF Advance
<1>2. CASE r.at \in {"resolve", "signal", "criteria", "bind", "proposal"}
  <2>1. <<r.at, NextStep[r.at]>> \in AfterStep /\ NextStep[r.at] \in RunSteps /\ NextStep[r.at] # "done"
    BY <1>2, StepsFollow DEF AfterStep, RunSteps, FilingSteps
  <2>2. PICK next \in RunSteps : next = NextStep[r.at]
    BY <2>1
  <2>3. Advance(r) = AtStep(r, next, 0, FALSE)
    BY <2>1, <2>2 DEF Advance, AtStep
  <2>4. /\ Advance(r) \in Run /\ Advance(r).at = next
        /\ Advance(r).number = r.number /\ Advance(r).version = r.version
        /\ Advance(r).case = r.case /\ Advance(r).draft = r.draft
    <3>1. PICK tries \in Nat, waiting \in BOOLEAN : Advance(r) = AtStep(r, next, tries, waiting)
      BY <2>3
    <3> QED BY <3>1, MovedRun
  <2> QED BY <2>1, <2>2, <2>4
<1> QED BY <1>1, <1>2 DEF Run, RunSteps, FilingSteps

\* It may, once it has the case of its version.
LEMMA AdvanceIsOK ==
  ASSUME NEW r \in Run, RunOK(r), r.at # "fetch", Advance(r) # None,
         r.at = "signal" => OfVersion(r.case, r.version)
  PROVE  RunOK(Advance(r)) /\ Advance(r).at # "fetch"
BY Advances DEF RunOK, AfterStep, FilingSteps

\* One shell goes on, or its command ends.
LEMMA ShellMoves ==
  ASSUME FilingInv, NEW p \in Processes, run[p] # None, NEW r \in Run \cup {None},
         run' = [run EXCEPT ![p] = r], cache' \in Count,
         UNCHANGED <<issue, runs, wire, server>>,
         r # None => /\ RunOK(r) /\ r.number = run[p].number
                     /\ run[p].at # "fetch" => r.at # "fetch" /\ r.version = run[p].version
  PROVE  FilingInv'
<1>1. FilingTypeOK'
  BY DEF FilingInv, FilingTypeOK, server
<1>2. /\ run'[p] = r /\ \A q \in Processes \ {p} : run'[q] = run[q]
      /\ \A m \in wire : m.from \in Processes
  BY DEF FilingInv, FilingTypeOK, Request
<1>3. RunsOK'
  BY <1>2 DEF FilingInv, RunsOK, RunOK, OfVersion, server
<1>4. WireOK'
  <2> SUFFICES ASSUME NEW m \in wire
               PROVE  RequestOK(m)' /\ (run'[m.from] # None => SentOf(m, run'[m.from]))
    BY DEF WireOK
  <2>1. RequestOK(m)'
    BY DEF FilingInv, WireOK, RequestOK, OfVersion, server
  <2>2. run'[m.from] # None => SentOf(m, run'[m.from])
    BY <1>2 DEF FilingInv, WireOK, SentOf
  <2> QED BY <2>1, <2>2
<1>5. LedgerOK' /\ DraftsOK' /\ CasesDiffer' /\ DraftsDiffer'
  BY DEF FilingInv, LedgerOK, EntryOK, DraftsOK, DraftOK, OfVersion, CasesDiffer, DraftsDiffer, server
<1> QED BY <1>1, <1>3, <1>4, <1>5 DEF FilingInv

\* What the invariant says of the command of a shell.
LEMMA RunIsTyped ==
  ASSUME FilingInv, NEW p \in Processes, run[p] # None
  PROVE  run[p] \in Run /\ RunOK(run[p])
BY DEF FilingInv, FilingTypeOK, RunsOK

\* The steps of a shell that send nothing.
LEMMA ShellStep ==
  ASSUME FilingInv, NEW p \in Processes, FetchIssue(p) \/ Read(p) \/ Stop(p) \/ TimeOut(p)
  PROVE  FilingInv'
<1>0. run[p] # None /\ UNCHANGED <<issue, runs, wire, server>>
  BY DEF FetchIssue, Read, Stop, TimeOut
<1>1. run[p] \in Run /\ RunOK(run[p]) /\ cache \in Count /\ issue \in Nat
  BY <1>0, RunIsTyped DEF FilingInv, FilingTypeOK
<1>2. CASE FetchIssue(p)
  <2>1. PICK version \in Count :
          run' = [run EXCEPT ![p] = [run[p] EXCEPT !.at = "resolve", !.version = version]]
    BY <1>1, <1>2 DEF FetchIssue, Count
  <2>2. PICK r \in Run : r = [run[p] EXCEPT !.at = "resolve", !.version = version]
    BY <1>1 DEF Run, RunSteps, FilingSteps
  <2>3. /\ r.at = "resolve" /\ r.number = run[p].number /\ r.draft = run[p].draft
        /\ r.case = run[p].case /\ run[p].at = "fetch"
    BY <1>1, <1>2, <2>2 DEF Run, FetchIssue
  <2>4. RunOK(r)
    BY <1>1, <2>3 DEF RunOK, FilingSteps
  <2>5. cache' \in Count
    BY <1>1, <1>2 DEF FetchIssue, Torn, Count
  <2> QED BY <1>0, <2>1, <2>2, <2>3, <2>4, <2>5, ShellMoves
<1>3. CASE Read(p)
  <2>1. /\ run' = [run EXCEPT ![p] = Advance(run[p])] /\ cache' = cache
        /\ run[p].at \in {"resolve", "criteria", "proposal"}
    BY <1>3 DEF Read
  <2>2. Advance(run[p]) # None => RunOK(Advance(run[p])) /\ Advance(run[p]).at # "fetch"
    BY <1>1, <2>1, AdvanceIsOK
  <2>3. Advance(run[p]) # None => /\ Advance(run[p]).number = run[p].number
                                  /\ Advance(run[p]).version = run[p].version
    BY <1>1, <2>1, Advances
  <2>4. Advance(run[p]) \in Run \cup {None}
    BY <1>1, <2>1, Advances
  <2> QED BY <1>0, <1>1, <2>1, <2>2, <2>3, <2>4, ShellMoves
<1>4. CASE Stop(p)
  BY <1>0, <1>1, <1>4, ShellMoves DEF Stop
<1>5. CASE TimeOut(p)
  <2>1. PICK r \in Run \cup {None} :
          /\ run' = [run EXCEPT ![p] = r] /\ cache' = cache
          /\ r = None \/ r = [run[p] EXCEPT !.waiting = FALSE]
    BY <1>1, <1>5 DEF TimeOut, Run
  <2>2. r # None => /\ r.at = run[p].at /\ r.number = run[p].number /\ r.draft = run[p].draft
                    /\ r.case = run[p].case /\ r.version = run[p].version
    BY <1>1, <2>1 DEF Run
  <2>3. r # None => RunOK(r)
    BY <1>1, <2>2 DEF RunOK
  <2> QED BY <1>0, <1>1, <2>1, <2>2, <2>3, ShellMoves
<1> QED BY <1>2, <1>3, <1>4, <1>5

\* A command has a number nobody had, so no request on the way is its own.
LEMMA StartKeeps ==
  ASSUME FilingInv, NEW p \in Processes, NEW at \in {"fetch", "proposal"}, NEW token \in Nat,
         NEW draft \in Count, at = "fetch" => draft = None, Start(p, NewRun(at, token, draft))
  PROVE  FilingInv'
<1>0. PICK n \in Nat : n = runs + 1
  BY DEF FilingInv, FilingTypeOK
<1>1. PICK r \in Run :
        /\ r = NewRun(at, token, draft) /\ r.number = runs + 1 /\ r.at = at
        /\ r.draft = draft /\ r.case = None
  <2> DEFINE r == [at |-> at, token |-> token, draft |-> draft, version |-> None, case |-> None,
                   number |-> n, tries |-> 0, waiting |-> FALSE]
  <2>1. r = NewRun(at, token, draft)
    BY <1>0 DEF NewRun
  <2>2. r \in Run
    BY DEF Run, Count, RunSteps, FilingSteps
  <2>3. r.number = n /\ r.at = at /\ r.draft = draft /\ r.case = None
    OBVIOUS
  <2> HIDE DEF r
  <2> QED BY <1>0, <2>1, <2>2, <2>3
<1>2. /\ run' = [run EXCEPT ![p] = r] /\ runs' = runs + 1 /\ runs \in Nat
      /\ UNCHANGED <<issue, cache, wire, server>>
  BY <1>1 DEF Start, FilingInv, FilingTypeOK
<1>3. FilingTypeOK'
  BY <1>2 DEF FilingInv, FilingTypeOK, server
<1>4. /\ run'[p] = r /\ \A q \in Processes \ {p} : run'[q] = run[q]
      /\ \A m \in wire : m.from \in Processes /\ m.number \in Nat
  BY <1>2 DEF FilingInv, FilingTypeOK, Request
<1>5. \A q \in Processes : run[q] # None => run[q].number \in Nat
  BY RunIsTyped DEF Run
<1>6. RunsOK'
  <2>1. RunOK(r)'
    BY <1>1, <1>2 DEF RunOK, FilingSteps
  <2>2. ASSUME NEW q \in Processes \ {p}, run[q] # None
        PROVE  RunOK(run[q])'
    BY <1>2, <1>4, <1>5, <2>2 DEF FilingInv, RunsOK, RunOK, OfVersion, server
  <2> QED BY <1>4, <2>1, <2>2 DEF RunsOK, RunOK, OfVersion
<1>7. WireOK'
  <2> SUFFICES ASSUME NEW m \in wire
               PROVE  RequestOK(m)' /\ (run'[m.from] # None => SentOf(m, run'[m.from]))
    BY <1>2 DEF WireOK
  <2>1. RequestOK(m) /\ (run[m.from] # None => SentOf(m, run[m.from])) /\ m.number <= runs
    BY DEF FilingInv, WireOK, RequestOK
  <2>2. RequestOK(m)'
    BY <1>2, <1>4, <2>1 DEF RequestOK, OfVersion, server
  <2>3. m.number # r.number
    BY <1>1, <1>2, <1>4, <2>1
  <2>4. run'[m.from] # None => SentOf(m, run'[m.from])
    BY <1>4, <2>1, <2>3 DEF SentOf
  <2> QED BY <2>2, <2>4
<1>8. LedgerOK' /\ DraftsOK' /\ CasesDiffer' /\ DraftsDiffer'
  BY <1>2 DEF FilingInv, LedgerOK, EntryOK, DraftsOK, DraftOK, OfVersion, CasesDiffer, DraftsDiffer, server
<1> QED BY <1>3, <1>6, <1>7, <1>8 DEF FilingInv

\* A request says what its command knows.
LEMMA SendKeeps ==
  ASSUME FilingInv, NEW p \in Processes, Send(p)
  PROVE  FilingInv'
<1>1. run[p] # None /\ run[p] \in Run /\ RunOK(run[p]) /\ run[p].at \in Writes
  BY RunIsTyped DEF Send
<1>2. PICK n \in Nat : n = run[p].tries + 1
  BY <1>1 DEF Run
<1>3. PICK r \in Run :
        /\ r = AtStep(run[p], run[p].at, n, TRUE)
        /\ r.at = run[p].at /\ r.number = run[p].number /\ r.draft = run[p].draft
        /\ r.case = run[p].case /\ r.version = run[p].version
  <2>1. run[p].at \in RunSteps
    BY <1>1 DEF Run
  <2> QED BY <1>1, <2>1, MovedRun
<1>4. /\ run' = [run EXCEPT ![p] = r] /\ UNCHANGED <<issue, cache, runs, server>>
  <2>1. r = [run[p] EXCEPT !.tries = n, !.waiting = TRUE]
    BY <1>1, <1>3 DEF Run, AtStep
  <2>2. run' = [run EXCEPT ![p].tries = n, ![p].waiting = TRUE]
    BY <1>2 DEF Send
  <2>3. run' = [run EXCEPT ![p] = [run[p] EXCEPT !.tries = n, !.waiting = TRUE]]
    BY <2>2 DEF FilingInv, FilingTypeOK
  <2> QED BY <2>1, <2>3 DEF Send
<1>5. PICK new : new = [from |-> p, number |-> run[p].number, at |-> run[p].at,
                        token |-> run[p].token, key |-> KeyOf(run[p]),
                        version |-> run[p].version, case |-> run[p].case, draft |-> run[p].draft]
  OBVIOUS
<1>6. KeyOf(run[p]) \in Writes \X Count
  BY <1>1 DEF KeyOf, Run, Count
<1>7. /\ new \in Request /\ new.from = p /\ new.number = run[p].number /\ new.at = run[p].at
      /\ new.key = KeyOf(run[p]) /\ new.version = run[p].version /\ new.case = run[p].case
      /\ new.draft = run[p].draft
  BY <1>1, <1>5, <1>6 DEF Request, Run
<1>8. wire' = wire \cup {new}
  BY <1>5 DEF Send
<1>9. FilingTypeOK'
  BY <1>3, <1>4, <1>7, <1>8 DEF FilingInv, FilingTypeOK, server
<1>10. /\ run'[p] = r /\ \A q \in Processes \ {p} : run'[q] = run[q]
       /\ \A m \in wire : m.from \in Processes
  BY <1>4 DEF FilingInv, FilingTypeOK, Request
<1>11. RunsOK'
  <2>1. RunOK(r)'
    BY <1>1, <1>3, <1>4 DEF RunOK, OfVersion, server
  <2>2. ASSUME NEW q \in Processes \ {p}, run[q] # None
        PROVE  RunOK(run[q])'
    BY <1>4, <1>10, <2>2 DEF FilingInv, RunsOK, RunOK, OfVersion, server
  <2> QED BY <1>10, <2>1, <2>2 DEF RunsOK, RunOK, OfVersion
<1>12. WireOK'
  <2>1. ASSUME NEW m \in wire
        PROVE  RequestOK(m)' /\ (run'[m.from] # None => SentOf(m, run'[m.from]))
    <3>1. RequestOK(m) /\ (run[m.from] # None => SentOf(m, run[m.from]))
      BY DEF FilingInv, WireOK
    <3>2. RequestOK(m)'
      BY <1>4, <3>1 DEF RequestOK, OfVersion, server
    <3>3. run'[m.from] # None => SentOf(m, run'[m.from])
      BY <1>1, <1>3, <1>10, <3>1 DEF SentOf
    <3> QED BY <3>2, <3>3
  <2>2. RequestOK(new)'
    <3>1. new.key = <<new.at, IF new.at = "confirm" THEN new.number ELSE new.version>>
      BY <1>7 DEF KeyOf
    <3> QED BY <1>1, <1>4, <1>7, <3>1 DEF RequestOK, RunOK, OfVersion, server, Writes, FilingSteps
  <2>3. SentOf(new, r)
    BY <1>1, <1>3, <1>7 DEF SentOf, Writes
  <2> QED BY <1>7, <1>8, <1>10, <2>1, <2>2, <2>3 DEF WireOK, RequestOK, OfVersion
<1>13. LedgerOK' /\ DraftsOK' /\ CasesDiffer' /\ DraftsDiffer'
  BY <1>4 DEF FilingInv, LedgerOK, EntryOK, DraftsOK, DraftOK, OfVersion, CasesDiffer, DraftsDiffer, server
<1> QED BY <1>9, <1>11, <1>12, <1>13 DEF FilingInv

-----------------------------------------------------------------------------
(* Filings: what the server does *)

CasesGrow == \A c, v : OfVersion(c, v) => OfVersion(c, v)'

\* What the invariant says of a request.
LEMMA RequestTyped ==
  ASSUME FilingInv, NEW m \in wire
  PROVE  /\ m \in Request /\ RequestOK(m) /\ m.key[1] = m.at
         /\ m.at # "confirm" => m.key = <<m.at, m.version>> /\ m.key[2] = m.version
BY DEF FilingInv, FilingTypeOK, WireOK, RequestOK

\* A case is opened only for a version without one, and then has one.
LEMMA FiledCases ==
  ASSUME FilingInv, NEW m \in wire, cases' = Filed(m)
  PROVE  /\ cases' \in Seq(Count) /\ CasesGrow /\ CasesDiffer'
         /\ m.at = "signal" => \E c : OfVersion(c, m.version)'
<1>1. cases \in Seq(Count) /\ m.version \in Count /\ CasesDiffer
  BY RequestTyped DEF FilingInv, FilingTypeOK, Request
<1>2. CASE cases' = cases
  <2>1. m.at = "signal" => CaseOf(m.version) # {}
    <3>1. m.at = "signal" /\ CaseOf(m.version) = {} => cases' = Append(cases, m.version)
      BY DEF Filed
    <3>2. cases # Append(cases, m.version)
      BY <1>1
    <3> QED BY <1>2, <3>1, <3>2
  <2> QED BY <1>1, <1>2, <2>1 DEF CasesGrow, OfVersion, CasesDiffer, CaseOf
<1>3. CASE cases' # cases
  <2>1. cases' = Append(cases, m.version) /\ \A c \in DOMAIN cases : cases[c] # m.version
    BY <1>3 DEF Filed, CaseOf
  <2>2. /\ cases' \in Seq(Count)
        /\ DOMAIN cases' = DOMAIN cases \cup {Len(cases) + 1} /\ Len(cases) + 1 \notin DOMAIN cases
        /\ cases'[Len(cases) + 1] = m.version
        /\ \A c \in DOMAIN cases : cases'[c] = cases[c]
    BY <1>1, <2>1, Appended
  <2>3. CasesGrow /\ \E c : OfVersion(c, m.version)'
    BY <2>2 DEF CasesGrow, OfVersion
  <2>4. CasesDiffer'
    BY <1>1, <2>1, <2>2 DEF CasesDiffer
  <2> QED BY <2>2, <2>3, <2>4
<1> QED BY <1>2, <1>3

\* Cases are never taken back, so what a key was used for still has its case.
LEMMA EntryStays ==
  ASSUME CasesGrow, NEW e, EntryOK(e)
  PROVE  EntryOK(e)'
<1>1. \A c, v : OfVersion(c, v) => OfVersion(c, v)'
  BY DEF CasesGrow
<1>2. e.key[1] = "signal" => /\ e.body = <<e.key[2], None, None>>
                             /\ \E c : OfVersion(c, e.key[2])'
  BY <1>1 DEF EntryOK
<1>3. e.key[1] \in {"bind", "propose"} =>
        \E c : OfVersion(c, e.key[2])' /\ e.body = <<e.key[2], c, None>>
  BY <1>1 DEF EntryOK
<1> QED BY <1>2, <1>3 DEF EntryOK

\* A new entry says what follows from its key.
LEMMA WrittenLedger ==
  ASSUME FilingInv, NEW m \in wire, WriteRows(m)
  PROVE  ledger' \subseteq Entry /\ LedgerOK'
<1> DEFINE new == [key |-> m.key, body |-> Body(m)]
<1>1. /\ m \in Request /\ RequestOK(m) /\ m.key[1] = m.at
      /\ m.at # "confirm" => m.key[2] = m.version
  BY RequestTyped
<1>2. CasesGrow /\ (m.at = "signal" => \E c : OfVersion(c, m.version)')
  BY FiledCases DEF WriteRows
<1>3. new \in Entry
  BY <1>1 DEF Request, Entry, Body
<1>4. EntryOK(new)'
  <2>1. CASE m.at = "signal"
    <3>1. new.body = <<m.version, None, None>>
      BY <1>1, <2>1 DEF RequestOK, Body
    <3>2. \E c : OfVersion(c, m.version)'
      BY <1>2, <2>1
    <3>3. new.key[1] = "signal" /\ new.key[2] = m.version
      BY <1>1, <2>1
    <3> QED BY <3>1, <3>2, <3>3 DEF EntryOK
  <2>2. CASE m.at \in {"bind", "propose"}
    <3>1. new.body = <<m.version, m.case, None>> /\ OfVersion(m.case, m.version)'
      BY <1>1, <1>2, <2>2 DEF RequestOK, Body, CasesGrow
    <3>2. new.key[1] # "signal" /\ new.key[2] = m.version
      BY <1>1, <2>2
    <3> QED BY <3>1, <3>2 DEF EntryOK
  <2>3. CASE m.at = "confirm"
    BY <1>1, <2>3 DEF EntryOK
  <2> QED BY <1>1, <2>1, <2>2, <2>3 DEF Request, Writes
<1>5. ledger' = ledger \cup {new}
  BY DEF WriteRows
<1>6. \A e \in ledger : e \in Entry /\ EntryOK(e)'
  BY <1>2, EntryStays DEF FilingInv, FilingTypeOK, LedgerOK
<1> HIDE DEF new
<1> QED BY <1>3, <1>4, <1>5, <1>6 DEF LedgerOK

\* A draft goes on being of a case whose proposal has used its key.
LEMMA DraftStays ==
  ASSUME FilingInv, CasesGrow, ledger \subseteq ledger', NEW d \in DOMAIN drafts, drafts'[d] = drafts[d]
  PROVE  DraftOK(d)'
<1>1. PICK c, v : c = drafts[d].case /\ v = cases[c] /\ OfVersion(c, v)
                  /\ \E e \in ledger : e.key = <<"propose", v>>
  BY DEF FilingInv, DraftsOK, DraftOK, OfVersion
<1>2. OfVersion(c, v)'
  BY <1>1 DEF CasesGrow
<1>3. c \in DOMAIN cases' /\ cases'[c] = v
  BY <1>2 DEF OfVersion
<1> QED BY <1>1, <1>3 DEF DraftOK

\* A case gets its draft with the first use of its key, so no second one.
LEMMA WrittenDrafts ==
  ASSUME IdentityTypeOK, FilingInv, NEW m \in wire, WriteRows(m), Used(m) = {}
  PROVE  drafts' \in Seq([case : Count, at : Nat]) /\ DraftsOK' /\ DraftsDiffer'
<1>1. /\ m \in Request /\ RequestOK(m)
      /\ m.at # "confirm" => m.key = <<m.at, m.version>>
  BY RequestTyped
<1>2. CasesGrow
  BY FiledCases DEF WriteRows
<1>3. ledger \subseteq ledger'
  BY DEF WriteRows
<1>4. drafts \in Seq([case : Count, at : Nat]) /\ DraftsOK /\ DraftsDiffer
  BY DEF FilingInv, FilingTypeOK
<1>5. CASE drafts' = drafts
  <2>1. \A d \in DOMAIN drafts : DraftOK(d)'
    BY <1>2, <1>3, <1>5, DraftStays
  <2> QED BY <1>4, <1>5, <2>1 DEF DraftsOK, DraftsDiffer
<1>6. CASE drafts' # drafts
  <2>1. PICK new \in [case : Count, at : Nat] :
          new.case = m.case /\ drafts' = Append(drafts, new)
    <3>1. [case |-> m.case, at |-> clock] \in [case : Count, at : Nat]
      BY <1>1 DEF Request, IdentityTypeOK
    <3> QED BY <1>6, <3>1 DEF WriteRows
  <2>2. m.at = "propose"
    BY <1>6 DEF WriteRows
  <2>3. OfVersion(m.case, m.version) /\ m.key = <<"propose", m.version>>
    BY <1>1, <2>2 DEF RequestOK
  <2>4. PICK last : last = Len(drafts) + 1
    OBVIOUS
  <2>5. /\ drafts' \in Seq([case : Count, at : Nat])
        /\ DOMAIN drafts' = DOMAIN drafts \cup {last} /\ last \notin DOMAIN drafts
        /\ drafts'[last] = new
        /\ \A d \in DOMAIN drafts : drafts'[d] = drafts[d]
    BY <1>4, <2>1, <2>4, Appended
  <2>6. \A d \in DOMAIN drafts : drafts[d].case # m.case
    <3>1. \A e \in ledger : e.key # <<"propose", m.version>>
      BY <2>3 DEF Used
    <3> QED BY <1>4, <2>3, <3>1 DEF DraftsOK, DraftOK, OfVersion
  <2>7. DraftsDiffer'
    BY <1>4, <2>1, <2>5, <2>6 DEF DraftsDiffer
  <2>8. DraftOK(last)'
    <3>1. m.case \in DOMAIN cases' /\ cases'[m.case] = m.version
      BY <1>2, <2>3 DEF CasesGrow, OfVersion
    <3>2. PICK e : e = [key |-> m.key, body |-> Body(m)]
      OBVIOUS
    <3>3. e \in ledger' /\ e.key = <<"propose", m.version>>
      BY <2>3, <3>2 DEF WriteRows
    <3>4. drafts'[last].case = m.case
      BY <2>1, <2>5
    <3> QED BY <3>1, <3>3, <3>4 DEF DraftOK
  <2>9. \A d \in DOMAIN drafts : DraftOK(d)'
    BY <1>2, <1>3, <2>5, DraftStays
  <2> QED BY <2>5, <2>7, <2>8, <2>9 DEF DraftsOK
<1> QED BY <1>5, <1>6

\* What the server wrote, or had written when the key was used before.
LEMMA ServerKeeps ==
  ASSUME IdentityTypeOK, FilingInv, NEW m \in wire,
         IF Used(m) = {} THEN WriteRows(m) ELSE UNCHANGED server
  PROVE  /\ ledger' \subseteq Entry /\ LedgerOK'
         /\ cases' \in Seq(Count) /\ CasesGrow /\ CasesDiffer'
         /\ drafts' \in Seq([case : Count, at : Nat]) /\ DraftsOK' /\ DraftsDiffer'
         /\ bindings' \subseteq Count /\ confirmed' \subseteq Count
         /\ m.at = "signal" => \E c : OfVersion(c, m.version)'
<1>1. CASE Used(m) = {}
  <2>1. WriteRows(m) /\ cases' = Filed(m)
    BY <1>1 DEF WriteRows
  <2>2. bindings' \subseteq Count /\ confirmed' \subseteq Count
    BY <2>1, RequestTyped DEF WriteRows, FilingInv, FilingTypeOK, Request
  <2> QED BY <1>1, <2>1, <2>2, WrittenLedger, WrittenDrafts, FiledCases
<1>2. CASE Used(m) # {}
  <2>1. UNCHANGED <<ledger, cases, bindings, drafts, confirmed>>
    BY <1>2 DEF server
  <2>2. m.at = "signal" => \E c : OfVersion(c, m.version)'
    <3>1. m.at = "signal" => \E c : OfVersion(c, m.version)
      BY <1>2, RequestTyped DEF Used, FilingInv, LedgerOK, EntryOK
    <3> QED BY <2>1, <3>1 DEF OfVersion
  <2> QED BY <2>1, <2>2 DEF FilingInv, FilingTypeOK, LedgerOK, EntryOK, CasesGrow, OfVersion,
           CasesDiffer, DraftsOK, DraftOK, DraftsDiffer
<1> QED BY <1>1, <1>2

\* What is known of a request or a command stays true while cases only grow.
LEMMA RequestStays ==
  ASSUME CasesGrow, runs' = runs, NEW m, RequestOK(m)
  PROVE  RequestOK(m)'
BY DEF RequestOK, CasesGrow

LEMMA RunStays ==
  ASSUME CasesGrow, runs' = runs, NEW r, RunOK(r)
  PROVE  RunOK(r)'
BY DEF RunOK, CasesGrow

\* A command whose request was answered, and that has the case by then.
LEMMA AnsweredIsOK ==
  ASSUME NEW r \in Run, r.at \in Writes, r.number <= runs', r.at \in FilingSteps => r.draft = None,
         r.at \in FilingSteps => OfVersion(r.case, r.version)'
  PROVE  /\ Advance(r) \in Run \cup {None}
         /\ Advance(r) # None => /\ RunOK(Advance(r))' /\ Advance(r).at # "fetch"
                                 /\ Advance(r).number = r.number
                                 /\ Advance(r).version = r.version
<1>1. CASE Advance(r) = None
  BY <1>1
<1>2. CASE Advance(r) # None
  <2>1. PICK s \in Run : /\ s = Advance(r) /\ <<r.at, s.at>> \in AfterStep
                         /\ s.number = r.number /\ s.version = r.version
                         /\ s.case = r.case /\ s.draft = r.draft
    BY <1>2, Advances DEF Writes
  <2>2. <<r.at, s.at>> \in {<<"signal", "criteria">>, <<"bind", "propose">>}
    BY <2>1, r.at \in Writes DEF AfterStep, Writes
  <2>3. RunOK(s)' /\ s.at # "fetch"
    BY <2>1, <2>2 DEF RunOK, FilingSteps
  <2> QED BY <2>1, <2>3 DEF RunOK, OfVersion
<1> QED BY <1>1, <1>2

\* A shell that waits hears of its own request, and is told the case of its
\* version.
LEMMA HeardMoves ==
  ASSUME FilingInv, NEW m \in wire, WaitsFor(m), Heard(m), CasesGrow, runs' = runs,
         cases' \in Seq(Count), m.at = "signal" => \E c : OfVersion(c, m.version)'
  PROVE  \E r \in Run \cup {None} :
           /\ run' = [run EXCEPT ![m.from] = r]
           /\ r # None => /\ RunOK(r)' /\ r.at # "fetch"
                          /\ r.number = run[m.from].number /\ r.version = run[m.from].version
<1>1. m \in Request /\ RequestOK(m) /\ m.from \in Processes
  BY RequestTyped DEF Request
<1>2. PICK old \in Run : /\ old = run[m.from] /\ RunOK(old)
                         /\ old.number = m.number /\ old.at = m.at /\ old.version = m.version
  <2>1. run[m.from] # None /\ run[m.from].number = m.number /\ run[m.from].at = m.at
    BY DEF WaitsFor
  <2>2. SentOf(m, run[m.from])
    BY <2>1 DEF FilingInv, WireOK
  <2> QED BY <1>1, <2>1, <2>2, RunIsTyped DEF SentOf
<1>3. PICK c : c = IF m.at = "signal" THEN CHOOSE d \in DOMAIN cases' : cases'[d] = m.version
                                      ELSE old.case
  OBVIOUS
<1>4. m.at = "signal" => OfVersion(c, m.version)'
  BY <1>3 DEF OfVersion
<1>5. m.at \in FilingSteps => OfVersion(c, m.version)'
  BY <1>1, <1>2, <1>3, <1>4 DEF Request, Writes, FilingSteps, RunOK, CasesGrow
<1>6. c \in Count
  BY <1>2, <1>3, <1>4 DEF Count, Run, OfVersion
<1>7. PICK r \in Run : /\ r = [old EXCEPT !.case = c] /\ r.at = m.at /\ r.number = old.number
                       /\ r.version = m.version /\ r.case = c /\ r.draft = old.draft
  <2> DEFINE r == [old EXCEPT !.case = c]
  <2>1. r \in Run
    BY <1>2, <1>6 DEF Run
  <2>2. r.at = old.at /\ r.number = old.number /\ r.version = old.version
    BY <1>2 DEF Run
  <2>3. r.case = c /\ r.draft = old.draft
    BY <1>2 DEF Run
  <2> HIDE DEF r
  <2>4. r = [old EXCEPT !.case = c]
    BY DEF r
  <2> QED BY <1>2, <2>1, <2>2, <2>3, <2>4
<1>8. run' = [run EXCEPT ![m.from] = Advance(r)]
  BY <1>2, <1>3, <1>7 DEF Heard
<1>9. r.number <= runs' /\ (r.at \in FilingSteps => r.draft = None) /\ r.at \in Writes
  BY <1>1, <1>2, <1>7 DEF RunOK, Request
<1>10. r.at \in FilingSteps => OfVersion(r.case, r.version)'
  BY <1>5, <1>7
<1>11. /\ Advance(r) \in Run \cup {None}
       /\ Advance(r) # None => /\ RunOK(Advance(r))' /\ Advance(r).at # "fetch"
                               /\ Advance(r).number = r.number /\ Advance(r).version = r.version
  BY <1>9, <1>10, AnsweredIsOK
<1> QED BY <1>2, <1>7, <1>8, <1>11

\* A request has left the wire, and its shell has heard of it or not.
LEMMA AnswerKeeps ==
  ASSUME FilingInv, NEW m \in wire, wire' = wire \ {m}, CasesGrow, UNCHANGED <<issue, cache, runs>>,
         \/ run' = run
         \/ /\ run[m.from] # None
            /\ \E r \in Run \cup {None} :
                 /\ run' = [run EXCEPT ![m.from] = r]
                 /\ r # None => /\ RunOK(r)' /\ r.at # "fetch"
                                /\ r.number = run[m.from].number /\ r.version = run[m.from].version,
         ledger' \subseteq Entry /\ LedgerOK', cases' \in Seq(Count) /\ CasesDiffer',
         drafts' \in Seq([case : Count, at : Nat]) /\ DraftsOK' /\ DraftsDiffer',
         bindings' \subseteq Count /\ confirmed' \subseteq Count
  PROVE  FilingInv'
<1>1. m.from \in Processes /\ \A n \in wire : n.from \in Processes
  BY RequestTyped DEF Request
<1>2. PICK r \in Run \cup {None} :
        \/ run' = run
        \/ /\ run' = [run EXCEPT ![m.from] = r] /\ run[m.from] # None
           /\ r # None => /\ RunOK(r)' /\ r.at # "fetch"
                          /\ r.number = run[m.from].number /\ r.version = run[m.from].version
  OBVIOUS
<1>3. FilingTypeOK'
  BY <1>2 DEF FilingInv, FilingTypeOK
<1>4. \A p \in Processes :
        \/ run'[p] = run[p]
        \/ /\ run'[p] = r /\ run[p] # None
           /\ r # None => /\ RunOK(r)' /\ r.at # "fetch"
                          /\ r.number = run[p].number /\ r.version = run[p].version
  BY <1>1, <1>2 DEF FilingInv, FilingTypeOK
<1>5. RunsOK'
  <2> SUFFICES ASSUME NEW p \in Processes, run'[p] # None
               PROVE  RunOK(run[p])'
    BY DEF RunsOK
  <2>1. CASE run'[p] = run[p]
    <3>1. RunOK(run[p])
      BY <2>1 DEF FilingInv, RunsOK
    <3>2. PICK s : s = run[p] /\ RunOK(s)
      BY <3>1
    <3>3. RunOK(s)'
      BY <3>2, RunStays
    <3> QED BY <2>1, <3>2, <3>3 DEF RunOK, OfVersion
  <2>2. CASE run'[p] # run[p]
    BY <1>4, <2>2 DEF RunOK, OfVersion
  <2> QED BY <2>1, <2>2
<1>6. WireOK'
  <2> SUFFICES ASSUME NEW n \in wire
               PROVE  RequestOK(n)' /\ (run'[n.from] # None => SentOf(n, run'[n.from]))
    BY DEF WireOK
  <2>1. RequestOK(n) /\ (run[n.from] # None => SentOf(n, run[n.from]))
    BY DEF FilingInv, WireOK
  <2>2. RequestOK(n)'
    BY <2>1, RequestStays
  <2>3. run'[n.from] # None => SentOf(n, run'[n.from])
    BY <1>1, <1>4, <2>1 DEF SentOf
  <2> QED BY <2>2, <2>3
<1> QED BY <1>3, <1>5, <1>6 DEF FilingInv

\* The two answers of the server.
LEMMA ServeKeeps ==
  ASSUME IdentityTypeOK, FilingInv, NEW m \in wire, Serve(m)
  PROVE  FilingInv'
<1>1. /\ IF Used(m) = {} THEN WriteRows(m) ELSE UNCHANGED server
      /\ wire' = wire \ {m} /\ UNCHANGED <<issue, cache, runs>>
      /\ run' = run \/ (WaitsFor(m) /\ Heard(m))
  BY DEF Serve
<1>2. /\ ledger' \subseteq Entry /\ LedgerOK'
      /\ cases' \in Seq(Count) /\ CasesGrow /\ CasesDiffer'
      /\ drafts' \in Seq([case : Count, at : Nat]) /\ DraftsOK' /\ DraftsDiffer'
      /\ bindings' \subseteq Count /\ confirmed' \subseteq Count
      /\ m.at = "signal" => \E c : OfVersion(c, m.version)'
  BY <1>1, ServerKeeps
<1>3. CASE run' = run
  BY <1>1, <1>2, <1>3, AnswerKeeps
<1>4. CASE WaitsFor(m) /\ Heard(m)
  <2>1. \E r \in Run \cup {None} :
          /\ run' = [run EXCEPT ![m.from] = r]
          /\ r # None => /\ RunOK(r)' /\ r.at # "fetch"
                         /\ r.number = run[m.from].number /\ r.version = run[m.from].version
    BY <1>1, <1>2, <1>4, HeardMoves
  <2>2. run[m.from] # None
    BY <1>4 DEF WaitsFor
  <2> QED BY <1>1, <1>2, <2>1, <2>2, AnswerKeeps
<1> QED BY <1>1, <1>3, <1>4

LEMMA RejectKeeps ==
  ASSUME FilingInv, NEW m \in wire, Reject(m)
  PROVE  FilingInv'
<1>1. wire' = wire \ {m} /\ UNCHANGED <<issue, cache, runs, server>>
  BY DEF Reject
<1>2. /\ ledger' \subseteq Entry /\ LedgerOK'
      /\ cases' \in Seq(Count) /\ CasesGrow /\ CasesDiffer'
      /\ drafts' \in Seq([case : Count, at : Nat]) /\ DraftsOK' /\ DraftsDiffer'
      /\ bindings' \subseteq Count /\ confirmed' \subseteq Count
  BY <1>1 DEF server, FilingInv, FilingTypeOK, LedgerOK, EntryOK, CasesGrow, OfVersion, CasesDiffer,
              DraftsOK, DraftOK, DraftsDiffer
<1>3. \/ run' = run
      \/ run[m.from] # None /\ run' = [run EXCEPT ![m.from] = None]
  BY DEF Reject, WaitsFor
<1> QED BY <1>1, <1>2, <1>3, AnswerKeeps

\* Every step of people, shells, GitHub and server keeps the invariant.
LEMMA FilingStep ==
  ASSUME IdentityInv, FilingInv, [FilingNext]_filingVars
  PROVE  FilingInv'
<1>1. CASE UNCHANGED filing
  BY <1>1 DEF filing, server, FilingInv, FilingTypeOK, RunsOK, RunOK, WireOK, RequestOK, SentOf, LedgerOK,
              EntryOK, OfVersion, DraftsOK, DraftOK, CasesDiffer, DraftsDiffer
<1>2. CASE EditIssue
  <2>1. issue' = issue + 1 /\ UNCHANGED <<cache, run, runs, wire, server>>
    BY <1>2 DEF EditIssue
  <2>2. FilingTypeOK'
    BY <2>1 DEF server, FilingInv, FilingTypeOK
  <2>3. RunsOK' /\ WireOK'
    BY <2>1 DEF server, FilingInv, RunsOK, RunOK, WireOK, RequestOK, SentOf, OfVersion
  <2>4. LedgerOK' /\ DraftsOK' /\ CasesDiffer' /\ DraftsDiffer'
    BY <2>1 DEF server, FilingInv, LedgerOK, EntryOK, OfVersion, DraftsOK, DraftOK, CasesDiffer,
                DraftsDiffer
  <2> QED BY <2>2, <2>3, <2>4 DEF FilingInv
<1>3. ASSUME NEW p \in Processes, Shell(p)
      PROVE  FilingInv'
  <2>1. DOMAIN credentials \subseteq Nat /\ DOMAIN drafts \subseteq Nat
    BY DEF IdentityInv, IdentityTypeOK, FilingInv, FilingTypeOK
  <2>2. ASSUME NEW c \in DOMAIN credentials, FromIssue(p, c)
        PROVE  FilingInv'
    BY <2>1, <2>2, StartKeeps DEF FromIssue, Count
  <2>3. ASSUME NEW c \in DOMAIN credentials, NEW d \in DOMAIN drafts, ConfirmCriteria(p, c, d)
        PROVE  FilingInv'
    BY <2>1, <2>3, StartKeeps DEF ConfirmCriteria, Count
  <2> QED BY <1>3, <2>2, <2>3, ShellStep, SendKeeps DEF Shell
<1>4. ASSUME NEW m \in wire, Serve(m) \/ Reject(m)
      PROVE  FilingInv'
  BY <1>4, ServeKeeps, RejectKeeps DEF IdentityInv
<1> QED BY <1>1, <1>2, <1>3, <1>4 DEF FilingNext, People, filingVars

\* Nobody has filed anything yet.
LEMMA FilingStarts ==
  ASSUME FilingInit
  PROVE  IdentityInv /\ FilingInv
<1>1. IdentityInv
  BY IdentityStarts DEF FilingInit
<1>2. FilingTypeOK
  BY DEF FilingInit, FilingTypeOK, Count
<1> QED BY <1>1, <1>2 DEF FilingInit, FilingInv, RunsOK, WireOK, LedgerOK, DraftsOK, CasesDiffer, DraftsDiffer

\* The invariants of the people and of the filings hold together.
LEMMA FilingInvariant ==
  FilingSpec => [](IdentityInv /\ FilingInv)
<1>1. FilingInit => IdentityInv /\ FilingInv
  BY FilingStarts
<1>2. IdentityInv /\ FilingInv /\ [FilingNext]_filingVars => (IdentityInv /\ FilingInv)'
  BY IdentityStep, FilingStep
<1> QED BY <1>1, <1>2, PTL DEF FilingSpec

(* Times, people, credentials, commands, requests, entries, cases and drafts  *)
(* stay well typed.                                                           *)
THEOREM FilingTypeCorrect ==
  FilingSpec => [](IdentityTypeOK /\ FilingTypeOK)
<1>1. IdentityInv /\ FilingInv => IdentityTypeOK /\ FilingTypeOK
  BY DEF IdentityInv, FilingInv
<1> QED BY <1>1, FilingInvariant, PTL

(* Nobody ever has two active credentials, whatever bootstraps, rotations and *)
(* logins meet: v5_catalog_local and stage1a_local.                           *)
THEOREM OneCredentialEach ==
  FilingSpec => []OneLiveCredential
<1>1. IdentityInv => OneLiveCredential
  BY DEF IdentityInv
<1> QED BY <1>1, FilingInvariant, PTL

\* What a key was used for is what a request with the key says.
LEMMA NoConflict ==
  ASSUME FilingInv, NEW m \in wire, m.at # "confirm"
  PROVE  ~Conflicts(m)
<1>1. /\ m \in Request /\ RequestOK(m) /\ m.key = <<m.at, m.version>>
  BY RequestTyped
<1>2. ASSUME NEW e \in ledger, e.key = m.key
      PROVE  e.body = Body(m)
  <2>1. EntryOK(e) /\ e.key[1] = m.at /\ e.key[2] = m.version
    BY <1>1, <1>2 DEF FilingInv, LedgerOK
  <2>2. CASE m.at = "signal"
    BY <1>1, <2>1, <2>2 DEF EntryOK, RequestOK, Body
  <2>3. CASE m.at \in {"bind", "propose"}
    <3>1. PICK c : OfVersion(c, m.version) /\ e.body = <<m.version, c, None>>
      BY <2>1, <2>3 DEF EntryOK
    <3>2. c = m.case
      BY <1>1, <2>3, <3>1 DEF RequestOK, OfVersion, FilingInv, CasesDiffer
    <3> QED BY <1>1, <3>1, <3>2 DEF RequestOK, Body
  <2> QED BY <1>1, <2>2, <2>3 DEF Request, Writes
<1> QED BY <1>2 DEF Conflicts, Used

(* However often a version of the issue is filed, killed, answered late or    *)
(* filed from several shells, it gets one case and one draft, and no request  *)
(* is refused because of an earlier one: `case from-issue', its keys, and     *)
(* what the server does with a key.                                           *)
THEOREM FilingsAreRepeatable ==
  FilingSpec => []FilingIsRepeatable
<1>1. FilingInv => FilingIsRepeatable
  BY NoConflict DEF FilingInv, CasesDiffer, DraftsDiffer, FilingIsRepeatable
<1> QED BY <1>1, FilingInvariant, PTL
=============================================================================
