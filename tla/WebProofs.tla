----------------------------- MODULE WebProofs ------------------------------
(***************************************************************************)
(* Proofs about the parts of Web, for any keys, signed events, requests,   *)
(* tabs, invoices and limits.                                              *)
(***************************************************************************)
EXTENDS Web, SplitProofs, FiniteSetTheorems, TLAPS

-----------------------------------------------------------------------------
(* One part at a time                                                      *)

(* A step of the composition is a step of each part or leaves it alone.    *)
LEMMA PartSteps ==
  ASSUME [Next]_vars
  PROVE  /\ [Api!Next]_apiVars
         /\ [MemberPage!Next]_memberVars
         /\ [OperatorPage!Next]_opVars
         /\ [Split!Next]_splitVars
         /\ [Give!Next]_giveVars
  BY DEF Next, vars, ApiStep, MemberStep, OperatorStep, SplitStep, GiveStep

-----------------------------------------------------------------------------
(* The den API                                                             *)

(* A request under way was signed lately: time waits for its end.          *)
SignedLately(r) ==
  /\ r.kind = "create" => Api!Fresh(r.body.at)
  /\ r.kind = "join" => Api!Fresh(r.event.at)

(* No registration is from further ahead than the window, and who is       *)
(* routed or has mined is a member.                                        *)
ApiInv ==
  /\ Api!TypeOK
  /\ \A r \in requests : SignedLately(r)
  /\ \A k \in Keys : newest[k] <= now + Freshness
  /\ Api!RollbackIsShort
  /\ \A k \in routed \cup mined : member[k] # {}

LEMMA ApiStart == Api!Init => ApiInv
BY ApiAssumption DEF Api!Init, ApiInv, Api!TypeOK, Api!AtMostOne, Api!RollbackIsShort, Api!Times

AnyRequest == Api!Creates \cup Api!Deletes \cup Api!Joins \cup Api!Prefs \cup Api!Routes

(* A request that goes on is one still, and was signed when it was.        *)
LEMMA GoesOn ==
  ASSUME ApiInv, NEW r \in requests, NEW s,
         \/ r.kind = "create" /\ s \in {"insert", "update", "auto"}
         \/ r.kind \in {"delete", "join", "prefs"} /\ s = "write"
         \/ r.kind \in {"prefs", "route"} /\ s = "member",
         Api!GoOn(r, s)
  PROVE  requests' \subseteq AnyRequest /\ \A q \in requests' : SignedLately(q)
<1>1. requests \subseteq AnyRequest /\ r \in AnyRequest
  BY DEF ApiInv, Api!TypeOK, AnyRequest
<1> DEFINE q == [r EXCEPT !.step = s]
<1>2. q \in AnyRequest
  BY <1>1 DEF AnyRequest, Api!Creates, Api!Deletes, Api!Joins, Api!Prefs, Api!Routes
<1>3. SignedLately(q)
  BY <1>1 DEF AnyRequest, Api!Creates, Api!Deletes, Api!Joins, Api!Prefs, Api!Routes,
              SignedLately, ApiInv
<1> QED BY <1>1, <1>2, <1>3 DEF Api!GoOn, ApiInv

(* A request that ends leaves the others.                                  *)
LEMMA Ends ==
  ASSUME ApiInv, NEW r \in requests, Api!End(r)
  PROVE  requests' \subseteq AnyRequest /\ \A q \in requests' : SignedLately(q)
BY DEF ApiInv, Api!TypeOK, AnyRequest, Api!End

(* What a step that writes nothing has to keep.                            *)
LEMMA ApiAside ==
  ASSUME ApiInv, Api!Still,
         requests' \subseteq AnyRequest, \A q \in requests' : SignedLately(q)
  PROVE  ApiInv'
BY DEF ApiInv, Api!TypeOK, AnyRequest, Api!Still, Api!rows, Api!AtMostOne, Api!RollbackIsShort,
       SignedLately, Api!Fresh

LEMMA SendKeeps == ASSUME ApiInv, Api!Send PROVE ApiInv'
<1>1. ASSUME NEW body \in CreateEvents, Api!SendCreate(body) PROVE ApiInv'
  <2> DEFINE q == [kind |-> "create", body |-> body, step |-> "read"]
  <2>1. q \in AnyRequest /\ SignedLately(q)
    BY <1>1 DEF AnyRequest, Api!Creates, SignedLately, Api!SendCreate
  <2>2. requests' = requests \cup {q} /\ Api!Still
    BY <1>1 DEF Api!SendCreate, Api!Arrive, Api!Still
  <2> QED BY <2>1, <2>2, ApiAside DEF ApiInv, Api!TypeOK, AnyRequest
<1>2. ASSUME NEW k \in Keys, NEW t \in Api!Times, Api!SendDelete(k, t) PROVE ApiInv'
  <2> DEFINE q == [kind |-> "delete", key |-> k, step |-> "read"]
  <2>1. q \in AnyRequest /\ SignedLately(q)
    BY DEF AnyRequest, Api!Deletes, SignedLately
  <2>2. requests' = requests \cup {q} /\ Api!Still
    BY <1>2 DEF Api!SendDelete, Api!Arrive, Api!Still
  <2> QED BY <2>1, <2>2, ApiAside DEF ApiInv, Api!TypeOK, AnyRequest
<1>3. ASSUME NEW event \in JoinEvents, Api!SendJoin(event) PROVE ApiInv'
  <2> DEFINE q == [kind |-> "join", event |-> event, step |-> "read"]
  <2>1. q \in AnyRequest /\ SignedLately(q)
    BY <1>3 DEF AnyRequest, Api!Joins, SignedLately, Api!SendJoin
  <2>2. requests' = requests \cup {q} /\ Api!Still
    BY <1>3 DEF Api!SendJoin, Api!Arrive, Api!Still
  <2> QED BY <2>1, <2>2, ApiAside DEF ApiInv, Api!TypeOK, AnyRequest
<1>4. ASSUME NEW k \in Miners, NEW t \in Api!Times, NEW w \in {"yes", "no"},
             Api!SendPrefs(k, t, w)
      PROVE  ApiInv'
  <2> DEFINE q == [kind |-> "prefs", key |-> k, wish |-> w, step |-> "read"]
  <2>1. q \in AnyRequest /\ SignedLately(q)
    BY DEF AnyRequest, Api!Prefs, SignedLately
  <2>2. requests' = requests \cup {q} /\ Api!Still
    BY <1>4 DEF Api!SendPrefs, Api!Arrive, Api!Still
  <2> QED BY <2>1, <2>2, ApiAside DEF ApiInv, Api!TypeOK, AnyRequest
<1>5. ASSUME NEW k \in Miners, Api!Authorize(k) PROVE ApiInv'
  <2> DEFINE q == [kind |-> "route", key |-> k, step |-> "read"]
  <2>1. q \in AnyRequest /\ SignedLately(q)
    BY DEF AnyRequest, Api!Routes, SignedLately
  <2>2. requests' = requests \cup {q} /\ Api!Still
    BY <1>5 DEF Api!Authorize, Api!Arrive, Api!Still
  <2> QED BY <2>1, <2>2, ApiAside DEF ApiInv, Api!TypeOK, AnyRequest
<1> QED BY <1>1, <1>2, <1>3, <1>4, <1>5 DEF Api!Send

(* The steps of handlers that only read.                                   *)
LEMMA ReadsKeep ==
  ASSUME ApiInv, NEW r \in requests,
         \/ Api!CreateRead(r) \/ Api!DeleteRead(r) \/ Api!DenRead(r)
         \/ Api!PrefsMember(r) \/ Api!Fail(r)
  PROVE  ApiInv'
<1>1. /\ Api!Still
      /\ \/ Api!End(r)
         \/ /\ r.kind = "create"
            /\ Api!GoOn(r, "insert") \/ Api!GoOn(r, "update")
         \/ r.kind \in {"delete", "join", "prefs"} /\ Api!GoOn(r, "write")
         \/ r.kind \in {"prefs", "route"} /\ Api!GoOn(r, "member")
  BY DEF Api!CreateRead, Api!DeleteRead, Api!DenRead, Api!PrefsMember, Api!Fail
<1>2. requests' \subseteq AnyRequest /\ \A q \in requests' : SignedLately(q)
  BY <1>1, GoesOn, Ends
<1> QED BY <1>1, <1>2, ApiAside

(* A member's row that is written now is of an event of now.               *)
LEMMA RegisterKeeps ==
  ASSUME ApiInv, NEW r \in requests, NEW k \in Keys, NEW t \in Api!Times, NEW s \in BOOLEAN,
         Api!Fresh(t), Api!Newer(k, t), Api!End(r),
         member' = [member EXCEPT ![k] = {[at |-> t, show |-> s]}],
         UNCHANGED <<now, den, routed, mined>>
  PROVE  ApiInv'
<1> USE DEF ApiInv, Api!TypeOK
<1>1. /\ now \in Nat /\ Freshness \in Nat /\ t \in Int
      /\ now - t <= Freshness /\ t - now <= Freshness
  BY ApiAssumption DEF Api!Fresh, Api!Times
<1>2. newest' = [newest EXCEPT ![k] = IF t > newest[k] THEN t ELSE newest[k]]
  BY DEF Api!Newer
<1>3. newest' \in [Keys -> Api!Times] /\ \A x \in Keys : newest'[x] <= now + Freshness
  BY <1>1, <1>2
<1>4. [at |-> t, show |-> s] \in Api!MemberRow(Api!Times)
  BY DEF Api!MemberRow
<1>5. member' \in [Keys -> SUBSET Api!MemberRow(Api!Times)] /\ \A x \in Keys : Api!AtMostOne(member'[x])
  BY <1>4 DEF Api!AtMostOne
<1>6. ASSUME NEW x \in Keys, NEW a \in member'[x]
      PROVE  a.at >= newest'[x] - 2 * Freshness
  <2>1. CASE x = k
    <3>1. a.at = t
      BY <1>6, <2>1
    <3>2. newest'[k] \in Int /\ newest'[k] <= now + Freshness
      <4>1. Api!Times \subseteq Int
        BY ApiAssumption DEF Api!Times
      <4> QED BY <1>3, <4>1
    <3> QED BY <1>1, <2>1, <3>1, <3>2
  <2>2. CASE x # k
    BY <1>2, <1>6, <2>2 DEF Api!RollbackIsShort
  <2> QED BY <2>1, <2>2
<1>7. \A x \in routed \cup mined : member'[x] # {}
  BY ApiAssumption
<1>8. requests' \subseteq AnyRequest /\ \A q \in requests' : SignedLately(q)
  BY Ends
<1>9. \A q \in requests' : SignedLately(q)'
  BY <1>8 DEF SignedLately, Api!Fresh
<1> QED BY <1>3, <1>5, <1>6, <1>7, <1>8, <1>9 DEF Api!RollbackIsShort, AnyRequest

(* A row that is written anew is typed, and the den's operator stays.      *)
LEMMA DenWritten ==
  ASSUME ApiInv, NEW r \in requests,
         Api!CreateInsert(r) \/ Api!CreateUpdate(r) \/ Api!DeleteWrite(r)
  PROVE  /\ den' \subseteq Api!DenRow(Keys) /\ Api!AtMostOne(den')
         /\ \A d \in den, e \in den' : d.op = e.op
<1> USE DEF ApiInv, Api!TypeOK, Api!AtMostOne, Api!DenRow, Api!Visibilities
<1>1. r.kind = "create" => r.body \in Api!Bodies(Keys, Api!Times)
  BY ApiAssumption DEF Api!Creates, Api!Deletes, Api!Joins, Api!Prefs, Api!Routes
<1>2. CASE Api!CreateInsert(r)
  <2>1. CASE UNCHANGED den
    BY <2>1
  <2>2. CASE den = {} /\ den' = {Api!CreatedRow(r.body)}
    <3>1. Api!CreatedRow(r.body) \in Api!DenRow(Keys)
      BY <1>1, <1>2 DEF Api!CreatedRow, Api!Bodies, Api!CreateInsert
    <3> QED BY <2>2, <3>1
  <2> QED BY <1>2, <2>1, <2>2 DEF Api!CreateInsert, Api!Insert
<1>3. CASE Api!CreateUpdate(r)
  <2>1. ASSUME NEW d \in den
        PROVE  /\ Api!UpdatedRow(d, r.body) \in Api!DenRow(Keys)
               /\ Api!UpdatedRow(d, r.body).op = d.op
    <3>1. r.body \in Api!Bodies(Keys, Api!Times) /\ d \in Api!DenRow(Keys)
      BY <1>1, <1>3 DEF Api!CreateUpdate
    <3>2. (d.rpc \/ r.body.auth) \in BOOLEAN
      OBVIOUS
    <3> QED BY <3>1, <3>2 DEF Api!UpdatedRow, Api!Bodies
  <2>2. den' = {Api!UpdatedRow(d, r.body) : d \in den}
    BY <1>3 DEF Api!CreateUpdate
  <2> QED BY <2>1, <2>2
<1>4. CASE Api!DeleteWrite(r)
  BY <1>4 DEF Api!DeleteWrite
<1> QED BY <1>2, <1>3, <1>4

LEMMA HandleKeeps == ASSUME ApiInv, NEW r \in requests, Api!Handle(r) PROVE ApiInv'
<1> USE DEF ApiInv, Api!TypeOK
<1>1. r \in AnyRequest /\ SignedLately(r)
  BY DEF AnyRequest
<1>2. CASE \/ Api!CreateRead(r) \/ Api!DeleteRead(r) \/ Api!DenRead(r)
           \/ Api!PrefsMember(r) \/ Api!Fail(r)
  BY <1>2, ReadsKeep
<1>3. CASE Api!CreateInsert(r) \/ Api!CreateUpdate(r) \/ Api!DeleteWrite(r)
  <2>1. UNCHANGED <<now, member, routed, mined, newest>>
    BY <1>3 DEF Api!CreateInsert, Api!CreateUpdate, Api!DeleteWrite
  <2>2. Api!End(r) \/ (r.kind = "create" /\ Api!GoOn(r, "auto"))
    BY <1>3 DEF Api!CreateInsert, Api!Insert, Api!CreateUpdate, Api!DeleteWrite
  <2>3. requests' \subseteq AnyRequest /\ \A q \in requests' : SignedLately(q)
    BY <2>2, GoesOn, Ends
  <2> QED BY <1>3, <2>1, <2>3, DenWritten
          DEF AnyRequest, SignedLately, Api!Fresh, Api!RollbackIsShort, Api!AtMostOne
<1>4. CASE Api!CreateAuto(r)
  <2>1. r.body.key \in Keys /\ r.body.at \in Api!Times /\ Api!Fresh(r.body.at)
    BY <1>1, <1>4, ApiAssumption
    DEF Api!CreateAuto, AnyRequest, Api!Creates, Api!Deletes, Api!Joins, Api!Prefs, Api!Routes,
        SignedLately, Api!Bodies
  <2>2. CASE member[r.body.key] # {}
    <3>1. Api!End(r) /\ Api!Still
      BY <1>4, <2>2 DEF Api!CreateAuto, Api!Still, Api!rows
    <3> QED BY <3>1, Ends, ApiAside
  <2>3. CASE member[r.body.key] = {}
    BY <1>4, <2>1, <2>3, RegisterKeeps DEF Api!CreateAuto
  <2> QED BY <2>2, <2>3
<1>5. CASE Api!Join(r)
  <2>1. r.event \in Api!Wanted /\ Api!Fresh(r.event.at)
    BY <1>1, <1>5, ApiAssumption
    DEF Api!Join, AnyRequest, Api!Creates, Api!Deletes, Api!Joins, Api!Prefs, Api!Routes, SignedLately
  <2> DEFINE k == r.event.key
             s == Api!JoinedRow(member[k], r.event.at, r.event.wish).show
  <2>2. k \in Keys /\ r.event.at \in Api!Times
    BY <2>1 DEF Api!Wanted
  <2>3. s \in BOOLEAN
    BY DEF Api!JoinedRow
  <2>4. member' = [member EXCEPT ![k] = {[at |-> r.event.at, show |-> s]}]
    BY <1>5, <2>2 DEF Api!Join, Api!JoinedRow
  <2> HIDE DEF s, k
  <2>5. Api!Newer(k, r.event.at) /\ Api!End(r) /\ UNCHANGED <<now, den, routed, mined>>
    BY <1>5 DEF Api!Join, k
  <2> QED BY <2>1, <2>2, <2>3, <2>4, <2>5, RegisterKeeps
<1>6. CASE Api!PrefsWrite(r)
  <2>1. r.key \in Keys /\ r.wish \in {"yes", "no"}
    BY <1>1, <1>6, ApiAssumption
    DEF Api!PrefsWrite, AnyRequest, Api!Creates, Api!Deletes, Api!Joins, Api!Prefs, Api!Routes
  <2> DEFINE k == r.key
             Shows(a) == [a EXCEPT !.show = r.wish = "yes"]
  <2>2. /\ member' = [member EXCEPT ![k] = {Shows(a) : a \in member[k]}]
        /\ UNCHANGED <<now, den, routed, mined, newest>> /\ Api!End(r)
    BY <1>6, <2>1 DEF Api!PrefsWrite
  <2>3. ASSUME NEW a \in member[k]
        PROVE  Shows(a) \in Api!MemberRow(Api!Times) /\ Shows(a).at = a.at
    <3>1. a \in Api!MemberRow(Api!Times) /\ (r.wish = "yes") \in BOOLEAN
      BY <2>1
    <3> QED BY <3>1 DEF Api!MemberRow
  <2> HIDE DEF Shows, k
  <2>4. \A x \in Keys : member'[x] = IF x = k THEN {Shows(a) : a \in member[k]} ELSE member[x]
    BY <2>2
  <2>5. member' \in [Keys -> SUBSET Api!MemberRow(Api!Times)] /\ \A x \in Keys : Api!AtMostOne(member'[x])
    <3>1. {Shows(a) : a \in member[k]} \subseteq Api!MemberRow(Api!Times)
      BY <2>3
    <3>2. member' \in [Keys -> SUBSET Api!MemberRow(Api!Times)]
      BY <2>2, <3>1
    <3>3. ASSUME NEW x \in Keys PROVE Api!AtMostOne(member'[x])
      <4>1. CASE x = k
        <5>1. \A a, b \in {Shows(c) : c \in member[k]} : a = b
          BY <3>3, <4>1 DEF Api!AtMostOne
        <5> QED BY <2>4, <4>1, <5>1 DEF Api!AtMostOne
      <4>2. CASE x # k
        BY <2>4, <4>2 DEF Api!AtMostOne
      <4> QED BY <4>1, <4>2
    <3> QED BY <3>2, <3>3
  <2>6. \A x \in Keys : \A a \in member'[x] : a.at >= newest'[x] - 2 * Freshness
    BY <2>2, <2>3, <2>4 DEF Api!RollbackIsShort
  <2>7. \A x \in routed \cup mined : member'[x] # {}
    <3>1. ASSUME NEW x \in Keys, member[x] # {} PROVE member'[x] # {}
      <4>1. PICK a \in member[x] : TRUE
        BY <3>1
      <4>2. x = k => Shows(a) \in member'[x]
        BY <2>4, <4>1
      <4> QED BY <2>4, <3>1, <4>2
    <3> QED BY <3>1, ApiAssumption
  <2>8. requests' \subseteq AnyRequest /\ \A q \in requests' : SignedLately(q)
    BY <2>2, Ends
  <2>9. \A q \in requests' : SignedLately(q)'
    BY <2>2, <2>8 DEF SignedLately, Api!Fresh
  <2> QED BY <2>2, <2>5, <2>6, <2>7, <2>8, <2>9 DEF Api!RollbackIsShort, AnyRequest
<1>7. CASE Api!RouteMember(r)
  <2>1. r.key \in Miners
    BY <1>1, <1>7
    DEF Api!RouteMember, AnyRequest, Api!Creates, Api!Deletes, Api!Joins, Api!Prefs, Api!Routes
  <2>2. /\ routed' \subseteq routed \cup {r.key} /\ (routed' # routed => member[r.key] # {})
        /\ UNCHANGED <<now, den, member, mined, newest>> /\ Api!End(r)
    BY <1>7 DEF Api!RouteMember, Api!IsMember, Api!rows
  <2>3. requests' \subseteq AnyRequest /\ \A q \in requests' : SignedLately(q)
    BY <2>2, Ends
  <2> QED BY <2>1, <2>2, <2>3 DEF SignedLately, Api!Fresh, Api!RollbackIsShort, Api!AtMostOne, AnyRequest
<1> QED BY <1>2, <1>3, <1>4, <1>5, <1>6, <1>7 DEF Api!Handle

LEMMA ApiStepInv == ASSUME ApiInv, [Api!Next]_apiVars PROVE ApiInv'
<1> USE DEF ApiInv, Api!TypeOK, Api!AtMostOne, Api!RollbackIsShort, SignedLately, Api!Fresh
<1>1. CASE Api!Tick
  BY <1>1, ApiAssumption DEF Api!Tick, Api!rows, Api!Times
<1>2. CASE Api!Send
  BY <1>2, SendKeeps
<1>3. ASSUME NEW r \in requests, Api!Handle(r) PROVE ApiInv'
  BY <1>3, HandleKeeps
<1>4. ASSUME NEW k \in Miners, Api!recordShare(k) \/ Api!Disconnect(k) PROVE ApiInv'
  BY <1>4 DEF Api!recordShare, Api!Disconnect, Api!rows
<1>5. CASE UNCHANGED apiVars
  BY <1>5 DEF apiVars
<1> QED BY <1>1, <1>2, <1>3, <1>4, <1>5 DEF Api!Next

(* A den stays its creator's: what writes the row keeps its operator.      *)
LEMMA DenStays ==
  ASSUME ApiInv, [Api!Next]_apiVars
  PROVE  \A d \in den, e \in den' : d.op = e.op
<1>1. CASE UNCHANGED den
  BY <1>1 DEF ApiInv, Api!TypeOK, Api!AtMostOne
<1>2. ASSUME NEW r \in requests, Api!CreateInsert(r) \/ Api!CreateUpdate(r) \/ Api!DeleteWrite(r)
      PROVE  \A d \in den, e \in den' : d.op = e.op
  BY <1>2, DenWritten
<1>3. CASE Api!Tick \/ Api!Send
  BY <1>1, <1>3 DEF Api!Tick, Api!Send, Api!SendCreate, Api!SendDelete, Api!SendJoin, Api!SendPrefs,
                    Api!Authorize, Api!Arrive, Api!rows
<1>4. ASSUME NEW r \in requests, Api!Handle(r),
             ~(Api!CreateInsert(r) \/ Api!CreateUpdate(r) \/ Api!DeleteWrite(r))
      PROVE  UNCHANGED den
  BY <1>4 DEF Api!Handle, Api!CreateRead, Api!CreateAuto, Api!DeleteRead, Api!DenRead, Api!Join,
              Api!PrefsMember, Api!PrefsWrite, Api!RouteMember, Api!Fail, Api!Still, Api!rows
<1>5. ASSUME NEW k \in Miners, Api!recordShare(k) \/ Api!Disconnect(k) PROVE UNCHANGED den
  BY <1>5 DEF Api!recordShare, Api!Disconnect, Api!rows
<1>6. CASE UNCHANGED apiVars
  BY <1>1, <1>6 DEF apiVars
<1> QED BY <1>1, <1>2, <1>3, <1>4, <1>5, <1>6 DEF Api!Next

(* A den stays with the operator who created it, shares are recorded for   *)
(* members only, and replayed events roll an address back by two windows   *)
(* at most, for any keys, events, requests at a time and window            *)
(* (groups.controller.ts, members.controller.ts, group-router.ts).         *)
THEOREM RowsStayTheirs == Spec => RowsStayTheirOwners
<1> DEFINE Stay == /\ \A d \in den, e \in den' : d.op = e.op
                   /\ \A k \in mined' : member'[k] # {}
                   /\ Api!RollbackIsShort'
<1>1. Init => ApiInv
  BY ApiStart DEF Init
<1>2. ApiInv /\ [Next]_vars => ApiInv'
  BY PartSteps, ApiStepInv
<1>3. ApiInv /\ ApiInv' /\ [Next]_vars => [Stay]_Api!vars
  <2>1. ApiInv' => Api!RollbackIsShort' /\ \A k \in mined' : member'[k] # {}
    BY DEF ApiInv
  <2> QED BY <2>1, PartSteps, DenStays
<1> QED BY <1>1, <1>2, <1>3, PTL DEF Spec, RowsStayTheirOwners, Api!RowsStayTheirOwners
-----------------------------------------------------------------------------
(* The pages of a member                                                   *)

(* The den is its operator's, a signer that is connected has a key, what a *)
(* call would publish was asked for, and an answer that names a membership *)
(* was given by a row: no row is removed.                                  *)
Asked(c) == c.wish = "yes" => c.asked = "yes"
Believed(k, dens) == \A d \in dens : k # Op \/ d.shows # {} => herRow[k] # {}
MemberInv ==
  /\ MemberPage!TypeOK
  /\ \A d \in hers : d.op = Op
  /\ \A h \in {"page", "role"} : auth[h].kind = "CONNECTED" => auth[h].key # "none"
  /\ \A c \in call : Asked(c)
  /\ \A k \in Keys : Believed(k, cache[k].dens)

LEMMA MemberStart == MemberPage!Init => MemberInv
<1> SUFFICES ASSUME MemberPage!Init PROVE MemberInv
  OBVIOUS
<1> USE DEF MemberPage!Init
<1>1. hers \subseteq MemberPage!DenRow(Keys) /\ \A d \in hers : d.op = Op
  BY PagesAssumption DEF MemberPage!DenRow, MemberPage!Visibilities
<1>2. herRow \in [Keys -> SUBSET MemberPage!MemberRow({0})]
  <2>1. {{}, {[at |-> 0, show |-> TRUE]}} \subseteq SUBSET MemberPage!MemberRow({0})
    BY DEF MemberPage!MemberRow
  <2> QED BY <2>1
<1>3. auth \in [{"page", "role"} -> MemberPage!Session] /\ \A h \in {"page", "role"} : auth[h].kind # "CONNECTED"
  BY DEF MemberPage!States, MemberPage!Session, MemberPage!Out, MemberPage!Nobody
<1>4. cache \in [Keys -> MemberPage!Answer] /\ \A k \in Keys : Believed(k, cache[k].dens)
  BY DEF MemberPage!Answer, MemberPage!Empty, Believed
<1> QED BY <1>1, <1>2, <1>3, <1>4
        DEF MemberInv, MemberPage!TypeOK, MemberPage!Answer, MemberPage!AtMostOne, MemberPage!Empty,
            MemberPage!Fresh, MemberPage!Nobody

(* Whom the loaded join page takes for a member is one.                    *)
LEMMA RoleTrue == MemberInv => MemberPage!RoleIsTrue
<1> SUFFICES ASSUME MemberInv, page = "join", known = "there", MemberPage!isExistingMember
             PROVE  herRow[auth["role"].key] # {}
  BY DEF MemberPage!RoleIsTrue
<1> DEFINE k == auth["role"].key
<1>1. auth["role"].kind = "CONNECTED" /\ k \in Keys
  BY DEF MemberPage!isExistingMember, MemberPage!Role, MemberInv, MemberPage!TypeOK, MemberPage!Session,
         MemberPage!Nobody, MemberPage!States
<1>2. MemberPage!RoleOf(k, k = Op, cache[k]) \in {"MEMBER", "OPERATOR_AND_MEMBER"}
  BY <1>1 DEF MemberPage!isExistingMember, MemberPage!Role
<1>3. PICK d \in cache[k].dens : k # Op \/ d.shows # {}
  BY <1>2 DEF MemberPage!RoleOf
<1> QED BY <1>1, <1>3 DEF MemberInv, Believed

(* What a lookup answers of a key is typed, and names a membership only    *)
(* where there is a row.                                                   *)
LEMMA LookupIsTrue ==
  ASSUME MemberInv, NEW k \in Keys, NEW answer \in MemberPage!Lookup(k)
  PROVE  answer \in MemberPage!Answer /\ Believed(k, answer.dens)
<1>1. CASE answer = [state |-> "failed", dens |-> {}]
  BY <1>1 DEF MemberPage!Answer, Believed
<1>2. CASE answer = [state |-> "loaded", dens |-> MemberPage!MineOf(hers, herRow, k)]
  <2>1. ASSUME NEW d \in hers, d.op = k \/ herRow[k] # {}
        PROVE  /\ [operator |-> d.op = k, shows |-> {m.show : m \in herRow[k]}] \in MemberPage!Mine
               /\ k # Op \/ {m.show : m \in herRow[k]} # {} => herRow[k] # {}
    <3>1. \A m \in herRow[k] : m.show \in BOOLEAN
      BY DEF MemberInv, MemberPage!TypeOK, MemberPage!MemberRow
    <3>2. (d.op = k) \in BOOLEAN
      OBVIOUS
    <3> QED BY <2>1, <3>1, <3>2 DEF MemberPage!Mine, MemberInv
  <2> QED BY <1>2, <2>1 DEF MemberPage!Answer, MemberPage!MineOf, MemberPage!Shown, Believed
<1> QED BY <1>1, <1>2 DEF MemberPage!Lookup

(* A step that writes no row and learns nothing.                           *)
MemberKept ==
  /\ MemberPage!TypeOK'
  /\ UNCHANGED <<hers, herRow>>
  /\ \A h \in {"page", "role"} : auth'[h].kind = "CONNECTED" => auth'[h].key # "none"
  /\ \A c \in call' : Asked(c)
  /\ \A k \in Keys : cache'[k].dens \subseteq cache[k].dens

LEMMA MemberAside == ASSUME MemberInv, MemberKept PROVE MemberInv'
BY DEF MemberInv, MemberKept, Believed, Asked

(* Pages come and go.                                                      *)
LEMMA VisitKeeps ==
  ASSUME MemberInv, NEW p \in {"other", "join", "me"}, NEW reload \in BOOLEAN,
         MemberPage!Visit(p, reload)
  PROVE  MemberInv'
<1> USE DEF MemberInv, MemberPage!TypeOK, MemberPage!Visit
<1>1. /\ auth' \in [{"page", "role"} -> MemberPage!Session]
      /\ \A h \in {"page", "role"} : auth'[h].kind # "CONNECTED"
  BY DEF MemberPage!Mounted, MemberPage!Idle, MemberPage!Out, MemberPage!Nobody, MemberPage!Session,
         MemberPage!States
<1>2. /\ cache' \in [Keys -> MemberPage!Answer]
      /\ \A k \in Keys : cache'[k].dens \subseteq cache[k].dens
  BY DEF MemberPage!Empty, MemberPage!Answer
<1>3. /\ call' \subseteq MemberPage!Calls /\ MemberPage!AtMostOne(call')
      /\ \A c \in call' : Asked(c)
  <2>1. \A c \in call : LET e == [c EXCEPT !.here = FALSE]
                        IN e \in MemberPage!Calls /\ Asked(e)
    BY DEF MemberPage!Calls, Asked
  <2> QED BY <2>1 DEF MemberPage!AtMostOne
<1> QED BY <1>1, <1>2, <1>3, MemberAside
        DEF MemberKept, MemberPage!Fresh, MemberPage!Empty, MemberPage!Answer

(* What a step of a signer has to keep.                                    *)
LEMMA SignersKeep ==
  ASSUME MemberInv,
         \/ \E h \in {"page", "role"} : MemberPage!Reconnect(h)
         \/ MemberPage!connect \/ MemberPage!Connected \/ MemberPage!disconnect
         \/ \E a \in Keys \cup {"none"} : MemberPage!SwitchAccount(a)
  PROVE  MemberInv'
<1> USE DEF MemberInv, MemberPage!TypeOK
<1>1. /\ UNCHANGED <<hers, herRow, page, cache, known, form, call>>
      /\ list' \in {list, MemberPage!Empty} /\ account' \in Keys \cup {"none"}
      /\ remembered' \in {remembered, account, "none"}
  BY DEF MemberPage!Reconnect, MemberPage!connect, MemberPage!Connected, MemberPage!disconnect,
         MemberPage!SwitchAccount, MemberPage!browser, MemberPage!Nobody
<1> DEFINE Set == \E h \in {"page", "role"}, v \in MemberPage!Session :
                    /\ auth' = [auth EXCEPT ![h] = v]
                    /\ v.kind = "CONNECTED" => v.key # "none"
<1>2. UNCHANGED auth \/ Set
  <2>1. ASSUME NEW h \in {"page", "role"}, MemberPage!Reconnect(h) PROVE Set
    BY <2>1 DEF MemberPage!Reconnect, MemberPage!In, MemberPage!Out, MemberPage!Nobody,
                MemberPage!Session, MemberPage!States
  <2>2. CASE MemberPage!connect \/ MemberPage!Connected \/ MemberPage!disconnect
    BY <2>2 DEF MemberPage!connect, MemberPage!Connected, MemberPage!disconnect, MemberPage!In,
                MemberPage!Out, MemberPage!Nobody, MemberPage!Session, MemberPage!States
  <2> QED BY <2>1, <2>2 DEF MemberPage!SwitchAccount, MemberPage!browser
<1>3. /\ auth' \in [{"page", "role"} -> MemberPage!Session]
      /\ \A h \in {"page", "role"} : auth'[h].kind = "CONNECTED" => auth'[h].key # "none"
  BY <1>2
<1> QED BY <1>1, <1>3, MemberAside
        DEF MemberKept, MemberPage!Empty, MemberPage!Answer, MemberPage!Nobody

(* The pages ask for the den and its list, and a form is sent.             *)
LEMMA FormsKeep ==
  ASSUME MemberInv,
         \/ MemberPage!LoadDen \/ MemberPage!loadMyAddresses \/ MemberPage!AddressesLoaded
         \/ MemberPage!LoadList \/ MemberPage!flip
         \/ \E asked \in MemberPage!Wishes : MemberPage!onSubmit(asked)
  PROVE  MemberInv'
<1> USE DEF MemberInv, MemberPage!TypeOK
<1>1. /\ UNCHANGED <<hers, herRow, account, remembered, page, auth, cache>>
      /\ known' \in {known, "there", "gone"}
  BY DEF MemberPage!LoadDen, MemberPage!loadMyAddresses, MemberPage!AddressesLoaded,
         MemberPage!LoadList, MemberPage!flip, MemberPage!onSubmit, MemberPage!browser
<1>2. form' \in [submit : {"IDLE", "SUBMITTING", "JOINED", "ERROR"},
                prefill : {"IDLE", "LOADING", "LOADED", "ERROR"}]
  BY DEF MemberPage!LoadDen, MemberPage!loadMyAddresses, MemberPage!AddressesLoaded,
         MemberPage!LoadList, MemberPage!flip, MemberPage!onSubmit, MemberPage!browser
<1>3. list' \in MemberPage!Answer
  <2>1. CASE MemberPage!LoadList
    <3>1. auth["page"].key \in Keys
      BY <2>1 DEF MemberPage!LoadList, MemberPage!Session, MemberPage!Nobody
    <3>2. [list EXCEPT !.state = "loading"] \in MemberPage!Answer
      BY DEF MemberPage!Answer
    <3> QED BY <2>1, <3>1, <3>2, LookupIsTrue DEF MemberPage!LoadList
  <2> QED BY <2>1 DEF MemberPage!LoadDen, MemberPage!loadMyAddresses, MemberPage!AddressesLoaded,
         MemberPage!flip, MemberPage!onSubmit, MemberPage!browser
<1> DEFINE CallOK == /\ call' \subseteq MemberPage!Calls /\ MemberPage!AtMostOne(call')
                     /\ \A c \in call' : Asked(c)
<1>4. CallOK
  <2>1. CASE MemberPage!flip
    <3>1. auth["page"].key \in Keys
      BY <2>1 DEF MemberPage!flip, MemberPage!Session, MemberPage!Nobody
    <3>2. PICK next \in {"yes", "no"} :
            call' = {[kind |-> "prefs", key |-> auth["page"].key, wish |-> next, asked |-> next,
                      step |-> "sign", here |-> TRUE]}
      BY <2>1 DEF MemberPage!flip
    <3> QED BY <3>1, <3>2 DEF MemberPage!Calls, MemberPage!Wishes, MemberPage!AtMostOne, Asked
  <2>2. ASSUME NEW asked \in MemberPage!Wishes, MemberPage!onSubmit(asked) PROVE CallOK
    <3>1. auth["page"].key \in Keys
      BY <2>2 DEF MemberPage!onSubmit, MemberPage!FormShown, MemberPage!Session, MemberPage!Nobody
    <3>2. PICK wish \in MemberPage!Wishes :
            /\ wish = "yes" => asked = "yes"
            /\ call' = {[kind |-> "join", key |-> auth["page"].key, wish |-> wish, asked |-> asked,
                         step |-> "probe", here |-> TRUE]}
      BY <2>2 DEF MemberPage!onSubmit, MemberPage!Wish, MemberPage!Wishes
    <3> QED BY <3>1, <3>2 DEF MemberPage!Calls, MemberPage!AtMostOne, Asked
  <2>3. CASE UNCHANGED call
    BY <2>3
  <2> QED BY <2>1, <2>2, <2>3
          DEF MemberPage!LoadDen, MemberPage!loadMyAddresses, MemberPage!AddressesLoaded,
              MemberPage!LoadList
<1> QED BY <1>1, <1>2, <1>3, <1>4, MemberAside DEF MemberKept

(* useDenRole asks, and an answer is what the rows are at the time.        *)
LEMMA RolesKeep ==
  ASSUME MemberInv, MemberPage!AskRole \/ \E k \in Keys : MemberPage!RoleAnswer(k)
  PROVE  MemberInv'
<1> USE DEF MemberInv, MemberPage!TypeOK
<1>1. UNCHANGED <<hers, herRow, account, remembered, page, auth, known, form, list, call>>
  BY DEF MemberPage!AskRole, MemberPage!RoleAnswer
<1> DEFINE Learn == \E k \in Keys, answer \in MemberPage!Answer :
                      cache' = [cache EXCEPT ![k] = answer] /\ Believed(k, answer.dens)
<1>2. Learn
  <2>1. CASE MemberPage!AskRole
    <3> DEFINE k == auth["role"].key
    <3>1. k \in Keys
      BY <2>1 DEF MemberPage!AskRole, MemberPage!Session, MemberPage!Nobody
    <3>2. /\ [cache[k] EXCEPT !.state = "loading"] \in MemberPage!Answer
          /\ [cache[k] EXCEPT !.state = "loading"].dens = cache[k].dens
      BY <3>1 DEF MemberPage!Answer
    <3>3. cache' = [cache EXCEPT ![k] = [cache[k] EXCEPT !.state = "loading"]]
      BY <2>1 DEF MemberPage!AskRole
    <3> QED BY <3>1, <3>2, <3>3
  <2>2. ASSUME NEW k \in Keys, MemberPage!RoleAnswer(k) PROVE Learn
    BY <2>2, LookupIsTrue DEF MemberPage!RoleAnswer
  <2> QED BY <2>1, <2>2
<1> QED BY <1>1, <1>2 DEF Believed, Asked

LEMMA DeleteDenKeeps == ASSUME MemberInv, MemberPage!DeleteDen PROVE MemberInv'
<1>1. \A d \in hers : LET e == [d EXCEPT !.vis = "DELETED"]
                       IN e \in MemberPage!DenRow(Keys) /\ e.op = d.op
  BY DEF MemberInv, MemberPage!TypeOK, MemberPage!DenRow
<1>2. hers' \subseteq MemberPage!DenRow(Keys) /\ \A d \in hers' : d.op = Op
  BY <1>1 DEF MemberPage!DeleteDen, MemberInv
<1> QED BY <1>2 DEF MemberInv, MemberPage!TypeOK, MemberPage!DeleteDen, MemberPage!browser, Believed, Asked

(* The probe and the signature: what would be published stays as asked.    *)
LEMMA SigningKeeps ==
  ASSUME MemberInv, NEW c \in call, MemberPage!Probed(c) \/ MemberPage!Signed(c)
  PROVE  MemberInv'
<1> DEFINE e == [c EXCEPT !.step = "sign"]
           s == [c EXCEPT !.step = "send"]
           g == [s EXCEPT !.key = account]
<1>1. c \in MemberPage!Calls /\ account \in Keys \cup {"none"} /\ Asked(c)
  BY DEF MemberInv, MemberPage!TypeOK, MemberPage!Nobody
<1>2. e \in MemberPage!Calls /\ Asked(e) /\ s \in MemberPage!Calls /\ Asked(s)
  BY <1>1 DEF MemberPage!Calls, Asked
<1>3. account # "none" => g \in MemberPage!Calls /\ Asked(g)
  BY <1>1, <1>2 DEF MemberPage!Calls, Asked
<1>4. g = [c EXCEPT !.step = "send", !.key = account]
  BY <1>1 DEF MemberPage!Calls
<1>5. call' = {e} \/ (account # "none" /\ call' = {g})
  BY <1>4 DEF MemberPage!Probed, MemberPage!Signed, MemberPage!Nobody
<1> HIDE DEF e, g, s
<1>6. call' \subseteq MemberPage!Calls /\ MemberPage!AtMostOne(call') /\ \A x \in call' : Asked(x)
  BY <1>2, <1>3, <1>5 DEF MemberPage!AtMostOne
<1>7. UNCHANGED <<hers, herRow, account, remembered, page, auth, cache, known, form, list>>
  BY DEF MemberPage!Probed, MemberPage!Signed, MemberPage!browser
<1> QED BY <1>6, <1>7, MemberAside DEF MemberInv, MemberPage!TypeOK, MemberKept

(* A row that is written is the sender's, and shows what was asked for or  *)
(* what it showed.                                                         *)
LEMMA RowWritten ==
  ASSUME MemberInv, NEW c \in call, MemberPage!Written(c)
  PROVE  /\ herRow' \in [Keys -> SUBSET MemberPage!MemberRow({0})]
         /\ \A k \in Keys : herRow[k] # {} => herRow'[k] # {}
         /\ \A k \in Keys : MemberPage!Public(k)' /\ ~MemberPage!Public(k) =>
              c.key = k /\ c.asked = "yes"
<1> DEFINE new == MemberPage!JoinedRow(herRow[c.key], 0, c.wish)
<1>1. c \in MemberPage!Calls /\ Asked(c)
  BY DEF MemberInv, MemberPage!TypeOK
<1>2. c.key \in Keys /\ herRow \in [Keys -> SUBSET MemberPage!MemberRow({0})]
  BY <1>1 DEF MemberInv, MemberPage!TypeOK, MemberPage!Calls
<1>3. herRow' = [herRow EXCEPT ![c.key] = {new}]
  BY DEF MemberPage!Written
<1>4. new \in MemberPage!MemberRow({0})
  BY DEF MemberPage!JoinedRow, MemberPage!MemberRow
<1>5. new.show => c.asked = "yes" \/ MemberPage!Public(c.key)
  BY <1>1 DEF MemberPage!JoinedRow, MemberPage!Public, Asked
<1> HIDE DEF new
<1>6. \A k \in Keys : herRow'[k] = IF k = c.key THEN {new} ELSE herRow[k]
  BY <1>2, <1>3
<1>7. herRow' \in [Keys -> SUBSET MemberPage!MemberRow({0})]
  BY <1>2, <1>3, <1>4
<1>8. ASSUME NEW k \in Keys, MemberPage!Public(k)', ~MemberPage!Public(k)
      PROVE  c.key = k /\ c.asked = "yes"
  BY <1>5, <1>6, <1>8 DEF MemberPage!Public
<1> QED BY <1>6, <1>7, <1>8

LEMMA SentKeeps == ASSUME MemberInv, NEW c \in call, MemberPage!Sent(c) PROVE MemberInv'
<1> USE DEF MemberInv, MemberPage!TypeOK
<1>1. /\ call' = {} /\ UNCHANGED <<hers, account, remembered, page, auth, cache, known>>
  BY DEF MemberPage!Sent
<1>2. form' \in [submit : {"IDLE", "SUBMITTING", "JOINED", "ERROR"},
                prefill : {"IDLE", "LOADING", "LOADED", "ERROR"}]
  BY DEF MemberPage!Sent, MemberPage!Written, MemberPage!Failed, MemberPage!Submitted
<1>3. list' \in MemberPage!Answer
  <2> DEFINE shown == {c.wish = "yes"}
             l == [list EXCEPT !.dens = {[d EXCEPT !.shows = shown] : d \in list.dens}]
  <2>1. list' \in {list, l}
    BY DEF MemberPage!Sent, MemberPage!Written, MemberPage!Failed
  <2>2. shown \in SUBSET BOOLEAN
    <3>1. (c.wish = "yes") \in BOOLEAN
      OBVIOUS
    <3> QED BY <3>1, Zenon
  <2> HIDE DEF shown
  <2>3. {[d EXCEPT !.shows = shown] : d \in list.dens} \subseteq MemberPage!Mine
    BY <2>2 DEF MemberPage!Answer, MemberPage!Mine
  <2>4. l \in MemberPage!Answer
    BY <2>3 DEF MemberPage!Answer
  <2> QED BY <2>1, <2>4
<1>4. /\ herRow' \in [Keys -> SUBSET MemberPage!MemberRow({0})]
      /\ \A k \in Keys : herRow[k] # {} => herRow'[k] # {}
  BY RowWritten DEF MemberPage!Sent, MemberPage!Failed
<1> QED BY <1>1, <1>2, <1>3, <1>4 DEF Believed, MemberPage!AtMostOne

LEMMA MemberStepInv == ASSUME MemberInv, [MemberPage!Next]_memberVars PROVE MemberInv'
<1>1. CASE UNCHANGED memberVars
  BY <1>1 DEF memberVars, MemberInv, MemberPage!TypeOK, MemberPage!AtMostOne, Believed, Asked
<1> QED BY <1>1, VisitKeeps, SignersKeep, FormsKeep, RolesKeep, DeleteDenKeeps, SigningKeeps, SentKeeps
        DEF MemberPage!Next, MemberPage!Nobody

(* A key is published by its owner's own call only.                        *)
LEMMA PublishedByChoice ==
  ASSUME MemberInv, [MemberPage!Next]_memberVars
  PROVE  \A k \in Keys : MemberPage!Public(k)' /\ ~MemberPage!Public(k) =>
            \E c \in call : c.key = k /\ c.asked = "yes"
<1>1. UNCHANGED herRow \/ \E c \in call : MemberPage!Written(c)
  BY DEF MemberPage!Next, MemberPage!Visit, MemberPage!SwitchAccount, MemberPage!DeleteDen,
         MemberPage!Reconnect, MemberPage!connect, MemberPage!Connected, MemberPage!disconnect,
         MemberPage!AskRole, MemberPage!RoleAnswer, MemberPage!LoadDen, MemberPage!loadMyAddresses,
         MemberPage!AddressesLoaded, MemberPage!onSubmit, MemberPage!LoadList, MemberPage!flip,
         MemberPage!Probed, MemberPage!Signed, MemberPage!Sent, MemberPage!Failed, memberVars
<1>2. UNCHANGED herRow => \A k \in Keys : MemberPage!Public(k)' => MemberPage!Public(k)
  BY DEF MemberPage!Public
<1> QED BY <1>1, <1>2, RowWritten

(* A member's key is published only when she chose so, whichever accounts  *)
(* she switches between and however old what the pages believe is, and the *)
(* loaded join page takes only members for members (join/page.tsx,         *)
(* DenMembershipStatus.tsx, me/page.tsx).                                  *)
THEOREM MembershipStaysRight == Spec => MembershipIsRight
<1> DEFINE Chosen == \A k \in Keys : MemberPage!Public(k)' /\ ~MemberPage!Public(k) =>
                       \E c \in call : c.key = k /\ c.asked = "yes"
           Right == Chosen /\ MemberPage!RoleIsTrue'
<1>1. Init => MemberInv
  BY MemberStart DEF Init
<1>2. MemberInv /\ [Next]_vars => MemberInv'
  BY PartSteps, MemberStepInv
<1>3. MemberInv' => MemberPage!RoleIsTrue'
  BY RoleTrue, PTL
<1>4. MemberInv /\ MemberInv' /\ [Next]_vars => [Right]_MemberPage!vars
  BY <1>3, PartSteps, PublishedByChoice
<1> QED BY <1>1, <1>2, <1>4, PTL DEF Spec, MembershipIsRight, MemberPage!MembershipIsRight
-----------------------------------------------------------------------------
(* The pages of an operator                                                *)

(* A den with its own node has the node's URL and a credential, and what   *)
(* is sent has been signed.                                                *)
Complete(d) == d.source = "operator" => d.url /\ d.rpc
ByOne(c) == c.step = "send" => c.key # "none"
OperatorInv ==
  /\ OperatorPage!TypeOK
  /\ \A d \in his : Complete(d)
  /\ \A t \in Tabs : \A c \in save[t] : ByOne(c)

LEMMA OperatorStart == OperatorPage!Init => OperatorInv
BY DEF OperatorPage!Init, OperatorInv, OperatorPage!TypeOK, OperatorPage!AtMostOne, OperatorPage!Phases,
       OperatorPage!Nobody

(* What a step that writes no row has to keep.                             *)
LEMMA OperatorAside ==
  ASSUME OperatorInv, OperatorPage!TypeOK', UNCHANGED his,
         \A t \in Tabs : \A c \in save'[t] : ByOne(c)
  PROVE  OperatorInv'
BY DEF OperatorInv, Complete, ByOne

(* A page is opened, the account is switched, a signer connects.           *)
LEMMA OpeningKeeps ==
  ASSUME OperatorInv,
         \/ \E a \in Keys \cup {"none"} : OperatorPage!SwitchAccount(a)
         \/ \E t \in Tabs :
              \/ \E p \in {"new", "settings"} : OperatorPage!Mount(t, p)
              \/ OperatorPage!Load(t) \/ OperatorPage!connect(t) \/ OperatorPage!Connected(t)
              \/ OperatorPage!TryAgain(t)
  PROVE  OperatorInv'
<1> USE DEF OperatorInv, OperatorPage!TypeOK, OperatorPage!Phases, OperatorPage!Nobody, OperatorPage!Enter
<1>1. ASSUME NEW a \in Keys \cup {"none"}, OperatorPage!SwitchAccount(a) PROVE OperatorInv'
  BY <1>1, OperatorAside DEF OperatorPage!SwitchAccount, OperatorPage!rows, OperatorPage!tab
<1>2. ASSUME NEW t \in Tabs, NEW p \in {"new", "settings"}, OperatorPage!Mount(t, p) PROVE OperatorInv'
  BY <1>2, OperatorAside DEF OperatorPage!Mount, OperatorPage!rows
<1>3. ASSUME NEW t \in Tabs,
             \/ OperatorPage!Load(t) \/ OperatorPage!connect(t) \/ OperatorPage!Connected(t)
             \/ OperatorPage!TryAgain(t)
      PROVE  OperatorInv'
  BY <1>3, OperatorAside
  DEF OperatorPage!Load, OperatorPage!connect, OperatorPage!Connected, OperatorPage!TryAgain,
      OperatorPage!rows
<1> QED BY <1>1, <1>2, <1>3

(* One call at a time in a tab.                                            *)
LEMMA OneSave ==
  ASSUME OperatorInv, NEW t \in Tabs, NEW c \in OperatorPage!Calls, ByOne(c),
         save' = [save EXCEPT ![t] = {c}]
  PROVE  /\ save' \in [Tabs -> SUBSET OperatorPage!Calls]
         /\ \A x \in Tabs : OperatorPage!AtMostOne(save'[x]) /\ \A e \in save'[x] : ByOne(e)
BY DEF OperatorInv, OperatorPage!TypeOK, OperatorPage!AtMostOne

(* The form and the button beside it.                                      *)
LEMMA FillingKeeps ==
  ASSUME OperatorInv, NEW t \in Tabs,
         \/ OperatorPage!testRpc(t) \/ OperatorPage!Tested(t) \/ OperatorPage!onDelete(t)
         \/ OperatorPage!onSubmit(t)
         \/ \E p \in {"idle", "confirming"} : OperatorPage!Confirm(t, p)
         \/ \E c \in save[t] : OperatorPage!Sign(t, c) \/ OperatorPage!Refuse(t, c)
  PROVE  OperatorInv'
<1> USE DEF OperatorInv, OperatorPage!TypeOK, OperatorPage!Phases, OperatorPage!Nobody, OperatorPage!Enter
<1> DEFINE SaveOK == /\ save' \in [Tabs -> SUBSET OperatorPage!Calls]
                     /\ \A x \in Tabs : OperatorPage!AtMostOne(save'[x]) /\ \A e \in save'[x] : ByOne(e)
<1>1. CASE \/ OperatorPage!testRpc(t) \/ OperatorPage!Tested(t) \/ OperatorPage!onDelete(t)
           \/ \E p \in {"idle", "confirming"} : OperatorPage!Confirm(t, p)
  BY <1>1, OperatorAside
  DEF OperatorPage!testRpc, OperatorPage!Tested, OperatorPage!onDelete, OperatorPage!Confirm,
      OperatorPage!rows
<1>2. CASE OperatorPage!onSubmit(t)
  <2>1. ASSUME NEW filled \in OperatorPage!Forms, opPage[t] # "none",
               save' = [save EXCEPT ![t] = {[form |-> filled, key |-> signer[t], step |-> "sign",
                                             page |-> opPage[t]]}]
        PROVE  SaveOK
    <3> DEFINE c == [form |-> filled, key |-> signer[t], step |-> "sign", page |-> opPage[t]]
    <3>1. c \in OperatorPage!Calls /\ ByOne(c)
      BY <2>1 DEF OperatorPage!Calls, ByOne
    <3> QED BY <2>1, <3>1, OneSave
  <2>2. SaveOK
    BY <1>2, <2>1 DEF OperatorPage!onSubmit, OperatorPage!FormShown
  <2> QED BY <1>2, <2>2, OperatorAside DEF OperatorPage!onSubmit, OperatorPage!rows
<1>3. ASSUME NEW c \in save[t], OperatorPage!Sign(t, c) PROVE OperatorInv'
  <2> DEFINE s == [c EXCEPT !.step = "send"]
             g == [s EXCEPT !.key = opAccount]
  <2>1. c \in OperatorPage!Calls /\ opAccount \in Keys \cup {"none"}
    OBVIOUS
  <2>2. /\ g \in OperatorPage!Calls /\ g = [c EXCEPT !.step = "send", !.key = opAccount]
        /\ g.key = opAccount
    <3>1. s \in OperatorPage!Calls
      BY <2>1 DEF OperatorPage!Calls
    <3>2. g \in OperatorPage!Calls /\ g.key = opAccount
      BY <2>1, <3>1 DEF OperatorPage!Calls
    <3>3. g = [c EXCEPT !.step = "send", !.key = opAccount]
      BY <2>1 DEF OperatorPage!Calls
    <3> QED BY <3>2, <3>3
  <2>3. save' = [save EXCEPT ![t] = {g}]
    BY <1>3, <2>2 DEF OperatorPage!Sign
  <2>4. SaveOK
    <3>1. ByOne(g)
      BY <1>3, <2>2 DEF ByOne, OperatorPage!Sign
    <3> HIDE DEF g
    <3> QED BY <2>2, <2>3, <3>1, OneSave
  <2> QED BY <1>3, <2>4, OperatorAside DEF OperatorPage!Sign, OperatorPage!rows
<1>4. ASSUME NEW c \in save[t], OperatorPage!Refuse(t, c) PROVE OperatorInv'
  <2>1. SaveOK
    BY <1>4 DEF OperatorPage!Refuse, OperatorPage!AtMostOne
  <2> QED BY <1>4, <2>1, OperatorAside DEF OperatorPage!Refuse, OperatorPage!rows
<1> QED BY <1>1, <1>2, <1>3, <1>4

(* What is written into the den's row has passed the check of the handler, *)
(* and what is stored is kept.                                             *)
LEMMA SavedRow ==
  ASSUME OperatorInv, NEW t \in Tabs, NEW c \in save[t], c.step = "send",
         OperatorPage!Saved(OperatorPage!BodyOf(c)) \/ OperatorPage!HalfSaved(OperatorPage!BodyOf(c))
  PROVE  /\ his' \subseteq OperatorPage!DenRow(Keys) /\ OperatorPage!AtMostOne(his')
         /\ hisRow' \in [Keys -> SUBSET OperatorPage!MemberRow({0})]
         /\ \A d \in his' : Complete(d) /\ \A e \in his : e.rpc => d.rpc
<1> USE DEF OperatorInv, OperatorPage!TypeOK
<1> DEFINE body == OperatorPage!BodyOf(c)
<1>1. /\ body.key \in Keys /\ body.vis \in OperatorPage!Visibilities
      /\ body.source \in {"platform", "operator"} /\ body.url \in BOOLEAN /\ body.auth \in BOOLEAN
  BY DEF OperatorPage!BodyOf, OperatorPage!Calls, OperatorPage!Forms, OperatorPage!Nobody, ByOne
<1>2. body.source = "operator" => body.url /\ body.auth
  BY DEF OperatorPage!Saved, OperatorPage!HalfSaved, OperatorPage!Consistent
<1>3. OperatorPage!Saved(body) \/ OperatorPage!HalfSaved(body)
  OBVIOUS
<1> HIDE DEF body
<1>4. hisRow' \in [Keys -> SUBSET OperatorPage!MemberRow({0})]
  <2>1. [at |-> 0, show |-> FALSE] \in OperatorPage!MemberRow({0})
    BY DEF OperatorPage!MemberRow
  <2>2. hisRow' \in {hisRow, [hisRow EXCEPT ![body.key] = {[at |-> 0, show |-> FALSE]}]}
    BY <1>3 DEF OperatorPage!Saved, OperatorPage!HalfSaved
  <2> QED BY <1>1, <2>1, <2>2
<1>5. CASE his = {} /\ his' = {OperatorPage!CreatedRow(body)}
  <2>1. OperatorPage!CreatedRow(body) \in OperatorPage!DenRow(Keys) /\ Complete(OperatorPage!CreatedRow(body))
    BY <1>1, <1>2 DEF OperatorPage!CreatedRow, OperatorPage!DenRow, Complete
  <2> QED BY <1>4, <1>5, <2>1 DEF OperatorPage!AtMostOne
<1>6. CASE his' = {OperatorPage!UpdatedRow(d, body) : d \in his}
  <2>1. ASSUME NEW d \in his
        PROVE  LET e == OperatorPage!UpdatedRow(d, body)
               IN e \in OperatorPage!DenRow(Keys) /\ Complete(e) /\ (d.rpc => e.rpc)
    <3>1. (d.rpc \/ body.auth) \in BOOLEAN /\ d \in OperatorPage!DenRow(Keys)
      OBVIOUS
    <3> DEFINE e == OperatorPage!UpdatedRow(d, body)
    <3>2. e \in OperatorPage!DenRow(Keys)
      BY <1>1, <3>1 DEF OperatorPage!UpdatedRow, OperatorPage!DenRow
    <3>3. e.source = body.source /\ e.url = body.url /\ e.rpc = (d.rpc \/ body.auth)
      BY <3>1 DEF OperatorPage!UpdatedRow, OperatorPage!DenRow
    <3> QED BY <1>2, <3>2, <3>3 DEF Complete
  <2> QED BY <1>4, <1>6, <2>1 DEF OperatorPage!AtMostOne
<1> QED BY <1>3, <1>5, <1>6 DEF OperatorPage!Saved, OperatorPage!HalfSaved

(* A save and a deletion: the rows, and one call less.                     *)
LEMMA OperatorWrites ==
  ASSUME OperatorInv, NEW t \in Tabs,
         OperatorPage!Delete(t) \/ \E c \in save[t] : OperatorPage!Send(t, c)
  PROVE  /\ OperatorInv'
         /\ \A d \in his', e \in his : e.rpc => d.rpc
<1> USE DEF OperatorInv, OperatorPage!TypeOK
<1> DEFINE RowsOK == /\ his' \subseteq OperatorPage!DenRow(Keys) /\ OperatorPage!AtMostOne(his')
                     /\ hisRow' \in [Keys -> SUBSET OperatorPage!MemberRow({0})]
                     /\ \A d \in his' : Complete(d)
                     /\ \A d \in his', e \in his : e.rpc => d.rpc
<1>1. UNCHANGED <<his, hisRow>> => RowsOK
  BY DEF OperatorPage!AtMostOne
<1>2. CASE OperatorPage!Delete(t)
  <2>1. \A d \in his : LET e == [d EXCEPT !.vis = "DELETED"]
                       IN e \in OperatorPage!DenRow(Keys) /\ Complete(e) /\ (d.rpc => e.rpc)
    BY DEF OperatorPage!DenRow, Complete
  <2>2. ASSUME his' = {[d EXCEPT !.vis = "DELETED"] : d \in his} PROVE RowsOK
    <3>1. his' \subseteq OperatorPage!DenRow(Keys) /\ \A d \in his' : Complete(d)
      BY <2>1, <2>2
    <3>2. OperatorPage!AtMostOne(his')
      BY <2>2 DEF OperatorPage!AtMostOne
    <3>3. \A d \in his', e \in his : e.rpc => d.rpc
      <4>1. SUFFICES ASSUME NEW x \in his, NEW e \in his, e.rpc
                     PROVE  [x EXCEPT !.vis = "DELETED"].rpc
        BY <2>2
      <4>2. x = e
        BY DEF OperatorPage!AtMostOne
      <4> QED BY <2>1, <4>1, <4>2
    <3> QED BY <1>2, <3>1, <3>2, <3>3 DEF OperatorPage!Delete
  <2>3. RowsOK
    BY <1>1, <1>2, <2>2 DEF OperatorPage!Delete
  <2> HIDE DEF RowsOK
  <2>4. OperatorPage!TypeOK'
    BY <1>2, <2>3 DEF OperatorPage!Delete, RowsOK
  <2> QED BY <1>2, <2>3, <2>4 DEF OperatorPage!Delete, RowsOK, ByOne, Complete
<1>3. ASSUME NEW c \in save[t], OperatorPage!Send(t, c)
      PROVE  OperatorInv' /\ \A d \in his', e \in his : e.rpc => d.rpc
  <2>1. RowsOK
    BY <1>1, <1>3, SavedRow DEF OperatorPage!Send, OperatorPage!rows
  <2> HIDE DEF RowsOK
  <2>2. /\ save' \in [Tabs -> SUBSET OperatorPage!Calls]
        /\ \A x \in Tabs : OperatorPage!AtMostOne(save'[x]) /\ \A e \in save'[x] : ByOne(e)
    BY <1>3 DEF OperatorPage!Send, OperatorPage!AtMostOne
  <2>3. phase' \in [Tabs -> OperatorPage!Phases] /\ opPage' \in [Tabs -> {"none", "new", "settings"}]
    BY <1>3 DEF OperatorPage!Send, OperatorPage!Enter, OperatorPage!Phases
  <2>4. UNCHANGED <<opAccount, group, signer, rpcTest, removal>>
    BY <1>3 DEF OperatorPage!Send
  <2> QED BY <2>1, <2>2, <2>3, <2>4 DEF RowsOK
<1> QED BY <1>2, <1>3

LEMMA OperatorStepInv ==
  ASSUME OperatorInv, [OperatorPage!Next]_opVars
  PROVE  OperatorInv' /\ \A d \in his', e \in his : e.rpc => d.rpc
<1>1. CASE UNCHANGED opVars
  <2>1. OperatorInv'
    BY <1>1 DEF opVars, OperatorInv, OperatorPage!TypeOK, OperatorPage!AtMostOne, Complete, ByOne
  <2> QED BY <1>1, <2>1 DEF opVars, OperatorInv, OperatorPage!TypeOK, OperatorPage!AtMostOne
<1>2. ASSUME NEW t \in Tabs, OperatorPage!Delete(t) \/ \E c \in save[t] : OperatorPage!Send(t, c)
      PROVE  OperatorInv' /\ \A d \in his', e \in his : e.rpc => d.rpc
  BY <1>2, OperatorWrites
<1>3. ASSUME OperatorInv', UNCHANGED his PROVE \A d \in his', e \in his : e.rpc => d.rpc
  BY <1>3 DEF OperatorInv, OperatorPage!TypeOK, OperatorPage!AtMostOne
<1>4. CASE \/ \E a \in Keys \cup {"none"} : OperatorPage!SwitchAccount(a)
           \/ \E t \in Tabs :
                \/ \E p \in {"new", "settings"} : OperatorPage!Mount(t, p)
                \/ OperatorPage!Load(t) \/ OperatorPage!connect(t) \/ OperatorPage!Connected(t)
                \/ OperatorPage!TryAgain(t)
  <2>1. UNCHANGED his
    BY <1>4 DEF OperatorPage!SwitchAccount, OperatorPage!Mount, OperatorPage!Load, OperatorPage!connect,
                OperatorPage!Connected, OperatorPage!TryAgain, OperatorPage!rows
  <2> QED BY <1>3, <1>4, <2>1, OpeningKeeps
<1>5. ASSUME NEW t \in Tabs,
             \/ OperatorPage!testRpc(t) \/ OperatorPage!Tested(t) \/ OperatorPage!onDelete(t)
             \/ OperatorPage!onSubmit(t)
             \/ \E p \in {"idle", "confirming"} : OperatorPage!Confirm(t, p)
             \/ \E c \in save[t] : OperatorPage!Sign(t, c) \/ OperatorPage!Refuse(t, c)
      PROVE  OperatorInv' /\ \A d \in his', e \in his : e.rpc => d.rpc
  <2>1. UNCHANGED his
    BY <1>5 DEF OperatorPage!testRpc, OperatorPage!Tested, OperatorPage!onDelete, OperatorPage!onSubmit,
                OperatorPage!Confirm, OperatorPage!Sign, OperatorPage!Refuse, OperatorPage!rows
  <2> QED BY <1>3, <1>5, <2>1, FillingKeeps
<1> QED BY <1>1, <1>2, <1>4, <1>5 DEF OperatorPage!Next, OperatorPage!Nobody

(* A den with its own node has the node's URL and a credential, and a      *)
(* stored credential survives every save, for any keys and tabs and in     *)
(* whatever order dens are created, changed and deleted                    *)
(* (groups.controller.ts, new/page.tsx, settings/page.tsx).                *)
THEOREM CredentialsStayKept == Spec => CredentialsAreKept
<1> DEFINE Kept == \A d \in his' : /\ d.source = "operator" => d.url /\ d.rpc
                                   /\ \A e \in his : e.rpc => d.rpc
<1>1. Init => OperatorInv
  BY OperatorStart DEF Init
<1>2. OperatorInv /\ [Next]_vars => OperatorInv'
  BY PartSteps, OperatorStepInv
<1>3. OperatorInv /\ OperatorInv' /\ [Next]_vars => [Kept]_OperatorPage!vars
  BY PartSteps, OperatorStepInv DEF OperatorInv, Complete
<1> QED BY <1>1, <1>2, <1>3, PTL DEF Spec, CredentialsAreKept, OperatorPage!CredentialsAreKept
-----------------------------------------------------------------------------
(* The support page and the limiter of its routes                          *)

(* Donations counts as this module does.                                   *)
LEMMA GiveCounts == \A S : Give!Cardinality(S) = Cardinality(S)
BY DEF Give!Cardinality, Cardinality

At(S, c)     == {h \in S : h.at = c}
Within(S, t) == {g \in S : g.at \in t..(t + Window - 1)}

(* The limiter has every request that was let through less than a window   *)
(* ago, and the requests of one moment are numbered.                       *)
QuotaInv ==
  \A r \in Give!Routes :
    /\ IsFiniteSet(hits[r]) /\ IsFiniteSet(granted[r])
    /\ \A g \in granted[r] : clock - g.at < Window => g \in hits[r]
    /\ \A h \in At(hits[r], clock) : h.nth <= Cardinality(At(hits[r], clock))
    /\ \A t \in Nat : Cardinality(Within(granted[r], t)) <= Quota

(* An answer that tells of a payment tells the truth, however late it      *)
(* comes: what is settled stays settled.                                   *)
ThanksInv ==
  /\ stage # "FORM" => mode \in Give!Routes
  /\ stage = "CHECKOUT" => current \in Ids
  /\ \A p \in polls : p.status = "Settled" => invoice[p.id].state = "Settled"
  /\ Give!ThanksAreEarned

GiveInv == Give!TypeOK /\ QuotaInv /\ ThanksInv

LEMMA GiveStart == Give!Init => GiveInv
<1> SUFFICES ASSUME Give!Init PROVE GiveInv
  OBVIOUS
<1> USE DEF Give!Init
<1>1. Give!TypeOK
  <2>1. [state : {"none"}, route : Give!Routes] \subseteq [state : Give!Invoices, route : Give!Routes]
    BY DEF Give!Invoices
  <2> QED BY <2>1, GiveAssumption DEF Give!TypeOK, Give!Phases, Give!Routes, Give!None, Give!Mounted
<1>2. QuotaInv
  <2>1. ASSUME NEW r \in Give!Routes
        PROVE  /\ IsFiniteSet(hits[r]) /\ IsFiniteSet(granted[r])
               /\ \A g \in granted[r] : clock - g.at < Window => g \in hits[r]
               /\ \A h \in At(hits[r], clock) : h.nth <= Cardinality(At(hits[r], clock))
               /\ \A t \in Nat : Cardinality(Within(granted[r], t)) <= Quota
    <3>1. hits[r] = {} /\ granted[r] = {}
      OBVIOUS
    <3>2. At(hits[r], clock) = {} /\ \A t \in Nat : Within(granted[r], t) = {}
      BY <3>1 DEF At, Within
    <3>3. IsFiniteSet({}) /\ Cardinality({}) = 0 /\ Quota \in Nat
      BY FS_EmptySet, GiveAssumption
    <3> HIDE DEF Give!Init
    <3> QED BY <3>1, <3>2, <3>3
  <2> HIDE DEF Give!Init
  <2> QED BY <2>1 DEF QuotaInv
<1>3. ThanksInv
  BY DEF ThanksInv, Give!ThanksAreEarned, Give!Mounted, Give!Routes, Give!None
<1> QED BY <1>1, <1>2, <1>3 DEF GiveInv

(* A request has a number of its own: none that the limiter keeps or that  *)
(* was let through has it.                                                 *)
LEMMA HitIsNew ==
  ASSUME GiveInv, NEW r \in Give!Routes
  PROVE  Give!Hit(r) \in Give!Hits /\ Give!Hit(r) \notin hits[r] \cup granted[r]
<1> USE DEF GiveInv, Give!TypeOK
<1>1. IsFiniteSet(At(hits[r], clock)) /\ Cardinality(At(hits[r], clock)) \in Nat
  BY FS_Subset, FS_CardinalityType DEF QuotaInv, At
<1>2. Give!Hit(r) = [at |-> clock, nth |-> Cardinality(At(hits[r], clock)) + 1]
  <2>1. At(hits[r], clock) = {h \in hits[r] : h.at = clock}
    BY DEF At
  <2> QED BY <2>1, GiveCounts DEF Give!Hit
<1>3. Give!Hit(r) \in Give!Hits
  BY <1>1, <1>2, GiveAssumption DEF Give!Hits
<1>4. Give!Hit(r) \notin hits[r]
  <2>1. SUFFICES ASSUME Give!Hit(r) \in At(hits[r], clock) PROVE FALSE
    BY <1>2 DEF At
  <2>2. Give!Hit(r).nth <= Cardinality(At(hits[r], clock)) /\ Give!Hit(r).nth = Cardinality(At(hits[r], clock)) + 1
    BY <1>2, <2>1 DEF QuotaInv
  <2> QED BY <1>1, <2>2
<1>5. Give!Hit(r) \notin granted[r]
  BY <1>2, <1>4, GiveAssumption DEF QuotaInv
<1> QED BY <1>3, <1>4, <1>5
(* A request that is counted: what is let through within a window fits the *)
(* quota with it, for the limiter had all the others.                      *)
LEMMA CountKeeps ==
  ASSUME GiveInv, NEW r \in Give!Routes, Give!Count(r), clock' = clock
  PROVE  /\ hits' \in [Give!Routes -> SUBSET Give!Hits] /\ granted' \in [Give!Routes -> SUBSET Give!Hits]
         /\ \A x \in Give!Routes : \A h \in hits'[x] \cup granted'[x] : h.at <= clock'
         /\ QuotaInv'
<1> USE DEF GiveInv, Give!TypeOK
<1> DEFINE new  == Give!Hit(r)
           kept == Give!Recent(r)
           full == Give!rateLimited(r)
<1>1. new \in Give!Hits /\ new \notin hits[r] \cup granted[r] /\ new.at = clock
  BY HitIsNew DEF Give!Hit
<1>2. /\ clock \in Nat /\ Window \in Nat /\ Window # 0 /\ Quota \in Nat
      /\ kept \subseteq hits[r] /\ \A h \in kept : h \in Give!Hits
  BY GiveAssumption DEF Give!Recent
<1>3. /\ IsFiniteSet(kept) /\ Cardinality(kept) \in Nat
      /\ IsFiniteSet(kept \cup {new}) /\ Cardinality(kept \cup {new}) = Cardinality(kept) + 1
  <2>1. IsFiniteSet(hits[r])
    BY DEF QuotaInv
  <2>2. IsFiniteSet(kept)
    BY <1>2, <2>1, FS_Subset
  <2> HIDE DEF kept, new
  <2> QED BY <1>1, <1>2, <2>2, FS_AddElement, FS_CardinalityType
<1>4. full <=> Cardinality(kept) + 1 > Quota
  BY GiveCounts DEF Give!rateLimited
<1>5. /\ hits' = [hits EXCEPT ![r] = kept \cup {new}]
      /\ granted' = IF full THEN granted ELSE [granted EXCEPT ![r] = granted[r] \cup {new}]
  BY DEF Give!Count
<1>6. /\ new.nth = Cardinality(At(hits[r], clock)) + 1
      /\ At(kept, clock) = At(hits[r], clock)
      /\ \A g \in granted[r] : clock - g.at < Window => g \in kept
      /\ \A h \in kept : h.at <= clock
  <2>1. At(hits[r], clock) = {h \in hits[r] : h.at = clock}
    BY DEF At
  <2>2. new.nth = Cardinality(At(hits[r], clock)) + 1
    BY <2>1, GiveCounts DEF Give!Hit
  <2> QED BY <1>2, <2>2 DEF Give!Recent, At, QuotaInv
<1> HIDE DEF new, kept, full
<1>7. /\ hits' \in [Give!Routes -> SUBSET Give!Hits] /\ granted' \in [Give!Routes -> SUBSET Give!Hits]
      /\ \A x \in Give!Routes : \A h \in hits'[x] \cup granted'[x] : h.at <= clock'
  BY <1>1, <1>2, <1>5, <1>6
<1>8. ASSUME NEW x \in Give!Routes
      PROVE  /\ IsFiniteSet(hits'[x]) /\ IsFiniteSet(granted'[x])
             /\ \A g \in granted'[x] : clock' - g.at < Window => g \in hits'[x]
             /\ \A h \in At(hits'[x], clock') : h.nth <= Cardinality(At(hits'[x], clock'))
             /\ \A t \in Nat : Cardinality(Within(granted'[x], t)) <= Quota
  <2>1. CASE x # r
    <3>1. hits'[x] = hits[x] /\ granted'[x] = granted[x]
      BY <1>5, <2>1
    <3>2. At(hits'[x], clock') = At(hits[x], clock)
      BY <3>1 DEF At
    <3> QED BY <3>1, <3>2 DEF QuotaInv
  <2>2. CASE x = r
    <3>1. hits'[r] = kept \cup {new} /\ granted'[r] = IF full THEN granted[r] ELSE granted[r] \cup {new}
      BY <1>5
    <3>2. IsFiniteSet(granted[r]) /\ IsFiniteSet(granted'[r])
      <4>1. IsFiniteSet(granted[r])
        BY DEF QuotaInv
      <4>2. IsFiniteSet(granted[r] \cup {new})
        BY <4>1, FS_AddElement
      <4> QED BY <3>1, <4>1, <4>2
    <3>3. \A g \in granted'[r] : clock' - g.at < Window => g \in hits'[r]
      BY <1>6, <3>1
    <3>4. \A h \in At(hits'[r], clock') : h.nth <= Cardinality(At(hits'[r], clock'))
      <4>1. At(hits'[r], clock') = At(hits[r], clock) \cup {new}
        BY <1>1, <1>6, <3>1 DEF At
      <4>2. new \notin At(hits[r], clock) /\ IsFiniteSet(At(hits[r], clock))
        BY <1>1, FS_Subset DEF At, QuotaInv
      <4>3. /\ Cardinality(At(hits[r], clock)) \in Nat
            /\ Cardinality(At(hits'[r], clock')) = Cardinality(At(hits[r], clock)) + 1
        BY <4>1, <4>2, FS_AddElement, FS_CardinalityType
      <4>4. \A h \in At(hits[r], clock) : h.nth \in Nat /\ h.nth <= Cardinality(At(hits[r], clock))
        BY DEF QuotaInv, At, Give!Hits
      <4> QED BY <1>6, <4>1, <4>3, <4>4
    <3>5. ASSUME NEW t \in Nat PROVE Cardinality(Within(granted'[r], t)) <= Quota
      <4>1. CASE granted'[r] = granted[r]
        BY <4>1 DEF QuotaInv
      <4>2. CASE ~full /\ granted'[r] = granted[r] \cup {new} /\ clock \notin t..(t + Window - 1)
        <5>1. Within(granted'[r], t) = Within(granted[r], t)
          BY <1>1, <4>2 DEF Within
        <5> QED BY <5>1 DEF QuotaInv
      <4>3. CASE ~full /\ granted'[r] = granted[r] \cup {new} /\ clock \in t..(t + Window - 1)
        <5>1. Within(granted'[r], t) \subseteq kept \cup {new}
          <6>1. SUFFICES ASSUME NEW g \in granted[r], g.at \in t..(t + Window - 1) PROVE g \in kept
            BY <4>3 DEF Within
          <6>2. clock - g.at < Window
            BY <1>2, <4>3, <6>1
          <6> QED BY <1>6, <6>1, <6>2
        <5>2. /\ IsFiniteSet(Within(granted'[r], t)) /\ Cardinality(Within(granted'[r], t)) \in Nat
              /\ Cardinality(Within(granted'[r], t)) <= Cardinality(kept) + 1
          BY <1>3, <5>1, FS_Subset, FS_CardinalityType
        <5> QED BY <1>2, <1>3, <1>4, <4>3, <5>2
      <4> QED BY <3>1, <4>1, <4>2, <4>3
    <3> QED BY <1>3, <2>2, <3>1, <3>2, <3>3, <3>4, <3>5
  <2> QED BY <2>1, <2>2
<1> QED BY <1>7, <1>8 DEF QuotaInv, Within
(* Time goes on: the limiter still has what it needs, and what is granted  *)
(* was granted before.                                                     *)
LEMMA TickKeeps == ASSUME GiveInv, Give!Tick PROVE GiveInv'
<1> USE DEF GiveInv, Give!TypeOK
<1>1. /\ clock \in Nat /\ clock' = clock + 1 /\ clock' \in 0..MaxClock
      /\ UNCHANGED <<thanks, hits, granted, mode, stage, current, adrift, invoice, polls, receipts>>
  BY GiveAssumption DEF Give!Tick, Give!site, Give!page
<1>2. ASSUME NEW r \in Give!Routes
      PROVE  /\ IsFiniteSet(hits'[r]) /\ IsFiniteSet(granted'[r])
             /\ \A g \in granted'[r] : clock' - g.at < Window => g \in hits'[r]
             /\ \A h \in At(hits'[r], clock') : h.nth <= Cardinality(At(hits'[r], clock'))
             /\ \A t \in Nat : Cardinality(Within(granted'[r], t)) <= Quota
             /\ \A h \in hits'[r] \cup granted'[r] : h.at <= clock'
  <2>1. \A h \in hits[r] \cup granted[r] : h.at \in Nat /\ h.at <= clock
    BY DEF Give!Hits
  <2>2. At(hits'[r], clock') = {}
    BY <1>1, <2>1 DEF At
  <2>3. \A g \in granted[r] : clock' - g.at < Window => clock - g.at < Window
    BY <1>1, <2>1, GiveAssumption
  <2> QED BY <1>1, <2>1, <2>2, <2>3 DEF QuotaInv
<1> QED BY <1>1, <1>2 DEF QuotaInv, Within, ThanksInv, Give!ThanksAreEarned

(* What a step beside the limiter has to keep.                             *)
LEMMA LimiterAside ==
  ASSUME GiveInv, UNCHANGED <<clock, hits, granted>>,
         /\ mode' \in Give!Routes \cup {"choose"} /\ stage' \in Give!Phases
         /\ current' \in Ids \cup {"none"} /\ receipts' \subseteq Ids
         /\ thanks' \in BOOLEAN /\ adrift' \subseteq Give!Routes
         /\ invoice' \in [Ids -> [state : Give!Invoices, route : Give!Routes]]
         /\ polls' \subseteq [id : Ids, status : Give!Invoices],
         ThanksInv'
  PROVE  GiveInv'
BY DEF GiveInv, Give!TypeOK, QuotaInv, Within, Give!None

(* The page, and the answers it gets.                                      *)
LEMMA FormSteps ==
  ASSUME GiveInv,
         \/ \E m \in Give!Routes \cup {"choose"} : Give!Choose(m)
         \/ Give!Submit \/ Give!reset \/ Give!Poll \/ Give!ZapPaid
         \/ \E p \in polls : Give!PollAnswer(p)
         \/ \E id \in Ids : Give!Receipt(id)
  PROVE  GiveInv'
<1> USE DEF GiveInv, Give!TypeOK, ThanksInv, Give!ThanksAreEarned, Give!site, Give!page
<1>1. CASE Give!Submit \/ Give!reset \/ Give!ZapPaid
  BY <1>1, LimiterAside, GiveAssumption
  DEF Give!Submit, Give!reset, Give!ZapPaid, Give!Phases, Give!None
<1>5. ASSUME NEW m \in Give!Routes \cup {"choose"}, Give!Choose(m) PROVE GiveInv'
  <2>1. /\ mode' = m /\ stage' = Give!Mounted(m) /\ current' = "none"
        /\ UNCHANGED <<clock, thanks, hits, granted, invoice, polls, receipts>>
        /\ adrift' = IF stage = "CREATING" THEN adrift \cup {mode} ELSE adrift
    BY <1>5 DEF Give!Choose, Give!None
  <2>2. stage' \in Give!Phases /\ (stage' # "FORM" => m = "donate" /\ thanks /\ stage' = "SETTLED")
    BY <2>1 DEF Give!Mounted, Give!Phases
  <2>3. ThanksInv'
    BY <2>1, <2>2 DEF Give!Routes, Give!None
  <2>4. adrift' \subseteq Give!Routes
    BY <2>1
  <2> QED BY <2>1, <2>2, <2>3, <2>4, LimiterAside
<1>2. CASE Give!Poll
  <2>1. current \in Ids
    BY <1>2 DEF Give!Poll
  <2>2. [id |-> current, status |-> invoice[current].state] \in [id : Ids, status : Give!Invoices]
    BY <2>1
  <2> QED BY <1>2, <2>1, <2>2, LimiterAside DEF Give!Poll, Give!None
<1>3. ASSUME NEW p \in polls, Give!PollAnswer(p) PROVE GiveInv'
  <2>1. /\ polls' = polls \ {p} /\ UNCHANGED <<clock, thanks, hits, granted, mode, current, adrift, invoice, receipts>>
        /\ \/ stage' = stage
           \/ mode = "donate" /\ stage = "CHECKOUT" /\ p.id = current /\ stage' = Give!StatusOf(p)
    BY <1>3 DEF Give!PollAnswer, Give!ForThis
  <2>2. p.id \in Ids /\ (p.status = "Settled" => invoice[p.id].state = "Settled")
    OBVIOUS
  <2>3. /\ Give!StatusOf(p) \in {"SETTLED", "EXPIRED", "CHECKOUT"}
        /\ Give!StatusOf(p) = "SETTLED" => p.status = "Settled"
    BY DEF Give!StatusOf
  <2>4. ThanksInv'
    <3>1. CASE stage' = stage
      BY <2>1, <3>1
    <3>2. CASE mode = "donate" /\ stage = "CHECKOUT" /\ p.id = current /\ stage' = Give!StatusOf(p)
      <4>1. current' \in Ids /\ mode' \in Give!Routes
        BY <2>1, <2>2, <3>2
      <4>2. stage' = "SETTLED" => invoice'[current'].state = "Settled"
        BY <2>1, <2>2, <2>3, <3>2
      <4>3. \A q \in polls' : q.status = "Settled" => invoice'[q.id].state = "Settled"
        BY <2>1
      <4>4. current' # "none"
        BY <4>1, GiveAssumption
      <4> QED BY <4>1, <4>2, <4>3, <4>4 DEF Give!None
    <3> QED BY <2>1, <3>1, <3>2
  <2>5. stage' \in Give!Phases /\ polls' \subseteq [id : Ids, status : Give!Invoices]
    BY <2>1, <2>3 DEF Give!Phases
  <2>6. /\ mode' \in Give!Routes \cup {"choose"} /\ current' \in Ids \cup {"none"}
        /\ receipts' \subseteq Ids /\ thanks' \in BOOLEAN /\ adrift' \subseteq Give!Routes
        /\ invoice' \in [Ids -> [state : Give!Invoices, route : Give!Routes]]
    BY <2>1 DEF Give!None
  <2>7. UNCHANGED <<clock, hits, granted>>
    BY <2>1
  <2>8. GiveInv
    OBVIOUS
  <2> HIDE DEF ThanksInv, GiveInv, Give!TypeOK
  <2> QED BY <2>4, <2>5, <2>6, <2>7, <2>8, LimiterAside
<1>4. ASSUME NEW id \in Ids, Give!Receipt(id) PROVE GiveInv'
  BY <1>4, LimiterAside DEF Give!Receipt, Give!None
<1> QED BY <1>1, <1>2, <1>3, <1>4, <1>5

(* A payment moves on, and a settled one never does.                       *)
LEMMA SettleKeeps ==
  ASSUME GiveInv, NEW id \in Ids, NEW from \in Give!Invoices, NEW to \in Give!Invoices,
         Give!Settle(id, from, to)
  PROVE  GiveInv'
<1> USE DEF GiveInv, Give!TypeOK, ThanksInv, Give!ThanksAreEarned, Give!site, Give!page
<1>1. invoice[id].state = from /\ from # "Settled" /\ invoice' = [invoice EXCEPT ![id].state = to]
  BY DEF Give!Settle
<1>2. /\ invoice' \in [Ids -> [state : Give!Invoices, route : Give!Routes]]
      /\ \A x \in Ids : invoice[x].state = "Settled" => invoice'[x].state = "Settled"
  <2>1. [invoice[id] EXCEPT !.state = to] \in [state : Give!Invoices, route : Give!Routes]
    OBVIOUS
  <2> QED BY <1>1, <2>1
<1>3. UNCHANGED <<clock, thanks, hits, granted, mode, stage, current, adrift, polls, receipts>>
  BY DEF Give!Settle
<1>4. ThanksInv'
  <2>1. stage = "SETTLED" /\ current # Give!None => current \in Ids
    OBVIOUS
  <2>2. \A p \in polls : p.id \in Ids
    OBVIOUS
  <2> QED BY <1>2, <1>3, <2>1, <2>2
<1> QED BY <1>2, <1>3, <1>4, LimiterAside DEF Give!None

(* A request that makes an invoice or none.                                *)
LEMMA MakeKeeps ==
  ASSUME GiveInv, NEW r \in Give!Routes, UNCHANGED invoice \/ \E id \in Ids : Give!Make(r, id)
  PROVE  /\ invoice' \in [Ids -> [state : Give!Invoices, route : Give!Routes]]
         /\ \A x \in Ids : invoice[x].state = "Settled" => invoice'[x].state = "Settled"
<1> USE DEF GiveInv, Give!TypeOK
<1>1. ASSUME NEW id \in Ids, invoice[id].state = "none", invoice' = [invoice EXCEPT ![id].state = "New"]
      PROVE  /\ invoice' \in [Ids -> [state : Give!Invoices, route : Give!Routes]]
             /\ \A x \in Ids : invoice[x].state = "Settled" => invoice'[x].state = "Settled"
  <2>1. [invoice[id] EXCEPT !.state = "New"] \in [state : Give!Invoices, route : Give!Routes]
    BY DEF Give!Invoices
  <2> QED BY <1>1, <2>1
<1> QED BY <1>1 DEF Give!Make

LEMMA PostKeeps == ASSUME GiveInv, Give!Post PROVE GiveInv'
<1> USE DEF GiveInv, Give!TypeOK, ThanksInv, Give!ThanksAreEarned
<1>1. /\ mode \in Give!Routes /\ Give!Count(mode)
      /\ UNCHANGED <<clock, thanks, mode, adrift, polls, receipts>>
  BY DEF Give!Post
<1>2. /\ hits' \in [Give!Routes -> SUBSET Give!Hits] /\ granted' \in [Give!Routes -> SUBSET Give!Hits]
      /\ \A x \in Give!Routes : \A h \in hits'[x] \cup granted'[x] : h.at <= clock'
      /\ QuotaInv'
  BY <1>1, CountKeeps
<1>3. /\ invoice' \in [Ids -> [state : Give!Invoices, route : Give!Routes]]
      /\ \A x \in Ids : invoice[x].state = "Settled" => invoice'[x].state = "Settled"
  <2>1. UNCHANGED invoice \/ \E id \in Ids : Give!Make(mode, id)
    BY DEF Give!Post
  <2> QED BY <1>1, <2>1, MakeKeeps
<1>4. /\ stage' \in {"ERROR", "CHECKOUT"} /\ (stage' = "CHECKOUT" => current' \in Ids)
      /\ current' \in Ids \cup {"none"}
  BY DEF Give!Post, Give!None
<1>5. ThanksInv'
  BY <1>1, <1>3, <1>4
<1> QED BY <1>1, <1>2, <1>3, <1>4, <1>5 DEF Give!Phases, Give!None

LEMMA PostAdriftKeeps == ASSUME GiveInv, NEW r \in Give!Routes, Give!PostAdrift(r) PROVE GiveInv'
<1> USE DEF GiveInv, Give!TypeOK
<1>1. /\ Give!Count(r) /\ adrift' = adrift \ {r}
      /\ UNCHANGED invoice \/ \E id \in Ids : Give!Make(r, id)
      /\ UNCHANGED <<clock, thanks, mode, stage, current, polls, receipts>>
  BY DEF Give!PostAdrift
<1>2. /\ hits' \in [Give!Routes -> SUBSET Give!Hits] /\ granted' \in [Give!Routes -> SUBSET Give!Hits]
      /\ \A x \in Give!Routes : \A h \in hits'[x] \cup granted'[x] : h.at <= clock'
      /\ QuotaInv'
  BY <1>1, CountKeeps
<1>3. /\ invoice' \in [Ids -> [state : Give!Invoices, route : Give!Routes]]
      /\ \A x \in Ids : invoice[x].state = "Settled" => invoice'[x].state = "Settled"
  BY <1>1, MakeKeeps
<1>4. ThanksInv'
  <2>1. current # Give!None => current \in Ids
    OBVIOUS
  <2>2. \A p \in polls : p.id \in Ids
    OBVIOUS
  <2> QED BY <1>1, <1>3, <2>1, <2>2 DEF ThanksInv, Give!ThanksAreEarned
<1> QED BY <1>1, <1>2, <1>3, <1>4

LEMMA GiveStepInv == ASSUME GiveInv, [Give!Next]_giveVars PROVE GiveInv'
<1>1. CASE UNCHANGED giveVars
  BY <1>1 DEF giveVars, GiveInv, Give!TypeOK, QuotaInv, ThanksInv, Give!ThanksAreEarned, Within, At
<1> QED BY <1>1, TickKeeps, FormSteps, SettleKeeps, PostKeeps, PostAdriftKeeps DEF Give!Next

(* The thanks are for the invoice on the screen, which is settled or has a *)
(* zap receipt, though answers about others are late, or for no invoice on *)
(* the donation form of a page opened with thanks=1; and in no window of   *)
(* time are more requests of an address let through than the quota, those  *)
(* that outlive their forms included.  For any invoices, window and quota  *)
(* (SupportOptions.tsx, SupportForm.tsx, ZapForm.tsx, donate/route.ts,     *)
(* zap/route.ts).                                                          *)
THEOREM SupportStaysSound == Spec => []SupportIsSound
<1>1. Init => GiveInv
  BY GiveStart DEF Init
<1>2. GiveInv /\ [Next]_vars => GiveInv'
  BY PartSteps, GiveStepInv
<1>3. GiveInv => SupportIsSound
  <2> SUFFICES ASSUME GiveInv PROVE SupportIsSound
    OBVIOUS
  <2>1. clock \in Nat
    BY DEF GiveInv, Give!TypeOK
  <2>2. ASSUME NEW r \in Give!Routes, NEW t \in 0..clock
        PROVE  Give!Cardinality({g \in granted[r] : g.at \in t..(t + Window - 1)}) <= Quota
    <3>1. Within(granted[r], t) = {g \in granted[r] : g.at \in t..(t + Window - 1)} /\ t \in Nat
      BY <2>1 DEF Within
    <3> QED BY <3>1, GiveCounts DEF GiveInv, QuotaInv
  <2> QED BY <2>2 DEF SupportIsSound, Give!SupportIsSound, Give!QuotaHolds, GiveInv, ThanksInv
<1> QED BY <1>1, <1>2, <1>3, PTL DEF Spec

-----------------------------------------------------------------------------
(* The composition                                                         *)

(* A coinbase pays the whole reward under every rounding, a member by the  *)
(* weight of her shares, and the dust bucket holds what the members below  *)
(* the threshold are promised (packages/coinbase, hashden.service.ts,      *)
(* MiningJob.ts).                                                          *)
THEOREM SplitStaysExact == Spec => []SplitIsExact
<1>1. Init => SplitInv
  BY SplitStart DEF Init
<1>2. SplitInv /\ [Next]_vars => SplitInv'
  BY PartSteps, SplitStepInv
<1>3. SplitInv => SplitIsExact
  BY SplitIsSound
<1> QED BY <1>1, <1>2, <1>3, PTL DEF Spec

(* Every part's state has its type.                                        *)
THEOREM WebTypeCorrect == Spec => []TypeOK
<1> DEFINE Inv == ApiInv /\ MemberInv /\ OperatorInv /\ SplitInv /\ GiveInv
<1>1. Init => Inv
  BY ApiStart, MemberStart, OperatorStart, SplitStart, GiveStart DEF Init
<1>2. Inv /\ [Next]_vars => Inv'
  <2> SUFFICES ASSUME Inv, [Next]_vars PROVE Inv'
    OBVIOUS
  <2>1. ApiInv'
    BY PartSteps, ApiStepInv
  <2>2. MemberInv'
    BY PartSteps, MemberStepInv
  <2>3. OperatorInv'
    BY PartSteps, OperatorStepInv
  <2>4. SplitInv'
    BY PartSteps, SplitStepInv
  <2>5. GiveInv'
    BY PartSteps, GiveStepInv
  <2> QED BY <2>1, <2>2, <2>3, <2>4, <2>5
<1>3. Inv => TypeOK
  BY DEF ApiInv, MemberInv, OperatorInv, SplitInv, GiveInv, TypeOK
<1> HIDE DEF Inv
<1> QED BY <1>1, <1>2, <1>3, PTL DEF Spec
=============================================================================
