---------------------------- MODULE DenRegistry ----------------------------
(***************************************************************************)
(* The den API for one slug: requests that create, change and delete the   *)
(* den, join it and set a preference (groups.controller.ts,                *)
(* members.controller.ts), the routing of a miner's worker name            *)
(* (group-router.ts) and the recording of shares (hashden.service.ts).     *)
(*                                                                         *)
(* Every await of a handler is a step.  Whoever holds a signed event may   *)
(* send it, as often as they like, while it is fresh.  Time is counted in  *)
(* units of the window; a request is shorter than that.                    *)
(***************************************************************************)
EXTENDS DenRows, FiniteSets

CONSTANTS
  Keys,        \* public keys
  Miners,      \* the keys that mine
  CreateEvents, JoinEvents,  \* signed events, of the sets Bodies and Wanted
  Window,      \* 5 minutes
  MaxNow,      \* bound: time
  MaxRequests  \* bound: requests at a time

VARIABLES
  now,      \* the server's clock
  den,      \* the den's row
  member,   \* of a key: its member row
  requests, \* requests that wait
  routed,   \* keys whose connection was routed to the den
  mined,    \* keys with a recorded share
  newest    \* history: of a key, the newest event of its that set an address

rows == <<den, member>>
vars == <<now, rows, requests, routed, mined, newest>>

Times  == -Window..MaxNow + Window
Wanted == [key : Keys, at : Times, wish : Wishes]

Creates   == [kind : {"create"}, body : CreateEvents, step : {"read", "insert", "update", "auto"}]
Deletes   == [kind : {"delete"}, key : Keys, step : {"read", "write"}]
Joins     == [kind : {"join"}, event : JoinEvents, step : {"read", "write"}]
Prefs     == [kind : {"prefs"}, key : Miners, wish : {"yes", "no"}, step : {"read", "member", "write"}]
Routes    == [kind : {"route"}, key : Miners, step : {"read", "member"}]

TypeOK ==
  /\ now \in 0..MaxNow
  /\ den \subseteq DenRow(Keys) /\ AtMostOne(den)
  /\ member \in [Keys -> SUBSET MemberRow(Times)] /\ \A k \in Keys : AtMostOne(member[k])
  /\ requests \subseteq Creates \cup Deletes \cup Joins \cup Prefs \cup Routes
  /\ routed \subseteq Miners /\ mined \subseteq Miners
  /\ newest \in [Keys -> Times]

Init ==
  /\ now = 0 /\ den = {} /\ member = [k \in Keys |-> {}]
  /\ requests = {} /\ routed = {} /\ mined = {}
  /\ newest = [k \in Keys |-> -Window]
-----------------------------------------------------------------------------
Tick ==
  /\ now < MaxNow /\ requests = {}
  /\ now' = now + 1
  /\ UNCHANGED <<rows, requests, routed, mined, newest>>

Fresh(at) == now - at <= Window /\ at - now <= Window

(* A request arrives; its signature and form are in order.                 *)
Arrive(r) ==
  /\ Cardinality(requests) < MaxRequests
  /\ requests' = requests \cup {r}
  /\ UNCHANGED <<now, rows, routed, mined, newest>>

SendCreate(body) ==
  Fresh(body.at) /\ Consistent(body) /\ Arrive([kind |-> "create", body |-> body, step |-> "read"])
SendDelete(k, at) ==
  Fresh(at) /\ Arrive([kind |-> "delete", key |-> k, step |-> "read"])
SendJoin(event) ==
  Fresh(event.at) /\ Arrive([kind |-> "join", event |-> event, step |-> "read"])
SendPrefs(k, at, wish) ==
  Fresh(at) /\ Arrive([kind |-> "prefs", key |-> k, wish |-> wish, step |-> "read"])
Authorize(k) == Arrive([kind |-> "route", key |-> k, step |-> "read"])

(* A handler goes on, or ends with an answer or an error.                  *)
GoOn(r, step) == requests' = (requests \ {r}) \cup {[r EXCEPT !.step = step]}
End(r)        == requests' = requests \ {r}
Still         == UNCHANGED <<now, rows, routed, mined, newest>>

(* An error of the database at any await.                                  *)
Fail(r) == End(r) /\ Still
-----------------------------------------------------------------------------
(* create.                                                                 *)

CreateRead(r) ==
  /\ r.kind = "create" /\ r.step = "read"
  /\ IF den = {} THEN GoOn(r, "insert")
     ELSE IF \E d \in den : d.op = r.body.key /\ d.vis # "DELETED" THEN GoOn(r, "update")
     ELSE End(r)
  /\ Still

(* Mutant: no key stops a second den of that slug.                         *)
InsertBeside(r) ==
  /\ den' = den \cup {CreatedRow(r.body)}
  /\ IF r.body.mine THEN GoOn(r, "auto") ELSE End(r)

(* Mutant: the insert overwrites a row that came meanwhile.                *)
InsertOver(r) ==
  /\ den' = {CreatedRow(r.body)}
  /\ IF r.body.mine THEN GoOn(r, "auto") ELSE End(r)

(* The slug is unique.                                                     *)
Insert(r) ==
  IF den # {} THEN End(r) /\ UNCHANGED den
  ELSE /\ den' = {CreatedRow(r.body)}
       /\ IF r.body.mine THEN GoOn(r, "auto") ELSE End(r)

CreateInsert(r) ==
  /\ r.kind = "create" /\ r.step = "insert"
  /\ Insert(r)
  /\ UNCHANGED <<now, member, routed, mined, newest>>

(* The update names the slug only: what was read is not compared again.    *)
CreateUpdate(r) ==
  /\ r.kind = "create" /\ r.step = "update"
  /\ den' = {UpdatedRow(d, r.body) : d \in den}
  /\ End(r)
  /\ UNCHANGED <<now, member, routed, mined, newest>>

Newer(k, at) == newest' = [newest EXCEPT ![k] = IF at > @ THEN at ELSE @]

(* The operator's own member row; there may be one by now.                 *)
CreateAuto(r) ==
  /\ r.kind = "create" /\ r.step = "auto"
  /\ IF member[r.body.key] # {} THEN UNCHANGED <<member, newest>>
     ELSE /\ member' = [member EXCEPT ![r.body.key] = {[at |-> r.body.at, show |-> FALSE]}]
          /\ Newer(r.body.key, r.body.at)
  /\ End(r)
  /\ UNCHANGED <<now, den, routed, mined>>

(* delete.                                                                 *)

DeleteRead(r) ==
  /\ r.kind = "delete" /\ r.step = "read"
  /\ IF \E d \in den : d.op = r.key /\ d.vis # "DELETED" THEN GoOn(r, "write") ELSE End(r)
  /\ Still

DeleteWrite(r) ==
  /\ r.kind = "delete" /\ r.step = "write"
  /\ den' = {[d EXCEPT !.vis = "DELETED"] : d \in den}
  /\ End(r)
  /\ UNCHANGED <<now, member, routed, mined, newest>>
-----------------------------------------------------------------------------
(* join, setPreferences and the router, which all look the den up first.   *)

DenRead(r) ==
  /\ r.kind \in {"join", "prefs", "route"} /\ r.step = "read"
  /\ IF Open(den) THEN GoOn(r, IF r.kind = "join" THEN "write" ELSE "member") ELSE End(r)
  /\ Still

Join(r) ==
  /\ r.kind = "join" /\ r.step = "write"
  /\ member' = [member EXCEPT ![r.event.key] = {JoinedRow(@, r.event.at, r.event.wish)}]
  /\ Newer(r.event.key, r.event.at)
  /\ End(r)
  /\ UNCHANGED <<now, den, routed, mined>>

PrefsMember(r) ==
  /\ r.kind = "prefs" /\ r.step = "member"
  /\ IF member[r.key] # {} THEN GoOn(r, "write") ELSE End(r)
  /\ Still

PrefsWrite(r) ==
  /\ r.kind = "prefs" /\ r.step = "write"
  /\ member' = [member EXCEPT ![r.key] = {[m EXCEPT !.show = r.wish = "yes"] : m \in @}]
  /\ End(r)
  /\ UNCHANGED <<now, den, routed, mined, newest>>

IsMember(k) == member[k] # {}

RouteMember(r) ==
  /\ r.kind = "route" /\ r.step = "member"
  /\ routed' = IF IsMember(r.key) THEN routed \cup {r.key} ELSE routed
  /\ End(r)
  /\ UNCHANGED <<now, rows, mined, newest>>

(* recordShare: the den is not looked at again.                            *)
recordShare(k) ==
  /\ k \in routed
  /\ mined' = mined \cup {k}
  /\ UNCHANGED <<now, rows, requests, routed, newest>>

Disconnect(k) ==
  /\ k \in routed
  /\ routed' = routed \ {k}
  /\ UNCHANGED <<now, rows, requests, mined, newest>>

Send ==
  \/ \E body \in CreateEvents : SendCreate(body)
  \/ \E k \in Keys, at \in Times : SendDelete(k, at)
  \/ \E event \in JoinEvents : SendJoin(event)
  \/ \E k \in Miners, at \in Times, w \in {"yes", "no"} : SendPrefs(k, at, w)
  \/ \E k \in Miners : Authorize(k)

Handle(r) ==
  \/ CreateRead(r) \/ CreateInsert(r) \/ CreateUpdate(r) \/ CreateAuto(r)
  \/ DeleteRead(r) \/ DeleteWrite(r)
  \/ DenRead(r) \/ Join(r) \/ PrefsMember(r) \/ PrefsWrite(r) \/ RouteMember(r)
  \/ Fail(r)

Next ==
  \/ Tick \/ Send
  \/ \E r \in requests : Handle(r)
  \/ \E k \in Miners : recordShare(k) \/ Disconnect(k)

Spec == Init /\ [][Next]_vars
-----------------------------------------------------------------------------
(* Replayed events roll a payout address back by two windows at most: the  *)
(* address in use was signed no longer than that before the newest one the *)
(* member ever registered ("without a freshness window an attacker could   *)
(* replay a member's OLD join event", members.controller.ts:86).           *)
RollbackIsShort ==
  \A k \in Keys : \A m \in member[k] : m.at >= newest[k] - 2 * Window

(* A den stays with the operator who created it, whatever others send for  *)
(* its slug at the same time; shares are its members' only; and a member's *)
(* own newer registration is not rolled back far.                          *)
RowsStayTheirOwners ==
  [][/\ \A d \in den, e \in den' : d.op = e.op
     /\ \A k \in mined' : member'[k] # {}
     /\ RollbackIsShort']_vars

(* "Deleted dens are tombstones" (groups.controller.ts:440).               *)
TombstoneStays == [][Deleted(den) => Deleted(den')]_vars
=============================================================================
