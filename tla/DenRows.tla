------------------------------ MODULE DenRows ------------------------------
(***************************************************************************)
(* What the den API writes into the rows of a den and of a member          *)
(* (groups.controller.ts, members.controller.ts).  A row is {} while it    *)
(* does not exist, else a set of one record.                               *)
(*                                                                         *)
(* Of a den's credentials the ones of the node are kept, as set or not     *)
(* set; those of the Lightning wallet and the dust threshold are treated   *)
(* alike.  An address is named by the time of the event that set it.       *)
(***************************************************************************)
EXTENDS Integers

Visibilities == {"PUBLIC", "UNLISTED"}
DenRow(keys) ==
  [op : keys, vis : Visibilities \cup {"DELETED"}, source : {"platform", "operator"}, url : BOOLEAN, rpc : BOOLEAN]
Bodies(keys, times) ==
  [key : keys, at : times, vis : Visibilities, source : {"platform", "operator"},
   url : BOOLEAN, auth : BOOLEAN, mine : BOOLEAN]

(* The consistency check of a create or an update: url and auth are        *)
(* required whatever the row already holds.                                *)
Consistent(body) == body.source = "operator" => body.url /\ body.auth

CreatedRow(body) ==
  [op |-> body.key, vis |-> body.vis, source |-> body.source, url |-> body.url, rpc |-> body.auth]

(* Mutant: an update without credentials removes the ones there are.       *)
UpdatedBare(row, body) ==
  [row EXCEPT !.vis = body.vis, !.source = body.source, !.url = body.url, !.rpc = body.auth]

(* An update without credentials keeps the ones there are.                 *)
UpdatedRow(row, body) ==
  [row EXCEPT !.vis = body.vis, !.source = body.source, !.url = body.url, !.rpc = @ \/ body.auth]

AtMostOne(S) == \A x, y \in S : x = y

Deleted(den) == \E d \in den : d.vis = "DELETED"
Open(den)    == \E d \in den : d.vis # "DELETED"

(* What list, show and listForPubkey answer.                               *)
Listed(den)        == {d \in den : d.vis = "PUBLIC"}
Shown(den)         == {d \in den : d.vis # "DELETED"}
MineOf(den, member, key) ==
  {[operator |-> d.op = key, shows |-> {m.show : m \in member[key]}] :
     d \in {x \in Shown(den) : x.op = key \/ member[key] # {}}}

MemberRow(times) == [at : times, show : BOOLEAN]
Wishes == {"yes", "no", "unset"}

(* The upsert of a join: an event that says nothing keeps what is shown.   *)
JoinedRow(member, at, wish) ==
  [at |-> at, show |-> IF wish = "unset" THEN \E m \in member : m.show ELSE wish = "yes"]
=============================================================================
