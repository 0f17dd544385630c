---------------------------- MODULE ZapPublisher ---------------------------
(***************************************************************************)
(* The publication of one receipt: built and signed (zap-publisher.ts,     *)
(* zap-receipt.ts), sent to every relay at once with a time limit for each *)
(* step (publishToRelays).  The relays are external; the contents of the   *)
(* event are left out.                                                     *)
(***************************************************************************)
CONSTANTS Relays

VARIABLES
  result,    \* "none" yet, "waiting", "ok" or "failed"
  relay,     \* publishToOne for each relay
  accepted   \* relays that hold the event

vars == <<result, relay, accepted>>

TypeOK ==
  /\ result \in {"none", "waiting", "ok", "failed"}
  /\ relay \in [Relays -> {"idle", "connecting", "publishing", "ok", "failed", "doubtful"}]
  /\ accepted \subseteq Relays

Init == result = "none" /\ relay = [r \in Relays |-> "idle"] /\ accepted = {}

(* publishZap: an event that cannot be built or signed is not sent.        *)
PublishZap ==
  /\ result = "none"
  /\ \/ result' = "failed" /\ UNCHANGED relay
     \/ result' = "waiting" /\ relay' = [r \in Relays |-> "connecting"]
  /\ UNCHANGED accepted

Goto(r, from, to) == relay[r] = from /\ relay' = [relay EXCEPT ![r] = to]

Connected(r) == Goto(r, "connecting", "publishing") /\ UNCHANGED <<result, accepted>>

(* The relay takes the event, in time or late.                             *)
Accepts(r) ==
  /\ relay[r] \in {"publishing", "doubtful"} /\ r \notin accepted
  /\ accepted' = accepted \cup {r}
  /\ UNCHANGED <<result, relay>>

Confirmed(r) ==
  /\ r \in accepted /\ Goto(r, "publishing", "ok")
  /\ UNCHANGED <<result, accepted>>

(* No connection, or the relay refuses the event.                          *)
RelayFails(r) ==
  /\ \/ Goto(r, "connecting", "failed")
     \/ r \notin accepted /\ Goto(r, "publishing", "failed")
  /\ UNCHANGED <<result, accepted>>

(* raceTimeout, or the connection ends: the relay may have the event.      *)
GivesUp(r) == Goto(r, "publishing", "doubtful") /\ UNCHANGED <<result, accepted>>

Published == \E r \in Relays : relay[r] = "ok"

(* signAndPublish waits for every relay; one acceptance is enough.         *)
AllTried ==
  /\ result = "waiting" /\ \A r \in Relays : relay[r] \in {"ok", "failed", "doubtful"}
  /\ result' = IF Published THEN "ok" ELSE "failed"
  /\ UNCHANGED <<relay, accepted>>

Next ==
  \/ PublishZap \/ AllTried
  \/ \E r \in Relays : Connected(r) \/ Accepts(r) \/ Confirmed(r) \/ RelayFails(r) \/ GivesUp(r)

Spec == Init /\ [][Next]_vars
-----------------------------------------------------------------------------
(* A publication that succeeded is at some relay.                          *)
PublishedIsTrue == result = "ok" => accepted # {}

(* Refuted.  An event reported as rejected is at no relay ("all relays     *)
(* rejected", zap-publisher.ts:114): one that timed out may hold it.       *)
RejectedIsAbsent == result = "failed" => accepted = {}
=============================================================================
