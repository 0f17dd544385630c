---------------------------- MODULE WalletClient ---------------------------
(***************************************************************************)
(* payLightningAddress of the two wallet clients: LnbitsClient speaks HTTP *)
(* (lnbits-client.ts), NwcClient resolves the address (lnurl-pay.ts) and   *)
(* asks through a Nostr relay (nwc-client.ts).  All calls use the wallet   *)
(* of one den.  PayoutWorker has the same calls as one step with three     *)
(* outcomes: paid, refused, given up.                                      *)
(*                                                                         *)
(* Addresses, amounts and invoices are left out, but for what decides      *)
(* whether a call goes on.  Wallet, relay and LNURL hosts are external.    *)
(***************************************************************************)
CONSTANTS Calls

VARIABLES
  kind,     \* operatorLnType: "lnbits" or "nwc"
  at,       \* what a call does or waits for, or its outcome
  headers,  \* calls whose HTTP response has begun
  promise,  \* responsePromise of a call, by what it settled to
  timer,    \* calls whose request timer runs
  died,     \* a rejection was left without a handler: the process exits
  wallet,   \* the wallet's side of a call: "none", "open", "paid", "refused"
  events    \* answers of the wallet at the relay

client == <<kind, at, headers, promise, timer, died>>
nostr  == <<promise, timer, died>>
vars   == <<client, wallet, events>>

Http     == {"meta", "callback", "post"}
Outcomes == {"paid", "failed"}
Steps    == {"idle", "connect", "publish", "answer"} \cup Http \cup Outcomes

(* An answer: a payment hash, a payment without one, an error, or          *)
(* something that does not decrypt or parse.                               *)
Events   == [of : Calls, says : {"hash", "nohash", "error", "garbled"}]
Promises == {"none", "pending", "hash", "nohash", "error", "rejected"}

TypeOK ==
  /\ kind \in {"lnbits", "nwc"} /\ at \in [Calls -> Steps]
  /\ headers \subseteq Calls /\ timer \subseteq Calls /\ died \in BOOLEAN
  /\ promise \in [Calls -> Promises]
  /\ wallet \in [Calls -> {"none", "open", "paid", "refused"}]
  /\ events \subseteq Events

Init ==
  /\ kind \in {"lnbits", "nwc"} /\ at = [c \in Calls |-> "idle"]
  /\ headers = {} /\ timer = {} /\ died = FALSE
  /\ promise = [c \in Calls |-> "none"]
  /\ wallet = [c \in Calls |-> "none"] /\ events = {}

Goto(c, from, to) == ~died /\ at[c] = from /\ at' = [at EXCEPT ![c] = to]
-----------------------------------------------------------------------------
(* The invoice: two GETs, the metadata and the callback.                   *)

(* A malformed address or amount is refused at once.                       *)
Start(c) ==
  /\ Goto(c, "idle", "meta") \/ Goto(c, "idle", "failed")
  /\ UNCHANGED <<kind, headers, nostr, wallet, events>>

(* A 2xx status arrives; LNbits answers a payment it made.                 *)
Headers(c) ==
  /\ ~died /\ at[c] \in Http /\ c \notin headers
  /\ at[c] = "post" => wallet[c] = "paid"
  /\ headers' = headers \cup {c}
  /\ UNCHANGED <<kind, at, nostr, wallet, events>>

(* An error status, a network error, a body that breaks off or is not      *)
(* what it should be.  LNbits may have paid all the same.                  *)
HttpFails(c) ==
  /\ at[c] \in Http /\ Goto(c, at[c], "failed")
  /\ headers' = headers \ {c}
  /\ UNCHANGED <<kind, nostr, wallet, events>>

(* fetchWithTimeout stops its timer when the headers are there, getJson of *)
(* lnurl-pay.ts when the body is.                                          *)
Abort(c) ==
  /\ at[c] \in Http /\ Goto(c, at[c], "failed")
  /\ kind = "lnbits" => c \notin headers
  /\ headers' = headers \ {c}
  /\ UNCHANGED <<kind, nostr, wallet, events>>

(* Only resolveLnurlPay insists on a range in the metadata.                *)
Accepts(range) == range = "fits" \/ (kind = "lnbits" /\ range = "missing")

Metadata(c) ==
  /\ c \in headers
  /\ \E range \in {"fits", "outside", "missing"} :
       Goto(c, "meta", IF Accepts(range) THEN "callback" ELSE "failed")
  /\ headers' = headers \ {c}
  /\ UNCHANGED <<kind, nostr, wallet, events>>

(* The invoice is there; LNbits is asked to pay it.                        *)
Invoice(c) ==
  /\ c \in headers
  /\ headers' = headers \ {c}
  /\ IF kind = "lnbits"
       THEN Goto(c, "callback", "post") /\ wallet' = [wallet EXCEPT ![c] = "open"]
       ELSE Goto(c, "callback", "connect") /\ UNCHANGED wallet
  /\ UNCHANGED <<kind, nostr, events>>

Posted(c) ==
  /\ c \in headers /\ Goto(c, "post", "paid")
  /\ headers' = headers \ {c}
  /\ UNCHANGED <<kind, nostr, wallet, events>>
-----------------------------------------------------------------------------
(* sendRequest: a connection of its own, a timer and a subscription, and   *)
(* then the request.                                                       *)

Connect(c) ==
  /\ Goto(c, "connect", "publish")
  /\ promise' = [promise EXCEPT ![c] = "pending"]
  /\ timer' = timer \cup {c}
  /\ wallet' = [wallet EXCEPT ![c] = "open"]
  /\ UNCHANGED <<kind, headers, died, events>>

(* payInvoice takes the answer, with its hash or an empty one.             *)
Outcome(says) == IF says \in {"hash", "nohash"} THEN "paid" ELSE "failed"

(* The relay has taken the request, and the answer may be there already.   *)
Published(c) ==
  /\ Goto(c, "publish", IF promise[c] = "pending" THEN "answer" ELSE Outcome(promise[c]))
  /\ UNCHANGED <<kind, headers, nostr, wallet, events>>

(* No connection, or the relay refuses the request or does not confirm it. *)
RelayFails(c) ==
  /\ Goto(c, "connect", "failed") \/ Goto(c, "publish", "failed")
  /\ UNCHANGED <<kind, headers, nostr, wallet, events>>

(* Mutant: the subscription asks for the client's key only.                *)
MatchesKey(c, e) == TRUE

(* The subscription asks for answers to this request.                      *)
Matches(c, e) == e.of = c

(* The promise settles.  While publish is awaited nothing listens to it    *)
(* yet, and when publish threw nothing ever will.                          *)
Settle(c, says) ==
  /\ promise' = [promise EXCEPT ![c] = says]
  /\ timer' = timer \ {c}
  /\ at' = IF at[c] = "answer" THEN [at EXCEPT ![c] = Outcome(says)] ELSE at
  /\ died' = (says = "rejected" /\ at[c] # "answer")

OnEvent(c) ==
  /\ ~died /\ at[c] \in {"publish", "answer"} /\ promise[c] = "pending"
  /\ \E e \in events :
       Matches(c, e) /\ Settle(c, IF e.says = "garbled" THEN "rejected" ELSE e.says)
  /\ UNCHANGED <<kind, headers, wallet, events>>

(* The timer runs on after publish threw.                                  *)
RequestTimesOut(c) ==
  /\ ~died /\ c \in timer
  /\ Settle(c, "rejected")
  /\ UNCHANGED <<kind, headers, wallet, events>>
-----------------------------------------------------------------------------
(* The wallet decides on its own time, and answers as often as it likes.   *)

WalletDecides(c) ==
  /\ wallet[c] = "open"
  /\ \E s \in {"paid", "refused"} : wallet' = [wallet EXCEPT ![c] = s]
  /\ UNCHANGED <<client, events>>

WalletAnswers(c) ==
  /\ kind = "nwc"
  /\ \E s \in CASE wallet[c] = "paid"    -> {"hash", "nohash", "garbled"}
                [] wallet[c] = "refused" -> {"error", "garbled"}
                [] OTHER                 -> {} :
       events' = events \cup {[of |-> c, says |-> s]}
  /\ UNCHANGED <<client, wallet>>

Proceed(c) ==
  \/ Start(c) \/ Headers(c) \/ HttpFails(c) \/ Abort(c) \/ Metadata(c) \/ Invoice(c) \/ Posted(c)
  \/ Connect(c) \/ Published(c) \/ RelayFails(c) \/ OnEvent(c) \/ RequestTimesOut(c)

Next == \E c \in Calls : Proceed(c) \/ WalletDecides(c) \/ WalletAnswers(c)

Spec == Init /\ [][Next]_vars
-----------------------------------------------------------------------------
(* A call that reports a payment reports its own: the wallet paid the      *)
(* invoice of this call, whichever answers to others are at the relay.     *)
PaidIsTrue == \A c \in Calls : at[c] = "paid" => wallet[c] = "paid"

(* Refuted.  Every rejection reaches whoever called (dust-fanout.ts:298,   *)
(* where the row becomes FAILED), and the process goes on.                 *)
RejectionsAreHeard == ~died
=============================================================================
