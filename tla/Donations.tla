----------------------------- MODULE Donations -----------------------------
(***************************************************************************)
(* The support page (SupportOptions.tsx): a donation by invoice            *)
(* (SupportForm.tsx, /api/donate, BTCPay) and by zap (ZapForm.tsx,         *)
(* /api/zap, the recipient's LNURL server), with the per-address limit of  *)
(* both routes.  BTCPay, the LNURL server, the donor's wallet and whoever  *)
(* publishes a zap receipt are external: the page takes a receipt for what *)
(* it says and does not look at who signed it.                             *)
(*                                                                         *)
(* One donor at one page, which offers both ways to pay, her requests from *)
(* one IP address.                                                         *)
(***************************************************************************)
EXTENDS Integers, FiniteSets

CONSTANTS
  Ids,      \* invoices
  Window,   \* WINDOW_MS
  Quota,    \* MAX_PER_WINDOW
  MaxNow,   \* bound: time
  MaxHits,  \* bound: the times the limiters keep
  MaxPolls  \* bound: status answers on their way at once

Routes == {"donate", "zap"}

VARIABLES
  now,
  thanks,   \* the page was opened as /support?thanks=1
  hits,     \* of a route: the requests whose times the limiter keeps
  granted,  \* history: of a route, the requests that were let through
  mode,     \* SupportOptions: "choose", "donate" or "zap"
  phase,    \* of the form on the screen
  current,  \* the invoice it shows, or "none"
  invoice,  \* of an invoice: its state at BTCPay or at the wallet
  polls,    \* status answers on their way to the page
  adrift,   \* routes with a request on its way whose form is gone
  receipts  \* invoices with a zap receipt on a relay

site == <<hits, granted>>
page == <<thanks, mode, phase, current, adrift>>
vars == <<now, site, page, invoice, polls, receipts>>

None     == "none"
Invoices == {"none", "New", "Processing", "Settled", "Expired", "Invalid"}
Hits     == [at : Nat, nth : Nat]
Phases   == {"FORM", "CREATING", "CHECKOUT", "SETTLED", "EXPIRED", "ERROR"}

TypeOK ==
  /\ now \in 0..MaxNow
  /\ hits \in [Routes -> SUBSET Hits] /\ granted \in [Routes -> SUBSET Hits]
  /\ \A r \in Routes : \A h \in hits[r] \cup granted[r] : h.at <= now
  /\ thanks \in BOOLEAN /\ mode \in Routes \cup {"choose"} /\ phase \in Phases
  /\ current \in Ids \cup {None} /\ receipts \subseteq Ids /\ adrift \subseteq Routes
  /\ invoice \in [Ids -> [state : Invoices, route : Routes]]
  /\ polls \subseteq [id : Ids, status : Invoices]

(* SupportForm with initialThanks starts with the thanks, for no invoice.  *)
Mounted(m) == IF m = "donate" /\ thanks THEN "SETTLED" ELSE "FORM"

(* BTCPay sends a donor back to ?thanks=1, which opens the invoice form.   *)
Init ==
  /\ now = 0 /\ hits = [r \in Routes |-> {}] /\ granted = [r \in Routes |-> {}]
  /\ thanks \in BOOLEAN /\ mode = (IF thanks THEN "donate" ELSE "choose")
  /\ phase = Mounted(mode) /\ current = None /\ adrift = {}
  /\ invoice \in [Ids -> [state : {"none"}, route : Routes]] /\ polls = {} /\ receipts = {}

Tick == now < MaxNow /\ now' = now + 1 /\ UNCHANGED <<site, page, invoice, polls, receipts>>
-----------------------------------------------------------------------------
(* A form is mounted anew when it is chosen and gone when it is left; a    *)
(* request on the way goes on without it.                                  *)
Choose(m) ==
  /\ m # mode
  /\ mode = "choose" \/ m = "choose"
  /\ mode' = m /\ phase' = Mounted(m) /\ current' = None
  /\ adrift' = IF phase = "CREATING" THEN adrift \cup {mode} ELSE adrift
  /\ UNCHANGED <<now, thanks, site, invoice, polls, receipts>>

(* onSubmit, zap: an amount that is no number is an error of the page, and *)
(* so is a zap request that is not signed.  One request of a route is      *)
(* adrift at a time (a bound).                                             *)
Submit ==
  /\ mode \notin adrift \cup {"choose"} /\ phase = "FORM"
  /\ phase' \in {"CREATING", "ERROR"}
  /\ UNCHANGED <<now, thanks, site, mode, current, adrift, invoice, polls, receipts>>

(* "Change amount", "Start over", "Send another", "Try again".             *)
reset ==
  /\ phase \in {"CHECKOUT", "SETTLED", "EXPIRED", "ERROR"}
  /\ phase' = "FORM" /\ current' = None
  /\ UNCHANGED <<now, thanks, site, mode, adrift, invoice, polls, receipts>>

Recent(r) == {h \in hits[r] : now - h.at < Window}

(* A request: of those at the same time, which one.                        *)
Hit(r) == [at |-> now, nth |-> Cardinality({h \in hits[r] : h.at = now}) + 1]

(* rateLimited: a request that is refused counts too.                      *)
rateLimited(r) == Cardinality(Recent(r)) + 1 > Quota

Count(r) ==
  /\ Cardinality(hits["donate"]) + Cardinality(hits["zap"]) < MaxHits
  /\ hits' = [hits EXCEPT ![r] = Recent(r) \cup {Hit(r)}]
  /\ granted' = IF rateLimited(r) THEN granted ELSE [granted EXCEPT ![r] = @ \cup {Hit(r)}]

(* POST of a route makes an invoice of it.                                 *)
Make(r, id) ==
  /\ ~rateLimited(r) /\ invoice[id] = [state |-> "none", route |-> r]
  /\ invoice' = [invoice EXCEPT ![id].state = "New"]

(* POST: over the limit, a bad amount or request, an error of the service  *)
(* before or after the invoice was made, or the invoice.                   *)
Post ==
  /\ phase = "CREATING" /\ Count(mode)
  /\ \/ phase' = "ERROR" /\ UNCHANGED <<current, invoice>>
     \/ \E id \in Ids :
          /\ Make(mode, id)
          /\ \/ phase' = "ERROR" /\ UNCHANGED current
             \/ phase' = "CHECKOUT" /\ current' = id
  /\ UNCHANGED <<now, thanks, mode, adrift, polls, receipts>>

(* POST whose form is gone: nobody takes the answer.                       *)
PostAdrift(r) ==
  /\ r \in adrift /\ Count(r)
  /\ UNCHANGED invoice \/ \E id \in Ids : Make(r, id)
  /\ adrift' = adrift \ {r}
  /\ UNCHANGED <<now, thanks, mode, phase, current, polls, receipts>>

(* The service: a payment is seen, confirmed or not, or none comes.        *)
Settle(id, from, to) ==
  /\ invoice[id].state = from
  /\ <<from, to>> \in {<<"New", "Processing">>, <<"New", "Settled">>, <<"Processing", "Settled">>}
       \cup (IF invoice[id].route = "zap" THEN {}
             ELSE {<<"Processing", "Invalid">>, <<"New", "Expired">>})
  /\ invoice' = [invoice EXCEPT ![id].state = to]
  /\ UNCHANGED <<now, site, page, polls, receipts>>

(* A relay has a receipt (kind 9735) that names the invoice.               *)
Receipt(id) ==
  /\ invoice[id].route = "zap" /\ invoice[id].state # "none"
  /\ receipts' = receipts \cup {id}
  /\ UNCHANGED <<now, site, page, invoice, polls>>
-----------------------------------------------------------------------------
(* Checkout asks every three seconds, whether or not it has been answered; *)
(* the countdown ends nothing.                                             *)
Poll ==
  /\ mode = "donate" /\ phase = "CHECKOUT" /\ Cardinality(polls) < MaxPolls
  /\ polls' = polls \cup {[id |-> current, status |-> invoice[current].state]}
  /\ UNCHANGED <<now, site, page, invoice, receipts>>

(* Mutant: an answer is taken for the invoice on the screen.               *)
ForAny(p) == TRUE

(* Its effect is undone when another invoice takes its place.              *)
ForThis(p) == p.id = current

StatusOf(p) ==
  CASE p.status = "Settled"               -> "SETTLED"
    [] p.status \in {"Expired", "Invalid"} -> "EXPIRED"
    [] OTHER                              -> "CHECKOUT"

PollAnswer(p) ==
  /\ polls' = polls \ {p}
  /\ phase' = IF mode = "donate" /\ phase = "CHECKOUT" /\ ForThis(p) THEN StatusOf(p) ELSE phase
  /\ UNCHANGED <<now, thanks, site, mode, current, adrift, invoice, receipts>>

(* A zap is over when the wallet says it paid, or its receipt is seen.     *)
ZapPaid ==
  /\ mode = "zap" /\ phase = "CHECKOUT"
  /\ current \in receipts \/ invoice[current].state = "Settled"
  /\ phase' = "SETTLED"
  /\ UNCHANGED <<now, thanks, site, mode, current, adrift, invoice, polls, receipts>>

Next ==
  \/ Tick \/ \E m \in Routes \cup {"choose"} : Choose(m)
  \/ Submit \/ reset \/ Post \/ Poll \/ ZapPaid
  \/ \E r \in Routes : PostAdrift(r)
  \/ \E p \in polls : PollAnswer(p)
  \/ \E id \in Ids : Receipt(id) \/ \E from, to \in Invoices : Settle(id, from, to)

Spec == Init /\ [][Next]_vars
-----------------------------------------------------------------------------
(* The thanks are for the invoice that was on the screen, though answers   *)
(* about others are late and overlap and requests outlive their forms: it  *)
(* is settled or, if it is a zap's, a receipt names it.  Without an        *)
(* invoice only the donation form of a page opened with thanks=1 thanks    *)
(* (SupportForm.tsx:22-24), whoever opened it.                             *)
ThanksAreEarned ==
  phase = "SETTLED" =>
    IF current = None THEN thanks /\ mode = "donate"
    ELSE \/ invoice[current].state = "Settled"
         \/ mode = "zap" /\ current \in receipts

(* No window of time has more requests let through than the quota.         *)
QuotaHolds ==
  \A r \in Routes : \A t \in 0..now :
    Cardinality({g \in granted[r] : g.at \in t..(t + Window - 1)}) <= Quota

SupportIsSound == ThanksAreEarned /\ QuotaHolds

(* "No payment was detected before it timed out." (SupportForm.tsx:215)    *)
ExpiredIsUnpaid == phase = "EXPIRED" => invoice[current].state # "Invalid"
=============================================================================
