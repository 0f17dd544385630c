----------------------------- MODULE PoolProofs -----------------------------
(***************************************************************************)
(* Proofs about the parts of Pool, for any number of clients, shares, dens,*)
(* rigs, lines, payments and relays.                                       *)
(***************************************************************************)
EXTENDS Pool, FiniteSetTheorems, TLAPS

-----------------------------------------------------------------------------
(* One part at a time                                                      *)

(* A step of the composition is a step of each part or leaves it alone.    *)
LEMMA PartSteps ==
  ASSUME [PoolNext]_poolVars
  PROVE  /\ [Next]_vars
         /\ [Book!Next]_bookVars
         /\ [Health!Next]_healthVars
         /\ [Proxy!Next]_proxyVars
         /\ [Wallet!Next]_walletVars
         /\ [Zap!Next]_zapVars
  BY DEF PoolNext, poolVars, registryVars, RegistryStep, BookStep, HealthStep,
         ProxyStep, WalletStep, ZapStep

-----------------------------------------------------------------------------
(* The client registry                                                     *)

(* A row is idle no longer than its entity is without a heartbeat, and     *)
(* that no longer than the distance of two heartbeats after the last share *)
(* that asked for one.                                                     *)
AgesAreOrdered ==
  \A c \in Clients :
    /\ row[c] # "none" => idle[c] <= beat[c]
    /\ beat[c] <= quiet[c] + Beat

IInv == TypeOK /\ AgesAreOrdered

(* Ages of one client stay in order when both grow.                        *)
LEMMA CapMonotone ==
  ASSUME Dead \in Nat, NEW a \in 0..Never, NEW b \in 0..Never
  PROVE  /\ Cap(a) \in 0..Never
         /\ a <= b => Cap(a) <= Cap(b)
         /\ \A d \in Nat : a <= b + d => Cap(a) <= Cap(b) + d
BY DEF Cap, Never

LEMMA InitOrdered == ASSUME Beat \in Nat, Dead \in Nat, Init PROVE IInv
BY DEF Init, IInv, TypeOK, AgesAreOrdered, Never

LEMMA StepOrdered ==
  ASSUME Beat \in Nat, Dead \in Nat, IInv, [Next]_vars
  PROVE  IInv'
<1> USE DEF IInv, TypeOK, AgesAreOrdered, conns, rows, work
<1>1. CASE Tick
  <2>1. ASSUME NEW c \in Clients
        PROVE  /\ idle'[c] \in 0..Never /\ beat'[c] \in 0..Never /\ quiet'[c] \in 0..Never
               /\ row'[c] # "none" => idle'[c] <= beat'[c]
               /\ beat'[c] <= quiet'[c] + Beat
    <3>1. /\ idle'[c] = Cap(idle[c]) /\ beat'[c] = Cap(beat[c]) /\ quiet'[c] = Cap(quiet[c])
          /\ row'[c] = row[c]
      BY <1>1 DEF Tick
    <3>2. idle[c] \in 0..Never /\ beat[c] \in 0..Never /\ quiet[c] \in 0..Never
      OBVIOUS
    <3> QED BY <3>1, <3>2, CapMonotone
  <2>2. /\ idle' = [c \in Clients |-> idle'[c]] /\ beat' = [c \in Clients |-> beat'[c]]
        /\ quiet' = [c \in Clients |-> quiet'[c]]
    BY <1>1 DEF Tick
  <2>3. UNCHANGED <<up, leaving, entity, queue, batches, row, sharing, best, lost>>
    BY <1>1 DEF Tick
  <2> QED BY <2>1, <2>2, <2>3
<1>2. CASE Flush
  BY <1>2 DEF Flush
<1>3. CASE KillDeadClients \/ DeleteAll
  BY <1>3 DEF KillDeadClients, DeleteAll, DeadRow
<1>4. ASSUME NEW b \in batches, Land(b) PROVE IInv'
  BY <1>4 DEF Land, Never
<1>5. ASSUME NEW b \in batches, LoseBatch(b) PROVE IInv'
  BY <1>5 DEF LoseBatch
<1>6. ASSUME NEW c \in Clients, Close(c) \/ Share(c) PROVE IInv'
  BY <1>6 DEF Close, Share
<1>7. ASSUME NEW c \in Clients, Delete(c) \/ DeleteOldClient(c) PROVE IInv'
  BY <1>7 DEF Delete, DeleteOldClient
<1>8. ASSUME NEW c \in Clients, Heartbeat(c) PROVE IInv'
  BY <1>8 DEF Heartbeat, Beats, Never
<1>9. ASSUME NEW c \in Clients, HeartbeatThrows(c) \/ NotBetter(c) PROVE IInv'
  BY <1>9 DEF HeartbeatThrows, NotBetter
<1>10. ASSUME NEW c \in Clients, Better(c) PROVE IInv'
  BY <1>10 DEF Better, Never
<1>11. CASE UNCHANGED vars
  BY <1>11 DEF vars
<1> QED
  BY <1>1, <1>2, <1>3, <1>4, <1>5, <1>6, <1>7, <1>8, <1>9, <1>10, <1>11 DEF Next, Handle

(* A connected client whose shares keep coming stays listed                *)
(* (client.service.ts: heartbeat, killDeadClients), whatever batches are   *)
(* lost or late, however rows are deleted and revived, and for any Beat    *)
(* and Dead.                                                               *)
THEOREM ActiveStaysListed ==
  ASSUME Beat \in Nat, Dead \in Nat
  PROVE  Spec => []ActiveIsListed
<1>1. IInv => ActiveIsListed
  BY DEF IInv, TypeOK, AgesAreOrdered, ActiveIsListed, DeadRow, Never
<1> QED BY <1>1, InitOrdered, StepOrdered, PTL DEF Spec

-----------------------------------------------------------------------------
(* The wallet clients                                                      *)

(* The wallet hears of a call with the invoice, and not before.            *)
NotAsked(c) ==
  at[c] \in {"idle", "meta", "callback", "connect"} => wallet[c] = "none"

(* Whatever says that the call is paid is right.                           *)
SaysPaid(c) ==
  \/ at[c] = "paid"
  \/ at[c] = "post" /\ c \in headers
  \/ promise[c] \in {"hash", "nohash"}
  \/ \E e \in events : e.of = c /\ e.says \in {"hash", "nohash"}

WalletInv ==
  /\ Wallet!TypeOK
  /\ \A c \in Calls : NotAsked(c) /\ (SaysPaid(c) => wallet[c] = "paid")

(* The types of the wallet clients.                                        *)
LEMMA WalletTypeOK ==
  ASSUME Wallet!TypeOK, [Wallet!Next]_walletVars
  PROVE  Wallet!TypeOK'
<1> USE DEF Wallet!TypeOK, Wallet!Steps, Wallet!Http, Wallet!Outcomes,
            Wallet!Promises, Wallet!Goto, Wallet!nostr, Wallet!client
<1>1. CASE UNCHANGED walletVars
  BY <1>1 DEF walletVars
<1>2. ASSUME NEW c \in Calls,
             \/ Wallet!Start(c) \/ Wallet!Headers(c) \/ Wallet!HttpFails(c)
             \/ Wallet!Abort(c) \/ Wallet!Metadata(c) \/ Wallet!Invoice(c)
             \/ Wallet!Posted(c)
      PROVE  Wallet!TypeOK'
  BY <1>2 DEF Wallet!Start, Wallet!Headers, Wallet!HttpFails, Wallet!Abort,
       Wallet!Metadata, Wallet!Invoice, Wallet!Posted
<1>3. ASSUME NEW c \in Calls,
             \/ Wallet!Connect(c) \/ Wallet!Published(c) \/ Wallet!RelayFails(c)
      PROVE  Wallet!TypeOK'
  BY <1>3 DEF Wallet!Connect, Wallet!Published, Wallet!RelayFails, Wallet!Outcome
<1>4. ASSUME NEW c \in Calls, NEW says \in Wallet!Promises, Wallet!Settle(c, says),
             UNCHANGED <<walletKind, headers, wallet, events>>
      PROVE  Wallet!TypeOK'
  BY <1>4 DEF Wallet!Settle, Wallet!Outcome
<1>5. ASSUME NEW c \in Calls, Wallet!OnEvent(c) PROVE Wallet!TypeOK'
  BY <1>4, <1>5 DEF Wallet!OnEvent, Wallet!Events
<1>6. ASSUME NEW c \in Calls, Wallet!RequestTimesOut(c) PROVE Wallet!TypeOK'
  BY <1>4, <1>6 DEF Wallet!RequestTimesOut
<1>7. ASSUME NEW c \in Calls, Wallet!WalletDecides(c) PROVE Wallet!TypeOK'
  BY <1>7 DEF Wallet!WalletDecides
<1>8. ASSUME NEW c \in Calls, Wallet!WalletAnswers(c) PROVE Wallet!TypeOK'
  BY <1>8 DEF Wallet!WalletAnswers, Wallet!Events
<1> QED BY <1>1, <1>2, <1>3, <1>5, <1>6, <1>7, <1>8
        DEF Wallet!Next, Wallet!Proceed

(* A step keeps what is said about a call true: its own steps follow what   *)
(* the wallet did for it, and those of other calls do not concern it.      *)
LEMMA WalletStepInv == WalletInv /\ [Wallet!Next]_walletVars => WalletInv'
<1> SUFFICES ASSUME WalletInv, [Wallet!Next]_walletVars PROVE WalletInv'
  OBVIOUS
<1>0. Wallet!TypeOK /\ Wallet!TypeOK'
  BY WalletTypeOK DEF WalletInv
<1> SUFFICES ASSUME NEW x \in Calls
             PROVE  NotAsked(x)' /\ (SaysPaid(x)' => wallet'[x] = "paid")
  BY <1>0 DEF WalletInv
<1>1. NotAsked(x) /\ (SaysPaid(x) => wallet[x] = "paid")
  BY DEF WalletInv
<1> USE <1>0, <1>1
    DEF Wallet!TypeOK, Wallet!Steps, Wallet!Http, Wallet!Outcomes,
        Wallet!Promises, Wallet!Goto, Wallet!nostr, Wallet!client, NotAsked,
        SaysPaid
<1>2. CASE UNCHANGED walletVars
  BY <1>2 DEF walletVars
<1>3. ASSUME NEW c \in Calls,
             \/ Wallet!Start(c) \/ Wallet!Headers(c) \/ Wallet!HttpFails(c)
             \/ Wallet!Abort(c) \/ Wallet!Metadata(c) \/ Wallet!Posted(c)
      PROVE  NotAsked(x)' /\ (SaysPaid(x)' => wallet'[x] = "paid")
  <2>1. UNCHANGED <<wallet, promise, events>>
    BY <1>3 DEF Wallet!Start, Wallet!Headers, Wallet!HttpFails, Wallet!Abort,
         Wallet!Metadata, Wallet!Posted
  <2>2. CASE c # x
    <3>1. at'[x] = at[x] /\ (x \in headers' => x \in headers)
      BY <1>3, <2>2 DEF Wallet!Start, Wallet!Headers, Wallet!HttpFails,
           Wallet!Abort, Wallet!Metadata, Wallet!Posted
    <3> QED BY <2>1, <3>1
  <2>3. CASE c = x
    <3>1. CASE Wallet!Start(x) \/ Wallet!HttpFails(x) \/ Wallet!Abort(x)
               \/ Wallet!Metadata(x)
      BY <2>1, <3>1 DEF Wallet!Start, Wallet!HttpFails, Wallet!Abort,
           Wallet!Metadata
    <3>2. CASE Wallet!Headers(x)
      BY <2>1, <3>2 DEF Wallet!Headers
    <3>3. CASE Wallet!Posted(x)
      BY <2>1, <3>3 DEF Wallet!Posted
    <3> QED BY <1>3, <2>3, <3>1, <3>2, <3>3
  <2> QED BY <2>2, <2>3
<1>4. ASSUME NEW c \in Calls, Wallet!Invoice(c) \/ Wallet!Connect(c)
      PROVE  NotAsked(x)' /\ (SaysPaid(x)' => wallet'[x] = "paid")
  <2>1. UNCHANGED events
    BY <1>4 DEF Wallet!Invoice, Wallet!Connect
  <2>2. CASE c # x
    <3>1. /\ at'[x] = at[x] /\ (x \in headers' => x \in headers)
          /\ promise'[x] = promise[x] /\ wallet'[x] = wallet[x]
      BY <1>4, <2>2 DEF Wallet!Invoice, Wallet!Connect
    <3> QED BY <2>1, <3>1
  <2>3. CASE Wallet!Invoice(x)
    BY <2>3 DEF Wallet!Invoice
  <2>4. CASE Wallet!Connect(x)
    BY <2>4 DEF Wallet!Connect
  <2> QED BY <1>4, <2>2, <2>3, <2>4
<1>5. ASSUME NEW c \in Calls, Wallet!Published(c) \/ Wallet!RelayFails(c)
      PROVE  NotAsked(x)' /\ (SaysPaid(x)' => wallet'[x] = "paid")
  BY <1>5 DEF Wallet!Published, Wallet!RelayFails, Wallet!Outcome
<1>6. ASSUME NEW c \in Calls, NEW says \in Wallet!Promises, Wallet!Settle(c, says),
             c = x /\ says \in {"hash", "nohash"} => wallet[x] = "paid",
             UNCHANGED <<walletKind, headers, wallet, events>>
      PROVE  NotAsked(x)' /\ (SaysPaid(x)' => wallet'[x] = "paid")
  BY <1>6 DEF Wallet!Settle, Wallet!Outcome
<1>7. ASSUME NEW c \in Calls, Wallet!OnEvent(c)
      PROVE  NotAsked(x)' /\ (SaysPaid(x)' => wallet'[x] = "paid")
  <2>1. PICK e \in events :
          /\ Wallet!Matches(c, e)
          /\ Wallet!Settle(c, IF e.says = "garbled" THEN "rejected" ELSE e.says)
    BY <1>7 DEF Wallet!OnEvent
  <2>2. e.of = c /\ e \in Wallet!Events
    BY <2>1 DEF Wallet!Matches
  <2>3. (IF e.says = "garbled" THEN "rejected" ELSE e.says) \in Wallet!Promises
    BY <2>2 DEF Wallet!Events
  <2>4. UNCHANGED <<walletKind, headers, wallet, events>>
    BY <1>7 DEF Wallet!OnEvent
  <2> QED BY <1>6, <2>1, <2>2, <2>3, <2>4
<1>8. ASSUME NEW c \in Calls, Wallet!RequestTimesOut(c)
      PROVE  NotAsked(x)' /\ (SaysPaid(x)' => wallet'[x] = "paid")
  BY <1>6, <1>8 DEF Wallet!RequestTimesOut
<1>9. ASSUME NEW c \in Calls, Wallet!WalletDecides(c)
      PROVE  NotAsked(x)' /\ (SaysPaid(x)' => wallet'[x] = "paid")
  BY <1>9 DEF Wallet!WalletDecides
<1>10. ASSUME NEW c \in Calls, Wallet!WalletAnswers(c)
       PROVE  NotAsked(x)' /\ (SaysPaid(x)' => wallet'[x] = "paid")
  <2>1. UNCHANGED <<at, headers, promise, wallet>>
    BY <1>10 DEF Wallet!WalletAnswers
  <2>2. \A e \in events' : e.of = x /\ e.says \in {"hash", "nohash"} =>
          e \in events \/ wallet[x] = "paid"
    BY <1>10 DEF Wallet!WalletAnswers
  <2> QED BY <2>1, <2>2
<1> QED BY <1>2, <1>3, <1>4, <1>5, <1>7, <1>8, <1>9, <1>10
        DEF Wallet!Next, Wallet!Proceed

(* Before the first step nothing was asked or said.                        *)
LEMMA WalletStart == Wallet!Init => WalletInv
BY DEF WalletInv, NotAsked, SaysPaid, Wallet!Init, Wallet!TypeOK,
       Wallet!Steps, Wallet!Http, Wallet!Outcomes, Wallet!Promises

-----------------------------------------------------------------------------
(* The zap publisher                                                       *)

(* A relay that confirmed holds the event.                                 *)
ZapInv ==
  /\ Zap!TypeOK
  /\ \A r \in Relays : relay[r] = "ok" => r \in accepted
  /\ Zap!PublishedIsTrue

LEMMA ZapStepInv == ZapInv /\ [Zap!Next]_zapVars => ZapInv'
<1> SUFFICES ASSUME ZapInv, [Zap!Next]_zapVars PROVE ZapInv'
  OBVIOUS
<1> USE DEF ZapInv, Zap!TypeOK, Zap!PublishedIsTrue
<1>1. CASE UNCHANGED zapVars
  BY <1>1 DEF zapVars
<1>2. CASE Zap!PublishZap \/ Zap!AllTried
  BY <1>2 DEF Zap!PublishZap, Zap!AllTried, Zap!Published
<1>3. ASSUME NEW r \in Relays,
             \/ Zap!Connected(r) \/ Zap!Accepts(r) \/ Zap!Confirmed(r)
             \/ Zap!RelayFails(r) \/ Zap!GivesUp(r)
      PROVE  ZapInv'
  BY <1>3 DEF Zap!Connected, Zap!Accepts, Zap!Confirmed, Zap!RelayFails,
       Zap!GivesUp, Zap!Goto
<1> QED BY <1>1, <1>2, <1>3 DEF Zap!Next

LEMMA ZapStart == Zap!Init => ZapInv
BY DEF ZapInv, Zap!Init, Zap!TypeOK, Zap!PublishedIsTrue

(* What is reported paid was paid, for this call and no other, and what is  *)
(* reported published is at a relay, for any number of payments, answers   *)
(* and relays.                                                             *)
THEOREM ReportsStayTrue == PoolSpec => []ReportsAreTrue
<1>1. PoolInit => WalletInv /\ ZapInv
  BY WalletStart, ZapStart DEF PoolInit
<1>2. WalletInv /\ ZapInv /\ [PoolNext]_poolVars => (WalletInv /\ ZapInv)'
  BY PartSteps, WalletStepInv, ZapStepInv
<1>3. WalletInv /\ ZapInv => ReportsAreTrue
  BY DEF WalletInv, ZapInv, SaysPaid, ReportsAreTrue, Wallet!PaidIsTrue
<1> QED BY <1>1, <1>2, <1>3, PTL DEF PoolSpec

-----------------------------------------------------------------------------
(* Template health                                                         *)

CallTypes  == [den : Dens, clear : BOOLEAN, step : Health!Steps, id : 1..MaxCalls]
EntryTypes == [origin : Health!Origins, clear : BOOLEAN, age : 0..Ttl]
GivenTypes ==
  [origin : Health!Origins, asked : BOOLEAN, clear : BOOLEAN, left : 0..Health!Long]

(* The types of the breaker, the cache and the calls.                      *)
LEMMA HealthTypeOK ==
  ASSUME Health!TypeOK, [Health!Next]_healthVars
  PROVE  Health!TypeOK'
<1> USE HealthAssumption
    DEF Health!TypeOK, Health!Confs, Health!AtMostOne, Health!breaker,
        Health!history, CallTypes, EntryTypes, GivenTypes
<1>1. ASSUME NEW d \in Dens, NEW asked \in BOOLEAN, NEW clear \in BOOLEAN,
             NEW origin \in Health!Origins, Health!Give(d, asked, origin, clear)
      PROVE  /\ served' \in [Dens -> SUBSET GivenTypes]
             /\ \A x \in Dens : Health!AtMostOne(served'[x])
  BY <1>1 DEF Health!Give
<1>2. ASSUME NEW c \in templateCalls, Health!GivePlatform(c)
      PROVE  /\ served' \in [Dens -> SUBSET GivenTypes]
             /\ \A x \in Dens : Health!AtMostOne(served'[x])
             /\ templateCalls' \in SUBSET CallTypes
  <2>1. c.den \in Dens /\ c.clear \in BOOLEAN /\ "platform" \in Health!Origins
    BY DEF Health!Origins
  <2> QED BY <1>1, <1>2, <2>1 DEF Health!GivePlatform
<1>3. ASSUME NEW c \in templateCalls, NEW step \in Health!Steps,
             Health!GoOn(c, step)
      PROVE  templateCalls' \in SUBSET CallTypes
  <2>1. c \in CallTypes
    OBVIOUS
  <2>2. [den |-> c.den, clear |-> c.clear, step |-> step, id |-> c.id] \in CallTypes
    BY <2>1
  <2> QED BY <1>3, <2>2 DEF Health!GoOn
<1>4. ASSUME Health!recordSuccess \/ Health!recordFailure
      PROVE  /\ failures' \in 0..Threshold /\ sinceFailure' \in 0..Retry
             /\ fallback' \in BOOLEAN
  <2>1. CASE Health!recordSuccess
    <3>1. failures' \in 0..Threshold /\ sinceFailure' \in 0..Retry
      BY <2>1 DEF Health!recordSuccess
    <3>2. fallback' \in BOOLEAN
      BY <2>1, Zenon DEF Health!recordSuccess
    <3> QED BY <3>1, <3>2
  <2>2. CASE Health!recordFailure
    <3>1. failures' \in 0..Threshold /\ sinceFailure' \in 0..Retry
      BY <2>2 DEF Health!recordFailure, Health!UpTo
    <3>2. fallback' \in BOOLEAN
      BY <2>2, Zenon DEF Health!recordFailure
    <3> QED BY <3>1, <3>2
  <2> QED BY <1>4, <2>1, <2>2
<1>5. CASE UNCHANGED healthVars
  BY <1>5 DEF healthVars
<1>6. ASSUME NEW d \in Dens, NEW clear \in BOOLEAN, Health!Hit(d, clear)
      PROVE  Health!TypeOK'
  <2>1. PICK e \in cache[d] : Health!Give(d, clear, e.origin, e.clear)
    BY <1>6 DEF Health!Hit
  <2>2. e.origin \in Health!Origins /\ e.clear \in BOOLEAN
    OBVIOUS
  <2>3. UNCHANGED <<conf, failures, sinceFailure, fallback, cache, templateCalls,
                    streak, left>>
    BY <1>6 DEF Health!Hit, Health!KeepEntry
  <2> QED BY <1>1, <2>1, <2>2, <2>3
<1>7. ASSUME NEW d \in Dens, NEW clear \in BOOLEAN, Health!Ask(d, clear)
      PROVE  Health!TypeOK'
  BY <1>7 DEF Health!Ask, Health!Steps
<1>8. ASSUME NEW d \in Dens, NEW to \in Health!Confs, Health!Configure(d, to)
      PROVE  Health!TypeOK'
  <2>1. left' \in [Dens -> 0..Health!Long]
    BY <1>8 DEF Health!Configure, Health!Long
  <2> QED BY <1>8, <2>1 DEF Health!Configure
<1>9. CASE Health!Tick
  <2>1. templateCalls' \in SUBSET CallTypes
    BY <1>9 DEF Health!Tick
  <2>2. /\ cache' \in [Dens -> SUBSET EntryTypes]
        /\ \A d \in Dens : Health!AtMostOne(cache'[d])
    BY <1>9 DEF Health!Tick, Health!Expire
  <2>3. left' \in [Dens -> 0..Health!Long] /\ sinceFailure' \in 0..Retry
    BY <1>9 DEF Health!Tick, Health!UpTo, Health!Long
  <2> QED BY <1>9, <2>1, <2>2, <2>3 DEF Health!Tick
<1>10. ASSUME NEW c \in templateCalls,
              \/ Health!ReadGroup(c) \/ Health!QueryFails(c) \/ Health!ReadRow(c)
              \/ Health!PlatformEnds(c)
       PROVE  Health!TypeOK'
  <2>1. \/ Health!GivePlatform(c)
        \/ UNCHANGED served /\ \E step \in Health!Steps : Health!GoOn(c, step)
    BY <1>10 DEF Health!ReadGroup, Health!QueryFails, Health!ReadRow,
         Health!PlatformEnds, Health!Steps
  <2>2. UNCHANGED <<conf, failures, sinceFailure, fallback, cache, streak, left>>
    BY <1>10 DEF Health!ReadGroup, Health!QueryFails, Health!ReadRow,
         Health!PlatformEnds
  <2> QED BY <1>2, <1>3, <2>1, <2>2
<1>11. ASSUME NEW c \in templateCalls, Health!Fetched(c) PROVE Health!TypeOK'
  <2>1. c.den \in Dens /\ c.clear \in BOOLEAN /\ c.step \in Health!Origins
    BY <1>11 DEF Health!Fetched
  <2>2. /\ served' \in [Dens -> SUBSET GivenTypes]
        /\ \A x \in Dens : Health!AtMostOne(served'[x])
    BY <1>1, <1>11, <2>1 DEF Health!Fetched
  <2>3. /\ failures' \in 0..Threshold /\ sinceFailure' \in 0..Retry
        /\ fallback' \in BOOLEAN /\ streak' \in 0..Threshold
    BY <1>4, <1>11 DEF Health!Fetched
  <2>4. /\ cache' \in [Dens -> SUBSET EntryTypes]
        /\ \A d \in Dens : Health!AtMostOne(cache'[d])
    BY <1>11, <2>1 DEF Health!Fetched
  <2> QED BY <1>11, <2>2, <2>3, <2>4 DEF Health!Fetched
<1>12. ASSUME NEW c \in templateCalls,
              Health!Unusable(c) \/ Health!FallbackAnswers(c)
       PROVE  Health!TypeOK'
  <2>1. /\ failures' \in 0..Threshold /\ sinceFailure' \in 0..Retry
        /\ fallback' \in BOOLEAN /\ streak' \in 0..Threshold
    BY <1>4, <1>12 DEF Health!Unusable, Health!FallbackAnswers
  <2> QED BY <1>2, <1>12, <2>1 DEF Health!Unusable, Health!FallbackAnswers
<1>13. ASSUME NEW c \in templateCalls, Health!OperatorFails(c)
       PROVE  Health!TypeOK'
  <2>1. /\ failures' \in 0..Threshold /\ sinceFailure' \in 0..Retry
        /\ fallback' \in BOOLEAN /\ streak' \in 0..Threshold
    BY <1>4, <1>13 DEF Health!OperatorFails, Health!UpTo
  <2>2. templateCalls' \in SUBSET CallTypes
    BY <1>3, <1>13 DEF Health!OperatorFails, Health!Steps
  <2> QED BY <1>13, <2>1, <2>2 DEF Health!OperatorFails
<1> QED BY <1>5, <1>6, <1>7, <1>8, <1>9, <1>10, <1>11, <1>12, <1>13
        DEF Health!Next

(* A den whose row names the node has not left it, nor has one with a      *)
(* request to the node under way; and a template of the node was cached    *)
(* before the den had left.                                                *)
StillThere == \A d \in Dens : conf[d] = "operator" => left[d] = 0
AskedWhileThere ==
  \A c \in templateCalls : c.step = "operator" => left[c.den] = 0
KeptSinceThere ==
  \A d \in Dens : \A e \in cache[d] :
    e.origin = "operator" => left[d] <= e.age

(* The breaker counts no failure that did not happen.                      *)
CountsFailures == failures <= streak

HealthInv ==
  /\ Health!TypeOK
  /\ StillThere /\ AskedWhileThere /\ KeptSinceThere /\ Health!LeftMeansLeft
  /\ CountsFailures /\ Health!OpenMeansFailing

(* What a step leaves alone, of what the invariant speaks of.              *)
LEMMA BreakerStepInv ==
  ASSUME HealthInv, Health!TypeOK',
         \/ UNCHANGED <<failures, fallback, streak>>
         \/ Health!recordSuccess /\ streak' \in {0, streak}
         \/ Health!recordFailure /\ streak' = Health!UpTo(Threshold, streak + 1)
  PROVE  CountsFailures' /\ Health!OpenMeansFailing'
<1> USE HealthAssumption
    DEF HealthInv, CountsFailures, Health!OpenMeansFailing, Health!TypeOK
<1>1. CASE UNCHANGED <<failures, fallback, streak>>
  BY <1>1
<1>2. CASE Health!recordSuccess /\ streak' \in {0, streak}
  BY <1>2 DEF Health!recordSuccess
<1>3. CASE Health!recordFailure /\ streak' = Health!UpTo(Threshold, streak + 1)
  <2>1. /\ failures' = IF failures + 1 < Threshold THEN failures + 1 ELSE Threshold
        /\ streak' = IF streak + 1 < Threshold THEN streak + 1 ELSE Threshold
    BY <1>3 DEF Health!recordFailure, Health!UpTo
  <2>2. fallback' => fallback \/ failures' = Threshold
    BY <1>3 DEF Health!recordFailure
  <2>3. failures \in 0..Threshold /\ streak \in 0..Threshold /\ failures <= streak
    OBVIOUS
  <2>4. failures' <= streak' /\ (failures' = Threshold => streak' = Threshold)
    BY <2>1, <2>3
  <2>5. streak = Threshold => streak' = Threshold
    BY <2>1, <2>3
  <2> QED BY <2>2, <2>4, <2>5
<1> QED BY <1>1, <1>2, <1>3

(* A call that goes on, not to the operator's node, or ends.               *)
LEMMA CallStepInv ==
  ASSUME HealthInv, Health!TypeOK', NEW c \in templateCalls,
         \/ templateCalls' = templateCalls \ {c}
         \/ \E step \in Health!Steps \ {"operator"} : Health!GoOn(c, step),
         UNCHANGED <<conf, left>>
  PROVE  StillThere' /\ AskedWhileThere'
  BY DEF HealthInv, StillThere, AskedWhileThere, Health!GoOn

(* A miner that is given the platform's template is not given the node's.  *)
LEMMA GivePlatformInv ==
  ASSUME HealthInv, Health!TypeOK', NEW c \in templateCalls,
         Health!GivePlatform(c)
  PROVE  Health!LeftMeansLeft'
  BY DEF HealthInv, Health!LeftMeansLeft, Health!GivePlatform, Health!Give,
         Health!TypeOK

LEMMA HealthStepInv == HealthInv /\ [Health!Next]_healthVars => HealthInv'
<1> SUFFICES ASSUME HealthInv, [Health!Next]_healthVars PROVE HealthInv'
  OBVIOUS
<1>0. Health!TypeOK /\ Health!TypeOK'
  BY HealthTypeOK DEF HealthInv
<1> USE <1>0, HealthAssumption
    DEF Health!breaker, Health!history
<1>1. CASE UNCHANGED healthVars
  BY <1>1 DEF healthVars, HealthInv, StillThere, AskedWhileThere,
       KeptSinceThere, Health!LeftMeansLeft, CountsFailures,
       Health!OpenMeansFailing
<1>2. ASSUME NEW d \in Dens, NEW clear \in BOOLEAN, Health!Hit(d, clear)
      PROVE  HealthInv'
  <2>1. PICK e \in cache[d] : Health!Give(d, clear, e.origin, e.clear)
    BY <1>2 DEF Health!Hit
  <2>2. UNCHANGED <<conf, failures, sinceFailure, fallback, cache, templateCalls,
                    streak, left>>
    BY <1>2 DEF Health!Hit, Health!KeepEntry
  <2>3. e.origin = "operator" => left[d] <= Ttl
    <3>1. /\ e.age \in 0..Ttl /\ left[d] \in 0..Health!Long
          /\ e.origin = "operator" => left[d] <= e.age
      BY DEF HealthInv, KeptSinceThere, Health!TypeOK
    <3> QED BY <3>1 DEF Health!Long
  <2>4. Health!LeftMeansLeft'
    BY <2>1, <2>3 DEF HealthInv, Health!LeftMeansLeft, Health!Give, Health!TypeOK
  <2> QED BY <2>2, <2>4, BreakerStepInv
          DEF HealthInv, StillThere, AskedWhileThere, KeptSinceThere
<1>3. ASSUME NEW d \in Dens, NEW clear \in BOOLEAN, Health!Ask(d, clear)
      PROVE  HealthInv'
  <2>1. UNCHANGED <<conf, failures, sinceFailure, fallback, cache, served,
                    streak, left>>
    BY <1>3 DEF Health!Ask
  <2>2. \A c \in templateCalls' : c \in templateCalls \/ c.step = "group"
    BY <1>3 DEF Health!Ask
  <2> QED BY <2>1, <2>2, BreakerStepInv
          DEF HealthInv, StillThere, AskedWhileThere, KeptSinceThere,
              Health!LeftMeansLeft
<1>4. ASSUME NEW d \in Dens, NEW to \in Health!Confs, Health!Configure(d, to)
      PROVE  HealthInv'
  <2>1. UNCHANGED <<failures, sinceFailure, fallback, cache, templateCalls,
                    served, streak>>
    BY <1>4 DEF Health!Configure
  <2>2. \A x \in Dens : left'[x] = left[x] \/ left'[x] = 0
    BY <1>4 DEF Health!Configure, Health!TypeOK
  <2>3. StillThere'
    BY <1>4 DEF Health!Configure, HealthInv, StillThere, Health!TypeOK
  <2>4. AskedWhileThere'
    BY <2>1, <2>2 DEF HealthInv, AskedWhileThere, Health!TypeOK
  <2>5. KeptSinceThere'
    BY <2>1, <2>2 DEF HealthInv, KeptSinceThere, Health!TypeOK
  <2> QED BY <2>1, <2>3, <2>4, <2>5, BreakerStepInv
          DEF HealthInv, Health!LeftMeansLeft
<1>5. CASE Health!Tick
  <2>1. UNCHANGED <<conf, failures, fallback, streak, served>>
    BY <1>5 DEF Health!Tick
  <2>2. \A d \in Dens : /\ left'[d] <= left[d] + 1
                        /\ conf[d] = "operator" => left'[d] = 0
                        /\ left[d] = 0 /\ Health!Asked(d) => left'[d] = 0
    BY <1>5 DEF Health!Tick, Health!UpTo, Health!TypeOK, Health!Long
  <2>3. StillThere'
    BY <2>1, <2>2 DEF StillThere
  <2>4. AskedWhileThere'
    <3> SUFFICES ASSUME NEW k \in templateCalls', k.step = "operator"
                 PROVE  left'[k.den] = 0
      BY DEF AskedWhileThere
    <3>1. k \in templateCalls
      BY <1>5 DEF Health!Tick
    <3>2. k.den \in Dens /\ left[k.den] = 0 /\ Health!Asked(k.den)
      BY <3>1 DEF HealthInv, AskedWhileThere, Health!TypeOK, Health!Asked
    <3> QED BY <2>2, <3>2
  <2>5. KeptSinceThere'
    <3> SUFFICES ASSUME NEW d \in Dens, NEW f \in cache'[d], f.origin = "operator"
                 PROVE  left'[d] <= f.age
      BY DEF KeptSinceThere
    <3>1. PICK e \in cache[d] : f = [e EXCEPT !.age = @ + 1]
      BY <1>5 DEF Health!Tick, Health!Expire
    <3>2. e.age \in 0..Ttl /\ f.origin = e.origin /\ f.age = e.age + 1
      BY <3>1 DEF Health!TypeOK
    <3>3. left[d] <= e.age /\ left[d] \in Nat /\ left'[d] \in Nat
      BY <3>2 DEF HealthInv, KeptSinceThere, Health!TypeOK
    <3> QED BY <2>2, <3>2, <3>3
  <2> QED BY <2>1, <2>3, <2>4, <2>5, BreakerStepInv
          DEF HealthInv, Health!LeftMeansLeft
<1>6. ASSUME NEW c \in templateCalls,
             \/ Health!ReadGroup(c) \/ Health!QueryFails(c) \/ Health!ReadRow(c)
             \/ Health!PlatformEnds(c)
      PROVE  HealthInv'
  <2>1. UNCHANGED <<conf, failures, sinceFailure, fallback, cache, streak, left>>
    BY <1>6 DEF Health!ReadGroup, Health!QueryFails, Health!ReadRow,
         Health!PlatformEnds
  <2>2. Health!LeftMeansLeft'
    <3>1. Health!GivePlatform(c) \/ UNCHANGED served
      BY <1>6 DEF Health!ReadGroup, Health!QueryFails, Health!ReadRow,
           Health!PlatformEnds
    <3> QED BY <3>1, GivePlatformInv DEF HealthInv, Health!LeftMeansLeft
  <2>3. StillThere' /\ AskedWhileThere'
    <3>1. CASE /\ Health!ReadRow(c) /\ conf[c.den] = "operator"
               /\ Health!GoOn(c, "operator")
      <4>1. left[c.den] = 0 /\ c.den \in Dens
        BY <3>1 DEF HealthInv, StillThere, Health!TypeOK
      <4> QED BY <2>1, <3>1, <4>1
              DEF HealthInv, StillThere, AskedWhileThere, Health!GoOn
    <3>2. CASE \/ templateCalls' = templateCalls \ {c}
               \/ \E step \in Health!Steps \ {"operator"} : Health!GoOn(c, step)
      BY <2>1, <3>2, CallStepInv
    <3>3. c.den \in Dens /\ conf[c.den] \in Health!Confs
      BY DEF Health!TypeOK
    <3> QED BY <1>6, <3>1, <3>2, <3>3
            DEF Health!ReadGroup, Health!QueryFails, Health!ReadRow,
                Health!PlatformEnds, Health!GivePlatform, Health!Steps,
                Health!Confs
  <2> QED BY <2>1, <2>2, <2>3, BreakerStepInv DEF HealthInv, KeptSinceThere
<1>7. ASSUME NEW c \in templateCalls, Health!Fetched(c) PROVE HealthInv'
  <2>1. /\ c.step \in Health!Origins
        /\ cache' = [cache EXCEPT ![c.den] =
                       {[origin |-> c.step, clear |-> c.clear, age |-> 0]}]
        /\ Health!Give(c.den, c.clear, c.step, c.clear)
        /\ templateCalls' = templateCalls \ {c}
        /\ UNCHANGED <<conf, left>>
    BY <1>7 DEF Health!Fetched
  <2>2. /\ c.den \in Dens /\ left[c.den] \in Nat
        /\ c.step = "operator" => left[c.den] = 0
    BY DEF HealthInv, AskedWhileThere, Health!TypeOK
  <2>3. c.step = "operator" => left[c.den] <= 0 /\ left[c.den] <= Ttl
    BY <2>2, HealthAssumption
  <2>4. KeptSinceThere'
    <3> SUFFICES ASSUME NEW d \in Dens, NEW e \in cache'[d], e.origin = "operator"
                 PROVE  left[d] <= e.age
      BY <2>1 DEF KeptSinceThere
    <3>1. CASE d = c.den
      BY <2>1, <2>2, <2>3, <3>1 DEF Health!TypeOK
    <3>2. CASE d # c.den
      BY <2>1, <3>2 DEF HealthInv, KeptSinceThere, Health!TypeOK
    <3> QED BY <3>1, <3>2
  <2>5. Health!LeftMeansLeft'
    BY <2>1, <2>3 DEF HealthInv, Health!LeftMeansLeft, Health!Give, Health!TypeOK
  <2>6. StillThere' /\ AskedWhileThere'
    BY <2>1, CallStepInv
  <2>7. CountsFailures' /\ Health!OpenMeansFailing'
    BY <1>7, BreakerStepInv DEF Health!Fetched
  <2> QED BY <2>4, <2>5, <2>6, <2>7 DEF HealthInv
<1>8. ASSUME NEW c \in templateCalls,
             Health!Unusable(c) \/ Health!FallbackAnswers(c)
      PROVE  HealthInv'
  <2>1. Health!GivePlatform(c) /\ UNCHANGED <<conf, cache, left>>
    BY <1>8 DEF Health!Unusable, Health!FallbackAnswers
  <2>2. StillThere' /\ AskedWhileThere'
    BY <2>1, CallStepInv DEF Health!GivePlatform
  <2>3. CountsFailures' /\ Health!OpenMeansFailing'
    BY <1>8, BreakerStepInv DEF Health!Unusable, Health!FallbackAnswers
  <2> QED BY <2>1, <2>2, <2>3, GivePlatformInv DEF HealthInv, KeptSinceThere
<1>9. ASSUME NEW c \in templateCalls, Health!OperatorFails(c) PROVE HealthInv'
  <2>1. Health!GoOn(c, "hot") /\ UNCHANGED <<conf, cache, left, served>>
    BY <1>9 DEF Health!OperatorFails
  <2>2. StillThere' /\ AskedWhileThere'
    BY <2>1, CallStepInv DEF Health!Steps
  <2>3. CountsFailures' /\ Health!OpenMeansFailing'
    BY <1>9, BreakerStepInv DEF Health!OperatorFails
  <2> QED BY <2>1, <2>2, <2>3
          DEF HealthInv, KeptSinceThere, Health!LeftMeansLeft
<1> QED BY <1>1, <1>2, <1>3, <1>4, <1>5, <1>6, <1>7, <1>8, <1>9 DEF Health!Next

(* Before the first call no template was given and no request failed.      *)
LEMMA HealthStart == Health!Init => HealthInv
<1> SUFFICES ASSUME Health!Init PROVE HealthInv
  OBVIOUS
<1>1. /\ cache = [d \in Dens |-> {}] /\ templateCalls = {}
      /\ served = [d \in Dens |-> {}] /\ fallback = FALSE
      /\ failures = 0 /\ streak = 0 /\ sinceFailure = Retry
      /\ conf \in [Dens -> Health!Confs]
      /\ left = [d \in Dens |-> IF conf[d] = "operator" THEN 0 ELSE Health!Long]
  BY DEF Health!Init
<1>2. Health!Long \in Nat
  BY HealthAssumption DEF Health!Long
<1>3. /\ left \in [Dens -> 0..Health!Long]
      /\ failures \in 0..Threshold /\ streak \in 0..Threshold
      /\ sinceFailure \in 0..Retry
  BY <1>1, <1>2, HealthAssumption
<1>4. fallback \in BOOLEAN
  BY <1>1, Zenon
<1>5. \A d \in Dens : cache[d] = {} /\ served[d] = {}
  BY <1>1
<1>6. Health!TypeOK
  BY <1>1, <1>3, <1>4, <1>5 DEF Health!TypeOK, Health!AtMostOne
<1>7. StillThere /\ AskedWhileThere /\ KeptSinceThere
  BY <1>1, <1>5 DEF StillThere, AskedWhileThere, KeptSinceThere
<1>8. Health!LeftMeansLeft
  BY <1>5 DEF Health!LeftMeansLeft
<1>9. CountsFailures /\ Health!OpenMeansFailing
  BY <1>1 DEF CountsFailures, Health!OpenMeansFailing
<1> QED BY <1>6, <1>7, <1>8, <1>9 DEF HealthInv

(* A den that left its operator's node is given no template of that node    *)
(* once the requests made before have ended and a cached template has had  *)
(* its time, and the breaker is open only after as many failures in a row  *)
(* as its threshold: for any number of dens and calls, any settings of the *)
(* times and any length of the requests.                                   *)
THEOREM SourceStaysTrue == PoolSpec => []TemplateSourceIsTrue
<1>1. PoolInit => HealthInv
  BY HealthStart DEF PoolInit
<1>2. HealthInv /\ [PoolNext]_poolVars => HealthInv'
  BY PartSteps, HealthStepInv
<1>3. HealthInv => TemplateSourceIsTrue
  BY DEF HealthInv, TemplateSourceIsTrue
<1> QED BY <1>1, <1>2, <1>3, PTL DEF PoolSpec
-----------------------------------------------------------------------------
(* The verifier proxy                                                      *)

(* What a rig was given follows what its den sent: all of it as long as   *)
(* nothing stopped the connection, and in strict mode no job that was      *)
(* checked and failed.                                                     *)
Passed == [line : Proxy!Line, seen : BOOLEAN]

Follows(p, lines, all) ==
  /\ p \in Seq(Passed) /\ lines \in Seq(Proxy!Line)
  /\ Len(p) <= Len(lines)
  /\ all => Len(p) = Len(lines)
  /\ \A i \in 1..Len(p) :
       p[i].line = lines[i] /\ (cfg.strict /\ p[i].seen => Proxy!verifyOutputs(lines[i]))

(* A chunk of which the lines so far brought the connection to s.          *)
InStep(s, lines) ==
  /\ s.open \in BOOLEAN /\ s.failed \in BOOLEAN /\ s.extranonce \in BOOLEAN
  /\ s.open = ~s.failed
  /\ s.failed => cfg.strict
  /\ Follows(s.passed, lines, s.open)

(* One line more keeps in step, whatever it is.                            *)
LEMMA ObserveFollows ==
  ASSUME NEW s, NEW lines, InStep(s, lines), NEW a \in Proxy!Line, cfg \in Proxy!Config
  PROVE  InStep(Proxy!Observe(s, a), Append(lines, a))
<1> DEFINE seen == a.kind = "job" /\ s.extranonce
           fails == seen /\ ~Proxy!verifyOutputs(a) /\ cfg.strict
           t == Proxy!Observe(s, a)
<1>1. /\ t.open = (s.open /\ ~fails) /\ t.failed = (s.failed \/ fails)
      /\ t.extranonce = (s.extranonce \/ a.kind = "subscribed")
      /\ t.passed = IF s.open /\ ~fails
                    THEN Append(s.passed, [line |-> a, seen |-> seen]) ELSE s.passed
  BY DEF Proxy!Observe, Proxy!Stops
<1>2. /\ t.open \in BOOLEAN /\ t.failed \in BOOLEAN /\ t.extranonce \in BOOLEAN
      /\ t.open = ~t.failed
      /\ t.failed => cfg.strict
  BY <1>1, Zenon DEF InStep
<1>3. CASE s.open /\ ~fails
  <2> DEFINE n == [line |-> a, seen |-> seen]
  <2>1. n \in Passed
    BY DEF Passed
  <2>2. t.passed = Append(s.passed, n)
    BY <1>1, <1>3
  <2>3. s.passed \in Seq(Passed) /\ lines \in Seq(Proxy!Line) /\ Len(s.passed) = Len(lines)
    BY <1>3 DEF InStep, Follows
  <2>4. n.line = a /\ (n.seen => seen)
    OBVIOUS
  <2>5. cfg.strict /\ n.seen => Proxy!verifyOutputs(a)
    BY <1>3, <2>4
  <2> HIDE DEF n, t
  <2>6. ASSUME NEW i \in 1..Len(t.passed)
        PROVE  /\ t.passed[i].line = Append(lines, a)[i]
               /\ cfg.strict /\ t.passed[i].seen => Proxy!verifyOutputs(Append(lines, a)[i])
    <3>1. CASE i = Len(t.passed)
      <4>1. t.passed[i] = n /\ Append(lines, a)[i] = a
        BY <2>1, <2>2, <2>3, <3>1
      <4> QED BY <4>1, <2>4, <2>5
    <3>2. CASE i # Len(t.passed)
      <4>1. /\ t.passed[i] = s.passed[i] /\ Append(lines, a)[i] = lines[i]
            /\ i \in 1..Len(s.passed)
        BY <2>1, <2>2, <2>3, <3>2
      <4> QED BY <4>1 DEF InStep, Follows
    <3> QED BY <3>1, <3>2
  <2>7. t.passed \in Seq(Passed) /\ Append(lines, a) \in Seq(Proxy!Line)
        /\ Len(t.passed) = Len(Append(lines, a))
    BY <2>1, <2>2, <2>3
  <2>8. Follows(t.passed, Append(lines, a), t.open)
    BY <2>6, <2>7 DEF Follows
  <2> QED BY <1>2, <2>8 DEF InStep, t
<1>4. CASE ~(s.open /\ ~fails)
  <2>1. t.passed = s.passed /\ ~t.open
    BY <1>1, <1>4
  <2> HIDE DEF t
  <2>2. /\ Append(lines, a) \in Seq(Proxy!Line) /\ Len(Append(lines, a)) = Len(lines) + 1
        /\ \A i \in 1..Len(lines) : Append(lines, a)[i] = lines[i]
    BY DEF InStep, Follows
  <2>3. Follows(t.passed, Append(lines, a), t.open)
    BY <2>1, <2>2 DEF InStep, Follows
  <2> QED BY <1>2, <2>3 DEF InStep, t
<1> QED BY <1>3, <1>4

(* Every connection, the ended ones included.                              *)
ProxyInv ==
  /\ cfg \in Proxy!Config /\ listening \in BOOLEAN
  /\ conn \in [Miners -> {"none", "open", "closed"}]
  /\ extranonce \in [Miners -> BOOLEAN]
  /\ sent \in [Miners -> Seq(Proxy!Line)] /\ passed \in [Miners -> Seq(Passed)]
  /\ \A m \in Miners : Follows(passed[m], sent[m], conn[m] # "closed" \/ ~cfg.strict)

(* A chunk is handled as a whole.                                          *)
LEMMA DataInv ==
  ASSUME ProxyInv, NEW m \in Miners, NEW chunk \in Seq(Proxy!Line), NEW s,
         InStep(s, sent[m] \o chunk), Proxy!DenData(m, chunk, s)
  PROVE  ProxyInv'
<1>1. /\ sent' = [sent EXCEPT ![m] = sent[m] \o chunk]
      /\ passed' = [passed EXCEPT ![m] = s.passed]
      /\ extranonce' = [extranonce EXCEPT ![m] = s.extranonce]
      /\ conn' = [conn EXCEPT ![m] = IF s.failed THEN "closed" ELSE conn[m]]
      /\ cfg' = cfg /\ conn[m] = "open"
  BY DEF Proxy!DenData
<1>2. listening' \in BOOLEAN
  BY Zenon DEF Proxy!DenData
<1>3. sent[m] \o chunk \in Seq(Proxy!Line) /\ s.passed \in Seq(Passed)
  BY DEF InStep, Follows
<1>4. extranonce' \in [Miners -> BOOLEAN]
  BY <1>1, Zenon DEF InStep, ProxyInv
<1>5. /\ conn' \in [Miners -> {"none", "open", "closed"}]
      /\ sent' \in [Miners -> Seq(Proxy!Line)] /\ passed' \in [Miners -> Seq(Passed)]
      /\ cfg' \in Proxy!Config
  BY <1>1, <1>3 DEF ProxyInv
<1>6. ASSUME NEW x \in Miners
      PROVE  Follows(passed'[x], sent'[x], conn'[x] # "closed" \/ ~cfg.strict)
  <2>1. CASE x = m
    <3>1. passed'[x] = s.passed /\ sent'[x] = sent[m] \o chunk
      BY <1>1, <2>1 DEF ProxyInv
    <3>2. conn'[x] # "closed" \/ ~cfg.strict => s.open
      BY <1>1, <2>1 DEF ProxyInv, InStep
    <3> QED BY <3>1, <3>2 DEF InStep, Follows
  <2>2. CASE x # m
    BY <1>1, <2>2 DEF ProxyInv
  <2> QED BY <2>1, <2>2
<1> QED BY <1>1, <1>2, <1>4, <1>5, <1>6 DEF ProxyInv, Follows, Proxy!verifyOutputs

(* An open connection starts a chunk in step.                              *)
LEMMA FreshInStep ==
  ASSUME ProxyInv, NEW m \in Miners, conn[m] = "open"
  PROVE  InStep(Proxy!Fresh(m), sent[m])
<1>1. Follows(passed[m], sent[m], TRUE)
  BY DEF ProxyInv
<1>2. extranonce[m] \in BOOLEAN
  BY DEF ProxyInv
<1> QED BY <1>1, <1>2 DEF Proxy!Fresh, InStep

(* A step keeps every connection in step.                                  *)
LEMMA ProxyStepInv == ProxyInv /\ [Proxy!Next]_proxyVars => ProxyInv'
<1> SUFFICES ASSUME ProxyInv, [Proxy!Next]_proxyVars PROVE ProxyInv'
  OBVIOUS
<1>1. CASE UNCHANGED proxyVars
  BY <1>1 DEF proxyVars, ProxyInv, Follows, Proxy!verifyOutputs
<1>2. ASSUME NEW m \in Miners, Proxy!Connect(m) \/ Proxy!closeBoth(m) PROVE ProxyInv'
  <2>1. /\ UNCHANGED <<cfg, listening, extranonce, sent, passed>>
        /\ \/ conn[m] = "none" /\ conn' = [conn EXCEPT ![m] = "open"]
           \/ conn' = [conn EXCEPT ![m] = "closed"]
    BY <1>2 DEF Proxy!Connect, Proxy!closeBoth
  <2>2. \A x \in Miners : conn'[x] # "closed" => conn[x] # "closed"
    BY <2>1 DEF ProxyInv
  <2> QED BY <2>1, <2>2 DEF ProxyInv, Follows, Proxy!verifyOutputs
<1>3. ASSUME NEW m \in Miners, NEW a \in Proxy!Line, Proxy!OneLine(m, a) PROVE ProxyInv'
  <2>1. /\ conn[m] = "open" /\ sent[m] \in Seq(Proxy!Line) /\ cfg \in Proxy!Config
    BY <1>3 DEF Proxy!OneLine, Proxy!DenData, ProxyInv
  <2>2. sent[m] \o <<a>> = Append(sent[m], a) /\ <<a>> \in Seq(Proxy!Line)
    BY <2>1
  <2>3. InStep(Proxy!Observe(Proxy!Fresh(m), a), sent[m] \o <<a>>)
    BY <2>1, <2>2, FreshInStep, ObserveFollows
  <2> QED BY <1>3, <2>2, <2>3, DataInv DEF Proxy!OneLine
<1>4. ASSUME NEW m \in Miners, NEW a \in Proxy!Line, NEW b \in Proxy!Line, Proxy!TwoLines(m, a, b)
      PROVE  ProxyInv'
  <2>1. /\ conn[m] = "open" /\ sent[m] \in Seq(Proxy!Line) /\ cfg \in Proxy!Config
    BY <1>4 DEF Proxy!TwoLines, Proxy!DenData, ProxyInv
  <2>2. /\ sent[m] \o <<a, b>> = Append(Append(sent[m], a), b)
        /\ <<a, b>> \in Seq(Proxy!Line)
    BY <2>1
  <2>3. InStep(Proxy!Observe(Proxy!Fresh(m), a), Append(sent[m], a))
    BY <2>1, FreshInStep, ObserveFollows
  <2>4. InStep(Proxy!Observe(Proxy!Observe(Proxy!Fresh(m), a), b), sent[m] \o <<a, b>>)
    BY <2>1, <2>2, <2>3, ObserveFollows
  <2> QED BY <1>4, <2>2, <2>4, DataInv DEF Proxy!TwoLines
<1>5. Lines \subseteq Proxy!Line
  BY ProxyAssumption
<1> QED BY <1>1, <1>2, <1>3, <1>4, <1>5 DEF Proxy!Next

(* What a rig was given is then a prefix of what its den sent.             *)
LEMMA ProxyInvPasses == ProxyInv => Proxy!PassesWhatItMay /\ Proxy!TypeOK
<1> SUFFICES ASSUME ProxyInv PROVE Proxy!PassesWhatItMay /\ Proxy!TypeOK
  OBVIOUS
<1>1. ASSUME NEW m \in Miners
      PROVE LET lines == [i \in DOMAIN passed[m] |-> passed[m][i].line] IN
    /\ Proxy!IsPrefix(lines, sent[m])
    /\ ~cfg.strict => lines = sent[m]
    /\ cfg.strict => \A i \in DOMAIN passed[m] : passed[m][i].seen => Proxy!verifyOutputs(lines[i])
  <2> DEFINE lines == [i \in DOMAIN passed[m] |-> passed[m][i].line]
  <2>1. /\ passed[m] \in Seq(Passed) /\ sent[m] \in Seq(Proxy!Line)
        /\ Len(passed[m]) <= Len(sent[m])
        /\ ~cfg.strict => Len(passed[m]) = Len(sent[m])
        /\ \A i \in 1..Len(passed[m]) :
             /\ passed[m][i].line = sent[m][i]
             /\ cfg.strict /\ passed[m][i].seen => Proxy!verifyOutputs(passed[m][i].line)
    BY DEF ProxyInv, Follows
  <2>2. DOMAIN passed[m] = 1..Len(passed[m])
    BY <2>1
  <2>3. lines \in Seq(Proxy!Line) /\ Len(lines) = Len(passed[m])
        /\ \A i \in 1..Len(passed[m]) : lines[i] = passed[m][i].line
    <3>1. lines \in [1..Len(passed[m]) -> Proxy!Line]
      BY <2>1, <2>2 DEF Passed
    <3> QED BY <2>1, <2>2, <3>1
  <2>4. Proxy!IsPrefix(lines, sent[m])
    <3> HIDE DEF lines
    <3>1. SubSeq(lines, 1, Len(lines)) = SubSeq(sent[m], 1, Len(lines))
      BY <2>1, <2>3
    <3> QED BY <2>1, <2>3, <3>1 DEF Proxy!IsPrefix
  <2>5. ~cfg.strict => lines = sent[m]
    <3> HIDE DEF lines
    <3> QED BY <2>1, <2>3
  <2> QED BY <2>1, <2>2, <2>3, <2>4, <2>5
<1>2. Proxy!TypeOK
  <2>1. ASSUME NEW m \in Miners
        PROVE  /\ \A i \in DOMAIN sent[m] : sent[m][i] \in Proxy!Line
               /\ \A i \in DOMAIN passed[m] : passed[m][i] \in Passed
    BY DEF ProxyInv
  <2> QED BY <2>1 DEF ProxyInv, Proxy!TypeOK, Passed
<1> QED BY <1>1, <1>2 DEF Proxy!PassesWhatItMay

(* A server without connections is in step.                                *)
LEMMA ProxyStart == Proxy!Init => ProxyInv
  BY ProxyAssumption DEF Proxy!Init, ProxyInv, Follows, Proxy!verifyOutputs,
       Proxy!Config

(* The proxy passes on every line, or in strict mode every line up to the  *)
(* first job that fails, however the lines come in chunks: for any number  *)
(* of rigs, any lines and thresholds.                                      *)
THEOREM ProxyPassesWhatItMay == PoolSpec => []PassesWhatItMay
<1>1. PoolInit => ProxyInv
  BY ProxyStart DEF PoolInit
<1>2. ProxyInv /\ [PoolNext]_poolVars => ProxyInv'
  BY PartSteps, ProxyStepInv
<1>3. ProxyInv => PassesWhatItMay
  BY ProxyInvPasses DEF PassesWhatItMay
<1> QED BY <1>1, <1>2, <1>3, PTL DEF PoolSpec
-----------------------------------------------------------------------------
(* The share book                                                          *)

(* A call, and its share.                                                  *)
BookSteps == {"slot", "best", "entity", "address"}
ShareCall == [id : 1..MaxShares, slot : 1..MaxSlots, proof : Proofs, at : BookSteps]
Of(k) == [id |-> k.id, slot |-> k.slot, proof |-> k.proof]

(* The calls whose share is not in memory yet, as they save the old slot   *)
(* first, and the shares of a slot that are.                               *)
Pending == {k \in shareCalls : k.at = "slot"}
Counted(s) == {x \in handled : x.slot = s /\ \A k \in Pending : k.id # x.id}

(* The types, and the history of shares: numbered in their order, and at   *)
(* most one call for each.                                                 *)
BookTyped ==
  /\ slot \in 1..MaxSlots /\ mine \in 0..MaxSlots
  /\ count \in Nat /\ saved \in BOOLEAN
  /\ stats \in [1..MaxSlots -> Seq(Nat)]
  /\ shareCalls \subseteq ShareCall /\ \A k \in shareCalls : Of(k) \in handled
  /\ bookBest \in Proofs \cup {0} /\ address \in Proofs \cup {-1, 0}
  /\ handled \subseteq Book!Shares
  /\ failed \in BOOLEAN

SharesNumbered ==
  /\ IsFiniteSet(handled) /\ Cardinality(handled) <= MaxShares
  /\ \A x \in handled : x.id <= Cardinality(handled)
  /\ \A x, y \in handled : x.id = y.id => x = y
  /\ \A k, l \in shareCalls : k.id = l.id => k = l
  /\ \A k, l \in shareCalls : k = l \/ k.id \in crowded

(* The slot in memory has a row, and later slots have none; the calls that *)
(* save it first are of the slot it is now.                                *)
RowsInPlace ==
  /\ mine <= slot
  /\ mine = 0 => handled = {} /\ count = 0
  /\ mine > 0 => stats[mine] # <<>>
  /\ \A s \in 1..MaxSlots : s > mine => stats[s] = <<>>
  /\ \A x \in handled : x.slot <= slot
  /\ \A k \in Pending : k.slot = slot /\ (crowded = {} => mine # slot)
  /\ count <= Cardinality(Counted(mine))
  /\ \A s \in 1..MaxSlots : \A i \in 1..Len(stats[s]) : stats[s][i] <= MaxShares

(* Until a statement throws: memory counts the shares of its slot that do  *)
(* not wait, a row that was saved before the slot changes has that count,  *)
(* the single row of an older slot counts its shares, and every younger    *)
(* share waits.                                                            *)
RowsComplete ==
  ~failed =>
    /\ \A x \in handled : x.slot > mine => \E k \in Pending : k.id = x.id
    /\ mine > 0 /\ Len(stats[mine]) = 1 => count = Cardinality(Counted(mine))
    /\ Pending # {} /\ mine # slot /\ Len(stats[mine]) = 1 => stats[mine][1] = count
    /\ \A s \in 1..MaxSlots : s < mine =>
         /\ Len(stats[s]) = 1 => stats[s][1] = Cardinality(Counted(s))
         /\ s + 1 >= slot /\ Counted(s) # {} => stats[s] # <<>>

(* Without two shares at a time no slot has two rows.                      *)
RowsSingle == crowded = {} => \A s \in 1..MaxSlots : Len(stats[s]) <= 1

(* The best difficulty is that of a share, and no worse than a share that  *)
(* was handled alone; what is about to be written beats all of those.  A   *)
(* share that is alone so far is the last one, and the best so far is      *)
(* another's until it is written.                                          *)
CrowdedKnown == crowded \subseteq {x.id : x \in handled}
BestIsOfShare ==
  bookBest > 0 => \E x \in handled : x.proof = bookBest
AloneIsCounted ==
  \A x \in Book!Alone :
    /\ x.proof <= bookBest
    /\ Book!Record(x) => x.proof <= address
    /\ \A k \in shareCalls : k.at \in {"entity", "address"} => x.proof < k.proof
AloneIsLast ==
  \A k \in shareCalls : k.id \notin crowded =>
    /\ \A x \in handled : x.id <= k.id
    /\ k.at = "address" => k.proof <= bookBest
    /\ k.at # "address" /\ bookBest > 0 =>
         \E x \in handled : x.proof = bookBest /\ x.id < k.id
BestsInv == CrowdedKnown /\ BestIsOfShare /\ (~failed => AloneIsCounted /\ AloneIsLast)

(* ShareBook counts as this module does.                                   *)
LEMMA BookCounts == \A S : Book!Cardinality(S) = Cardinality(S)
BY DEF Book!Cardinality, Cardinality

(* A new element counts one.                                               *)
LEMMA CardOne ==
  ASSUME NEW S, IsFiniteSet(S), NEW x, x \notin S
  PROVE  /\ IsFiniteSet(S \cup {x}) /\ Cardinality(S \cup {x}) = Cardinality(S) + 1
         /\ Cardinality(S) \in Nat
BY FS_AddElement, FS_CardinalityType

(* the shareCalls after one moved on or ended *)
(* A call that goes on or ends keeps the calls in order.                   *)
LEMMA GotoKeeps ==
  ASSUME BookTyped, SharesNumbered, UNCHANGED <<handled, crowded>>, NEW k \in shareCalls,
         \/ shareCalls' = shareCalls \ {k}
         \/ \E to \in BookSteps : Book!Goto(k, to)
  PROVE  /\ shareCalls' \subseteq ShareCall /\ \A l \in shareCalls' : Of(l) \in handled'
         /\ SharesNumbered'
<1>1. CASE shareCalls' = shareCalls \ {k}
  BY <1>1 DEF BookTyped, SharesNumbered, Of
<1>2. ASSUME NEW to \in BookSteps, Book!Goto(k, to)
      PROVE  /\ shareCalls' \subseteq ShareCall /\ \A l \in shareCalls' : Of(l) \in handled'
             /\ SharesNumbered'
  <2> DEFINE n == [k EXCEPT !.at = to]
  <2>1. k \in ShareCall
    BY DEF BookTyped
  <2>2. n \in ShareCall /\ n.id = k.id /\ Of(n) = Of(k)
    BY <2>1 DEF ShareCall, Of
  <2>3. shareCalls' = (shareCalls \ {k}) \cup {n}
    BY <1>2 DEF Book!Goto
  <2> HIDE DEF n
  <2>4. shareCalls' \subseteq ShareCall /\ \A l \in shareCalls' : Of(l) \in handled'
    BY <2>2, <2>3 DEF BookTyped
  <2>5. \A l, m \in shareCalls' : l.id = m.id => l = m
    BY <2>2, <2>3 DEF SharesNumbered
  <2>6. \A l, m \in shareCalls' : l = m \/ l.id \in crowded'
    BY <2>2, <2>3 DEF SharesNumbered
  <2> QED BY <2>4, <2>5, <2>6 DEF SharesNumbered
<1> QED BY <1>1, <1>2

(* So does a new share.                                                    *)
LEMMA ShareKeeps ==
  ASSUME BookTyped, SharesNumbered, NEW p \in Proofs, Book!Share(p)
  PROVE  /\ shareCalls' \subseteq ShareCall /\ \A l \in shareCalls' : Of(l) \in handled'
         /\ handled' \subseteq Book!Shares
         /\ SharesNumbered'
<1> DEFINE s == [id |-> Cardinality(handled) + 1, slot |-> slot, proof |-> p]
           Call(to) == [id |-> s.id, slot |-> slot, proof |-> p, at |-> to]
<1>1. PICK to \in BookSteps : shareCalls' = shareCalls \cup {Call(to)}
  BY BookCounts DEF Book!Share, BookSteps
<1>2. /\ s.id <= MaxShares /\ handled' = handled \cup {s}
      /\ crowded' = crowded \cup IF shareCalls = {} THEN {}
                                ELSE {s.id} \cup {k.id : k \in shareCalls}
  BY BookCounts DEF Book!Share
<1>3. Cardinality(handled) \in Nat
  BY FS_CardinalityType DEF SharesNumbered
<1>4. s \in Book!Shares /\ s.id = Cardinality(handled) + 1
  BY <1>2, <1>3 DEF BookTyped, Book!Shares
<1>5. s \notin handled /\ \A x \in handled : x.id # s.id
  BY <1>3, <1>4 DEF SharesNumbered, BookTyped, Book!Shares
<1>6. Call(to) \in ShareCall /\ Of(Call(to)) = s /\ Call(to).id = s.id
  BY <1>4 DEF ShareCall, Of, Book!Shares
<1>7. \A k \in shareCalls : k.id # s.id
  <2>1. \A k \in shareCalls : Of(k) \in handled /\ Of(k).id = k.id
    BY DEF BookTyped, Of
  <2> QED BY <2>1, <1>5
<1>8. /\ IsFiniteSet(handled') /\ Cardinality(handled') = Cardinality(handled) + 1
  BY <1>2, <1>5, CardOne DEF SharesNumbered
<1> HIDE DEF s, Call
<1>9. shareCalls' \subseteq ShareCall /\ handled' \subseteq Book!Shares
  BY <1>1, <1>2, <1>4, <1>6 DEF BookTyped
<1>10. \A l \in shareCalls' : Of(l) \in handled'
  BY <1>1, <1>2, <1>6 DEF BookTyped
<1>11. \A x \in handled' : x.id <= Cardinality(handled')
  BY <1>2, <1>3, <1>4, <1>8 DEF SharesNumbered, BookTyped, Book!Shares
<1>12. \A x, y \in handled' : x.id = y.id => x = y
  BY <1>2, <1>5 DEF SharesNumbered
<1>13. \A k, l \in shareCalls' : k.id = l.id => k = l
  BY <1>1, <1>6, <1>7 DEF SharesNumbered
<1>14. \A k, l \in shareCalls' : k = l \/ k.id \in crowded'
  BY <1>1, <1>2, <1>6 DEF SharesNumbered
<1> QED BY <1>2, <1>3, <1>4, <1>8, <1>9, <1>10, <1>11, <1>12, <1>13, <1>14
             DEF SharesNumbered

(* The update of a slot's rows sets them all, and the insert adds one.     *)
LEMMA RowsUpdated ==
  ASSUME BookTyped, NEW s \in 1..MaxSlots, NEW n \in Nat, Book!Updated(s, n)
  PROVE  /\ stats' \in [1..MaxSlots -> Seq(Nat)]
         /\ \A t \in 1..MaxSlots : /\ t # s => stats'[t] = stats[t]
                                   /\ Len(stats'[t]) = Len(stats[t])
                                   /\ (stats'[t] = <<>>) <=> (stats[t] = <<>>)
         /\ \A i \in 1..Len(stats[s]) : stats'[s][i] = n
<1> DEFINE r == [i \in DOMAIN stats[s] |-> n]
<1>1. stats[s] \in Seq(Nat) /\ stats \in [1..MaxSlots -> Seq(Nat)]
  BY DEF BookTyped
<1>2. stats' = [stats EXCEPT ![s] = r]
  BY DEF Book!Updated
<1>3. DOMAIN stats[s] = 1..Len(stats[s]) /\ Len(stats[s]) \in Nat
  BY <1>1
<1>4. r \in [1..Len(stats[s]) -> Nat] /\ \A i \in 1..Len(stats[s]) : r[i] = n
  BY <1>3
<1>5. r \in Seq(Nat) /\ Len(r) = Len(stats[s])
  BY <1>3, <1>4
<1> HIDE DEF r
<1>6. r = <<>> <=> stats[s] = <<>>
  BY <1>1, <1>5
<1>7. stats'[s] = r /\ \A t \in 1..MaxSlots : t # s => stats'[t] = stats[t]
  BY <1>1, <1>2
<1>8. stats' \in [1..MaxSlots -> Seq(Nat)]
  BY <1>1, <1>2, <1>5
<1> QED BY <1>4, <1>5, <1>6, <1>7, <1>8

LEMMA RowsInserted ==
  ASSUME BookTyped, NEW s \in 1..MaxSlots, NEW n \in Nat, Book!Inserted(s, n)
  PROVE  /\ stats' \in [1..MaxSlots -> Seq(Nat)]
         /\ \A t \in 1..MaxSlots : t # s => stats'[t] = stats[t]
         /\ Len(stats'[s]) = Len(stats[s]) + 1 /\ stats'[s] # <<>>
         /\ \A i \in 1..Len(stats[s]) : stats'[s][i] = stats[s][i]
         /\ stats'[s][Len(stats[s]) + 1] = n
<1>1. stats[s] \in Seq(Nat) /\ stats \in [1..MaxSlots -> Seq(Nat)]
  BY DEF BookTyped
<1>2. stats' = [stats EXCEPT ![s] = Append(stats[s], n)]
  BY DEF Book!Inserted
<1>3. Append(stats[s], n) \in Seq(Nat)
  BY <1>1
<1>4. stats'[s] = Append(stats[s], n)
  BY <1>1, <1>2
<1> QED BY <1>1, <1>2, <1>3, <1>4

(* The types of the share book.                                            *)
LEMMA BookTypesKept ==
  ASSUME BookTyped, SharesNumbered, RowsInPlace, [Book!Next]_bookVars
  PROVE  BookTyped' /\ SharesNumbered'
<1> USE DEF Book!book, Book!bests, Book!past
<1>1. CASE UNCHANGED bookVars
  BY <1>1 DEF bookVars, BookTyped, SharesNumbered, Of, ShareCall, Book!Shares
<1>2. CASE UNCHANGED <<shareCalls, handled, crowded>>
           /\ ( \/ Book!Minute
                \/ \E p \in Proofs : Book!OtherConnection(p)
                \/ \E s \in 1..MaxSlots : Book!DeleteOldStatistics(s))
  <2>1. SharesNumbered'
    BY <1>2 DEF SharesNumbered
  <2>2. /\ shareCalls' \subseteq ShareCall /\ \A k \in shareCalls' : Of(k) \in handled'
        /\ handled' \subseteq Book!Shares
    BY <1>2, Zenon DEF BookTyped, Of
  <2>3. saved' \in BOOLEAN /\ failed' \in BOOLEAN
    BY <1>2, Zenon DEF BookTyped, Book!Minute,
       Book!OtherConnection, Book!DeleteOldStatistics
  <2>4. /\ slot' \in 1..MaxSlots /\ mine' = mine /\ count' = count
        /\ bookBest' = bookBest /\ address' \in Proofs \cup {-1, 0}
    BY <1>2 DEF BookTyped, Book!Minute,
       Book!OtherConnection, Book!DeleteOldStatistics
  <2>5. stats' \in [1..MaxSlots -> Seq(Nat)]
    <3>1. <<>> \in Seq(Nat)
      OBVIOUS
    <3> QED BY <1>2, <3>1 DEF BookTyped, Book!Minute,
                 Book!OtherConnection, Book!DeleteOldStatistics
  <2> QED BY <2>1, <2>2, <2>3, <2>4, <2>5 DEF BookTyped
<1>3. ASSUME NEW p \in Proofs, Book!Share(p) PROVE BookTyped' /\ SharesNumbered'
  <2>1. /\ shareCalls' \subseteq ShareCall /\ \A k \in shareCalls' : Of(k) \in handled'
        /\ handled' \subseteq Book!Shares /\ SharesNumbered'
    BY <1>3, ShareKeeps
  <2>2. saved' \in BOOLEAN /\ failed' \in BOOLEAN
    BY <1>3, Zenon DEF BookTyped, Book!Share, Book!FirstShare, Book!SameSlot,
         Book!LeaveSlot
  <2>3. /\ slot' = slot /\ bookBest' = bookBest /\ address' = address
        /\ mine' \in 0..MaxSlots /\ count' \in Nat
    BY <1>3 DEF BookTyped, Book!Share, Book!FirstShare, Book!SameSlot, Book!LeaveSlot
  <2>4. stats' \in [1..MaxSlots -> Seq(Nat)]
    <3>1. count \in Nat /\ count + 1 \in Nat /\ slot \in 1..MaxSlots
          /\ mine \in 0..MaxSlots /\ stats \in [1..MaxSlots -> Seq(Nat)]
      BY DEF BookTyped
    <3>2. CASE Book!FirstShare
      BY <3>1, <3>2, RowsInserted, RowsUpdated DEF Book!FirstShare
    <3>3. CASE Book!SameSlot
      BY <3>1, <3>3, RowsInserted, RowsUpdated DEF Book!SameSlot
    <3>4. CASE Book!LeaveSlot
      <4>1. mine \in 1..MaxSlots
        BY <3>1, <3>4 DEF Book!LeaveSlot
      <4> QED BY <3>1, <3>4, <4>1, RowsInserted, RowsUpdated DEF Book!LeaveSlot
    <3> QED BY <1>3, <3>2, <3>3, <3>4 DEF Book!Share
  <2> QED BY <2>1, <2>2, <2>3, <2>4 DEF BookTyped
<1>4. ASSUME NEW k \in shareCalls,
             \/ Book!NewSlot(k) \/ Book!StatisticsThrow(k) \/ Book!NotBetter(k) \/ Book!Better(k)
             \/ Book!BestOfEntity(k) \/ Book!BestOfAddress(k) \/ Book!BestThrows(k)
      PROVE  BookTyped' /\ SharesNumbered'
  <2>1. /\ UNCHANGED <<slot, handled, crowded>>
        /\ \/ shareCalls' = shareCalls \ {k}
           \/ \E to \in BookSteps : Book!Goto(k, to)
    BY <1>4 DEF Book!NewSlot, Book!StatisticsThrow, Book!NotBetter, Book!Better,
         Book!BestOfEntity,
       Book!BestOfAddress, Book!BestThrows, BookSteps
  <2>2. /\ shareCalls' \subseteq ShareCall /\ \A l \in shareCalls' : Of(l) \in handled'
        /\ SharesNumbered'
    BY <2>1, GotoKeeps
  <2>3. /\ k.slot \in 1..MaxSlots /\ k.proof \in Proofs
    BY DEF BookTyped, ShareCall
  <2>4. saved' \in BOOLEAN /\ failed' \in BOOLEAN
    BY <1>4, Zenon DEF BookTyped, Book!NewSlot, Book!StatisticsThrow, Book!NotBetter,
         Book!Better,
       Book!BestOfEntity, Book!BestOfAddress, Book!BestThrows
  <2>5. /\ mine' \in 0..MaxSlots /\ count' \in Nat
        /\ bookBest' \in Proofs \cup {0} /\ address' \in Proofs \cup {-1, 0}
    BY <1>4, <2>3 DEF BookTyped, Book!NewSlot, Book!StatisticsThrow, Book!NotBetter,
         Book!Better,
       Book!BestOfEntity, Book!RememberBest, Book!BestOfAddress, Book!BestThrows
  <2>6. stats' \in [1..MaxSlots -> Seq(Nat)]
    BY <1>4, <2>3, RowsInserted, RowsUpdated DEF BookTyped, Book!NewSlot,
         Book!StatisticsThrow, Book!NotBetter, Book!Better,
       Book!BestOfEntity, Book!BestOfAddress, Book!BestThrows
  <2>7. slot' \in 1..MaxSlots /\ handled' \subseteq Book!Shares
    BY <2>1 DEF BookTyped
  <2> QED BY <2>2, <2>4, <2>5, <2>6, <2>7 DEF BookTyped
<1> QED BY <1>1, <1>2, <1>3, <1>4 DEF Book!Next, Book!Minute,
       Book!OtherConnection, Book!DeleteOldStatistics

(* What a step does to the shares counted of a slot: nothing, where it     *)
(* moves a call whose share is in memory; one more, where a call's share   *)
(* comes to memory or a new share goes there at once.                      *)
LEMMA CountedFinite ==
  ASSUME SharesNumbered, NEW s
  PROVE  /\ IsFiniteSet(Counted(s)) /\ Cardinality(Counted(s)) \in Nat
         /\ Cardinality(Counted(s)) <= MaxShares
<1>1. Counted(s) \subseteq handled
  BY DEF Counted
<1>2. IsFiniteSet(handled) /\ Cardinality(handled) \in Nat
  BY FS_CardinalityType DEF SharesNumbered
<1>3. IsFiniteSet(Counted(s)) /\ Cardinality(Counted(s)) <= Cardinality(handled)
  BY <1>1, <1>2, FS_Subset
<1> QED BY <1>2, <1>3, FS_CardinalityType, BookAssumption DEF SharesNumbered

LEMMA CountedStays ==
  ASSUME BookTyped, NEW k \in shareCalls, k.at # "slot", UNCHANGED handled,
         \/ shareCalls' = shareCalls \ {k}
         \/ \E to \in BookSteps \ {"slot"} : Book!Goto(k, to)
  PROVE  Pending' = Pending /\ \A s : Counted(s)' = Counted(s)
<1>1. Pending' = Pending
  <2>1. CASE shareCalls' = shareCalls \ {k}
    BY <2>1 DEF Pending
  <2>2. ASSUME NEW to \in BookSteps \ {"slot"}, Book!Goto(k, to) PROVE Pending' = Pending
    <3>1. [k EXCEPT !.at = to].at = to
      BY DEF BookTyped, ShareCall
    <3> QED BY <2>2, <3>1 DEF Pending, Book!Goto
  <2> QED BY <2>1, <2>2
<1>2. \A s : Counted(s)' = Counted(s)
  BY <1>1 DEF Counted
<1> QED BY <1>1, <1>2

LEMMA CountedLeaves ==
  ASSUME BookTyped, SharesNumbered, NEW k \in Pending, UNCHANGED handled, Book!Goto(k, "best")
  PROVE  /\ Pending' = Pending \ {k}
         /\ Of(k) \in handled /\ Of(k).slot = k.slot /\ Of(k).id = k.id
         /\ Of(k) \notin Counted(k.slot)
         /\ Counted(k.slot)' = Counted(k.slot) \cup {Of(k)}
         /\ \A s : s # k.slot => Counted(s)' = Counted(s)
<1> DEFINE n == [k EXCEPT !.at = "best"]
<1>1. k \in shareCalls /\ k.at = "slot" /\ k \in ShareCall
  BY DEF Pending, BookTyped
<1>2. n.at = "best" /\ shareCalls' = (shareCalls \ {k}) \cup {n}
  BY <1>1 DEF Book!Goto, ShareCall
<1> HIDE DEF n
<1>3. Pending' = Pending \ {k}
  BY <1>1, <1>2 DEF Pending
<1>4. Of(k) \in handled /\ Of(k).slot = k.slot /\ Of(k).id = k.id
  BY <1>1 DEF BookTyped, Of
<1>5. Of(k) \notin Counted(k.slot)
  BY <1>4 DEF Counted
<1>6. \A l \in Pending : l.id = k.id => l = k
  BY <1>1 DEF SharesNumbered, Pending
<1>7. \A x \in handled : x.id = k.id => x = Of(k)
  BY <1>4 DEF SharesNumbered
<1>8. \A s, x : x \in Counted(s)' <=> x \in Counted(s) \/ (x = Of(k) /\ s = k.slot)
  BY <1>3, <1>4, <1>6, <1>7 DEF Counted
<1>9. Counted(k.slot)' = Counted(k.slot) \cup {Of(k)}
  BY <1>8
<1>10. \A s : s # k.slot => Counted(s)' = Counted(s)
  BY <1>8
<1> QED BY <1>3, <1>4, <1>5, <1>9, <1>10

LEMMA CountedShare ==
  ASSUME BookTyped, SharesNumbered, NEW p \in Proofs, Book!Share(p)
  PROVE  \E x, c :
           /\ x \notin handled /\ x.slot = slot /\ x.proof = p
           /\ handled' = handled \cup {x} /\ c.id = x.id /\ c.slot = slot
           /\ c.proof = p /\ shareCalls' = shareCalls \cup {c}
           /\ \/ /\ Book!FirstShare \/ Book!SameSlot
                 /\ c.at = "best"
                 /\ Pending' = Pending
                 /\ \A s : Counted(s)' = IF s = slot THEN Counted(s) \cup {x} ELSE Counted(s)
              \/ /\ Book!LeaveSlot
                 /\ c.at = "slot"
                 /\ Pending' = Pending \cup {c}
                 /\ \A s : Counted(s)' = Counted(s)
<1> DEFINE x == [id |-> Cardinality(handled) + 1, slot |-> slot, proof |-> p]
           Call(to) == [id |-> x.id, slot |-> slot, proof |-> p, at |-> to]
<1>1. Cardinality(handled) \in Nat
  BY FS_CardinalityType DEF SharesNumbered
<1>2. \A y \in handled : y.id # x.id
  BY <1>1 DEF SharesNumbered, BookTyped, Book!Shares
<1>3. \A k \in Pending : k.id # x.id
  <2>1. \A k \in Pending : Of(k) \in handled /\ Of(k).id = k.id
    BY DEF BookTyped, Of, Pending
  <2> QED BY <2>1, <1>2
<1>4. x \notin handled /\ x.slot = slot /\ x.proof = p /\ handled' = handled \cup {x}
  BY <1>2, BookCounts DEF Book!Share
<1>5. CASE (Book!FirstShare \/ Book!SameSlot) /\ shareCalls' = shareCalls \cup {Call("best")}
  <2> DEFINE c == Call("best")
  <2>1. c.id = x.id /\ c.slot = slot /\ c.proof = p /\ c.at = "best"
    OBVIOUS
  <2>0. shareCalls' = shareCalls \cup {c}
    BY <1>5
  <2> HIDE DEF x, c
  <2>2. Pending' = Pending
    BY <2>0, <2>1 DEF Pending
  <2>3. \A s : s = slot => Counted(s)' = Counted(s) \cup {x}
    BY <1>3, <1>4, <2>2 DEF Counted
  <2>4. \A s : s # slot => Counted(s)' = Counted(s)
    BY <1>4, <2>2 DEF Counted
  <2>5. \A s : Counted(s)' = IF s = slot THEN Counted(s) \cup {x} ELSE Counted(s)
    BY <2>3, <2>4
  <2> QED BY <1>4, <1>5, <2>0, <2>1, <2>2, <2>5
<1>6. CASE Book!LeaveSlot /\ shareCalls' = shareCalls \cup {Call("slot")}
  <2> DEFINE c == Call("slot")
  <2>1. c.id = x.id /\ c.slot = slot /\ c.proof = p /\ c.at = "slot"
    OBVIOUS
  <2>0. shareCalls' = shareCalls \cup {c}
    BY <1>6
  <2> HIDE DEF x, c
  <2>2. Pending' = Pending \cup {c}
    BY <2>0, <2>1 DEF Pending
  <2>3. \A s, y : y \in Counted(s)' <=> y \in Counted(s)
    BY <1>2, <1>4, <2>1, <2>2 DEF Counted
  <2>4. \A s : Counted(s)' = Counted(s)
    BY <2>3
  <2> QED BY <1>4, <1>6, <2>0, <2>1, <2>2, <2>4
<1> QED BY <1>5, <1>6, BookCounts DEF Book!Share

(* The rows and the counter, one lemma for each kind of step.              *)
RowsInv == BookTyped /\ SharesNumbered /\ RowsInPlace /\ RowsComplete /\ RowsSingle

(* A step that has nothing to do with rows.                                *)
LEMMA RowsAlone ==
  ASSUME RowsInv, BookTyped', SharesNumbered', UNCHANGED <<slot, Book!book, handled, crowded>>,
         failed => failed', Pending' = Pending, \A s : Counted(s)' = Counted(s)
  PROVE  RowsInv'
<1>1. Counted(mine)' = Counted(mine)
  BY DEF Book!book
<1>2. RowsInPlace' /\ RowsSingle'
  BY <1>1 DEF RowsInv, RowsInPlace, RowsSingle, Book!book
<1>3. RowsComplete'
  BY <1>1 DEF RowsInv, RowsComplete, Book!book
<1> QED BY <1>2, <1>3 DEF RowsInv

(* The slot changes only while no call waits to save the old one.          *)
LEMMA RowsMinute ==
  ASSUME RowsInv, BookTyped', SharesNumbered', Book!Minute
  PROVE  RowsInv'
<1>1. /\ UNCHANGED <<mine, count, stats, shareCalls, handled, crowded, failed>>
      /\ slot' \in {slot, slot + 1}
      /\ slot' # slot => Pending = {}
  BY DEF Book!Minute, Pending, Book!past
<1>2. Pending' = Pending /\ \A s : Counted(s)' = Counted(s)
  BY <1>1 DEF Pending, Counted
<1>3. Counted(mine)' = Counted(mine)
  BY <1>1, <1>2
<1>4. slot \in Nat /\ slot' \in Nat /\ mine \in Nat /\ MaxSlots \in Nat
      /\ \A x \in handled : x.slot \in Nat
  BY BookAssumption DEF RowsInv, BookTyped, Book!Shares
<1>5. RowsInPlace' /\ RowsSingle'
  BY <1>1, <1>2, <1>3, <1>4 DEF RowsInv, RowsInPlace, RowsSingle
<1>6. RowsComplete'
  BY <1>1, <1>2, <1>3, <1>4 DEF RowsInv, RowsComplete, RowsInPlace
<1> QED BY <1>5, <1>6 DEF RowsInv

(* Only an old slot's rows are deleted, never those of the slot in memory. *)
LEMMA RowsDeleted ==
  ASSUME RowsInv, BookTyped', SharesNumbered', NEW d \in 1..MaxSlots, Book!DeleteOldStatistics(d)
  PROVE  RowsInv'
<1>1. /\ UNCHANGED <<slot, mine, count, shareCalls, handled, crowded, failed>>
      /\ d + 1 < slot /\ mine # d
      /\ stats' = [stats EXCEPT ![d] = <<>>]
  BY DEF Book!DeleteOldStatistics, Book!past
<1>2. Pending' = Pending /\ \A s : Counted(s)' = Counted(s)
  BY <1>1 DEF Pending, Counted
<1>3. Counted(mine)' = Counted(mine)
  BY <1>1, <1>2
<1>4. /\ stats'[d] = <<>> /\ Len(stats'[d]) = 0
      /\ \A s \in 1..MaxSlots : s # d => stats'[s] = stats[s]
      /\ mine > 0 => stats'[mine] = stats[mine]
  BY <1>1 DEF RowsInv, BookTyped
<1>5. RowsInPlace'
  BY <1>1, <1>2, <1>3, <1>4 DEF RowsInv, RowsInPlace, BookTyped
<1>6. RowsSingle'
  BY <1>1, <1>4 DEF RowsInv, RowsSingle
<1>7. RowsComplete'
  <2>1. slot \in Nat /\ mine \in Nat
    BY BookAssumption DEF RowsInv, BookTyped
  <2> SUFFICES ASSUME ~failed PROVE RowsComplete'
    BY <1>1 DEF RowsComplete
  <2>2. \A x \in handled' : x.slot > mine' => \E k \in Pending' : k.id = x.id
    BY <1>1, <1>2 DEF RowsInv, RowsComplete
  <2>3. /\ mine' > 0 /\ Len(stats'[mine']) = 1 => count' = Cardinality(Counted(mine)')
        /\ Pending' # {} /\ mine' # slot' /\ Len(stats'[mine']) = 1 => stats'[mine'][1] = count'
    BY <1>1, <1>2, <1>3, <1>4, <2>1 DEF RowsInv, RowsComplete, RowsInPlace
  <2>4. \A s \in 1..MaxSlots : s < mine' =>
           /\ Len(stats'[s]) = 1 => stats'[s][1] = Cardinality(Counted(s)')
           /\ s + 1 >= slot' /\ Counted(s)' # {} => stats'[s] # <<>>
    BY <1>1, <1>2, <1>4, <2>1 DEF RowsInv, RowsComplete
  <2> QED BY <1>1, <2>2, <2>3, <2>4 DEF RowsComplete
<1> QED BY <1>5, <1>6, <1>7 DEF RowsInv

(* A new share starts the book, is added, or finds the slot changed.       *)
LEMMA RowsShare ==
  ASSUME RowsInv, BookTyped', SharesNumbered', NEW p \in Proofs, Book!Share(p)
  PROVE  RowsInv'
<1>0. /\ mine \in 0..MaxSlots /\ slot \in 1..MaxSlots /\ MaxSlots \in Nat /\ count \in Nat
      /\ MaxShares \in Nat
      /\ stats \in [1..MaxSlots -> Seq(Nat)] /\ stats' \in [1..MaxSlots -> Seq(Nat)]
      /\ BookTyped /\ SharesNumbered /\ count + 1 \in Nat
  BY BookAssumption DEF RowsInv, BookTyped
<1>1. /\ slot' = slot /\ failed' = failed /\ (crowded' = {} => crowded = {} /\ shareCalls = {})
      /\ mine > 0 => stats[mine] \in Seq(Nat)
  <2>1. slot' = slot /\ failed' = failed /\ (mine > 0 => stats[mine] \in Seq(Nat))
    BY <1>0 DEF Book!Share
  <2>2. PICK n : crowded' = crowded \cup IF shareCalls = {} THEN {}
                                         ELSE {n} \cup {k.id : k \in shareCalls}
    BY DEF Book!Share
  <2> QED BY <2>1, <2>2
<1>2. PICK x, c :
        /\ x \notin handled /\ x.slot = slot
        /\ handled' = handled \cup {x} /\ c.id = x.id /\ c.slot = slot
        /\ shareCalls' = shareCalls \cup {c}
        /\ \/ /\ Book!FirstShare \/ Book!SameSlot
              /\ Pending' = Pending
              /\ \A s : Counted(s)' = IF s = slot THEN Counted(s) \cup {x} ELSE Counted(s)
           \/ /\ Book!LeaveSlot
              /\ Pending' = Pending \cup {c}
              /\ \A s : Counted(s)' = Counted(s)
  BY <1>0, CountedShare
<1>3. x \notin Counted(slot)
  BY <1>2 DEF Counted
<1>4. \A s : /\ Cardinality(Counted(s)) \in Nat /\ IsFiniteSet(Counted(s))
             /\ Cardinality(Counted(s)) <= MaxShares
  BY CountedFinite, <1>0
<1>5. Cardinality(Counted(slot) \cup {x}) = Cardinality(Counted(slot)) + 1
  BY <1>3, <1>4, CardOne
<1>6. \A s : Cardinality(Counted(s)') \in Nat /\ Cardinality(Counted(s)') <= MaxShares
  <2>1. Counted(slot)' \subseteq handled' /\ handled' = handled'
    BY DEF Counted
  <2>2. IsFiniteSet(handled') /\ Cardinality(handled') <= MaxShares /\ Cardinality(handled') \in Nat
    BY FS_CardinalityType DEF SharesNumbered
  <2>3. \A s : Counted(s)' \subseteq handled'
    BY DEF Counted
  <2>4. \A s : IsFiniteSet(Counted(s)') /\ Cardinality(Counted(s)') <= Cardinality(handled')
    BY <2>2, <2>3, FS_Subset
  <2> QED BY <1>0, <2>2, <2>4, FS_CardinalityType
<1>7. CASE Book!FirstShare
  <2>1. /\ mine = 0 /\ mine' = slot /\ count' = count + 1 /\ Book!Inserted(slot, count + 1)
    BY <1>7 DEF Book!FirstShare
  <2>2. /\ handled = {} /\ count = 0 /\ \A s \in 1..MaxSlots : stats[s] = <<>>
        /\ Pending = {} /\ \A s : Counted(s) = {}
    <3>1. handled = {} /\ count = 0 /\ \A s \in 1..MaxSlots : stats[s] = <<>>
      BY <2>1 DEF RowsInv, RowsInPlace, BookTyped
    <3>2. Pending = {} /\ \A s : Counted(s) = {}
      BY <3>1 DEF RowsInv, BookTyped, Pending, Counted
    <3> QED BY <3>1, <3>2
  <2>3. /\ Len(stats'[slot]) = 1 /\ stats'[slot][1] = 1 /\ stats'[slot] # <<>>
        /\ \A s \in 1..MaxSlots : s # slot => stats'[s] = <<>> /\ Len(stats'[s]) = 0
    <3>1. stats[slot] = <<>> /\ Len(stats[slot]) = 0
      BY <1>0, <2>2
    <3>2. /\ \A s \in 1..MaxSlots : s # slot => stats'[s] = stats[s]
          /\ Len(stats'[slot]) = Len(stats[slot]) + 1 /\ stats'[slot] # <<>>
          /\ stats'[slot][Len(stats[slot]) + 1] = count + 1
      BY <1>0, <2>1, RowsInserted
    <3> QED BY <2>2, <3>1, <3>2
  <2>4. Pending' = {} /\ (\A s : s # slot => Counted(s)' = {}) /\ handled' = {x}
    BY <1>2, <1>7, <2>1, <2>2 DEF Book!LeaveSlot
  <2>5. Cardinality(Counted(mine)') = 1 /\ count' = 1
    <3>1. Counted(slot)' = Counted(slot) \cup {x}
      BY <1>1, <1>2, <1>7, <2>1 DEF Book!LeaveSlot
    <3>2. Counted(mine)' = Counted(slot)'
      BY <1>1, <2>1 DEF Counted
    <3>3. Cardinality(Counted(slot)) = 0
      BY <2>2, FS_EmptySet
    <3> QED BY <1>5, <2>1, <2>2, <3>1, <3>2, <3>3
  <2>6. RowsInPlace'
    <3>1. MaxShares >= 1
      BY <1>0, <1>6, <2>5
    <3>2. \A s \in 1..MaxSlots : s # slot => Len(stats'[s]) = 0
      BY <2>3
    <3>3. \A s \in 1..MaxSlots : \A i \in 1..Len(stats'[s]) : stats'[s][i] <= MaxShares
      BY <1>0, <2>3, <3>1, <3>2
    <3>4. \A k \in Pending' : k.slot = slot' /\ (crowded' = {} => mine' # slot')
      BY <2>4
    <3>5. /\ mine' <= slot' /\ mine' # 0 /\ stats'[mine'] # <<>>
          /\ \A s \in 1..MaxSlots : s > mine' => stats'[s] = <<>>
          /\ \A y \in handled' : y.slot <= slot'
          /\ count' <= Cardinality(Counted(mine)')
      BY <1>0, <1>1, <1>2, <2>1, <2>3, <2>4, <2>5
    <3> QED BY <3>3, <3>4, <3>5 DEF RowsInPlace
  <2>7. RowsComplete'
    <3>1. \A y \in handled' : ~(y.slot > mine')
      BY <1>0, <1>2, <2>1, <2>4
    <3>2. \A s \in 1..MaxSlots : s < mine' => Len(stats'[s]) # 1 /\ Counted(s)' = {}
      <4> SUFFICES ASSUME NEW s \in 1..MaxSlots, s < mine'
                   PROVE  Len(stats'[s]) # 1 /\ Counted(s)' = {}
        OBVIOUS
      <4>1. s # slot
        BY <1>0, <2>1
      <4> QED BY <2>3, <2>4, <4>1
    <3> QED BY <2>4, <2>5, <3>1, <3>2 DEF RowsComplete
  <2>8. RowsSingle'
    <3>1. ASSUME NEW s \in 1..MaxSlots PROVE Len(stats'[s]) <= 1
      <4>1. s # slot => Len(stats'[s]) = 0
        BY <2>3
      <4>2. s = slot => Len(stats'[s]) = 1
        BY <2>3
      <4>3. Len(stats'[s]) \in {0, 1}
        BY <4>1, <4>2
      <4>4. \A n \in {0, 1} : n <= 1
        OBVIOUS
      <4> QED BY <4>3, <4>4
    <3> QED BY <3>1 DEF RowsSingle
  <2> QED BY <2>6, <2>7, <2>8 DEF RowsInv
<1>8. CASE Book!SameSlot
  <2>1. /\ mine = slot /\ mine' = mine /\ count' = count + 1
        /\ UNCHANGED stats \/ Book!Updated(slot, count + 1)
    BY <1>8 DEF Book!SameSlot
  <2>2. /\ \A s \in 1..MaxSlots : /\ s # slot => stats'[s] = stats[s]
                                  /\ Len(stats'[s]) = Len(stats[s])
                                  /\ (stats'[s] = <<>>) <=> (stats[s] = <<>>)
        /\ \/ stats'[slot] = stats[slot]
           \/ \A i \in 1..Len(stats[slot]) : stats'[slot][i] = count + 1
    <3>1. CASE UNCHANGED stats
      BY <3>1
    <3>2. CASE Book!Updated(slot, count + 1)
      BY <1>0, <3>2, RowsUpdated
    <3> QED BY <2>1, <3>1, <3>2
  <2>3. Pending' = Pending /\ \A s : s # slot => Counted(s)' = Counted(s)
    BY <1>2, <1>8, <2>1 DEF Book!LeaveSlot
  <2>4. Cardinality(Counted(mine)') = Cardinality(Counted(mine)) + 1
    <3>1. Counted(slot)' = Counted(slot) \cup {x}
      BY <1>1, <1>2, <1>8, <2>1 DEF Book!LeaveSlot
    <3> QED BY <1>1, <1>5, <2>1, <3>1
  <2>5. RowsInPlace'
    <3>1. count' <= Cardinality(Counted(mine)')
      BY <1>0, <1>4, <2>1, <2>4 DEF RowsInv, RowsInPlace
    <3>2. count + 1 <= MaxShares
      BY <1>0, <1>1, <1>6, <2>1, <3>1
    <3>3. \A s \in 1..MaxSlots : \A i \in 1..Len(stats'[s]) : stats'[s][i] <= MaxShares
      BY <2>2, <3>2 DEF RowsInv, RowsInPlace
    <3>4. \A k \in Pending' : k.slot = slot' /\ (crowded' = {} => mine' # slot')
      BY <1>1, <2>1, <2>3 DEF RowsInv, RowsInPlace
    <3> QED BY <1>0, <1>1, <1>2, <2>1, <2>2, <2>3, <3>1, <3>3, <3>4 DEF RowsInv,
                 RowsInPlace
  <2>6. RowsComplete'
    <3> SUFFICES ASSUME ~failed PROVE RowsComplete'
      BY <1>1 DEF RowsComplete
    <3>1. \A y \in handled' : y.slot > mine' => \E k \in Pending' : k.id = y.id
      BY <1>0, <1>2, <2>1, <2>3 DEF RowsInv, RowsComplete
    <3>2. mine > 0 /\ Len(stats'[mine]) = 1 => count' = Cardinality(Counted(mine)')
      BY <1>0, <2>1, <2>2, <2>4 DEF RowsInv, RowsComplete
    <3>3. ASSUME NEW s \in 1..MaxSlots, s < mine'
          PROVE  /\ Len(stats'[s]) = 1 => stats'[s][1] = Cardinality(Counted(s)')
                 /\ s + 1 >= slot' /\ Counted(s)' # {} => stats'[s] # <<>>
      <4>1. s # slot /\ s < mine
        BY <1>0, <2>1, <3>3
      <4> QED BY <1>1, <2>2, <2>3, <4>1 DEF RowsInv, RowsComplete
    <3> QED BY <1>1, <2>1, <3>1, <3>2, <3>3 DEF RowsComplete
  <2>7. RowsSingle'
    BY <1>1, <2>2 DEF RowsInv, RowsSingle
  <2> QED BY <2>5, <2>6, <2>7 DEF RowsInv
<1>9. CASE Book!LeaveSlot
  <2>1. /\ mine \in 1..MaxSlots /\ mine < slot /\ mine' = mine /\ count' = count
        /\ Book!Updated(mine, count)
    BY <1>0, <1>9 DEF Book!LeaveSlot, RowsInv, RowsInPlace
  <2>2. /\ \A s \in 1..MaxSlots : /\ s # mine => stats'[s] = stats[s]
                                  /\ Len(stats'[s]) = Len(stats[s])
                                  /\ (stats'[s] = <<>>) <=> (stats[s] = <<>>)
        /\ \A i \in 1..Len(stats[mine]) : stats'[mine][i] = count
    <3>1. BookTyped /\ mine \in 1..MaxSlots /\ count \in Nat /\ Book!Updated(mine, count)
      BY <1>0, <2>1
    <3> QED BY <3>1, RowsUpdated
  <2>3. Pending' = Pending \cup {c} /\ \A s : Counted(s)' = Counted(s)
    BY <1>2, <1>9, <2>1 DEF Book!FirstShare, Book!SameSlot, Book!LeaveSlot
  <2>4. Counted(mine)' = Counted(mine)
    BY <2>1, <2>3
  <2>5. RowsInPlace'
    <3>1. count <= MaxShares
      BY <1>0, <1>4 DEF RowsInv, RowsInPlace
    <3>2. \A s \in 1..MaxSlots : \A i \in 1..Len(stats'[s]) : stats'[s][i] <= MaxShares
      BY <2>2, <3>1 DEF RowsInv, RowsInPlace
    <3>3. \A k \in Pending' : k.slot = slot' /\ (crowded' = {} => mine' # slot')
      <4>1. \A k \in Pending : k.slot = slot
        BY DEF RowsInv, RowsInPlace
      <4>2. mine' # slot' /\ c.slot = slot'
        BY <1>0, <1>1, <1>2, <2>1
      <4> QED BY <1>1, <2>3, <4>1, <4>2
    <3>4. /\ mine' <= slot' /\ mine' # 0 /\ stats'[mine'] # <<>>
          /\ count' <= Cardinality(Counted(mine)')
      BY <1>0, <1>1, <2>1, <2>2, <2>4 DEF RowsInv, RowsInPlace
    <3>5. \A s \in 1..MaxSlots : s > mine' => stats'[s] = <<>>
      BY <2>1, <2>2 DEF RowsInv, RowsInPlace
    <3>6. \A y \in handled' : y.slot <= slot'
      BY <1>0, <1>1, <1>2 DEF RowsInv, RowsInPlace
    <3> QED BY <3>2, <3>3, <3>4, <3>5, <3>6 DEF RowsInPlace
  <2>6. RowsComplete'
    <3>1. Len(stats'[mine]) = 1 => stats'[mine][1] = count
      BY <2>1, <2>2
    <3> SUFFICES ASSUME ~failed PROVE RowsComplete'
      BY <1>1 DEF RowsComplete
    <3>2. \A y \in handled' : y.slot > mine' => \E k \in Pending' : k.id = y.id
      BY <1>2, <2>1, <2>3 DEF RowsInv, RowsComplete
    <3>3. Len(stats'[mine]) = 1 => count' = Cardinality(Counted(mine)')
      BY <2>1, <2>2, <2>4 DEF RowsInv, RowsComplete
    <3>4. \A s \in 1..MaxSlots : s < mine' =>
             /\ Len(stats'[s]) = 1 => stats'[s][1] = Cardinality(Counted(s)')
             /\ s + 1 >= slot' /\ Counted(s)' # {} => stats'[s] # <<>>
      <4>1. \A s \in 1..MaxSlots : s < mine => stats'[s] = stats[s]
        BY <1>0, <2>1, <2>2
      <4>2. slot' = slot /\ mine' = mine /\ \A s : Counted(s)' = Counted(s)
        BY <1>1, <2>1, <2>3
      <4> QED BY <4>1, <4>2 DEF RowsInv, RowsComplete
    <3> QED BY <2>1, <3>1, <3>2, <3>3, <3>4 DEF RowsComplete
  <2>7. RowsSingle'
    BY <1>1, <2>2 DEF RowsInv, RowsSingle
  <2> QED BY <2>5, <2>6, <2>7 DEF RowsInv
<1> QED BY <1>7, <1>8, <1>9, <1>2

(* A save that throws: nothing is claimed of rows from then on.            *)
LEMMA RowsThrow ==
  ASSUME RowsInv, BookTyped', SharesNumbered', NEW k \in shareCalls, Book!StatisticsThrow(k)
  PROVE  RowsInv'
<1>1. /\ k \in Pending /\ Book!Goto(k, "best") /\ failed' = TRUE
      /\ UNCHANGED <<slot, Book!book, handled, crowded>>
  BY DEF Book!StatisticsThrow, Pending
<1>2. BookTyped /\ SharesNumbered
  BY DEF RowsInv
<1>3. /\ Pending' = Pending \ {k}
      /\ Counted(k.slot)' = Counted(k.slot) \cup {Of(k)}
      /\ Of(k) \notin Counted(k.slot)
      /\ \A s : s # k.slot => Counted(s)' = Counted(s)
  BY <1>1, <1>2, CountedLeaves
<1>4. \A s : IsFiniteSet(Counted(s)) /\ Cardinality(Counted(s)) \in Nat
  BY <1>2, CountedFinite
<1>5. Cardinality(Counted(k.slot)') = Cardinality(Counted(k.slot)) + 1
  BY <1>3, <1>4, CardOne
<1>6. mine' = mine /\ \A s : s = mine => Counted(mine)' = Counted(s)'
  BY <1>1 DEF Book!book, Counted
<1>7. count' <= Cardinality(Counted(mine)')
  <2>1. count <= Cardinality(Counted(mine)) /\ count' = count /\ count \in Nat
    BY <1>1, <1>2 DEF RowsInv, RowsInPlace, BookTyped, Book!book
  <2>2. CASE mine = k.slot
    BY <1>4, <1>5, <1>6, <2>1, <2>2
  <2>3. CASE mine # k.slot
    BY <1>3, <1>6, <2>1, <2>3
  <2> QED BY <2>2, <2>3
<1>8. RowsInPlace'
  BY <1>1, <1>3, <1>7 DEF RowsInv, RowsInPlace, Book!book
<1>9. RowsComplete' /\ RowsSingle'
  BY <1>1 DEF RowsInv, RowsComplete, RowsSingle, Book!book
<1> QED BY <1>8, <1>9 DEF RowsInv

(* The old slot was saved with all its shares; the new one begins with the *)
(* one share that does not wait.                                           *)
LEMMA RowsNewSlot ==
  ASSUME RowsInv, BookTyped', SharesNumbered', NEW k \in shareCalls, Book!NewSlot(k)
  PROVE  RowsInv'
<1>1. BookTyped /\ SharesNumbered /\ RowsInPlace /\ RowsComplete /\ RowsSingle
  BY DEF RowsInv
<1>2. k \in Pending /\ k.slot = slot /\ Of(k) \in handled
  BY <1>1 DEF Book!NewSlot, Pending, RowsInPlace, BookTyped
<1>3. /\ mine' = slot /\ count' = 1 /\ Book!Inserted(slot, 1) /\ Book!Goto(k, "best")
      /\ slot' = slot /\ handled' = handled /\ crowded' = crowded /\ failed' = failed
  BY <1>2 DEF Book!NewSlot, Book!past
<1>4. /\ slot \in 1..MaxSlots /\ mine \in 1..slot
  <2>1. mine # 0
    BY <1>1, <1>2 DEF RowsInPlace
  <2> QED BY <1>1, <2>1, BookAssumption DEF BookTyped, RowsInPlace
<1>5. slot \in Nat /\ mine \in Nat /\ MaxSlots \in Nat /\ MaxShares \in Nat
  BY <1>4, BookAssumption
<1>6. /\ Pending' = Pending \ {k}
      /\ Counted(slot)' = Counted(slot) \cup {Of(k)}
      /\ Of(k) \notin Counted(slot)
      /\ \A s : s # slot => Counted(s)' = Counted(s)
  <2>1. Counted(k.slot)' = Counted(slot)'
    BY <1>2, <1>3 DEF Counted
  <2> QED BY <1>1, <1>2, <1>3, <2>1, CountedLeaves
<1>7. \A s : IsFiniteSet(Counted(s)) /\ Cardinality(Counted(s)) \in Nat
             /\ Cardinality(Counted(s)) <= MaxShares
  BY <1>1, CountedFinite
<1>8. /\ Cardinality(Counted(slot)') = Cardinality(Counted(slot)) + 1
      /\ Counted(mine)' = Counted(slot)'
  <2>1. Counted(mine)' = Counted(slot)'
    BY <1>3 DEF Counted
  <2>2. Cardinality(Counted(slot) \cup {Of(k)}) = Cardinality(Counted(slot)) + 1
    BY <1>6, <1>7, CardOne
  <2> QED BY <1>6, <2>1, <2>2
<1>9. /\ \A t \in 1..MaxSlots : t # slot => stats'[t] = stats[t]
      /\ Len(stats'[slot]) = Len(stats[slot]) + 1 /\ stats'[slot] # <<>>
      /\ \A i \in 1..Len(stats[slot]) : stats'[slot][i] = stats[slot][i]
      /\ stats'[slot][Len(stats[slot]) + 1] = 1
  BY <1>1, <1>3, <1>4, RowsInserted
<1>10. stats[slot] \in Seq(Nat) /\ Len(stats[slot]) \in Nat
  <2>1. stats[slot] \in Seq(Nat)
    BY <1>1, <1>4 DEF BookTyped
  <2> QED BY <2>1
<1>11. mine # slot => stats[slot] = <<>> /\ Len(stats[slot]) = 0
  BY <1>1, <1>4, <1>5 DEF RowsInPlace
<1>12. mine = slot => stats[slot] # <<>>
  BY <1>1, <1>4, <1>5 DEF RowsInPlace
<1>13. MaxShares >= 1
  <2>1. Cardinality(handled) # 0 /\ Cardinality(handled) \in Nat /\ Cardinality(handled) <= MaxShares
    BY <1>1, <1>2, FS_EmptySet, FS_CardinalityType DEF SharesNumbered
  <2> QED BY <1>5, <2>1
<1>14. RowsInPlace'
  <2>1. \A s \in 1..MaxSlots : \A i \in 1..Len(stats'[s]) : stats'[s][i] <= MaxShares
    <3> SUFFICES ASSUME NEW s \in 1..MaxSlots, NEW i \in 1..Len(stats'[s])
                 PROVE  stats'[s][i] <= MaxShares
      OBVIOUS
    <3>1. CASE s # slot
      BY <1>1, <1>9, <3>1 DEF RowsInPlace
    <3>2. CASE s = slot /\ i # Len(stats[slot]) + 1
      <4>1. i \in 1..Len(stats[slot])
        BY <1>9, <1>10, <3>2
      <4> QED BY <1>1, <1>4, <1>9, <3>2, <4>1 DEF RowsInPlace
    <3>3. CASE s = slot /\ i = Len(stats[slot]) + 1
      BY <1>9, <1>13, <3>3
    <3> QED BY <3>1, <3>2, <3>3
  <2>2. \A s \in 1..MaxSlots : s > mine' => stats'[s] = <<>>
    <3> SUFFICES ASSUME NEW s \in 1..MaxSlots, s > slot PROVE stats'[s] = <<>>
      BY <1>3
    <3>1. s # slot /\ s > mine
      BY <1>4, <1>5
    <3> QED BY <1>1, <1>9, <3>1 DEF RowsInPlace
  <2>3. \A l \in Pending' : l.slot = slot' /\ (crowded' = {} => mine' # slot')
    <3>1. crowded = {} => Pending' = {}
      BY <1>1, <1>6 DEF SharesNumbered, Pending
    <3> QED BY <1>1, <1>3, <1>6, <3>1 DEF RowsInPlace
  <2>4. count' <= Cardinality(Counted(mine)')
    BY <1>3, <1>7, <1>8
  <2>5. mine' <= slot' /\ mine' # 0 /\ stats'[mine'] # <<>>
    BY <1>3, <1>4, <1>5, <1>9
  <2>6. \A x \in handled' : x.slot <= slot'
    BY <1>1, <1>3 DEF RowsInPlace
  <2> QED BY <2>1, <2>2, <2>3, <2>4, <2>5, <2>6 DEF RowsInPlace
<1>15. RowsSingle'
  <2> SUFFICES ASSUME crowded = {}, NEW s \in 1..MaxSlots PROVE Len(stats'[s]) <= 1
    BY <1>3 DEF RowsSingle
  <2>1. CASE s # slot
    BY <1>1, <1>9, <2>1 DEF RowsSingle
  <2>2. CASE s = slot
    <3>1. mine # slot
      BY <1>1, <1>2 DEF RowsInPlace
    <3> QED BY <1>9, <1>11, <2>2, <3>1
  <2> QED BY <2>1, <2>2
<1>16. RowsComplete'
  <2> SUFFICES ASSUME ~failed PROVE RowsComplete'
    BY <1>3 DEF RowsComplete
  <2>1. \A s : s > mine => Counted(s) = {}
    <3> SUFFICES ASSUME NEW s, s > mine, NEW x \in Counted(s) PROVE FALSE
      OBVIOUS
    <3> QED BY <1>1 DEF RowsComplete, Counted
  <2>2. \A x \in handled' : ~(x.slot > mine')
    <3> SUFFICES ASSUME NEW x \in handled PROVE ~(x.slot > slot)
      BY <1>3
    <3>1. x.slot <= slot /\ x.slot \in Nat
      BY <1>1 DEF RowsInPlace, BookTyped, Book!Shares
    <3> QED BY <1>5, <3>1
  <2>3. Len(stats'[slot]) = 1 => count' = Cardinality(Counted(mine)')
    <3> SUFFICES ASSUME Len(stats'[slot]) = 1 PROVE Cardinality(Counted(slot)) = 0
      BY <1>3, <1>8
    <3>1. Len(stats[slot]) = 0
      BY <1>9, <1>10
    <3>2. mine # slot
      BY <1>10, <1>12, <3>1
    <3>3. slot > mine
      BY <1>4, <3>2
    <3> QED BY <2>1, <3>3, FS_EmptySet
  <2>4. ASSUME NEW s \in 1..MaxSlots, s < slot
        PROVE  /\ Len(stats'[s]) = 1 => stats'[s][1] = Cardinality(Counted(s)')
               /\ s + 1 >= slot /\ Counted(s)' # {} => stats'[s] # <<>>
    <3>1. s # slot /\ stats'[s] = stats[s] /\ Counted(s)' = Counted(s)
      BY <1>4, <1>6, <1>9, <2>4
    <3>2. CASE s < mine
      BY <1>1, <3>1, <3>2 DEF RowsComplete
    <3>3. CASE s = mine
      <4>1. mine > 0 /\ Pending # {} /\ mine # slot
        BY <1>2, <1>4, <3>1, <3>3
      <4>2. stats[mine] # <<>>
        BY <1>1, <4>1 DEF RowsInPlace
      <4> QED BY <1>1, <3>1, <3>3, <4>1, <4>2 DEF RowsComplete
    <3>4. CASE s > mine
      <4>1. stats[s] = <<>> /\ Counted(s) = {}
        BY <1>1, <2>1, <3>4 DEF RowsInPlace
      <4>2. Len(stats[s]) # 1
        BY <4>1
      <4> QED BY <3>1, <4>1, <4>2
    <3> QED BY <1>4, <3>2, <3>3, <3>4
  <2> QED BY <1>3, <2>2, <2>3, <2>4 DEF RowsComplete
<1> QED BY <1>14, <1>15, <1>16 DEF RowsInv

(* Every step keeps the rows right.                                        *)
LEMMA RowsStepInv == ASSUME RowsInv, [Book!Next]_bookVars PROVE RowsInv'
<1>1. BookTyped /\ SharesNumbered /\ RowsInPlace
  BY DEF RowsInv
<1>2. BookTyped' /\ SharesNumbered'
  BY <1>1, BookTypesKept
<1>3. CASE \/ UNCHANGED bookVars
           \/ \E p \in Proofs : Book!OtherConnection(p)
  <2>1. UNCHANGED <<slot, Book!book, handled, crowded, failed, shareCalls>>
    BY <1>3 DEF bookVars, Book!OtherConnection,
         Book!book, Book!past
  <2>2. Pending' = Pending /\ \A s : Counted(s)' = Counted(s)
    BY <2>1 DEF Pending, Counted
  <2> QED BY <1>2, <2>1, <2>2, RowsAlone
<1>4. ASSUME NEW k \in shareCalls,
             \/ Book!NotBetter(k) \/ Book!Better(k) \/ Book!BestOfEntity(k)
             \/ Book!BestOfAddress(k) \/ Book!BestThrows(k)
      PROVE  RowsInv'
  <2>1. /\ UNCHANGED <<slot, Book!book, handled, crowded>> /\ (failed => failed')
        /\ k.at # "slot"
        /\ \/ shareCalls' = shareCalls \ {k}
           \/ \E to \in BookSteps \ {"slot"} : Book!Goto(k, to)
    BY <1>4 DEF Book!NotBetter, Book!Better, Book!BestOfEntity, Book!BestOfAddress,
         Book!BestThrows, Book!past, BookSteps
  <2>2. Pending' = Pending /\ \A s : Counted(s)' = Counted(s)
    BY <1>1, <2>1, CountedStays
  <2> QED BY <1>2, <2>1, <2>2, RowsAlone
<1> QED BY <1>2, <1>3, <1>4, RowsMinute, RowsDeleted, RowsShare, RowsThrow,
        RowsNewSlot DEF Book!Next

(* The numbers in the book, and the share of a call.                       *)
LEMMA BookNumbers ==
  ASSUME BookTyped
  PROVE  /\ bookBest \in Nat /\ address \in Int
         /\ \A x \in handled : x.proof \in Nat /\ x.id \in Nat
         /\ \A k \in shareCalls :
              /\ k.proof \in Nat \ {0} /\ k.id \in Nat
              /\ Of(k) \in handled /\ Of(k).proof = k.proof /\ Of(k).id = k.id
<1>1. /\ \A n \in Proofs : n \in Nat \ {0}
      /\ \A n \in 1..MaxShares : n \in Nat
  BY BookAssumption
<1>2. \A k \in ShareCall : k.proof \in Proofs /\ k.id \in 1..MaxShares
  BY DEF ShareCall
<1>3. \A x \in Book!Shares : x.proof \in Proofs /\ x.id \in 1..MaxShares
  BY DEF Book!Shares
<1>4. \A k : Of(k).proof = k.proof /\ Of(k).id = k.id
  BY DEF Of
<1>5. bookBest \in Nat /\ address \in Int
  BY <1>1 DEF BookTyped
<1>6. \A k \in shareCalls : k \in ShareCall /\ Of(k) \in handled
  BY DEF BookTyped
<1>7. \A x \in handled : x \in Book!Shares
  BY DEF BookTyped
<1>8. ASSUME NEW x \in handled PROVE x.proof \in Nat /\ x.id \in Nat
  BY <1>1, <1>3, <1>7
<1>9. ASSUME NEW k \in shareCalls PROVE k.proof \in Nat \ {0} /\ k.id \in Nat
  BY <1>1, <1>2, <1>6
<1> QED BY <1>4, <1>5, <1>6, <1>8, <1>9

(* A share that comes is the last one, and alone only if nothing waits.    *)
LEMMA BestsShare ==
  ASSUME BookTyped, SharesNumbered, BestsInv, SharesNumbered',
         NEW p \in Proofs, Book!Share(p)
  PROVE  BestsInv'
<1> DEFINE x == [id |-> Cardinality(handled) + 1, slot |-> slot, proof |-> p]
<1>1. Cardinality(handled) \in Nat /\ \A y \in handled : y.id \in Nat /\ y.id < x.id
  <2>1. Cardinality(handled) \in Nat
    BY FS_CardinalityType DEF SharesNumbered
  <2> QED BY <2>1, BookAssumption DEF SharesNumbered, BookTyped, Book!Shares
<1>2. /\ UNCHANGED <<bookBest, address, failed>> /\ handled' = handled \cup {x}
      /\ crowded' = crowded \cup IF shareCalls = {} THEN {}
                                ELSE {x.id} \cup {k.id : k \in shareCalls}
  BY BookCounts DEF Book!Share, Book!bests
<1>3. PICK c : /\ shareCalls' = shareCalls \cup {c} /\ c.id = x.id
               /\ c.at \in {"best", "slot"}
  <2> DEFINE Call(to) == [id |-> x.id, slot |-> slot, proof |-> p, at |-> to]
  <2>1. PICK to \in {"best", "slot"} : shareCalls' = shareCalls \cup {Call(to)}
    BY BookCounts DEF Book!Share
  <2>2. Call(to).id = x.id /\ Call(to).at = to
    OBVIOUS
  <2> QED BY <2>1, <2>2
<1>4. x.id \in Nat
  BY <1>1
<1> HIDE DEF x
<1>5. BestIsOfShare'
  BY <1>2 DEF BestsInv, BestIsOfShare
<1>10. CrowdedKnown'
  <2>1. \A k \in shareCalls : Of(k) \in handled /\ Of(k).id = k.id
    BY DEF BookTyped, Of
  <2>2. \A k \in shareCalls : k.id \in {y.id : y \in handled}
    BY <2>1
  <2>3. {y.id : y \in handled'} = {y.id : y \in handled} \cup {x.id}
    BY <1>2
  <2> QED BY <1>2, <2>2, <2>3 DEF BestsInv, CrowdedKnown
<1>6. ASSUME ~failed, NEW y \in Book!Alone'
      PROVE  y \in Book!Alone /\ (Book!Record(y)' => Book!Record(y))
  <2>1. y # x
    BY <1>3 DEF Book!Alone
  <2> QED BY <1>2, <1>3, <2>1 DEF Book!Alone, Book!Record
<1>7. ~failed => AloneIsCounted'
  BY <1>2, <1>3, <1>6 DEF BestsInv, AloneIsCounted
<1>8. ASSUME ~failed, NEW k \in shareCalls', k.id \notin crowded'
      PROVE  /\ \A y \in handled' : y.id <= k.id
             /\ k.at = "address" => k.proof <= bookBest'
             /\ k.at # "address" /\ bookBest' > 0 =>
                  \E y \in handled' : y.proof = bookBest' /\ y.id < k.id
  <2>1. shareCalls = {} /\ k = c
    BY <1>2, <1>3, <1>8
  <2> QED BY <1>1, <1>2, <1>3, <1>4, <2>1 DEF BestsInv, BestIsOfShare
<1>9. ~failed => AloneIsLast'
  BY <1>8 DEF AloneIsLast
<1> QED BY <1>2, <1>5, <1>7, <1>9, <1>10 DEF BestsInv

(* A call that goes on waits still; one that ends leaves its share counted *)
(* if that was alone.                                                      *)
LEMMA BestsCall ==
  ASSUME BookTyped, SharesNumbered, BestsInv, BookTyped', ~failed, ~failed',
         UNCHANGED <<handled, crowded>>, NEW k \in shareCalls,
         \/ /\ bookBest' = bookBest /\ address' = address
            /\ \/ k.at \notin {"entity", "address"} /\ Book!Goto(k, "best")
               \/ k.at # "address" /\ k.proof > bookBest /\ Book!Goto(k, "entity")
               \/ k.at = "best" /\ k.proof <= bookBest /\ shareCalls' = shareCalls \ {k}
         \/ /\ k.at = "entity" /\ bookBest' = k.proof /\ address' >= address
            /\ \/ Book!Goto(k, "address")
               \/ k.proof <= address' /\ shareCalls' = shareCalls \ {k}
         \/ /\ k.at = "address" /\ bookBest' = bookBest
            /\ address' = k.proof /\ shareCalls' = shareCalls \ {k}
  PROVE  BestsInv'
<1>0. /\ bookBest \in Nat /\ bookBest' \in Nat /\ address \in Int /\ address' \in Int
      /\ \A x \in handled : x.proof \in Nat /\ x.id \in Nat
      /\ \A l \in shareCalls : /\ l.proof \in Nat /\ l.id \in Nat
                              /\ Of(l) \in handled /\ Of(l).proof = l.proof
                              /\ Of(l).id = l.id
      /\ \A l \in shareCalls, x \in handled : l.id = x.id => x = Of(l)
  <2>1. \A l \in shareCalls, x \in handled : l.id = x.id => x = Of(l)
    BY BookNumbers DEF SharesNumbered
  <2>2. bookBest' \in Nat /\ address' \in Int
    BY BookAssumption DEF BookTyped
  <2> QED BY <2>1, <2>2, BookNumbers
<1>1. AloneIsCounted /\ AloneIsLast /\ BestIsOfShare
  BY DEF BestsInv
<1>2. BestIsOfShare' /\ CrowdedKnown'
  BY <1>0, <1>1 DEF BestIsOfShare, CrowdedKnown, BestsInv
<1>3. \A to : Book!Goto(k, to) =>
        \E n : /\ shareCalls' = (shareCalls \ {k}) \cup {n}
               /\ n.at = to /\ n.id = k.id /\ n.proof = k.proof
  <2> SUFFICES ASSUME NEW to, Book!Goto(k, to)
               PROVE  \E n : /\ shareCalls' = (shareCalls \ {k}) \cup {n}
                             /\ n.at = to /\ n.id = k.id /\ n.proof = k.proof
    OBVIOUS
  <2> DEFINE m == [k EXCEPT !.at = to]
  <2>1. m.at = to /\ m.id = k.id /\ m.proof = k.proof
    BY DEF BookTyped, ShareCall
  <2>2. shareCalls' = (shareCalls \ {k}) \cup {m}
    BY DEF Book!Goto
  <2> QED BY <2>1, <2>2
<1>4. k.id \notin crowded => shareCalls = {k}
  BY DEF SharesNumbered
<1>5. \A y : Book!Record(y)' <=> Book!Record(y)
  BY DEF Book!Record
<1>6. ASSUME NEW n, shareCalls' = (shareCalls \ {k}) \cup {n}, n.id = k.id
      PROVE  Book!Alone' = Book!Alone
  BY <1>6 DEF Book!Alone
<1>7. ASSUME shareCalls' = shareCalls \ {k}, NEW y \in Book!Alone'
      PROVE  \/ y \in Book!Alone
             \/ y = Of(k) /\ k.id \notin crowded /\ shareCalls' = {}
  BY <1>0, <1>4, <1>7 DEF Book!Alone
<1>8. Book!Alone \subseteq handled
  BY DEF Book!Alone
<1>9. CASE /\ bookBest' = bookBest /\ address' = address
           /\ \/ k.at \notin {"entity", "address"} /\ Book!Goto(k, "best")
              \/ k.at # "address" /\ k.proof > bookBest /\ Book!Goto(k, "entity")
  <2>1. PICK n : /\ shareCalls' = (shareCalls \ {k}) \cup {n}
                 /\ n.id = k.id /\ n.proof = k.proof
                 /\ n.at = "best" \/ (n.at = "entity" /\ k.proof > bookBest)
    BY <1>3, <1>9
  <2>2. AloneIsCounted'
    BY <1>0, <1>1, <1>5, <1>6, <1>8, <1>9, <2>1 DEF AloneIsCounted
  <2>3. AloneIsLast'
    BY <1>1, <1>9, <2>1 DEF AloneIsLast
  <2> QED BY <1>2, <2>2, <2>3 DEF BestsInv
<1>10. CASE /\ bookBest' = bookBest /\ address' = address
            /\ k.at = "best" /\ k.proof <= bookBest /\ shareCalls' = shareCalls \ {k}
  <2>1. ASSUME k.id \notin crowded, Book!Record(Of(k)) PROVE FALSE
    <3>1. k.proof > 0
      BY BookNumbers
    <3>2. PICK x \in handled : x.proof = bookBest /\ x.id < k.id
      BY <1>0, <1>1, <1>10, <2>1, <3>1 DEF AloneIsLast
    <3> QED BY <1>0, <1>10, <2>1, <3>2 DEF Book!Record
  <2>2. ASSUME NEW y \in Book!Alone'
        PROVE  /\ y.proof <= bookBest'
               /\ Book!Record(y)' => y.proof <= address'
               /\ \A l \in shareCalls' : l.at \in {"entity", "address"} => y.proof < l.proof
    BY <1>0, <1>1, <1>5, <1>7, <1>10, <2>1, <2>2 DEF AloneIsCounted
  <2>3. AloneIsCounted'
    BY <2>2 DEF AloneIsCounted
  <2>4. AloneIsLast'
    BY <1>1, <1>10 DEF AloneIsLast
  <2> QED BY <1>2, <2>3, <2>4 DEF BestsInv
<1>11. CASE /\ k.at = "entity" /\ bookBest' = k.proof /\ address' >= address
            /\ Book!Goto(k, "address")
  <2>1. PICK n : /\ shareCalls' = (shareCalls \ {k}) \cup {n}
                 /\ n.id = k.id /\ n.proof = k.proof /\ n.at = "address"
    BY <1>3, <1>11
  <2>2. AloneIsCounted'
    BY <1>0, <1>1, <1>5, <1>6, <1>8, <1>11, <2>1 DEF AloneIsCounted
  <2>3. AloneIsLast'
    <3>1. ASSUME NEW l \in shareCalls', l.id \notin crowded PROVE l = n
      BY <2>1, <3>1, <1>4 DEF SharesNumbered
    <3> QED BY <1>0, <1>1, <1>11, <2>1, <3>1 DEF AloneIsLast
  <2> QED BY <1>2, <2>2, <2>3 DEF BestsInv
<1>12. CASE /\ k.at = "entity" /\ bookBest' = k.proof /\ address' >= address
            /\ k.proof <= address' /\ shareCalls' = shareCalls \ {k}
  <2>1. ASSUME NEW y \in Book!Alone'
        PROVE  /\ y.proof <= bookBest'
               /\ Book!Record(y)' => y.proof <= address'
               /\ \A l \in shareCalls' : l.at \in {"entity", "address"} => y.proof < l.proof
    BY <1>0, <1>1, <1>5, <1>7, <1>8, <1>12, <2>1 DEF AloneIsCounted
  <2>2. AloneIsCounted'
    BY <2>1 DEF AloneIsCounted
  <2>3. AloneIsLast'
    BY <1>12 DEF SharesNumbered, AloneIsLast
  <2> QED BY <1>2, <2>2, <2>3 DEF BestsInv
<1>13. CASE /\ k.at = "address" /\ bookBest' = bookBest
            /\ address' = k.proof /\ shareCalls' = shareCalls \ {k}
  <2>1. ASSUME NEW y \in Book!Alone'
        PROVE  /\ y.proof <= bookBest'
               /\ Book!Record(y)' => y.proof <= address'
               /\ \A l \in shareCalls' : l.at \in {"entity", "address"} => y.proof < l.proof
    BY <1>0, <1>1, <1>5, <1>7, <1>8, <1>13, <2>1 DEF AloneIsCounted, AloneIsLast
  <2>2. AloneIsCounted'
    BY <2>1 DEF AloneIsCounted
  <2>3. AloneIsLast'
    BY <1>1, <1>13 DEF AloneIsLast
  <2> QED BY <1>2, <2>2, <2>3 DEF BestsInv
<1> QED BY <1>9, <1>10, <1>11, <1>12, <1>13

(* Every step keeps the best difficulties right.                           *)
LEMMA BestsStepInv ==
  ASSUME BookTyped, SharesNumbered, BestsInv, BookTyped', SharesNumbered', [Book!Next]_bookVars
  PROVE  BestsInv'
<1>1. CASE \/ UNCHANGED bookVars \/ Book!Minute
           \/ \E s \in 1..MaxSlots : Book!DeleteOldStatistics(s)
  <2>1. UNCHANGED <<shareCalls, handled, crowded, failed, bookBest, address>>
    BY <1>1 DEF bookVars, Book!Minute, Book!DeleteOldStatistics, Book!bests, Book!past
  <2> QED BY <2>1 DEF BestsInv, CrowdedKnown, BestIsOfShare, AloneIsCounted,
               AloneIsLast, Book!Alone, Book!Record
<1>2. ASSUME NEW p \in Proofs, Book!OtherConnection(p) PROVE BestsInv'
  <2>1. /\ UNCHANGED <<shareCalls, handled, crowded, failed, bookBest>>
        /\ address' > address /\ address \in Int /\ address' \in Int
    BY <1>2, BookAssumption DEF Book!OtherConnection, Book!past, BookTyped
  <2>2. \A x \in Book!Alone : x.proof \in Nat
    BY BookAssumption DEF Book!Alone, BookTyped, Book!Shares
  <2>3. Book!Alone' = Book!Alone /\ \A x : Book!Record(x)' <=> Book!Record(x)
    BY <2>1 DEF Book!Alone, Book!Record
  <2>4. ~failed => AloneIsCounted'
    BY <2>1, <2>2, <2>3 DEF BestsInv, AloneIsCounted
  <2> QED BY <2>1, <2>4 DEF BestsInv, CrowdedKnown, BestIsOfShare, AloneIsLast
<1>3. ASSUME NEW k \in shareCalls, Book!StatisticsThrow(k) \/ Book!BestThrows(k) PROVE BestsInv'
  <2>1. /\ failed' = TRUE /\ UNCHANGED <<handled, crowded, bookBest>>
    BY <1>3 DEF Book!StatisticsThrow, Book!BestThrows, Book!bests
  <2> QED BY <2>1 DEF BestsInv, CrowdedKnown, BestIsOfShare
<1>4. ASSUME NEW k \in shareCalls,
             \/ Book!NewSlot(k) \/ Book!NotBetter(k) \/ Book!Better(k)
             \/ Book!BestOfEntity(k) \/ Book!BestOfAddress(k)
      PROVE  BestsInv'
  <2>1. handled' = handled /\ crowded' = crowded /\ failed' = failed
    BY <1>4 DEF Book!NewSlot, Book!NotBetter, Book!Better, Book!BestOfEntity,
         Book!BestOfAddress, Book!past
  <2>2. CASE failed
    <3>1. bookBest' = bookBest \/ bookBest' = k.proof
      BY <1>4 DEF Book!NewSlot, Book!NotBetter, Book!Better, Book!BestOfEntity,
           Book!BestOfAddress, Book!bests, Book!RememberBest
    <3>2. Of(k) \in handled /\ Of(k).proof = k.proof
      BY DEF BookTyped, Of
    <3> QED BY <2>1, <2>2, <3>1, <3>2 DEF BestsInv, CrowdedKnown, BestIsOfShare
  <2>3. ASSUME ~failed, \/ Book!NewSlot(k) \/ Book!NotBetter(k) \/ Book!Better(k)
        PROVE  BestsInv'
    <3>1. /\ bookBest' = bookBest /\ address' = address
          /\ \/ k.at \notin {"entity", "address"} /\ Book!Goto(k, "best")
             \/ k.at # "address" /\ k.proof > bookBest /\ Book!Goto(k, "entity")
             \/ k.at = "best" /\ k.proof <= bookBest /\ shareCalls' = shareCalls \ {k}
      BY <2>3 DEF Book!NewSlot, Book!NotBetter, Book!Better, Book!bests
    <3> QED BY <2>1, <2>3, <3>1, BestsCall
  <2>4. ASSUME ~failed, Book!BestOfEntity(k) PROVE BestsInv'
    <3>0. address' \in Int
      BY BookAssumption DEF BookTyped
    <3>1. address \in Int /\ address' \in Int /\ k.proof \in Nat
      BY <3>0, BookNumbers
    <3>2. /\ k.at = "entity" /\ bookBest' = k.proof /\ address' >= address
          /\ \/ Book!Goto(k, "address")
             \/ k.proof <= address' /\ shareCalls' = shareCalls \ {k}
      BY <2>4, <3>1 DEF Book!BestOfEntity, Book!RememberBest
    <3> QED BY <2>1, <2>4, <3>2, BestsCall
  <2>5. ASSUME ~failed, Book!BestOfAddress(k) PROVE BestsInv'
    <3>1. /\ k.at = "address" /\ bookBest' = bookBest
          /\ address' = k.proof /\ shareCalls' = shareCalls \ {k}
      BY <2>5 DEF Book!BestOfAddress
    <3> QED BY <2>1, <2>5, <3>1, BestsCall
  <2> QED BY <1>4, <2>2, <2>3, <2>4, <2>5
<1> QED BY <1>1, <1>2, <1>3, <1>4, BestsShare DEF Book!Next

BookInv == RowsInv /\ BestsInv

(* An empty book is right, and stays so.                                   *)
LEMMA BookStart == Book!Init => BookInv
<1> SUFFICES ASSUME Book!Init PROVE BookInv
  OBVIOUS
<1>1. /\ slot = 1 /\ mine = 0 /\ count = 0 /\ shareCalls = {} /\ handled = {} /\ bookBest = 0
      /\ stats = [s \in 1..MaxSlots |-> <<>>]
  BY DEF Book!Init
<1>2. saved \in BOOLEAN /\ failed \in BOOLEAN /\ crowded = {}
  BY Zenon DEF Book!Init
<1>3. 1 \in 1..MaxSlots /\ <<>> \in Seq(Nat)
  BY BookAssumption
<1>4. \A s \in 1..MaxSlots : stats[s] = <<>>
  BY <1>1
<1>5. BookTyped
  <2>1. stats \in [1..MaxSlots -> Seq(Nat)]
    BY <1>1, <1>3
  <2>2. address \in Proofs \cup {-1, 0}
    BY DEF Book!Init
  <2>3. mine \in 0..MaxSlots
    BY <1>1, BookAssumption
  <2> QED BY <1>1, <1>2, <1>3, <2>1, <2>2, <2>3 DEF BookTyped
<1>6. SharesNumbered
  BY <1>1, BookAssumption, FS_EmptySet DEF SharesNumbered
<1>7. RowsInPlace
  <2>1. Counted(mine) = {}
    BY <1>1 DEF Counted
  <2>2. Cardinality(Counted(mine)) = 0
    BY <2>1, FS_EmptySet
  <2>3. Pending = {}
    BY <1>1 DEF Pending
  <2> QED BY <1>1, <1>4, <2>2, <2>3, BookAssumption DEF RowsInPlace
<1>8. RowsComplete /\ RowsSingle /\ BestsInv
  <2>1. RowsSingle
    BY <1>4 DEF RowsSingle
  <2>2. RowsComplete
    BY <1>1 DEF RowsComplete, Pending
  <2> QED BY <1>1, <1>2, <2>1, <2>2 DEF BestsInv, CrowdedKnown, BestIsOfShare,
               AloneIsCounted, AloneIsLast, Book!Alone
<1> QED BY <1>5, <1>6, <1>7, <1>8 DEF BookInv, RowsInv

LEMMA BookStepInv == BookInv /\ [Book!Next]_bookVars => BookInv'
<1> SUFFICES ASSUME BookInv, [Book!Next]_bookVars PROVE BookInv'
  OBVIOUS
<1>1. RowsInv'
  BY RowsStepInv DEF BookInv
<1> QED BY <1>1, BestsStepInv DEF BookInv, RowsInv

(* What the invariant says in the terms of ShareBook.                      *)
LEMMA BookInvTypes == BookInv => Book!TypeOK
<1> SUFFICES ASSUME BookInv PROVE Book!TypeOK
  OBVIOUS
<1>1. BookTyped /\ SharesNumbered /\ RowsInPlace
  BY DEF BookInv, RowsInv
<1>2. count \in 0..MaxShares
  <2>1. count <= Cardinality(Counted(mine)) /\ count \in Nat
    BY <1>1 DEF RowsInPlace, BookTyped
  <2> QED BY <1>1, <2>1, CountedFinite, BookAssumption
<1>3. stats \in [1..MaxSlots -> Seq(0..MaxShares)]
  <2>1. ASSUME NEW s \in 1..MaxSlots PROVE stats[s] \in Seq(0..MaxShares)
    <3>1. stats[s] \in Seq(Nat)
      BY <1>1 DEF BookTyped
    <3>2. \A i \in 1..Len(stats[s]) : stats[s][i] \in 0..MaxShares
      BY <1>1, <3>1, BookAssumption DEF RowsInPlace
    <3>3. stats[s] \in [1..Len(stats[s]) -> 0..MaxShares] /\ Len(stats[s]) \in Nat
      BY <3>1, <3>2
    <3> DEFINE R == 0..MaxShares
               n == Len(stats[s])
    <3>4. stats[s] \in [1..n -> R] /\ n \in Nat
      BY <3>3
    <3> HIDE DEF R, n
    <3>5. stats[s] \in Seq(R)
      BY <3>4
    <3> QED BY <3>5 DEF R
  <2> QED BY <1>1, <2>1 DEF BookTyped
<1>4. crowded \in SUBSET (1..MaxShares)
  BY <1>1 DEF BookInv, BestsInv, CrowdedKnown, BookTyped, Book!Shares
<1> QED BY <1>1, <1>2, <1>3, <1>4 DEF Book!TypeOK, BookTyped, Of

LEMMA BookInvRows == BookInv => Book!SlotsAreComplete /\ Book!OneRowPerSlot
<1> SUFFICES ASSUME BookInv PROVE Book!SlotsAreComplete /\ Book!OneRowPerSlot
  OBVIOUS
<1>1. BookTyped /\ SharesNumbered /\ RowsInPlace /\ RowsComplete /\ RowsSingle
  BY DEF BookInv, RowsInv
<1>2. slot \in Nat /\ mine \in Nat /\ mine <= slot
  BY <1>1, BookAssumption DEF BookTyped, RowsInPlace
<1>3. ASSUME NEW s \in 1..MaxSlots, s < mine
      PROVE  Counted(s) = {x \in handled : x.slot = s}
  <2>1. \A k \in Pending, x \in handled : k.id = x.id => x.slot = slot
    <3> SUFFICES ASSUME NEW k \in Pending, NEW x \in handled, k.id = x.id
                 PROVE  x.slot = slot
      OBVIOUS
    <3>1. Of(k) \in handled /\ Of(k).id = k.id /\ Of(k).slot = k.slot /\ k.slot = slot
      BY <1>1 DEF BookTyped, Pending, Of, RowsInPlace
    <3> QED BY <1>1, <3>1 DEF SharesNumbered
  <2>2. s # slot
    BY <1>2, <1>3
  <2> QED BY <2>1, <2>2 DEF Counted
<1>4. Book!SlotsAreComplete
  BY <1>1, <1>3, BookCounts DEF Book!SlotsAreComplete, RowsComplete, Book!In
<1>5. ASSUME ~failed, crowded = {}, NEW s \in 1..MaxSlots
      PROVE  /\ Len(stats[s]) <= 1
             /\ s + 1 >= slot /\ s <= mine /\ Book!In(s) > 0 => Len(stats[s]) = 1
  <2>1. Len(stats[s]) <= 1 /\ stats[s] \in Seq(Nat)
    BY <1>1, <1>5 DEF RowsSingle, BookTyped
  <2>2. ASSUME s + 1 >= slot, s <= mine, Book!In(s) > 0 PROVE stats[s] # <<>>
    <3>1. CASE s = mine
      BY <1>1, <3>1 DEF RowsInPlace
    <3>2. CASE s < mine
      <4>1. Counted(s) # {}
        BY <1>3, <2>2, <3>2, FS_EmptySet, BookCounts DEF Book!In
      <4> QED BY <1>1, <1>5, <2>2, <3>2, <4>1 DEF RowsComplete
    <3> QED BY <1>2, <2>2, <3>1, <3>2
  <2>3. Len(stats[s]) \in Nat /\ (stats[s] # <<>> => Len(stats[s]) # 0)
    BY <2>1
  <2>4. \A n \in Nat : n <= 1 /\ n # 0 => n = 1
    OBVIOUS
  <2> QED BY <2>1, <2>2, <2>3, <2>4
<1> QED BY <1>4, <1>5 DEF Book!OneRowPerSlot

LEMMA BookInvBest == BookInv => Book!BestIsKept
BY DEF BookInv, BestsInv, BestIsOfShare, AloneIsCounted, Book!BestIsKept

(* Whatever the order of shares, minutes and database calls: the single    *)
(* row of a slot that is over counts all its shares, shares that come one  *)
(* at a time make one row a slot, and a share that overlaps none leaves    *)
(* the best difficulty no worse than its own (BookIsExact): for any number *)
(* of slots, shares and calls at a time.                                   *)
THEOREM BookStaysExact == PoolSpec => []BookIsExact
<1>1. PoolInit => BookInv
  BY BookStart DEF PoolInit
<1>2. BookInv /\ [PoolNext]_poolVars => BookInv'
  BY PartSteps, BookStepInv
<1>3. BookInv => BookIsExact
  BY BookInvRows, BookInvBest DEF BookIsExact
<1> QED BY <1>1, <1>2, <1>3, PTL DEF PoolSpec

(* The types of all parts together.                                        *)
THEOREM PartsStayOK == PoolSpec => []PartsOK
<1> DEFINE Inv == /\ IInv /\ BookInv /\ HealthInv
                  /\ ProxyInv /\ WalletInv /\ ZapInv
<1>1. PoolInit => Inv
  BY RegistryAssumption, InitOrdered, BookStart, HealthStart, ProxyStart,
     WalletStart, ZapStart DEF PoolInit
<1>2. Inv /\ [PoolNext]_poolVars => Inv'
  BY RegistryAssumption, PartSteps, StepOrdered, BookStepInv, HealthStepInv,
     ProxyStepInv, WalletStepInv, ZapStepInv
<1>3. Inv => PartsOK
  BY BookInvTypes, ProxyInvPasses DEF PartsOK, IInv, HealthInv, WalletInv, ZapInv
<1> QED BY <1>1, <1>2, <1>3, PTL DEF PoolSpec
=============================================================================
