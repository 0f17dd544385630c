--------------------------- MODULE TemplateHealth --------------------------
(***************************************************************************)
(* Which template a den's miners work on: the cached effective template    *)
(* and the fetch with its fallback (hashden.service.ts), the circuit       *)
(* breaker of the operator's node (health.ts) and the choice of the source *)
(* (source.ts).                                                            *)
(*                                                                         *)
(* All the dens name the same node, as the dens of one operator do, and    *)
(* so share a breaker.  The node answers, refuses or is silent.  The time  *)
(* limit of a request ends with the headers of the answer (rpc-client.ts), *)
(* and its body may take any time: so may a request.                       *)
(***************************************************************************)
EXTENDS Integers

CONSTANTS
  Dens,
  Ttl,       \* ticks a cached template lives (4 s)
  Retry,     \* ticks an open breaker waits (60 s)
  Threshold, \* failures that open it
  MaxCalls   \* bound: calls of getEffectiveJobTemplate at a time

VARIABLES
  conf,    \* of a den: its row's templateSource and credentials
  failures, \* consecutiveFailures, cut off at Threshold
  sinceFailure, \* age of lastFailureAt, cut off at Retry
  fallback, \* fallback
  cache,   \* jobTemplateCache: of a den, {} or one entry
  calls,   \* calls that wait
  streak,  \* history: failed requests since the last answer of the node
  left,    \* history: ticks since the den's row named the node, and
           \* since the requests made until then have ended
  served   \* of a den: {} or the template a miner was last given

breaker == <<failures, sinceFailure, fallback>>
history == <<streak, left>>
vars    == <<conf, breaker, cache, calls, history, served>>

Confs   == {"platform", "operator", "incomplete"}
Origins == {"platform", "operator"}
Steps   == {"group", "row", "operator", "fallback", "hot", "platform"}
AtMostOne(set) == \A x, y \in set : x = y
Long    == Ttl + 1

TypeOK ==
  /\ conf \in [Dens -> Confs]
  /\ failures \in 0..Threshold /\ sinceFailure \in 0..Retry /\ fallback \in BOOLEAN
  /\ cache \in [Dens -> SUBSET [origin : Origins, clear : BOOLEAN, age : 0..Ttl]]
  /\ \A d \in Dens : AtMostOne(cache[d]) /\ AtMostOne(served[d])
  /\ calls \in SUBSET [den : Dens, clear : BOOLEAN, step : Steps, id : 1..MaxCalls]
  /\ streak \in 0..Threshold /\ left \in [Dens -> 0..Long]
  /\ served \in [Dens -> SUBSET [origin : Origins, asked : BOOLEAN, clear : BOOLEAN, left : 0..Long]]

Init ==
  /\ conf \in [Dens -> Confs]
  /\ failures = 0 /\ sinceFailure = Retry /\ fallback = FALSE
  /\ cache = [d \in Dens |-> {}] /\ calls = {}
  /\ streak = 0 /\ left = [d \in Dens |-> IF conf[d] = "operator" THEN 0 ELSE Long]
  /\ served = [d \in Dens |-> {}]
-----------------------------------------------------------------------------
(* TemplateSourceHealth.                                                   *)

shouldFallback == fallback /\ sinceFailure < Retry

recordSuccess == failures' = 0 /\ fallback' = FALSE /\ UNCHANGED sinceFailure

UpTo(bound, n) == IF n < bound THEN n ELSE bound

recordFailure ==
  /\ failures' = UpTo(Threshold, failures + 1)
  /\ sinceFailure' = 0
  /\ fallback' = (fallback \/ failures' = Threshold)
-----------------------------------------------------------------------------
(* What the miner of a call or of a cache hit is given.                    *)

Give(d, asked, origin, clear) ==
  served' = [served EXCEPT ![d] =
    {[origin |-> origin, asked |-> asked, clear |-> clear, left |-> left[d]]}]

GivePlatform(c) ==
  /\ Give(c.den, c.clear, "platform", c.clear)
  /\ calls' = calls \ {c}

GoOn(c, step) ==
  calls' = (calls \ {c}) \cup
             {[den |-> c.den, clear |-> c.clear, step |-> step, id |-> c.id]}

(* Mutant: an entry lives on while it is read.                             *)
KeepYoung(d) == cache' = [cache EXCEPT ![d] = {[e EXCEPT !.age = 0] : e \in @}]

KeepEntry(d) == UNCHANGED cache

(* getEffectiveJobTemplate: a live entry is returned as it is, with the    *)
(* clearJobs of the tick that fetched it.                                  *)
Hit(d, clear) ==
  /\ \E e \in cache[d] : Give(d, clear, e.origin, e.clear)
  /\ KeepEntry(d)
  /\ UNCHANGED <<conf, breaker, calls, history>>

Ask(d, clear) ==
  /\ cache[d] = {}
  /\ \E id \in (1..MaxCalls) \ {c.id : c \in calls} :
       calls' = calls \cup {[den |-> d, clear |-> clear, step |-> "group", id |-> id]}
  /\ UNCHANGED <<conf, breaker, cache, history, served>>

ReadGroup(c) ==
  /\ c.step = "group"
  /\ IF conf[c.den] = "platform" THEN GivePlatform(c)
     ELSE GoOn(c, "row") /\ UNCHANGED served
  /\ UNCHANGED <<conf, breaker, cache, history>>

(* The query fails: the caller catches it and uses the platform's.         *)
QueryFails(c) ==
  /\ c.step \in {"group", "row"}
  /\ GivePlatform(c)
  /\ UNCHANGED <<conf, breaker, cache, history>>

(* fetchTemplate reads the row again, which may have changed.              *)
ReadRow(c) ==
  /\ c.step = "row"
  /\ CASE conf[c.den] = "incomplete" -> GivePlatform(c)
       [] conf[c.den] = "platform"   -> GoOn(c, "platform") /\ UNCHANGED served
       [] OTHER -> /\ GoOn(c, IF shouldFallback THEN "fallback" ELSE "operator")
                   /\ UNCHANGED served
  /\ UNCHANGED <<conf, breaker, cache, history>>

(* The node (of the operator, or after a change of the row the platform's) *)
(* answers: the template is built, cached and given.                       *)
Fetched(c) ==
  /\ c.step \in Origins
  /\ IF c.step = "operator" THEN recordSuccess /\ streak' = 0
     ELSE UNCHANGED <<breaker, streak>>
  /\ cache' = [cache EXCEPT ![c.den] = {[origin |-> c.step, clear |-> c.clear, age |-> 0]}]
  /\ Give(c.den, c.clear, c.step, c.clear)
  /\ calls' = calls \ {c}
  /\ UNCHANGED <<conf, left>>

(* No job can be built from the answer.                                    *)
Unusable(c) ==
  /\ c.step \in Origins
  /\ IF c.step = "operator" THEN recordSuccess /\ streak' = 0
     ELSE UNCHANGED <<breaker, streak>>
  /\ GivePlatform(c)
  /\ UNCHANGED <<conf, cache, left>>

(* The breaker is open and the platform's node answers: that is recorded   *)
(* as a success of the operator's node.                                    *)
FallbackAnswers(c) ==
  /\ c.step = "fallback"
  /\ recordSuccess
  /\ GivePlatform(c)
  /\ UNCHANGED <<conf, cache, history>>

OperatorFails(c) ==
  /\ c.step = "operator"
  /\ recordFailure
  /\ streak' = UpTo(Threshold, streak + 1)
  /\ GoOn(c, "hot")
  /\ UNCHANGED <<conf, cache, left, served>>

(* The platform's node answers the hot fallback, or fails any request: the *)
(* miner gets the tick's own template.                                     *)
PlatformEnds(c) ==
  /\ c.step \in {"hot", "fallback", "platform"}
  /\ GivePlatform(c)
  /\ UNCHANGED <<conf, breaker, cache, history>>

(* The operator changes the den's settings.                                *)
Configure(d, to) ==
  /\ to # conf[d]
  /\ conf' = [conf EXCEPT ![d] = to]
  /\ left' = [left EXCEPT ![d] = IF to = "operator" THEN 0 ELSE @]
  /\ UNCHANGED <<breaker, cache, calls, streak, served>>

(* A tick of time: entries expire.                                         *)
Expire(entries) == {[e EXCEPT !.age = @ + 1] : e \in {x \in entries : x.age + 1 < Ttl}}

Asked(d) == \E c \in calls : c.den = d /\ c.step = "operator"

Tick ==
  /\ cache' = [d \in Dens |-> Expire(cache[d])]
  /\ sinceFailure' = UpTo(Retry, sinceFailure + 1)
  /\ left' = [d \in Dens |->
                IF conf[d] = "operator" \/ (left[d] = 0 /\ Asked(d)) THEN 0
                ELSE UpTo(Long, left[d] + 1)]
  /\ UNCHANGED <<conf, failures, fallback, calls, streak, served>>

Next ==
  \/ Tick
  \/ \E d \in Dens, clear \in BOOLEAN : Hit(d, clear) \/ Ask(d, clear)
  \/ \E d \in Dens, to \in Confs : Configure(d, to)
  \/ \E c \in calls :
       \/ ReadGroup(c) \/ QueryFails(c) \/ ReadRow(c)
       \/ Fetched(c) \/ Unusable(c) \/ FallbackAnswers(c)
       \/ OperatorFails(c) \/ PlatformEnds(c)

Spec == Init /\ [][Next]_vars
-----------------------------------------------------------------------------
(* A den that left its operator's node is given no template of that node   *)
(* once the last request made before has ended and a cached template has   *)
(* had its time: no other call asks the node again, and a hit does not     *)
(* keep an entry alive.  There is no limit to how long such a request      *)
(* takes.                                                                  *)
LeftMeansLeft ==
  \A d \in Dens : \A t \in served[d] : t.origin = "operator" => t.left <= Ttl

(* The breaker is open only if as many requests as its threshold failed    *)
(* without an answer of the node in between, over all dens and calls.      *)
OpenMeansFailing == fallback => streak = Threshold

(* "The circuit breaker re-attempts the operator after retryAfterMs"       *)
(* (hashden.service.ts:80): an open breaker does not close before.         *)
StaysOpen == [][fallback => fallback' \/ sinceFailure = Retry \/ streak' = 0]_vars

(* "All groups invalidate jobs together when a new block is found"         *)
(* (hashden.service.ts:395): a call for a tick that clears jobs is given a *)
(* template that clears them.                                              *)
ClearsTogether == \A d \in Dens : \A t \in served[d] : t.asked => t.clear
=============================================================================
