--------------------------- MODULE CoinbaseSplit ---------------------------
(***************************************************************************)
(* How a block's reward is split in a den: the window of shares            *)
(* (pplns-window.ts), the fees and outputs of the two payout rules         *)
(* (packages/coinbase), their way through percentages into the coinbase    *)
(* transaction (hashden.service.ts, MiningJob.ts), and the preview         *)
(* (coinbase-preview.controller.ts).                                       *)
(*                                                                         *)
(* Shares arrive and the operator changes the den's terms between the      *)
(* reads of a computation.  A member's public key is a number; addresses   *)
(* are named by who they pay.  Members' rows are never removed.            *)
(***************************************************************************)
EXTENDS Integers, FiniteSets, Sequences, FiniteSetsExt

CONSTANTS
  Members, Diffs,        \* miners, scaled share difficulties
  Terms,                 \* the terms an operator may set
  Reward,                \* coinbasevalue
  PlatformFee, Unit,     \* PLATFORM_FEE_BPS; 10_000, which is 100 %
  WindowSize, MaxShares  \* 100_000; bound: shares recorded

VARIABLES
  shares,  \* the shares of the den, oldest first
  den,     \* the den's terms
  job,     \* the computation that runs: {} or a set of one
  result   \* its outcome: {} or a set of one

vars == <<shares, den, job, result>>

Total(f, S) == MapThenSumSet(LAMBDA x : f[x], S)

TermsOf == [rule : {"PPLNS", "SOLO_SHOWCASE"}, fee : 0..Unit, dust : Nat]
Member(m) == <<"MEMBER", m>>
Bucket    == <<"DUST_BUCKET", "operator">>
Operator  == <<"OPERATOR_FEE", "operator">>
Platform  == <<"PLATFORM_FEE", "platform">>
Payees    == {Member(m) : m \in Members} \cup {Bucket, Operator, Platform}

Jobs    == [kind : {"job", "preview"}, miner : Members, step : {"den", "window"}, terms : TermsOf]

TypeOK ==
  /\ shares \in Seq([who : Members, diff : Diffs]) /\ Len(shares) <= MaxShares
  /\ den \in Terms /\ Terms \subseteq TermsOf
  /\ job \subseteq Jobs /\ \A j, k \in job : j = k
  /\ \A r \in result :
       /\ DOMAIN r.outs \subseteq Payees /\ \A p \in DOMAIN r.outs : r.outs[p] \in Nat
       /\ r.owed \in [Members -> Nat] /\ r.weight \in [Members -> Nat] /\ r.terms \in TermsOf

Init == shares = <<>> /\ den \in Terms /\ job = {} /\ result = {}

recordShare(m, d) ==
  /\ Len(shares) < MaxShares
  /\ shares' = Append(shares, [who |-> m, diff |-> d])
  /\ UNCHANGED <<den, job, result>>

SetTerms(t) == den' = t /\ UNCHANGED <<shares, job, result>>
-----------------------------------------------------------------------------
(* computePplnsWindow: of the newest shares, what each member's weigh.     *)
computePplnsWindow ==
  LET newest == {i \in DOMAIN shares : i > Len(shares) - WindowSize} IN
  [m \in Members |->
     Total([i \in DOMAIN shares |-> shares[i].diff], {i \in newest : shares[i].who = m})]

splitFees(fee) ==
  LET platform == (Reward * PlatformFee) \div Unit
      operator == (Reward * fee) \div Unit
  IN  [platform |-> platform, operator |-> operator, remaining |-> Reward - platform - operator]

(* The outputs, as what each payee gets: of the bucket and the fees those  *)
(* that are not zero.                                                      *)
Outs(above, sats, rest, platform) ==
  LET fee  == [p \in {Bucket, Operator, Platform} |->
                 IF p = Bucket THEN rest.bucket ELSE IF p = Operator THEN rest.operator ELSE platform]
      fees == {p \in DOMAIN fee : fee[p] > 0}
  IN  [p \in {Member(m) : m \in above} \cup fees |-> IF p \in fees THEN fee[p] ELSE sats[p[2]]]

Nothing == [m \in Members |-> 0]

(* Mutant: what rounding leaves over is nobody's.                          *)
SpreadLost(fees, paid, owed) == [bucket |-> Total(owed, Members), operator |-> fees.operator]

(* What rounding leaves over goes to the bucket, if there is one.          *)
Spread(fees, paid, owed) ==
  LET rest == fees.remaining - Total(paid, Members) - Total(owed, Members) IN
  IF owed # Nothing THEN [bucket |-> Total(owed, Members) + rest, operator |-> fees.operator]
  ELSE [bucket |-> 0, operator |-> fees.operator + rest]

OnChain(sats, dust) == sats >= dust

buildPplnsCoinbase(terms, weight) ==
  LET fees  == splitFees(terms.fee)
      total == Total(weight, Members)
      miner == {m \in Members : weight[m] > 0}
      sats  == [m \in Members |-> IF total = 0 THEN 0 ELSE (fees.remaining * weight[m]) \div total]
      above == {m \in miner : OnChain(sats[m], terms.dust)}
      owed  == [m \in Members |-> IF m \in miner \ above THEN sats[m] ELSE 0]
      paid  == [m \in Members |-> IF m \in above THEN sats[m] ELSE 0]
      rest  == IF total = 0 THEN [bucket |-> fees.remaining, operator |-> fees.operator]
               ELSE Spread(fees, paid, owed)
  IN  [outs |-> Outs(above, sats, rest, fees.platform),
       owed |-> owed, terms |-> terms, weight |-> weight]

buildSoloShowcaseCoinbase(terms, miner) ==
  LET fees == splitFees(terms.fee)
      rest == [bucket |-> 0, operator |-> fees.operator]
  IN  [outs |-> Outs({miner}, [m \in Members |-> fees.remaining], rest, fees.platform),
       owed |-> Nothing, terms |-> terms, weight |-> [Nothing EXCEPT ![miner] = 1]]

(* The first output: members come in the order of their keys.              *)
First(outs) ==
  LET members == {m \in Members : Member(m) \in DOMAIN outs} IN
  IF members # {} THEN Member(Min(members))
  ELSE IF Bucket \in DOMAIN outs THEN Bucket
  ELSE IF Operator \in DOMAIN outs THEN Operator ELSE Platform

(* Each amount goes through a floating-point percentage and is floored: it *)
(* may come out one lower.  The first output gets what is missing.         *)
TopUp(outs, low) ==
  [p \in DOMAIN outs |-> outs[p] - (IF p \in low THEN 1 ELSE 0)
                                + (IF p = First(outs) THEN Cardinality(low) ELSE 0)]

createCoinbaseTransaction(split) ==
  LET outs == split.outs IN
  {[split EXCEPT !.outs = TopUp(outs, low)] :
     low \in SUBSET {p \in DOMAIN outs : outs[p] > 0 /\ outs[p] # Reward}}
-----------------------------------------------------------------------------
(* getUpstreamPayoutInformation reads the rule and the dust threshold, the *)
(* method of the rule reads the den again and is refused if the rule has   *)
(* changed, then the window is read.  The preview reads the den once.      *)

Begin(kind, m) ==
  /\ job = {}
  /\ job' = {[kind |-> kind, miner |-> m, step |-> "den", terms |-> den]}
  /\ result' = {}
  /\ UNCHANGED <<shares, den>>

(* The dust threshold is the one of the first read.                        *)
ReadTerms(j) ==
  /\ j.step = "den"
  /\ IF j.kind = "preview" THEN job' = {[j EXCEPT !.step = "window"]}
     ELSE IF den.rule # j.terms.rule THEN job' = {}
     ELSE job' = {[j EXCEPT !.step = "window", !.terms = [den EXCEPT !.dust = j.terms.dust]]}
  /\ UNCHANGED <<shares, den, result>>

Build(j) ==
  /\ j.step = "window" /\ j.kind = "job"
  /\ result' \in {{r} : r \in createCoinbaseTransaction(
       IF j.terms.rule = "PPLNS" THEN buildPplnsCoinbase(j.terms, computePplnsWindow)
       ELSE buildSoloShowcaseCoinbase(j.terms, j.miner))}
  /\ job' = {}
  /\ UNCHANGED <<shares, den>>

(* Nothing to show without shares; the newest one's miner stands for the   *)
(* winner.                                                                 *)
Preview(j) ==
  /\ j.step = "window" /\ j.kind = "preview"
  /\ result' = IF shares = <<>> THEN {}
               ELSE IF j.terms.rule = "PPLNS" THEN {buildPplnsCoinbase(j.terms, computePplnsWindow)}
               ELSE {buildSoloShowcaseCoinbase(j.terms, shares[Len(shares)].who)}
  /\ job' = {}
  /\ UNCHANGED <<shares, den>>

Next ==
  \/ \E m \in Members, d \in Diffs : recordShare(m, d)
  \/ \E t \in Terms : SetTerms(t)
  \/ \E kind \in {"job", "preview"}, m \in Members : Begin(kind, m)
  \/ \E j \in job : ReadTerms(j) \/ Build(j) \/ Preview(j)

Spec == Init /\ [][Next]_vars
-----------------------------------------------------------------------------
Paid(r, p) == IF p \in DOMAIN r.outs THEN r.outs[p] ELSE 0

(* The coinbase claims the whole reward, no more and no less, under every  *)
(* rounding.                                                               *)
PaysTheReward ==
  \A r \in result : Total(r.outs, DOMAIN r.outs) = Reward

(* A member gets what her share of the window's weight is worth, but for   *)
(* the satoshi a percentage may lose and what tops up the first output:    *)
(* all of it on chain from the threshold on, else promised out of the dust *)
(* bucket, which holds what is promised.                                   *)
PaysByWeight ==
  \A r \in result :
    LET total == Total(r.weight, Members)
        pot   == splitFees(r.terms.fee).remaining
    IN  /\ total > 0 => \A m \in Members :
             LET due == (pot * r.weight[m]) \div total
                 got == Paid(r, Member(m))
             IN  IF r.terms.rule = "PPLNS" /\ due < r.terms.dust THEN got = 0 /\ r.owed[m] = due
                 ELSE r.owed[m] = 0 /\ got >= due - 1 /\ got <= due + Cardinality(DOMAIN r.outs)
        /\ Paid(r, Bucket) + 1 >= Total(r.owed, Members)
=============================================================================
