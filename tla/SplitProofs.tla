----------------------------- MODULE SplitProofs ----------------------------
(***************************************************************************)
(* Proofs about CoinbaseSplit, as the part of Web it is: for any members,  *)
(* share difficulties, terms, reward, platform fee and window the coinbase *)
(* pays the reward, by weight.  Its sums are folds, about which an         *)
(* induction over the subsets of a finite set is proved first.             *)
(***************************************************************************)
EXTENDS Web, Sequences, FiniteSetTheorems, NaturalsInduction, WellFoundedInduction, TLAPS

-----------------------------------------------------------------------------
(* Induction                                                               *)

(* Some natural numbers have a least one.                                  *)
LEMMA LeastNat ==
  ASSUME NEW T, T \subseteq Nat, T # {}
  PROVE  \E x \in T : \A y \in T : x <= y
<1> DEFINE Less == {ss \in Nat \X Nat : ss[1] < ss[2]}
<1>1. IsWellFoundedOn(Less, Nat)
  BY NatLessThanWellFounded DEF OpToRel
<1>2. PICK x \in T : \A y \in T : ~ (<<y, x>> \in Less)
  BY <1>1, WFMin
<1>3. ASSUME NEW y \in T, y < x PROVE <<y, x>> \in Less
  <2>1. <<y, x>> \in Nat \X Nat /\ <<y, x>>[1] < <<y, x>>[2]
    BY <1>3
  <2> QED BY <2>1, Zenon
<1>4. ASSUME NEW y \in T PROVE x <= y
  <2>1. ~(y < x) /\ x \in Nat /\ y \in Nat
    BY <1>2, <1>3
  <2> QED BY <2>1
<1> QED BY <1>4

(* Among some subsets of a finite set there is one that without any of its *)
(* elements is none of them.                                               *)
LEMMA LeastSet ==
  ASSUME NEW D, IsFiniteSet(D), NEW B, B \subseteq SUBSET D, B # {}
  PROVE  \E s \in B : \A x \in s : s \ {x} \notin B
<1> DEFINE Sizes == {Cardinality(s) : s \in B}
<1>1. \A s \in B : IsFiniteSet(s) /\ Cardinality(s) \in Nat
  BY FS_Subset, FS_CardinalityType
<1>2. Sizes \subseteq Nat /\ Sizes # {}
  BY <1>1
<1>3. PICK n \in Sizes : \A k \in Sizes : n <= k
  BY <1>2, LeastNat
<1>4. PICK s \in B : n = Cardinality(s)
  OBVIOUS
<1>5. ASSUME NEW x \in s, s \ {x} \in B PROVE FALSE
  <2>1. Cardinality(s \ {x}) = n - 1 /\ n \in Nat
    BY <1>1, <1>4, FS_RemoveElement
  <2>2. Cardinality(s \ {x}) \in Sizes
    BY <1>5
  <2>3. n <= Cardinality(s \ {x})
    BY <1>3, <2>2
  <2> QED BY <2>1, <2>3
<1> QED BY <1>5

(* What the empty set is and a set with one element more stays, every      *)
(* finite set is.                                                          *)
LEMMA SetInduction ==
  ASSUME NEW D, IsFiniteSet(D), NEW P, {} \in P,
         \A s \in SUBSET D : s \in P => \A x \in D \ s : s \cup {x} \in P
  PROVE  D \in P
<1> SUFFICES ASSUME D \notin P PROVE FALSE
  OBVIOUS
<1>1. PICK s \in (SUBSET D) \ P : \A x \in s : s \ {x} \notin (SUBSET D) \ P
  BY LeastSet
<1>2. PICK x \in s : TRUE
  OBVIOUS
<1>3. s \ {x} \in P /\ (s \ {x}) \cup {x} = s
  BY <1>1, <1>2
<1> QED BY <1>1, <1>2, <1>3

-----------------------------------------------------------------------------
(* Sums                                                                    *)

(* g sums f over the subsets of S, an element at a time.                   *)
Additive(g, f, S) ==
  /\ g \in [SUBSET S -> Int] /\ g[{}] = 0
  /\ \A s \in SUBSET S : \A x \in S \ s : g[s \cup {x}] = f[x] + g[s]

LEMMA AdditiveExists ==
  ASSUME NEW S, IsFiniteSet(S), NEW f, \A x \in S : f[x] \in Int
  PROVE  \E g : Additive(g, f, S)
<1> DEFINE P == {s \in SUBSET S : \E g : Additive(g, f, s)}
<1>1. {} \in P
  <2>1. Additive([s \in SUBSET {} |-> 0], f, {})
    BY DEF Additive
  <2> QED BY <2>1
<1>2. ASSUME NEW s \in SUBSET S, s \in P, NEW x \in S \ s
      PROVE  s \cup {x} \in P
  <2>1. PICK g : Additive(g, f, s)
    BY <1>2
  <2> DEFINE T == s \cup {x}
             h == [t \in SUBSET T |-> IF x \in t THEN f[x] + g[t \ {x}] ELSE g[t]]
  <2>2. \A t \in SUBSET T : t \ {x} \in SUBSET s /\ (x \notin t => t \in SUBSET s)
    OBVIOUS
  <2>3. h \in [SUBSET T -> Int] /\ h[{}] = 0
    BY <2>1, <2>2 DEF Additive
  <2>4. ASSUME NEW t \in SUBSET T, NEW y \in T \ t PROVE h[t \cup {y}] = f[y] + h[t]
    <3>1. CASE y = x
      <4>1. (t \cup {y}) \ {x} = t
        BY <2>4, <3>1
      <4> QED BY <2>4, <3>1, <4>1
    <3>2. CASE y # x /\ x \notin t
      <4>1. t \cup {y} \in SUBSET s /\ t \in SUBSET s /\ y \in s \ t
        BY <2>4, <3>2
      <4>2. g[t \cup {y}] = f[y] + g[t]
        BY <2>1, <4>1 DEF Additive
      <4> QED BY <2>4, <3>2, <4>1, <4>2
    <3>3. CASE y # x /\ x \in t
      <4> DEFINE u == t \ {x}
      <4>1. u \in SUBSET s /\ y \in s \ u /\ (t \cup {y}) \ {x} = u \cup {y}
        BY <2>4, <3>3
      <4>2. g[u \cup {y}] = f[y] + g[u] /\ g[u] \in Int /\ f[x] \in Int /\ f[y] \in Int
        BY <2>1, <4>1 DEF Additive
      <4>3. h[t \cup {y}] = f[x] + g[u \cup {y}] /\ h[t] = f[x] + g[u]
        BY <2>4, <3>3, <4>1
      <4> QED BY <4>2, <4>3
    <3> QED BY <3>1, <3>2, <3>3
  <2>5. Additive(h, f, T)
    BY <2>3, <2>4 DEF Additive
  <2> QED BY <2>5
<1> HIDE DEF P
<1>3. S \in P
  BY <1>1, <1>2, SetInduction
<1> QED BY <1>3 DEF P

(* The fold of a model is that sum, in whatever order it takes elements.   *)
LEMMA TotalIs ==
  ASSUME NEW S, IsFiniteSet(S), NEW f, NEW g, Additive(g, f, S)
  PROVE  Split!Total(f, S) = g[S]
<1> DEFINE Rule(h) == h = [s \in SUBSET S |->
                            IF s = {} THEN 0
                            ELSE f[CHOOSE x \in s : TRUE] + h[s \ {CHOOSE x \in s : TRUE}]]
           iter == CHOOSE h : Rule(h)
<1>1. Split!Total(f, S) = iter[S]
  BY Zenon DEF Split!Total, Split!MapThenSumSet, Split!MapThenFoldSet
<1> HIDE DEF iter
<1>2. Rule(iter)
  <2>1. Rule(g)
    <3>1. ASSUME NEW s \in SUBSET S, s # {}
          PROVE  g[s] = f[CHOOSE x \in s : TRUE] + g[s \ {CHOOSE x \in s : TRUE}]
      <4> DEFINE x == CHOOSE y \in s : TRUE
      <4>1. x \in s
        BY <3>1
      <4>2. (s \ {x}) \cup {x} = s
        BY <4>1
      <4> HIDE DEF x
      <4>3. g[s] = f[x] + g[s \ {x}]
        BY <4>1, <4>2 DEF Additive
      <4> QED BY <4>3 DEF x
    <3> QED BY <3>1 DEF Additive
  <2> QED BY <2>1 DEF iter
<1>3. ASSUME iter[S] # g[S] PROVE FALSE
  <2> DEFINE B == {s \in SUBSET S : iter[s] # g[s]}
  <2>1. PICK s \in B : \A x \in s : s \ {x} \notin B
    BY <1>3, LeastSet
  <2>2. s # {}
    BY <1>2, <2>1 DEF Additive
  <2> DEFINE x == CHOOSE y \in s : TRUE
  <2>3. x \in s /\ (s \ {x}) \cup {x} = s
    BY <2>2
  <2>4. iter[s] = f[x] + iter[s \ {x}]
    BY <1>2, <2>2
  <2> HIDE DEF x
  <2>5. g[s] = f[x] + g[s \ {x}]
    BY <2>3 DEF Additive
  <2> QED BY <2>1, <2>3, <2>4, <2>5
<1> QED BY <1>1, <1>3

(* A sum of nothing is zero, and an element more adds its own.             *)
LEMMA Totals ==
  ASSUME NEW S, IsFiniteSet(S), NEW f, \A x \in S : f[x] \in Int
  PROVE  /\ Split!Total(f, {}) = 0
         /\ \A s \in SUBSET S : Split!Total(f, s) \in Int
         /\ \A s \in SUBSET S : \A x \in S \ s : Split!Total(f, s \cup {x}) = Split!Total(f, s) + f[x]
<1>1. PICK g : Additive(g, f, S)
  BY AdditiveExists
<1>2. ASSUME NEW s \in SUBSET S PROVE Split!Total(f, s) = g[s]
  <2> DEFINE h == [t \in SUBSET s |-> g[t]]
  <2>1. Additive(h, f, s)
    BY <1>1 DEF Additive
  <2>2. IsFiniteSet(s)
    BY FS_Subset
  <2> HIDE DEF h
  <2>3. Split!Total(f, s) = h[s]
    BY <2>1, <2>2, TotalIs
  <2> QED BY <2>3 DEF h
<1>3. ASSUME NEW s \in SUBSET S, NEW x \in S \ s
      PROVE  Split!Total(f, s \cup {x}) = Split!Total(f, s) + f[x]
  <2>1. s \cup {x} \in SUBSET S /\ g[s \cup {x}] = f[x] + g[s] /\ g[s] \in Int /\ f[x] \in Int
    BY <1>1 DEF Additive
  <2> QED BY <1>2, <2>1
<1> QED BY <1>1, <1>2, <1>3 DEF Additive

(* What sums to a natural number everywhere sums to one.                   *)
LEMMA TotalNat ==
  ASSUME NEW S, IsFiniteSet(S), NEW f, \A x \in S : f[x] \in Nat
  PROVE  Split!Total(f, S) \in Nat
<1> DEFINE P == {s \in SUBSET S : Split!Total(f, s) \in Nat}
<1>1. {} \in P
  BY Totals
<1>2. ASSUME NEW s \in SUBSET S, s \in P, NEW x \in S \ s PROVE s \cup {x} \in P
  BY <1>2, Totals
<1> HIDE DEF P
<1>3. S \in P
  BY <1>1, <1>2, SetInduction
<1> QED BY <1>3 DEF P

LEMMA TotalZero ==
  ASSUME NEW S, IsFiniteSet(S), NEW f, \A x \in S : f[x] = 0
  PROVE  Split!Total(f, S) = 0
<1> DEFINE P == {s \in SUBSET S : Split!Total(f, s) = 0}
<1>1. {} \in P
  BY Totals
<1>2. ASSUME NEW s \in SUBSET S, s \in P, NEW x \in S \ s PROVE s \cup {x} \in P
  BY <1>2, Totals
<1> HIDE DEF P
<1>3. S \in P
  BY <1>1, <1>2, SetInduction
<1> QED BY <1>3 DEF P

(* What is the same everywhere has the same sum.                           *)
LEMMA TotalSum ==
  ASSUME NEW S, IsFiniteSet(S), NEW f, NEW g, NEW h,
         \A x \in S : g[x] \in Int /\ h[x] \in Int /\ f[x] = g[x] + h[x]
  PROVE  Split!Total(f, S) = Split!Total(g, S) + Split!Total(h, S)
<1> DEFINE P == {s \in SUBSET S : Split!Total(f, s) = Split!Total(g, s) + Split!Total(h, s)}
<1>1. \A x \in S : f[x] \in Int /\ g[x] \in Int /\ h[x] \in Int
  OBVIOUS
<1>2. {} \in P
  BY <1>1, Totals
<1>3. ASSUME NEW s \in SUBSET S, s \in P, NEW x \in S \ s PROVE s \cup {x} \in P
  <2>1. /\ Split!Total(f, s \cup {x}) = Split!Total(f, s) + f[x]
        /\ Split!Total(g, s \cup {x}) = Split!Total(g, s) + g[x] /\ Split!Total(g, s) \in Int
        /\ Split!Total(h, s \cup {x}) = Split!Total(h, s) + h[x] /\ Split!Total(h, s) \in Int
    BY <1>1, Totals
  <2>2. f[x] = g[x] + h[x] /\ g[x] \in Int /\ h[x] \in Int
    OBVIOUS
  <2> QED BY <1>3, <2>1, <2>2
<1> HIDE DEF P
<1>4. S \in P
  BY <1>2, <1>3, SetInduction
<1> QED BY <1>4 DEF P

(* What is zero beside T sums to its sum over T.                           *)
LEMMA TotalWithin ==
  ASSUME NEW S, IsFiniteSet(S), NEW T \in SUBSET S, NEW f, NEW g,
         \A x \in S : g[x] \in Int /\ f[x] = IF x \in T THEN g[x] ELSE 0
  PROVE  Split!Total(f, S) = Split!Total(g, T)
<1> DEFINE P == {s \in SUBSET S : Split!Total(f, s) = Split!Total(g, s \cap T)}
<1>1. \A x \in S : f[x] \in Int /\ g[x] \in Int
  OBVIOUS
<1>2. {} \in P
  <2>1. {} \cap T = {}
    OBVIOUS
  <2> QED BY <1>1, <2>1, Totals
<1>3. ASSUME NEW s \in SUBSET S, s \in P, NEW x \in S \ s PROVE s \cup {x} \in P
  <2>1. Split!Total(f, s \cup {x}) = Split!Total(f, s) + f[x] /\ Split!Total(f, s) \in Int
    BY <1>1, Totals
  <2> DEFINE u == s \cap T
             v == (s \cup {x}) \cap T
  <2>2. Split!Total(f, s) = Split!Total(g, u)
    BY <1>3
  <2>3. u \in SUBSET S /\ x \notin u /\ v = IF x \in T THEN u \cup {x} ELSE u
    OBVIOUS
  <2> HIDE DEF u, v
  <2>4. x \in T => Split!Total(g, u \cup {x}) = Split!Total(g, u) + g[x]
    BY <1>1, <2>3, Totals
  <2>5. Split!Total(f, s \cup {x}) = Split!Total(g, v)
    BY <2>1, <2>2, <2>3, <2>4
  <2> QED BY <2>5 DEF u, v
<1> HIDE DEF P
<1>4. S \in P
  BY <1>2, <1>3, SetInduction
<1>5. S \cap T = T
  OBVIOUS
<1> QED BY <1>4, <1>5 DEF P
-----------------------------------------------------------------------------
(* Fees and shares of the reward                                           *)

(* A quotient is what fits.                                                *)
LEMMA Quotient ==
  ASSUME NEW a \in Nat, NEW b \in Nat \ {0}
  PROVE  a \div b \in Nat /\ (a \div b) * b <= a
OBVIOUS

(* The fees leave something, and the parts are the whole.                  *)
LEMMA FeesAreParts ==
  ASSUME NEW fee \in Nat, fee + PlatformFee <= Unit
  PROVE  LET fees == Split!splitFees(fee)
         IN  /\ fees.platform \in Nat /\ fees.operator \in Nat /\ fees.remaining \in Nat
             /\ fees.platform + fees.operator + fees.remaining = Reward
<1> DEFINE p == (Reward * PlatformFee) \div Unit
           o == (Reward * fee) \div Unit
<1>1. Reward \in Nat /\ Unit \in Nat \ {0} /\ PlatformFee \in Nat
  BY SplitAssumption
<1>2. Reward * PlatformFee \in Nat /\ Reward * fee \in Nat
  BY <1>1
<1>3. /\ p \in Nat /\ p * Unit <= Reward * PlatformFee
      /\ o \in Nat /\ o * Unit <= Reward * fee
  BY <1>1, <1>2, Quotient
<1> HIDE DEF p, o
<1>4. p + o <= Reward
  <2>1. (p + o) * Unit <= Reward * (PlatformFee + fee)
    BY <1>1, <1>3
  <2>2. Reward * (PlatformFee + fee) <= Reward * Unit
    BY <1>1
  <2>3. (p + o) * Unit <= Reward * Unit
    <3>1. (p + o) * Unit \in Int /\ Reward * (PlatformFee + fee) \in Int /\ Reward * Unit \in Int
      BY <1>1, <1>3
    <3> QED BY <2>1, <2>2, <3>1
  <2>4. ASSUME p + o > Reward PROVE FALSE
    <3>1. (p + o) * Unit >= (Reward + 1) * Unit
      BY <1>1, <1>3, <2>4
    <3> QED BY <1>1, <1>3, <2>3, <3>1
  <2> QED BY <1>1, <1>3, <2>4
<1> QED BY <1>1, <1>3, <1>4 DEF Split!splitFees, p, o

(* Parts by weight, each rounded down, are no more than the whole.         *)
LEMMA PartsFit ==
  ASSUME NEW pot \in Nat, NEW weight \in [Members -> Nat], NEW sats \in [Members -> Nat],
         NEW total \in Nat \ {0}, total = Split!Total(weight, Members),
         \A x \in Members : sats[x] = (pot * weight[x]) \div total
  PROVE  Split!Total(sats, Members) <= pot
<1> DEFINE P == {s \in SUBSET Members : total * Split!Total(sats, s) <= pot * Split!Total(weight, s)}
<1>1. IsFiniteSet(Members)
  BY SplitAssumption
<1>2. {} \in P
  BY <1>1, Totals
<1>3. ASSUME NEW s \in SUBSET Members, s \in P, NEW x \in Members \ s PROVE s \cup {x} \in P
  <2>1. /\ Split!Total(sats, s \cup {x}) = Split!Total(sats, s) + sats[x]
        /\ Split!Total(weight, s \cup {x}) = Split!Total(weight, s) + weight[x]
        /\ Split!Total(sats, s) \in Int /\ Split!Total(weight, s) \in Int
    BY <1>1, Totals
  <2>2. pot * weight[x] \in Nat
    OBVIOUS
  <2>3. sats[x] * total <= pot * weight[x]
    BY <2>2, Quotient
  <2> DEFINE a == Split!Total(sats, s)
             w == Split!Total(weight, s)
  <2>4. a \in Int /\ w \in Int /\ total * a <= pot * w /\ sats[x] \in Nat /\ weight[x] \in Nat
    BY <1>3, <2>1
  <2> HIDE DEF a, w
  <2>5. total * (a + sats[x]) <= pot * (w + weight[x])
    <3>1. total * (a + sats[x]) = total * a + sats[x] * total
      BY <2>4
    <3>2. pot * (w + weight[x]) = pot * w + pot * weight[x]
      BY <2>4
    <3>3. /\ total * a \in Int /\ sats[x] * total \in Int /\ pot * w \in Int /\ pot * weight[x] \in Int
      BY <2>4
    <3> QED BY <2>3, <2>4, <3>1, <3>2, <3>3
  <2> QED BY <2>1, <2>5 DEF a, w
<1> HIDE DEF P
<1>4. Members \in P
  BY <1>1, <1>2, <1>3, SetInduction
<1> DEFINE a == Split!Total(sats, Members)
<1>5. a \in Int /\ total * a <= pot * total
  BY <1>1, <1>4, Totals DEF P
<1> HIDE DEF a
<1>6. ASSUME a > pot PROVE FALSE
  <2>1. total * a >= total * (pot + 1)
    BY <1>5, <1>6
  <2> QED BY <1>5, <2>1
<1> QED BY <1>5, <1>6 DEF a
-----------------------------------------------------------------------------
(* Outputs                                                                 *)

PaidTo(s) == {Split!Member(x) : x \in s}
Feed      == {Split!Bucket, Split!Operator, Split!Platform}

LEMMA PayeesDiffer ==
  /\ Split!Bucket # Split!Operator /\ Split!Bucket # Split!Platform /\ Split!Operator # Split!Platform
  /\ \A x : Split!Member(x) \notin Feed /\ Split!Member(x)[2] = x
  /\ \A x, y : Split!Member(x) = Split!Member(y) => x = y
BY DEF Split!Bucket, Split!Operator, Split!Platform, Split!Member, Feed

LEMMA PaidToFinite == ASSUME NEW s, IsFiniteSet(s) PROVE IsFiniteSet(PaidTo(s))
<1> DEFINE P == {t \in SUBSET s : IsFiniteSet(PaidTo(t))}
<1>1. {} \in P
  <2>1. PaidTo({}) = {}
    BY DEF PaidTo
  <2> QED BY <2>1, FS_EmptySet
<1>2. ASSUME NEW t \in SUBSET s, t \in P, NEW x \in s \ t PROVE t \cup {x} \in P
  <2>1. PaidTo(t \cup {x}) = PaidTo(t) \cup {Split!Member(x)}
    BY DEF PaidTo
  <2>2. IsFiniteSet(PaidTo(t) \cup {Split!Member(x)})
    BY <1>2, FS_AddElement
  <2> QED BY <2>1, <2>2
<1> HIDE DEF P
<1>3. s \in P
  BY <1>1, <1>2, SetInduction
<1> QED BY <1>3 DEF P

(* What is paid to members sums to their parts.                            *)
LEMMA PaidToTotal ==
  ASSUME NEW above, IsFiniteSet(above), NEW sats, NEW outs,
         \A x \in above : sats[x] \in Int /\ outs[Split!Member(x)] = sats[x]
  PROVE  Split!Total(outs, PaidTo(above)) = Split!Total(sats, above)
<1> DEFINE P == {s \in SUBSET above : Split!Total(outs, PaidTo(s)) = Split!Total(sats, s)}
<1>1. IsFiniteSet(PaidTo(above)) /\ \A p \in PaidTo(above) : outs[p] \in Int
  BY PaidToFinite DEF PaidTo
<1>2. \A x \in above : sats[x] \in Int
  OBVIOUS
<1>3. {} \in P
  <2>1. PaidTo({}) = {}
    BY DEF PaidTo
  <2>2. Split!Total(outs, {}) = 0 /\ Split!Total(sats, {}) = 0
    BY <1>1, <1>2, Totals
  <2> QED BY <2>1, <2>2
<1>4. ASSUME NEW s \in SUBSET above, s \in P, NEW x \in above \ s PROVE s \cup {x} \in P
  <2>1. /\ PaidTo(s \cup {x}) = PaidTo(s) \cup {Split!Member(x)}
        /\ PaidTo(s) \in SUBSET PaidTo(above) /\ Split!Member(x) \in PaidTo(above) \ PaidTo(s)
    BY PayeesDiffer DEF PaidTo
  <2>2. Split!Total(outs, PaidTo(s) \cup {Split!Member(x)}) =
          Split!Total(outs, PaidTo(s)) + outs[Split!Member(x)]
    BY <1>1, <2>1, Totals
  <2>3. Split!Total(sats, s \cup {x}) = Split!Total(sats, s) + sats[x]
    BY <1>2, Totals
  <2> QED BY <1>4, <2>1, <2>2, <2>3
<1> HIDE DEF P
<1>5. above \in P
  BY <1>3, <1>4, SetInduction
<1> QED BY <1>5 DEF P

(* An output that is left out when it is zero is missing in no sum.        *)
LEMMA WithFee ==
  ASSUME NEW D, IsFiniteSet(D), NEW outs, \A p \in D : outs[p] \in Int,
         NEW rest \in SUBSET D, NEW p \in Feed, p \notin rest, NEW v \in Nat,
         p \in D <=> v > 0, p \in D => outs[p] = v
  PROVE  Split!Total(outs, rest \cup ({p} \cap D)) = Split!Total(outs, rest) + v
<1>1. CASE p \in D
  <2>1. rest \cup ({p} \cap D) = rest \cup {p}
    BY <1>1
  <2>2. Split!Total(outs, rest \cup {p}) = Split!Total(outs, rest) + outs[p]
    BY <1>1, Totals
  <2> QED BY <1>1, <2>1, <2>2
<1>2. CASE p \notin D
  <2>1. rest \cup ({p} \cap D) = rest /\ v = 0
    BY <1>2
  <2>2. Split!Total(outs, rest) \in Int
    BY Totals
  <2>3. Split!Total(outs, rest \cup ({p} \cap D)) = Split!Total(outs, rest)
    BY <2>1
  <2> QED BY <2>1, <2>2, <2>3
<1> QED BY <1>1, <1>2

(* The outputs are the members' parts, the bucket and the fees.            *)
Pay(outs, above, sats, rest, platform) ==
  /\ DOMAIN outs \subseteq Split!Payees /\ IsFiniteSet(DOMAIN outs)
  /\ \A p \in DOMAIN outs : outs[p] \in Nat
  /\ \A x \in Members : Split!Member(x) \in DOMAIN outs <=> x \in above
  /\ \A x \in above : outs[Split!Member(x)] = sats[x]
  /\ Split!Bucket \in DOMAIN outs <=> rest.bucket > 0
  /\ Split!Bucket \in DOMAIN outs => outs[Split!Bucket] = rest.bucket
  /\ Split!Total(outs, DOMAIN outs) = Split!Total(sats, above) + rest.bucket + rest.operator + platform

LEMMA OutsPay ==
  ASSUME NEW above \in SUBSET Members, NEW sats \in [Members -> Nat], NEW rest,
         rest.bucket \in Nat, rest.operator \in Nat, NEW platform \in Nat,
         NEW outs, outs = Split!Outs(above, sats, rest, platform)
  PROVE  Pay(outs, above, sats, rest, platform)
<1> DEFINE fee  == [p \in Feed |-> IF p = Split!Bucket THEN rest.bucket
                                 ELSE IF p = Split!Operator THEN rest.operator ELSE platform]
           fees == {p \in DOMAIN fee : fee[p] > 0}
           D    == PaidTo(above) \cup fees
<1>1. outs = [p \in D |-> IF p \in fees THEN fee[p] ELSE sats[p[2]]]
  BY DEF Split!Outs, Feed, PaidTo
<1>2. /\ fee[Split!Bucket] = rest.bucket /\ fee[Split!Operator] = rest.operator
      /\ fee[Split!Platform] = platform /\ fees = {p \in Feed : fee[p] > 0}
      /\ \A p \in Feed : fee[p] \in Nat
  BY PayeesDiffer DEF Feed
<1> HIDE DEF fee
<1>3. DOMAIN outs = D /\ PaidTo(above) \cap Feed = {} /\ fees \subseteq Feed
  BY <1>1, <1>2, PayeesDiffer DEF PaidTo
<1>4. \A x \in above : outs[Split!Member(x)] = sats[x] /\ sats[x] \in Nat
  BY <1>1, <1>2, PayeesDiffer DEF PaidTo
<1>5. \A p \in Feed : (p \in D <=> fee[p] > 0) /\ (p \in D => outs[p] = fee[p])
  BY <1>1, <1>2, <1>3
<1>6. \A p \in D : outs[p] \in Nat
  BY <1>2, <1>3, <1>4, <1>5 DEF PaidTo
<1>7. \A x \in Members : Split!Member(x) \in D <=> x \in above
  BY <1>2, PayeesDiffer DEF PaidTo
<1>8. D \subseteq Split!Payees
  BY <1>2 DEF PaidTo, Split!Payees, Feed
<1>9. IsFiniteSet(D) /\ IsFiniteSet(above)
  <2>1. IsFiniteSet(above)
    BY SplitAssumption, FS_Subset
  <2>2. IsFiniteSet(Feed)
    <3>1. Feed = (({} \cup {Split!Bucket}) \cup {Split!Operator}) \cup {Split!Platform}
      BY DEF Feed
    <3>2. IsFiniteSet({} \cup {Split!Bucket})
      BY FS_EmptySet, FS_AddElement
    <3>3. IsFiniteSet(({} \cup {Split!Bucket}) \cup {Split!Operator})
      BY <3>2, FS_AddElement
    <3> QED BY <3>1, <3>3, FS_AddElement
  <2>3. IsFiniteSet(fees)
    BY <1>3, <2>2, FS_Subset
  <2> QED BY <2>1, <2>3, PaidToFinite, FS_Union
<1> HIDE DEF D, fees
<1>10. Split!Total(outs, PaidTo(above)) = Split!Total(sats, above)
  BY <1>4, <1>9, PaidToTotal
<1> DEFINE bucket   == {Split!Bucket} \cap D
           operator == {Split!Operator} \cap D
           last     == {Split!Platform} \cap D
           paid     == PaidTo(above)
<1>11. D = paid \cup bucket \cup operator \cup last /\ paid \cap Feed = {} /\ paid \subseteq D
  BY <1>3 DEF Feed, D
<1>12. \A p \in D : outs[p] \in Int
  BY <1>6
<1>13. Split!Total(outs, paid \cup bucket) = Split!Total(outs, paid) + rest.bucket
  <2>1. Split!Bucket \in Feed /\ Split!Bucket \notin paid
    BY <1>11 DEF Feed
  <2> QED BY <1>2, <1>5, <1>9, <1>11, <1>12, <2>1, WithFee
<1>14. Split!Total(outs, paid \cup bucket \cup operator) = Split!Total(outs, paid \cup bucket) + rest.operator
  <2>1. Split!Operator \in Feed /\ Split!Operator \notin paid \cup bucket /\ paid \cup bucket \in SUBSET D
    BY <1>11, PayeesDiffer DEF Feed
  <2> HIDE DEF paid, bucket
  <2> QED BY <1>2, <1>5, <1>9, <1>12, <2>1, WithFee
<1>15. Split!Total(outs, paid \cup bucket \cup operator \cup last) =
         Split!Total(outs, paid \cup bucket \cup operator) + platform
  <2> DEFINE before == paid \cup bucket \cup operator
  <2>1. Split!Platform \in Feed /\ Split!Platform \notin before /\ before \in SUBSET D
    BY <1>11, PayeesDiffer DEF Feed
  <2> HIDE DEF before
  <2>2. Split!Total(outs, before \cup last) = Split!Total(outs, before) + platform
    BY <1>2, <1>5, <1>9, <1>12, <2>1, WithFee
  <2> QED BY <2>2 DEF before
<1> HIDE DEF bucket, operator, last, paid
<1>16. Split!Total(outs, D) = Split!Total(sats, above) + rest.bucket + rest.operator + platform
  BY <1>10, <1>11, <1>13, <1>14, <1>15 DEF paid
<1>17. Split!Bucket \in Feed
  BY DEF Feed
<1>18. /\ Split!Bucket \in D <=> rest.bucket > 0
       /\ Split!Bucket \in D => outs[Split!Bucket] = rest.bucket
  BY <1>2, <1>5, <1>17
<1>19. \A x \in above : outs[Split!Member(x)] = sats[x]
  BY <1>4
<1> QED BY <1>3, <1>6, <1>7, <1>8, <1>9, <1>16, <1>18, <1>19, Zenon DEF Pay
-----------------------------------------------------------------------------
(* The two payout rules                                                    *)

(* A split before its rounding: it pays the reward, each member exactly    *)
(* what her weight is worth, and the bucket holds what is promised.        *)
Typed(r) ==
  /\ r = [outs |-> r.outs, owed |-> r.owed, terms |-> r.terms, weight |-> r.weight]
  /\ DOMAIN r.outs \subseteq Split!Payees /\ IsFiniteSet(DOMAIN r.outs)
  /\ \A p \in DOMAIN r.outs : r.outs[p] \in Nat
  /\ r.owed \in [Members -> Nat] /\ r.weight \in [Members -> Nat] /\ r.terms \in Split!TermsOf

Due(r, x) == (Split!splitFees(r.terms.fee).remaining * r.weight[x]) \div Split!Total(r.weight, Members)

Promised(r, x) == r.terms.rule = "PPLNS" /\ Due(r, x) < r.terms.dust

Exact(r) ==
  /\ Typed(r)
  /\ Split!Total(r.outs, DOMAIN r.outs) = Reward
  /\ Split!Total(r.weight, Members) > 0 => \A x \in Members :
       /\ Due(r, x) \in Nat
       /\ Promised(r, x) => Split!Member(x) \notin DOMAIN r.outs /\ r.owed[x] = Due(r, x)
       /\ ~Promised(r, x) => r.owed[x] = 0 /\ Split!Paid(r, Split!Member(x)) = Due(r, x)
  /\ Split!Paid(r, Split!Bucket) >= Split!Total(r.owed, Members)

(* Of an amount, what is paid on chain and what is owed.                   *)
LEMMA PplnsExact ==
  ASSUME NEW tm \in Split!TermsOf, tm.fee + PlatformFee <= Unit, tm.rule = "PPLNS",
         NEW weight \in [Members -> Nat], NEW r, r = Split!buildPplnsCoinbase(tm, weight)
  PROVE  Exact(r)
<1> DEFINE fees  == Split!splitFees(tm.fee)
           total == Split!Total(weight, Members)
           miner == {x \in Members : weight[x] > 0}
           sats  == [x \in Members |-> IF total = 0 THEN 0 ELSE (fees.remaining * weight[x]) \div total]
           above == {x \in miner : Split!OnChain(sats[x], tm.dust)}
           owed  == [x \in Members |-> IF x \in miner \ above THEN sats[x] ELSE 0]
           paid  == [x \in Members |-> IF x \in above THEN sats[x] ELSE 0]
           rest  == IF total = 0 THEN [bucket |-> fees.remaining, operator |-> fees.operator]
                    ELSE Split!Spread(fees, paid, owed)
           outs  == Split!Outs(above, sats, rest, fees.platform)
<1>1. r = [outs |-> outs, owed |-> owed, terms |-> tm, weight |-> weight]
  BY DEF Split!buildPplnsCoinbase
<1>2. /\ fees.platform \in Nat /\ fees.operator \in Nat /\ fees.remaining \in Nat
      /\ fees.platform + fees.operator + fees.remaining = Reward
  BY FeesAreParts DEF Split!TermsOf
<1>3. IsFiniteSet(Members) /\ total \in Nat
  BY SplitAssumption, TotalNat
<1> HIDE DEF fees, total
<1>4. /\ sats \in [Members -> Nat]
      /\ \A x \in Members : weight[x] = 0 => sats[x] = 0
  <2>1. ASSUME NEW x \in Members, total # 0
        PROVE  /\ (fees.remaining * weight[x]) \div total \in Nat
               /\ weight[x] = 0 => (fees.remaining * weight[x]) \div total = 0
    <3>1. fees.remaining * weight[x] \in Nat /\ (weight[x] = 0 => fees.remaining * weight[x] = 0)
      BY <1>2
    <3> QED BY <1>3, <2>1, <3>1, Quotient
  <2> QED BY <2>1
<1>5. /\ above \in SUBSET Members /\ \A x \in above : sats[x] >= tm.dust
      /\ \A x \in Members \ above : weight[x] = 0 \/ sats[x] < tm.dust
      /\ \A x \in Members \ above : owed[x] = sats[x]
      /\ \A x \in above : owed[x] = 0
  BY <1>4 DEF Split!OnChain, Split!TermsOf
<1>6. owed \in [Members -> Nat] /\ paid \in [Members -> Nat]
      /\ \A x \in Members : sats[x] = paid[x] + owed[x]
  BY <1>4, <1>5
<1>7. /\ Split!Total(sats, Members) = Split!Total(paid, Members) + Split!Total(owed, Members)
      /\ Split!Total(paid, Members) = Split!Total(sats, above)
      /\ Split!Total(paid, Members) \in Nat /\ Split!Total(owed, Members) \in Nat
  <2> HIDE DEF sats, above, owed
  <2>1. \A x \in Members : sats[x] \in Int /\ paid[x] = IF x \in above THEN sats[x] ELSE 0
    BY <1>4
  <2> HIDE DEF paid
  <2>2. Split!Total(sats, Members) = Split!Total(paid, Members) + Split!Total(owed, Members)
    BY <1>3, <1>6, TotalSum
  <2>3. Split!Total(paid, Members) = Split!Total(sats, above)
    BY <1>3, <1>5, <2>1, TotalWithin
  <2>4. Split!Total(paid, Members) \in Nat /\ Split!Total(owed, Members) \in Nat
    BY <1>3, <1>6, TotalNat
  <2> QED BY <2>2, <2>3, <2>4
<1>8. /\ rest.bucket \in Nat /\ rest.operator \in Nat /\ rest.bucket >= Split!Total(owed, Members)
      /\ Split!Total(sats, above) + rest.bucket + rest.operator = fees.remaining + fees.operator
  <2> DEFINE p == Split!Total(paid, Members)
             o == Split!Total(owed, Members)
  <2>1. CASE total = 0
    <3>1. Split!Total(sats, Members) = 0
      BY <1>3, <2>1, TotalZero
    <3> HIDE DEF p, o, sats, above, owed, paid
    <3>2. p = 0 /\ o = 0
      BY <1>7, <3>1 DEF p, o
    <3>3. rest.bucket = fees.remaining /\ rest.operator = fees.operator
      BY <2>1
    <3> HIDE DEF rest
    <3> QED BY <1>2, <1>7, <3>2, <3>3 DEF p, o
  <2>2. CASE total # 0
    <3>1. Split!Total(sats, Members) <= fees.remaining
      <4>1. \A x \in Members : sats[x] = (fees.remaining * weight[x]) \div total
        BY <2>2
      <4> HIDE DEF sats
      <4> QED BY <1>2, <1>3, <1>4, <2>2, <4>1, PartsFit DEF total
    <3>2. owed = Split!Nothing => o = 0
      <4> HIDE DEF owed
      <4> QED BY <1>3, TotalZero DEF Split!Nothing
    <3>3. rest = Split!Spread(fees, paid, owed)
      BY <2>2
    <3> HIDE DEF rest, sats, above, owed, paid
    <3>4. /\ p \in Nat /\ o \in Nat /\ p + o <= fees.remaining
          /\ p = Split!Total(sats, above)
      BY <1>7, <3>1
    <3>5. /\ owed # Split!Nothing =>
               rest.bucket = o + (fees.remaining - p - o) /\ rest.operator = fees.operator
          /\ owed = Split!Nothing =>
               rest.bucket = 0 /\ rest.operator = fees.operator + (fees.remaining - p - o)
      BY <3>3 DEF Split!Spread
    <3> HIDE DEF p, o
    <3>6. /\ rest.bucket \in Nat /\ rest.operator \in Nat /\ rest.bucket >= o
          /\ p + rest.bucket + rest.operator = fees.remaining + fees.operator
      BY <1>2, <3>2, <3>4, <3>5
    <3> QED BY <3>4, <3>6 DEF o
  <2> QED BY <2>1, <2>2
<1>9. total > 0 => \A x \in Members : Due(r, x) = sats[x]
  BY <1>1 DEF Due, fees, total
<1> HIDE DEF sats, above, owed, paid, rest
<1>10. Pay(outs, above, sats, rest, fees.platform)
  <2>1. outs = Split!Outs(above, sats, rest, fees.platform)
    OBVIOUS
  <2> HIDE DEF outs
  <2>2. /\ above \in SUBSET Members /\ sats \in [Members -> Nat] /\ fees.platform \in Nat
        /\ rest.bucket \in Nat /\ rest.operator \in Nat
    BY <1>2, <1>4, <1>5, <1>8
  <2> QED BY <2>1, <2>2, OutsPay
<1> HIDE DEF outs
<1>11. Typed(r)
  BY <1>1, <1>6, <1>10 DEF Typed, Pay
<1>12. Split!Total(r.outs, DOMAIN r.outs) = Reward
  <2>1. Split!Total(sats, above) \in Int
    BY <1>7
  <2> QED BY <1>1, <1>2, <1>8, <1>10, <2>1 DEF Pay
<1>13. ASSUME total > 0, NEW x \in Members
       PROVE  /\ Due(r, x) \in Nat
              /\ Promised(r, x) => Split!Member(x) \notin DOMAIN r.outs /\ r.owed[x] = Due(r, x)
              /\ ~Promised(r, x) => r.owed[x] = 0 /\ Split!Paid(r, Split!Member(x)) = Due(r, x)
  <2>1. Due(r, x) = sats[x] /\ sats[x] \in Nat /\ tm.dust \in Nat
    BY <1>4, <1>9, <1>13 DEF Split!TermsOf
  <2>2. Promised(r, x) <=> sats[x] < tm.dust
    BY <1>1, <2>1 DEF Promised
  <2>3. CASE x \in above
    <3>1. ~Promised(r, x) /\ r.owed[x] = 0
      BY <1>1, <1>5, <2>1, <2>2, <2>3
    <3>2. Split!Member(x) \in DOMAIN r.outs /\ r.outs[Split!Member(x)] = sats[x]
      BY <1>1, <1>10, <2>3 DEF Pay
    <3> QED BY <2>1, <3>1, <3>2 DEF Split!Paid
  <2>4. CASE x \notin above
    <3>1. ~Promised(r, x) => sats[x] = 0
      BY <1>4, <1>5, <2>1, <2>2, <2>4
    <3>2. r.owed[x] = sats[x] /\ Split!Member(x) \notin DOMAIN r.outs
      BY <1>1, <1>5, <1>10, <2>4 DEF Pay
    <3> QED BY <2>1, <3>1, <3>2 DEF Split!Paid
  <2> QED BY <2>3, <2>4
<1>14. Split!Paid(r, Split!Bucket) >= Split!Total(r.owed, Members)
  BY <1>1, <1>8, <1>10 DEF Split!Paid, Pay
<1> QED BY <1>1, <1>11, <1>12, <1>13, <1>14 DEF Exact, total

(* The winner gets what the fees leave.                                    *)
LEMMA SoloExact ==
  ASSUME NEW tm \in Split!TermsOf, tm.fee + PlatformFee <= Unit, tm.rule # "PPLNS",
         NEW miner \in Members, NEW r, r = Split!buildSoloShowcaseCoinbase(tm, miner)
  PROVE  Exact(r)
<1> DEFINE only   == {miner}
           fees   == Split!splitFees(tm.fee)
           rest   == [bucket |-> 0, operator |-> fees.operator]
           sats   == [x \in Members |-> fees.remaining]
           weight == [Split!Nothing EXCEPT ![miner] = 1]
           outs   == Split!Outs(only, sats, rest, fees.platform)
<1>1. r = [outs |-> outs, owed |-> Split!Nothing, terms |-> tm, weight |-> weight]
  BY DEF Split!buildSoloShowcaseCoinbase
<1>2. /\ fees.platform \in Nat /\ fees.operator \in Nat /\ fees.remaining \in Nat
      /\ fees.platform + fees.operator + fees.remaining = Reward
  BY FeesAreParts DEF Split!TermsOf
<1>3. /\ Split!Nothing \in [Members -> Nat] /\ weight \in [Members -> Nat] /\ sats \in [Members -> Nat]
      /\ \A x \in Members : weight[x] = IF x = miner THEN 1 ELSE 0
  BY <1>2 DEF Split!Nothing
<1>4. Split!Total(Split!Nothing, Members) = 0
  BY SplitAssumption, TotalZero DEF Split!Nothing
<1> HIDE DEF only, fees, weight, sats
<1>5. ASSUME NEW f, f[miner] \in Int PROVE Split!Total(f, only) = f[miner]
  <2>1. IsFiniteSet(only) /\ {} \in SUBSET only /\ miner \in only \ {} /\ {} \cup {miner} = only
    <3>1. IsFiniteSet({} \cup {miner})
      BY FS_EmptySet, FS_AddElement
    <3>2. {} \cup {miner} = only
      BY DEF only
    <3> QED BY <3>1, <3>2 DEF only
  <2>2. \A x \in only : f[x] \in Int
    BY <1>5 DEF only
  <2>3. Split!Total(f, {}) = 0 /\ Split!Total(f, {} \cup {miner}) = Split!Total(f, {}) + f[miner]
    BY <2>1, <2>2, Totals
  <2> QED BY <1>5, <2>1, <2>3
<1>6. Split!Total(weight, Members) = 1
  <2>1. \A x \in Members : weight[x] \in Int /\ weight[x] = IF x \in only THEN weight[x] ELSE 0
    BY <1>3 DEF only
  <2>2. Split!Total(weight, Members) = Split!Total(weight, only)
    <3>1. only \in SUBSET Members /\ IsFiniteSet(Members)
      BY SplitAssumption DEF only
    <3>2. \A x \in Members : weight[x] \in Int
      BY <1>3
    <3> QED BY <2>1, <3>1, <3>2, TotalWithin
  <2> QED BY <1>3, <1>5, <2>2
<1>7. rest.bucket = 0 /\ rest.operator = fees.operator
  OBVIOUS
<1> HIDE DEF rest
<1>8. Pay(outs, only, sats, rest, fees.platform)
  <2>1. outs = Split!Outs(only, sats, rest, fees.platform)
    OBVIOUS
  <2> HIDE DEF outs
  <2>2. only \in SUBSET Members /\ rest.bucket \in Nat /\ rest.operator \in Nat
    BY <1>2, <1>7 DEF only
  <2> QED BY <1>2, <1>3, <2>1, <2>2, OutsPay
<1> HIDE DEF outs
<1>9. sats[miner] = fees.remaining /\ Split!Total(sats, only) = fees.remaining
  <2>1. sats[miner] = fees.remaining
    BY DEF sats
  <2> QED BY <1>2, <1>5, <2>1
<1>10. Typed(r)
  BY <1>1, <1>3, <1>8 DEF Typed, Pay
<1>11. Split!Total(r.outs, DOMAIN r.outs) = Reward
  BY <1>1, <1>2, <1>7, <1>8, <1>9 DEF Pay
<1>12. ASSUME NEW x \in Members
       PROVE  /\ Due(r, x) \in Nat
              /\ ~Promised(r, x) /\ r.owed[x] = 0
              /\ Split!Paid(r, Split!Member(x)) = Due(r, x)
  <2>1. Due(r, x) = (fees.remaining * weight[x]) \div 1
    BY <1>1, <1>6 DEF Due, fees
  <2>2. Due(r, x) = IF x = miner THEN fees.remaining ELSE 0
    BY <1>2, <1>3, <2>1
  <2>3. ~Promised(r, x)
    BY <1>1 DEF Promised
  <2>4. r.owed[x] = 0
    BY <1>1 DEF Split!Nothing
  <2>5. Split!Paid(r, Split!Member(x)) = Due(r, x)
    BY <1>1, <1>8, <1>9, <2>2 DEF Split!Paid, Pay, only
  <2> QED BY <1>2, <2>2, <2>3, <2>4, <2>5
<1>13. Split!Paid(r, Split!Bucket) >= Split!Total(r.owed, Members)
  <2>1. Split!Paid(r, Split!Bucket) \in Nat
    BY <1>1, <1>8 DEF Split!Paid, Pay
  <2> QED BY <1>1, <1>4, <2>1
<1> QED BY <1>10, <1>11, <1>12, <1>13 DEF Exact

-----------------------------------------------------------------------------
(* Rounding and topping up                                                 *)

LEMMA SplitCounts == \A S : Split!Cardinality(S) = Cardinality(S)
BY DEF Split!Cardinality, Cardinality

(* There is a first output when there is one.                              *)
LEMMA FirstIsOne ==
  ASSUME NEW outs, DOMAIN outs \subseteq Split!Payees, DOMAIN outs # {}
  PROVE  Split!First(outs) \in DOMAIN outs
<1> DEFINE members == {x \in Members : Split!Member(x) \in DOMAIN outs}
<1>1. CASE members # {}
  <2>1. members \subseteq Nat
    BY SplitAssumption
  <2>2. PICK y \in members : \A x \in members : y <= x
    BY <1>1, <2>1, LeastNat
  <2>3. Split!Min(members) \in members
    BY <2>2 DEF Split!Min
  <2>4. Split!First(outs) = Split!Member(Split!Min(members))
    BY <1>1 DEF Split!First
  <2> QED BY <2>3, <2>4
<1>2. CASE members = {}
  <2>1. \A p \in DOMAIN outs : p \in Feed
    BY <1>2 DEF Split!Payees, Feed
  <2>2. Split!First(outs) = IF Split!Bucket \in DOMAIN outs THEN Split!Bucket
                            ELSE IF Split!Operator \in DOMAIN outs THEN Split!Operator ELSE Split!Platform
    BY <1>2 DEF Split!First
  <2> QED BY <2>1, <2>2 DEF Feed
<1> QED BY <1>1, <1>2

(* Whatever is rounded down is what the first output gets.                 *)
LEMMA ToppedUp ==
  ASSUME NEW outs, DOMAIN outs \subseteq Split!Payees, IsFiniteSet(DOMAIN outs),
         \A p \in DOMAIN outs : outs[p] \in Nat,
         NEW low \in SUBSET DOMAIN outs, \A p \in low : outs[p] > 0,
         NEW top, top = Split!TopUp(outs, low)
  PROVE  /\ DOMAIN top = DOMAIN outs
         /\ \A p \in DOMAIN outs :
              /\ top[p] \in Nat
              /\ top[p] >= outs[p] - 1 /\ top[p] <= outs[p] + Cardinality(DOMAIN outs)
         /\ Split!Total(top, DOMAIN outs) = Split!Total(outs, DOMAIN outs)
<1> DEFINE D     == DOMAIN outs
           first == Split!First(outs)
           n     == Cardinality(low)
<1>1. IsFiniteSet(low) /\ n \in Nat /\ Cardinality(D) \in Nat /\ n <= Cardinality(D)
  BY FS_Subset, FS_CardinalityType
<1>2. top = [p \in D |-> outs[p] - (IF p \in low THEN 1 ELSE 0) + (IF p = first THEN n ELSE 0)]
  BY SplitCounts DEF Split!TopUp
<1>3. low # {} => first \in D
  BY FirstIsOne
<1>4. low = {} => n = 0
  BY FS_EmptySet
<1> HIDE DEF D, first, n
<1>5. \A p \in D : /\ outs[p] \in Nat /\ top[p] \in Nat
                   /\ top[p] = outs[p] - (IF p \in low THEN 1 ELSE 0) + (IF p = first THEN n ELSE 0)
                   /\ top[p] >= outs[p] - 1 /\ top[p] <= outs[p] + Cardinality(D)
  BY <1>1, <1>2 DEF D
<1> DEFINE P == {s \in SUBSET D :
                   Split!Total(top, s) = Split!Total(outs, s) - Cardinality(s \cap low)
                                          + (IF first \in s THEN n ELSE 0)}
<1>6. {} \in P
  <2>1. Split!Total(top, {}) = 0 /\ Split!Total(outs, {}) = 0
    BY <1>5, Totals DEF D
  <2>2. Cardinality({} \cap low) = 0
    BY FS_EmptySet
  <2> QED BY <2>1, <2>2
<1>7. ASSUME NEW s \in SUBSET D, s \in P, NEW x \in D \ s PROVE s \cup {x} \in P
  <2>1. /\ Split!Total(top, s \cup {x}) = Split!Total(top, s) + top[x]
        /\ Split!Total(outs, s \cup {x}) = Split!Total(outs, s) + outs[x]
        /\ Split!Total(top, s) \in Int /\ Split!Total(outs, s) \in Int
    BY <1>5, Totals DEF D
  <2> DEFINE lowS == s \cap low
             lowX == (s \cup {x}) \cap low
             moreS == IF first \in s THEN n ELSE 0
             moreX == IF first \in s \cup {x} THEN n ELSE 0
  <2>2. IsFiniteSet(lowS) /\ Cardinality(lowS) \in Nat /\ x \notin lowS
    BY <1>1, FS_Subset, FS_CardinalityType
  <2>3. lowX = IF x \in low THEN lowS \cup {x} ELSE lowS
    OBVIOUS
  <2>4. Split!Total(top, s) = Split!Total(outs, s) - Cardinality(lowS) + moreS
    BY <1>7
  <2>5. moreX = moreS + (IF x = first THEN n ELSE 0) /\ moreS \in Nat
    BY <1>1
  <2> HIDE DEF lowS, lowX, moreS, moreX
  <2>6. Cardinality(lowX) = Cardinality(lowS) + (IF x \in low THEN 1 ELSE 0)
    <3>1. x \notin lowS => Cardinality(lowS \cup {x}) = Cardinality(lowS) + 1
      BY <2>2, FS_AddElement
    <3>2. CASE x \in low
      BY <2>2, <2>3, <3>1, <3>2
    <3>3. CASE x \notin low
      BY <2>2, <2>3, <3>3
    <3> QED BY <3>2, <3>3
  <2>7. Split!Total(top, s \cup {x}) = Split!Total(outs, s \cup {x}) - Cardinality(lowX) + moreX
    BY <1>1, <1>5, <2>1, <2>2, <2>4, <2>5, <2>6
  <2> QED BY <2>7 DEF lowX, moreX
<1> HIDE DEF P
<1>8. D \in P
  BY <1>6, <1>7, SetInduction DEF D
<1>9. Split!Total(top, D) = Split!Total(outs, D)
  <2>1. D \cap low = low
    BY DEF D
  <2>2. Split!Total(outs, D) \in Int
    BY <1>5, Totals DEF D
  <2>3. Split!Total(top, D) = Split!Total(outs, D) - n + (IF first \in D THEN n ELSE 0)
    BY <1>8, <2>1 DEF P, n
  <2> QED BY <1>1, <1>3, <1>4, <2>2, <2>3
<1> QED BY <1>2, <1>5, <1>9 DEF D

-----------------------------------------------------------------------------
(* The invariant                                                           *)

(* A result as the properties want it.                                     *)
Sound(r) ==
  LET total == Split!Total(r.weight, Members)
  IN  /\ Split!Total(r.outs, DOMAIN r.outs) = Reward
      /\ total > 0 => \A x \in Members :
           LET got == Split!Paid(r, Split!Member(x))
           IN  IF Promised(r, x) THEN got = 0 /\ r.owed[x] = Due(r, x)
               ELSE r.owed[x] = 0 /\ got >= Due(r, x) - 1 /\ got <= Due(r, x) + Cardinality(DOMAIN r.outs)
      /\ Split!Paid(r, Split!Bucket) + 1 >= Split!Total(r.owed, Members)

(* An exact split is sound, and stays it when it is rounded.               *)
LEMMA ExactIsSound ==
  ASSUME NEW r, Exact(r)
  PROVE  /\ Typed(r) /\ Sound(r)
         /\ \A t \in Split!createCoinbaseTransaction(r) : Typed(t) /\ Sound(t)
<1> DEFINE n == Cardinality(DOMAIN r.outs)
<1>1. n \in Nat
  BY FS_CardinalityType DEF Exact, Typed
<1>2. IsFiniteSet(Members) /\ Split!Total(r.owed, Members) \in Nat
  BY SplitAssumption, TotalNat DEF Exact, Typed
<1>3. \A p : Split!Paid(r, p) \in Nat
  BY DEF Exact, Typed, Split!Paid
<1> HIDE DEF n
<1>4. Sound(r)
  <2>1. ASSUME NEW x \in Members, Split!Total(r.weight, Members) > 0
        PROVE  IF Promised(r, x) THEN Split!Paid(r, Split!Member(x)) = 0 /\ r.owed[x] = Due(r, x)
               ELSE /\ r.owed[x] = 0
                    /\ Split!Paid(r, Split!Member(x)) >= Due(r, x) - 1
                    /\ Split!Paid(r, Split!Member(x)) <= Due(r, x) + n
    <3>1. CASE Promised(r, x)
      BY <2>1, <3>1 DEF Exact, Split!Paid
    <3>2. CASE ~Promised(r, x)
      <4>1. /\ r.owed[x] = 0 /\ Split!Paid(r, Split!Member(x)) = Due(r, x) /\ Due(r, x) \in Nat
        BY <2>1, <3>2 DEF Exact
      <4> QED BY <1>1, <3>2, <4>1
    <3> QED BY <3>1, <3>2
  <2>2. Split!Paid(r, Split!Bucket) + 1 >= Split!Total(r.owed, Members)
    BY <1>2, <1>3 DEF Exact
  <2>3. Split!Total(r.outs, DOMAIN r.outs) = Reward
    BY DEF Exact
  <2> QED BY <2>1, <2>2, <2>3 DEF Sound, n
<1>5. ASSUME NEW t \in Split!createCoinbaseTransaction(r) PROVE Typed(t) /\ Sound(t)
  <2>1. PICK low \in SUBSET {p \in DOMAIN r.outs : r.outs[p] > 0 /\ r.outs[p] # Reward} :
          t = [r EXCEPT !.outs = Split!TopUp(r.outs, low)]
    BY DEF Split!createCoinbaseTransaction
  <2> DEFINE top == Split!TopUp(r.outs, low)
  <2>2. /\ DOMAIN top = DOMAIN r.outs
        /\ \A p \in DOMAIN r.outs :
             top[p] \in Nat /\ top[p] >= r.outs[p] - 1 /\ top[p] <= r.outs[p] + n
        /\ Split!Total(top, DOMAIN r.outs) = Split!Total(r.outs, DOMAIN r.outs)
    BY <2>1, ToppedUp DEF Exact, Typed, n
  <2> HIDE DEF top
  <2>3. t = [outs |-> top, owed |-> r.owed, terms |-> r.terms, weight |-> r.weight]
    <3>1. r = [outs |-> r.outs, owed |-> r.owed, terms |-> r.terms, weight |-> r.weight]
      BY DEF Exact, Typed
    <3> QED BY <2>1, <3>1 DEF top
  <2>4. Typed(t)
    BY <2>2, <2>3 DEF Exact, Typed
  <2>5. /\ t.outs = top /\ t.owed = r.owed /\ t.weight = r.weight /\ t.terms = r.terms
        /\ \A x : Due(t, x) = Due(r, x) /\ (Promised(t, x) <=> Promised(r, x))
    BY <2>3 DEF Due, Promised
  <2>6. \A p : /\ p \notin DOMAIN r.outs => Split!Paid(t, p) = 0 /\ Split!Paid(r, p) = 0
               /\ Split!Paid(t, p) >= Split!Paid(r, p) - 1
               /\ Split!Paid(t, p) <= Split!Paid(r, p) + n
               /\ Split!Paid(t, p) \in Nat
    BY <1>1, <1>3, <2>2, <2>5 DEF Split!Paid
  <2>7. ASSUME NEW x \in Members, Split!Total(r.weight, Members) > 0
        PROVE  IF Promised(r, x) THEN Split!Paid(t, Split!Member(x)) = 0 /\ r.owed[x] = Due(r, x)
               ELSE /\ r.owed[x] = 0
                    /\ Split!Paid(t, Split!Member(x)) >= Due(r, x) - 1
                    /\ Split!Paid(t, Split!Member(x)) <= Due(r, x) + n
    <3>1. CASE Promised(r, x)
      BY <2>6, <2>7, <3>1 DEF Exact
    <3>2. CASE ~Promised(r, x)
      <4>1. r.owed[x] = 0 /\ Split!Paid(r, Split!Member(x)) = Due(r, x)
        BY <2>7, <3>2 DEF Exact
      <4> QED BY <2>6, <3>2, <4>1
    <3> QED BY <3>1, <3>2
  <2>8. Split!Paid(t, Split!Bucket) + 1 >= Split!Total(r.owed, Members)
    <3>1. Split!Paid(r, Split!Bucket) >= Split!Total(r.owed, Members)
      BY DEF Exact
    <3> QED BY <1>2, <1>3, <2>6, <3>1
  <2>9. Split!Total(t.outs, DOMAIN t.outs) = Reward
    BY <2>2, <2>5 DEF Exact
  <2> QED BY <2>2, <2>4, <2>5, <2>7, <2>8, <2>9 DEF Sound, n
<1> QED BY <1>4, <1>5 DEF Exact

(* Terms an operator may set, with the dust threshold of others.           *)
Legal(t) == t \in Split!TermsOf /\ t.fee + PlatformFee <= Unit

(* The computation has legal terms, and the split is sound.                *)
SplitInv ==
  /\ Split!TypeOK
  /\ \A j \in job : Legal(j.terms)
  /\ \A r \in result : Typed(r) /\ Sound(r)

LEMMA SplitStart == Split!Init => SplitInv
<1> SUFFICES ASSUME Split!Init PROVE SplitInv
  OBVIOUS
<1>1. <<>> \in Seq([who : Members, diff : Diffs]) /\ Len(<<>>) = 0
  OBVIOUS
<1> QED BY <1>1, SplitAssumption DEF Split!Init, SplitInv, Split!TypeOK

LEMMA DenIsLegal == SplitInv => Legal(terms)
BY SplitAssumption DEF SplitInv, Split!TypeOK, Legal

LEMMA ShareIsOne == \A S : \A s \in Seq(S) : \A i \in 1..Len(s) : s[i] \in S
OBVIOUS

(* The window weighs each member's shares.                                 *)
LEMMA WindowWeighs == SplitInv => Split!computePplnsWindow \in [Members -> Nat]
<1> SUFFICES ASSUME SplitInv, NEW x \in Members
             PROVE  Split!Total([i \in DOMAIN shares |-> shares[i].diff],
                                {i \in {k \in DOMAIN shares : k > Len(shares) - WindowSize} : shares[i].who = x})
                      \in Nat
  BY DEF Split!computePplnsWindow
<1> DEFINE f == [i \in DOMAIN shares |-> shares[i].diff]
           s == {i \in {k \in DOMAIN shares : k > Len(shares) - WindowSize} : shares[i].who = x}
<1>1. shares \in Seq([who : Members, diff : Diffs]) /\ DOMAIN shares = 1..Len(shares) /\ Len(shares) \in Nat
  BY DEF SplitInv, Split!TypeOK
<1>2. ASSUME NEW i \in DOMAIN shares PROVE f[i] \in Nat
  <2>1. shares[i] \in [who : Members, diff : Diffs]
    BY <1>1, ShareIsOne
  <2> QED BY <2>1, SplitAssumption
<1>3. IsFiniteSet(s)
  <2>1. IsFiniteSet(1..Len(shares))
    BY <1>1, FS_Interval
  <2>2. s \subseteq 1..Len(shares)
    BY <1>1
  <2> QED BY <2>1, <2>2, FS_Subset
<1>4. \A i \in s : f[i] \in Nat
  BY <1>2
<1> HIDE DEF f, s
<1>5. Split!Total(f, s) \in Nat
  BY <1>3, <1>4, TotalNat
<1> QED BY <1>5 DEF f, s

(* The step of each action.                                                *)
LEMMA SplitStepInv == ASSUME SplitInv, [Split!Next]_splitVars PROVE SplitInv'
<1> DEFINE Kept(j) == j \in Split!Jobs /\ Legal(j.terms)
<1>1. /\ shares \in Seq([who : Members, diff : Diffs]) /\ Len(shares) <= MaxShares /\ terms \in Terms
      /\ job \subseteq Split!Jobs /\ \A j, k \in job : j = k
      /\ \A j \in job : Kept(j)
      /\ \A r \in result : Typed(r) /\ Sound(r)
  BY DEF SplitInv, Split!TypeOK
<1>2. ASSUME shares' \in Seq([who : Members, diff : Diffs]), Len(shares') <= MaxShares, terms' \in Terms,
             job' = {} \/ \E j : job' = {j} /\ Kept(j),
             \A r \in result' : Typed(r) /\ Sound(r)
      PROVE  SplitInv'
  BY <1>2, SplitAssumption DEF SplitInv, Split!TypeOK, Typed
<1>3. ASSUME NEW x \in Members, NEW d \in Diffs, Split!recordShare(x, d) PROVE SplitInv'
  <2>1. /\ shares' \in Seq([who : Members, diff : Diffs]) /\ Len(shares') = Len(shares) + 1
        /\ Len(shares) < MaxShares /\ Len(shares) \in Nat
    BY <1>1, <1>3 DEF Split!recordShare
  <2> QED BY <1>1, <1>3, <2>1, SplitAssumption DEF Split!recordShare, SplitInv, Split!TypeOK
<1>4. ASSUME NEW t \in Terms, Split!SetTerms(t) PROVE SplitInv'
  BY <1>1, <1>4 DEF Split!SetTerms, SplitInv, Split!TypeOK
<1>5. ASSUME NEW kind \in {"job", "preview"}, NEW x \in Members, Split!Begin(kind, x) PROVE SplitInv'
  <2>1. Legal(terms) /\ terms \in Split!TermsOf
    BY DenIsLegal DEF Legal
  <2> DEFINE j == [kind |-> kind, miner |-> x, step |-> "den", terms |-> terms]
  <2>2. Kept(j)
    BY <2>1 DEF Split!Jobs
  <2>3. job' = {j} /\ result' = {} /\ shares' = shares /\ terms' = terms
    BY <1>5 DEF Split!Begin
  <2> HIDE DEF j, Kept
  <2> QED BY <1>1, <1>2, <2>2, <2>3
<1>6. ASSUME NEW j \in job, Split!ReadTerms(j) PROVE SplitInv'
  <2>1. Legal(terms) /\ Kept(j)
    BY <1>1, DenIsLegal
  <2> DEFINE later == [j EXCEPT !.step = "window"]
             fresh == [terms EXCEPT !.dust = j.terms.dust]
             again == [j EXCEPT !.step = "window", !.terms = fresh]
  <2>2. Kept(later)
    BY <2>1 DEF Split!Jobs
  <2>3. Legal(fresh)
    BY <2>1 DEF Split!Jobs, Legal, Split!TermsOf
  <2> HIDE DEF fresh
  <2>4. Kept(again)
    <3>1. again = [kind |-> j.kind, miner |-> j.miner, step |-> "window", terms |-> fresh]
      <4>1. again = [later EXCEPT !.terms = fresh]
        BY <2>1 DEF Split!Jobs
      <4>2. later = [kind |-> j.kind, miner |-> j.miner, step |-> "window", terms |-> j.terms]
        BY <2>1 DEF Split!Jobs
      <4> HIDE DEF later, again
      <4> QED BY <4>1, <4>2
    <3> HIDE DEF again
    <3>2. again \in Split!Jobs
      BY <2>1, <2>3, <3>1 DEF Split!Jobs, Legal
    <3> QED BY <2>3, <3>1, <3>2
  <2>5. job' = {later} \/ job' = {} \/ job' = {again}
    BY <1>6 DEF Split!ReadTerms, fresh
  <2>6. result' = result /\ shares' = shares /\ terms' = terms
    BY <1>6 DEF Split!ReadTerms
  <2> HIDE DEF later, again, Kept
  <2> QED BY <1>1, <1>2, <2>2, <2>4, <2>5, <2>6
<1>7. ASSUME NEW j \in job, Split!Build(j) PROVE SplitInv'
  <2> DEFINE r == IF j.terms.rule = "PPLNS" THEN Split!buildPplnsCoinbase(j.terms, Split!computePplnsWindow)
                  ELSE Split!buildSoloShowcaseCoinbase(j.terms, j.miner)
  <2>1. Exact(r)
    <3>1. Legal(j.terms) /\ j.miner \in Members
      BY <1>1 DEF Split!Jobs
    <3> QED BY <3>1, PplnsExact, SoloExact, WindowWeighs DEF Legal
  <2>2. /\ \E t \in Split!createCoinbaseTransaction(r) : result' = {t}
        /\ job' = {} /\ shares' = shares /\ terms' = terms
    BY <1>7 DEF Split!Build
  <2> HIDE DEF r, Kept
  <2>3. \A t \in result' : Typed(t) /\ Sound(t)
    BY <2>1, <2>2, ExactIsSound
  <2> QED BY <1>1, <1>2, <2>2, <2>3
<1>8. ASSUME NEW j \in job, Split!Preview(j) PROVE SplitInv'
  <2>1. Legal(j.terms)
    BY <1>1
  <2>2. ASSUME NEW r \in result' PROVE Exact(r)
    <3>1. CASE j.terms.rule = "PPLNS"
      <4>1. r = Split!buildPplnsCoinbase(j.terms, Split!computePplnsWindow)
        BY <1>8, <2>2, <3>1 DEF Split!Preview
      <4> QED BY <2>1, <3>1, <4>1, PplnsExact, WindowWeighs DEF Legal
    <3>2. CASE j.terms.rule # "PPLNS"
      <4>1. shares # <<>> /\ r = Split!buildSoloShowcaseCoinbase(j.terms, shares[Len(shares)].who)
        BY <1>8, <2>2, <3>2 DEF Split!Preview
      <4>2. shares[Len(shares)].who \in Members
        <5>1. Len(shares) \in 1..Len(shares)
          BY <1>1, <4>1
        <5>2. shares[Len(shares)] \in [who : Members, diff : Diffs]
          BY <1>1, <5>1, ShareIsOne
        <5> QED BY <5>2
      <4> QED BY <2>1, <3>2, <4>1, <4>2, SoloExact DEF Legal
    <3> QED BY <3>1, <3>2
  <2>3. job' = {} /\ shares' = shares /\ terms' = terms
    BY <1>8 DEF Split!Preview
  <2>4. \A r \in result' : Typed(r) /\ Sound(r)
    BY <2>2, ExactIsSound
  <2> HIDE DEF Kept
  <2> QED BY <1>1, <1>2, <2>3, <2>4
<1>9. CASE UNCHANGED splitVars
  BY <1>9 DEF splitVars, SplitInv, Split!TypeOK
<1> QED BY <1>3, <1>4, <1>5, <1>6, <1>7, <1>8, <1>9 DEF Split!Next

(* The coinbase pays the reward, and each member by weight.                *)
LEMMA SplitIsSound == SplitInv => SplitIsExact
<1> SUFFICES ASSUME SplitInv, NEW r \in result
             PROVE  /\ Split!Total(r.outs, DOMAIN r.outs) = Reward
                    /\ Split!Total(r.weight, Members) > 0 => \A x \in Members :
                         IF r.terms.rule = "PPLNS" /\ Due(r, x) < r.terms.dust
                         THEN Split!Paid(r, Split!Member(x)) = 0 /\ r.owed[x] = Due(r, x)
                         ELSE /\ r.owed[x] = 0
                              /\ Split!Paid(r, Split!Member(x)) >= Due(r, x) - 1
                              /\ Split!Paid(r, Split!Member(x)) <= Due(r, x) + Cardinality(DOMAIN r.outs)
                    /\ Split!Paid(r, Split!Bucket) + 1 >= Split!Total(r.owed, Members)
  BY SplitCounts DEF SplitIsExact, Split!PaysTheReward, Split!PaysByWeight, Due
<1>1. Sound(r)
  BY DEF SplitInv
<1> QED BY <1>1 DEF Sound, Promised
=============================================================================
