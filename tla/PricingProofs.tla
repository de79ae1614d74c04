---------------------------- MODULE PricingProofs ----------------------------
(***************************************************************************)
(* Lemmas about the pure parts: maxima and sums of finite sets, cents,     *)
(* fees, sizing, the strategy, the risk check and positions.  They hold    *)
(* for every price, size and cap.                                          *)
(***************************************************************************)
EXTENDS Positions, FiniteSetTheorems, TLAPS

-----------------------------------------------------------------------------
(* Sets of numbers *)

\* A bounded set of integers that is not empty has a maximum.
LEMMA MaxOfInterval ==
  ASSUME NEW lo \in Int, NEW hi \in Int, NEW S \in SUBSET (lo..hi), S # {}
  PROVE  Max(S) \in S /\ \A x \in S : x <= Max(S)
  <1> DEFINE T == {hi - x : x \in S}
  <1>1. T \subseteq Nat /\ T # {}
    <2>1. \A x \in S : hi - x \in Nat
      OBVIOUS
    <2> QED
      BY <2>1
  <1>2. PICK d \in T : \A e \in T : ~(<<e, d>> \in OpToRel(<, Nat))
    BY <1>1, NatLessThanWellFounded, WFMin
  <1>3. \A e \in T : ~(e < d)
    BY <1>1, <1>2 DEF OpToRel
  <1>4. PICK x \in S : d = hi - x
    BY <1>2
  <1>5. \A y \in S : x >= y
    <2> TAKE y \in S
    <2>1. hi - y \in T
      OBVIOUS
    <2> QED
      BY <2>1, <1>3, <1>4
  <1>6. Max(S) \in S /\ \A y \in S : Max(S) >= y
    BY <1>5 DEF Max
  <1> QED
    BY <1>6

-----------------------------------------------------------------------------
(* Sums over finite sets.  The sum of a function picks the elements of the set
   in some order; it does not depend on which. *)

\* The element a sum takes first.
FirstPick(s) == CHOOSE x \in s : TRUE

\* h has the sum of f over each subset of S.
SumsUp(h, f, S) ==
  h = [s \in SUBSET S |-> IF s = {} THEN 0 ELSE f[FirstPick(s)] + h[s \ {FirstPick(s)}]]

\* A set of finite sets that is not empty has a member with no smaller one in
\* the set: induction over finite sets.
LEMMA SmallestMember ==
  ASSUME NEW S, IsFiniteSet(S), NEW B \in SUBSET SUBSET S, B # {}
  PROVE  \E s \in B : \A r \in B : Cardinality(r) >= Cardinality(s)
  <1> DEFINE T == {Cardinality(s) : s \in B}
  <1>1. \A s \in B : Cardinality(s) \in Nat
    BY FS_Subset, FS_CardinalityType
  <1>2. T \subseteq Nat /\ T # {}
    BY <1>1
  <1> HIDE DEF T
  <1>3. PICK n \in T : \A k \in T : ~(<<k, n>> \in OpToRel(<, Nat))
    BY <1>2, NatLessThanWellFounded, WFMin
  <1> USE DEF T
  <1>4. \A k \in T : ~(k < n)
    BY <1>2, <1>3 DEF OpToRel
  <1>5. PICK s \in B : n = Cardinality(s)
    BY <1>3
  <1>6. \A r \in B : ~(Cardinality(r) < Cardinality(s))
    BY <1>4, <1>5
  <1> QED
    BY <1>1, <1>6

LEMMA Smaller ==
  ASSUME NEW S, IsFiniteSet(S), NEW s \in SUBSET S, NEW x \in s
  PROVE  /\ s \ {x} \in SUBSET S /\ IsFiniteSet(s)
         /\ Cardinality(s) \in Nat \ {0} /\ Cardinality(s \ {x}) = Cardinality(s) - 1
  <1>1. IsFiniteSet(s)
    BY FS_Subset
  <1>2. Cardinality(s) \in Nat /\ Cardinality(s) # 0
    BY <1>1, FS_CardinalityType, FS_EmptySet
  <1>3. Cardinality(s \ {x}) = Cardinality(s) - 1
    BY <1>1, FS_RemoveElement
  <1> QED
    BY <1>1, <1>2, <1>3

LEMMA PickIsMember ==
  ASSUME NEW s, s # {}
  PROVE  FirstPick(s) \in s
  BY DEF FirstPick

LEMMA SumsAt ==
  ASSUME NEW S, NEW f, NEW h, SumsUp(h, f, S), NEW s \in SUBSET S
  PROVE  /\ s = {} => h[s] = 0
         /\ s # {} => h[s] = f[FirstPick(s)] + h[s \ {FirstPick(s)}]
  BY DEF SumsUp

\* h sums the subsets of at most n elements.
SumsSmall(h, f, S, n) ==
  \A s \in SUBSET S : Cardinality(s) <= n =>
    h[s] = IF s = {} THEN 0 ELSE f[FirstPick(s)] + h[s \ {FirstPick(s)}]

LEMMA SumsExist ==
  ASSUME NEW S, IsFiniteSet(S), NEW f
  PROVE  \E h : SumsUp(h, f, S)
  <1> DEFINE Missing == {n \in Nat : ~\E h : SumsSmall(h, f, S, n)}
             next(h) == [s \in SUBSET S |-> IF s = {} THEN 0 ELSE f[FirstPick(s)] + h[s \ {FirstPick(s)}]]
  <1>1. 0 \notin Missing
    <2>1. SumsSmall([s \in SUBSET S |-> 0], f, S, 0)
      <3> SUFFICES ASSUME NEW s \in SUBSET S, Cardinality(s) <= 0 PROVE s = {}
        BY DEF SumsSmall
      <3>1. IsFiniteSet(s)
        BY FS_Subset
      <3> QED
        BY <3>1, FS_CardinalityType, FS_EmptySet
    <2> QED
      BY <2>1
  <1>2. ASSUME NEW n \in Nat, NEW h, SumsSmall(h, f, S, n)
        PROVE  SumsSmall(next(h), f, S, n + 1)
    <2> SUFFICES ASSUME NEW s \in SUBSET S, Cardinality(s) <= n + 1, s # {}
                 PROVE  next(h)[s] = f[FirstPick(s)] + next(h)[s \ {FirstPick(s)}]
      BY DEF SumsSmall
    <2>1. FirstPick(s) \in s
      BY PickIsMember
    <2> DEFINE r == s \ {FirstPick(s)}
    <2>2. r \in SUBSET S /\ Cardinality(r) <= n
      BY <2>1, Smaller
    <2>3. next(h)[r] = h[r]
      BY <1>2, <2>2 DEF SumsSmall
    <2>4. next(h)[s] = f[FirstPick(s)] + h[r]
      OBVIOUS
    <2> QED
      BY <2>3, <2>4
  <1> HIDE DEF next
  <1>3. Missing = {}
    <2> SUFFICES ASSUME Missing # {} PROVE FALSE
      OBVIOUS
    <2>1. PICK n \in Missing : \A k \in Missing : ~(<<k, n>> \in OpToRel(<, Nat))
      BY NatLessThanWellFounded, WFMin
    <2>2. n \in Nat \ {0} /\ n - 1 \in Nat
      BY <1>1
    <2>3. n - 1 \notin Missing
      <3> SUFFICES ASSUME n - 1 \in Missing PROVE FALSE
        OBVIOUS
      <3>1. <<n - 1, n>> \in OpToRel(<, Nat)
        BY <2>2 DEF OpToRel
      <3> HIDE DEF Missing
      <3> QED
        BY <2>1, <3>1
    <2>4. PICK h : SumsSmall(h, f, S, n - 1)
      BY <2>2, <2>3
    <2>5. SumsSmall(next(h), f, S, n)
      BY <1>2, <2>2, <2>4
    <2> QED
      BY <2>5
  <1>4. Cardinality(S) \in Nat
    BY FS_CardinalityType
  <1>5. PICK h : SumsSmall(h, f, S, Cardinality(S))
    BY <1>3, <1>4
  <1>6. ASSUME NEW s \in SUBSET S
        PROVE  h[s] = IF s = {} THEN 0 ELSE f[FirstPick(s)] + h[s \ {FirstPick(s)}]
    BY <1>5, FS_Subset DEF SumsSmall
  <1>7. SumsUp([s \in SUBSET S |-> h[s]], f, S)
    <2>1. ASSUME NEW s \in SUBSET S, s # {}
          PROVE  s \ {FirstPick(s)} \in SUBSET S
      OBVIOUS
    <2> QED
      BY <1>6, <2>1 DEF SumsUp
  <1> QED
    BY <1>7

LEMMA SumsAreInt ==
  ASSUME NEW S, IsFiniteSet(S), NEW f, \A x \in S : f[x] \in Int, NEW h, SumsUp(h, f, S)
  PROVE  \A s \in SUBSET S : h[s] \in Int
  <1> DEFINE B == {s \in SUBSET S : h[s] \notin Int}
  <1> SUFFICES ASSUME B # {} PROVE FALSE
    OBVIOUS
  <1>1. PICK s \in B : \A r \in B : Cardinality(r) >= Cardinality(s)
    BY SmallestMember
  <1>2. /\ s = {} => h[s] = 0
        /\ s # {} => h[s] = f[FirstPick(s)] + h[s \ {FirstPick(s)}]
    <2>1. s \in SUBSET S
      OBVIOUS
    <2> HIDE DEF B
    <2> QED
      BY <2>1, SumsAt
  <1>3. s # {} /\ FirstPick(s) \in s
    BY <1>1, <1>2, PickIsMember
  <1> DEFINE r == s \ {FirstPick(s)}
  <1>4. r \in SUBSET S /\ ~(Cardinality(r) >= Cardinality(s))
    BY <1>3, Smaller
  <1>5. h[r] \in Int
    BY <1>1, <1>4
  <1>6. f[FirstPick(s)] \in Int /\ h[s] = f[FirstPick(s)] + h[r]
    BY <1>2, <1>3
  <1> HIDE DEF r
  <1> QED
    BY <1>1, <1>5, <1>6

\* A sum does not depend on the element that is taken first.
LEMMA SumsAnyOrder ==
  ASSUME NEW S, IsFiniteSet(S), NEW f, \A x \in S : f[x] \in Int, NEW h, SumsUp(h, f, S)
  PROVE  \A s \in SUBSET S : \A a \in s : h[s] = f[a] + h[s \ {a}]
  <1> DEFINE B == {s \in SUBSET S : ~\A a \in s : h[s] = f[a] + h[s \ {a}]}
  <1> SUFFICES ASSUME B # {} PROVE FALSE
    OBVIOUS
  <1>1. PICK s \in B : \A r \in B : Cardinality(r) >= Cardinality(s)
    BY SmallestMember
  <1>2. PICK a \in s : h[s] # f[a] + h[s \ {a}]
    BY <1>1
  <1> DEFINE x == FirstPick(s)
             r == s \ {x}
             q == s \ {a}
             p == (s \ {x}) \ {a}
  <1>3. x \in s /\ h[s] = f[x] + h[r] /\ x # a
    <2>1. s # {}
      OBVIOUS
    <2> QED
      BY <1>2, <2>1, PickIsMember, SumsAt
  <1> HIDE DEF x
  <1>4. /\ r \in SUBSET S /\ ~(Cardinality(r) >= Cardinality(s))
        /\ q \in SUBSET S /\ ~(Cardinality(q) >= Cardinality(s))
    BY <1>3, Smaller
  <1>5. a \in r /\ x \in q /\ r \ {a} = p /\ q \ {x} = p /\ p \in SUBSET S
    BY <1>3
  <1>6. h[r] = f[a] + h[p]
    BY <1>1, <1>4, <1>5
  <1>7. h[q] = f[x] + h[p]
    BY <1>1, <1>4, <1>5
  <1>8. f[a] \in Int /\ f[x] \in Int /\ h[p] \in Int
    BY <1>3, <1>5, SumsAreInt
  <1> QED
    BY <1>2, <1>3, <1>6, <1>7, <1>8

\* The sum over a set depends only on the values there.
LEMMA SumsAgree ==
  ASSUME NEW S, IsFiniteSet(S), NEW f, NEW h, SumsUp(h, f, S),
         NEW T \in SUBSET S, NEW g, NEW k, SumsUp(k, g, T), \A x \in T : f[x] = g[x]
  PROVE  \A s \in SUBSET T : h[s] = k[s]
  <1> DEFINE B == {s \in SUBSET T : h[s] # k[s]}
  <1> SUFFICES ASSUME B # {} PROVE FALSE
    OBVIOUS
  <1>0. IsFiniteSet(T)
    BY FS_Subset
  <1>1. PICK s \in B : \A r \in B : Cardinality(r) >= Cardinality(s)
    BY <1>0, SmallestMember
  <1>2. s # {}
    BY <1>1, SumsAt
  <1>3. FirstPick(s) \in s
    BY <1>2, PickIsMember
  <1> DEFINE r == s \ {FirstPick(s)}
  <1>4. r \in SUBSET T /\ ~(Cardinality(r) >= Cardinality(s))
    BY <1>0, <1>3, Smaller
  <1>5. h[r] = k[r]
    BY <1>1, <1>4
  <1> QED
    BY <1>1, <1>2, <1>3, <1>5, SumsAt

\* The library's sum is one of these.
LEMMA SumIs ==
  ASSUME NEW S, IsFiniteSet(S), NEW f
  PROVE  \E h : SumsUp(h, f, S) /\ SumFunctionOnSet(f, S) = h[S]
  <1>1. SumFunctionOnSet(f, S) = (CHOOSE h : SumsUp(h, f, S))[S]
    BY DEF SumFunctionOnSet, FoldFunctionOnSet, MapThenFoldSet, SumsUp, FirstPick
  <1> QED
    BY <1>1, SumsExist

LEMMA SumOverNone ==
  ASSUME NEW f
  PROVE  SumFunctionOnSet(f, {}) = 0
  <1>1. PICK h : SumsUp(h, f, {}) /\ SumFunctionOnSet(f, {}) = h[{}]
    BY SumIs, FS_EmptySet
  <1>2. {} \in SUBSET {}
    OBVIOUS
  <1>3. {} = {} => h[{}] = 0
    BY <1>1, <1>2, SumsAt
  <1> QED
    BY <1>1, <1>3

LEMMA SumType ==
  ASSUME NEW S, IsFiniteSet(S), NEW f, \A x \in S : f[x] \in Int
  PROVE  SumFunctionOnSet(f, S) \in Int
  BY SumIs, SumsAreInt

LEMMA SumAgrees ==
  ASSUME NEW S, IsFiniteSet(S), NEW f, NEW g, \A x \in S : f[x] = g[x]
  PROVE  SumFunctionOnSet(f, S) = SumFunctionOnSet(g, S)
  <1>1. PICK h : SumsUp(h, f, S) /\ SumFunctionOnSet(f, S) = h[S]
    BY SumIs
  <1>2. PICK k : SumsUp(k, g, S) /\ SumFunctionOnSet(g, S) = k[S]
    BY SumIs
  <1> QED
    BY <1>1, <1>2, SumsAgree

\* One more element adds its value.
LEMMA SumOneMore ==
  ASSUME NEW S, IsFiniteSet(S), NEW a, a \notin S, NEW f, \A x \in S \cup {a} : f[x] \in Int
  PROVE  SumFunctionOnSet(f, S \cup {a}) = f[a] + SumFunctionOnSet(f, S)
  <1> DEFINE T == S \cup {a}
  <1>0. IsFiniteSet(T)
    BY FS_AddElement
  <1>1. PICK h : SumsUp(h, f, T) /\ SumFunctionOnSet(f, T) = h[T]
    BY <1>0, SumIs
  <1>2. PICK k : SumsUp(k, f, S) /\ SumFunctionOnSet(f, S) = k[S]
    BY SumIs
  <1>3. h[S] = k[S]
    <2>1. S \in SUBSET T /\ S \in SUBSET S
      OBVIOUS
    <2> HIDE DEF T
    <2> QED
      BY <1>0, <1>1, <1>2, <2>1, SumsAgree
  <1>4. h[T] = f[a] + h[T \ {a}]
    <2>1. T \in SUBSET T /\ a \in T /\ \A x \in T : f[x] \in Int
      OBVIOUS
    <2> HIDE DEF T
    <2> QED
      BY <1>0, <1>1, <2>1, SumsAnyOrder
  <1>5. T \ {a} = S
    OBVIOUS
  <1> QED
    BY <1>1, <1>2, <1>3, <1>4, <1>5

LEMMA SumOverOne ==
  ASSUME NEW f, NEW a, f[a] \in Int
  PROVE  SumFunctionOnSet(f, {a}) = f[a]
  <1>1. {a} = {} \cup {a} /\ a \notin {}
    OBVIOUS
  <1>2. SumFunctionOnSet(f, {} \cup {a}) = f[a] + SumFunctionOnSet(f, {})
    BY FS_EmptySet, SumOneMore
  <1> QED
    BY <1>1, <1>2, SumOverNone

-----------------------------------------------------------------------------
(* Fees and costs *)

LEMMA ClampType ==
  ASSUME NEW p \in Int
  PROVE  clampPriceCents(p) \in 1..99
  BY DEF clampPriceCents

LEMMA ProductNat ==
  ASSUME NEW a \in Nat, NEW b \in Nat
  PROVE  a * b \in Nat
  OBVIOUS

LEMMA TakerFeeType ==
  ASSUME NEW venue, NEW p \in Int, NEW n \in Int
  PROVE  takerFee(venue, p, n) \in Nat
  <1> DEFINE q == clampPriceCents(p)
  <1>1. q \in 1..99
    BY ClampType
  <1> HIDE DEF q
  <1>2. CASE n < 1
    BY <1>2 DEF takerFee
  <1>3. CASE n >= 1
    <2>1. ASSUME NEW k \in Nat
          PROVE  k * n * q * (100 - q) \in Nat
      <3>1. k * n \in Nat
        BY <1>3, ProductNat
      <3>2. k * n * q \in Nat
        BY <1>1, <3>1, ProductNat
      <3> QED
        BY <1>1, <3>2, ProductNat
    <2>2. (7 * n * q * (100 - q) + 9999) \div 10000 \in Nat
      BY <2>1
    <2>3. (6 * n * q * (100 - q) + 5000) \div 10000 \in Nat
      BY <2>1
    <2>4. (5 * n * (IF q < 100 - q THEN q ELSE 100 - q) + 50) \div 100 \in Nat
      <3>1. (IF q < 100 - q THEN q ELSE 100 - q) \in Nat
        BY <1>1
      <3>2. 5 * n \in Nat
        BY <1>3
      <3> QED
        BY <3>1, <3>2, ProductNat
    <2> QED
      BY <1>3, <2>2, <2>3, <2>4 DEF takerFee, q
  <1> QED
    BY <1>2, <1>3

LEMMA LegCostType ==
  ASSUME NEW leg, leg.price \in Int, NEW n \in Int
  PROVE  legCost(leg, n) \in Int
  BY TakerFeeType DEF legCost

LEMMA PairCostType ==
  ASSUME NEW yes, NEW no, yes.price \in Int, no.price \in Int, NEW n \in Int
  PROVE  pairCost(yes, no, n) \in Int
  BY LegCostType DEF pairCost

LEMMA ProductGrows ==
  ASSUME NEW a \in Nat, NEW b \in Nat, NEW x \in Nat, a <= b
  PROVE  a * x <= b * x
  <1>1. (b - a) * x \in Nat
    BY ProductNat
  <1>2. b * x = a * x + (b - a) * x
    OBVIOUS
  <1> QED
    BY <1>1, <1>2

\* What the schedules multiply by the number of contracts.
Spread(p) == clampPriceCents(p) * (100 - clampPriceCents(p))
Nearer(p) == IF clampPriceCents(p) < 100 - clampPriceCents(p)
             THEN clampPriceCents(p) ELSE 100 - clampPriceCents(p)

LEMMA SpreadType ==
  ASSUME NEW p \in Int
  PROVE  Spread(p) \in Nat /\ Nearer(p) \in Nat
  <1> DEFINE q == clampPriceCents(p)
  <1>1. q \in 1..99
    BY ClampType
  <1>2. Spread(p) = q * (100 - q) /\ Nearer(p) \in {q, 100 - q}
    BY DEF Spread, Nearer
  <1> HIDE DEF q
  <1>3. q \in Nat /\ 100 - q \in Nat
    BY <1>1
  <1>4. q * (100 - q) \in Nat
    BY <1>3, ProductNat
  <1>5. Nearer(p) \in Nat
    BY <1>2, <1>3
  <1> QED
    BY <1>2, <1>4, <1>5

LEMMA FeeFormula ==
  ASSUME NEW venue, NEW p \in Int, NEW n \in Nat, n >= 1
  PROVE  takerFee(venue, p, n)
           = CASE venue = Kalshi     -> (7 * (n * Spread(p)) + 9999) \div 10000
               [] venue = Polymarket -> (6 * (n * Spread(p)) + 5000) \div 10000
               [] venue = Gemini     -> (5 * (n * Nearer(p)) + 50) \div 100
               [] OTHER -> 0
  <1> DEFINE q == clampPriceCents(p)
  <1>1. q \in 1..99
    BY ClampType
  <1>2. Spread(p) = q * (100 - q)
    BY DEF Spread
  <1>3. takerFee(venue, p, n)
          = CASE venue = Kalshi     -> (7 * n * q * (100 - q) + 9999) \div 10000
              [] venue = Polymarket -> (6 * n * q * (100 - q) + 5000) \div 10000
              [] venue = Gemini     -> (5 * n * Nearer(p) + 50) \div 100
              [] OTHER -> 0
    BY DEF takerFee, Nearer, Kalshi, Polymarket, Gemini
  <1> HIDE DEF q
  <1>4. Nearer(p) \in Nat
    BY SpreadType
  <1>5. /\ 7 * n * q * (100 - q) = 7 * (n * Spread(p))
        /\ 6 * n * q * (100 - q) = 6 * (n * Spread(p))
    BY <1>1, <1>2
  <1>6. 5 * n * Nearer(p) = 5 * (n * Nearer(p))
    BY <1>4
  <1> QED
    BY <1>3, <1>5, <1>6

\* More contracts never pay a smaller fee.
LEMMA FeeGrows ==
  ASSUME NEW venue, NEW p \in Int, NEW n \in Nat, NEW m \in Nat, n <= m
  PROVE  takerFee(venue, p, n) <= takerFee(venue, p, m)
  <1>1. CASE n < 1
    <2>1. takerFee(venue, p, n) = 0
      BY <1>1 DEF takerFee
    <2>2. takerFee(venue, p, m) \in Nat
      BY TakerFeeType
    <2> QED
      BY <2>1, <2>2
  <1>2. CASE n >= 1
    <2>1. Spread(p) \in Nat /\ Nearer(p) \in Nat
      BY SpreadType
    <2>2. n * Spread(p) <= m * Spread(p) /\ n * Nearer(p) <= m * Nearer(p)
      BY <2>1, ProductGrows
    <2>3. /\ n * Spread(p) \in Nat /\ m * Spread(p) \in Nat
          /\ n * Nearer(p) \in Nat /\ m * Nearer(p) \in Nat
      BY <2>1, ProductNat
    <2>4. ASSUME NEW u \in Nat, NEW v \in Nat, u <= v
          PROVE  /\ (7 * u + 9999) \div 10000 <= (7 * v + 9999) \div 10000
                 /\ (6 * u + 5000) \div 10000 <= (6 * v + 5000) \div 10000
                 /\ (5 * u + 50) \div 100 <= (5 * v + 50) \div 100
      BY <2>4
    <2>5. /\ (7 * (n * Spread(p)) + 9999) \div 10000 <= (7 * (m * Spread(p)) + 9999) \div 10000
          /\ (6 * (n * Spread(p)) + 5000) \div 10000 <= (6 * (m * Spread(p)) + 5000) \div 10000
          /\ (5 * (n * Nearer(p)) + 50) \div 100 <= (5 * (m * Nearer(p)) + 50) \div 100
      BY <2>2, <2>3, <2>4
    <2>6. m >= 1
      BY <1>2
    <2> QED
      BY <1>2, <2>5, <2>6, FeeFormula
  <1> QED
    BY <1>1, <1>2

\* Rounding once for n contracts instead of n times saves or costs at most
\* half a cent a contract.
LEMMA FeePerContract ==
  ASSUME NEW venue, NEW p \in Int, NEW n \in Nat, n >= 1
  PROVE  2 * takerFee(venue, p, n) <= 2 * (n * takerFee(venue, p, 1)) + n
  <1> DEFINE x == Spread(p)
             y == Nearer(p)
             r == takerFee(venue, p, 1)
             fee == takerFee(venue, p, n)
  <1> SUFFICES 2 * fee <= 2 * (n * r) + n
    OBVIOUS
  <1>1. x \in Nat /\ y \in Nat /\ r \in Nat /\ fee \in Nat
    BY SpreadType, TakerFeeType
  <1>2. /\ venue = Kalshi => fee = (7 * (n * x) + 9999) \div 10000
        /\ venue = Polymarket => fee = (6 * (n * x) + 5000) \div 10000
        /\ venue = Gemini => fee = (5 * (n * y) + 50) \div 100
        /\ venue \notin Venues => fee = 0
    BY FeeFormula DEF Venues, Kalshi, Polymarket, Gemini
  <1>3. /\ venue = Kalshi => r = (7 * x + 9999) \div 10000
        /\ venue = Polymarket => r = (6 * x + 5000) \div 10000
        /\ venue = Gemini => r = (5 * y + 50) \div 100
    <2>1. 1 * x = x /\ 1 * y = y
      BY <1>1
    <2>2. /\ venue = Kalshi => r = (7 * (1 * x) + 9999) \div 10000
          /\ venue = Polymarket => r = (6 * (1 * x) + 5000) \div 10000
          /\ venue = Gemini => r = (5 * (1 * y) + 50) \div 100
      <3>1. 1 \in Nat /\ 1 >= 1
        OBVIOUS
      <3> HIDE DEF x, y
      <3> QED
        BY <3>1, FeeFormula DEF Venues, Kalshi, Polymarket, Gemini, x, y
    <2> HIDE DEF x, y, r
    <2> QED
      BY <2>1, <2>2
  <1> HIDE DEF x, y, r, fee
  <1>4. n * x \in Nat /\ n * y \in Nat /\ n * r \in Nat
    BY <1>1, ProductNat
  <1>5. CASE venue = Kalshi
    <2>1. 7 * x <= 10000 * r
      BY <1>1, <1>3, <1>5
    <2>2. 7 * (n * x) <= 10000 * (n * r)
      <3>1. n * (7 * x) <= n * (10000 * r)
        BY <1>1, <2>1, ProductGrows
      <3> QED
        BY <1>1, <3>1
    <2> QED
      BY <1>1, <1>2, <1>4, <1>5, <2>2
  <1>6. CASE venue = Polymarket
    <2>1. 6 * x <= 10000 * r + 4999
      BY <1>1, <1>3, <1>6
    <2>2. 6 * (n * x) <= 10000 * (n * r) + 4999 * n
      <3>1. n * (6 * x) <= n * (10000 * r + 4999)
        BY <1>1, <2>1, ProductGrows
      <3> QED
        BY <1>1, <3>1
    <2> QED
      BY <1>1, <1>2, <1>4, <1>6, <2>2
  <1>7. CASE venue = Gemini
    <2>1. 5 * y <= 100 * r + 49
      BY <1>1, <1>3, <1>7
    <2>2. 5 * (n * y) <= 100 * (n * r) + 49 * n
      <3>1. n * (5 * y) <= n * (100 * r + 49)
        BY <1>1, <2>1, ProductGrows
      <3> QED
        BY <1>1, <3>1
    <2> QED
      BY <1>1, <1>2, <1>4, <1>7, <2>2
  <1>8. CASE venue \notin Venues
    BY <1>1, <1>2, <1>4, <1>8
  <1> QED
    BY <1>5, <1>6, <1>7, <1>8 DEF Venues

\* More contracts never cost less.
LEMMA LegCostGrows ==
  ASSUME NEW leg, leg.price \in Nat, NEW n \in Nat, NEW m \in Nat, n <= m
  PROVE  legCost(leg, n) <= legCost(leg, m)
  <1>1. n * leg.price <= m * leg.price /\ n * leg.price \in Nat /\ m * leg.price \in Nat
    BY ProductGrows, ProductNat
  <1>2. /\ takerFee(leg.venue, leg.price, n) <= takerFee(leg.venue, leg.price, m)
        /\ takerFee(leg.venue, leg.price, n) \in Nat /\ takerFee(leg.venue, leg.price, m) \in Nat
    BY FeeGrows, TakerFeeType
  <1> QED
    BY <1>1, <1>2 DEF legCost

LEMMA PairCostGrows ==
  ASSUME NEW yes, NEW no, yes.price \in Nat, no.price \in Nat,
         NEW n \in Nat, NEW m \in Nat, n <= m
  PROVE  pairCost(yes, no, n) <= pairCost(yes, no, m)
  <1>1. legCost(yes, n) <= legCost(yes, m) /\ legCost(no, n) <= legCost(no, m)
    BY LegCostGrows
  <1>2. /\ legCost(yes, n) \in Int /\ legCost(yes, m) \in Int
        /\ legCost(no, n) \in Int /\ legCost(no, m) \in Int
    BY LegCostType
  <1> QED
    BY <1>1, <1>2 DEF pairCost

LEMMA PairCostPositive ==
  ASSUME NEW yes, NEW no, yes.price \in Nat, no.price \in Nat, yes.price + no.price >= 1,
         NEW n \in Nat, n >= 1
  PROVE  pairCost(yes, no, n) >= 1
  <1>1. pairCost(yes, no, 1) <= pairCost(yes, no, n)
    BY PairCostGrows
  <1>2. legCost(yes, 1) >= yes.price /\ legCost(no, 1) >= no.price
    BY TakerFeeType DEF legCost
  <1>3. pairCost(yes, no, n) \in Int /\ legCost(yes, 1) \in Int /\ legCost(no, 1) \in Int
    BY PairCostType, LegCostType
  <1> QED
    BY <1>1, <1>2, <1>3 DEF pairCost

-----------------------------------------------------------------------------
(* The price of the chase *)

\* What the fee schedules multiply: it moves by at most 99 per cent of price.
LEMMA FeeSlope ==
  ASSUME NEW a \in 1..99, NEW b \in 1..99, a <= b
  PROVE  a * (100 - a) <= b * (100 - b) + 100 * (b - a)
  <1>1. b * (100 - b) + 100 * (b - a) - a * (100 - a) = (b - a) * (200 - (a + b))
    OBVIOUS
  <1>2. (b - a) * (200 - (a + b)) >= 0
    <2>1. b - a \in Nat /\ 200 - (a + b) \in Nat
      OBVIOUS
    <2> QED
      BY <2>1, ProductNat
  <1> QED
    BY <1>1, <1>2

\* The fee of one contract falls more slowly than its price rises: a dearer
\* contract costs more, its fee included.
LEMMA DearerCostsMore ==
  ASSUME NEW venue, NEW p \in Int, NEW q \in Int, p <= q
  PROVE  p + takerFee(venue, p, 1) <= q + takerFee(venue, q, 1)
  <1> DEFINE a == clampPriceCents(p)
             b == clampPriceCents(q)
             x == a * (100 - a)
             y == b * (100 - b)
  <1>1. a \in 1..99 /\ b \in 1..99 /\ a <= b /\ b - a <= q - p
    BY DEF clampPriceCents
  <1>f. /\ takerFee(venue, p, 1)
             = CASE venue = Kalshi     -> (7 * x + 9999) \div 10000
                 [] venue = Polymarket -> (6 * x + 5000) \div 10000
                 [] venue = Gemini     -> (5 * (IF a < 100 - a THEN a ELSE 100 - a) + 50) \div 100
                 [] OTHER -> 0
        /\ takerFee(venue, q, 1)
             = CASE venue = Kalshi     -> (7 * y + 9999) \div 10000
                 [] venue = Polymarket -> (6 * y + 5000) \div 10000
                 [] venue = Gemini     -> (5 * (IF b < 100 - b THEN b ELSE 100 - b) + 50) \div 100
                 [] OTHER -> 0
    BY <1>1 DEF takerFee, Kalshi, Polymarket, Gemini
  <1> HIDE DEF a, b
  <1>2. x \in Int /\ y \in Int /\ x <= y + 100 * (b - a)
    BY <1>1, FeeSlope
  <1> HIDE DEF x, y
  <1>3. (7 * x + 9999) \div 10000 <= (7 * y + 9999) \div 10000 + (b - a)
    BY <1>1, <1>2
  <1>4. (6 * x + 5000) \div 10000 <= (6 * y + 5000) \div 10000 + (b - a)
    BY <1>1, <1>2
  <1>5. (5 * (IF a < 100 - a THEN a ELSE 100 - a) + 50) \div 100
          <= (5 * (IF b < 100 - b THEN b ELSE 100 - b) + 50) \div 100 + (b - a)
    BY <1>1
  <1> QED
    BY <1>1, <1>2, <1>3, <1>4, <1>5, <1>f

\* The ceiling is a price or zero.
LEMMA CeilingIs ==
  ASSUME NEW otherPrice \in Int, NEW otherVenue, NEW venue, NEW keep \in Int
  PROVE  LET top == chaseCeiling(otherPrice, otherVenue, venue, keep)
         IN  /\ top \in 0..99
             /\ top = 0 \/ edgeAt(top, venue, otherPrice, otherVenue) >= keep
  <1> DEFINE keeps(c) == edgeAt(c, venue, otherPrice, otherVenue) >= keep
             S == {0} \cup {c \in 1..99 : keeps(c)}
             Last(c) == (c = 0 \/ keeps(c)) /\ \A d \in (c + 1)..99 : ~keeps(d)
  <1>1. Max(S) \in S /\ \A c \in S : c <= Max(S)
    <2>1. S \in SUBSET (0..99) /\ S # {} /\ 0 \in Int /\ 99 \in Int
      OBVIOUS
    <2> HIDE DEF S
    <2> QED
      BY <2>1, MaxOfInterval, Zenon
  <1>2. chaseCeiling(otherPrice, otherVenue, venue, keep) = CHOOSE c \in 0..99 : Last(c)
    BY DEF chaseCeiling
  <1> HIDE DEF keeps
  <1>3. Max(S) \in 0..99 /\ Last(Max(S))
    BY <1>1
  <1> QED
    BY <1>2, <1>3 DEF keeps

\* Up to the ceiling of a chase, every price leaves the edge to be kept.
LEMMA CeilingKeepsEdge ==
  ASSUME NEW otherPrice \in Int, NEW otherVenue, NEW venue, NEW keep \in Int, NEW p \in Int,
         p >= 1, p <= chaseCeiling(otherPrice, otherVenue, venue, keep)
  PROVE  edgeAt(p, venue, otherPrice, otherVenue) >= keep
  <1> DEFINE top == chaseCeiling(otherPrice, otherVenue, venue, keep)
  <1>1. /\ top \in 0..99 /\ top >= 1
        /\ edgeAt(top, venue, otherPrice, otherVenue) >= keep
    BY CeilingIs
  <1>2. p + takerFee(venue, p, 1) <= top + takerFee(venue, top, 1)
    BY <1>1, DearerCostsMore
  <1>3. /\ takerFee(venue, p, 1) \in Int /\ takerFee(venue, top, 1) \in Int
        /\ takerFee(otherVenue, otherPrice, 1) \in Int
    BY <1>1, TakerFeeType
  <1> HIDE DEF top
  <1> QED
    BY <1>1, <1>2, <1>3 DEF edgeAt, kDollarCents

\* A pair with a cent of edge at one-contract fees costs no more than it pays
\* out, at every size.
LEMMA EdgeAtEverySize ==
  ASSUME NEW yes, NEW no, yes.price \in Int, no.price \in Int, NEW n \in Nat, n >= 1,
         edgeAt(no.price, no.venue, yes.price, yes.venue) >= 1
  PROVE  pairCost(yes, no, n) <= n * kDollarCents
  <1> DEFINE a == takerFee(yes.venue, yes.price, 1)
             b == takerFee(no.venue, no.price, 1)
             an == takerFee(yes.venue, yes.price, n)
             bn == takerFee(no.venue, no.price, n)
             one == yes.price + a + no.price + b
  <1>1. a \in Nat /\ b \in Nat /\ an \in Nat /\ bn \in Nat
    BY TakerFeeType
  <1>2. 2 * an <= 2 * (n * a) + n /\ 2 * bn <= 2 * (n * b) + n
    BY FeePerContract
  <1>3. pairCost(yes, no, n) = n * yes.price + an + n * no.price + bn
    BY <1>1 DEF pairCost, legCost
  <1>4. one <= 99 /\ one \in Int
    BY <1>1 DEF edgeAt, kDollarCents
  <1> HIDE DEF a, b, an, bn
  <1>5. n * one = n * yes.price + n * a + n * no.price + n * b
    BY <1>1
  <1>6. n * (99 - one) \in Nat
    BY <1>4, ProductNat
  <1>7. n * (99 - one) = 99 * n - n * one
    <2> HIDE DEF one
    <2> QED
      BY <1>4
  <1>8. /\ n * a \in Int /\ n * b \in Int /\ n * yes.price \in Int /\ n * no.price \in Int
        /\ n * one \in Int
    BY <1>1
  <1> HIDE DEF one
  <1> QED
    BY <1>1, <1>2, <1>3, <1>5, <1>6, <1>7, <1>8 DEF kDollarCents

-----------------------------------------------------------------------------
(* Sizing *)

\* Whatever the costs are, fitSize returns a number between 0 and size, and that
\* many contracts fit the cap.
LEMMA FitSizeType ==
  ASSUME NEW size \in Int, NEW cap \in Int, NEW cost, size >= 1 => cost[1] \in Int
  PROVE  LET n == fitSize(size, cap, cost)
         IN  n \in 0..(IF size < 0 THEN 0 ELSE size) /\ (n >= 1 => cost[n] <= cap)
  <1>1. CASE size < 1 \/ cap <= 0
    BY <1>1 DEF fitSize
  <1>2. CASE ~(size < 1 \/ cap <= 0)
    <2> DEFINE est == fitEstimate(size, cap, cost[1])
               D == {0} \cup {n \in 1..est : cost[n] <= cap}
               down == Max(D)
               U == {n \in down..size : \A k \in (down + 1)..n : cost[k] <= cap}
    <2>1. est \in 0..size
      BY <1>2 DEF fitEstimate
    <2> HIDE DEF est
    <2>2. D \in SUBSET (0..size) /\ D # {}
      BY <2>1
    <2> HIDE DEF D
    <2>a. 0 \in Int
      OBVIOUS
    <2>3. down \in D
      BY <2>2, <2>a, MaxOfInterval, Zenon
    <2>4. down \in 0..size /\ (down >= 1 => cost[down] <= cap)
      BY <2>2, <2>3 DEF D
    <2> HIDE DEF down
    <2>5. U \in SUBSET (0..size) /\ U # {}
      BY <2>4
    <2> HIDE DEF U
    <2>6. Max(U) \in U
      BY <2>5, <2>a, MaxOfInterval, Zenon
    <2>7. Max(U) >= 1 => cost[Max(U)] <= cap
      BY <2>4, <2>6 DEF U
    <2>8. fitSize(size, cap, cost) = Max(U)
      BY <1>2 DEF fitSize, U, down, D, est
    <2>9. Max(U) \in 0..size
      BY <2>5, <2>6
    <2> QED
      BY <2>7, <2>8, <2>9, <1>2
  <1> QED
    BY <1>1, <1>2

LEMMA FitLegType ==
  ASSUME NEW size \in Int, NEW cap \in Int, NEW leg, leg.price \in Int
  PROVE  fitLeg(size, cap, leg) \in 0..(IF size < 0 THEN 0 ELSE size)
  BY FitSizeType, LegCostType DEF fitLeg, legCosts

LEMMA FitPairType ==
  ASSUME NEW size \in Int, NEW cap \in Int, NEW yes, NEW no,
         yes.price \in Int, no.price \in Int
  PROVE  fitPair(size, cap, yes, no) \in 0..(IF size < 0 THEN 0 ELSE size)
  <1>1. size >= 1 => pairCosts(yes, no, size)[1] \in Int
    BY PairCostType DEF pairCosts
  <1> QED
    BY <1>1, FitSizeType DEF fitPair

LEMMA FitVenuesType ==
  ASSUME NEW size \in Int, NEW room \in [Venues -> Int], NEW yes, NEW no,
         yes.price \in Int, no.price \in Int, yes.venue \in Venues, no.venue \in Venues
  PROVE  fitVenues(yes, no, size, room) \in 0..(IF size < 0 THEN 0 ELSE size)
  <1>1. room[yes.venue] \in Int /\ room[no.venue] \in Int
    OBVIOUS
  <1>2. fitLeg(size, room[yes.venue], yes) \in 0..(IF size < 0 THEN 0 ELSE size)
    BY <1>1, FitLegType
  <1>3. ASSUME NEW n \in 0..(IF size < 0 THEN 0 ELSE size)
        PROVE  fitLeg(n, room[no.venue], no) \in 0..(IF size < 0 THEN 0 ELSE size)
    <2>1. fitLeg(n, room[no.venue], no) \in 0..n
      BY <1>1, FitLegType
    <2> QED
      BY <2>1
  <1>4. fitPair(size, room[yes.venue], yes, no) \in 0..(IF size < 0 THEN 0 ELSE size)
    BY <1>1, FitPairType
  <1> QED
    BY <1>2, <1>3, <1>4 DEF fitVenues

-----------------------------------------------------------------------------
(* The strategy and the risk check *)

\* A leg that buys at a quoted price on a real venue.
QuotedLeg == [venue : Venues, side : Sides, buy : {TRUE}, size : Nat, price : Int]

LEMMA TruncDivType ==
  ASSUME NEW a \in Int, NEW b \in Nat \ {0}
  PROVE  truncDiv(a, b) \in Int
  BY DEF truncDiv

LEMMA ViewType ==
  ASSUME NEW view \in View, NEW v \in Venues, NEW s \in Sides
  PROVE  view[v].ask[s] \in 0..100 /\ view[v].depth[s] \in Nat
  <1>1. view[v] \in [listed : BOOLEAN, ask : [Sides -> 0..100], depth : [Sides -> Nat]]
    BY DEF View, kDollarCents
  <1>2. view[v].ask \in [Sides -> 0..100] /\ view[v].depth \in [Sides -> Nat]
    BY <1>1
  <1> QED
    BY <1>2

\* A leg per side that costs at least a cent.
Priced(leg) == \A s \in Sides : leg[s].price >= 1

LEMMA CheapestVenueExists ==
  ASSUME NEW view \in View, NEW side \in Sides, Quoted(view, side) # {}
  PROVE  CheapestVenue(view, side) \in Quoted(view, side)
  <1> DEFINE ask(v) == view[v].ask[side]
             Best(v) == \A u \in Quoted(view, side) :
                          \/ ask(v) < ask(u)
                          \/ ask(v) = ask(u) /\ v <= u
  <1>1. Quoted(view, side) \subseteq {1, 2, 3}
    BY DEF Quoted, Venues, Kalshi, Polymarket, Gemini
  <1>2. \A v \in {1, 2, 3} : ask(v) \in Int
    <2>1. \A v \in Venues : ask(v) \in 0..100
      BY ViewType
    <2> HIDE DEF ask
    <2> QED
      BY <2>1 DEF Venues, Kalshi, Polymarket, Gemini
  <1> HIDE DEF ask
  <1>3. \E v \in Quoted(view, side) : Best(v)
    BY <1>1, <1>2
  <1>4. CheapestVenue(view, side) = CHOOSE v \in Quoted(view, side) : Best(v)
    BY DEF CheapestVenue, ask
  <1> QED
    BY <1>3, <1>4

\* The strategy proposes nothing, or a leg per side, each on a listed venue.
LEMMA StrategizeType ==
  ASSUME NEW view \in View
  PROVE  strategize(view) = NoIdea \/ strategize(view) \in [Sides -> QuotedLeg]
  <1>1. CASE \E s \in Sides : Quoted(view, s) = {}
    BY <1>1 DEF strategize
  <1>2. CASE \A s \in Sides : Quoted(view, s) # {}
    <2>1. \A s \in Sides : CheapestVenue(view, s) \in Quoted(view, s)
      BY <1>2, CheapestVenueExists
    <2>2. \A s \in Sides :
            /\ CheapestVenue(view, s) \in Venues
            /\ view[CheapestVenue(view, s)].ask[s] \in 0..100
            /\ view[CheapestVenue(view, s)].depth[s] \in Nat
      BY <2>1, ViewType DEF Quoted
    <2>3. ProposedSize(view) \in Nat
      <3>1. \A d, e \in Nat : ((IF d < e THEN d ELSE e) * 70) \div 100 \in Nat
        OBVIOUS
      <3> QED
        BY <2>2, <3>1 DEF ProposedSize, Sides, kBookTakePct
    <2>4. \A s \in Sides : BuyLeg(view, s, ProposedSize(view)) \in QuotedLeg
      BY <2>2, <2>3 DEF BuyLeg, QuotedLeg
    <2> QED
      BY <1>2, <2>4 DEF strategize
  <1> QED
    BY <1>1, <1>2

\* An ask of zero is no quote: what the strategy proposes has a price.
LEMMA StrategizePrices ==
  ASSUME NEW view \in View, strategize(view) # NoIdea
  PROVE  Priced(strategize(view))
  <1>1. \A s \in Sides : Quoted(view, s) # {}
    BY DEF strategize
  <1>2. strategize(view) = [s \in Sides |-> BuyLeg(view, s, ProposedSize(view))]
    BY DEF strategize
  <1>3. ASSUME NEW s \in Sides
        PROVE  strategize(view)[s].price >= 1
    <2>1. CheapestVenue(view, s) \in Quoted(view, s)
      BY <1>1, CheapestVenueExists
    <2>2. /\ view[CheapestVenue(view, s)].ask[s] # 0
          /\ view[CheapestVenue(view, s)].ask[s] \in 0..100
      BY <2>1, ViewType DEF Quoted
    <2>3. strategize(view)[s].price = view[CheapestVenue(view, s)].ask[s]
      BY <1>2 DEF BuyLeg
    <2> QED
      BY <2>2, <2>3
  <1> QED
    BY <1>3 DEF Priced

\* What approve_pair reads of a portfolio.
BookType(book, market) ==
  /\ book.cash \in [Venues -> Int]
  /\ book.exposure \in [Venues -> Int]
  /\ book.reserved \in [Venues -> Int]
  /\ book.pos[market].count \in [Sides -> Int]
  /\ book.pos[market].avg \in [Sides -> Int]

\* The size of an approved pair is a number of contracts; a rejected pair has
\* size zero.
LEMMA ApprovedSizeType ==
  ASSUME NEW yes \in QuotedLeg, NEW no \in QuotedLeg, NEW market, NEW book,
         BookType(book, market), NEW limits \in RiskLimits, NEW halted
  PROVE  approve_pair(yes, no, market, book, limits, halted).size \in Nat
  <1> DEFINE position == book.pos[market]
             asked == IF yes.size < no.size THEN yes.size ELSE no.size
             room == contractRoom(position, limits)
             equity == OverVenues(book.cash) + OverVenues(book.exposure)
             onContracts == IF 2 * asked > room THEN truncDiv(room, 2) ELSE asked
             cashRoom == [v \in Venues |-> venueCash(book, v)]
             onCash == fitVenues(yes, no, onContracts, cashRoom)
             spareRoom == [v \in Venues |-> reserveRoom(book, v, limits)]
             onReserve == fitVenues(yes, no, onCash, spareRoom)
             allocation == truncDiv((OverVenues(book.cash) - OverVenues(book.reserved))
                                      * limits.max_allocation_pct, 100)
                             - OverVenues(book.exposure)
             onAllocation == fitPair(onReserve, allocation, yes, no)
             marketCap == truncDiv(equity * limits.max_market_pct, 100)
                            - marketExposure(position)
             onMarket == fitPair(onAllocation, marketCap, yes, no)
             Edges == {0} \cup {k \in 1..onMarket : pairProfitableAtSize(yes, no, k)}
  <1> USE DEF BookType, Sides, YesSided, NoSided, Venues, Kalshi, Polymarket, Gemini
  <1>1. /\ yes.price \in Int /\ no.price \in Int /\ yes.size \in Nat /\ no.size \in Nat
        /\ yes.venue \in Venues /\ no.venue \in Venues
    BY DEF QuotedLeg
  <1>2. /\ limits.max_market_pct \in Int /\ limits.max_allocation_pct \in Int
        /\ limits.venue_reserve_pct \in Int /\ limits.max_contracts \in Int
    BY DEF RiskLimits
  <1>3. \A f \in [Venues -> Int] : OverVenues(f) \in Int
    BY DEF OverVenues
  <1>4. onContracts \in Int
    <2>1. room \in Int
      BY <1>2 DEF contractRoom
    <2>2. asked \in Int
      BY <1>1
    <2> HIDE DEF room, asked
    <2> QED
      BY <2>1, <2>2, TruncDivType
  <1>5. onCash \in Int
    <2>1. cashRoom \in [Venues -> Int]
      BY DEF venueCash
    <2> HIDE DEF cashRoom, onContracts, Venues
    <2> QED
      BY <1>1, <1>4, <2>1, FitVenuesType
  <1>6. onReserve \in Int
    <2>1. ASSUME NEW v \in Venues
          PROVE  reserveRoom(book, v, limits) \in Int
      <3> DEFINE worth == (book.cash[v] + book.exposure[v]) * (100 - limits.venue_reserve_pct)
      <3>1. worth \in Int /\ book.exposure[v] \in Int /\ book.reserved[v] \in Int
        BY <1>2
      <3>2. reserveRoom(book, v, limits)
              = truncDiv(worth, 100) - book.exposure[v] - book.reserved[v]
        BY DEF reserveRoom
      <3> HIDE DEF worth
      <3>3. truncDiv(worth, 100) \in Int
        BY <3>1, TruncDivType
      <3> QED
        BY <3>1, <3>2, <3>3
    <2>2. spareRoom \in [Venues -> Int]
      BY <2>1
    <2> HIDE DEF spareRoom, onCash, Venues
    <2> QED
      BY <1>1, <1>5, <2>2, FitVenuesType
  <1>7. onAllocation \in Int
    <2>1. allocation \in Int
      <3> DEFINE share == (OverVenues(book.cash) - OverVenues(book.reserved))
                            * limits.max_allocation_pct
      <3>1. share \in Int /\ OverVenues(book.exposure) \in Int
        BY <1>2, <1>3
      <3> HIDE DEF share
      <3>2. truncDiv(share, 100) \in Int
        BY <3>1, TruncDivType
      <3> QED
        BY <3>1, <3>2 DEF share
    <2> HIDE DEF allocation, onReserve
    <2> QED
      BY <1>1, <1>6, <2>1, FitPairType
  <1>8. onMarket \in Int
    <2>1. marketExposure(position) \in Int
      BY DEF marketExposure
    <2>2. marketCap \in Int
      <3> DEFINE share == equity * limits.max_market_pct
      <3>1. share \in Int
        BY <1>2, <1>3
      <3> HIDE DEF share
      <3>2. truncDiv(share, 100) \in Int
        BY <3>1, TruncDivType
      <3> QED
        BY <2>1, <3>2 DEF share
    <2> HIDE DEF marketCap, onAllocation
    <2> QED
      BY <1>1, <1>7, <2>2, FitPairType
  <1> HIDE DEF onMarket
  <1>9. Max(Edges) \in Nat
    <2>1. CASE onMarket < 1
      <3>1. Edges \in SUBSET (0..0) /\ Edges # {}
        BY <1>8, <2>1
      <3> HIDE DEF Edges
      <3>2. 0 \in Int
        OBVIOUS
      <3>3. Max(Edges) \in Edges
        BY <3>1, <3>2, MaxOfInterval, Zenon
      <3>4. Max(Edges) \in 0..0
        BY <3>1, <3>3, Zenon
      <3> QED
        BY <3>4
    <2>2. CASE onMarket >= 1
      <3>1. Edges \in SUBSET (0..onMarket) /\ Edges # {}
        BY <1>8, <2>2
      <3> HIDE DEF Edges
      <3>2. 0 \in Int
        OBVIOUS
      <3>3. Max(Edges) \in Edges
        BY <1>8, <3>1, <3>2, MaxOfInterval, Zenon
      <3>4. Max(Edges) \in 0..onMarket
        BY <3>1, <3>3, Zenon
      <3> QED
        BY <3>4
    <2> QED
      BY <1>8, <2>1, <2>2
  <1>10. \/ approve_pair(yes, no, market, book, limits, halted).size = Max(Edges)
         \/ approve_pair(yes, no, market, book, limits, halted).size = 0
    BY DEF approve_pair, onMarket
  <1> QED
    BY <1>9, <1>10

LEMMA MinOfInterval ==
  ASSUME NEW hi \in Nat, NEW S \in SUBSET (0..hi), S # {}
  PROVE  Min(S) \in S /\ \A x \in S : Min(S) <= x
  <1>1. S \subseteq Nat
    OBVIOUS
  <1>2. PICK x \in S : \A y \in S : ~(<<y, x>> \in OpToRel(<, Nat))
    BY <1>1, NatLessThanWellFounded, WFMin
  <1>3. \A y \in S : ~(y < x)
    BY <1>1, <1>2 DEF OpToRel
  <1>4. \A y \in S : x <= y
    BY <1>1, <1>3
  <1> QED
    BY <1>4 DEF Min

\* What n contracts of each leg cost on one venue.
spentAt(yes, no, n, v) ==
  (IF yes.venue = v THEN legCost(yes, n) ELSE 0) + (IF no.venue = v THEN legCost(no, n) ELSE 0)

\* A size the venues' room allows leaves room for every smaller one.
LEMMA FitVenuesFits ==
  ASSUME NEW size \in Int, NEW room \in [Venues -> Int], NEW yes, NEW no,
         yes.price \in Nat, no.price \in Nat, yes.venue \in Venues, no.venue \in Venues,
         NEW n \in Nat, n >= 1, n <= fitVenues(yes, no, size, room)
  PROVE  \A v \in {yes.venue, no.venue} : spentAt(yes, no, n, v) <= room[v]
  <1>1. room[yes.venue] \in Int /\ room[no.venue] \in Int
    OBVIOUS
  <1>2. ASSUME NEW leg, leg.price \in Nat, NEW k \in Int, NEW cap \in Int, n <= fitLeg(k, cap, leg)
        PROVE  legCost(leg, n) <= cap /\ fitLeg(k, cap, leg) <= k /\ fitLeg(k, cap, leg) \in Int
    <2> DEFINE m == fitLeg(k, cap, leg)
    <2>1. k >= 1 => legCosts(leg, k)[1] \in Int
      BY <1>2, LegCostType DEF legCosts
    <2>2. m \in 0..(IF k < 0 THEN 0 ELSE k) /\ (m >= 1 => legCosts(leg, k)[m] <= cap)
      BY <1>2, <2>1, FitSizeType DEF fitLeg
    <2> HIDE DEF m
    <2>3. m \in Nat /\ m >= 1 /\ m <= k
      BY <1>2, <2>2 DEF m
    <2>4. legCost(leg, m) <= cap
      BY <2>2, <2>3 DEF legCosts
    <2>5. legCost(leg, n) <= legCost(leg, m) /\ legCost(leg, n) \in Int /\ legCost(leg, m) \in Int
      BY <1>2, <2>3, LegCostGrows, LegCostType DEF m
    <2> QED
      BY <1>2, <2>3, <2>4, <2>5 DEF m
  <1>3. CASE yes.venue = no.venue
    <2> DEFINE cap == room[yes.venue]
               m == fitPair(size, cap, yes, no)
    <2>1. size >= 1 => pairCosts(yes, no, size)[1] \in Int
      BY PairCostType DEF pairCosts
    <2>2. m \in 0..(IF size < 0 THEN 0 ELSE size)
          /\ (m >= 1 => pairCosts(yes, no, size)[m] <= cap)
      BY <1>1, <2>1, FitSizeType DEF fitPair
    <2>3. n <= m
      BY <1>3 DEF fitVenues
    <2> HIDE DEF m, cap
    <2>4. m \in Nat /\ m >= 1 /\ m <= size
      BY <2>2, <2>3
    <2>5. pairCost(yes, no, m) <= cap
      BY <2>2, <2>4 DEF pairCosts
    <2>6. /\ pairCost(yes, no, n) <= pairCost(yes, no, m)
          /\ pairCost(yes, no, n) \in Int /\ pairCost(yes, no, m) \in Int
      BY <2>3, <2>4, PairCostGrows, PairCostType
    <2>7. pairCost(yes, no, n) <= cap
      BY <1>1, <2>5, <2>6 DEF cap
    <2> QED
      BY <1>3, <2>7 DEF spentAt, pairCost, cap
  <1>4. CASE yes.venue # no.venue
    <2> DEFINE k == fitLeg(size, room[yes.venue], yes)
    <2>1. n <= fitLeg(k, room[no.venue], no)
      BY <1>4 DEF fitVenues
    <2>2. k \in Int
      BY <1>1, FitLegType
    <2> HIDE DEF k
    <2>3. legCost(no, n) <= room[no.venue] /\ fitLeg(k, room[no.venue], no) <= k
          /\ fitLeg(k, room[no.venue], no) \in Int
      BY <1>1, <1>2, <2>1, <2>2
    <2>4. n <= k
      BY <2>1, <2>2, <2>3
    <2>5. legCost(yes, n) <= room[yes.venue]
      BY <1>1, <1>2, <2>4 DEF k
    <2>6. legCost(no, n) \in Int /\ legCost(yes, n) \in Int
      BY LegCostType
    <2> QED
      BY <1>4, <2>3, <2>5, <2>6 DEF spentAt
  <1> QED
    BY <1>3, <1>4

LEMMA FitPairFits ==
  ASSUME NEW size \in Int, NEW cap \in Int, NEW yes, NEW no,
         yes.price \in Nat, no.price \in Nat,
         NEW n \in Nat, n >= 1, n <= fitPair(size, cap, yes, no)
  PROVE  pairCost(yes, no, n) <= cap
  <1> DEFINE m == fitPair(size, cap, yes, no)
  <1>1. size >= 1 => pairCosts(yes, no, size)[1] \in Int
    BY PairCostType DEF pairCosts
  <1>2. m \in 0..(IF size < 0 THEN 0 ELSE size)
        /\ (m >= 1 => pairCosts(yes, no, size)[m] <= cap)
    BY <1>1, FitSizeType DEF fitPair
  <1>3. n <= m
    OBVIOUS
  <1> HIDE DEF m
  <1>4. m \in Nat /\ m >= 1 /\ m <= size
    BY <1>2, <1>3
  <1>5. pairCost(yes, no, m) <= cap
    BY <1>2, <1>4 DEF pairCosts
  <1>6. /\ pairCost(yes, no, n) <= pairCost(yes, no, m)
        /\ pairCost(yes, no, n) \in Int /\ pairCost(yes, no, m) \in Int
    BY <1>3, <1>4, PairCostGrows, PairCostType
  <1> QED
    BY <1>5, <1>6

\* What max_allocation_pct leaves to spend.
allocationRoom(book, limits) ==
  truncDiv((OverVenues(book.cash) - OverVenues(book.reserved)) * limits.max_allocation_pct, 100)
    - OverVenues(book.exposure)

(* An approved pair is within the contract cap, the cash and the reserve of the
   venues it is bought on, and the allocation: each later limit only shrinks
   it, and a smaller pair costs less. *)
LEMMA ApprovedFits ==
  ASSUME NEW yes \in QuotedLeg, NEW no \in QuotedLeg, yes.price >= 1, no.price >= 1,
         NEW market, NEW book, BookType(book, market), NEW limits \in RiskLimits, NEW halted,
         approve_pair(yes, no, market, book, limits, halted).reason = "Ok"
  PROVE  LET n == approve_pair(yes, no, market, book, limits, halted).size
         IN  /\ n \in Nat /\ n >= 1 /\ 2 * n <= contractRoom(book.pos[market], limits)
             /\ \A v \in {yes.venue, no.venue} :
                  /\ spentAt(yes, no, n, v) <= venueCash(book, v)
                  /\ spentAt(yes, no, n, v) <= reserveRoom(book, v, limits)
             /\ pairCost(yes, no, n) <= allocationRoom(book, limits)
  <1> DEFINE position == book.pos[market]
             asked == IF yes.size < no.size THEN yes.size ELSE no.size
             room == contractRoom(position, limits)
             equity == OverVenues(book.cash) + OverVenues(book.exposure)
             onContracts == IF 2 * asked > room THEN truncDiv(room, 2) ELSE asked
             cashRoom == [v \in Venues |-> venueCash(book, v)]
             onCash == fitVenues(yes, no, onContracts, cashRoom)
             spareRoom == [v \in Venues |-> reserveRoom(book, v, limits)]
             onReserve == fitVenues(yes, no, onCash, spareRoom)
             allocation == allocationRoom(book, limits)
             onAllocation == fitPair(onReserve, allocation, yes, no)
             marketCap == truncDiv(equity * limits.max_market_pct, 100)
                            - marketExposure(position)
             onMarket == fitPair(onAllocation, marketCap, yes, no)
             Edges == {0} \cup {k \in 1..onMarket : pairProfitableAtSize(yes, no, k)}
             checks == << <<"Halted",       halted>>,
                          <<"ContractCap",  onContracts < 1>>,
                          <<"VenueCash",    onCash < 1>>,
                          <<"VenueReserve", onReserve < 1>>,
                          <<"NoCash",       OverVenues(book.cash) = 0>>,
                          <<"Allocation",   onAllocation < 1>>,
                          <<"NoEquity",     equity = 0>>,
                          <<"MarketPct",    onMarket < 1>>,
                          <<"BelowMinEdge", Max(Edges) < 1>> >>
             failed == {i \in 1..Len(checks) : checks[i][2]}
             n == Max(Edges)
  <1>1. /\ yes.price \in Nat /\ no.price \in Nat /\ yes.size \in Nat /\ no.size \in Nat
        /\ yes.venue \in Venues /\ no.venue \in Venues
    BY DEF QuotedLeg
  <1>2. approve_pair(yes, no, market, book, limits, halted)
          = IF failed = {} THEN [reason |-> "Ok", size |-> n]
            ELSE [reason |-> checks[Min(failed)][1], size |-> 0]
    BY DEF approve_pair, allocationRoom
  <1>3. /\ limits.max_market_pct \in Int /\ limits.max_allocation_pct \in Int
        /\ limits.venue_reserve_pct \in Int /\ limits.max_contracts \in Int
    BY DEF RiskLimits
  <1>4. \A f \in [Venues -> Int] : OverVenues(f) \in Int
    BY DEF OverVenues, Venues
  <1>5. room \in Int /\ asked \in Int
    BY <1>1, <1>3 DEF contractRoom, BookType, Sides
  <1>6. cashRoom \in [Venues -> Int]
    BY DEF venueCash, BookType
  <1>7. spareRoom \in [Venues -> Int]
    <2> SUFFICES ASSUME NEW v \in Venues PROVE reserveRoom(book, v, limits) \in Int
      OBVIOUS
    <2> DEFINE worth == (book.cash[v] + book.exposure[v]) * (100 - limits.venue_reserve_pct)
    <2>1. worth \in Int /\ book.exposure[v] \in Int /\ book.reserved[v] \in Int
      BY <1>3 DEF BookType
    <2>2. reserveRoom(book, v, limits)
            = truncDiv(worth, 100) - book.exposure[v] - book.reserved[v]
      BY DEF reserveRoom
    <2> HIDE DEF worth
    <2> QED
      BY <2>1, <2>2, TruncDivType
  <1>8. allocation \in Int
    <2> DEFINE share == (OverVenues(book.cash) - OverVenues(book.reserved))
                          * limits.max_allocation_pct
    <2>1. share \in Int /\ OverVenues(book.exposure) \in Int
      BY <1>3, <1>4 DEF BookType
    <2>2. allocation = truncDiv(share, 100) - OverVenues(book.exposure)
      BY DEF allocationRoom
    <2> HIDE DEF share
    <2> QED
      BY <2>1, <2>2, TruncDivType
  <1>9. marketCap \in Int
    <2> DEFINE share == equity * limits.max_market_pct
    <2>1. share \in Int
      BY <1>3, <1>4 DEF BookType
    <2>2. marketExposure(position) \in Int
      BY DEF marketExposure, BookType, Sides
    <2> HIDE DEF share
    <2> QED
      BY <2>1, <2>2, TruncDivType DEF share
  <1> HIDE DEF room, asked, cashRoom, spareRoom, allocation, marketCap
  <1>10. onContracts \in Int
    BY <1>5, TruncDivType
  <1> HIDE DEF onContracts
  <1>11. onCash \in Int /\ onCash <= (IF onContracts < 0 THEN 0 ELSE onContracts)
    BY <1>1, <1>6, <1>10, FitVenuesType
  <1> HIDE DEF onCash
  <1>12. onReserve \in Int /\ onReserve <= (IF onCash < 0 THEN 0 ELSE onCash)
    BY <1>1, <1>7, <1>11, FitVenuesType
  <1> HIDE DEF onReserve
  <1>13. onAllocation \in Int /\ onAllocation <= (IF onReserve < 0 THEN 0 ELSE onReserve)
    BY <1>1, <1>8, <1>12, FitPairType
  <1> HIDE DEF onAllocation
  <1>14. onMarket \in Int /\ onMarket <= (IF onAllocation < 0 THEN 0 ELSE onAllocation)
    BY <1>1, <1>9, <1>13, FitPairType
  <1> HIDE DEF onMarket
  <1>15. failed = {}
    <2> SUFFICES ASSUME failed # {} PROVE FALSE
      OBVIOUS
    <2> HIDE DEF n, Edges, equity
    <2>1. failed \in SUBSET (0..9) /\ \A i \in failed : i \in 1..9
      OBVIOUS
    <2>2. Min(failed) \in 1..9
      BY <2>1, MinOfInterval
    <2>3. \A i \in 1..9 : checks[i][1] # "Ok"
      OBVIOUS
    <2>4. approve_pair(yes, no, market, book, limits, halted).reason = checks[Min(failed)][1]
      BY <1>2
    <2> QED
      BY <2>2, <2>3, <2>4
  <1>16. ~(onContracts < 1) /\ ~(onMarket < 1) /\ ~(n < 1)
    <2> HIDE DEF n, Edges, equity
    <2>1. \A i \in 1..9 : ~checks[i][2]
      BY <1>15
    <2>2. /\ checks[2][2] <=> onContracts < 1
          /\ checks[8][2] <=> onMarket < 1
          /\ checks[9][2] <=> n < 1
      BY DEF n
    <2> HIDE DEF checks
    <2> QED
      BY <2>1, <2>2
  <1>17. n \in Nat /\ n >= 1 /\ n <= onMarket
    <2>1. Edges \in SUBSET (0..onMarket) /\ Edges # {}
      BY <1>14, <1>16
    <2> HIDE DEF Edges
    <2>2. 0 \in Int
      OBVIOUS
    <2>3. n \in Edges
      BY <1>14, <2>1, <2>2, MaxOfInterval, Zenon
    <2>4. n \in 0..onMarket
      BY <2>1, <2>3, Zenon
    <2> QED
      BY <1>14, <1>16, <2>4
  <1> HIDE DEF n
  <1>18. n <= onAllocation /\ n <= onReserve /\ n <= onCash /\ n <= onContracts
    BY <1>10, <1>11, <1>12, <1>13, <1>14, <1>17
  <1>19. 2 * n <= room
    BY <1>5, <1>17, <1>18 DEF onContracts, truncDiv
  <1>20. \A v \in {yes.venue, no.venue} : spentAt(yes, no, n, v) <= venueCash(book, v)
    <2>1. \A v \in {yes.venue, no.venue} : spentAt(yes, no, n, v) <= cashRoom[v]
      BY <1>1, <1>6, <1>10, <1>17, <1>18, FitVenuesFits DEF onCash
    <2> QED
      BY <1>1, <2>1 DEF cashRoom
  <1>21. \A v \in {yes.venue, no.venue} : spentAt(yes, no, n, v) <= reserveRoom(book, v, limits)
    <2>1. \A v \in {yes.venue, no.venue} : spentAt(yes, no, n, v) <= spareRoom[v]
      BY <1>1, <1>7, <1>11, <1>17, <1>18, FitVenuesFits DEF onReserve
    <2> QED
      BY <1>1, <2>1 DEF spareRoom
  <1>22. pairCost(yes, no, n) <= allocation
    BY <1>1, <1>8, <1>12, <1>17, <1>18, FitPairFits DEF onAllocation
  <1>23. approve_pair(yes, no, market, book, limits, halted).size = n
    BY <1>2, <1>15
  <1> QED
    BY <1>17, <1>19, <1>20, <1>21, <1>22, <1>23 DEF room, allocation

-----------------------------------------------------------------------------
(* Positions *)

LEMMA DivNat ==
  ASSUME NEW a \in Nat, NEW b \in Nat, b >= 1
  PROVE  a \div b \in Nat
  OBVIOUS

\* Fees are cents.
LEMMA FillFeeType ==
  ASSUME NEW f \in Leg
  PROVE  fillFee(f) \in Nat
  BY TakerFeeType DEF fillFee, Leg

LEMMA SurplusType ==
  ASSUME NEW position \in Position
  PROVE  surplus(position) \in Int
  BY DEF Position, surplus, Sides, YesSided, NoSided

LEMMA BlendLotType ==
  ASSUME NEW position \in Position, NEW side \in Sides, NEW venue \in Venues \cup {NoVenue},
         NEW add \in Nat, add >= 1, NEW price \in Nat
  PROVE  blendLot(position, side, venue, add, price) \in Position
  <1> DEFINE total == position.count[side] + add
             worth == position.count[side] * position.avg[side] + add * price
  <1>1. position.count[side] \in Nat /\ position.avg[side] \in Nat
    BY DEF Position
  <1>2. total \in Nat /\ total >= 1
    BY <1>1
  <1>3. worth \in Nat
    BY <1>1, ProductNat
  <1>4. blendLot(position, side, venue, add, price)
          = [position EXCEPT !.count[side] = total,
                             !.avg[side] = (worth + total \div 2) \div total,
                             !.venue[side] = venue]
    BY DEF blendLot
  <1> HIDE DEF total, worth
  <1>5. total \div 2 \in Nat
    BY <1>2
  <1>6. (worth + total \div 2) \div total \in Nat
    BY <1>2, <1>3, <1>5, DivNat
  <1> DEFINE average == (worth + total \div 2) \div total
  <1>7. average \in Nat
    BY <1>6
  <1> HIDE DEF average
  <1>8. /\ [position.count EXCEPT ![side] = total] \in [Sides -> Nat]
        /\ [position.avg EXCEPT ![side] = average] \in [Sides -> Nat]
        /\ [position.venue EXCEPT ![side] = venue] \in [Sides -> Venues \cup {NoVenue}]
    BY <1>2, <1>7 DEF Position
  <1>9. blendLot(position, side, venue, add, price)
          = [count |-> [position.count EXCEPT ![side] = total],
             avg   |-> [position.avg EXCEPT ![side] = average],
             venue |-> [position.venue EXCEPT ![side] = venue]]
    BY <1>4 DEF average, Position
  <1> QED
    BY <1>8, <1>9 DEF Position

LEMMA AddedCents ==
  ASSUME NEW amounts \in [Venues -> Int], NEW v, NEW delta \in Int
  PROVE  /\ [amounts EXCEPT ![v] = amounts[v] + delta] \in [Venues -> Int]
         /\ [amounts EXCEPT ![v] = amounts[v] - delta] \in [Venues -> Int]
  <1>1. CASE v \in Venues
    <2>1. amounts[v] + delta \in Int /\ amounts[v] - delta \in Int
      BY <1>1
    <2> QED
      BY <2>1
  <1>2. CASE v \notin Venues
    BY <1>2
  <1> QED
    BY <1>1, <1>2

LEMMA SellLotType ==
  ASSUME NEW position \in Position, NEW side \in Sides, NEW n \in 0..position.count[side]
  PROVE  sellLot(position, side, n) \in Position
  <1>1. position.count[side] \in Nat /\ position.avg[side] \in Nat
    BY DEF Position
  <1>2. position.count[side] - n \in Nat
    BY <1>1
  <1> QED
    BY <1>1, <1>2 DEF sellLot, Position

LEMMA SurplusSellType ==
  ASSUME NEW position \in Position
  PROVE  surplusSellIntent(position) \in Leg /\ surplusSellIntent(position).price = 1
  <1>1. surplus(position) \in Int
    BY SurplusType
  <1>2. surplusSide(position) \in Sides
    BY DEF surplusSide, Sides
  <1>3. position.venue[surplusSide(position)] \in Venues \cup {NoVenue}
    BY <1>2 DEF Position
  <1> QED
    BY <1>1, <1>2, <1>3 DEF surplusSellIntent, Leg, kFlattenPrice

LEMMA SaleBalances ==
  ASSUME NEW p \in Position, ~Balanced(p), NEW f, f.side = surplusSellIntent(p).side,
         f.size = surplusSellIntent(p).size
  PROVE  /\ f.size > 0 /\ soldSize(p, f) >= 1
         /\ Balanced(sellLot(p, f.side, soldSize(p, f)))
  <1> DEFINE y == p.count[YesSided]
             n == p.count[NoSided]
             s == f.side
             left == p.count[s] - soldSize(p, f)
  <1>1. y \in Nat /\ n \in Nat /\ y # n
    BY DEF Position, Sides, Balanced, surplus
  <1>2. \/ y > n /\ s = YesSided /\ f.size = y - n
        \/ y < n /\ s = NoSided /\ f.size = n - y
    BY <1>1 DEF surplusSellIntent, surplusSide, surplus
  <1>3. f.size > 0 /\ soldSize(p, f) = f.size
    BY <1>1, <1>2 DEF soldSize
  <1>4. sellLot(p, s, soldSize(p, f)).count = [p.count EXCEPT ![s] = left]
    BY DEF sellLot, Position
  <1>5. p.count \in [Sides -> Nat] /\ YesSided # NoSided
    BY DEF Position, YesSided, NoSided
  <1> QED
    BY <1>1, <1>2, <1>3, <1>4, <1>5 DEF Balanced, surplus, Sides

(* Every contract in the book was bought on a venue: a leftover always has a
   venue to be sold on. *)
HeldSomewhere(p) == \A s \in Sides : p.count[s] > 0 => p.venue[s] # NoVenue

LEMMA LeftoverHasVenue ==
  ASSUME NEW p \in Position, HeldSomewhere(p), ~Balanced(p)
  PROVE  surplusSellIntent(p).venue # NoVenue
  BY DEF Position, HeldSomewhere, Balanced, surplus, surplusSellIntent, surplusSide, Sides,
         YesSided, NoSided

LEMMA BoughtSomewhere ==
  ASSUME NEW p \in Position, HeldSomewhere(p), NEW side \in Sides, NEW venue, venue # NoVenue,
         NEW add, NEW price
  PROVE  HeldSomewhere(blendLot(p, side, venue, add, price))
  <1> DEFINE q == blendLot(p, side, venue, add, price)
  <1>1. \A s \in Sides \ {side} : q.count[s] = p.count[s] /\ q.venue[s] = p.venue[s]
    BY DEF blendLot, Position
  <1>2. q.venue[side] = venue
    BY DEF blendLot, Position
  <1> QED
    BY <1>1, <1>2 DEF HeldSomewhere

LEMMA SoldSomewhere ==
  ASSUME NEW p \in Position, HeldSomewhere(p), NEW side \in Sides, NEW n \in 0..p.count[side]
  PROVE  HeldSomewhere(sellLot(p, side, n))
  <1> DEFINE q == sellLot(p, side, n)
  <1>1. \A s \in Sides \ {side} : q.count[s] = p.count[s] /\ q.venue[s] = p.venue[s]
    BY DEF sellLot, Position
  <1>2. /\ q.count[side] = p.count[side] - n
        /\ q.venue[side] = IF p.count[side] - n = 0 THEN NoVenue ELSE p.venue[side]
    BY DEF sellLot, Position
  <1>3. p.count[side] \in Nat
    BY DEF Position
  <1> HIDE DEF q
  <1>4. HeldSomewhere(q)
    BY <1>1, <1>2, <1>3 DEF HeldSomewhere
  <1> QED
    BY <1>4 DEF q
=============================================================================
