---------------------------- MODULE EngineLemmas ----------------------------
(* What the price of a call auction is worth, for every book of orders: no    *)
(* price moves more stock than the one MatchEngine finds, and the best bid    *)
(* and the best ask accept it.                                                *)
EXTENDS MatchEngine, SumLemmas

\* The orders of the two lists, numbered, with their prices and amounts.
IsBook(B, A, price, amount) ==
  /\ B \subseteq 1..MaxOrders /\ A \subseteq 1..MaxOrders
  /\ \A o \in B \cup A : price[o] \in Nat /\ amount[o] \in Nat

\* what each bid adds to the demand at price p, and each ask to the supply
BidPart(B, price, amount, p) ==
  [o \in 1..MaxOrders |-> IF o \in B /\ price[o] >= p THEN amount[o] ELSE 0]
AskPart(A, price, amount, p) ==
  [o \in 1..MaxOrders |-> IF o \in A /\ price[o] <= p THEN amount[o] ELSE 0]

LEMMA PartsType ==
  ASSUME NEW B, NEW A, NEW price, NEW amount, IsBook(B, A, price, amount), NEW p \in Int
  PROVE \A o \in 1..MaxOrders : /\ BidPart(B, price, amount, p)[o] \in Nat
                                /\ AskPart(A, price, amount, p)[o] \in Nat
BY DEF BidPart, AskPart, IsBook

LEMMA AccumulatedType ==
  ASSUME NEW B, NEW A, NEW price, NEW amount, IsBook(B, A, price, amount), NEW p \in Int
  PROVE /\ AccumulatedBid(B, price, amount, p) \in Nat
        /\ AccumulatedAsk(A, price, amount, p) \in Nat
        /\ ExecutionAmount(B, A, price, amount, p) \in Nat
        /\ Imbalance(B, A, price, amount, p) \in Int
<1>1. /\ AccumulatedBid(B, price, amount, p) = SumTo(BidPart(B, price, amount, p), MaxOrders)
      /\ AccumulatedAsk(A, price, amount, p) = SumTo(AskPart(A, price, amount, p), MaxOrders)
  BY DEF AccumulatedBid, AccumulatedAsk, BidPart, AskPart
<1>2. AccumulatedBid(B, price, amount, p) \in Nat /\ AccumulatedAsk(A, price, amount, p) \in Nat
  BY <1>1, PartsType, SumNat, EngineAssumption
<1> QED BY <1>2 DEF ExecutionAmount, Imbalance

\* Demand falls and supply grows with the price.
LEMMA AccumulatedMonotone ==
  ASSUME NEW B, NEW A, NEW price, NEW amount, IsBook(B, A, price, amount),
         NEW p \in Int, NEW q \in Int, p <= q
  PROVE /\ AccumulatedBid(B, price, amount, q) <= AccumulatedBid(B, price, amount, p)
        /\ AccumulatedAsk(A, price, amount, p) <= AccumulatedAsk(A, price, amount, q)
<1> DEFINE bp == BidPart(B, price, amount, p)
           bq == BidPart(B, price, amount, q)
           ap == AskPart(A, price, amount, p)
           aq == AskPart(A, price, amount, q)
<1>1. \A o \in 1..MaxOrders : /\ bp[o] \in Nat /\ bq[o] \in Nat /\ ap[o] \in Nat /\ aq[o] \in Nat
  BY PartsType
<1>2. \A o \in 1..MaxOrders : bq[o] <= bp[o] /\ ap[o] <= aq[o]
  BY DEF BidPart, AskPart, IsBook
<1>3. /\ AccumulatedBid(B, price, amount, p) = SumTo(bp, MaxOrders)
      /\ AccumulatedBid(B, price, amount, q) = SumTo(bq, MaxOrders)
      /\ AccumulatedAsk(A, price, amount, p) = SumTo(ap, MaxOrders)
      /\ AccumulatedAsk(A, price, amount, q) = SumTo(aq, MaxOrders)
  BY DEF AccumulatedBid, AccumulatedAsk, BidPart, AskPart
<1> HIDE DEF bp, bq, ap, aq
<1>4. \A o \in 1..MaxOrders : /\ bp[o] \in Int /\ bq[o] \in Int /\ ap[o] \in Int /\ aq[o] \in Int
  BY <1>1
<1>5. SumTo(bq, MaxOrders) <= SumTo(bp, MaxOrders)
  BY <1>2, <1>4, SumMonotone, EngineAssumption
<1>6. SumTo(ap, MaxOrders) <= SumTo(aq, MaxOrders)
  BY <1>2, <1>4, SumMonotone, EngineAssumption
<1> QED BY <1>3, <1>5, <1>6

\* Of the members of a set of orders one has the largest, one the smallest price,
\* whatever is measured of a price.
LEMMA LargestOf ==
  ASSUME NEW S \in SUBSET (1..MaxOrders), S # {}, NEW f, \A o \in S : f[o] \in Int
  PROVE \E o \in S : \A r \in S : f[r] <= f[o]
<1> DEFINE Has(k) == S \cap (1..k) # {} =>
                       \E o \in S \cap (1..k) : \A r \in S \cap (1..k) : f[r] <= f[o]
           G == {k \in 0..MaxOrders : Has(k)}
<1>1. MaxOrders \in Nat
  BY EngineAssumption
<1>2. 0 \in G
  BY <1>1
<1>3. ASSUME NEW k \in 0..(MaxOrders - 1), k \in G PROVE k + 1 \in G
  <2>1. k \in Nat /\ k + 1 \in 0..MaxOrders /\ 1..(k + 1) = (1..k) \cup {k + 1}
    BY <1>1
  <2>2. SUFFICES ASSUME S \cap (1..(k + 1)) # {} PROVE Has(k + 1)
    BY <2>1
  <2>3. CASE k + 1 \notin S
    <3>1. S \cap (1..(k + 1)) = S \cap (1..k)
      BY <2>1, <2>3
    <3> QED BY <1>3, <2>2, <3>1
  <2>4. CASE k + 1 \in S /\ S \cap (1..k) = {}
    <3>1. S \cap (1..(k + 1)) = {k + 1}
      BY <2>1, <2>4
    <3> QED BY <2>4, <3>1
  <2>5. CASE k + 1 \in S /\ S \cap (1..k) # {}
    <3>1. PICK o \in S \cap (1..k) : \A r \in S \cap (1..k) : f[r] <= f[o]
      BY <1>3, <2>5
    <3>2. f[o] \in Int /\ f[k + 1] \in Int
      BY <2>5
    <3>3. CASE f[o] <= f[k + 1]
      <4>1. \A r \in S \cap (1..(k + 1)) : f[r] <= f[k + 1]
        BY <2>1, <3>1, <3>2, <3>3
      <4>2. k + 1 \in S \cap (1..(k + 1))
        BY <2>1, <2>5
      <4> QED BY <4>1, <4>2
    <3>4. CASE f[k + 1] <= f[o]
      <4>1. \A r \in S \cap (1..(k + 1)) : f[r] <= f[o]
        BY <2>1, <3>1, <3>2, <3>4
      <4>2. o \in S \cap (1..(k + 1))
        BY <2>1
      <4> QED BY <4>1, <4>2
    <3> QED BY <3>2, <3>3, <3>4
  <2> QED BY <2>3, <2>4, <2>5
<1> HIDE DEF G
<1>4. MaxOrders \in G
  BY <1>1, <1>2, <1>3, NatSetInduction
<1>5. S \cap (1..MaxOrders) = S
  OBVIOUS
<1> QED BY <1>4, <1>5 DEF G

\* What is measured of price points is somewhere largest and somewhere smallest.
LEMMA ExtremePoints ==
  ASSUME NEW B, NEW A, NEW price, NEW amount, IsBook(B, A, price, amount),
         NEW T \in SUBSET PricePoints(B, A, price), T # {}, NEW f \in [T -> Int]
  PROVE Maximizers(T, f) # {} /\ Minimizers(T, f) # {}
<1> DEFINE S == {o \in B \cup A : price[o] \in T}
           g == [o \in S |-> f[price[o]]]
           h == [o \in S |-> -f[price[o]]]
<1>1. S \in SUBSET (1..MaxOrders) /\ S # {} /\ T = {price[o] : o \in S}
  BY DEF PricePoints, IsBook
<1>2. /\ \A o \in S : g[o] \in Int /\ h[o] \in Int
      /\ \A o \in S : price[o] \in T /\ g[o] = f[price[o]] /\ h[o] = -f[price[o]]
  OBVIOUS
<1>3. \A t \in T : f[t] \in Int
  OBVIOUS
<1> HIDE DEF S, g, h
<1>4. PICK o \in S : \A r \in S : g[r] <= g[o]
  BY <1>1, <1>2, LargestOf
<1>5. PICK q \in S : \A r \in S : h[r] <= h[q]
  BY <1>1, <1>2, LargestOf
<1>6. price[o] \in Maximizers(T, f)
  BY <1>1, <1>2, <1>4 DEF Maximizers
<1>7. price[q] \in Minimizers(T, f)
  BY <1>1, <1>2, <1>3, <1>5 DEF Minimizers
<1> QED BY <1>6, <1>7

LEMMA PointsFinite ==
  ASSUME NEW B, NEW A, NEW price, NEW amount, IsBook(B, A, price, amount)
  PROVE PricePoints(B, A, price) \subseteq Nat /\ IsFiniteSet(PricePoints(B, A, price))
<1> DEFINE f == [o \in B \cup A |-> price[o]]
<1>1. IsFiniteSet(B \cup A)
  <2>1. IsFiniteSet(1..MaxOrders)
    BY EngineAssumption, FS_Interval
  <2>2. B \cup A \in SUBSET (1..MaxOrders)
    BY DEF IsBook
  <2> QED BY <2>1, <2>2, FS_Subset
<1>2. f \in Surjection(B \cup A, PricePoints(B, A, price))
  BY DEF Surjection, PricePoints
<1>3. IsFiniteSet(PricePoints(B, A, price))
  BY <1>1, <1>2, FS_Surjection
<1> QED BY <1>3 DEF PricePoints, IsBook

\* The sets of points the engine narrows its choice to are not empty.
LEMMA BestPoints ==
  ASSUME NEW B, NEW A, NEW price, NEW amount, IsBook(B, A, price, amount), B \cup A # {}
  PROVE /\ MostTraded(B, A, price, amount) \subseteq PricePoints(B, A, price)
        /\ BestPricePoints(B, A, price, amount) \subseteq MostTraded(B, A, price, amount)
        /\ BestPricePoints(B, A, price, amount) \subseteq Nat
        /\ BestPricePoints(B, A, price, amount) # {}
        /\ IsFiniteSet(BestPricePoints(B, A, price, amount))
        /\ \A p \in MostTraded(B, A, price, amount), q \in PricePoints(B, A, price) :
             ExecutionAmount(B, A, price, amount, q) <= ExecutionAmount(B, A, price, amount, p)
        /\ \A p \in BestPricePoints(B, A, price, amount), q \in MostTraded(B, A, price, amount) :
             AbsVal(Imbalance(B, A, price, amount, p)) <= AbsVal(Imbalance(B, A, price, amount, q))
<1> DEFINE points == PricePoints(B, A, price)
           most == MostTraded(B, A, price, amount)
           best == BestPricePoints(B, A, price, amount)
           volume == [p \in points |-> ExecutionAmount(B, A, price, amount, p)]
           surplus == [p \in most |-> AbsVal(Imbalance(B, A, price, amount, p))]
<1>1. points \subseteq Nat /\ IsFiniteSet(points) /\ points # {}
  BY PointsFinite DEF PricePoints
<1>2. volume \in [points -> Int]
  BY <1>1, AccumulatedType
<1>3. most = Maximizers(points, volume)
  BY DEF MostTraded
<1>4. most \in SUBSET points
  BY <1>3 DEF Maximizers
<1>5. surplus \in [most -> Int]
  <2>1. \A p \in most : Imbalance(B, A, price, amount, p) \in Int
    BY <1>1, <1>4, AccumulatedType
  <2>2. \A i \in Int : AbsVal(i) \in Int
    BY DEF AbsVal
  <2> QED BY <2>1, <2>2
<1>6. best = Minimizers(most, surplus)
  BY DEF BestPricePoints, LeastSurplus
<1>7. best \subseteq most
  BY <1>6 DEF Minimizers
<1>8. \A p \in most, q \in points : volume[q] <= volume[p]
  BY <1>3 DEF Maximizers
<1>9. \A p \in best, q \in most : surplus[p] <= surplus[q]
  BY <1>6 DEF Minimizers
<1>10. most # {}
  <2> HIDE DEF volume
  <2> QED BY <1>1, <1>2, <1>3, ExtremePoints
<1>11. best # {}
  <2> HIDE DEF surplus, best, most
  <2> QED BY <1>4, <1>5, <1>6, <1>10, ExtremePoints
<1>12. IsFiniteSet(best)
  <2>1. best \in SUBSET points
    BY <1>4, <1>7
  <2> HIDE DEF best
  <2> QED BY <1>1, <2>1, FS_Subset
<1>13. \A p \in most, q \in points :
        ExecutionAmount(B, A, price, amount, q) <= ExecutionAmount(B, A, price, amount, p)
  <2> HIDE DEF most, points
  <2> QED BY <1>4, <1>8
<1>14. \A p \in best, q \in most :
        AbsVal(Imbalance(B, A, price, amount, p)) <= AbsVal(Imbalance(B, A, price, amount, q))
  <2> HIDE DEF most, best
  <2> QED BY <1>7, <1>9
<1>15. best \subseteq Nat
  BY <1>1, <1>4, <1>7
<1> HIDE DEF points, most, best
<1> QED BY <1>4, <1>7, <1>11, <1>12, <1>13, <1>14, <1>15 DEF points, most, best

LEMMA SmallestNumber ==
  ASSUME NEW T \in SUBSET Nat, T # {}
  PROVE \E x \in T : \A y \in T : x <= y
<1> DEFINE G == {k \in Nat : (\E x \in T : x <= k) => \E x \in T : \A y \in T : x <= y}
<1>1. PICK t \in T : t \in Nat
  OBVIOUS
<1>2. 0 \in G
  OBVIOUS
<1>3. ASSUME NEW k \in 0..(t - 1), k \in G PROVE k + 1 \in G
  <2>1. SUFFICES ASSUME \A x \in T : ~(x <= k), NEW z \in T, z <= k + 1
                 PROVE \A y \in T : z <= y
    BY <1>3
  <2> QED BY <2>1
<1> HIDE DEF G
<1>4. t \in G
  BY <1>1, <1>2, <1>3, NatSetInduction
<1> QED BY <1>1, <1>4 DEF G

\* A finite set of numbers can be listed from the largest to the smallest.
LEMMA FallingList ==
  ASSUME NEW S \in SUBSET Nat, IsFiniteSet(S)
  PROVE \E list \in [1..Cardinality(S) -> S] :
          \A i, j \in 1..Cardinality(S) : i < j => list[i] > list[j]
<1> DEFINE n == Cardinality(S)
           Falls(list, k) == \A i, j \in 1..k : i < j => list[i] > list[j]
           G == {k \in 0..n : \A T \in SUBSET S :
                   Cardinality(T) = k => \E list \in [1..k -> T] : Falls(list, k)}
<1>1. n \in Nat
  BY FS_CardinalityType
<1> HIDE DEF n
<1>2. 0 \in G
  <2>1. SUFFICES ASSUME NEW T \in SUBSET S
                 PROVE \E list \in [1..0 -> T] : Falls(list, 0)
    BY <1>1
  <2>2. 1..0 = {}
    OBVIOUS
  <2>3. [i \in 1..0 |-> 0] \in [1..0 -> T] /\ Falls([i \in 1..0 |-> 0], 0)
    BY <2>2
  <2> QED BY <2>3
<1>3. ASSUME NEW k \in 0..(n - 1), k \in G PROVE k + 1 \in G
  <2>1. k \in Nat /\ k + 1 \in 0..n
    BY <1>1
  <2>2. SUFFICES ASSUME NEW T \in SUBSET S, Cardinality(T) = k + 1
                 PROVE \E list \in [1..(k + 1) -> T] : Falls(list, k + 1)
    BY <2>1
  <2>3. IsFiniteSet(T) /\ T \in SUBSET Nat
    BY FS_Subset
  <2>4. T # {}
    BY <2>1, <2>2, FS_EmptySet
  <2>5. PICK x \in T : \A y \in T : x <= y
    BY <2>3, <2>4, SmallestNumber
  <2>6. Cardinality(T \ {x}) = k
    <3>1. Cardinality(T \ {x}) = Cardinality(T) - 1
      BY <2>3, <2>5, FS_RemoveElement
    <3> QED BY <2>1, <2>2, <3>1
  <2>7. PICK list \in [1..k -> T \ {x}] : Falls(list, k)
    BY <1>3, <2>6
  <2> DEFINE longer == [i \in 1..(k + 1) |-> IF i = k + 1 THEN x ELSE list[i]]
  <2>8. /\ \A i \in 1..k : i \in 1..(k + 1) /\ i # k + 1
        /\ \A i \in 1..(k + 1) : i = k + 1 \/ i \in 1..k
    BY <2>1
  <2>9. longer \in [1..(k + 1) -> T]
    BY <2>8
  <2>10. \A i \in 1..k : list[i] \in Nat /\ x \in Nat /\ x < list[i]
    <3> SUFFICES ASSUME NEW i \in 1..k PROVE list[i] \in Nat /\ x \in Nat /\ x < list[i]
      OBVIOUS
    <3>1. list[i] \in T \ {x}
      BY <2>7
    <3>2. list[i] \in Nat /\ x \in Nat /\ x <= list[i] /\ list[i] # x
      BY <2>3, <2>5, <3>1
    <3> QED BY <3>2
  <2>11. Falls(longer, k + 1)
    <3> SUFFICES ASSUME NEW i \in 1..(k + 1), NEW j \in 1..(k + 1), i < j
                 PROVE longer[i] > longer[j]
      OBVIOUS
    <3>1. i \in 1..k /\ longer[i] = list[i]
      BY <2>1, <2>8
    <3>2. CASE j = k + 1
      BY <2>10, <3>1, <3>2
    <3>3. CASE j \in 1..k
      BY <2>7, <2>8, <3>1, <3>3
    <3> QED BY <2>8, <3>2, <3>3
  <2> QED BY <2>9, <2>11
<1> HIDE DEF G
<1>4. n \in G
  BY <1>1, <1>2, <1>3, NatSetInduction
<1> QED BY <1>4 DEF G, n

\* The list the tie rule looks at: every tied point once, and by falling price
\* when the sort is stable.
LEMMA TieOrderList ==
  ASSUME NEW best \in SUBSET Nat, IsFiniteSet(best), NEW most
  PROVE /\ TieOrder(best, most) \in [1..Cardinality(best) -> best]
        /\ best = {TieOrder(best, most)[i] : i \in 1..Cardinality(best)}
        /\ Cardinality(most) <= StableLength =>
             \A i, j \in 1..Cardinality(best) :
               i < j => TieOrder(best, most)[i] > TieOrder(best, most)[j]
<1> DEFINE n == Cardinality(best)
           list == TieOrder(best, most)
           Right(q) == \A i, j \in DOMAIN q :
                         i < j => /\ q[i] # q[j]
                                  /\ Cardinality(most) <= StableLength => q[i] > q[j]
<1>1. n \in Nat /\ IsFiniteSet(1..n) /\ Cardinality(1..n) = n
  <2>1. n \in Nat
    BY FS_CardinalityType
  <2> QED BY <2>1, FS_Interval
<1>2. \E q \in [1..n -> best] : Right(q)
  <2>1. PICK q \in [1..n -> best] : \A i, j \in 1..n : i < j => q[i] > q[j]
    BY FallingList
  <2>2. \A i \in 1..n : q[i] \in Nat
    OBVIOUS
  <2>3. \A i, j \in 1..n : i < j => q[i] # q[j]
    BY <2>1, <2>2
  <2> QED BY <2>1, <2>3
<1>3. list = CHOOSE q \in [1..n -> best] : Right(q)
  BY DEF TieOrder
<1> HIDE DEF n, list
<1>4. list \in [1..n -> best] /\ Right(list)
  <2> HIDE DEF Right
  <2> QED BY <1>2, <1>3
<1>5. \A i, j \in 1..n : list[i] = list[j] => i = j
  <2> SUFFICES ASSUME NEW i \in 1..n, NEW j \in 1..n, list[i] = list[j], i # j PROVE FALSE
    OBVIOUS
  <2>1. i < j \/ j < i
    BY <1>1
  <2> QED BY <1>4, <2>1
<1>6. list \in Injection(1..n, best)
  BY <1>4, <1>5 DEF Injection, IsInjective
<1>7. list \in Surjection(1..n, best)
  BY <1>1, <1>6, FS_Injection DEF n
<1>8. best = {list[i] : i \in 1..n}
  BY <1>4, <1>7 DEF Surjection
<1> QED BY <1>4, <1>8 DEF list, n

\* The engine's price is a best point or lies between two of them, in whatever
\* order the sort left these.
LEMMA ChosenPrice ==
  ASSUME NEW B, NEW A, NEW price, NEW amount, IsBook(B, A, price, amount), B \cup A # {},
         NEW high \in Int, NEW mid \in Int, NEW low \in Int
  PROVE \E lo, hi \in BestPricePoints(B, A, price, amount) :
          GetExecutionPrice(B, A, price, amount, high, mid, low) \in lo..hi
<1> DEFINE best == BestPricePoints(B, A, price, amount)
           most == MostTraded(B, A, price, amount)
           list == TieOrder(best, most)
           n == Cardinality(best)
           imbalance == [p \in best |-> Imbalance(B, A, price, amount, p)]
           chosen == GetExecutionPrice(B, A, price, amount, high, mid, low)
<1>1. best \subseteq Nat /\ best # {} /\ IsFiniteSet(best)
  BY BestPoints
<1>2. n \in Nat \ {0}
  BY <1>1, FS_CardinalityType, FS_EmptySet
<1>3. CASE n = 1
  <2>1. chosen \in best
    BY <1>1, <1>3 DEF GetExecutionPrice
  <2>2. chosen \in chosen..chosen
    BY <1>1, <2>1
  <2> QED BY <2>1, <2>2
<1>4. CASE n # 1
  <2>1. chosen = PriceWithRef(list, imbalance, high, mid, low)
    BY <1>4 DEF GetExecutionPrice
  <2>2. list \in [1..n -> best]
    BY <1>1, TieOrderList
  <2> HIDE DEF list, n, best, imbalance, chosen
  <2>3. DOMAIN list = 1..n /\ Len(list) = n
    BY <1>2, <2>2
  <2>4. /\ 1 \in 1..n /\ n \in 1..n /\ (n \div 2) + 1 \in 1..n
    BY <1>2, <1>4
  <2>5. /\ list[1] \in best /\ list[n] \in best /\ list[(n \div 2) + 1] \in best
    BY <2>2, <2>4
  <2>6. list[1] \in Int /\ list[n] \in Int /\ list[(n \div 2) + 1] \in Int
    <3>1. \A q \in best : q \in Int
      BY <1>1
    <3> QED BY <2>5, <3>1
  <2> DEFINE Clamp(ref) == IF list[1] < ref THEN list[1]
                           ELSE IF list[n] > ref THEN list[n] ELSE ref
  <2>7. \A ref \in Int : \E lo, hi \in best : Clamp(ref) \in lo..hi
    <3> SUFFICES ASSUME NEW ref \in Int PROVE \E lo, hi \in best : Clamp(ref) \in lo..hi
      OBVIOUS
    <3>1. CASE list[1] < ref
      <4>1. Clamp(ref) \in list[1]..list[1]
        BY <2>6, <3>1
      <4> QED BY <2>5, <4>1
    <3>2. CASE ~(list[1] < ref) /\ list[n] > ref
      <4>1. Clamp(ref) \in list[n]..list[n]
        BY <2>6, <3>2
      <4> QED BY <2>5, <4>1
    <3>3. CASE ~(list[1] < ref) /\ ~(list[n] > ref)
      <4>1. Clamp(ref) \in list[n]..list[1]
        BY <2>6, <3>3
      <4> QED BY <2>5, <4>1
    <3> QED BY <3>1, <3>2, <3>3
  <2>8. \/ chosen = list[(n \div 2) + 1]
        \/ chosen = Clamp(high) \/ chosen = Clamp(low) \/ chosen = Clamp(mid)
    BY <2>1, <2>3 DEF PriceWithRef
  <2>9. list[(n \div 2) + 1] \in list[(n \div 2) + 1]..list[(n \div 2) + 1]
    BY <2>6
  <2> HIDE DEF Clamp
  <2> QED BY <2>5, <2>7, <2>8, <2>9 DEF chosen, best
<1> QED BY <1>3, <1>4

\* No price, be it a point or not, moves more stock than the best points do.
LEMMA VolumeElsewhere ==
  ASSUME NEW B, NEW A, NEW price, NEW amount, IsBook(B, A, price, amount), B \cup A # {},
         NEW p \in Int, NEW best \in MostTraded(B, A, price, amount)
  PROVE ExecutionAmount(B, A, price, amount, p) <= ExecutionAmount(B, A, price, amount, best)
<1> DEFINE S == {o \in B : price[o] >= p}
           f == [o \in S |-> -price[o]]
<1>1. MaxOrders \in Nat
  BY EngineAssumption
<1>2. best \in Int
  BY BestPoints, PointsFinite
<1>3. ExecutionAmount(B, A, price, amount, best) \in Nat
  BY <1>2, AccumulatedType
<1>4. CASE S = {}
  <2>1. \A o \in 1..MaxOrders : BidPart(B, price, amount, p)[o] = 0
    BY <1>4 DEF BidPart
  <2>2. AccumulatedBid(B, price, amount, p) = 0
    BY <1>1, <2>1, SumOfZeros DEF AccumulatedBid, BidPart
  <2>3. ExecutionAmount(B, A, price, amount, p) <= 0
    BY <2>2, AccumulatedType DEF ExecutionAmount
  <2>4. ExecutionAmount(B, A, price, amount, p) \in Nat
    BY AccumulatedType
  <2> QED BY <1>3, <2>3, <2>4
<1>5. CASE S # {}
  <2>1. S \in SUBSET (1..MaxOrders) /\ \A o \in S : price[o] \in Nat /\ f[o] \in Int
    <3>1. \A o \in B : o \in 1..MaxOrders /\ price[o] \in Nat
      BY DEF IsBook
    <3>2. \A o \in S : o \in 1..MaxOrders /\ price[o] \in Nat /\ f[o] = -price[o]
      BY <3>1
    <3>3. S \subseteq 1..MaxOrders
      BY <3>2
    <3>4. \A o \in S : f[o] \in Int
      BY <3>2
    <3> QED BY <3>2, <3>3, <3>4
  <2>2. PICK o \in S : \A r \in S : f[r] <= f[o]
    BY <1>5, <2>1, LargestOf
  <2> DEFINE q == price[o]
  <2>3. o \in B /\ q \in Nat /\ p <= q /\ q \in PricePoints(B, A, price)
    BY <2>1 DEF PricePoints
  <2>4. \A r \in B : price[r] >= p <=> price[r] >= q
    <3> SUFFICES ASSUME NEW r \in B PROVE price[r] >= p <=> price[r] >= q
      OBVIOUS
    <3>1. price[r] \in Nat
      BY DEF IsBook
    <3>2. price[r] >= p => r \in S /\ -price[r] <= -price[o]
      BY <2>2
    <3> QED BY <2>3, <3>1, <3>2
  <2> HIDE DEF q
  <2>5. BidPart(B, price, amount, q) = BidPart(B, price, amount, p)
    BY <2>4 DEF BidPart
  <2>6. AccumulatedBid(B, price, amount, q) = AccumulatedBid(B, price, amount, p)
    BY <2>5 DEF AccumulatedBid, BidPart
  <2>7. AccumulatedAsk(A, price, amount, p) <= AccumulatedAsk(A, price, amount, q)
    BY <2>3, AccumulatedMonotone
  <2>8. /\ AccumulatedBid(B, price, amount, p) \in Nat
        /\ AccumulatedAsk(A, price, amount, p) \in Nat
        /\ AccumulatedAsk(A, price, amount, q) \in Nat
    BY <2>3, AccumulatedType
  <2>9. ExecutionAmount(B, A, price, amount, p) <= ExecutionAmount(B, A, price, amount, q)
    BY <2>6, <2>7, <2>8 DEF ExecutionAmount
  <2>10. ExecutionAmount(B, A, price, amount, q) <= ExecutionAmount(B, A, price, amount, best)
    BY <2>3, BestPoints
  <2>11. /\ ExecutionAmount(B, A, price, amount, p) \in Nat
         /\ ExecutionAmount(B, A, price, amount, q) \in Nat
    BY <2>3, AccumulatedType
  <2> QED BY <1>3, <2>9, <2>10, <2>11
<1> QED BY <1>4, <1>5

\* Nor than the price the engine chooses, even when that is no order's price.
LEMMA VolumeMaximal ==
  ASSUME NEW B, NEW A, NEW price, NEW amount, IsBook(B, A, price, amount), B \cup A # {},
         NEW high \in Int, NEW mid \in Int, NEW low \in Int, NEW p \in Int,
         NEW chosen, chosen = GetExecutionPrice(B, A, price, amount, high, mid, low)
  PROVE /\ chosen \in Nat
        /\ ExecutionAmount(B, A, price, amount, p) <= ExecutionAmount(B, A, price, amount, chosen)
<1> DEFINE V(q) == ExecutionAmount(B, A, price, amount, q)
<1>1. PICK lo, hi \in BestPricePoints(B, A, price, amount) : chosen \in lo..hi
  BY ChosenPrice
<1>2. /\ lo \in Nat /\ hi \in Nat
      /\ lo \in MostTraded(B, A, price, amount) /\ hi \in MostTraded(B, A, price, amount)
  BY BestPoints
<1>3. chosen \in Nat /\ lo <= chosen /\ chosen <= hi
  BY <1>1, <1>2
<1>4. V(p) <= V(lo) /\ V(p) <= V(hi)
  BY <1>2, VolumeElsewhere
<1>5. /\ AccumulatedBid(B, price, amount, hi) <= AccumulatedBid(B, price, amount, chosen)
      /\ AccumulatedAsk(A, price, amount, lo) <= AccumulatedAsk(A, price, amount, chosen)
  BY <1>2, <1>3, AccumulatedMonotone
<1>6. \A q \in {lo, hi, chosen, p} : /\ AccumulatedBid(B, price, amount, q) \in Nat
                                      /\ AccumulatedAsk(A, price, amount, q) \in Nat
                                      /\ V(q) \in Nat
  BY <1>2, <1>3, AccumulatedType
<1>7. /\ V(hi) <= AccumulatedBid(B, price, amount, hi)
      /\ V(lo) <= AccumulatedAsk(A, price, amount, lo)
      /\ \/ V(chosen) = AccumulatedBid(B, price, amount, chosen)
         \/ V(chosen) = AccumulatedAsk(A, price, amount, chosen)
  BY <1>6 DEF ExecutionAmount
<1> HIDE DEF V
<1>8. V(p) <= V(chosen)
  BY <1>4, <1>5, <1>6, <1>7
<1> QED BY <1>3, <1>8 DEF V

\* Where something can be traded there is a bid and an ask that accept the price.
LEMMA VolumeAccepted ==
  ASSUME NEW B, NEW A, NEW price, NEW amount, IsBook(B, A, price, amount), NEW p \in Int
  PROVE /\ ExecutionAmount(B, A, price, amount, p) > 0 =>
             /\ \E b \in B : p <= price[b] /\ amount[b] > 0
             /\ \E a \in A : price[a] <= p /\ amount[a] > 0
        /\ \A b \in B, a \in A :
             price[a] <= p /\ p <= price[b] /\ amount[a] > 0 /\ amount[b] > 0 =>
               ExecutionAmount(B, A, price, amount, p) > 0
<1> DEFINE bids == BidPart(B, price, amount, p)
           asks == AskPart(A, price, amount, p)
<1>1. MaxOrders \in Nat /\ \A o \in 1..MaxOrders : bids[o] \in Nat /\ asks[o] \in Nat
  BY EngineAssumption, PartsType
<1>2. /\ AccumulatedBid(B, price, amount, p) = SumTo(bids, MaxOrders)
      /\ AccumulatedAsk(A, price, amount, p) = SumTo(asks, MaxOrders)
  BY DEF AccumulatedBid, AccumulatedAsk, BidPart, AskPart
<1>3. /\ \A o \in B : o \in 1..MaxOrders /\ (p <= price[o] => bids[o] = amount[o])
      /\ \A o \in A : o \in 1..MaxOrders /\ (price[o] <= p => asks[o] = amount[o])
      /\ \A o \in B \cup A : price[o] \in Nat /\ amount[o] \in Nat
  BY DEF IsBook, BidPart, AskPart
<1>4. /\ \A o \in 1..MaxOrders : bids[o] # 0 => o \in B /\ p <= price[o] /\ amount[o] # 0
      /\ \A o \in 1..MaxOrders : asks[o] # 0 => o \in A /\ price[o] <= p /\ amount[o] # 0
  BY DEF IsBook, BidPart, AskPart
<1> HIDE DEF bids, asks
<1>5. SumTo(bids, MaxOrders) \in Nat /\ SumTo(asks, MaxOrders) \in Nat
  BY <1>1, SumNat
<1>6. ASSUME ExecutionAmount(B, A, price, amount, p) > 0
      PROVE /\ \E b \in B : p <= price[b] /\ amount[b] > 0
            /\ \E a \in A : price[a] <= p /\ amount[a] > 0
  <2>1. SumTo(bids, MaxOrders) # 0 /\ SumTo(asks, MaxOrders) # 0
    BY <1>2, <1>5, <1>6 DEF ExecutionAmount
  <2>2. PICK b \in 1..MaxOrders : bids[b] # 0
    BY <1>1, <2>1, SumOfZeros
  <2>3. PICK a \in 1..MaxOrders : asks[a] # 0
    BY <1>1, <2>1, SumOfZeros
  <2>4. b \in B /\ p <= price[b] /\ amount[b] # 0 /\ a \in A /\ price[a] <= p /\ amount[a] # 0
    BY <1>4, <2>2, <2>3
  <2> QED BY <1>3, <2>4
<1>7. ASSUME NEW b \in B, NEW a \in A, price[a] <= p, p <= price[b], amount[a] > 0, amount[b] > 0
      PROVE ExecutionAmount(B, A, price, amount, p) > 0
  <2>1. bids[b] = amount[b] /\ asks[a] = amount[a] /\ b \in 1..MaxOrders /\ a \in 1..MaxOrders
    BY <1>3, <1>7
  <2>2. bids[b] <= SumTo(bids, MaxOrders) /\ asks[a] <= SumTo(asks, MaxOrders)
    BY <1>1, <2>1, SumBoundsTerm
  <2>3. amount[b] \in Nat /\ amount[a] \in Nat
    BY <1>3
  <2> QED BY <1>2, <1>5, <1>7, <2>1, <2>2, <2>3 DEF ExecutionAmount
<1> QED BY <1>6, <1>7

\* A price that no price beats stays so when the best bid b and the best ask a,
\* which both accept it, deal n with each other: next is what each order has left.
LEMMA BestAfterDeal ==
  ASSUME NEW B, NEW A, NEW price, NEW amount, IsBook(B, A, price, amount),
         NEW C \in SUBSET B, NEW E \in SUBSET A, NEW limit, NEW next,
         IsBook(C, E, limit, next), B \cap A = {},
         NEW b \in B, NEW a \in A, NEW n \in Nat, NEW best \in Nat,
         \A o \in B : price[o] <= price[b], \A o \in A : price[a] <= price[o],
         best <= price[b], price[a] <= best,
         \A o \in C \cup E : limit[o] = price[o],
         \A o \in C : o # b => next[o] = amount[o],
         \A o \in E : o # a => next[o] = amount[o],
         IF b \in C THEN next[b] + n = amount[b] ELSE n = amount[b],
         IF a \in E THEN next[a] + n = amount[a] ELSE n = amount[a],
         B \ C \subseteq {b}, A \ E \subseteq {a},
         \A p \in Nat : ExecutionAmount(B, A, price, amount, p)
                          <= ExecutionAmount(B, A, price, amount, best),
         NEW p \in Nat
  PROVE ExecutionAmount(C, E, limit, next, p) <= ExecutionAmount(C, E, limit, next, best)
<1>1. MaxOrders \in Nat /\ b \in 1..MaxOrders /\ a \in 1..MaxOrders
      /\ price[b] \in Nat /\ price[a] \in Nat
  BY EngineAssumption DEF IsBook
<1>2. ASSUME NEW q \in Nat
      PROVE /\ AccumulatedBid(C, limit, next, q)
                 = AccumulatedBid(B, price, amount, q) - (IF price[b] >= q THEN n ELSE 0)
            /\ AccumulatedAsk(E, limit, next, q)
                 = AccumulatedAsk(A, price, amount, q) - (IF price[a] <= q THEN n ELSE 0)
  <2> DEFINE f == BidPart(B, price, amount, q)
             g == BidPart(C, limit, next, q)
             h == AskPart(A, price, amount, q)
             k == AskPart(E, limit, next, q)
  <2>1. \A o \in 1..MaxOrders : /\ f[o] \in Nat /\ g[o] \in Nat /\ h[o] \in Nat /\ k[o] \in Nat
    BY <1>2, PartsType
  <2>2. \A o \in (1..MaxOrders) \ {b} : g[o] = f[o]
    BY DEF BidPart
  <2>3. \A o \in (1..MaxOrders) \ {a} : k[o] = h[o]
    BY DEF AskPart
  <2>4. g[b] = f[b] - (IF price[b] >= q THEN n ELSE 0)
    <3>1. f[b] = IF price[b] >= q THEN amount[b] ELSE 0
      BY <1>1 DEF BidPart
    <3>2. b \in C => g[b] = IF price[b] >= q THEN next[b] ELSE 0
      BY <1>1 DEF BidPart
    <3>3. b \notin C => g[b] = 0
      BY <1>1 DEF BidPart
    <3>4. amount[b] \in Nat /\ (b \in C => next[b] \in Nat)
      BY DEF IsBook
    <3> HIDE DEF f, g
    <3> QED BY <3>1, <3>2, <3>3, <3>4
  <2>5. k[a] = h[a] - (IF price[a] <= q THEN n ELSE 0)
    <3>1. h[a] = IF price[a] <= q THEN amount[a] ELSE 0
      BY <1>1 DEF AskPart
    <3>2. a \in E => k[a] = IF price[a] <= q THEN next[a] ELSE 0
      BY <1>1 DEF AskPart
    <3>3. a \notin E => k[a] = 0
      BY <1>1 DEF AskPart
    <3>4. amount[a] \in Nat /\ (a \in E => next[a] \in Nat)
      BY DEF IsBook
    <3> HIDE DEF h, k
    <3> QED BY <3>1, <3>2, <3>3, <3>4
  <2>6. /\ AccumulatedBid(B, price, amount, q) = SumTo(f, MaxOrders)
        /\ AccumulatedBid(C, limit, next, q) = SumTo(g, MaxOrders)
        /\ AccumulatedAsk(A, price, amount, q) = SumTo(h, MaxOrders)
        /\ AccumulatedAsk(E, limit, next, q) = SumTo(k, MaxOrders)
    BY DEF AccumulatedBid, AccumulatedAsk, BidPart, AskPart
  <2> HIDE DEF f, g, h, k
  <2>7. \A o \in 1..MaxOrders : /\ f[o] \in Int /\ g[o] \in Int /\ h[o] \in Int /\ k[o] \in Int
    BY <2>1
  <2>8. SumTo(g, MaxOrders) = SumTo(f, MaxOrders) + g[b] - f[b]
    BY <1>1, <2>2, <2>7, SumUpdate
  <2>9. SumTo(k, MaxOrders) = SumTo(h, MaxOrders) + k[a] - h[a]
    <3>1. /\ a \in 1..MaxOrders /\ k[a] \in Int /\ \A o \in 1..MaxOrders : h[o] \in Int
          /\ \A o \in (1..MaxOrders) \ {a} : k[o] = h[o]
      BY <1>1, <2>3, <2>7
    <3> QED BY ONLY MaxOrders \in Nat, <1>1, <3>1, SumUpdate, SMTT(30)
  <2>10. /\ SumTo(f, MaxOrders) \in Int /\ SumTo(h, MaxOrders) \in Int
         /\ f[b] \in Int /\ g[b] \in Int /\ h[a] \in Int /\ k[a] \in Int
    BY <1>1, <2>7, SumInt
  <2>11. SumTo(g, MaxOrders) = SumTo(f, MaxOrders) - (IF price[b] >= q THEN n ELSE 0)
    BY <2>4, <2>8, <2>10
  <2>12. SumTo(k, MaxOrders) = SumTo(h, MaxOrders) - (IF price[a] <= q THEN n ELSE 0)
    BY <2>5, <2>9, <2>10
  <2> QED BY <2>6, <2>11, <2>12
<1> DEFINE V(q) == ExecutionAmount(B, A, price, amount, q)
           W(q) == ExecutionAmount(C, E, limit, next, q)
<1>3. \A q \in Nat : /\ V(q) \in Nat /\ W(q) \in Nat
                     /\ AccumulatedBid(B, price, amount, q) \in Nat
                     /\ AccumulatedAsk(A, price, amount, q) \in Nat
                     /\ AccumulatedBid(C, limit, next, q) \in Nat
                     /\ AccumulatedAsk(E, limit, next, q) \in Nat
  BY AccumulatedType
<1>4. ASSUME NEW q \in Nat, price[a] <= q, q <= price[b] PROVE W(q) = V(q) - n
  <2>1. /\ AccumulatedBid(C, limit, next, q) = AccumulatedBid(B, price, amount, q) - n
        /\ AccumulatedAsk(E, limit, next, q) = AccumulatedAsk(A, price, amount, q) - n
    BY <1>1, <1>2, <1>4
  <2> QED BY <1>3, <2>1 DEF ExecutionAmount
<1>5. ASSUME NEW q \in Nat, q > price[b] \/ q < price[a] PROVE W(q) = 0
  <2>1. CASE q > price[b]
    <3>1. \A o \in 1..MaxOrders : BidPart(C, limit, next, q)[o] = 0
      <4>1. \A o \in C : limit[o] \in Nat /\ limit[o] < q
        BY <1>1, <2>1 DEF IsBook
      <4> QED BY <4>1 DEF BidPart
    <3>2. AccumulatedBid(C, limit, next, q) = 0
      BY <1>1, <3>1, SumOfZeros DEF AccumulatedBid, BidPart
    <3> QED BY <1>3, <3>2 DEF ExecutionAmount
  <2>2. CASE q < price[a]
    <3>1. \A o \in 1..MaxOrders : AskPart(E, limit, next, q)[o] = 0
      <4>1. \A o \in E : limit[o] \in Nat /\ q < limit[o]
        BY <1>1, <2>2 DEF IsBook
      <4> QED BY <4>1 DEF AskPart
    <3>2. AccumulatedAsk(E, limit, next, q) = 0
      BY <1>1, <3>1, SumOfZeros DEF AccumulatedAsk, AskPart
    <3> QED BY <1>3, <3>2 DEF ExecutionAmount
  <2> QED BY <1>5, <2>1, <2>2
<1>6. W(best) = V(best) - n /\ W(best) \in Nat
  BY <1>3, <1>4
<1>7. V(p) <= V(best) /\ V(p) \in Nat /\ V(best) \in Nat
  BY <1>3
<1> HIDE DEF V, W
<1>8. CASE price[a] <= p /\ p <= price[b]
  <2>1. W(p) = V(p) - n
    BY <1>4, <1>8
  <2>2. W(p) <= W(best)
    BY <1>6, <1>7, <2>1
  <2> QED BY <2>2 DEF W
<1>9. CASE p > price[b] \/ p < price[a]
  <2>1. W(p) = 0
    BY <1>5, <1>9
  <2>2. W(p) <= W(best)
    BY <1>6, <2>1
  <2> QED BY <2>2 DEF W
<1> QED BY <1>1, <1>8, <1>9

\* Points between which neither list has an order are at most two.
LEMMA FewElements ==
  ASSUME NEW S, IsFiniteSet(S), \A x, y, z \in S : x = y \/ y = z \/ x = z
  PROVE Cardinality(S) <= 2
<1>1. CASE S = {}
  BY <1>1, FS_EmptySet
<1>2. CASE S # {}
  <2>1. PICK x \in S : TRUE
    BY <1>2
  <2>2. CASE S = {x}
    BY <2>2, FS_Singleton
  <2>3. CASE S # {x}
    <3>1. PICK y \in S : y # x
      BY <2>1, <2>3
    <3>2. S = {x} \cup {y}
      BY <2>1, <3>1
    <3>3. IsFiniteSet({x}) /\ Cardinality({x}) = 1
      BY FS_Singleton
    <3>4. Cardinality({x} \cup {y}) = 2
      BY <3>1, <3>3, FS_AddElement
    <3> QED BY <3>2, <3>4
  <2> QED BY <2>2, <2>3
<1> QED BY <1>1, <1>2

\* Of three points with the same surplus, of the same sign, none can be between
\* the others: it would be the price of an order that tells them apart.
LEMMA FewPoints ==
  ASSUME NEW B, NEW A, NEW price, NEW amount, IsBook(B, A, price, amount), B \cup A # {},
         \A o \in B \cup A : amount[o] > 0
  PROVE Cardinality(BestPricePoints(B, A, price, amount)) <= 4
<1> DEFINE best == BestPricePoints(B, A, price, amount)
           Bid(p) == AccumulatedBid(B, price, amount, p)
           Ask(p) == AccumulatedAsk(A, price, amount, p)
           over == {p \in best : Bid(p) >= Ask(p)}
           under == {p \in best : Bid(p) < Ask(p)}
<1>1. /\ best \subseteq Nat /\ IsFiniteSet(best)
      /\ best \subseteq PricePoints(B, A, price)
      /\ \A p, q \in best : /\ ExecutionAmount(B, A, price, amount, p)
                                 = ExecutionAmount(B, A, price, amount, q)
                            /\ AbsVal(Imbalance(B, A, price, amount, p))
                                 = AbsVal(Imbalance(B, A, price, amount, q))
  <2>1. \A p \in best : p \in Nat /\ ExecutionAmount(B, A, price, amount, p) \in Nat
                        /\ Imbalance(B, A, price, amount, p) \in Int
    BY BestPoints, AccumulatedType
  <2>2. \A i \in Int : AbsVal(i) \in Int
    BY DEF AbsVal
  <2>3. \A p \in best : AbsVal(Imbalance(B, A, price, amount, p)) \in Int
    BY <2>1, <2>2
  <2>4. \A p, q \in best : /\ ExecutionAmount(B, A, price, amount, q)
                                <= ExecutionAmount(B, A, price, amount, p)
                           /\ AbsVal(Imbalance(B, A, price, amount, p))
                                <= AbsVal(Imbalance(B, A, price, amount, q))
    BY BestPoints
  <2> HIDE DEF best
  <2>5. \A p, q \in best : /\ ExecutionAmount(B, A, price, amount, p)
                                 = ExecutionAmount(B, A, price, amount, q)
                           /\ AbsVal(Imbalance(B, A, price, amount, p))
                                 = AbsVal(Imbalance(B, A, price, amount, q))
    BY <2>1, <2>3, <2>4
  <2> QED BY <2>5, BestPoints DEF best
<1>2. \A p \in best : Bid(p) \in Nat /\ Ask(p) \in Nat
  BY <1>1, AccumulatedType
<1> HIDE DEF best
<1>3. \A p, q \in over : Bid(p) = Bid(q) /\ Ask(p) = Ask(q)
  BY <1>1, <1>2 DEF ExecutionAmount, Imbalance, AbsVal
<1>4. \A p, q \in under : Bid(p) = Bid(q) /\ Ask(p) = Ask(q)
  BY <1>1, <1>2 DEF ExecutionAmount, Imbalance, AbsVal
\* two points with the same demand and supply have no order strictly between
<1>5. ASSUME NEW p \in best, NEW q \in best, NEW r \in best, p < q, q < r,
             Bid(p) = Bid(r), Ask(p) = Ask(r)
      PROVE FALSE
  <2>1. p \in Nat /\ q \in Nat /\ r \in Nat
    BY <1>1
  <2>2. PICK o \in B \cup A : price[o] = q
    BY <1>1 DEF PricePoints
  <2>3. amount[o] \in Nat \ {0} /\ MaxOrders \in Nat /\ o \in 1..MaxOrders
    BY EngineAssumption DEF IsBook
  <2>4. CASE o \in B
    <3> DEFINE f == BidPart(B, price, amount, q)
               g == BidPart(B, price, amount, r)
    <3>1. \A i \in 1..MaxOrders : f[i] \in Nat /\ g[i] \in Nat /\ f[i] \in Int /\ g[i] \in Int
      BY <2>1, PartsType
    <3>2. f[o] = amount[o] /\ g[o] = 0
      BY <1>5, <2>1, <2>2, <2>3, <2>4 DEF BidPart
    <3>3. \A i \in 1..MaxOrders : g[i] <= f[i]
      BY <1>5, <2>1 DEF BidPart, IsBook
    <3>4. SumTo(f, MaxOrders) = Bid(q) /\ SumTo(g, MaxOrders) = Bid(r)
      BY DEF AccumulatedBid, BidPart
    <3> HIDE DEF f, g
    <3>5. SumTo(g, MaxOrders) < SumTo(f, MaxOrders)
      BY <2>3, <3>1, <3>2, <3>3, SumStrict
    <3>6. Bid(q) <= Bid(p)
      BY <1>5, <2>1, AccumulatedMonotone
    <3>7. Bid(r) < Bid(q)
      BY <3>4, <3>5
    <3> HIDE DEF Bid, Ask
    <3> QED BY <1>2, <1>5, <3>6, <3>7
  <2>5. CASE o \in A
    <3> DEFINE f == AskPart(A, price, amount, q)
               g == AskPart(A, price, amount, p)
    <3>1. \A i \in 1..MaxOrders : f[i] \in Nat /\ g[i] \in Nat /\ f[i] \in Int /\ g[i] \in Int
      BY <2>1, PartsType
    <3>2. f[o] = amount[o] /\ g[o] = 0
      BY <1>5, <2>1, <2>2, <2>3, <2>5 DEF AskPart
    <3>3. \A i \in 1..MaxOrders : g[i] <= f[i]
      BY <1>5, <2>1 DEF AskPart, IsBook
    <3>4. SumTo(f, MaxOrders) = Ask(q) /\ SumTo(g, MaxOrders) = Ask(p)
      BY DEF AccumulatedAsk, AskPart
    <3> HIDE DEF f, g
    <3>5. SumTo(g, MaxOrders) < SumTo(f, MaxOrders)
      BY <2>3, <3>1, <3>2, <3>3, SumStrict
    <3>6. Ask(q) <= Ask(r)
      BY <1>5, <2>1, AccumulatedMonotone
    <3>7. Ask(p) < Ask(q)
      BY <3>4, <3>5
    <3> HIDE DEF Bid, Ask
    <3> QED BY <1>2, <1>5, <3>6, <3>7
  <2> QED BY <2>2, <2>4, <2>5
<1> HIDE DEF Bid, Ask
<1>6. \A S \in {over, under} : \A x, y, z \in S : x = y \/ y = z \/ x = z
  <2> SUFFICES ASSUME NEW S \in {over, under}, NEW x \in S, NEW y \in S, NEW z \in S,
                      x # y, y # z, x # z
               PROVE FALSE
    OBVIOUS
  <2>1. /\ x \in best /\ y \in best /\ z \in best
        /\ x \in Nat /\ y \in Nat /\ z \in Nat
    BY <1>1
  <2>2. \A u, v \in {x, y, z} : Bid(u) = Bid(v) /\ Ask(u) = Ask(v)
    BY <1>3, <1>4
  <2>3. \/ (x < y /\ y < z) \/ (x < z /\ z < y) \/ (y < x /\ x < z)
        \/ (y < z /\ z < x) \/ (z < x /\ x < y) \/ (z < y /\ y < x)
    BY <2>1
  <2> QED BY <1>5, <2>1, <2>2, <2>3
<1>7. IsFiniteSet(over) /\ IsFiniteSet(under) /\ over \cup under = best
  <2>1. over \in SUBSET best /\ under \in SUBSET best
    OBVIOUS
  <2>2. \A p \in best : Bid(p) >= Ask(p) \/ Bid(p) < Ask(p)
    BY <1>2
  <2>3. over \cup under = best
    BY <2>2
  <2> QED BY <1>1, <2>1, <2>3, FS_Subset
<1> HIDE DEF over, under
<1>8. Cardinality(over) <= 2 /\ Cardinality(under) <= 2
  BY <1>6, <1>7, FewElements
<1>9. /\ Cardinality(over) \in Nat /\ Cardinality(under) \in Nat
      /\ Cardinality(over \cap under) \in Nat
      /\ Cardinality(over \cup under)
           = Cardinality(over) + Cardinality(under) - Cardinality(over \cap under)
  BY <1>7, FS_Union, FS_Intersection, FS_CardinalityType
<1>10. Cardinality(over \cup under) <= 4
  BY <1>8, <1>9
<1> QED BY <1>7, <1>10 DEF best
=============================================================================
