---------------------------- MODULE AuctionProofs ----------------------------
(***************************************************************************)
(* The rule of the call auction, for any number of orders, any prices and  *)
(* amounts, any last price and any order the sort leaves ties in.          *)
(***************************************************************************)
EXTENDS Auction, EngineLemmas

\* What is left of an order and the last price are natural numbers.
TypeInv == book \in [1..MaxOrders -> Nat] /\ last \in Nat

LEMMA TypeAlwaysHolds == Spec => []TypeInv
<1>1. Init => TypeInv
  BY AuctionAssumption DEF Init, TypeInv
<1>2. TypeInv /\ [Next]_vars => TypeInv'
  BY DEF TypeInv, Next, AddUnit, Full, vars
<1> QED BY <1>1, <1>2, PTL DEF Spec

\* The book of a reachable state, as the lemmas about the engine take it.
LEMMA BookFacts ==
  ASSUME TypeInv
  PROVE /\ IsBook(BidOrders, AskOrders, LimitOf, book)
        /\ BidOrders \cup AskOrders = InBook /\ BidOrders \cap AskOrders = {}
        /\ \A o \in BidOrders \cup AskOrders : book[o] > 0 /\ book[o] \in Nat /\ LimitOf[o] \in Nat
        /\ High \in Int /\ Low \in Int /\ last \in Int
        /\ PricePoints(BidOrders, AskOrders, LimitOf) = {LimitOf[i] : i \in InBook}
<1>1. \A o \in 1..MaxOrders : book[o] \in Nat /\ LimitOf[o] \in Nat
  BY AuctionAssumption DEF TypeInv
<1>2. /\ BidOrders \cup AskOrders = InBook /\ BidOrders \cap AskOrders = {}
      /\ InBook \subseteq 1..MaxOrders /\ \A o \in InBook : book[o] > 0
  BY AuctionAssumption DEF BidOrders, AskOrders, InBook
<1>3. IsBook(BidOrders, AskOrders, LimitOf, book)
  BY <1>1, <1>2 DEF IsBook
<1>4. High \in Int /\ Low \in Int /\ last \in Int
  BY AuctionAssumption DEF High, Low, TypeInv
<1> QED BY <1>1, <1>2, <1>3, <1>4 DEF PricePoints

\* When orders cross, the engine's price is a number that moves some stock, and
\* no price moves more.
LEMMA CrossingPrice ==
  ASSUME TypeInv, Crosses
  PROVE /\ Price \in Nat
        /\ BidOrders \cup AskOrders # {}
        /\ \A p \in Int : Volume(p) <= Volume(Price) /\ Volume(p) \in Nat
        /\ Volume(Price) > 0
<1>1. PICK b \in BidOrders, a \in AskOrders : LimitOf[a] <= LimitOf[b]
  BY DEF Crosses
<1>2. BidOrders \cup AskOrders # {}
  BY <1>1
<1>3. Price \in Nat /\ \A p \in Int : Volume(p) <= Volume(Price)
  BY <1>2, BookFacts, VolumeMaximal DEF Price, Volume
<1>4. \A p \in Int : Volume(p) \in Nat
  BY BookFacts, AccumulatedType DEF Volume
<1>5. Volume(LimitOf[b]) > 0 /\ LimitOf[b] \in Int
  <2>1. book[a] > 0 /\ book[b] > 0 /\ LimitOf[b] \in Nat /\ LimitOf[a] \in Nat
    BY <1>1, BookFacts
  <2> QED BY <1>1, <2>1, BookFacts, VolumeAccepted DEF Volume
<1>6. Volume(Price) > 0
  BY <1>3, <1>4, <1>5
<1> QED BY <1>2, <1>3, <1>4, <1>6

\* No price moves more stock than the one the engine chooses.
THEOREM VolumeAlwaysMaximal == Spec => []MaximalVolume
<1>1. TypeInv => MaximalVolume
  BY CrossingPrice, AuctionAssumption DEF MaximalVolume
<1> QED BY <1>1, TypeAlwaysHolds, PTL

\* The best bid and the best ask accept the price: a deal can be made at it.
THEOREM AlwaysAccepted == Spec => []AcceptedByBest
<1>1. TypeInv => AcceptedByBest
  <2> SUFFICES ASSUME TypeInv, Crosses
               PROVE /\ \E b \in BidOrders : Price <= LimitOf[b]
                     /\ \E a \in AskOrders : LimitOf[a] <= Price
    BY DEF AcceptedByBest
  <2>1. Price \in Int /\ Volume(Price) > 0
    BY CrossingPrice
  <2>2. IsBook(BidOrders, AskOrders, LimitOf, book)
    BY BookFacts
  <2> HIDE DEF Price
  <2> QED BY <2>1, <2>2, VolumeAccepted DEF Volume
<1> QED BY <1>1, TypeAlwaysHolds, PTL

\* What the deals at the engine's price leave does not cross: a bid that is left
\* at or above an ask that is left would be a price with more stock.
THEOREM OneRoundAlwaysEnough == Spec => []OneRoundIsEnough
<1>1. TypeInv => OneRoundIsEnough
  <2> SUFFICES ASSUME TypeInv, Crosses, NEW b \in BidOrders, NEW a \in AskOrders,
                      AccumulatedBid(BidOrders, LimitOf, book, LimitOf[b]) > Volume(Price),
                      AccumulatedAsk(AskOrders, LimitOf, book, LimitOf[a]) > Volume(Price),
                      LimitOf[a] <= LimitOf[b]
               PROVE FALSE
    <3>1. TypeInv => \A o \in BidOrders \cup AskOrders : LimitOf[o] \in Nat
      BY BookFacts
    <3> QED BY <3>1 DEF OneRoundIsEnough
  <2> DEFINE p == LimitOf[b]
             q == LimitOf[a]
  <2>1. /\ p \in Nat /\ q \in Nat /\ q <= p
        /\ AccumulatedBid(BidOrders, LimitOf, book, p) > Volume(Price)
        /\ AccumulatedAsk(AskOrders, LimitOf, book, q) > Volume(Price)
        /\ IsBook(BidOrders, AskOrders, LimitOf, book)
    BY BookFacts
  <2> HIDE DEF p, q
  <2>2. /\ AccumulatedAsk(AskOrders, LimitOf, book, q) <= AccumulatedAsk(AskOrders, LimitOf, book, p)
        /\ AccumulatedAsk(AskOrders, LimitOf, book, q) \in Nat
        /\ AccumulatedAsk(AskOrders, LimitOf, book, p) \in Nat
        /\ AccumulatedBid(BidOrders, LimitOf, book, p) \in Nat
    BY <2>1, AccumulatedMonotone, AccumulatedType
  <2>3. Volume(p) <= Volume(Price) /\ Volume(p) \in Nat /\ Volume(Price) \in Nat
    BY <2>1, CrossingPrice
  <2>4. \/ Volume(p) = AccumulatedBid(BidOrders, LimitOf, book, p)
        \/ Volume(p) = AccumulatedAsk(AskOrders, LimitOf, book, p)
    BY DEF Volume, ExecutionAmount
  <2> QED BY <2>1, <2>2, <2>3, <2>4
<1> QED BY <1>1, TypeAlwaysHolds, PTL

\* At most four prices are equally good, however many orders there are.
THEOREM TiesAlwaysFew == Spec => []FewTies
<1>1. TypeInv => FewTies
  BY BookFacts, FewPoints DEF FewTies
<1> QED BY <1>1, TypeAlwaysHolds, PTL
-----------------------------------------------------------------------------
(* The tie rule *)

\* A reference moved to the nearer end of an interval it is outside of is the
\* number of the interval closest to it.
LEMMA ClampNearest ==
  ASSUME NEW lo \in Int, NEW hi \in Int, lo <= hi, NEW ref \in Int, NEW c,
         c = IF hi < ref THEN hi ELSE IF lo > ref THEN lo ELSE ref
  PROVE c \in lo..hi /\ \A p \in lo..hi : AbsVal(c - ref) <= AbsVal(p - ref)
BY DEF AbsVal

\* The sets of points the rule speaks of, and its reference price.
Points == {LimitOf[i] : i \in InBook}
Most == {p \in Points : \A q \in Points : Volume(q) <= Volume(p)}
Best == {p \in Most : \A q \in Most : AbsVal(Surplus(p)) <= AbsVal(Surplus(q))}
Reference == IF \A p \in Best : Surplus(p) >= 0 THEN High
             ELSE IF \A p \in Best : Surplus(p) <= 0 THEN Low ELSE last

\* They are the engine's sets.
LEMMA RulePoints ==
  ASSUME TypeInv, Crosses
  PROVE /\ Most = MostTraded(BidOrders, AskOrders, LimitOf, book)
        /\ Best = BestPricePoints(BidOrders, AskOrders, LimitOf, book)
        /\ Best \in SUBSET Nat /\ Best # {} /\ IsFiniteSet(Best)
        /\ \A p \in Best : Surplus(p) \in Int
<1>1. Points = PricePoints(BidOrders, AskOrders, LimitOf)
  BY BookFacts DEF Points
<1>2. Most = MostTraded(BidOrders, AskOrders, LimitOf, book)
  BY <1>1 DEF Most, MostTraded, Maximizers, Volume
<1>3. Best = BestPricePoints(BidOrders, AskOrders, LimitOf, book)
  BY <1>2 DEF Best, BestPricePoints, LeastSurplus, Minimizers, Surplus
<1>4. Best \in SUBSET Nat /\ Best # {} /\ IsFiniteSet(Best)
  BY <1>3, CrossingPrice, BookFacts, BestPoints
<1>5. \A p \in Best : Surplus(p) \in Int
  BY <1>4, BookFacts, AccumulatedType DEF Surplus
<1> QED BY <1>2, <1>3, <1>4, <1>5

\* A tie is resolved as the comments say: the reference price, moved by the band
\* under one-sided pressure, or the tied price closest to it.
LEMMA TieResolved ==
  ASSUME TypeInv, Crosses, last # 0, Cardinality(Best) # 1, Cardinality(Most) <= StableLength
  PROVE \E lo, hi \in Best :
          /\ \A p \in Best : p \in lo..hi
          /\ Price \in lo..hi
          /\ \A p \in lo..hi : AbsVal(Price - Reference) <= AbsVal(p - Reference)
<1> DEFINE most == Most
           best == Best
           ref == Reference
           n == Cardinality(best)
           list == TieOrder(best, most)
           imbalance == [p \in best |-> Surplus(p)]
<1>0. /\ most = MostTraded(BidOrders, AskOrders, LimitOf, book)
      /\ best = BestPricePoints(BidOrders, AskOrders, LimitOf, book)
      /\ best \in SUBSET Nat /\ best # {} /\ IsFiniteSet(best)
      /\ \A p \in best : Surplus(p) \in Int
      /\ Cardinality(best) # 1 /\ Cardinality(most) <= StableLength
      /\ ref = IF \A p \in best : Surplus(p) >= 0 THEN High
               ELSE IF \A p \in best : Surplus(p) <= 0 THEN Low ELSE last
  BY RulePoints DEF Reference
<1> HIDE DEF most, best, ref
<1>1. n \in Nat \ {0}
  BY <1>0, FS_CardinalityType, FS_EmptySet
<1>2. /\ list \in [1..n -> best] /\ best = {list[i] : i \in 1..n}
      /\ \A i, j \in 1..n : i < j => list[i] > list[j]
  <2>1. best \in SUBSET Nat /\ IsFiniteSet(best) /\ Cardinality(most) <= StableLength
    BY <1>0
  <2>2. /\ TieOrder(best, most) \in [1..Cardinality(best) -> best]
        /\ best = {TieOrder(best, most)[i] : i \in 1..Cardinality(best)}
        /\ \A i, j \in 1..Cardinality(best) :
             i < j => TieOrder(best, most)[i] > TieOrder(best, most)[j]
    <3> HIDE DEF list, n
    <3> QED BY <2>1, TieOrderList
  <2> QED BY <2>2
<1>3. Price = PriceWithRef(list, imbalance, High, last, Low)
  BY <1>0 DEF Price, GetExecutionPrice, Surplus
<1> HIDE DEF n, list
<1>4. DOMAIN list = 1..n /\ Len(list) = n /\ 1 \in 1..n /\ n \in 1..n
  BY <1>1, <1>2
<1>5. \A i \in 1..n : list[i] \in best /\ list[i] \in Nat
  BY <1>0, <1>2
<1>6. \A i \in 1..n : list[n] <= list[i] /\ list[i] <= list[1]
  <2> SUFFICES ASSUME NEW i \in 1..n PROVE list[n] <= list[i] /\ list[i] <= list[1]
    OBVIOUS
  <2>1. i \in Nat /\ (i = 1 \/ 1 < i) /\ (i = n \/ i < n)
    BY <1>1
  <2>2. list[i] \in Nat /\ list[1] \in Nat /\ list[n] \in Nat
    BY <1>4, <1>5
  <2>3. list[n] <= list[i]
    BY <1>2, <1>4, <2>1, <2>2, SMTT(30)
  <2>4. list[i] <= list[1]
    <3>1. CASE i = 1
      BY <2>2, <3>1
    <3>2. CASE 1 < i
      <4>1. list[1] > list[i]
        BY <1>2, <1>4, <3>2
      <4> QED BY <2>2, <4>1
    <3> QED BY <2>1, <3>1, <3>2
  <2> QED BY <2>3, <2>4
<1>7. \A p \in best : list[n] <= p /\ p <= list[1]
  BY <1>2, <1>6
<1>8. /\ (\A i \in 1..n : imbalance[list[i]] >= 0) <=> \A p \in best : Surplus(p) >= 0
      /\ (\A i \in 1..n : imbalance[list[i]] <= 0) <=> \A p \in best : Surplus(p) <= 0
  BY <1>2
<1> HIDE DEF imbalance
<1>9. Price = IF list[1] < ref THEN list[1] ELSE IF list[n] > ref THEN list[n] ELSE ref
  BY <1>0, <1>3, <1>4, <1>8 DEF PriceWithRef
<1>10. ref \in Int
  BY <1>0, BookFacts
<1>11. list[n] \in Int /\ list[1] \in Int /\ list[n] <= list[1]
  BY <1>4, <1>5, <1>6
<1>12. /\ Price \in list[n]..list[1]
       /\ \A p \in list[n]..list[1] : AbsVal(Price - ref) <= AbsVal(p - ref)
  <2> DEFINE c == Price
  <2>1. c = IF list[1] < ref THEN list[1] ELSE IF list[n] > ref THEN list[n] ELSE ref
    BY <1>9
  <2> HIDE DEF c
  <2>2. c \in list[n]..list[1] /\ \A p \in list[n]..list[1] : AbsVal(c - ref) <= AbsVal(p - ref)
    BY <1>10, <1>11, <2>1, ClampNearest
  <2> QED BY <2>2 DEF c
<1>13. \A p \in best : p \in list[n]..list[1]
  <2>1. \A p \in best : p \in Int
    BY <1>0
  <2> QED BY <1>7, <1>11, <2>1
<1> QED BY <1>4, <1>5, <1>12, <1>13 DEF best, ref

\* Ties are resolved as match.go:297, 309 and 321 promise, as long as so few
\* prices move the most stock that the second sort keeps their order.
THEOREM PressureAlwaysRules == Spec => []PressureRule
<1>1. TypeInv => PressureRule
  <2> SUFFICES ASSUME TypeInv, Crosses, last # 0 PROVE PressureRule
    BY DEF PressureRule
  <2> DEFINE InSpan(p) == (\E q \in Best : q <= p) /\ (\E q \in Best : p <= q)
  <2>1. Cardinality(Best) = 1 => Price \in Best
    BY RulePoints DEF Price, GetExecutionPrice
  <2>2. ASSUME Cardinality(Best) # 1, Cardinality(Most) <= StableLength
        PROVE /\ InSpan(Price)
              /\ \A p \in TrialPrices :
                   InSpan(p) => AbsVal(Price - Reference) <= AbsVal(p - Reference)
    <3>1. PICK lo, hi \in Best :
             /\ \A p \in Best : p \in lo..hi
             /\ Price \in lo..hi
             /\ \A p \in lo..hi : AbsVal(Price - Reference) <= AbsVal(p - Reference)
      BY <2>2, TieResolved
    <3>2. Best \in SUBSET Nat
      BY RulePoints
    <3> HIDE DEF Price, Reference
    <3>3. lo \in Nat /\ hi \in Nat /\ Price \in Int /\ lo <= Price /\ Price <= hi
      BY <3>1, <3>2
    <3>4. InSpan(Price)
      BY <3>3
    <3>5. ASSUME NEW p \in TrialPrices, InSpan(p) PROVE p \in lo..hi
      <4>1. PICK q \in Best, r \in Best : q <= p /\ p <= r
        BY <3>5
      <4>2. q \in lo..hi /\ r \in lo..hi /\ p \in Nat
        BY <3>1, <4>1, AuctionAssumption
      <4> QED BY <3>3, <4>1, <4>2
    <3> QED BY <3>1, <3>4, <3>5
  <2> QED BY <2>1, <2>2 DEF PressureRule, Points, Most, Best, Reference
<1> QED BY <1>1, TypeAlwaysHolds, PTL
=============================================================================
