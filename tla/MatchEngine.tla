----------------------------- MODULE MatchEngine -----------------------------
(***************************************************************************)
(* The price a call auction executes at (modules/market/match).  B and A   *)
(* are the sets of the bid and ask orders still in the two lists, numbers  *)
(* in 1..MaxOrders, and the functions price and amount give each order's   *)
(* limit price and what is left of it.  Prices are integers in units of    *)
(* the smallest price step.                                                *)
(***************************************************************************)
EXTENDS Sums, Sequences, FiniteSets

CONSTANT MaxOrders    \* bound: orders that exist at one time

ASSUME EngineAssumption == MaxOrders \in Nat

\* the price points: every limit price of the two lists
PricePoints(B, A, price) == {price[o] : o \in B \cup A}

AccumulatedBid(B, price, amount, p) ==
  SumTo([o \in 1..MaxOrders |-> IF o \in B /\ price[o] >= p THEN amount[o] ELSE 0], MaxOrders)

AccumulatedAsk(A, price, amount, p) ==
  SumTo([o \in 1..MaxOrders |-> IF o \in A /\ price[o] <= p THEN amount[o] ELSE 0], MaxOrders)

\* the stock that changes hands at p, and the surplus of demand over supply
ExecutionAmount(B, A, price, amount, p) ==
  LET bid == AccumulatedBid(B, price, amount, p)
      ask == AccumulatedAsk(A, price, amount, p)
  IN  IF bid < ask THEN bid ELSE ask

Imbalance(B, A, price, amount, p) ==
  AccumulatedBid(B, price, amount, p) - AccumulatedAsk(A, price, amount, p)

AbsVal(n) == IF n < 0 THEN -n ELSE n

\* the elements of S on which f is largest, and smallest
Maximizers(S, f) == {x \in S : \A y \in S : f[y] <= f[x]}
Minimizers(S, f) == {x \in S : \A y \in S : f[x] <= f[y]}

\* ppListSameEA: the points at which the most stock is traded
MostTraded(B, A, price, amount) ==
  LET points == PricePoints(B, A, price)
  IN  Maximizers(points, [p \in points |-> ExecutionAmount(B, A, price, amount, p)])

\* the points of S with the least surplus, either way
LeastSurplus(S, B, A, price, amount) ==
  Minimizers(S, [p \in S |-> AbsVal(Imbalance(B, A, price, amount, p))])

BestPricePoints_ByImbalance(B, A, price, amount) ==
  LeastSurplus(PricePoints(B, A, price), B, A, price, amount)

BestPricePoints_ByVolume(B, A, price, amount) == MostTraded(B, A, price, amount)

\* ppListSameImbalance: most stock traded first, then the least surplus
BestPricePoints(B, A, price, amount) ==
  LeastSurplus(MostTraded(B, A, price, amount), B, A, price, amount)

\* sort.Slice keeps equal elements in their order in lists up to this length
StableLength == 12

\* best as the list the second sort leaves: by falling price, as precede put
\* it, if the list it sorts is short; in an order left open if it is not
TieOrder(best, most) ==
  CHOOSE list \in [1..Cardinality(best) -> best] :
    \A i, j \in DOMAIN list :
      i < j => /\ list[i] # list[j]
               /\ Cardinality(most) <= StableLength => list[i] > list[j]

PriceWithRef_Unclamped(list, imbalance, high, mid, low) ==
  IF mid = 0 THEN list[1]
  ELSE IF \A i \in DOMAIN list : imbalance[list[i]] >= 0 THEN high
  ELSE IF \A i \in DOMAIN list : imbalance[list[i]] <= 0 THEN low ELSE mid

PriceWithRef_SwappedBand(list, imbalance, high, mid, low) ==
  LET best == {list[i] : i \in DOMAIN list}
      Clamp(ref) == CHOOSE p \in best : \A q \in best : AbsVal(p - ref) <= AbsVal(q - ref)
  IN  IF \A p \in best : imbalance[p] >= 0 THEN Clamp(low) ELSE Clamp(high)

\* calculateExecutionPriceWithRef: several points are equally good, and the
\* side under pressure moves the price away from the last one (mid), by at
\* most the configured ratio (high, low)
PriceWithRef(list, imbalance, high, mid, low) ==
  LET Clamp(ref) == IF list[1] < ref THEN list[1]
                    ELSE IF list[Len(list)] > ref THEN list[Len(list)] ELSE ref
  IN  IF mid = 0 THEN list[(Len(list) \div 2) + 1]
      ELSE IF \A i \in DOMAIN list : imbalance[list[i]] >= 0 THEN Clamp(high)
      ELSE IF \A i \in DOMAIN list : imbalance[list[i]] <= 0 THEN Clamp(low)
      ELSE Clamp(mid)

GetExecutionPrice(B, A, price, amount, high, mid, low) ==
  LET most == MostTraded(B, A, price, amount)
      best == BestPricePoints(B, A, price, amount)
  IN  IF Cardinality(best) = 1 THEN CHOOSE p \in best : TRUE
      ELSE PriceWithRef(TieOrder(best, most),
                        [p \in best |-> Imbalance(B, A, price, amount, p)], high, mid, low)
=============================================================================
