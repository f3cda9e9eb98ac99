------------------------------- MODULE Auction -------------------------------
(***************************************************************************)
(* The execution price of MatchEngine against the rule the comments of     *)
(* match.go give, for every book of the given orders: order i stands at    *)
(* limit price LimitOf[i] and what is left of it, nothing at first, grows  *)
(* one unit at a time.                                                     *)
(***************************************************************************)
EXTENDS MatchEngine

CONSTANTS SideOf, LimitOf,      \* side and limit price of each order
          MaxAmount, MaxTotal,  \* bounds: units of one order, of the book
          LastPrices,           \* last executed prices to try
          Ratio,                \* MaxExecutedPriceChangeRatio
          TrialPrices           \* prices to compare the engine's price with

ASSUME AuctionAssumption ==
  /\ SideOf \in [1..MaxOrders -> {"bid", "ask"}]
  /\ LimitOf \in [1..MaxOrders -> Nat \ {0}]
  /\ MaxAmount \in Nat /\ MaxTotal \in Nat /\ Ratio \in 0..100
  /\ LastPrices \subseteq Nat /\ TrialPrices \subseteq Nat

VARIABLES book,  \* what is left of each order
          last   \* the last executed price, 0 before the first

vars == <<book, last>>

Init == book = [i \in 1..MaxOrders |-> 0] /\ last \in LastPrices

HasRoom(i) == book[i] < MaxAmount /\ SumTo(book, MaxOrders) < MaxTotal

AddUnit(i) ==
  /\ HasRoom(i)
  /\ book' = [book EXCEPT ![i] = @ + 1]
  /\ UNCHANGED last

Full == (\A i \in 1..MaxOrders : ~HasRoom(i)) /\ UNCHANGED vars

Next == (\E i \in 1..MaxOrders : AddUnit(i)) \/ Full

Spec == Init /\ [][Next]_vars
-----------------------------------------------------------------------------
InBook == {i \in 1..MaxOrders : book[i] > 0}
BidOrders == {i \in InBook : SideOf[i] = "bid"}
AskOrders == {i \in InBook : SideOf[i] = "ask"}

Crosses == \E b \in BidOrders, a \in AskOrders : LimitOf[a] <= LimitOf[b]

High == (last * (100 + Ratio)) \div 100
Low  == (last * (100 - Ratio)) \div 100
Price == GetExecutionPrice(BidOrders, AskOrders, LimitOf, book, High, last, Low)

Volume(p) == ExecutionAmount(BidOrders, AskOrders, LimitOf, book, p)
Surplus(p) == Imbalance(BidOrders, AskOrders, LimitOf, book, p)

\* No price at all, be it an order's price or not, moves more stock than the
\* one the engine chooses.
MaximalVolume == Crosses => \A p \in TrialPrices : Volume(p) <= Volume(Price)

\* The price is between the best ask and the best bid.
AcceptedByBest ==
  Crosses => /\ \E b \in BidOrders : Price <= LimitOf[b]
             /\ \E a \in AskOrders : LimitOf[a] <= Price

\* The tie rule of the comments at match.go:297, 309 and 321: among the order
\* prices with the most stock and then the least surplus, the one closest to the
\* reference price, moved up by the band under buying pressure and down under
\* selling pressure, and the reference itself if it lies among them; as long as
\* so few prices move the most stock that the sort keeps their order.
PressureRule ==
  Crosses /\ last # 0 =>
    LET points == {LimitOf[i] : i \in InBook}
        most   == {p \in points : \A q \in points : Volume(q) <= Volume(p)}
        best   == {p \in most : \A q \in most : AbsVal(Surplus(p)) <= AbsVal(Surplus(q))}
        buying == \A p \in best : Surplus(p) >= 0
        selling == \A p \in best : Surplus(p) <= 0
        ref    == IF buying THEN High ELSE IF selling THEN Low ELSE last
        InSpan(p) == (\E q \in best : q <= p) /\ (\E q \in best : p <= q)
    IN  /\ Cardinality(best) = 1 => Price \in best
        /\ Cardinality(best) # 1 /\ Cardinality(most) <= StableLength =>
             /\ InSpan(Price)
             /\ \A p \in TrialPrices : InSpan(p) => AbsVal(Price - ref) <= AbsVal(p - ref)

\* At most four prices are equally good: no list the tie rule looks at is long.
FewTies == InBook # {} =>
  Cardinality(BestPricePoints(BidOrders, AskOrders, LimitOf, book)) <= 4

\* After the deals at this price no bid and ask that cross are left.
OneRoundIsEnough ==
  Crosses =>
    LET \* what is left of a side with n dealt, best prices first
        DemandTo(p) == AccumulatedBid(BidOrders, LimitOf, book, p)
        SupplyTo(p) == AccumulatedAsk(AskOrders, LimitOf, book, p)
        LeftBids == {b \in BidOrders : DemandTo(LimitOf[b]) > Volume(Price)}
        LeftAsks == {a \in AskOrders : SupplyTo(LimitOf[a]) > Volume(Price)}
    IN  \A b \in LeftBids, a \in LeftAsks : LimitOf[b] < LimitOf[a]
=============================================================================
