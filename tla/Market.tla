------------------------------- MODULE Market -------------------------------
(***************************************************************************)
(* The spot exchange of modules/market: trading pairs, limit orders that   *)
(* freeze their sender's coins, and the end-of-block work that matches,    *)
(* settles, expires and delists.  Transactions run one at a time while     *)
(* phase = "deliver"; EndBlocker is cut into one step per order it         *)
(* handles, so that an invariant is also checked between two of them.      *)
(*                                                                         *)
(* A slot stands for an order ID.  The order book entry and its keys in    *)
(* the order queue and in the bid or ask list are one slot: the keeper     *)
(* always writes and deletes them together.  A price p stands for p/D.     *)
(*                                                                         *)
(* An operator X_Y just before an operator X is a faulty variant of X, for *)
(* confirming that a property notices the fault; nothing here uses it.     *)
(***************************************************************************)
EXTENDS Bank, MatchEngine, Sequences

CONSTANTS
  Markets, StockOf, MoneyOf,    \* trading pairs and their two tokens
  InitMarkets, InitCoins,       \* genesis: each pair's info, each user's coins
  NoMarket, NoOrder,            \* absent from the store
  D, Base,                      \* price unit; 10 in the code, of precisions
  Prices, Quantities, TimesInForce, Lifetimes, Precisions, TransferAmounts,  \* inputs
  MaxOrderAmount, MaxInt64,
  CreateMarketFee, MarketFeeMin, RateNum, RateDen, FeeForZeroDeal,
  GTEOrderLifetime, FeatureFeeByBlocks, MaxExecutedPriceChangeRatio,
  MarketMinExpiredTime,
  TokenForbiddable, AddrForbiddable,  \* tokens with these issuer powers
  DayLen, MonthLen,             \* length of a day; days until Day() repeats
  MaxHeight, MaxTimeGap         \* bounds: blocks, time between two of them

ASSUME MarketAssumption ==
  /\ StockOf \in [Markets -> Denoms] /\ MoneyOf \in [Markets -> Denoms]
  /\ \A m \in Markets : StockOf[m] # MoneyOf[m]
  /\ InitMarkets \in [Markets -> [last: Nat, pprec: Nat, oprec: Nat] \cup {NoMarket}]
  /\ InitCoins \in [Users -> [Denoms -> Nat]]
  /\ MaxOrders \in Nat /\ D \in Nat \ {0} /\ Base \in Nat \ {0}
  /\ Prices \subseteq Nat \ {0} /\ Quantities \subseteq Nat \ {0}
  /\ TimesInForce \subseteq {"GTE", "IOC"}
  /\ Lifetimes \subseteq Nat /\ Precisions \subseteq Nat
  /\ TransferAmounts \subseteq Nat
  /\ MaxOrderAmount \in Nat /\ MaxInt64 \in Nat
  /\ CreateMarketFee \in Nat /\ MarketFeeMin \in Nat /\ FeeForZeroDeal \in Nat
  /\ RateNum \in Nat /\ RateDen \in Nat \ {0}
  /\ GTEOrderLifetime \in Nat /\ FeatureFeeByBlocks \in Nat
  /\ MaxExecutedPriceChangeRatio \in 0..100 /\ MarketMinExpiredTime \in Nat
  /\ TokenForbiddable \subseteq Denoms /\ AddrForbiddable \subseteq Denoms
  /\ DayLen \in Nat \ {0} /\ MonthLen \in Nat \ {0}
  /\ MaxHeight \in Nat /\ MaxTimeGap \in Nat

ASSUME AbsentAssumption ==
  /\ NoOrder \notin [sender: Users, market: Markets, side: {"BUY", "SELL"},
                     price: Nat, qty: Nat \ {0}, tif: {"GTE", "IOC"},
                     height: Nat, exist: Nat, commission: Nat, feature: Nat,
                     left: Nat, freeze: Nat, dealStock: Nat, dealMoney: Nat]
  /\ NoMarket \notin Markets \cup [last: Nat, pprec: Nat, oprec: Nat]

VARIABLES
  bank,            \* a Ledger
  orders,          \* [Slots -> Order \cup {NoOrder}]
  markets,         \* [Markets -> MarketInfo \cup {NoMarket}]
  newly,           \* the NewlyAdded flags
  delist,          \* effective time of the delist request, or NoRequest
  height, now, cleanTime,         \* block height and time; OrderCleanTime
  phase,           \* where in the block the program is
  pending,         \* markets EndBlocker still has to match, or delist
  todo,            \* orders it still has to remove or settle
  mkt, bidList, askList, price,   \* the market being matched, its lists
  newPrices        \* last price of each market matched in this block

dealVars  == <<mkt, bidList, askList, price>>
blockVars == <<pending, todo, dealVars, newPrices>>
assetVars == <<tokenForbidden, addrForbidden>>
timeVars  == <<height, now, cleanTime>>
vars == <<bank, orders, markets, newly, delist, assetVars, timeVars, phase, blockVars>>
-----------------------------------------------------------------------------
Slots == 1..MaxOrders

Order == [sender: Users, market: Markets, side: {"BUY", "SELL"},
          price: Nat, qty: Nat \ {0}, tif: {"GTE", "IOC"},
          height: Nat, exist: Nat, commission: Nat, feature: Nat,
          left: Nat, freeze: Nat, dealStock: Nat, dealMoney: Nat]

MarketInfo == [last: Nat, pprec: Nat, oprec: Nat]

NoRequest == -1

Lesser(a, b)  == IF a < b THEN a ELSE b
Greater(a, b) == IF a < b THEN b ELSE a
CeilDiv(a, b) == (a + b - 1) \div b

\* sdk.Dec rounds half to even
RoundDiv(a, b) ==
  LET q == a \div b
      r == a % b
  IN  IF 2 * r > b \/ (2 * r = b /\ q % 2 = 1) THEN q + 1 ELSE q

\* int64 addition of two non-negative numbers
AddInt64(a, b) == IF a + b > MaxInt64 THEN a + b - 2 * (MaxInt64 + 1) ELSE a + b

Listed(m)   == markets[m] # NoMarket
Live        == {s \in Slots : orders[s] # NoOrder}
OrdersOf(m) == {s \in Live : orders[s].market = m}

GetOlderThan_ExcludeLast(m, h) == {s \in OrdersOf(m) : orders[s].height < h - 1}
GetOlderThan(m, h) == {s \in OrdersOf(m) : orders[s].height < h}

\* GetOrderUsedDenom
UsedDenom(side, m) == IF side = "BUY" THEN MoneyOf[m] ELSE StockOf[m]

\* the money a price and a quantity ask for, and the same as an order's rest
MoneyAmount_RoundDown(p, q) == (p * q) \div D
MoneyAmount(p, q) == CeilDiv(p * q, D)

NotEnoughMoney(o) == o.side = "BUY" /\ o.freeze < RoundDiv(o.price * o.left, D)

\* GetAmount
Amount(o) == IF NotEnoughMoney(o) THEN 0 ELSE o.left

Granularity(oprec) == Base ^ oprec
Tick(pprec) == D \div (Base ^ pprec)

\* IsTokenForbidden and IsForbiddenByTokenIssuer, on both tokens of m
TokensForbidden(m) == {StockOf[m], MoneyOf[m]} \cap tokenForbidden # {}
SenderForbidden(m, u) == IsForbidden(StockOf[m], u) \/ IsForbidden(MoneyOf[m], u)
-----------------------------------------------------------------------------
(* Fees *)

ListedPair(stock, money) ==
  {m \in Markets : Listed(m) /\ StockOf[m] = stock /\ MoneyOf[m] = money}

\* the volume num/den of a trade in CET, by the last price of a listed pair
GetMarketVolume(m, stockVolume, moneyVolume) ==
  LET Whole(n) == [num |-> n, den |-> 1]
      LastOf(pair) == markets[CHOOSE k \in pair : TRUE].last
      \* a market whose stock is CET: divide by its price
      Divide(n, pair) == IF LastOf(pair) = 0 THEN Whole(0)
                         ELSE [num |-> n * D, den |-> LastOf(pair)]
      \* a market whose money is CET: multiply by its price
      Multiply(n, pair) == [num |-> n * LastOf(pair), den |-> D]
      cetMoney == ListedPair(CET, MoneyOf[m])
      cetStock == ListedPair(CET, StockOf[m])
      moneyCet == ListedPair(MoneyOf[m], CET)
      stockCet == ListedPair(StockOf[m], CET)
  IN  IF StockOf[m] = CET THEN Whole(stockVolume)
      ELSE IF MoneyOf[m] = CET THEN Whole(moneyVolume)
      ELSE IF cetMoney # {} THEN Divide(moneyVolume, cetMoney)
      ELSE IF cetStock # {} THEN Divide(stockVolume, cetStock)
      ELSE IF moneyCet # {} THEN Multiply(moneyVolume, moneyCet)
      ELSE IF stockCet # {} THEN Multiply(stockVolume, stockCet)
      ELSE Whole(0)

\* the volume's share before the minimum applies, and the commission frozen
RawCommission(m, p, q) ==
  LET volume == GetMarketVolume(m, q, MoneyAmount(p, q))
  IN  CeilDiv(volume.num * RateNum, volume.den * RateDen)

CalCommission_NoMinimum(m, p, q) == RawCommission(m, p, q)
CalCommission(m, p, q) == Greater(RawCommission(m, p, q), MarketFeeMin)

CalFeatureFee(tif, life) ==
  IF tif = "IOC" \/ life < GTEOrderLifetime THEN 0
  ELSE Lesser((life - GTEOrderLifetime) * FeatureFeeByBlocks, MaxOrderAmount)

\* what an order that is removed pays of its frozen commission
CalActualOrderCommission(o) ==
  Lesser(MaxOrderAmount,
         IF o.dealStock = 0 THEN FeeForZeroDeal
         ELSE (o.dealStock * o.commission) \div o.qty)

\* and of its frozen feature fee, if it is removed at height h
CalActualOrderFeatureFee(o, h) ==
  LET charged == h - o.height + 1 - GTEOrderLifetime
  IN  IF o.exist <= GTEOrderLifetime \/ charged < 0 THEN 0
      ELSE Lesser(o.feature, (charged * o.feature) \div (o.exist - GTEOrderLifetime))

Refund_CommissionKept(b, o, h) ==
  UnFreezeCoins(b, o.sender, UsedDenom(o.side, o.market), o.freeze)

\* unfreezeCoinsForOrder: the ledger after order o is removed at height h
Refund(b, o, h) ==
  LET refunded == UnFreezeCoins(b, o.sender, UsedDenom(o.side, o.market), o.freeze)
      commissioned ==
        IF o.commission = 0 THEN refunded
        ELSE ChargeFee(UnFreezeCoins(refunded, o.sender, CET, o.commission),
                       o.sender, CalActualOrderCommission(o))
  IN  IF o.tif # "GTE" \/ o.feature = 0 THEN commissioned
      ELSE ChargeFee(UnFreezeCoins(commissioned, o.sender, CET, o.feature),
                     o.sender, CalActualOrderFeatureFee(o, h))
-----------------------------------------------------------------------------
(* Transactions *)

CreateTradingPair(u, m, pprec, oprec) ==
  /\ phase = "deliver"
  /\ ~Listed(m)
  /\ u = OwnerOf[StockOf[m]]
  /\ HasCoins(bank, u, CET, CreateMarketFee)
  /\ markets' = [markets EXCEPT ![m] = [last |-> 0, pprec |-> pprec, oprec |-> oprec]]
  /\ bank' = DeductFee(bank, u, CreateMarketFee)
  /\ UNCHANGED <<orders, newly, delist, assetVars, timeVars, phase, blockVars>>

\* the order a message asks for
NewOrder(u, m, side, p, q, tif, life) ==
  [sender |-> u, market |-> m, side |-> side, price |-> p, qty |-> q, tif |-> tif,
   height |-> height,
   exist |-> IF life = 0 /\ tif = "GTE" THEN GTEOrderLifetime ELSE life,
   commission |-> CalCommission(m, p, q), feature |-> CalFeatureFee(tif, life),
   left |-> q, freeze |-> IF side = "BUY" THEN MoneyAmount(p, q) ELSE q,
   dealStock |-> 0, dealMoney |-> 0]

\* handleFeeForCreateOrder
FreezeForOrder(b, o) ==
  LET funds == FreezeCoins(b, o.sender, UsedDenom(o.side, o.market), o.freeze)
  IN  FreezeCoins(FreezeCoins(funds, o.sender, CET, o.commission),
                  o.sender, CET, o.feature)

\* the limits on amounts, and the balances checkMsgCreateOrder asks for
AmountsAllowed_FeesApart(o) ==
  /\ MoneyAmount(o.price, o.qty) <= MaxOrderAmount
  /\ o.freeze <= MaxOrderAmount
  /\ o.commission <= MaxOrderAmount /\ o.feature <= MaxOrderAmount

AmountsAllowed(o) ==
  /\ MoneyAmount(o.price, o.qty) <= MaxOrderAmount  \* checked for both sides
  /\ o.freeze <= MaxOrderAmount
  /\ o.commission + o.feature <= MaxOrderAmount

CanAfford(o) ==
  LET fee  == o.commission + o.feature
      used == UsedDenom(o.side, o.market)
  IN  /\ HasCoins(bank, o.sender, CET, fee)
      /\ HasCoins(bank, o.sender, used, o.freeze + IF used = CET THEN fee ELSE 0)

\* slots are interchangeable, so the first free one stands for a fresh ID
FreeSlot(s) == s \notin Live /\ \A t \in Slots \ Live : s <= t

CreateOrder(u, m, side, p, q, tif, life, s) ==
  /\ phase = "deliver"
  /\ FreeSlot(s)
  /\ Listed(m)
  /\ p % Tick(markets[m].pprec) = 0
  /\ q % Granularity(markets[m].oprec) = 0
  /\ ~TokensForbidden(m)
  /\ ~SenderForbidden(m, u)
  /\ LET o == NewOrder(u, m, side, p, q, tif, life)
     IN  /\ AmountsAllowed(o)
         /\ CanAfford(o)
         /\ o.commission + o.feature # 0 => ~IsForbidden(CET, u)
         /\ orders' = [orders EXCEPT ![s] = o]
         /\ bank' = FreezeForOrder(bank, o)
  /\ newly' = newly \cup {m}
  /\ UNCHANGED <<markets, delist, assetVars, timeVars, phase, blockVars>>

\* removeOrder
RemoveOrder(s) ==
  /\ bank' = Refund(bank, orders[s], height)
  /\ orders' = [orders EXCEPT ![s] = NoOrder]

CancelOrder(u, s) ==
  /\ phase = "deliver"
  /\ s \in Live
  /\ orders[s].sender = u
  /\ RemoveOrder(s)
  /\ UNCHANGED <<markets, newly, delist, assetVars, timeVars, phase, blockVars>>

CancelTradingPair(u, m, t) ==
  /\ phase = "deliver"
  /\ t >= now + MarketMinExpiredTime
  /\ Listed(m)
  /\ u = OwnerOf[StockOf[m]]
  /\ delist[m] = NoRequest
  /\ delist' = [delist EXCEPT ![m] = t]
  /\ UNCHANGED <<bank, orders, markets, newly, assetVars, timeVars, phase, blockVars>>

\* the new MarketInfo carries no OrderPrecision: it falls back to 0
ModifyPricePrecision(u, m, pprec) ==
  /\ phase = "deliver"
  /\ Listed(m)
  /\ u = OwnerOf[StockOf[m]]
  /\ markets' = [markets EXCEPT ![m] = [last |-> @.last, pprec |-> pprec, oprec |-> 0]]
  /\ UNCHANGED <<bank, orders, newly, delist, assetVars, timeVars, phase, blockVars>>

\* the transactions of other modules that reach the same state
Transfer(u, v, d, n) ==
  /\ phase = "deliver"
  /\ u # v /\ HasCoins(bank, u, d, n)
  /\ ~IsForbidden(d, u)
  /\ bank' = SendCoins(bank, u, v, d, n)
  /\ UNCHANGED <<orders, markets, newly, delist, assetVars, timeVars, phase, blockVars>>

ForbidToken(d) ==
  /\ phase = "deliver"
  /\ d \in TokenForbiddable
  /\ tokenForbidden' = IF d \in tokenForbidden THEN tokenForbidden \ {d}
                       ELSE tokenForbidden \cup {d}
  /\ UNCHANGED <<bank, orders, markets, newly, delist, addrForbidden, timeVars, phase, blockVars>>

ForbidAddr(d, u) ==
  /\ phase = "deliver"
  /\ d \in AddrForbiddable
  /\ addrForbidden' = IF <<d, u>> \in addrForbidden THEN addrForbidden \ {<<d, u>>}
                      ELSE addrForbidden \cup {<<d, u>>}
  /\ UNCHANGED <<bank, orders, markets, newly, delist, tokenForbidden, timeVars, phase, blockVars>>
-----------------------------------------------------------------------------
(* EndBlocker, first block of a day: expired orders, delisted markets *)

\* time.Day() is the day of the month
Day(t) == (t \div DayLen) % MonthLen

Expired_Strict(o) == AddInt64(o.height, o.exist) < height
Expired(o) == AddInt64(o.height, o.exist) <= height

EndBlockNewDay ==
  /\ phase = "deliver"
  /\ Day(cleanTime) # Day(now)
  /\ cleanTime' = now
  /\ todo' = {s \in UNION {GetOlderThan(m, height) : m \in {k \in Markets : Listed(k)}} :
               Expired(orders[s])}
  /\ phase' = "expire"
  /\ UNCHANGED <<bank, orders, markets, newly, delist, assetVars, height, now,
                 pending, dealVars, newPrices>>

\* one order of removeExpiredOrder or removeExpiredMarket
RemoveTodo(s) ==
  /\ phase \in {"expire", "delist"}
  /\ s \in todo
  /\ RemoveOrder(s)
  /\ todo' = todo \ {s}
  /\ UNCHANGED <<markets, newly, delist, assetVars, timeVars, phase,
                 pending, dealVars, newPrices>>

\* the delist requests whose time has come
StartDelist ==
  /\ phase = "expire"
  /\ todo = {}
  /\ pending' = {m \in Markets : delist[m] # NoRequest /\ delist[m] <= now}
  /\ todo' = UNION {GetOlderThan(m, height + 1) : m \in pending'}
  /\ phase' = "delist"
  /\ UNCHANGED <<bank, orders, markets, newly, delist, assetVars, timeVars,
                 dealVars, newPrices>>

FinishDelist ==
  /\ phase = "delist"
  /\ todo = {}
  /\ markets' = [m \in Markets |-> IF m \in pending THEN NoMarket ELSE markets[m]]
  /\ delist' = [m \in Markets |-> IF m \in pending THEN NoRequest ELSE delist[m]]
  /\ pending' = {}
  /\ phase' = "commit"
  /\ UNCHANGED <<bank, orders, newly, assetVars, timeVars, todo, dealVars, newPrices>>
-----------------------------------------------------------------------------
(* EndBlocker, any other block: match each market with new orders *)

\* nothing to match, or a flagged market that is not in the store
EndBlockIdle ==
  /\ phase = "deliver"
  /\ Day(cleanTime) = Day(now)
  /\ newly = {} \/ \E m \in newly : ~Listed(m)
  /\ phase' = "commit"
  /\ UNCHANGED <<bank, orders, markets, newly, delist, assetVars, timeVars, blockVars>>

EndBlockMatch ==
  /\ phase = "deliver"
  /\ Day(cleanTime) = Day(now)
  /\ newly # {} /\ \A m \in newly : Listed(m)
  /\ pending' = {m \in newly : ~TokensForbidden(m)}
  /\ newPrices' = [m \in Markets |-> 0]
  /\ phase' = "match"
  /\ UNCHANGED <<bank, orders, markets, newly, delist, assetVars, timeVars, todo, dealVars>>

Bids(m) == {s \in OrdersOf(m) : orders[s].side = "BUY"}
Asks(m) == {s \in OrdersOf(m) : orders[s].side = "SELL"}

\* GetMatchingCandidates and filterCandidates: the orders that reach the best
\* price of the other side, less those of forbidden senders
BidCandidates_Strict(m) ==
  {b \in Bids(m) : /\ \E a \in Asks(m) : orders[a].price < orders[b].price
                   /\ ~SenderForbidden(m, orders[b].sender)}
BidCandidates_StockOnly(m) ==
  {b \in Bids(m) : /\ \E a \in Asks(m) : orders[a].price <= orders[b].price
                   /\ ~IsForbidden(StockOf[m], orders[b].sender)}
BidCandidates(m) ==
  {b \in Bids(m) : /\ \E a \in Asks(m) : orders[a].price <= orders[b].price
                   /\ ~SenderForbidden(m, orders[b].sender)}
AskCandidates(m) ==
  {a \in Asks(m) : /\ \E b \in Bids(m) : orders[a].price <= orders[b].price
                   /\ ~SenderForbidden(m, orders[a].sender)}

\* precede: the better price, then the lower height, then the order of the
\* hashes, which depend on the block's data: any order
MayPrecede(s, t) ==
  LET o == orders[s]
      r == orders[t]
  IN  IF o.price # r.price THEN (o.side = "BUY") = (o.price > r.price)
      ELSE o.height <= r.height

SortedLists(S) ==
  {q \in [1..Cardinality(S) -> S] :
     \A i, j \in 1..Cardinality(S) : i < j => q[i] # q[j] /\ MayPrecede(q[i], q[j])}

\* the start of runMatch
OpenBook(m, bids, asks) ==
  /\ phase = "match" /\ mkt = NoMarket
  /\ m \in pending
  /\ bids \in SortedLists(BidCandidates(m))
  /\ asks \in SortedLists(AskCandidates(m))
  /\ newly' = newly \ {m}
  /\ mkt' = m /\ bidList' = bids /\ askList' = asks /\ price' = 0
  /\ UNCHANGED <<bank, orders, markets, delist, assetVars, timeVars, phase,
                 pending, todo, newPrices>>

BidPrice == orders[Head(bidList)].price
AskPrice == orders[Head(askList)].price

\* the loop condition of Match
Crossing == bidList # <<>> /\ askList # <<>> /\ AskPrice <= BidPrice

InList(list) == {list[i] : i \in DOMAIN list}

\* the price band of runMatch, and the price GetExecutionPrice finds in it
MatchPrice ==
  LET mid == markets[mkt].last
      low == RoundDiv(mid * (100 - MaxExecutedPriceChangeRatio), 100)
      high == RoundDiv(mid * (100 + MaxExecutedPriceChangeRatio), 100)
  IN  GetExecutionPrice(InList(bidList), InList(askList),
                        [s \in InList(bidList \o askList) |-> orders[s].price],
                        [s \in InList(bidList \o askList) |-> Amount(orders[s])],
                        high, mid, low)

\* ExecuteOrderList goes on at its price while both heads accept it; then
\* Match asks for a new price
HeadsAccept(p) == p \in AskPrice..BidPrice
DealPrice == IF price # 0 /\ HeadsAccept(price) THEN price ELSE MatchPrice

PopIfDone_Late(list, s, o) == IF Head(list) = s /\ Amount(o) < 0 THEN Tail(list) ELSE list
PopIfDone(list, s, o) == IF Head(list) = s /\ Amount(o) = 0 THEN Tail(list) ELSE list

Dealt_MoneyFromBoth(o, amount, money) ==
  [o EXCEPT !.left = @ - amount, !.freeze = @ - money,
            !.dealStock = @ + amount, !.dealMoney = @ + money]

\* what a deal of amount stock for money leaves of one of its two orders
Dealt(o, amount, money) ==
  [o EXCEPT !.left = @ - amount, !.freeze = @ - (IF o.side = "BUY" THEN money ELSE amount),
            !.dealStock = @ + amount, !.dealMoney = @ + money]

\* and what it does to the accounts; the errors of these calls are dropped
Exchange(b, seller, buyer, m, amount, money) ==
  LET thawed  == UnFreezeCoins(b, seller, StockOf[m], amount)
      stocked == SendCoins(thawed, seller, buyer, StockOf[m], amount)
      freed   == UnFreezeCoins(stocked, buyer, MoneyOf[m], money)
  IN  SendCoins(freed, buyer, seller, MoneyOf[m], money)

\* Deal between the heads of the two lists.  ExecuteOrder holds one head and
\* walks the other list, and drops what is used up from both: always heads.
Deal ==
  /\ phase = "match" /\ mkt # NoMarket
  /\ Crossing
  /\ LET p == DealPrice
         b == Head(bidList)
         a == Head(askList)
         amount == Lesser(Amount(orders[b]), Amount(orders[a]))
         money == (p * amount) \div D
     IN  /\ HeadsAccept(p)
         /\ money <= MaxOrderAmount
         /\ bank' = Exchange(bank, orders[a].sender, orders[b].sender, mkt, amount, money)
         /\ orders' = [orders EXCEPT ![b] = Dealt(@, amount, money), ![a] = Dealt(@, amount, money)]
         /\ bidList' = PopIfDone(bidList, b, orders'[b])
         /\ askList' = PopIfDone(askList, a, orders'[a])
         /\ todo' = todo \cup {a, b}
         /\ price' = p
         /\ newPrices' = [newPrices EXCEPT ![mkt] = p]
  /\ UNCHANGED <<markets, newly, delist, assetVars, timeVars, phase, pending, mkt>>

\* the end of runMatch: the IOC orders of this block are settled too
CloseBook ==
  /\ phase = "match" /\ mkt # NoMarket
  /\ ~Crossing
  /\ todo' = todo \cup {s \in OrdersOf(mkt) :
                          orders[s].height = height /\ orders[s].tif = "IOC"}
  /\ pending' = pending \ {mkt}
  /\ mkt' = NoMarket /\ bidList' = <<>> /\ askList' = <<>> /\ price' = 0
  /\ UNCHANGED <<bank, orders, markets, newly, delist, assetVars, timeVars, phase, newPrices>>

StartSettle ==
  /\ phase = "match" /\ mkt = NoMarket /\ pending = {}
  /\ phase' = "settle"
  /\ UNCHANGED <<bank, orders, markets, newly, delist, assetVars, timeVars, blockVars>>

\* the orders to remove; the others stay as Update stores them
Finished(o) == o.tif = "IOC" \/ o.left = 0 \/ NotEnoughMoney(o)

\* ordersForUpdate is a Go map: its orders come in any order
Settle(s) ==
  /\ phase = "settle"
  /\ s \in todo
  /\ IF Finished(orders[s]) THEN RemoveOrder(s) ELSE UNCHANGED <<bank, orders>>
  /\ todo' = todo \ {s}
  /\ UNCHANGED <<markets, newly, delist, assetVars, timeVars, phase,
                 pending, dealVars, newPrices>>

FinishSettle ==
  /\ phase = "settle"
  /\ todo = {}
  /\ markets' = [m \in Markets |->
                    IF newPrices[m] = 0 THEN markets[m]
                    ELSE [markets[m] EXCEPT !.last = newPrices[m]]]
  /\ phase' = "commit"
  /\ UNCHANGED <<bank, orders, newly, delist, assetVars, timeVars, blockVars>>

NewBlock(gap) ==
  /\ phase = "commit"
  /\ height < MaxHeight
  /\ height' = height + 1
  /\ now' = now + gap
  /\ newPrices' = [m \in Markets |-> 0]
  /\ phase' = "deliver"
  /\ UNCHANGED <<bank, orders, markets, newly, delist, assetVars, cleanTime,
                 pending, todo, dealVars>>
\* the bound on blocks is reached
Stop == phase = "commit" /\ height = MaxHeight /\ UNCHANGED vars
-----------------------------------------------------------------------------
Init ==
  /\ bank = [coins |-> InitCoins, frozen |-> [u \in Users |-> [d \in Denoms |-> 0]],
             collected |-> 0]
  /\ orders = [s \in Slots |-> NoOrder]
  /\ markets = InitMarkets
  /\ newly = {} /\ delist = [m \in Markets |-> NoRequest]
  /\ tokenForbidden = {} /\ addrForbidden = {}
  /\ height = 1 /\ now = 0 /\ cleanTime = 0
  /\ phase = "deliver" /\ pending = {} /\ todo = {}
  /\ mkt = NoMarket /\ bidList = <<>> /\ askList = <<>> /\ price = 0
  /\ newPrices = [m \in Markets |-> 0]

Transaction ==
  \/ \E u \in Users, m \in Markets, k, r \in Precisions : CreateTradingPair(u, m, k, r)
  \/ \E u \in Users, m \in Markets, side \in {"BUY", "SELL"}, p \in Prices,
        q \in Quantities, tif \in TimesInForce, life \in Lifetimes, s \in Slots :
       CreateOrder(u, m, side, p, q, tif, life, s)
  \/ \E u \in Users, s \in Slots : CancelOrder(u, s)
  \/ \E u \in Users, m \in Markets,
        t \in MarketMinExpiredTime..(now + MarketMinExpiredTime + MaxTimeGap) :
       CancelTradingPair(u, m, t)
  \/ \E u \in Users, m \in Markets, k \in Precisions : ModifyPricePrecision(u, m, k)

OtherModules ==
  \/ \E u, v \in Users, d \in Denoms, n \in TransferAmounts : Transfer(u, v, d, n)
  \/ \E d \in Denoms : ForbidToken(d)
  \/ \E d \in Denoms, u \in Users : ForbidAddr(d, u)

EndBlocker ==
  \/ EndBlockNewDay \/ StartDelist \/ FinishDelist
  \/ EndBlockIdle \/ EndBlockMatch \/ Deal \/ CloseBook \/ StartSettle \/ FinishSettle
  \/ \E s \in Slots : RemoveTodo(s) \/ Settle(s)
  \/ \E m \in pending : \E bids \in SortedLists(BidCandidates(m)),
                           asks \in SortedLists(AskCandidates(m)) : OpenBook(m, bids, asks)

Next == Transaction \/ OtherModules \/ EndBlocker
        \/ \E gap \in 0..MaxTimeGap : NewBlock(gap)
        \/ Stop

Spec == Init /\ [][Next]_vars

\* a proposer's transactions end and the block's end then runs to its commit
FairSpec == Spec /\ WF_vars(EndBlocker)
=============================================================================
