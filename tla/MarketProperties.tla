-------------------------- MODULE MarketProperties --------------------------
(* What the exchange promises; module MarketProofs proves some of it. *)
EXTENDS Market

OrdersType ==
  /\ orders \in [Slots -> Order \cup {NoOrder}]
  /\ \A s \in Slots : orders[s] # NoOrder =>
       orders[s].left + orders[s].dealStock = orders[s].qty

BlockType ==
  /\ phase \in {"deliver", "expire", "delist", "match", "settle", "commit"}
  /\ pending \subseteq Markets
  /\ todo \subseteq Slots
  /\ mkt \in Markets \cup {NoMarket}
  /\ bidList \in Seq(Slots) /\ askList \in Seq(Slots)
  /\ price \in Nat
  /\ newPrices \in [Markets -> Nat]

\* The type invariant.  It says more than the shape of the state: an order's
\* remaining stock and frozen amount never go below zero, although Deal
\* subtracts from them without a check.
TypeOK ==
  /\ bank \in Ledger
  /\ OrdersType
  /\ markets \in [Markets -> MarketInfo \cup {NoMarket}]
  /\ newly \subseteq Markets
  /\ delist \in [Markets -> Nat \cup {NoRequest}]
  /\ tokenForbidden \subseteq Denoms /\ addrForbidden \subseteq Denoms \X Users
  /\ height \in Nat /\ now \in Nat /\ cleanTime \in Nat
  /\ BlockType

\* The two lists hold live orders of the market being matched, each its side.
BookSound ==
  mkt # NoMarket =>
    /\ \A i \in DOMAIN bidList :
         bidList[i] \in OrdersOf(mkt) /\ orders[bidList[i]].side = "BUY"
    /\ \A i \in DOMAIN askList :
         askList[i] \in OrdersOf(mkt) /\ orders[askList[i]].side = "SELL"

\* What each phase of a block may assume of the work lists of EndBlocker.
BlockSound ==
  /\ todo \subseteq Live
  /\ phase \in {"deliver", "commit"} => todo = {}
  /\ phase # "match" => mkt = NoMarket
  /\ phase = "match" =>
       /\ \A m \in pending : Listed(m)
       /\ mkt # NoMarket => mkt \in pending
  /\ phase \in {"deliver", "expire", "delist"} => \A m \in Markets : newPrices[m] = 0
  /\ phase \in {"match", "settle"} => \A m \in Markets : newPrices[m] # 0 => Listed(m)

\* What order o still holds back of user u's coins in denom d.
Escrow(o, u, d) ==
  IF o = NoOrder \/ o.sender # u THEN 0
  ELSE (IF UsedDenom(o.side, o.market) = d THEN o.freeze ELSE 0)
       + (IF d = CET THEN o.commission + o.feature ELSE 0)

\* The frozen coins of an account are exactly what its orders hold back, also
\* between two deals of a match: the UnFreezeCoins calls whose error Deal and
\* removeOrder drop (endblocker.go:101, 103, 173, 181, 192) never fail, and no coin stays
\* frozen for an order that is gone.
EscrowExact ==
  \A u \in Users, d \in Denoms :
    bank.frozen[u][d] = SumTo([s \in Slots |-> Escrow(orders[s], u, d)], MaxOrders)

\* A buy order keeps enough money frozen for what is left of it at its limit
\* price, whatever prices its parts were dealt at, and a sell order its stock:
\* the clauses for "not enough money" (endblocker.go:29, 45, 402) are never used.
BuyerCanPay ==
  \A s \in Live : LET o == orders[s] IN
    IF o.side = "BUY" THEN D * o.freeze >= o.price * o.left ELSE o.freeze = o.left

\* No operation of the exchange makes or destroys coins.
Conservation ==
  \A d \in Denoms : Total(bank, d) = SumTo([u \in Users |-> InitCoins[u][d]], NumUsers)

Holding(b, u, d) == b.coins[u][d] + b.frozen[u][d]

\* what the orders say their owner u has gained in denom d in this step
Gained(u, d) ==
  SumTo([s \in Slots |->
           IF s \notin Live \/ orders'[s] = NoOrder \/ orders[s].sender # u THEN 0
           ELSE LET stock == orders'[s].dealStock - orders[s].dealStock
                    money == orders'[s].dealMoney - orders[s].dealMoney
                    m == orders[s].market
                    sign == IF orders[s].side = "BUY" THEN 1 ELSE -1
                IN  sign * (  (IF d = StockOf[m] THEN stock ELSE 0)
                            - (IF d = MoneyOf[m] THEN money ELSE 0))],
        MaxOrders)

\* When a match changes orders, every account gains and pays exactly what its
\* orders record as dealt: SendCoins, whose error Deal drops, is never refused
\* because a party is forbidden (endblocker.go:102, 104).
DealDelivers ==
  [][\A s \in Slots :
       s \in Live /\ orders'[s] # NoOrder /\ orders'[s] # orders[s] =>
         \A u \in Users, d \in Denoms :
           Holding(bank', u, d) - Holding(bank, u, d) = Gained(u, d)]_vars

\* While the best bid and the best ask cross, the auction's price is one both
\* accept: the loop of Match makes progress in every round (match.go:43).
PriceFound == mkt # NoMarket /\ Crossing => HeadsAccept(DealPrice)

\* Every deal of a market in one block has one price: the price that moves the
\* most stock leaves no bid and ask that still cross, so that the second round
\* the loop of Match allows for (match.go:43) never happens.
UniformPrice == price # 0 /\ Crossing => HeadsAccept(price)

\* Between blocks a market that is not flagged as newly added holds no pair of
\* orders that could deal: matching only flagged markets misses nothing.
NoMissedMatch ==
  phase \in {"deliver", "commit"} =>
    \A m \in Markets \ newly : \A b \in Bids(m), a \in Asks(m) :
      orders[b].price < orders[a].price

\* Every order belongs to a listed market, whenever transactions run: it can be
\* matched, it will expire, and delisting has not forgotten it.
OrdersHaveMarket == phase = "deliver" => \A s \in Live : Listed(orders[s].market)

\* The fee of an order removed without a deal is not above the least commission.
\* ValidateGenesis (params.go:84) asks for the opposite: both hold of equal fees,
\* as the defaults are.
ZeroDealFeeCovered == FeeForZeroDeal <= MarketFeeMin

\* The chain's own token is issued without the powers to forbid it
\* (genesis_token.go:53).  A sender who may not spend CET keeps his referee's part.
CetUnforbiddable == CET \notin TokenForbiddable \cup AddrForbiddable

\* Removing an order always collects the whole fee it owes, the referee's part
\* included: chargeFee's error clause (endblocker.go:215) is never used.
FeesCovered ==
  \A s \in Live :
    LET o == orders[s]
        b == Refund(bank, o, height)
        owed == (IF o.commission = 0 THEN 0 ELSE CalActualOrderCommission(o))
                + (IF o.tif = "GTE" /\ o.feature # 0
                   THEN CalActualOrderFeatureFee(o, height) ELSE 0)
        paid == b.collected - bank.collected
    IN  /\ RefereeOf[o.sender] = 0 => paid = owed
        /\ RefereeOf[o.sender] # 0 =>
             /\ paid <= owed
             /\ Holding(b, o.sender, CET) =
                Holding(bank, o.sender, CET)
                - (IF RefereeOf[o.sender] = o.sender THEN paid ELSE owed)

\* The orders of a settlement come out of a Go map (endblocker.go:400): whatever
\* their order, the accounts end up the same, on every node.
SettleCommutes ==
  phase = "settle" =>
    \A s, t \in {r \in todo : Finished(orders[r])} : s # t =>
      Refund(Refund(bank, orders[s], height), orders[t], height)
      = Refund(Refund(bank, orders[t], height), orders[s], height)

\* A lifetime that could take an order's expiry height beyond int64 costs a
\* feature fee that, with the least commission, is more than an order may have:
\* with the code's parameters lifetimes end near 10^17 blocks (handlers.go:159, 243).
LongLivesPricedOut ==
  /\ MaxHeight >= 1 /\ MarketFeeMin >= 1
  /\ MaxHeight + GTEOrderLifetime <= MaxInt64
  /\ \A life \in Lifetimes :
       MaxHeight + life > MaxInt64 =>
         /\ life >= GTEOrderLifetime
         /\ (life - GTEOrderLifetime) * FeatureFeeByBlocks >= MaxOrderAmount

\* A GTE order is not removed before the blocks it was created for are over,
\* also when its expiry height does not fit int64 (endblocker.go:300).
NoEarlyExpiry ==
  phase = "expire" =>
    \A s \in todo : orders[s].tif = "GTE" => orders[s].height + orders[s].exist <= height

\* Once the first block of a day has cleaned up, no order of an earlier block is
\* left whose time is over, in any market.
ExpiredGone ==
  [][phase = "delist" /\ phase' = "commit" =>
       \A s \in Live :
         orders[s].height < height => orders[s].height + orders[s].exist > height]_vars

\* EndBlocker ends: every loop of it, the matching of a market included, comes
\* to its end once the block's transactions are over.
BlockEnds == phase \in {"expire", "delist", "match", "settle"} ~> phase = "commit"
-----------------------------------------------------------------------------
(* The abstract specification *)

HeldBy(s) == [d \in Denoms |-> IF s \in Live THEN Escrow(orders[s], orders[s].sender, d) ELSE 0]

Promise == INSTANCE Custody WITH
  Coins  <- InitCoins,
  wallet <- bank.coins,
  owner  <- [s \in Slots |-> IF s \in Live THEN orders[s].sender ELSE 0],
  held   <- [s \in Slots |-> HeldBy(s)],
  pool   <- bank.collected

\* The one frozen balance of an account works like a separate box per order: an
\* order is paid, refunded and charged from its own coins only.
KeepsCustody == Promise!Spec
-----------------------------------------------------------------------------
(* What the code or its comments claim and the program does not keep *)

\* "should not reach here in production" (endblocker.go:373): every flagged
\* market is in the store when EndBlocker looks it up.
FlaggedListed == phase = "deliver" => \A m \in newly : Listed(m)

\* "both dealt orders and IOC order need further processing" (endblocker.go:278):
\* no immediate-or-cancel order outlives the block it was created in.
IocGone == phase = "commit" => \A s \in Live : orders[s].tif # "IOC"
=============================================================================
