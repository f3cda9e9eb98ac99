----------------------------- MODULE MarketProofs -----------------------------
(***************************************************************************)
(* Theorems about the exchange of module Market, for any users, tokens,    *)
(* pairs, fees and bounds.  IInv is inductive on its own; EscrowExact and  *)
(* Conservation are then proved relative to it.  Each operation has a      *)
(* lemma that says it preserves IInv.                                      *)
(***************************************************************************)
EXTENDS OrderLemmas

\* the parts of the state only single assignments write
RestType ==
  /\ newly \subseteq Markets
  /\ delist \in [Markets -> Nat \cup {NoRequest}]
  /\ tokenForbidden \subseteq Denoms /\ addrForbidden \subseteq Denoms \X Users
  /\ height \in Nat /\ now \in Nat /\ cleanTime \in Nat

\* The inductive invariant: the state's types, that every order has enough frozen
\* for what is left of it, and what each phase of a block knows of its work lists.
IInv ==
  /\ bank \in Ledger
  /\ OrdersSound
  /\ MarketsType
  /\ RestType
  /\ BlockType
  /\ BookSound
  /\ BlockSound

LEMMA IInvMeaning == IInv => TypeOK /\ BuyerCanPay
BY OrdersSoundMeaning DEF IInv, TypeOK, RestType, MarketsType

LEMMA InitIInv == Init => IInv
<1> SUFFICES ASSUME Init PROVE IInv
  OBVIOUS
<1>1. bank \in Ledger
  BY MarketAssumption DEF Init, Ledger
<1>2. Live = {}
  BY DEF Init, Live
<1>3. OrdersSound
  BY <1>2 DEF Init, OrdersSound
<1>4. MarketsType
  BY MarketAssumption DEF Init, MarketsType, MarketInfo
<1>5. RestType
  BY DEF Init, RestType, NoRequest
<1>6. BlockType
  BY DEF Init, BlockType
<1>7. BookSound /\ BlockSound
  BY DEF Init, BookSound, BlockSound
<1> QED BY <1>1, <1>3, <1>4, <1>5, <1>6, <1>7 DEF IInv

-----------------------------------------------------------------------------
(* Transactions.  They leave the work lists of EndBlocker alone. *)

\* A transaction that adds or removes no order a block still has to handle.
LEMMA DeliverStep ==
  ASSUME IInv, phase = "deliver", UNCHANGED <<phase, blockVars>>
  PROVE BlockType' /\ BookSound' /\ BlockSound'
<1>1. todo = {} /\ mkt = NoMarket
  BY DEF IInv, BlockSound
<1>2. BlockType'
  BY DEF IInv, BlockType, blockVars, dealVars
<1>3. BookSound'
  BY <1>1 DEF BookSound, blockVars, dealVars
<1>4. BlockSound'
  BY <1>1 DEF IInv, BlockSound, blockVars, dealVars
<1> QED BY <1>2, <1>3, <1>4

LEMMA CreateTradingPairIInv ==
  ASSUME IInv, NEW u \in Users, NEW m \in Markets, NEW k \in Precisions, NEW r \in Precisions,
         CreateTradingPair(u, m, k, r)
  PROVE IInv'
<1>1. bank' \in Ledger
  <2>1. CreateMarketFee \in Nat
    BY MarketAssumption
  <2> QED BY <2>1, DeductLedger DEF IInv, CreateTradingPair
<1>2. OrdersSound'
  BY DEF IInv, OrdersSound, Live, CreateTradingPair
<1>3. MarketsType'
  <2>1. [last |-> 0, pprec |-> k, oprec |-> r] \in MarketInfo
    BY MarketAssumption DEF MarketInfo
  <2> QED BY <2>1 DEF IInv, MarketsType, CreateTradingPair
<1>4. RestType'
  BY DEF IInv, RestType, CreateTradingPair, assetVars, timeVars
<1>5. BlockType' /\ BookSound' /\ BlockSound'
  BY DeliverStep DEF CreateTradingPair
<1> QED BY <1>1, <1>2, <1>3, <1>4, <1>5 DEF IInv

LEMMA CreateOrderIInv ==
  ASSUME IInv, NEW u \in Users, NEW m \in Markets, NEW side \in {"BUY", "SELL"},
         NEW p \in Prices, NEW q \in Quantities, NEW tif \in TimesInForce,
         NEW life \in Lifetimes, NEW s \in Slots,
         CreateOrder(u, m, side, p, q, tif, life, s)
  PROVE IInv'
<1> DEFINE o == NewOrder(u, m, side, p, q, tif, life)
<1>1. orders' = [orders EXCEPT ![s] = o] /\ bank' = FreezeForOrder(bank, o)
      /\ newly' = newly \cup {m} /\ phase = "deliver"
      /\ UNCHANGED <<markets, delist, assetVars, timeVars, phase, blockVars>>
  BY DEF CreateOrder
<1>2. SoundOrder(o) /\ o \in Order
  <2>1. MarketsType /\ height \in Nat
    BY DEF IInv, RestType
  <2>2. SoundOrder(o)
    BY <2>1, NewOrderSound
  <2> QED BY <2>2 DEF SoundOrder
<1> HIDE DEF o
<1>3. bank' \in Ledger
  BY <1>1, <1>2, FreezeForOrderLedger DEF IInv
<1>4. OrdersSound'
  <2>1. orders' \in [Slots -> Order \cup {NoOrder}]
    BY <1>1, <1>2 DEF IInv, OrdersSound
  <2>2. \A t \in Live' : SoundOrder(orders'[t])
    BY <1>1, <1>2 DEF IInv, OrdersSound, Live
  <2> QED BY <2>1, <2>2 DEF OrdersSound
<1>5. MarketsType' /\ RestType'
  BY <1>1 DEF IInv, MarketsType, RestType, assetVars, timeVars
<1>6. BlockType' /\ BookSound' /\ BlockSound'
  BY <1>1, DeliverStep
<1> QED BY <1>3, <1>4, <1>5, <1>6 DEF IInv

LEMMA RemoveOrderSound ==
  ASSUME IInv, NEW s \in Live, RemoveOrder(s)
  PROVE /\ bank' \in Ledger
        /\ OrdersSound'
        /\ Live' = Live \ {s}
<1>1. orders[s] \in Order /\ height \in Nat
  BY LiveOrder DEF IInv, RestType
<1>2. bank' \in Ledger
  BY <1>1, RefundLedger DEF IInv, RemoveOrder
<1>3. orders' \in [Slots -> Order \cup {NoOrder}] /\ orders'[s] = NoOrder
      /\ \A t \in Slots \ {s} : orders'[t] = orders[t]
  BY DEF IInv, OrdersSound, RemoveOrder, Live
<1>4. Live' = Live \ {s}
  BY <1>3 DEF Live
<1>5. OrdersSound'
  BY <1>3, <1>4 DEF IInv, OrdersSound, Live
<1> QED BY <1>2, <1>4, <1>5

LEMMA CancelOrderIInv ==
  ASSUME IInv, NEW u \in Users, NEW s \in Slots, CancelOrder(u, s)
  PROVE IInv'
<1>1. bank' \in Ledger /\ OrdersSound'
  BY RemoveOrderSound DEF CancelOrder
<1>2. MarketsType' /\ RestType'
  BY DEF IInv, MarketsType, RestType, CancelOrder, assetVars, timeVars
<1>3. BlockType' /\ BookSound' /\ BlockSound'
  BY DeliverStep DEF CancelOrder
<1> QED BY <1>1, <1>2, <1>3 DEF IInv

LEMMA CancelTradingPairIInv ==
  ASSUME IInv, NEW u \in Users, NEW m \in Markets, NEW t \in Nat, CancelTradingPair(u, m, t)
  PROVE IInv'
<1>1. bank' \in Ledger /\ OrdersSound' /\ MarketsType'
  BY DEF IInv, OrdersSound, Live, MarketsType, CancelTradingPair
<1>2. RestType'
  BY DEF IInv, RestType, CancelTradingPair, assetVars, timeVars
<1>3. BlockType' /\ BookSound' /\ BlockSound'
  BY DeliverStep DEF CancelTradingPair
<1> QED BY <1>1, <1>2, <1>3 DEF IInv

LEMMA ModifyPricePrecisionIInv ==
  ASSUME IInv, NEW u \in Users, NEW m \in Markets, NEW k \in Precisions,
         ModifyPricePrecision(u, m, k)
  PROVE IInv'
<1>1. bank' \in Ledger /\ OrdersSound'
  BY DEF IInv, OrdersSound, Live, ModifyPricePrecision
<1>2. MarketsType'
  <2>1. markets[m] \in MarketInfo
    BY DEF IInv, MarketsType, ModifyPricePrecision, Listed
  <2>2. [last |-> markets[m].last, pprec |-> k, oprec |-> 0] \in MarketInfo
    BY <2>1, MarketAssumption DEF MarketInfo
  <2> QED BY <2>2 DEF IInv, MarketsType, ModifyPricePrecision
<1>3. RestType'
  BY DEF IInv, RestType, ModifyPricePrecision, assetVars, timeVars
<1>4. BlockType' /\ BookSound' /\ BlockSound'
  BY DeliverStep DEF ModifyPricePrecision
<1> QED BY <1>1, <1>2, <1>3, <1>4 DEF IInv

LEMMA TransferIInv ==
  ASSUME IInv, NEW u \in Users, NEW v \in Users, NEW d \in Denoms, NEW n \in TransferAmounts,
         Transfer(u, v, d, n)
  PROVE IInv'
<1>1. bank' \in Ledger
  BY MarketAssumption, SendLedger DEF IInv, Transfer
<1>2. OrdersSound' /\ MarketsType' /\ RestType'
  BY DEF IInv, OrdersSound, Live, MarketsType, RestType, Transfer, assetVars, timeVars
<1>3. BlockType' /\ BookSound' /\ BlockSound'
  BY DeliverStep DEF Transfer
<1> QED BY <1>1, <1>2, <1>3 DEF IInv

LEMMA ForbidTokenIInv ==
  ASSUME IInv, NEW d \in Denoms, ForbidToken(d)
  PROVE IInv'
<1>1. bank' \in Ledger /\ OrdersSound' /\ MarketsType'
  BY DEF IInv, OrdersSound, Live, MarketsType, ForbidToken
<1>2. RestType'
  BY DEF IInv, RestType, ForbidToken, assetVars, timeVars
<1>3. BlockType' /\ BookSound' /\ BlockSound'
  BY DeliverStep DEF ForbidToken
<1> QED BY <1>1, <1>2, <1>3 DEF IInv

LEMMA ForbidAddrIInv ==
  ASSUME IInv, NEW d \in Denoms, NEW u \in Users, ForbidAddr(d, u)
  PROVE IInv'
<1>1. bank' \in Ledger /\ OrdersSound' /\ MarketsType'
  BY DEF IInv, OrdersSound, Live, MarketsType, ForbidAddr
<1>2. RestType'
  BY DEF IInv, RestType, ForbidAddr, assetVars, timeVars
<1>3. BlockType' /\ BookSound' /\ BlockSound'
  BY DeliverStep DEF ForbidAddr
<1> QED BY <1>1, <1>2, <1>3 DEF IInv
-----------------------------------------------------------------------------
(* The first block of a day *)

\* A step that only moves EndBlocker on: accounts, orders and markets stay.
LEMMA OnlyBlockChanges ==
  ASSUME IInv, UNCHANGED <<bank, orders, markets>>
  PROVE /\ bank' \in Ledger /\ OrdersSound' /\ MarketsType'
        /\ Live' = Live
        /\ \A m : Listed(m)' <=> Listed(m)
BY DEF IInv, OrdersSound, Live, MarketsType, Listed

LEMMA EndBlockNewDayIInv ==
  ASSUME IInv, EndBlockNewDay
  PROVE IInv'
<1>1. todo' \subseteq Live
  BY DEF EndBlockNewDay, GetOlderThan, OrdersOf
<1>2. bank' \in Ledger /\ OrdersSound' /\ MarketsType' /\ Live' = Live
  BY OnlyBlockChanges DEF EndBlockNewDay
<1>3. RestType'
  BY DEF IInv, RestType, EndBlockNewDay, assetVars
<1>4. BlockType'
  BY <1>1 DEF IInv, BlockType, EndBlockNewDay, dealVars, Live
<1>5. mkt' = NoMarket
  BY DEF IInv, BlockSound, EndBlockNewDay, dealVars
<1>6. BookSound'
  BY <1>5 DEF BookSound
<1>7. BlockSound'
  BY <1>1, <1>2, <1>5 DEF IInv, BlockSound, EndBlockNewDay
<1> QED BY <1>2, <1>3, <1>4, <1>6, <1>7 DEF IInv

LEMMA RemoveTodoIInv ==
  ASSUME IInv, NEW s \in Slots, RemoveTodo(s)
  PROVE IInv'
<1>1. s \in Live
  BY DEF IInv, BlockSound, RemoveTodo
<1>2. bank' \in Ledger /\ OrdersSound' /\ Live' = Live \ {s}
  BY <1>1, RemoveOrderSound DEF RemoveTodo
<1>3. MarketsType' /\ RestType'
  BY DEF IInv, MarketsType, RestType, RemoveTodo, assetVars, timeVars
<1>4. BlockType'
  BY DEF IInv, BlockType, RemoveTodo, dealVars
<1>5. mkt' = NoMarket
  BY DEF IInv, BlockSound, RemoveTodo, dealVars
<1>6. BookSound'
  BY <1>5 DEF BookSound
<1>7. BlockSound'
  BY <1>2, <1>5 DEF IInv, BlockSound, RemoveTodo
<1> QED BY <1>2, <1>3, <1>4, <1>6, <1>7 DEF IInv

LEMMA StartDelistIInv ==
  ASSUME IInv, StartDelist
  PROVE IInv'
<1>1. todo' \subseteq Live /\ pending' \subseteq Markets
  BY DEF StartDelist, GetOlderThan, OrdersOf
<1>2. bank' \in Ledger /\ OrdersSound' /\ MarketsType' /\ Live' = Live
  BY OnlyBlockChanges DEF StartDelist
<1>3. RestType'
  BY DEF IInv, RestType, StartDelist, assetVars, timeVars
<1>4. BlockType'
  BY <1>1 DEF IInv, BlockType, StartDelist, dealVars, Live
<1>5. mkt' = NoMarket
  BY DEF IInv, BlockSound, StartDelist, dealVars
<1>6. BookSound'
  BY <1>5 DEF BookSound
<1>7. BlockSound'
  BY <1>1, <1>2, <1>5 DEF IInv, BlockSound, StartDelist
<1> QED BY <1>2, <1>3, <1>4, <1>6, <1>7 DEF IInv

LEMMA FinishDelistIInv ==
  ASSUME IInv, FinishDelist
  PROVE IInv'
<1>1. bank' \in Ledger /\ OrdersSound'
  BY DEF IInv, OrdersSound, Live, FinishDelist
<1>2. MarketsType'
  BY DEF IInv, MarketsType, FinishDelist
<1>3. RestType'
  BY DEF IInv, RestType, FinishDelist, assetVars, timeVars
<1>4. BlockType'
  BY DEF IInv, BlockType, FinishDelist, dealVars
<1>5. mkt' = NoMarket
  BY DEF IInv, BlockSound, FinishDelist, dealVars
<1>6. BookSound'
  BY <1>5 DEF BookSound
<1>7. BlockSound'
  BY <1>5 DEF IInv, BlockSound, FinishDelist
<1> QED BY <1>1, <1>2, <1>3, <1>4, <1>6, <1>7 DEF IInv

-----------------------------------------------------------------------------
(* Any other block *)

LEMMA EndBlockIdleIInv ==
  ASSUME IInv, EndBlockIdle
  PROVE IInv'
<1>1. bank' \in Ledger /\ OrdersSound' /\ MarketsType' /\ Live' = Live
  BY OnlyBlockChanges DEF EndBlockIdle
<1>2. RestType'
  BY DEF IInv, RestType, EndBlockIdle, assetVars, timeVars
<1>3. BlockType'
  BY DEF IInv, BlockType, EndBlockIdle, blockVars, dealVars
<1>4. mkt' = NoMarket /\ todo' = {}
  BY DEF IInv, BlockSound, EndBlockIdle, blockVars, dealVars
<1>5. BookSound'
  BY <1>4 DEF BookSound
<1>6. BlockSound'
  BY <1>4 DEF BlockSound, EndBlockIdle
<1> QED BY <1>1, <1>2, <1>3, <1>5, <1>6 DEF IInv

LEMMA EndBlockMatchIInv ==
  ASSUME IInv, EndBlockMatch
  PROVE IInv'
<1>1. bank' \in Ledger /\ OrdersSound' /\ MarketsType' /\ Live' = Live
      /\ \A m : Listed(m)' <=> Listed(m)
  BY OnlyBlockChanges DEF EndBlockMatch
<1>2. RestType'
  BY DEF IInv, RestType, EndBlockMatch, assetVars, timeVars
<1>3. BlockType'
  BY DEF IInv, BlockType, RestType, EndBlockMatch, dealVars
<1>4. mkt' = NoMarket /\ todo' = {}
  BY DEF IInv, BlockSound, EndBlockMatch, dealVars
<1>5. BookSound'
  BY <1>4 DEF BookSound
<1>6. \A m \in pending' : Listed(m)'
  BY <1>1 DEF EndBlockMatch
<1>7. \A m \in Markets : newPrices'[m] = 0
  BY DEF EndBlockMatch
<1>8. BlockSound'
  BY <1>4, <1>6, <1>7 DEF BlockSound, EndBlockMatch
<1> QED BY <1>1, <1>2, <1>3, <1>5, <1>8 DEF IInv

LEMMA OpenBookIInv ==
  ASSUME IInv, NEW m \in pending, NEW bids \in SortedLists(BidCandidates(m)),
         NEW asks \in SortedLists(AskCandidates(m)), OpenBook(m, bids, asks)
  PROVE IInv'
<1>1. bank' \in Ledger /\ OrdersSound' /\ MarketsType' /\ Live' = Live
      /\ \A k : Listed(k)' <=> Listed(k)
  BY OnlyBlockChanges DEF OpenBook
<1>2. RestType'
  BY DEF IInv, RestType, OpenBook, assetVars, timeVars
<1>3. BidCandidates(m) \in SUBSET Slots /\ AskCandidates(m) \in SUBSET Slots
  BY DEF BidCandidates, AskCandidates, Bids, Asks, OrdersOf, Live
<1>4. /\ bids \in Seq(Slots) /\ \A i \in DOMAIN bids : bids[i] \in BidCandidates(m)
      /\ asks \in Seq(Slots) /\ \A i \in DOMAIN asks : asks[i] \in AskCandidates(m)
  BY <1>3, SortedListType
<1>5. m \in Markets
  BY DEF IInv, BlockType
<1>6. BlockType'
  BY <1>4, <1>5 DEF IInv, BlockType, OpenBook
<1>7. BookSound'
  <2>1. /\ \A i \in DOMAIN bids : bids[i] \in OrdersOf(m) /\ orders[bids[i]].side = "BUY"
        /\ \A i \in DOMAIN asks : asks[i] \in OrdersOf(m) /\ orders[asks[i]].side = "SELL"
    BY <1>4 DEF BidCandidates, AskCandidates, Bids, Asks
  <2>2. mkt' = m /\ bidList' = bids /\ askList' = asks /\ orders' = orders
        /\ OrdersOf(m)' = OrdersOf(m)
    BY DEF OpenBook, OrdersOf, Live
  <2> QED BY <2>1, <2>2 DEF BookSound
<1>8. BlockSound'
  BY <1>1 DEF IInv, BlockSound, OpenBook
<1> QED BY <1>1, <1>2, <1>6, <1>7, <1>8 DEF IInv

LEMMA CloseBookIInv ==
  ASSUME IInv, CloseBook
  PROVE IInv'
<1>1. bank' \in Ledger /\ OrdersSound' /\ MarketsType' /\ Live' = Live
      /\ \A k : Listed(k)' <=> Listed(k)
  BY OnlyBlockChanges DEF CloseBook
<1>2. RestType'
  BY DEF IInv, RestType, CloseBook, assetVars, timeVars
<1>3. todo' \subseteq Live
  BY DEF IInv, BlockSound, CloseBook, OrdersOf
<1>4. BlockType'
  BY <1>3 DEF IInv, BlockType, CloseBook, Live
<1>5. BookSound'
  BY DEF BookSound, CloseBook
<1>6. BlockSound'
  BY <1>1, <1>3 DEF IInv, BlockSound, CloseBook
<1> QED BY <1>1, <1>2, <1>4, <1>5, <1>6 DEF IInv

LEMMA StartSettleIInv ==
  ASSUME IInv, StartSettle
  PROVE IInv'
<1>1. bank' \in Ledger /\ OrdersSound' /\ MarketsType' /\ Live' = Live
      /\ \A k : Listed(k)' <=> Listed(k)
  BY OnlyBlockChanges DEF StartSettle
<1>2. RestType'
  BY DEF IInv, RestType, StartSettle, assetVars, timeVars
<1>3. BlockType'
  BY DEF IInv, BlockType, StartSettle, blockVars, dealVars
<1>4. mkt' = NoMarket
  BY DEF StartSettle, blockVars, dealVars
<1>5. BookSound'
  BY <1>4 DEF BookSound
<1>6. BlockSound'
  BY <1>1, <1>4 DEF IInv, BlockSound, StartSettle, blockVars
<1> QED BY <1>1, <1>2, <1>3, <1>5, <1>6 DEF IInv

LEMMA SettleIInv ==
  ASSUME IInv, NEW s \in Slots, Settle(s)
  PROVE IInv'
<1>1. s \in Live
  BY DEF IInv, BlockSound, Settle
<1>2. bank' \in Ledger /\ OrdersSound' /\ Live \ {s} \subseteq Live'
  <2>1. CASE Finished(orders[s])
    BY <1>1, <2>1, RemoveOrderSound DEF Settle
  <2>2. CASE ~Finished(orders[s])
    BY <2>2 DEF IInv, OrdersSound, Live, Settle
  <2> QED BY <2>1, <2>2
<1>3. MarketsType' /\ RestType'
  BY DEF IInv, MarketsType, RestType, Settle, assetVars, timeVars
<1>4. BlockType'
  BY DEF IInv, BlockType, Settle, dealVars
<1>5. mkt' = NoMarket
  BY DEF IInv, BlockSound, Settle, dealVars
<1>6. BookSound'
  BY <1>5 DEF BookSound
<1>7. BlockSound'
  BY <1>2, <1>5 DEF IInv, BlockSound, Settle, Listed
<1> QED BY <1>2, <1>3, <1>4, <1>6, <1>7 DEF IInv

LEMMA FinishSettleIInv ==
  ASSUME IInv, FinishSettle
  PROVE IInv'
<1>1. bank' \in Ledger /\ OrdersSound'
  BY DEF IInv, OrdersSound, Live, FinishSettle
<1>2. MarketsType'
  <2>1. \A m \in Markets : newPrices[m] # 0 => [markets[m] EXCEPT !.last = newPrices[m]] \in MarketInfo
    <3> SUFFICES ASSUME NEW m \in Markets, newPrices[m] # 0
                 PROVE [markets[m] EXCEPT !.last = newPrices[m]] \in MarketInfo
      OBVIOUS
    <3>1. markets[m] \in MarketInfo
      BY DEF IInv, BlockSound, MarketsType, FinishSettle, Listed
    <3>2. newPrices[m] \in Nat
      BY DEF IInv, BlockType
    <3> QED BY <3>1, <3>2 DEF MarketInfo
  <2> QED BY <2>1 DEF IInv, MarketsType, FinishSettle
<1>3. RestType'
  BY DEF IInv, RestType, FinishSettle, assetVars, timeVars
<1>4. BlockType'
  BY DEF IInv, BlockType, FinishSettle, blockVars, dealVars
<1>5. mkt' = NoMarket /\ todo' = {}
  BY DEF IInv, BlockSound, FinishSettle, blockVars, dealVars
<1>6. BookSound'
  BY <1>5 DEF BookSound
<1>7. BlockSound'
  BY <1>5 DEF BlockSound, FinishSettle
<1> QED BY <1>1, <1>2, <1>3, <1>4, <1>6, <1>7 DEF IInv

LEMMA NewBlockIInv ==
  ASSUME IInv, NEW gap \in Nat, NewBlock(gap)
  PROVE IInv'
<1>1. bank' \in Ledger /\ OrdersSound' /\ MarketsType' /\ Live' = Live
  BY OnlyBlockChanges DEF NewBlock
<1>2. RestType'
  BY DEF IInv, RestType, NewBlock, assetVars
<1>3. BlockType'
  BY DEF IInv, BlockType, NewBlock, dealVars
<1>4. mkt' = NoMarket /\ todo' = {}
  BY DEF IInv, BlockSound, NewBlock, dealVars
<1>5. BookSound'
  BY <1>4 DEF BookSound
<1>6. BlockSound'
  BY <1>4 DEF BlockSound, NewBlock
<1> QED BY <1>1, <1>2, <1>3, <1>5, <1>6 DEF IInv
-----------------------------------------------------------------------------
(* A deal *)

Buyer  == Head(bidList)
Seller == Head(askList)
DealAmount == Lesser(Amount(orders[Buyer]), Amount(orders[Seller]))
DealMoney  == (DealPrice * DealAmount) \div D

\* The heads are two live orders of the market, and what they deal is within
\* what each has left and has frozen.
LEMMA DealFacts ==
  ASSUME IInv, Deal
  PROVE /\ mkt \in Markets
        /\ Buyer \in OrdersOf(mkt) /\ Seller \in OrdersOf(mkt) /\ Buyer # Seller
        /\ orders[Buyer].side = "BUY" /\ orders[Seller].side = "SELL"
        /\ DealPrice \in Nat /\ DealAmount \in Nat /\ DealMoney \in Nat
        /\ DealMoney <= orders[Buyer].freeze /\ DealAmount <= orders[Seller].freeze
        /\ SoundOrder(Dealt(orders[Buyer], DealAmount, DealMoney))
        /\ SoundOrder(Dealt(orders[Seller], DealAmount, DealMoney))
        /\ bank' = Exchange(bank, orders[Seller].sender, orders[Buyer].sender, mkt,
                            DealAmount, DealMoney)
        /\ orders' = [orders EXCEPT ![Buyer] = Dealt(@, DealAmount, DealMoney),
                                    ![Seller] = Dealt(@, DealAmount, DealMoney)]
<1>1. mkt \in Markets /\ mkt # NoMarket
  BY DEF IInv, BlockType, Deal
<1>2. Buyer \in OrdersOf(mkt) /\ orders[Buyer].side = "BUY"
      /\ Seller \in OrdersOf(mkt) /\ orders[Seller].side = "SELL"
  <2>1. 1 \in DOMAIN bidList /\ Buyer = bidList[1] /\ 1 \in DOMAIN askList /\ Seller = askList[1]
    BY DEF IInv, BlockType, Deal, Crossing, Buyer, Seller
  <2> QED BY <1>1, <2>1 DEF IInv, BookSound
<1>3. Buyer # Seller
  BY <1>2
<1>4. /\ SoundOrder(orders[Buyer]) /\ orders[Buyer] \in Order
      /\ SoundOrder(orders[Seller]) /\ orders[Seller] \in Order
  BY <1>2, LiveOrder DEF OrdersOf, IInv
<1>5. DealPrice \in Nat /\ DealPrice <= orders[Buyer].price
  <2>1. DealPrice \in orders[Seller].price..orders[Buyer].price
    BY DEF Deal, HeadsAccept, AskPrice, BidPrice, Buyer, Seller
  <2>2. orders[Seller].price \in Nat /\ orders[Buyer].price \in Nat
    BY <1>4, OrderFields
  <2> HIDE DEF DealPrice
  <2> QED BY <2>1, <2>2
<1>6. DealAmount \in Nat /\ DealAmount <= orders[Buyer].left /\ DealAmount <= orders[Seller].left
  <2>1. /\ Amount(orders[Buyer]) \in Nat /\ Amount(orders[Buyer]) <= orders[Buyer].left
        /\ Amount(orders[Seller]) \in Nat /\ Amount(orders[Seller]) <= orders[Seller].left
        /\ orders[Buyer].left \in Nat /\ orders[Seller].left \in Nat
    BY <1>4, AmountType, OrderFields
  <2>2. \A x, y \in Nat : Lesser(x, y) \in Nat /\ Lesser(x, y) <= x /\ Lesser(x, y) <= y
    BY LesserNat
  <2>3. /\ DealAmount \in Nat /\ DealAmount <= Amount(orders[Buyer])
        /\ DealAmount <= Amount(orders[Seller])
    BY <2>1, <2>2 DEF DealAmount
  <2> QED BY <2>1, <2>3
<1>7. /\ DealMoney \in Nat /\ DealMoney <= orders[Buyer].freeze
      /\ SoundOrder(Dealt(orders[Buyer], DealAmount, DealMoney))
  BY <1>2, <1>4, <1>5, <1>6, DealtSound DEF DealMoney
<1>8. /\ DealAmount <= orders[Seller].freeze
      /\ SoundOrder(Dealt(orders[Seller], DealAmount, DealMoney))
  BY <1>2, <1>4, <1>5, <1>6, DealtSound DEF DealMoney
<1>9. bank' = Exchange(bank, orders[Seller].sender, orders[Buyer].sender, mkt,
                       DealAmount, DealMoney)
  BY DEF Deal, Buyer, Seller, DealAmount, DealMoney
<1>10. orders' = [orders EXCEPT ![Buyer] = Dealt(@, DealAmount, DealMoney),
                                ![Seller] = Dealt(@, DealAmount, DealMoney)]
  BY DEF Deal, Buyer, Seller, DealAmount, DealMoney
<1> QED BY <1>1, <1>2, <1>3, <1>5, <1>6, <1>7, <1>8, <1>9, <1>10

\* What a deal leaves of the orders.
LEMMA DealOrders ==
  ASSUME IInv, Deal
  PROVE /\ orders'[Buyer] = Dealt(orders[Buyer], DealAmount, DealMoney)
        /\ orders'[Seller] = Dealt(orders[Seller], DealAmount, DealMoney)
        /\ \A s \in Slots \ {Buyer, Seller} : orders'[s] = orders[s]
        /\ OrdersSound'
        /\ Live' = Live
        /\ \A s \in Live : orders'[s].side = orders[s].side /\ orders'[s].market = orders[s].market
                           /\ orders'[s].sender = orders[s].sender
<1>1. /\ Buyer \in Live /\ Seller \in Live /\ Buyer \in Slots /\ Seller \in Slots
      /\ Buyer # Seller
  BY DealFacts DEF OrdersOf, Live
<1>2. /\ orders'[Buyer] = Dealt(orders[Buyer], DealAmount, DealMoney)
      /\ orders'[Seller] = Dealt(orders[Seller], DealAmount, DealMoney)
      /\ \A s \in Slots \ {Buyer, Seller} : orders'[s] = orders[s]
      /\ DOMAIN orders' = Slots
  BY <1>1, DealFacts DEF IInv, OrdersSound
<1>3. /\ SoundOrder(orders'[Buyer]) /\ orders'[Buyer] \in Order
      /\ SoundOrder(orders'[Seller]) /\ orders'[Seller] \in Order
  BY <1>2, DealFacts DEF SoundOrder
<1>4. orders'[Buyer] # NoOrder /\ orders'[Seller] # NoOrder
  BY <1>3, AbsentAssumption DEF Order
<1>5. Live' = Live
  BY <1>1, <1>2, <1>4 DEF Live
<1>6. OrdersSound'
  <2>1. orders' \in [Slots -> Order \cup {NoOrder}]
    <3>1. \A s \in Slots : orders'[s] \in Order \cup {NoOrder}
      BY <1>2, <1>3 DEF IInv, OrdersSound
    <3>2. orders' = [orders EXCEPT ![Buyer] = Dealt(@, DealAmount, DealMoney),
                                   ![Seller] = Dealt(@, DealAmount, DealMoney)]
      BY DealFacts
    <3>3. orders' = [s \in Slots |-> orders'[s]]
      BY <3>2 DEF IInv, OrdersSound
    <3> QED BY <3>1, <3>3
  <2>2. \A s \in Live : SoundOrder(orders'[s])
    BY <1>2, <1>3 DEF IInv, OrdersSound, Live
  <2> QED BY <1>5, <2>1, <2>2 DEF OrdersSound
<1>7. \A s \in Live : orders'[s].side = orders[s].side /\ orders'[s].market = orders[s].market
                      /\ orders'[s].sender = orders[s].sender
  <2>1. \A s \in {Buyer, Seller} : orders[s] \in Order
    BY <1>1, LiveOrder DEF IInv
  <2>2. \A o \in Order : LET r == Dealt(o, DealAmount, DealMoney)
                         IN  r.side = o.side /\ r.market = o.market /\ r.sender = o.sender
    BY DEF Dealt, Order
  <2> QED BY <1>2, <2>1, <2>2 DEF Live
<1> QED BY <1>2, <1>5, <1>6, <1>7

LEMMA DealIInv ==
  ASSUME IInv, Deal
  PROVE IInv'
<1>1. mkt \in Markets /\ mkt # NoMarket /\ mkt' = mkt /\ phase = "match" /\ phase' = phase
      /\ pending' = pending /\ markets' = markets
      /\ bidList # <<>> /\ askList # <<>>
      /\ newPrices' = [newPrices EXCEPT ![mkt] = DealPrice] /\ price' = DealPrice
      /\ todo' = todo \cup {Seller, Buyer}
  BY DealFacts DEF Deal, Crossing, Buyer, Seller
<1>2. bank' \in Ledger
  <2>1. orders[Seller] \in Order /\ orders[Buyer] \in Order
    BY DealFacts, LiveOrder DEF OrdersOf, IInv
  <2> QED BY <2>1, DealFacts, OrderFields, ExchangeLedger DEF IInv
<1>3. OrdersSound' /\ Live' = Live
  BY DealOrders
<1>4. MarketsType' /\ RestType'
  BY DEF IInv, MarketsType, RestType, Deal, assetVars, timeVars
<1>5. /\ Buyer \in Live /\ Seller \in Live
      /\ Buyer \in Slots /\ Seller \in Slots
  BY DealFacts DEF OrdersOf, Live
<1>6. /\ bidList' \in {bidList, Tail(bidList)} /\ askList' \in {askList, Tail(askList)}
  BY DEF Deal, PopIfDone
<1>7. /\ bidList' \in Seq(Slots) /\ askList' \in Seq(Slots)
      /\ \A i \in DOMAIN bidList' : \E j \in DOMAIN bidList : bidList'[i] = bidList[j]
      /\ \A i \in DOMAIN askList' : \E j \in DOMAIN askList : askList'[i] = askList[j]
  <2>1. \A list \in Seq(Slots) : list # <<>> =>
          /\ Tail(list) \in Seq(Slots)
          /\ \A i \in DOMAIN Tail(list) : i + 1 \in DOMAIN list /\ Tail(list)[i] = list[i + 1]
    OBVIOUS
  <2>2. bidList \in Seq(Slots) /\ askList \in Seq(Slots)
    BY DEF IInv, BlockType
  <2> QED BY <1>1, <1>6, <2>1, <2>2
<1>8. BlockType'
  <2>1. DealPrice \in Nat /\ newPrices' \in [Markets -> Nat]
    BY <1>1, DealFacts DEF IInv, BlockType
  <2> QED BY <1>1, <1>5, <1>7, <2>1 DEF IInv, BlockType
<1>9. BookSound'
  <2>1. \A s \in OrdersOf(mkt) : s \in OrdersOf(mkt)' /\ orders'[s].side = orders[s].side
    BY <1>1, <1>3, DealOrders DEF OrdersOf
  <2> QED BY <1>1, <1>7, <2>1 DEF IInv, BookSound
<1>10. BlockSound'
  <2>1. todo' \subseteq Live'
    BY <1>1, <1>3, <1>5 DEF IInv, BlockSound
  <2>2. Listed(mkt) /\ \A m : Listed(m)' <=> Listed(m)
    BY <1>1 DEF IInv, BlockSound, Listed
  <2>3. \A m \in Markets : newPrices'[m] # 0 => Listed(m)'
    BY <1>1, <2>2 DEF IInv, BlockSound, BlockType
  <2> QED BY <1>1, <2>1, <2>2, <2>3 DEF IInv, BlockSound
<1> QED BY <1>2, <1>3, <1>4, <1>8, <1>9, <1>10 DEF IInv

-----------------------------------------------------------------------------
(* The invariant *)

LEMMA StutterIInv ==
  ASSUME IInv, UNCHANGED vars
  PROVE IInv'
<1>1. bank' \in Ledger /\ OrdersSound' /\ MarketsType' /\ Live' = Live
      /\ \A k : Listed(k)' <=> Listed(k)
  BY OnlyBlockChanges DEF vars
<1>2. RestType' /\ BlockType'
  BY DEF IInv, RestType, BlockType, vars, assetVars, timeVars, blockVars, dealVars
<1>3. BookSound'
  BY DEF IInv, BookSound, OrdersOf, Live, vars, blockVars, dealVars
<1>4. BlockSound'
  BY <1>1 DEF IInv, BlockSound, vars, blockVars, dealVars
<1> QED BY <1>1, <1>2, <1>3, <1>4 DEF IInv

LEMMA NextIInv == IInv /\ [Next]_vars => IInv'
<1> SUFFICES ASSUME IInv, [Next]_vars PROVE IInv'
  OBVIOUS
<1>1. CASE Transaction
  <2>1. ASSUME NEW u \in Users, NEW m \in Markets, NEW t \in Nat, CancelTradingPair(u, m, t)
        PROVE IInv'
    BY <2>1, CancelTradingPairIInv
  <2>2. \A t \in MarketMinExpiredTime..(now + MarketMinExpiredTime + MaxTimeGap) : t \in Nat
    BY MarketAssumption
  <2> QED BY <1>1, <2>1, <2>2, CreateTradingPairIInv, CreateOrderIInv, CancelOrderIInv,
             ModifyPricePrecisionIInv DEF Transaction
<1>2. CASE OtherModules
  BY <1>2, TransferIInv, ForbidTokenIInv, ForbidAddrIInv DEF OtherModules
<1>3. CASE EndBlocker
  BY <1>3, EndBlockNewDayIInv, StartDelistIInv, FinishDelistIInv, EndBlockIdleIInv,
     EndBlockMatchIInv, DealIInv, CloseBookIInv, StartSettleIInv, FinishSettleIInv,
     RemoveTodoIInv, SettleIInv, OpenBookIInv DEF EndBlocker
<1>4. ASSUME NEW gap \in 0..MaxTimeGap, NewBlock(gap) PROVE IInv'
  BY <1>4, NewBlockIInv, MarketAssumption
<1>5. CASE Stop \/ UNCHANGED vars
  BY <1>5, StutterIInv DEF Stop
<1> QED BY <1>1, <1>2, <1>3, <1>4, <1>5 DEF Next

\* Whatever transactions, other modules and EndBlocker do, in any order, every
\* state of the exchange satisfies the inductive invariant.
THEOREM InvariantHolds == Spec => []IInv
BY InitIInv, NextIInv, PTL DEF Spec

\* Every variable keeps its type.  In particular what is left of an order and of
\* its frozen coins never goes below zero, although Deal (endblocker.go:73)
\* subtracts from both without a check.
THEOREM TypeCorrect == Spec => []TypeOK
BY InvariantHolds, IInvMeaning, PTL

\* A buy order can always pay for what is left of it at its limit price, and a
\* sell order holds exactly the stock it has left, for any deal prices and
\* roundings: the "not enough money" clauses of endblocker.go are never used.
THEOREM BuyerCanAlwaysPay == Spec => []BuyerCanPay
BY InvariantHolds, IInvMeaning, PTL
-----------------------------------------------------------------------------
(* Conservation *)

\* No step changes how many coins of a denom there are.
LEMMA SameTotals ==
  ASSUME IInv, [Next]_vars, NEW d \in Denoms
  PROVE Total(bank', d) = Total(bank, d)
<1>1. bank \in Ledger /\ height \in Nat
  BY DEF IInv, RestType
<1>2. CASE bank' = bank
  BY <1>2
<1>3. ASSUME NEW u \in Users, NEW m \in Markets, NEW k \in Precisions, NEW r \in Precisions,
             CreateTradingPair(u, m, k, r)
      PROVE Total(bank', d) = Total(bank, d)
  <2>1. CreateMarketFee \in Nat
    BY MarketAssumption
  <2> QED BY <1>1, <1>3, <2>1, DeductTotal DEF CreateTradingPair
<1>4. ASSUME NEW u \in Users, NEW m \in Markets, NEW side \in {"BUY", "SELL"},
             NEW p \in Prices, NEW q \in Quantities, NEW tif \in TimesInForce,
             NEW life \in Lifetimes, NEW s \in Slots,
             CreateOrder(u, m, side, p, q, tif, life, s)
      PROVE Total(bank', d) = Total(bank, d)
  <2> DEFINE o == NewOrder(u, m, side, p, q, tif, life)
  <2>1. o \in Order
    BY <1>1, NewOrderSound DEF IInv, SoundOrder
  <2>2. bank' = FreezeForOrder(bank, o)
    BY <1>4 DEF CreateOrder
  <2> HIDE DEF o
  <2> QED BY <1>1, <2>1, <2>2, FreezeForOrderLedger
<1>5. ASSUME NEW s \in Live, RemoveOrder(s)
      PROVE Total(bank', d) = Total(bank, d)
  <2>1. orders[s] \in Order
    BY LiveOrder DEF IInv
  <2> QED BY <1>1, <1>5, <2>1, RefundLedger DEF RemoveOrder
<1>6. ASSUME NEW u \in Users, NEW v \in Users, NEW e \in Denoms, NEW n \in TransferAmounts,
             Transfer(u, v, e, n)
      PROVE Total(bank', d) = Total(bank, d)
  <2>1. n \in Nat
    BY MarketAssumption
  <2> QED BY <1>1, <1>6, <2>1, SendTotal DEF Transfer
<1>7. CASE Deal
  <2>1. orders[Seller] \in Order /\ orders[Buyer] \in Order
    BY <1>7, DealFacts, LiveOrder DEF OrdersOf, IInv
  <2>2. /\ bank' = Exchange(bank, orders[Seller].sender, orders[Buyer].sender, mkt,
                            DealAmount, DealMoney)
        /\ mkt \in Markets /\ DealAmount \in Nat /\ DealMoney \in Nat
    BY <1>7, DealFacts
  <2>3. orders[Seller].sender \in Users /\ orders[Buyer].sender \in Users
    BY <2>1, OrderFields
  <2> QED BY <1>1, <2>2, <2>3, ExchangeLedger
<1>8. CASE Transaction
  <2>1. ASSUME NEW u \in Users, NEW s \in Slots, CancelOrder(u, s)
        PROVE Total(bank', d) = Total(bank, d)
    BY <1>5, <2>1 DEF CancelOrder
  <2> QED BY <1>2, <1>3, <1>4, <1>8, <2>1
             DEF Transaction, CancelTradingPair, ModifyPricePrecision
<1>9. CASE OtherModules
  BY <1>2, <1>6, <1>9 DEF OtherModules, ForbidToken, ForbidAddr
<1>10. CASE EndBlocker
  <2>1. ASSUME NEW s \in Slots, RemoveTodo(s) \/ Settle(s)
        PROVE Total(bank', d) = Total(bank, d)
    <3>1. s \in Live
      BY <2>1 DEF IInv, BlockSound, RemoveTodo, Settle
    <3> QED BY <1>2, <1>5, <2>1, <3>1 DEF RemoveTodo, Settle
  <2> QED BY <1>2, <1>7, <1>10, <2>1
             DEF EndBlocker, EndBlockNewDay, StartDelist, FinishDelist, EndBlockIdle,
                 EndBlockMatch, CloseBook, StartSettle, FinishSettle, OpenBook
<1> QED BY <1>2, <1>8, <1>9, <1>10 DEF Next, NewBlock, Stop, vars

LEMMA InitConservation == Init => Conservation
<1> SUFFICES ASSUME Init, NEW d \in Denoms
             PROVE Total(bank, d) = SumTo([u \in Users |-> InitCoins[u][d]], NumUsers)
  BY DEF Conservation
<1> DEFINE f == [u \in Users |-> InitCoins[u][d]]
<1>1. bank.collected = 0
  BY DEF Init
<1>2. \A w \in 1..NumUsers : f[w] \in Int /\ Terms(bank, d)[w] = f[w]
  BY MarketAssumption DEF Init, Terms, Users
<1>3. NumUsers \in Nat
  BY BankAssumption
<1> HIDE DEF f
<1>4. SumTo(Terms(bank, d), NumUsers) = SumTo(f, NumUsers)
  BY <1>2, <1>3, SumCongruence
<1>5. SumTo(f, NumUsers) \in Int
  BY <1>2, <1>3, SumInt
<1>6. Total(bank, d) = SumTo(f, NumUsers)
  BY <1>1, <1>4, <1>5, TotalIsSum
<1> QED BY <1>6 DEF f

\* Neither a deal, a refund, a fee, a rebate nor a failed call of the bank
\* makes or destroys coins.
THEOREM CoinsConserved == Spec => []Conservation
<1>1. IInv /\ Conservation /\ [Next]_vars => Conservation'
  BY SameTotals DEF Conservation
<1> QED BY InitConservation, InvariantHolds, <1>1, PTL DEF Spec
-----------------------------------------------------------------------------
(* Escrow *)

Escrows(os, u, d) == [s \in Slots |-> Escrow(os[s], u, d)]

LEMMA EscrowsNat ==
  ASSUME OrdersSound, NEW u \in Users, NEW d \in Denoms
  PROVE \A s \in 1..MaxOrders : Escrows(orders, u, d)[s] = Escrow(orders[s], u, d)
                                /\ Escrow(orders[s], u, d) \in Nat
BY EscrowType DEF OrdersSound, Escrows, Slots

\* The frozen coins of an account that none of its orders holds back.  Market
\* alone has none; bancorlite's pools have theirs there.
Unheld(u, d) == bank.frozen[u][d] - SumTo(Escrows(orders, u, d), MaxOrders)

UnheldCovered == \A u \in Users, d \in Denoms : Unheld(u, d) >= 0

LEMMA EscrowExactMeaning ==
  ASSUME IInv
  PROVE EscrowExact <=> \A u \in Users, d \in Denoms : Unheld(u, d) = 0
<1>1. ASSUME NEW u \in Users, NEW d \in Denoms
      PROVE bank.frozen[u][d] \in Nat /\ SumTo(Escrows(orders, u, d), MaxOrders) \in Int
  BY EscrowsNat, SumInt, LedgerFields, MarketAssumption DEF IInv
<1> QED BY <1>1 DEF EscrowExact, Escrows, Unheld

LEMMA EscrowsCovered == IInv /\ EscrowExact => UnheldCovered
BY EscrowExactMeaning DEF UnheldCovered

\* What a single order holds back is frozen in its sender's account.
LEMMA EscrowFrozen ==
  ASSUME IInv, UnheldCovered, NEW s \in Slots, NEW u \in Users, NEW d \in Denoms
  PROVE Escrow(orders[s], u, d) <= bank.frozen[u][d]
<1> DEFINE f == Escrows(orders, u, d)
<1>1. \A t \in 1..MaxOrders : f[t] \in Nat /\ f[t] = Escrow(orders[t], u, d)
  BY EscrowsNat DEF IInv
<1>2. MaxOrders \in Nat /\ s \in 1..MaxOrders
  BY MarketAssumption DEF Slots
<1>3. bank.frozen[u][d] \in Nat /\ bank.frozen[u][d] - SumTo(f, MaxOrders) >= 0
  BY LedgerFields DEF IInv, UnheldCovered, Unheld
<1> HIDE DEF f
<1>4. f[s] <= SumTo(f, MaxOrders) /\ SumTo(f, MaxOrders) \in Int
  BY <1>1, <1>2, SumBoundsTerm, SumInt
<1> QED BY <1>1, <1>2, <1>3, <1>4

\* One order changes what it holds back, and the frozen coins follow.
LEMMA OneEscrowChanges ==
  ASSUME IInv, OrdersSound', NEW u \in Users, NEW d \in Denoms, NEW k \in Slots,
         \A s \in Slots \ {k} : Escrow(orders'[s], u, d) = Escrow(orders[s], u, d),
         bank'.frozen[u][d]
         = bank.frozen[u][d] + Escrow(orders'[k], u, d) - Escrow(orders[k], u, d)
  PROVE Unheld(u, d)' = Unheld(u, d)
<1> DEFINE f == Escrows(orders, u, d)
           g == Escrows(orders', u, d)
<1>1. \A s \in 1..MaxOrders : f[s] \in Int /\ f[s] = Escrow(orders[s], u, d)
  BY EscrowsNat DEF IInv
<1>2. \A s \in 1..MaxOrders : g[s] \in Int /\ g[s] = Escrow(orders'[s], u, d)
  <2>1. \A s \in 1..MaxOrders : orders'[s] \in Order \cup {NoOrder}
    BY DEF OrdersSound, Slots
  <2> QED BY <2>1, EscrowType DEF Escrows, Slots
<1>3. MaxOrders \in Nat /\ k \in 1..MaxOrders
  BY MarketAssumption DEF Slots
<1>4. \A s \in (1..MaxOrders) \ {k} : g[s] = f[s]
  BY <1>1, <1>2 DEF Slots
<1>5. /\ Unheld(u, d) = bank.frozen[u][d] - SumTo(f, MaxOrders)
      /\ Unheld(u, d)' = bank'.frozen[u][d] - SumTo(g, MaxOrders)
  BY DEF Unheld
<1>6. bank.frozen[u][d] \in Nat
  BY LedgerFields DEF IInv
<1> HIDE DEF f, g
<1>7. SumTo(g, MaxOrders) = SumTo(f, MaxOrders) + g[k] - f[k] /\ SumTo(f, MaxOrders) \in Int
  BY <1>1, <1>2, <1>3, <1>4, SumUpdate, SumInt
<1>8. bank'.frozen[u][d] = bank.frozen[u][d] + g[k] - f[k]
  BY <1>1, <1>2, <1>3
<1> QED BY <1>1, <1>2, <1>3, <1>5, <1>6, <1>7, <1>8

\* Frozen coins and orders stay.
LEMMA EscrowStays ==
  ASSUME bank'.frozen = bank.frozen, orders' = orders
  PROVE \A u \in Users, d \in Denoms : Unheld(u, d)' = Unheld(u, d)
BY DEF Unheld, Escrows

\* What a new order holds back is what its sender can afford, and freezes.
LEMMA CreateOrderFrozen ==
  ASSUME IInv, NEW u \in Users, NEW m \in Markets, NEW side \in {"BUY", "SELL"},
         NEW p \in Prices, NEW q \in Quantities, NEW tif \in TimesInForce,
         NEW life \in Lifetimes, NEW s \in Slots,
         CreateOrder(u, m, side, p, q, tif, life, s)
  PROVE LET o == NewOrder(u, m, side, p, q, tif, life)
        IN  /\ o \in Order /\ o.sender = u
            /\ bank' = FreezeForOrder(bank, o)
            /\ orders[s] = NoOrder /\ orders'[s] = o
            /\ \A t \in Slots \ {s} : orders'[t] = orders[t]
            /\ \A v \in Users, d \in Denoms :
                 bank'.frozen[v][d] = bank.frozen[v][d] + Escrow(o, v, d)
<1> DEFINE o == NewOrder(u, m, side, p, q, tif, life)
           used == UsedDenom(side, m)
<1>1. o \in Order
  BY NewOrderSound DEF IInv, RestType, SoundOrder
<1>2. o.sender = u /\ o.side = side /\ o.market = m
  BY DEF NewOrder
<1>3. /\ ~SenderForbidden(m, u) /\ CanAfford(o) /\ FreeSlot(s)
      /\ o.commission + o.feature # 0 => ~IsForbidden(CET, u)
      /\ orders' = [orders EXCEPT ![s] = o] /\ bank' = FreezeForOrder(bank, o)
  BY DEF CreateOrder
<1> HIDE DEF o
<1>4. ~IsForbidden(used, u)
  BY <1>3 DEF SenderForbidden, UsedDenom
<1>5. /\ o.commission + o.feature <= bank.coins[u][CET]
      /\ o.freeze + (IF used = CET THEN o.commission + o.feature ELSE 0) <= bank.coins[u][used]
  <2>1. /\ bank.coins[u][CET] \in Nat /\ bank.coins[u][used] \in Nat
        /\ o.freeze \in Nat /\ o.commission \in Nat /\ o.feature \in Nat
    BY <1>1, <1>2, LedgerFields, OrderFields, BankAssumption DEF IInv
  <2>2. /\ bank.coins[u][CET] >= o.commission + o.feature
        /\ bank.coins[u][used] >= o.freeze + (IF used = CET THEN o.commission + o.feature ELSE 0)
    BY <1>2, <1>3 DEF CanAfford, HasCoins
  <2> QED BY <2>1, <2>2
<1>6. \A v \in Users, d \in Denoms :
        bank'.frozen[v][d] = bank.frozen[v][d] + Escrow(o, v, d)
  BY <1>1, <1>2, <1>3, <1>4, <1>5, FreezeForOrderFrozen DEF IInv
<1>7. orders'[s] = o /\ orders[s] = NoOrder /\ \A t \in Slots \ {s} : orders'[t] = orders[t]
  BY <1>3 DEF IInv, OrdersSound, FreeSlot, Live
<1> QED BY <1>1, <1>2, <1>3, <1>6, <1>7 DEF o

LEMMA CreateOrderEscrow ==
  ASSUME IInv, NEW u \in Users, NEW m \in Markets, NEW side \in {"BUY", "SELL"},
         NEW p \in Prices, NEW q \in Quantities, NEW tif \in TimesInForce,
         NEW life \in Lifetimes, NEW s \in Slots,
         CreateOrder(u, m, side, p, q, tif, life, s)
  PROVE \A v \in Users, d \in Denoms : Unheld(v, d)' = Unheld(v, d)
<1> DEFINE o == NewOrder(u, m, side, p, q, tif, life)
<1>1. /\ o \in Order /\ orders[s] = NoOrder /\ orders'[s] = o
      /\ \A t \in Slots \ {s} : orders'[t] = orders[t]
      /\ \A v \in Users, d \in Denoms :
           bank'.frozen[v][d] = bank.frozen[v][d] + Escrow(o, v, d)
  BY CreateOrderFrozen
<1> HIDE DEF o
<1>2. OrdersSound'
  BY CreateOrderIInv DEF IInv
<1> SUFFICES ASSUME NEW v \in Users, NEW d \in Denoms
             PROVE Unheld(v, d)' = Unheld(v, d)
  OBVIOUS
<1>3. Escrow(orders[s], v, d) = 0
  BY <1>1 DEF Escrow
<1>4. bank.frozen[v][d] \in Nat /\ Escrow(o, v, d) \in Nat
  BY <1>1, LedgerFields, EscrowType DEF IInv
<1>5. bank'.frozen[v][d]
      = bank.frozen[v][d] + Escrow(orders'[s], v, d) - Escrow(orders[s], v, d)
  BY <1>1, <1>3, <1>4
<1> QED BY <1>1, <1>2, <1>5, OneEscrowChanges

LEMMA RemoveOrderEscrow ==
  ASSUME IInv, UnheldCovered, NEW s \in Live, RemoveOrder(s)
  PROVE \A u \in Users, d \in Denoms : Unheld(u, d)' = Unheld(u, d)
<1>1. s \in Slots /\ SoundOrder(orders[s]) /\ orders[s] \in Order /\ orders[s].sender \in Users
      /\ height \in Nat
  BY LiveOrder, OrderFields DEF IInv, RestType, Live
<1>2. \A e \in Denoms : Escrow(orders[s], orders[s].sender, e)
                        <= bank.frozen[orders[s].sender][e]
  BY <1>1, EscrowFrozen
<1>3. \A v \in Users, d \in Denoms :
        bank'.frozen[v][d] = bank.frozen[v][d] - Escrow(orders[s], v, d)
  BY <1>1, <1>2, RefundFrozen DEF IInv, RemoveOrder
<1>4. OrdersSound'
  BY RemoveOrderSound
<1> SUFFICES ASSUME NEW v \in Users, NEW d \in Denoms
             PROVE Unheld(v, d)' = Unheld(v, d)
  OBVIOUS
<1>5. orders'[s] = NoOrder /\ \A t \in Slots \ {s} : orders'[t] = orders[t]
  BY <1>1 DEF IInv, OrdersSound, RemoveOrder
<1>6. Escrow(orders'[s], v, d) = 0
  BY <1>5 DEF Escrow
<1>7. bank.frozen[v][d] \in Nat /\ Escrow(orders[s], v, d) \in Nat
  BY <1>1, LedgerFields, EscrowType DEF IInv
<1>8. bank'.frozen[v][d]
      = bank.frozen[v][d] + Escrow(orders'[s], v, d) - Escrow(orders[s], v, d)
  BY <1>3, <1>6, <1>7
<1> QED BY <1>1, <1>4, <1>5, <1>8, OneEscrowChanges

\* What a deal changes of an order's escrow: its used denom, and nothing else.
LEMMA DealtEscrow ==
  ASSUME NEW o \in Order, NEW amount \in Nat, NEW money \in Nat,
         Dealt(o, amount, money) \in Order, NEW u \in Users, NEW d \in Denoms
  PROVE Escrow(Dealt(o, amount, money), u, d)
        = Escrow(o, u, d) - (IF o.sender = u /\ UsedDenom(o.side, o.market) = d
                             THEN (IF o.side = "BUY" THEN money ELSE amount) ELSE 0)
<1> DEFINE r == Dealt(o, amount, money)
           part == IF o.side = "BUY" THEN money ELSE amount
<1>1. r.sender = o.sender /\ r.side = o.side /\ r.market = o.market
      /\ r.commission = o.commission /\ r.feature = o.feature /\ r.freeze = o.freeze - part
  BY DEF Dealt, Order
<1>2. o # NoOrder /\ r # NoOrder
  BY AbsentAssumption DEF Order
<1>3. o.freeze \in Nat /\ o.commission \in Nat /\ o.feature \in Nat /\ part \in Nat
  BY OrderFields
<1> HIDE DEF r, part
<1>4. Escrow(r, u, d)
      = Escrow(o, u, d) - (IF o.sender = u /\ UsedDenom(o.side, o.market) = d THEN part ELSE 0)
  BY <1>1, <1>2, <1>3 DEF Escrow
<1> QED BY <1>4 DEF r, part

\* What a deal takes is frozen in the accounts of the two senders.
LEMMA DealCovered ==
  ASSUME IInv, UnheldCovered, Deal
  PROVE /\ DealAmount <= bank.frozen[orders[Seller].sender][StockOf[mkt]]
        /\ DealMoney <= bank.frozen[orders[Buyer].sender][MoneyOf[mkt]]
<1> DEFINE stock == StockOf[mkt]
           money == MoneyOf[mkt]
           su == orders[Seller].sender
           bu == orders[Buyer].sender
<1>1. /\ mkt \in Markets /\ Buyer \in Slots /\ Seller \in Slots
      /\ orders[Buyer].side = "BUY" /\ orders[Seller].side = "SELL"
      /\ orders[Buyer].market = mkt /\ orders[Seller].market = mkt
      /\ orders[Buyer] \in Order /\ orders[Seller] \in Order
      /\ DealAmount \in Nat /\ DealMoney \in Nat
      /\ DealMoney <= orders[Buyer].freeze /\ DealAmount <= orders[Seller].freeze
  BY DealFacts, LiveOrder DEF OrdersOf, Live, IInv
<1>2. /\ stock \in Denoms /\ money \in Denoms /\ su \in Users /\ bu \in Users
      /\ UsedDenom(orders[Buyer].side, orders[Buyer].market) = money
      /\ UsedDenom(orders[Seller].side, orders[Seller].market) = stock
  BY <1>1, OrderFields, MarketAssumption DEF UsedDenom
<1>3. DealAmount <= bank.frozen[su][stock] /\ DealMoney <= bank.frozen[bu][money]
  <2>1. orders[Seller].freeze <= Escrow(orders[Seller], su, stock)
        /\ orders[Buyer].freeze <= Escrow(orders[Buyer], bu, money)
    <3>1. orders[Seller] # NoOrder /\ orders[Buyer] # NoOrder
      BY <1>1, AbsentAssumption DEF Order
    <3>2. /\ orders[Seller].freeze \in Nat /\ orders[Buyer].freeze \in Nat
          /\ orders[Seller].commission + orders[Seller].feature \in Nat
          /\ orders[Buyer].commission + orders[Buyer].feature \in Nat
      BY <1>1, OrderFields
    <3> QED BY <1>2, <3>1, <3>2 DEF Escrow
  <2>2. /\ Escrow(orders[Seller], su, stock) <= bank.frozen[su][stock]
        /\ Escrow(orders[Buyer], bu, money) <= bank.frozen[bu][money]
    BY <1>1, <1>2, EscrowFrozen
  <2>3. /\ orders[Seller].freeze \in Nat /\ orders[Buyer].freeze \in Nat
        /\ bank.frozen[su][stock] \in Nat /\ bank.frozen[bu][money] \in Nat
        /\ Escrow(orders[Seller], su, stock) \in Nat /\ Escrow(orders[Buyer], bu, money) \in Nat
    BY <1>1, <1>2, OrderFields, EscrowType, LedgerFields DEF IInv
  <2> QED BY <1>1, <2>1, <2>2, <2>3
<1> QED BY <1>3

LEMMA DealEscrow ==
  ASSUME IInv, UnheldCovered, Deal
  PROVE \A u \in Users, d \in Denoms : Unheld(u, d)' = Unheld(u, d)
<1> DEFINE stock == StockOf[mkt]
           money == MoneyOf[mkt]
           su == orders[Seller].sender
           bu == orders[Buyer].sender
<1>1. /\ mkt \in Markets /\ Buyer \in Slots /\ Seller \in Slots /\ Buyer # Seller
      /\ orders[Buyer].side = "BUY" /\ orders[Seller].side = "SELL"
      /\ orders[Buyer].market = mkt /\ orders[Seller].market = mkt
      /\ orders[Buyer] \in Order /\ orders[Seller] \in Order
      /\ DealAmount \in Nat /\ DealMoney \in Nat
      /\ DealMoney <= orders[Buyer].freeze /\ DealAmount <= orders[Seller].freeze
  BY DealFacts, LiveOrder DEF OrdersOf, Live, IInv
<1>2. /\ Dealt(orders[Buyer], DealAmount, DealMoney) \in Order
      /\ Dealt(orders[Seller], DealAmount, DealMoney) \in Order
  BY DealFacts DEF SoundOrder
<1>3. /\ stock \in Denoms /\ money \in Denoms /\ stock # money
      /\ su \in Users /\ bu \in Users
      /\ UsedDenom(orders[Buyer].side, orders[Buyer].market) = money
      /\ UsedDenom(orders[Seller].side, orders[Seller].market) = stock
  BY <1>1, OrderFields, MarketAssumption DEF UsedDenom
<1>4. \A u \in Users, d \in Denoms :
        /\ Escrow(orders'[Buyer], u, d)
           = Escrow(orders[Buyer], u, d) - (IF bu = u /\ money = d THEN DealMoney ELSE 0)
        /\ Escrow(orders'[Seller], u, d)
           = Escrow(orders[Seller], u, d) - (IF su = u /\ stock = d THEN DealAmount ELSE 0)
        /\ Escrow(orders[Buyer], u, d) \in Nat /\ Escrow(orders[Seller], u, d) \in Nat
  BY <1>1, <1>2, <1>3, DealOrders, DealtEscrow, EscrowType
<1>5. DealAmount <= bank.frozen[su][stock] /\ DealMoney <= bank.frozen[bu][money]
  BY DealCovered
<1>6. \A u \in Users, d \in Denoms :
        bank'.frozen[u][d]
        = bank.frozen[u][d] - (IF u = su /\ d = stock THEN DealAmount ELSE 0)
                            - (IF u = bu /\ d = money THEN DealMoney ELSE 0)
  BY <1>1, <1>3, <1>5, DealFacts, ExchangeFrozen DEF IInv
<1>7. OrdersSound' /\ \A s \in Slots \ {Buyer, Seller} : orders'[s] = orders[s]
  BY DealOrders
<1> HIDE DEF stock, money, su, bu
<1> SUFFICES ASSUME NEW u \in Users, NEW d \in Denoms
             PROVE Unheld(u, d)' = Unheld(u, d)
  OBVIOUS
<1>8. bank.frozen[u][d] \in Nat
  BY LedgerFields DEF IInv
<1>9. CASE u = su /\ d = stock
  <2>1. bank'.frozen[u][d]
        = bank.frozen[u][d] + Escrow(orders'[Seller], u, d) - Escrow(orders[Seller], u, d)
    BY <1>1, <1>3, <1>4, <1>6, <1>8, <1>9
  <2>2. \A s \in Slots \ {Seller} : Escrow(orders'[s], u, d) = Escrow(orders[s], u, d)
    BY <1>1, <1>3, <1>4, <1>7, <1>9
  <2> QED BY <1>1, <1>7, <2>1, <2>2, OneEscrowChanges
<1>10. CASE ~ (u = su /\ d = stock)
  <2>1. bank'.frozen[u][d]
        = bank.frozen[u][d] + Escrow(orders'[Buyer], u, d) - Escrow(orders[Buyer], u, d)
    BY <1>1, <1>4, <1>6, <1>8, <1>10
  <2>2. \A s \in Slots \ {Buyer} : Escrow(orders'[s], u, d) = Escrow(orders[s], u, d)
    BY <1>1, <1>4, <1>7, <1>10
  <2> QED BY <1>1, <1>7, <2>1, <2>2, OneEscrowChanges
<1> QED BY <1>9, <1>10

\* No step of the exchange touches frozen coins that no order holds back.
LEMMA NextUnheld ==
  ASSUME IInv, UnheldCovered, [Next]_vars
  PROVE \A u \in Users, d \in Denoms : Unheld(u, d)' = Unheld(u, d)
<1> DEFINE Same == \A u \in Users, d \in Denoms : Unheld(u, d)' = Unheld(u, d)
<1>1. CASE UNCHANGED <<bank, orders>>
  BY <1>1, EscrowStays
<1>2. ASSUME NEW s \in Live, RemoveOrder(s) PROVE Same
  BY <1>2, RemoveOrderEscrow
<1>3. CASE Transaction
  <2>1. ASSUME NEW u \in Users, NEW m \in Markets, NEW k \in Precisions, NEW r \in Precisions,
               CreateTradingPair(u, m, k, r)
        PROVE Same
    <3>1. CreateMarketFee \in Nat
      BY MarketAssumption
    <3>2. bank'.frozen = bank.frozen /\ orders' = orders
      BY <2>1, <3>1, DeductLedger DEF IInv, CreateTradingPair
    <3> QED BY <3>2, EscrowStays
  <2>2. ASSUME NEW u \in Users, NEW s \in Slots, CancelOrder(u, s)
        PROVE Same
    BY <1>2, <2>2 DEF CancelOrder
  <2> QED BY <1>1, <1>3, <2>1, <2>2, CreateOrderEscrow
             DEF Transaction, CancelTradingPair, ModifyPricePrecision
<1>4. CASE OtherModules
  <2>1. ASSUME NEW u \in Users, NEW v \in Users, NEW d \in Denoms, NEW n \in TransferAmounts,
               Transfer(u, v, d, n)
        PROVE Same
    <3>1. n \in Nat
      BY MarketAssumption
    <3>2. bank'.frozen = bank.frozen /\ orders' = orders
      BY <2>1, <3>1, SendLedger DEF IInv, Transfer
    <3> QED BY <3>2, EscrowStays
  <2> QED BY <1>1, <1>4, <2>1 DEF OtherModules, ForbidToken, ForbidAddr
<1>5. CASE EndBlocker
  <2>1. ASSUME NEW s \in Slots, RemoveTodo(s) \/ Settle(s)
        PROVE Same
    <3>1. s \in Live
      BY <2>1 DEF IInv, BlockSound, RemoveTodo, Settle
    <3> QED BY <1>1, <1>2, <2>1, <3>1 DEF RemoveTodo, Settle
  <2> QED BY <1>1, <1>5, <2>1, DealEscrow
             DEF EndBlocker, EndBlockNewDay, StartDelist, FinishDelist, EndBlockIdle,
                 EndBlockMatch, CloseBook, StartSettle, FinishSettle, OpenBook
<1> QED BY <1>1, <1>3, <1>4, <1>5 DEF Next, NewBlock, Stop, vars

LEMMA InitEscrow == Init => EscrowExact
<1> SUFFICES ASSUME Init, NEW u \in Users, NEW d \in Denoms
             PROVE bank.frozen[u][d] = SumTo(Escrows(orders, u, d), MaxOrders)
  BY DEF EscrowExact, Escrows
<1> DEFINE f == Escrows(orders, u, d)
<1>1. bank.frozen[u][d] = 0
  BY DEF Init
<1>2. \A s \in 1..MaxOrders : f[s] = 0
  BY DEF Init, Escrows, Escrow, Slots
<1>3. MaxOrders \in Nat
  BY MarketAssumption
<1> HIDE DEF f
<1>4. SumTo(f, MaxOrders) = 0
  BY <1>2, <1>3, SumOfZeros
<1> QED BY <1>1, <1>4 DEF f

\* The frozen coins of an account are, at any point of a block, exactly what its
\* orders hold back: every UnFreezeCoins of Deal and removeOrder
\* (endblocker.go:101, 103, 173, 181, 192) succeeds, whatever their error handling.
THEOREM EscrowAlwaysExact == Spec => []EscrowExact
<1>1. IInv /\ EscrowExact /\ [Next]_vars /\ IInv' => EscrowExact'
  <2> SUFFICES ASSUME IInv, EscrowExact, [Next]_vars, IInv' PROVE EscrowExact'
    OBVIOUS
  <2>1. \A u \in Users, d \in Denoms : Unheld(u, d) = 0
    BY EscrowExactMeaning
  <2>2. UnheldCovered
    BY <2>1 DEF UnheldCovered
  <2>3. \A u \in Users, d \in Denoms : Unheld(u, d)' = 0
    BY <2>1, <2>2, NextUnheld
  <2>4. ASSUME NEW u \in Users, NEW d \in Denoms
        PROVE /\ bank'.frozen[u][d] \in Nat /\ SumTo(Escrows(orders', u, d), MaxOrders) \in Int
              /\ bank'.frozen[u][d] - SumTo(Escrows(orders', u, d), MaxOrders) = 0
    <3>1. \A s \in 1..MaxOrders : Escrows(orders', u, d)[s] \in Int
      BY EscrowType DEF IInv, OrdersSound, Escrows, Slots
    <3>2. SumTo(Escrows(orders', u, d), MaxOrders) \in Int
      BY <3>1, SumInt, MarketAssumption
    <3> QED BY <2>3, <3>2, LedgerFields DEF IInv, Unheld
  <2> QED BY <2>4 DEF EscrowExact, Escrows
<1> QED BY InitEscrow, InvariantHolds, <1>1, PTL DEF Spec

-----------------------------------------------------------------------------
(* Listing and expiry *)

\* Orders are of this block or an earlier one and of a listed market, also while
\* EndBlocker works; a market that is being delisted has no order that is not
\* waiting to be removed.
ListInv ==
  /\ \A s \in Live : orders[s].height <= height /\ Listed(orders[s].market)
  /\ phase = "delist" => \A s \in Live : orders[s].market \in pending => s \in todo

\* an order of an earlier block has time left
InTime(o) == o.height < height => o.height + o.exist > height

\* From the first step of a new day on, the orders whose time is over wait to be
\* removed, and once delisting begins none of them is left.
ExpireInv ==
  /\ phase = "expire" => \A s \in Live \ todo : InTime(orders[s])
  /\ phase = "delist" => \A s \in Live : InTime(orders[s])

\* No order's expiry height overflows.
ExpiryFits ==
  /\ height <= MaxHeight
  /\ \A s \in Live : orders[s].tif = "GTE" => orders[s].height + orders[s].exist <= MaxInt64

\* A step that keeps orders, height and listings.
LEMMA ListKept ==
  ASSUME ListInv, UNCHANGED <<orders, height>>,
         \A m \in Markets : Listed(m) => markets'[m] # NoMarket,
         \A s \in Live : orders[s].market \in Markets,
         phase' \notin {"expire", "delist"}
  PROVE ListInv' /\ ExpireInv'
BY DEF ListInv, ExpireInv, Live, Listed

\* A step that removes an order and handles it, if it waits to be removed.
LEMMA ListRemoved ==
  ASSUME ListInv, ExpireInv, NEW s \in Live, Live' = Live \ {s},
         \A t \in Slots \ {s} : orders'[t] = orders[t],
         UNCHANGED <<markets, height, phase, pending>>,
         todo \ {s} \subseteq todo'
  PROVE ListInv' /\ ExpireInv'
<1>1. \A t \in Live' : t \in Live /\ t # s /\ orders'[t] = orders[t]
  BY DEF Live
<1>2. ListInv'
  BY <1>1 DEF ListInv, Listed
<1>3. ExpireInv'
  BY <1>1 DEF ExpireInv, InTime
<1> QED BY <1>2, <1>3

LEMMA ListCreateOrder ==
  ASSUME IInv, ListInv, NEW u \in Users, NEW m \in Markets, NEW side \in {"BUY", "SELL"},
         NEW p \in Prices, NEW q \in Quantities, NEW tif \in TimesInForce,
         NEW life \in Lifetimes, NEW s \in Slots,
         CreateOrder(u, m, side, p, q, tif, life, s)
  PROVE ListInv' /\ ExpireInv'
<1> DEFINE o == NewOrder(u, m, side, p, q, tif, life)
<1>1. o.height = height /\ o.market = m
  BY DEF NewOrder
<1>2. /\ orders' = [orders EXCEPT ![s] = o] /\ Listed(m)
      /\ height' = height /\ markets' = markets /\ phase' = "deliver"
  BY DEF CreateOrder, timeVars
<1> HIDE DEF o
<1>3. \A t \in Live' : IF t = s THEN orders'[t] = o ELSE t \in Live /\ orders'[t] = orders[t]
  BY <1>2 DEF Live, IInv, OrdersSound
<1>4. height \in Nat
  BY DEF IInv, RestType
<1>5. \A t \in Live' : orders'[t].height <= height /\ Listed(orders'[t].market)
  BY <1>1, <1>2, <1>3, <1>4 DEF ListInv
<1>6. ListInv'
  BY <1>2, <1>5 DEF ListInv, Listed
<1>7. ExpireInv'
  BY <1>2 DEF ExpireInv
<1> QED BY <1>6, <1>7

\* The orders the first block of a day does not take have time left.
LEMMA ListNewDay ==
  ASSUME IInv, ListInv, EndBlockNewDay
  PROVE ListInv' /\ ExpireInv'
<1>1. /\ UNCHANGED <<orders, markets, height>> /\ phase' = "expire"
      /\ Live' = Live
  BY DEF EndBlockNewDay, Live
<1>2. ListInv'
  BY <1>1 DEF ListInv, Listed
<1>3. ASSUME NEW s \in Live, s \notin todo', orders[s].height < height
      PROVE orders[s].height + orders[s].exist > height
  <2>1. orders[s].market \in Markets /\ Listed(orders[s].market)
    BY LiveOrder, OrderFields DEF IInv, ListInv
  <2>2. s \in UNION {GetOlderThan(m, height) : m \in {k \in Markets : Listed(k)}}
    BY <1>3, <2>1 DEF GetOlderThan, OrdersOf
  <2>3. ~Expired(orders[s])
    BY <1>3, <2>2 DEF EndBlockNewDay
  <2>4. /\ orders[s].height \in Nat /\ orders[s].exist \in Nat /\ height \in Nat
        /\ MaxInt64 \in Nat
    BY LiveOrder, OrderFields, MarketAssumption DEF IInv, RestType
  <2> QED BY <2>3, <2>4 DEF Expired, AddInt64
<1>4. ExpireInv'
  BY <1>1, <1>3 DEF ExpireInv, InTime
<1> QED BY <1>2, <1>4

LEMMA ListStartDelist ==
  ASSUME IInv, ListInv, ExpireInv, StartDelist
  PROVE ListInv' /\ ExpireInv'
<1>1. /\ UNCHANGED <<orders, markets, height>> /\ phase' = "delist" /\ phase = "expire"
      /\ Live' = Live /\ todo = {}
      /\ todo' = UNION {GetOlderThan(m, height + 1) : m \in pending'}
  BY DEF StartDelist, Live, timeVars
<1>2. ASSUME NEW s \in Live, orders[s].market \in pending'
      PROVE s \in todo'
  <2>1. orders[s].height <= height /\ orders[s].height \in Nat /\ height \in Nat
    BY LiveOrder, OrderFields DEF IInv, ListInv, RestType
  <2>2. s \in GetOlderThan(orders[s].market, height + 1)
    BY <2>1 DEF GetOlderThan, OrdersOf
  <2> QED BY <1>1, <1>2, <2>2
<1>3. ListInv'
  BY <1>1, <1>2 DEF ListInv, Listed
<1>4. ExpireInv'
  BY <1>1 DEF ExpireInv, InTime
<1> QED BY <1>3, <1>4

\* A market is taken off the list with none of its orders left.
LEMMA ListFinishDelist ==
  ASSUME IInv, ListInv, FinishDelist
  PROVE ListInv' /\ ExpireInv'
<1>1. /\ UNCHANGED <<orders, height>> /\ phase' = "commit" /\ phase = "delist" /\ todo = {}
      /\ markets' = [m \in Markets |-> IF m \in pending THEN NoMarket ELSE markets[m]]
      /\ Live' = Live
  BY DEF FinishDelist, Live, timeVars
<1>2. \A s \in Live : orders[s].market \in Markets /\ orders[s].market \notin pending
  BY <1>1, LiveOrder, OrderFields DEF IInv, ListInv
<1>3. \A s \in Live : markets'[orders[s].market] = markets[orders[s].market]
  BY <1>1, <1>2
<1>4. ListInv'
  BY <1>1, <1>3 DEF ListInv, Listed
<1>5. ExpireInv'
  BY <1>1 DEF ExpireInv
<1> QED BY <1>4, <1>5

\* A deal keeps where an order belongs and how long it lives.
LEMMA DealKeepsLife ==
  ASSUME IInv, Deal
  PROVE /\ Live' = Live
        /\ \A s \in Live : /\ orders'[s].market = orders[s].market
                           /\ orders'[s].height = orders[s].height
                           /\ orders'[s].exist = orders[s].exist
                           /\ orders'[s].tif = orders[s].tif
<1>1. \A o \in Order : LET r == Dealt(o, DealAmount, DealMoney)
                       IN  /\ r.market = o.market /\ r.height = o.height
                           /\ r.exist = o.exist /\ r.tif = o.tif
  BY DEF Dealt, Order
<1>2. \A s \in Live : s \in Slots /\ orders[s] \in Order
  BY LiveOrder DEF IInv, Live
<1> QED BY <1>1, <1>2, DealOrders

LEMMA ListDeal ==
  ASSUME IInv, ListInv, Deal
  PROVE ListInv' /\ ExpireInv'
<1>1. UNCHANGED <<markets, height>> /\ phase' = "match"
  BY DEF Deal, timeVars
<1>2. \A s \in Live' : s \in Live /\ orders'[s].market = orders[s].market
                       /\ orders'[s].height = orders[s].height
  BY DealKeepsLife
<1>3. ListInv'
  BY <1>1, <1>2 DEF ListInv, Listed
<1>4. ExpireInv'
  BY <1>1 DEF ExpireInv
<1> QED BY <1>3, <1>4

LEMMA ListNewBlock ==
  ASSUME IInv, ListInv, NEW gap \in Nat, NewBlock(gap)
  PROVE ListInv' /\ ExpireInv'
<1>1. /\ UNCHANGED <<orders, markets>> /\ phase' = "deliver" /\ height' = height + 1
      /\ Live' = Live
  BY DEF NewBlock, Live
<1>2. \A s \in Live : orders[s].height \in Nat /\ height \in Nat
  BY LiveOrder, OrderFields DEF IInv, RestType
<1>3. ListInv'
  BY <1>1, <1>2 DEF ListInv, Listed
<1>4. ExpireInv'
  BY <1>1 DEF ExpireInv
<1> QED BY <1>3, <1>4

LEMMA NextListInv == IInv /\ ListInv /\ ExpireInv /\ [Next]_vars => ListInv' /\ ExpireInv'
<1> SUFFICES ASSUME IInv, ListInv, ExpireInv, [Next]_vars PROVE ListInv' /\ ExpireInv'
  OBVIOUS
<1> DEFINE Goal == ListInv' /\ ExpireInv'
<1>0. \A s \in Live : orders[s].market \in Markets
  BY LiveOrder, OrderFields DEF IInv
<1>1. ASSUME UNCHANGED <<orders, height, markets>>, phase' \notin {"expire", "delist"} PROVE Goal
  BY <1>0, <1>1, ListKept DEF Listed
<1>2. ASSUME NEW s \in Live, RemoveOrder(s), UNCHANGED <<markets, height, phase, pending>>,
             todo \ {s} \subseteq todo'
      PROVE Goal
  <2>1. Live' = Live \ {s}
    BY <1>2, RemoveOrderSound
  <2>2. \A t \in Slots \ {s} : orders'[t] = orders[t]
    BY <1>2 DEF RemoveOrder, IInv, OrdersSound
  <2> QED BY <1>2, <2>1, <2>2, ListRemoved
<1>3. CASE Transaction
  <2>1. ASSUME NEW u \in Users, NEW m \in Markets, NEW k \in Precisions, NEW r \in Precisions,
               CreateTradingPair(u, m, k, r)
        PROVE Goal
    <3>1. [last |-> 0, pprec |-> k, oprec |-> r] # NoMarket
      BY MarketAssumption, AbsentAssumption
    <3>2. \A n \in Markets : Listed(n) => markets'[n] # NoMarket
      BY <2>1, <3>1 DEF CreateTradingPair, Listed, IInv, MarketsType
    <3> QED BY <1>0, <2>1, <3>2, ListKept DEF CreateTradingPair, timeVars
  <2>2. ASSUME NEW u \in Users, NEW m \in Markets, NEW k \in Precisions,
               ModifyPricePrecision(u, m, k)
        PROVE Goal
    <3>1. MarketsType'
      BY <2>2, ModifyPricePrecisionIInv DEF IInv
    <3>2. markets' = [markets EXCEPT ![m] = [last |-> @.last, pprec |-> k, oprec |-> 0]]
          /\ Listed(m)
      BY <2>2 DEF ModifyPricePrecision
    <3>3. markets'[m] # NoMarket
      <4>1. markets[m].last \in Nat
        BY <3>2 DEF Listed, IInv, MarketsType, MarketInfo
      <4>2. [last |-> markets[m].last, pprec |-> k, oprec |-> 0] # NoMarket
        BY <4>1, MarketAssumption, AbsentAssumption
      <4> QED BY <3>2, <4>2 DEF IInv, MarketsType
    <3>4. \A n \in Markets : Listed(n) => markets'[n] # NoMarket
      BY <3>2, <3>3 DEF Listed, IInv, MarketsType
    <3> QED BY <1>0, <2>2, <3>4, ListKept DEF ModifyPricePrecision, timeVars
  <2>3. ASSUME NEW u \in Users, NEW s \in Slots, CancelOrder(u, s) PROVE Goal
    BY <1>2, <2>3 DEF CancelOrder, timeVars, blockVars
  <2>4. ASSUME NEW u \in Users, NEW m \in Markets, NEW t, CancelTradingPair(u, m, t) PROVE Goal
    BY <1>1, <2>4 DEF CancelTradingPair, timeVars
  <2> QED BY <1>3, <2>1, <2>2, <2>3, <2>4, ListCreateOrder DEF Transaction
<1>4. CASE OtherModules
  BY <1>1, <1>4 DEF OtherModules, Transfer, ForbidToken, ForbidAddr, timeVars
<1>5. CASE EndBlocker
  <2>1. ASSUME NEW s \in Slots, RemoveTodo(s) PROVE Goal
    <3>1. s \in Live
      BY <2>1 DEF IInv, BlockSound, RemoveTodo
    <3> QED BY <1>2, <2>1, <3>1 DEF RemoveTodo, timeVars
  <2>2. ASSUME NEW s \in Slots, Settle(s) PROVE Goal
    <3>1. s \in Live
      BY <2>2 DEF IInv, BlockSound, Settle
    <3> QED BY <1>1, <1>2, <2>2, <3>1 DEF Settle, timeVars
  <2>3. CASE FinishSettle
    <3>1. \A m \in Markets : Listed(m) => markets'[m] # NoMarket
      <4>1. ASSUME NEW m \in Markets, Listed(m) PROVE markets'[m] # NoMarket
        <5>1. markets[m] \in MarketInfo /\ newPrices[m] \in Nat
          BY <4>1 DEF Listed, IInv, MarketsType, BlockType
        <5>2. markets'[m] = IF newPrices[m] = 0 THEN markets[m]
                            ELSE [markets[m] EXCEPT !.last = newPrices[m]]
          BY <2>3 DEF FinishSettle
        <5>3. markets'[m] \in MarketInfo
          BY <5>1, <5>2 DEF MarketInfo
        <5> QED BY <5>3, AbsentAssumption DEF MarketInfo
      <4> QED BY <4>1
    <3> QED BY <1>0, <2>3, <3>1, ListKept DEF FinishSettle, timeVars
  <2>4. CASE EndBlockIdle \/ EndBlockMatch \/ CloseBook \/ StartSettle
    BY <1>1, <2>4 DEF EndBlockIdle, EndBlockMatch, CloseBook, StartSettle, timeVars
  <2>5. ASSUME NEW m \in pending, NEW bids \in SortedLists(BidCandidates(m)),
               NEW asks \in SortedLists(AskCandidates(m)), OpenBook(m, bids, asks)
        PROVE Goal
    BY <1>1, <2>5 DEF OpenBook, timeVars
  <2> QED BY <1>5, <2>1, <2>2, <2>3, <2>4, <2>5, ListNewDay, ListStartDelist,
             ListFinishDelist, ListDeal DEF EndBlocker
<1>6. ASSUME NEW gap \in 0..MaxTimeGap, NewBlock(gap) PROVE Goal
  BY <1>6, ListNewBlock, MarketAssumption
<1>7. CASE Stop \/ UNCHANGED vars
  BY <1>7 DEF Stop, vars, timeVars, blockVars, ListInv, ExpireInv, Listed, Live, InTime
<1> QED BY <1>3, <1>4, <1>5, <1>6, <1>7 DEF Next

LEMMA InitListInv == Init => ListInv /\ ExpireInv
BY DEF Init, ListInv, ExpireInv, Live

LEMMA ListInvHolds == Spec => [](ListInv /\ ExpireInv)
<1>1. IInv /\ (ListInv /\ ExpireInv) /\ [Next]_vars => (ListInv /\ ExpireInv)'
  BY NextListInv
<1> QED BY InitListInv, InvariantHolds, <1>1, PTL DEF Spec

\* Every order belongs to a listed market, in every state of a block: delisting
\* removes all orders of a market first (endblocker.go:321-336), those of its
\* last block included, and nothing else takes a market from the store.
THEOREM OrdersAlwaysListed == Spec => []OrdersHaveMarket
<1>1. ListInv => OrdersHaveMarket
  BY DEF ListInv, OrdersHaveMarket
<1> QED BY ListInvHolds, <1>1, PTL

\* Whatever the lifetimes, the clean-up of a new day leaves no order of an earlier
\* block whose time is over, also where the expiry height overflows int64: it
\* then comes out lower than it is (endblocker.go:300), never higher.
THEOREM ExpiredAlwaysGone == Spec => ExpiredGone
<1>1. IInv /\ ExpireInv /\ [Next]_vars =>
        [phase = "delist" /\ phase' = "commit" =>
           \A s \in Live :
             orders[s].height < height => orders[s].height + orders[s].exist > height]_vars
  BY DEF ExpireInv, InTime
<1> QED BY InvariantHolds, ListInvHolds, <1>1, PTL DEF Spec, ExpiredGone

\* An order whose expiry height would not fit costs more than orders may cost.
LEMMA CreatedFits ==
  ASSUME LongLivesPricedOut, IInv, ExpiryFits,
         NEW u \in Users, NEW m \in Markets, NEW side \in {"BUY", "SELL"},
         NEW p \in Prices, NEW q \in Quantities, NEW tif \in TimesInForce,
         NEW life \in Lifetimes, NEW s \in Slots,
         CreateOrder(u, m, side, p, q, tif, life, s)
  PROVE LET o == NewOrder(u, m, side, p, q, tif, life)
        IN  o.tif = "GTE" => o.height + o.exist <= MaxInt64
<1> DEFINE o == NewOrder(u, m, side, p, q, tif, life)
<1> SUFFICES ASSUME o.tif = "GTE" PROVE o.height + o.exist <= MaxInt64
  OBVIOUS
<1>1. /\ height \in Nat /\ height <= MaxHeight /\ MaxHeight \in Nat /\ MaxInt64 \in Nat
      /\ life \in Nat /\ GTEOrderLifetime \in Nat /\ FeatureFeeByBlocks \in Nat
      /\ MaxOrderAmount \in Nat /\ MarketFeeMin \in Nat
  BY MarketAssumption DEF IInv, RestType, ExpiryFits
<1>2. /\ o.height = height /\ tif = "GTE"
      /\ o.exist = IF life = 0 THEN GTEOrderLifetime ELSE life
      /\ o.commission = CalCommission(m, p, q) /\ o.feature = CalFeatureFee("GTE", life)
  BY DEF NewOrder
<1>3. CASE life = 0
  BY <1>1, <1>2, <1>3 DEF LongLivesPricedOut
<1>4. CASE life # 0
  <2>1. o.commission \in Nat /\ o.feature \in Nat /\ o.commission + o.feature <= MaxOrderAmount
    <3>1. o \in Order
      BY NewOrderSound DEF IInv, RestType, SoundOrder
    <3>2. AmountsAllowed(o)
      BY DEF CreateOrder
    <3> HIDE DEF o
    <3> QED BY <3>1, <3>2, OrderFields DEF AmountsAllowed
  <2>2. o.commission >= MarketFeeMin
    <3>1. RawCommission(m, p, q) \in Nat
      <4>1. p \in Nat /\ q \in Nat
        BY MarketAssumption
      <4>2. p * q \in Nat
        BY <4>1, ProductNat
      <4>3. MoneyAmount(p, q) \in Nat
        BY <4>2, CeilDivBounds, MarketAssumption DEF MoneyAmount
      <4> DEFINE v == GetMarketVolume(m, q, MoneyAmount(p, q))
      <4>4. v.num \in Nat /\ v.den \in Nat \ {0}
        BY <4>1, <4>3, VolumeType DEF IInv
      <4> HIDE DEF v
      <4>5. v.num * RateNum \in Nat /\ v.den * RateDen \in Nat \ {0}
        BY <4>4, MarketAssumption
      <4> QED BY <4>5, CeilDivBounds DEF RawCommission, v
    <3> QED BY <1>1, <1>2, <3>1 DEF CalCommission, Greater
  <2>3. MarketFeeMin >= 1
    BY DEF LongLivesPricedOut
  <2> HIDE DEF o
  <2>4. o.feature < MaxOrderAmount
    BY <1>1, <2>1, <2>2, <2>3
  <2>5. ~ (life >= GTEOrderLifetime
           /\ (life - GTEOrderLifetime) * FeatureFeeByBlocks >= MaxOrderAmount)
    BY <1>1, <1>2, <2>4 DEF CalFeatureFee, Lesser
  <2>6. MaxHeight + life <= MaxInt64
    <3>1. ~ (MaxHeight + life > MaxInt64)
      BY <2>5 DEF LongLivesPricedOut
    <3> QED BY <1>1, <3>1
  <2> QED BY <1>1, <1>2, <1>4, <2>6
<1> QED BY <1>3, <1>4

\* A step that adds no order and keeps when the orders of EndBlocker end.
LEMMA FitsKept ==
  ASSUME ExpiryFits, NoEarlyExpiry, height' = height,
         \A s \in Live' : /\ s \in Live
                          /\ orders'[s].tif = orders[s].tif
                          /\ orders'[s].height = orders[s].height
                          /\ orders'[s].exist = orders[s].exist,
         phase' = "expire" => phase = "expire" /\ todo' \subseteq todo /\ todo' \subseteq Live'
  PROVE ExpiryFits' /\ NoEarlyExpiry'
<1>1. ExpiryFits'
  BY DEF ExpiryFits
<1>2. NoEarlyExpiry'
  BY DEF NoEarlyExpiry
<1> QED BY <1>1, <1>2

LEMMA NextFits ==
  ASSUME LongLivesPricedOut, IInv, IInv', ExpiryFits, NoEarlyExpiry, [Next]_vars
  PROVE ExpiryFits' /\ NoEarlyExpiry'
<1> DEFINE Goal == ExpiryFits' /\ NoEarlyExpiry'
<1>1. ASSUME UNCHANGED <<orders, height>>, phase' # "expire" PROVE Goal
  <2>1. Live' = Live
    BY <1>1 DEF Live
  <2> QED BY <1>1, <2>1, FitsKept
<1>2. ASSUME NEW s \in Live, RemoveOrder(s), height' = height,
             phase' = "expire" => phase = "expire" /\ todo' \subseteq todo
      PROVE Goal
  <2>1. Live' = Live \ {s}
    BY <1>2, RemoveOrderSound
  <2>2. \A t \in Live' : t \in Live /\ orders'[t] = orders[t]
    BY <1>2, <2>1 DEF RemoveOrder, IInv, OrdersSound, Live
  <2>3. todo' \subseteq Live'
    BY DEF IInv, BlockSound
  <2> QED BY <1>2, <2>2, <2>3, FitsKept
<1>3. ASSUME NEW u \in Users, NEW m \in Markets, NEW side \in {"BUY", "SELL"},
             NEW p \in Prices, NEW q \in Quantities, NEW tif \in TimesInForce,
             NEW life \in Lifetimes, NEW s \in Slots,
             CreateOrder(u, m, side, p, q, tif, life, s)
      PROVE Goal
  <2> DEFINE o == NewOrder(u, m, side, p, q, tif, life)
  <2>1. o.tif = "GTE" => o.height + o.exist <= MaxInt64
    BY <1>3, CreatedFits
  <2>2. orders' = [orders EXCEPT ![s] = o] /\ height' = height /\ phase' = "deliver"
    BY <1>3 DEF CreateOrder, timeVars
  <2> HIDE DEF o
  <2>3. \A t \in Live' : IF t = s THEN orders'[t] = o ELSE t \in Live /\ orders'[t] = orders[t]
    BY <2>2 DEF Live, IInv, OrdersSound
  <2>4. ExpiryFits'
    BY <2>1, <2>2, <2>3 DEF ExpiryFits
  <2>5. NoEarlyExpiry'
    BY <2>2 DEF NoEarlyExpiry
  <2> QED BY <2>4, <2>5
<1>4. CASE Transaction
  <2>1. ASSUME NEW u \in Users, NEW s \in Slots, CancelOrder(u, s) PROVE Goal
    BY <1>2, <2>1 DEF CancelOrder, timeVars
  <2> QED BY <1>1, <1>3, <1>4, <2>1
          DEF Transaction, CreateTradingPair, CancelTradingPair, ModifyPricePrecision, timeVars
<1>5. CASE OtherModules
  BY <1>1, <1>5 DEF OtherModules, Transfer, ForbidToken, ForbidAddr, timeVars
<1>6. CASE EndBlockNewDay
  <2>1. /\ UNCHANGED <<orders, height>> /\ Live' = Live
        /\ \A s \in todo' : s \in Live /\ Expired(orders[s])
    BY <1>6 DEF EndBlockNewDay, Live, GetOlderThan, OrdersOf
  <2>2. ExpiryFits'
    BY <2>1 DEF ExpiryFits
  <2>3. ASSUME NEW s \in todo', orders[s].tif = "GTE"
        PROVE orders[s].height + orders[s].exist <= height
    <3>1. /\ orders[s].height \in Nat /\ orders[s].exist \in Nat /\ MaxInt64 \in Nat
          /\ orders[s].height + orders[s].exist <= MaxInt64
      BY <2>1, <2>3, LiveOrder, OrderFields, MarketAssumption DEF IInv, ExpiryFits
    <3>2. Expired(orders[s])
      BY <2>1
    <3>3. AddInt64(orders[s].height, orders[s].exist) = orders[s].height + orders[s].exist
      BY <3>1 DEF AddInt64
    <3> QED BY <3>2, <3>3 DEF Expired
  <2>4. NoEarlyExpiry'
    BY <2>1, <2>3 DEF NoEarlyExpiry
  <2> QED BY <2>2, <2>4
<1>7. CASE EndBlocker
  <2>1. ASSUME NEW s \in Slots, RemoveTodo(s) PROVE Goal
    <3>1. s \in Live
      BY <2>1 DEF IInv, BlockSound, RemoveTodo
    <3>2. RemoveOrder(s) /\ height' = height /\ phase' = phase /\ todo' \subseteq todo
      BY <2>1 DEF RemoveTodo, timeVars
    <3> QED BY <1>2, <3>1, <3>2
  <2>2. ASSUME NEW s \in Slots, Settle(s) PROVE Goal
    <3>1. s \in Live
      BY <2>2 DEF IInv, BlockSound, Settle
    <3> QED BY <1>1, <1>2, <2>2, <3>1 DEF Settle, timeVars
  <2>3. CASE Deal
    <3>1. height' = height /\ phase' = "match"
      BY <2>3 DEF Deal, timeVars
    <3> QED BY <2>3, <3>1, DealKeepsLife, FitsKept
  <2>4. CASE StartDelist \/ FinishDelist \/ FinishSettle
    BY <1>1, <2>4 DEF StartDelist, FinishDelist, FinishSettle, timeVars
  <2>5. CASE EndBlockIdle \/ EndBlockMatch \/ CloseBook \/ StartSettle
    BY <1>1, <2>5 DEF EndBlockIdle, EndBlockMatch, CloseBook, StartSettle, timeVars
  <2>6. ASSUME NEW m \in pending, NEW bids \in SortedLists(BidCandidates(m)),
               NEW asks \in SortedLists(AskCandidates(m)), OpenBook(m, bids, asks)
        PROVE Goal
    BY <1>1, <2>6 DEF OpenBook, timeVars
  <2> QED BY <1>6, <1>7, <2>1, <2>2, <2>3, <2>4, <2>5, <2>6 DEF EndBlocker
<1>8. ASSUME NEW gap \in 0..MaxTimeGap, NewBlock(gap) PROVE Goal
  <2>1. /\ orders' = orders /\ phase' = "deliver" /\ height < MaxHeight /\ height' = height + 1
        /\ Live' = Live
    BY <1>8 DEF NewBlock, Live
  <2>2. height \in Nat /\ MaxHeight \in Nat
    BY MarketAssumption DEF IInv, RestType
  <2>3. ExpiryFits'
    BY <2>1, <2>2 DEF ExpiryFits
  <2>4. NoEarlyExpiry'
    BY <2>1 DEF NoEarlyExpiry
  <2> QED BY <2>3, <2>4
<1>9. CASE Stop \/ UNCHANGED vars
  BY <1>9 DEF Stop, vars, timeVars, blockVars, ExpiryFits, NoEarlyExpiry, Live
<1> QED BY <1>4, <1>5, <1>7, <1>8, <1>9 DEF Next

\* A GTE order is not removed before the blocks it was created for are over: the
\* sum of its height and lifetime (endblocker.go:300) never leaves int64, because
\* a lifetime that long could not be paid for.  The hypothesis is about the
\* parameters only; the code's meet it by a wide margin.
THEOREM NeverExpiresEarly == LongLivesPricedOut /\ Spec => []NoEarlyExpiry
<1> SUFFICES ASSUME LongLivesPricedOut PROVE Spec => []NoEarlyExpiry
  OBVIOUS
<1>1. Init => ExpiryFits /\ NoEarlyExpiry
  BY DEF Init, ExpiryFits, NoEarlyExpiry, Live, LongLivesPricedOut
<1>2. IInv /\ IInv' /\ (ExpiryFits /\ NoEarlyExpiry) /\ [Next]_vars
      => (ExpiryFits /\ NoEarlyExpiry)'
  BY NextFits
<1> QED BY InvariantHolds, <1>1, <1>2, PTL DEF Spec

-----------------------------------------------------------------------------
(* Deals deliver *)

\* The senders of the orders in the two lists may spend both tokens.
ListsAllowed ==
  mkt # NoMarket =>
    /\ \A i \in DOMAIN bidList : ~SenderForbidden(mkt, orders[bidList[i]].sender)
    /\ \A i \in DOMAIN askList : ~SenderForbidden(mkt, orders[askList[i]].sender)

LEMMA OpenBookAllowed ==
  ASSUME IInv, NEW m \in pending, NEW bids \in SortedLists(BidCandidates(m)),
         NEW asks \in SortedLists(AskCandidates(m)), OpenBook(m, bids, asks)
  PROVE ListsAllowed'
<1>1. BidCandidates(m) \in SUBSET Slots /\ AskCandidates(m) \in SUBSET Slots
  BY DEF BidCandidates, AskCandidates, Bids, Asks, OrdersOf, Live
<1>2. /\ \A i \in DOMAIN bids : ~SenderForbidden(m, orders[bids[i]].sender)
      /\ \A i \in DOMAIN asks : ~SenderForbidden(m, orders[asks[i]].sender)
  BY <1>1, SortedListType DEF BidCandidates, AskCandidates
<1>3. /\ mkt' = m /\ bidList' = bids /\ askList' = asks /\ orders' = orders
      /\ UNCHANGED <<tokenForbidden, addrForbidden>>
  BY DEF OpenBook, assetVars
<1> QED BY <1>2, <1>3 DEF ListsAllowed, SenderForbidden, IsForbidden

LEMMA DealAllowed ==
  ASSUME IInv, ListsAllowed, Deal
  PROVE ListsAllowed'
<1>1. /\ mkt # NoMarket /\ mkt' = mkt /\ bidList # <<>> /\ askList # <<>>
      /\ UNCHANGED <<tokenForbidden, addrForbidden>>
  BY DEF Deal, Crossing, assetVars
<1>2. /\ bidList' \in {bidList, Tail(bidList)} /\ askList' \in {askList, Tail(askList)}
  BY DEF Deal, PopIfDone
<1>3. /\ \A i \in DOMAIN bidList' : \E j \in DOMAIN bidList : bidList'[i] = bidList[j]
      /\ \A i \in DOMAIN askList' : \E j \in DOMAIN askList : askList'[i] = askList[j]
  <2>1. \A list \in Seq(Slots) : list # <<>> =>
          \A i \in DOMAIN Tail(list) : i + 1 \in DOMAIN list /\ Tail(list)[i] = list[i + 1]
    OBVIOUS
  <2>2. bidList \in Seq(Slots) /\ askList \in Seq(Slots)
    BY DEF IInv, BlockType
  <2> QED BY <1>1, <1>2, <2>1, <2>2
<1>4. /\ \A j \in DOMAIN bidList : orders'[bidList[j]].sender = orders[bidList[j]].sender
      /\ \A j \in DOMAIN askList : orders'[askList[j]].sender = orders[askList[j]].sender
  BY <1>1, DealOrders DEF IInv, BookSound, OrdersOf
<1> QED BY <1>1, <1>3, <1>4 DEF ListsAllowed, SenderForbidden, IsForbidden

\* While a market is being matched, a step opens its lists, deals, or leaves all
\* of the exchange as it is.
LEMMA MatchSteps ==
  ASSUME IInv, IInv', [Next]_vars, mkt' # NoMarket
  PROVE \/ UNCHANGED vars
        \/ Deal
        \/ \E m \in pending : \E bids \in SortedLists(BidCandidates(m)),
                                 asks \in SortedLists(AskCandidates(m)) : OpenBook(m, bids, asks)
<1> SUFFICES ASSUME ~UNCHANGED vars
             PROVE \/ Deal
                   \/ \E m \in pending : \E bids \in SortedLists(BidCandidates(m)),
                                            asks \in SortedLists(AskCandidates(m)) :
                        OpenBook(m, bids, asks)
  OBVIOUS
<1>1. phase' = "match" /\ (phase # "match" => mkt = NoMarket)
  BY DEF IInv, BlockSound
<1>2. ~Transaction
  BY <1>1 DEF Transaction, CreateTradingPair, CreateOrder, CancelOrder, CancelTradingPair,
              ModifyPricePrecision
<1>3. ~OtherModules
  BY <1>1 DEF OtherModules, Transfer, ForbidToken, ForbidAddr
<1>4. ~ (\E gap \in 0..MaxTimeGap : NewBlock(gap)) /\ ~Stop
  BY <1>1 DEF NewBlock, Stop
<1>5. ~EndBlockNewDay /\ ~StartDelist /\ ~FinishDelist /\ ~EndBlockIdle /\ ~FinishSettle
      /\ ~StartSettle
  BY <1>1 DEF EndBlockNewDay, StartDelist, FinishDelist, EndBlockIdle, FinishSettle, StartSettle
<1>6. ~EndBlockMatch /\ ~CloseBook
  BY <1>1 DEF EndBlockMatch, CloseBook, dealVars
<1>7. ~ \E s \in Slots : RemoveTodo(s) \/ Settle(s)
  BY <1>1 DEF RemoveTodo, Settle
<1> QED BY <1>2, <1>3, <1>4, <1>5, <1>6, <1>7 DEF Next, EndBlocker

\* The forbidden flags change between blocks only, when no market is being matched.
LEMMA NextAllowed ==
  ASSUME IInv, IInv', ListsAllowed, [Next]_vars
  PROVE ListsAllowed'
<1>1. CASE mkt' = NoMarket
  BY <1>1 DEF ListsAllowed
<1>2. CASE UNCHANGED vars
  BY <1>2 DEF vars, blockVars, dealVars, assetVars, ListsAllowed, SenderForbidden, IsForbidden
<1>3. CASE mkt' # NoMarket /\ ~UNCHANGED vars
  BY <1>3, MatchSteps, DealAllowed, OpenBookAllowed
<1> QED BY <1>1, <1>2, <1>3

\* Unfreezing keeps what an account holds, spendable and frozen together.
LEMMA UnFreezeHolding ==
  ASSUME NEW b \in Ledger, NEW u \in Users, NEW d \in Denoms, NEW n \in Nat, n <= b.frozen[u][d]
  PROVE \A w \in Users, e \in Denoms :
          /\ Holding(UnFreezeCoins(b, u, d, n), w, e) = Holding(b, w, e)
          /\ UnFreezeCoins(b, u, d, n).coins[w][e]
             = IF w = u /\ e = d THEN b.coins[u][d] + n ELSE b.coins[w][e]
<1>1. /\ b.coins \in Balances /\ b.frozen \in Balances
      /\ b.coins[u][d] + n >= 0 /\ ~ (b.frozen[u][d] < n)
      /\ \A w \in Users, e \in Denoms : b.coins[w][e] \in Nat /\ b.frozen[w][e] \in Nat
  BY LedgerFields
<1>2. UnFreezeCoins(b, u, d, n).coins = Give(b.coins, u, d, n)
  BY <1>1 DEF UnFreezeCoins, Ledger
<1>3. \A w \in Users, e \in Denoms :
        UnFreezeCoins(b, u, d, n).coins[w][e]
        = IF w = u /\ e = d THEN b.coins[u][d] + n ELSE b.coins[w][e]
  BY <1>1, <1>2, GiveType
<1>4. \A w \in Users, e \in Denoms :
        UnFreezeCoins(b, u, d, n).frozen[w][e]
        = IF w = u /\ e = d THEN b.frozen[u][d] - n ELSE b.frozen[w][e]
  BY UnFreezeFrozen
<1> QED BY <1>1, <1>3, <1>4 DEF Holding

\* Sending moves what is sent, from an account to another one or to itself.
LEMMA SendHolding ==
  ASSUME NEW b \in Ledger, NEW u \in Users, NEW v \in Users, NEW d \in Denoms, NEW n \in Nat,
         ~IsForbidden(d, u), n <= b.coins[u][d]
  PROVE \A w \in Users, e \in Denoms :
          /\ SendCoins(b, u, v, d, n).coins[w][e]
             = b.coins[w][e] - (IF w = u /\ e = d THEN n ELSE 0)
                             + (IF w = v /\ e = d THEN n ELSE 0)
          /\ Holding(SendCoins(b, u, v, d, n), w, e)
             = Holding(b, w, e) - (IF w = u /\ e = d THEN n ELSE 0)
                                + (IF w = v /\ e = d THEN n ELSE 0)
<1> DEFINE mid == Give(b.coins, u, d, 0 - n)
<1>1. /\ b.coins \in Balances /\ b.coins[u][d] + (0 - n) >= 0 /\ ~ (b.coins[u][d] < n)
      /\ \A w \in Users, e \in Denoms : b.coins[w][e] \in Nat /\ b.frozen[w][e] \in Nat
  BY LedgerFields
<1>2. mid \in Balances /\ \A w \in Users, e \in Denoms :
        mid[w][e] = IF w = u /\ e = d THEN b.coins[u][d] + (0 - n) ELSE b.coins[w][e]
  BY <1>1, GiveType
<1>3. SendCoins(b, u, v, d, n).coins = Give(mid, v, d, n)
      /\ SendCoins(b, u, v, d, n).frozen = b.frozen
  BY <1>1 DEF SendCoins, Ledger
<1> HIDE DEF mid
<1>4. mid[v][d] \in Nat /\ mid[v][d] + n >= 0
  BY <1>2 DEF Balances
<1>5. \A w \in Users, e \in Denoms :
        Give(mid, v, d, n)[w][e] = IF w = v /\ e = d THEN mid[v][d] + n ELSE mid[w][e]
  BY <1>2, <1>4, GiveType
<1>6. \A w \in Users, e \in Denoms :
        SendCoins(b, u, v, d, n).coins[w][e]
        = b.coins[w][e] - (IF w = u /\ e = d THEN n ELSE 0) + (IF w = v /\ e = d THEN n ELSE 0)
  BY <1>1, <1>2, <1>3, <1>5
<1> QED BY <1>1, <1>3, <1>6 DEF Holding

\* What a deal moves between two accounts that may spend.
LEMMA ExchangeHolding ==
  ASSUME NEW b \in Ledger, NEW u \in Users, NEW v \in Users, NEW m \in Markets,
         NEW amount \in Nat, NEW money \in Nat,
         amount <= b.frozen[u][StockOf[m]], money <= b.frozen[v][MoneyOf[m]],
         ~IsForbidden(StockOf[m], u), ~IsForbidden(MoneyOf[m], v)
  PROVE \A w \in Users, e \in Denoms :
          Holding(Exchange(b, u, v, m, amount, money), w, e)
          = Holding(b, w, e)
            + (IF w = v THEN (IF e = StockOf[m] THEN amount ELSE 0)
                             - (IF e = MoneyOf[m] THEN money ELSE 0) ELSE 0)
            - (IF w = u THEN (IF e = StockOf[m] THEN amount ELSE 0)
                             - (IF e = MoneyOf[m] THEN money ELSE 0) ELSE 0)
<1> DEFINE stock == StockOf[m]
           coin == MoneyOf[m]
           thawed  == UnFreezeCoins(b, u, stock, amount)
           stocked == SendCoins(thawed, u, v, stock, amount)
           freed   == UnFreezeCoins(stocked, v, coin, money)
           paid    == SendCoins(freed, v, u, coin, money)
<1>1. stock \in Denoms /\ coin \in Denoms /\ stock # coin
  BY MarketAssumption
<1>2. Exchange(b, u, v, m, amount, money) = paid
  BY DEF Exchange
<1> HIDE DEF stock, coin
<1>3. /\ amount <= b.frozen[u][stock] /\ money <= b.frozen[v][coin]
      /\ ~IsForbidden(stock, u) /\ ~IsForbidden(coin, v)
  BY DEF stock, coin
<1>4. /\ thawed \in Ledger
      /\ \A w \in Users, e \in Denoms : Holding(thawed, w, e) = Holding(b, w, e)
      /\ amount <= thawed.coins[u][stock]
      /\ thawed.frozen[v][coin] = b.frozen[v][coin]
  <2>1. thawed \in Ledger
    BY <1>1, UnFreezeLedger
  <2>2. /\ \A w \in Users, e \in Denoms : Holding(thawed, w, e) = Holding(b, w, e)
        /\ thawed.coins[u][stock] = b.coins[u][stock] + amount
    BY <1>1, <1>3, UnFreezeHolding
  <2>3. thawed.frozen[v][coin] = b.frozen[v][coin]
    BY <1>1, <1>3, UnFreezeFrozen
  <2>4. b.coins[u][stock] \in Nat
    BY <1>1, LedgerFields
  <2> HIDE DEF thawed
  <2> QED BY <2>1, <2>2, <2>3, <2>4
<1> HIDE DEF thawed
<1>5. /\ stocked \in Ledger /\ stocked.frozen = thawed.frozen
      /\ \A w \in Users, e \in Denoms :
           Holding(stocked, w, e)
           = Holding(thawed, w, e) - (IF w = u /\ e = stock THEN amount ELSE 0)
                                   + (IF w = v /\ e = stock THEN amount ELSE 0)
  <2>1. stocked \in Ledger /\ stocked.frozen = thawed.frozen
    BY <1>1, <1>4, SendLedger
  <2>2. \A w \in Users, e \in Denoms :
          Holding(stocked, w, e)
          = Holding(thawed, w, e) - (IF w = u /\ e = stock THEN amount ELSE 0)
                                  + (IF w = v /\ e = stock THEN amount ELSE 0)
    BY <1>1, <1>3, <1>4, SendHolding
  <2> QED BY <2>1, <2>2
<1> HIDE DEF stocked
<1>6. /\ freed \in Ledger
      /\ \A w \in Users, e \in Denoms : Holding(freed, w, e) = Holding(stocked, w, e)
      /\ money <= freed.coins[v][coin]
  <2>1. money <= stocked.frozen[v][coin]
    BY <1>3, <1>4, <1>5
  <2>2. freed \in Ledger
    BY <1>1, <1>5, UnFreezeLedger
  <2>3. /\ \A w \in Users, e \in Denoms : Holding(freed, w, e) = Holding(stocked, w, e)
        /\ freed.coins[v][coin] = stocked.coins[v][coin] + money
    BY <1>1, <1>5, <2>1, UnFreezeHolding
  <2>4. stocked.coins[v][coin] \in Nat
    BY <1>1, <1>5, LedgerFields
  <2> HIDE DEF freed
  <2> QED BY <2>2, <2>3, <2>4
<1> HIDE DEF freed
<1>7. \A w \in Users, e \in Denoms :
        Holding(paid, w, e)
        = Holding(freed, w, e) - (IF w = v /\ e = coin THEN money ELSE 0)
                               + (IF w = u /\ e = coin THEN money ELSE 0)
  BY <1>1, <1>3, <1>6, SendHolding
<1> HIDE DEF paid
<1>8. \A w \in Users, e \in Denoms : Holding(b, w, e) \in Int
  BY LedgerFields DEF Holding
<1>9. \A w \in Users, e \in Denoms :
        Holding(paid, w, e)
        = Holding(b, w, e)
          + (IF w = v THEN (IF e = stock THEN amount ELSE 0)
                           - (IF e = coin THEN money ELSE 0) ELSE 0)
          - (IF w = u THEN (IF e = stock THEN amount ELSE 0)
                           - (IF e = coin THEN money ELSE 0) ELSE 0)
  BY <1>1, <1>4, <1>5, <1>6, <1>7, <1>8
<1> QED BY <1>2, <1>9 DEF stock, coin

\* What the orders record of a deal adds up to: the buyer gains what the seller gives.
LEMMA DealGained ==
  ASSUME IInv, Deal, NEW u \in Users, NEW d \in Denoms
  PROVE LET part == (IF d = StockOf[mkt] THEN DealAmount ELSE 0)
                    - (IF d = MoneyOf[mkt] THEN DealMoney ELSE 0)
        IN  Gained(u, d) = (IF u = orders[Buyer].sender THEN part ELSE 0)
                           - (IF u = orders[Seller].sender THEN part ELSE 0)
<1> DEFINE part == (IF d = StockOf[mkt] THEN DealAmount ELSE 0)
                   - (IF d = MoneyOf[mkt] THEN DealMoney ELSE 0)
           f == [s \in Slots |->
                  IF s \notin Live \/ orders'[s] = NoOrder \/ orders[s].sender # u THEN 0
                  ELSE LET stock == orders'[s].dealStock - orders[s].dealStock
                           money == orders'[s].dealMoney - orders[s].dealMoney
                           m == orders[s].market
                           sign == IF orders[s].side = "BUY" THEN 1 ELSE -1
                       IN  sign * (  (IF d = StockOf[m] THEN stock ELSE 0)
                                   - (IF d = MoneyOf[m] THEN money ELSE 0))]
           z == [s \in Slots |-> 0]
<1>1. /\ mkt \in Markets /\ Buyer \in Live /\ Seller \in Live /\ Buyer # Seller
      /\ orders[Buyer].side = "BUY" /\ orders[Seller].side = "SELL"
      /\ orders[Buyer].market = mkt /\ orders[Seller].market = mkt
      /\ DealAmount \in Nat /\ DealMoney \in Nat
  BY DealFacts DEF OrdersOf
<1>2. /\ \A s \in Live : s \in Slots /\ orders[s] \in Order /\ orders[s] # NoOrder
      /\ \A s \in Live : orders'[s] \in Order /\ orders'[s] # NoOrder
  <2>1. OrdersSound /\ OrdersSound' /\ Live' = Live
    BY DealOrders DEF IInv
  <2> QED BY <2>1 DEF OrdersSound, Live
<1>3. /\ orders'[Buyer].dealStock - orders[Buyer].dealStock = DealAmount
      /\ orders'[Buyer].dealMoney - orders[Buyer].dealMoney = DealMoney
      /\ orders'[Seller].dealStock - orders[Seller].dealStock = DealAmount
      /\ orders'[Seller].dealMoney - orders[Seller].dealMoney = DealMoney
  <2>1. \A o \in Order : /\ Dealt(o, DealAmount, DealMoney).dealStock = o.dealStock + DealAmount
                         /\ Dealt(o, DealAmount, DealMoney).dealMoney = o.dealMoney + DealMoney
                         /\ o.dealStock \in Nat /\ o.dealMoney \in Nat
    BY DEF Dealt, Order
  <2>2. /\ orders'[Buyer] = Dealt(orders[Buyer], DealAmount, DealMoney)
        /\ orders'[Seller] = Dealt(orders[Seller], DealAmount, DealMoney)
    BY DealOrders
  <2> QED BY <1>1, <1>2, <2>1, <2>2
<1>4. ASSUME NEW s \in Slots \ {Buyer, Seller} PROVE f[s] = 0
  <2>1. orders'[s] = orders[s]
    BY DealOrders
  <2>2. CASE s \notin Live
    BY <2>2
  <2>3. CASE s \in Live
    <3>1. orders[s].dealStock \in Nat /\ orders[s].dealMoney \in Nat
      BY <1>2, <2>3, OrderFields
    <3> QED BY <2>1, <3>1
  <2> QED BY <2>2, <2>3
<1>5. f[Buyer] = IF u = orders[Buyer].sender THEN part ELSE 0
  BY <1>1, <1>2, <1>3
<1>6. f[Seller] = IF u = orders[Seller].sender THEN 0 - part ELSE 0
  BY <1>1, <1>2, <1>3
<1>7. part \in Int
  BY <1>1
<1>8. Gained(u, d) = SumTo(f, MaxOrders)
  BY DEF Gained
<1>9. MaxOrders \in Nat /\ Buyer \in 1..MaxOrders /\ Seller \in 1..MaxOrders
  BY <1>1, <1>2, MarketAssumption DEF Slots
<1>10. \A s \in 1..MaxOrders : z[s] = 0 /\ z[s] \in Int
  BY DEF Slots
<1>11. \A s \in (1..MaxOrders) \ {Buyer, Seller} : f[s] = z[s]
  BY <1>4, <1>10 DEF Slots
<1> HIDE DEF f, z, part
<1>12. f[Buyer] \in Int /\ f[Seller] \in Int
  BY <1>5, <1>6, <1>7
<1>d. Buyer # Seller
  BY <1>1
<1>13. SumTo(f, MaxOrders) = SumTo(z, MaxOrders) + (f[Buyer] - z[Buyer]) + (f[Seller] - z[Seller])
  BY ONLY <1>d, <1>9, <1>10, <1>11, <1>12, SumUpdateTwo, ZenonT(30)
<1>14. SumTo(z, MaxOrders) = 0
  BY <1>9, <1>10, SumOfZeros
<1>15. SumTo(f, MaxOrders) = f[Buyer] + f[Seller]
  BY <1>9, <1>10, <1>12, <1>13, <1>14
<1>16. Gained(u, d) = (IF u = orders[Buyer].sender THEN part ELSE 0)
                      - (IF u = orders[Seller].sender THEN part ELSE 0)
  BY <1>5, <1>6, <1>7, <1>8, <1>15
<1> QED BY <1>16 DEF part

\* Only a deal changes an order that it does not remove.
LEMMA OnlyDealsChange ==
  ASSUME IInv, [Next]_vars, NEW s \in Live, orders'[s] # NoOrder, orders'[s] # orders[s]
  PROVE Deal
<1>1. s \in Slots /\ orders[s] # NoOrder
  BY DEF Live
<1>2. ASSUME NEW t \in Slots, RemoveOrder(t) PROVE FALSE
  BY <1>1, <1>2 DEF RemoveOrder, IInv, OrdersSound
<1>3. ~UNCHANGED orders
  OBVIOUS
<1>4. ~Transaction
  <2>1. ASSUME NEW u \in Users, NEW m \in Markets, NEW side \in {"BUY", "SELL"},
               NEW p \in Prices, NEW q \in Quantities, NEW tif \in TimesInForce,
               NEW life \in Lifetimes, NEW t \in Slots,
               CreateOrder(u, m, side, p, q, tif, life, t)
        PROVE FALSE
    <3> DEFINE o == NewOrder(u, m, side, p, q, tif, life)
    <3>1. orders' = [orders EXCEPT ![t] = o] /\ t \notin Live
      BY <2>1 DEF CreateOrder, FreeSlot
    <3> HIDE DEF o
    <3> QED BY <1>1, <3>1
  <2> QED BY <1>2, <1>3, <2>1 DEF Transaction, CreateTradingPair, CancelOrder,
                                  CancelTradingPair, ModifyPricePrecision
<1>5. ~OtherModules
  BY <1>3 DEF OtherModules, Transfer, ForbidToken, ForbidAddr
<1>6. ~ (\E gap \in 0..MaxTimeGap : NewBlock(gap)) /\ ~Stop /\ ~UNCHANGED vars
  BY <1>3 DEF NewBlock, Stop, vars
<1>7. ~ \E t \in Slots : RemoveTodo(t) \/ Settle(t)
  BY <1>2, <1>3 DEF RemoveTodo, Settle
<1>8. ~EndBlockNewDay /\ ~StartDelist /\ ~FinishDelist /\ ~EndBlockIdle /\ ~EndBlockMatch
      /\ ~CloseBook /\ ~StartSettle /\ ~FinishSettle
  BY <1>3 DEF EndBlockNewDay, StartDelist, FinishDelist, EndBlockIdle, EndBlockMatch,
              CloseBook, StartSettle, FinishSettle
<1>9. ~ \E m \in pending : \E bids \in SortedLists(BidCandidates(m)),
                              asks \in SortedLists(AskCandidates(m)) : OpenBook(m, bids, asks)
  BY <1>3 DEF OpenBook
<1> QED BY <1>4, <1>5, <1>6, <1>7, <1>8, <1>9 DEF Next, EndBlocker

LEMMA DealPays ==
  ASSUME IInv, UnheldCovered, ListsAllowed, Deal, NEW u \in Users, NEW d \in Denoms
  PROVE Holding(bank', u, d) - Holding(bank, u, d) = Gained(u, d)
<1> DEFINE part == (IF d = StockOf[mkt] THEN DealAmount ELSE 0)
                   - (IF d = MoneyOf[mkt] THEN DealMoney ELSE 0)
           su == orders[Seller].sender
           bu == orders[Buyer].sender
<1>2. /\ mkt \in Markets /\ Buyer \in OrdersOf(mkt) /\ Seller \in OrdersOf(mkt)
      /\ DealAmount \in Nat /\ DealMoney \in Nat
      /\ bank' = Exchange(bank, su, bu, mkt, DealAmount, DealMoney)
  BY DealFacts
<1>3. su \in Users /\ bu \in Users
  BY <1>2, LiveOrder, OrderFields DEF IInv, OrdersOf
<1>4. DealAmount <= bank.frozen[su][StockOf[mkt]] /\ DealMoney <= bank.frozen[bu][MoneyOf[mkt]]
  BY DealCovered
<1>5. ~IsForbidden(StockOf[mkt], su) /\ ~IsForbidden(MoneyOf[mkt], bu)
  <2>1. 1 \in DOMAIN bidList /\ Buyer = bidList[1] /\ 1 \in DOMAIN askList /\ Seller = askList[1]
        /\ mkt # NoMarket
    BY DEF IInv, BlockType, Deal, Crossing, Buyer, Seller
  <2> QED BY <2>1 DEF ListsAllowed, SenderForbidden
<1>6. bank \in Ledger
  BY DEF IInv
<1>7. /\ Holding(bank', u, d) = Holding(bank, u, d) + (IF u = bu THEN part ELSE 0)
                                                    - (IF u = su THEN part ELSE 0)
  BY <1>2, <1>3, <1>4, <1>5, <1>6, ExchangeHolding, SMTT(30)
<1>8. Gained(u, d) = (IF u = bu THEN part ELSE 0) - (IF u = su THEN part ELSE 0)
  BY DealGained
<1>9. Holding(bank, u, d) \in Int /\ part \in Int
  BY <1>2, <1>6, LedgerFields DEF Holding
<1> HIDE DEF part, su, bu
<1> QED BY <1>7, <1>8, <1>9

\* When a match changes orders, every account gains and pays exactly what its
\* orders record, for any users, tokens and prices, also when one account is on
\* both sides: SendCoins, whose error Deal drops (endblocker.go:102, 104), is never
\* refused, because the candidates were filtered and no flag changes in a match.
THEOREM DealsAlwaysDeliver == Spec => DealDelivers
<1>1. Init => ListsAllowed
  BY DEF Init, ListsAllowed
<1>2. IInv /\ IInv' /\ ListsAllowed /\ [Next]_vars => ListsAllowed'
  BY NextAllowed
<1>3. IInv /\ EscrowExact /\ ListsAllowed /\ [Next]_vars =>
        [\A s \in Slots :
           s \in Live /\ orders'[s] # NoOrder /\ orders'[s] # orders[s] =>
             \A u \in Users, d \in Denoms :
               Holding(bank', u, d) - Holding(bank, u, d) = Gained(u, d)]_vars
  BY OnlyDealsChange, DealPays, EscrowsCovered
<1> QED BY InvariantHolds, EscrowAlwaysExact, <1>1, <1>2, <1>3, PTL DEF Spec, DealDelivers

-----------------------------------------------------------------------------
(* What creating and removing an order does to the accounts *)

LEMMA FreezeHolding ==
  ASSUME NEW b \in Ledger, NEW u \in Users, NEW d \in Denoms, NEW n \in Nat
  PROVE /\ \A w \in Users, e \in Denoms :
             Holding(FreezeCoins(b, u, d, n), w, e) = Holding(b, w, e)
        /\ FreezeCoins(b, u, d, n).collected = b.collected
<1>1. CASE IsForbidden(d, u) \/ b.coins[u][d] < n
  BY <1>1 DEF FreezeCoins
<1>2. CASE ~ (IsForbidden(d, u) \/ b.coins[u][d] < n)
  <2> DEFINE c == FreezeCoins(b, u, d, n)
  <2>1. n <= b.coins[u][d] /\ ~IsForbidden(d, u)
    BY <1>2, LedgerFields
  <2>2. \A w \in Users, e \in Denoms :
          /\ c.frozen[w][e] = IF w = u /\ e = d THEN b.frozen[u][d] + n ELSE b.frozen[w][e]
          /\ c.coins[w][e] = IF w = u /\ e = d THEN b.coins[u][d] - n ELSE b.coins[w][e]
    BY <2>1, FreezeFrozen
  <2>3. c.collected = b.collected
    BY <1>2 DEF FreezeCoins, Ledger
  <2>4. \A w \in Users, e \in Denoms : b.coins[w][e] \in Nat /\ b.frozen[w][e] \in Nat
    BY LedgerFields
  <2> HIDE DEF c
  <2>5. \A w \in Users, e \in Denoms : Holding(c, w, e) = Holding(b, w, e)
    BY <2>2, <2>4 DEF Holding
  <2> QED BY <2>3, <2>5 DEF c
<1> QED BY <1>1, <1>2

\* What creating an order takes is what the order then holds back, of each denom.
LEMMA FreezeForOrderCoins ==
  ASSUME NEW b \in Ledger, NEW o \in Order,
         \A v \in Users, e \in Denoms :
           FreezeForOrder(b, o).frozen[v][e] = b.frozen[v][e] + Escrow(o, v, e)
  PROVE /\ \A v \in Users, e \in Denoms :
             FreezeForOrder(b, o).coins[v][e] = b.coins[v][e] - Escrow(o, v, e)
        /\ FreezeForOrder(b, o).collected = b.collected
<1> DEFINE x == FreezeCoins(b, o.sender, UsedDenom(o.side, o.market), o.freeze)
           y == FreezeCoins(x, o.sender, CET, o.commission)
           z == FreezeCoins(y, o.sender, CET, o.feature)
<1>1. /\ o.sender \in Users /\ UsedDenom(o.side, o.market) \in Denoms /\ CET \in Denoms
      /\ o.freeze \in Nat /\ o.commission \in Nat /\ o.feature \in Nat
  BY OrderFields, BankAssumption
<1>2. x \in Ledger /\ (\A v \in Users, e \in Denoms : Holding(x, v, e) = Holding(b, v, e))
      /\ x.collected = b.collected
  BY <1>1, FreezeLedger, FreezeHolding
<1> HIDE DEF x
<1>3. y \in Ledger /\ (\A v \in Users, e \in Denoms : Holding(y, v, e) = Holding(x, v, e))
      /\ y.collected = x.collected
  BY <1>1, <1>2, FreezeLedger, FreezeHolding
<1> HIDE DEF y
<1>4. z \in Ledger /\ (\A v \in Users, e \in Denoms : Holding(z, v, e) = Holding(y, v, e))
      /\ z.collected = y.collected
  BY <1>1, <1>3, FreezeLedger, FreezeHolding
<1>5. FreezeForOrder(b, o) = z
  BY DEF FreezeForOrder, x, y
<1> HIDE DEF z
<1>6. \A v \in Users, e \in Denoms :
        /\ z.frozen[v][e] = b.frozen[v][e] + Escrow(o, v, e)
        /\ z.coins[v][e] \in Nat /\ z.frozen[v][e] \in Nat
        /\ b.coins[v][e] \in Nat /\ b.frozen[v][e] \in Nat /\ Escrow(o, v, e) \in Nat
  BY <1>4, <1>5, LedgerFields, EscrowType
<1>7. \A v \in Users, e \in Denoms : z.coins[v][e] = b.coins[v][e] - Escrow(o, v, e)
  <2> SUFFICES ASSUME NEW v \in Users, NEW e \in Denoms
               PROVE z.coins[v][e] = b.coins[v][e] - Escrow(o, v, e)
    OBVIOUS
  <2>1. Holding(z, v, e) = Holding(b, v, e)
    BY <1>2, <1>3, <1>4
  <2>2. z.coins[v][e] + z.frozen[v][e] = b.coins[v][e] + b.frozen[v][e]
    BY <2>1 DEF Holding
  <2> DEFINE q == Escrow(o, v, e)
  <2>3. /\ z.frozen[v][e] = b.frozen[v][e] + q
        /\ z.coins[v][e] \in Nat /\ b.coins[v][e] \in Nat /\ b.frozen[v][e] \in Nat /\ q \in Nat
    BY <1>6
  <2> HIDE DEF q
  <2>4. z.coins[v][e] = b.coins[v][e] - q
    BY <2>2, <2>3
  <2> QED BY <2>4 DEF q
<1> QED BY <1>2, <1>3, <1>4, <1>5, <1>7

\* The part of a fee of user u that his referee really gets: nothing if u may not
\* spend CET, because SendCoins then refuses.
RebatePaid(u, fee) == IF IsForbidden(CET, u) THEN 0 ELSE RebateAmount(u, fee)

\* A fee that the payer can afford is paid in full, but for a refused rebate.
LEMMA ChargeHolding ==
  ASSUME NEW b \in Ledger, NEW u \in Users, NEW fee \in Nat, fee <= b.coins[u][CET]
  PROVE /\ ChargeFee(b, u, fee).collected = b.collected + (fee - RebateAmount(u, fee))
        /\ \A w \in Users, e \in Denoms :
             Holding(ChargeFee(b, u, fee), w, e)
             = Holding(b, w, e)
               - (IF w = u /\ e = CET THEN fee - RebateAmount(u, fee) + RebatePaid(u, fee) ELSE 0)
               + (IF w = RefereeOf[u] /\ e = CET THEN RebatePaid(u, fee) ELSE 0)
<1> DEFINE rebate == RebateAmount(u, fee)
           sent == RebatePaid(u, fee)
           paid == IF rebate > 0 THEN SendCoins(b, u, RefereeOf[u], CET, rebate) ELSE b
           c == DeductFee(paid, u, fee - rebate)
<1>1. rebate \in Nat /\ rebate <= fee /\ fee - rebate \in Nat
  BY RebateBounds
<1>2. CET \in Denoms /\ (rebate > 0 => RefereeOf[u] \in Users)
  BY BankAssumption DEF RebateAmount, Users
<1>3. sent = (IF IsForbidden(CET, u) THEN 0 ELSE rebate) /\ sent \in Nat
  BY <1>1 DEF RebatePaid
<1>4. ChargeFee(b, u, fee) = c
  BY DEF ChargeFee
<1>5. \A w \in Users, e \in Denoms :
        b.coins[w][e] \in Nat /\ b.frozen[w][e] \in Nat /\ Holding(b, w, e) \in Int
  BY LedgerFields DEF Holding
<1> HIDE DEF rebate, sent
<1>6. /\ paid \in Ledger /\ paid.collected = b.collected
      /\ \A w \in Users, e \in Denoms :
           Holding(paid, w, e) = Holding(b, w, e)
             - (IF w = u /\ e = CET THEN sent ELSE 0)
             + (IF w = RefereeOf[u] /\ e = CET THEN sent ELSE 0)
      /\ fee - rebate <= paid.coins[u][CET]
  <2>1. CASE rebate = 0
    <3>1. sent = 0 /\ paid = b
      BY <1>3, <2>1
    <3> HIDE DEF paid
    <3> QED BY <1>1, <1>2, <1>5, <2>1, <3>1
  <2>2. CASE rebate # 0 /\ IsForbidden(CET, u)
    <3>1. sent = 0 /\ paid = b
      BY <1>1, <1>3, <2>2 DEF SendCoins
    <3> HIDE DEF paid
    <3> QED BY <1>1, <1>2, <1>5, <3>1
  <2>3. CASE rebate # 0 /\ ~IsForbidden(CET, u)
    <3>1. /\ rebate > 0 /\ RefereeOf[u] \in Users /\ sent = rebate
          /\ paid = SendCoins(b, u, RefereeOf[u], CET, rebate)
      BY <1>1, <1>2, <1>3, <2>3
    <3>2. rebate <= b.coins[u][CET]
      BY <1>1, <1>2, <1>5
    <3> HIDE DEF paid
    <3>3. paid \in Ledger
      BY <1>1, <1>2, <3>1, SendLedger
    <3>4. paid.collected = b.collected
      BY <3>1 DEF SendCoins, Ledger
    <3>5. \A w \in Users, e \in Denoms :
            /\ Holding(paid, w, e) = Holding(b, w, e)
                 - (IF w = u /\ e = CET THEN rebate ELSE 0)
                 + (IF w = RefereeOf[u] /\ e = CET THEN rebate ELSE 0)
            /\ paid.coins[w][e] = b.coins[w][e]
                 - (IF w = u /\ e = CET THEN rebate ELSE 0)
                 + (IF w = RefereeOf[u] /\ e = CET THEN rebate ELSE 0)
      BY <1>1, <1>2, <2>3, <3>1, <3>2, SendHolding, SMTT(30)
    <3>6. fee - rebate <= paid.coins[u][CET]
      BY <1>1, <1>2, <1>5, <3>5
    <3> QED BY <3>1, <3>3, <3>4, <3>5, <3>6
  <2> QED BY <2>1, <2>2, <2>3
<1> HIDE DEF paid
<1>7. /\ c.collected = paid.collected + (fee - rebate)
      /\ c.frozen = paid.frozen
      /\ \A w \in Users, e \in Denoms :
           c.coins[w][e] = paid.coins[w][e] - (IF w = u /\ e = CET THEN fee - rebate ELSE 0)
  <2> DEFINE n == fee - rebate
  <2>1. /\ n \in Nat /\ paid.coins \in Balances /\ paid.coins[u][CET] \in Nat
        /\ \A w \in Users, e \in Denoms : paid.coins[w][e] \in Nat
    BY <1>1, <1>2, <1>6, LedgerFields
  <2>2. ~ (paid.coins[u][CET] < n) /\ paid.coins[u][CET] + (0 - n) >= 0 /\ 0 - n \in Int
    BY <1>6, <2>1
  <2>3. c = DeductFee(paid, u, n)
    OBVIOUS
  <2> HIDE DEF n, c
  <2>4. c.coins = Give(paid.coins, u, CET, 0 - n) /\ c.collected = paid.collected + n
        /\ c.frozen = paid.frozen
    BY <1>6, <2>2, <2>3 DEF DeductFee, Ledger
  <2>5. \A w \in Users, e \in Denoms :
          Give(paid.coins, u, CET, 0 - n)[w][e]
          = IF w = u /\ e = CET THEN paid.coins[u][CET] + (0 - n) ELSE paid.coins[w][e]
    BY <1>2, <2>1, <2>2, GiveType
  <2>6. \A w \in Users, e \in Denoms :
          c.coins[w][e] = paid.coins[w][e] - (IF w = u /\ e = CET THEN n ELSE 0)
    BY <2>1, <2>4, <2>5
  <2> QED BY <2>4, <2>6 DEF n
<1> HIDE DEF c
<1>8. \A w \in Users, e \in Denoms :
        Holding(c, w, e) = Holding(paid, w, e) - (IF w = u /\ e = CET THEN fee - rebate ELSE 0)
  <2>1. \A w \in Users, e \in Denoms : paid.coins[w][e] \in Nat /\ paid.frozen[w][e] \in Nat
    BY <1>6, LedgerFields
  <2> QED BY <1>1, <1>7, <2>1 DEF Holding
<1>9. \A w \in Users, e \in Denoms :
        Holding(c, w, e) = Holding(b, w, e)
          - (IF w = u /\ e = CET THEN fee - rebate + sent ELSE 0)
          + (IF w = RefereeOf[u] /\ e = CET THEN sent ELSE 0)
  BY <1>1, <1>3, <1>5, <1>6, <1>8
<1> QED BY <1>4, <1>6, <1>7, <1>9 DEF rebate, sent

\* What is unfrozen pays the fee that is charged right after.
LEMMA UnFreezeChargeHolding ==
  ASSUME NEW b \in Ledger, NEW u \in Users, NEW n \in Nat, NEW fee \in Nat,
         fee <= n, n <= b.frozen[u][CET]
  PROVE LET c == ChargeFee(UnFreezeCoins(b, u, CET, n), u, fee)
        IN  /\ c \in Ledger
            /\ c.frozen[u][CET] = b.frozen[u][CET] - n
            /\ c.collected = b.collected + (fee - RebateAmount(u, fee))
            /\ \A w \in Users, e \in Denoms :
                 Holding(c, w, e)
                 = Holding(b, w, e)
                   - (IF w = u /\ e = CET THEN fee - RebateAmount(u, fee) + RebatePaid(u, fee)
                      ELSE 0)
                   + (IF w = RefereeOf[u] /\ e = CET THEN RebatePaid(u, fee) ELSE 0)
<1> DEFINE x == UnFreezeCoins(b, u, CET, n)
<1>1. CET \in Denoms
  BY BankAssumption
<1>2. x \in Ledger /\ (\A w \in Users, e \in Denoms : Holding(x, w, e) = Holding(b, w, e))
      /\ x.coins[u][CET] = b.coins[u][CET] + n /\ x.frozen[u][CET] = b.frozen[u][CET] - n
  BY <1>1, UnFreezeLedger, UnFreezeHolding, UnFreezeFrozen
<1>3. x.collected = b.collected
  BY DEF UnFreezeCoins, Ledger
<1>4. b.coins[u][CET] \in Nat
  BY <1>1, LedgerFields
<1> HIDE DEF x
<1>5. fee <= x.coins[u][CET]
  BY <1>2, <1>4
<1> DEFINE c == ChargeFee(x, u, fee)
<1>6. /\ c.collected = x.collected + (fee - RebateAmount(u, fee))
      /\ \A w \in Users, e \in Denoms :
           Holding(c, w, e)
           = Holding(x, w, e)
             - (IF w = u /\ e = CET THEN fee - RebateAmount(u, fee) + RebatePaid(u, fee) ELSE 0)
             + (IF w = RefereeOf[u] /\ e = CET THEN RebatePaid(u, fee) ELSE 0)
  BY <1>2, <1>5, ChargeHolding
<1>7. c \in Ledger /\ c.frozen = x.frozen
  BY <1>2, ChargeLedger
<1> HIDE DEF c
<1>8. \A w \in Users, e \in Denoms :
        Holding(c, w, e)
        = Holding(b, w, e)
          - (IF w = u /\ e = CET THEN fee - RebateAmount(u, fee) + RebatePaid(u, fee) ELSE 0)
          + (IF w = RefereeOf[u] /\ e = CET THEN RebatePaid(u, fee) ELSE 0)
  BY <1>2, <1>6
<1> QED BY <1>2, <1>3, <1>6, <1>7, <1>8 DEF c, x

\* What removing order o at height h charges of its commission and feature fee.
CommissionDue(o) == IF o.commission = 0 THEN 0 ELSE CalActualOrderCommission(o)
FeatureDue(o, h) ==
  IF o.tif # "GTE" \/ o.feature = 0 THEN 0 ELSE CalActualOrderFeatureFee(o, h)

\* The part of both that is collected, and the part the sender's referee gets.
Collects(o, h) == (CommissionDue(o) - RebateAmount(o.sender, CommissionDue(o)))
                  + (FeatureDue(o, h) - RebateAmount(o.sender, FeatureDue(o, h)))
Rebates(o, h) == RebatePaid(o.sender, CommissionDue(o)) + RebatePaid(o.sender, FeatureDue(o, h))

LEMMA DueType ==
  ASSUME NEW o \in Order, NEW h \in Nat
  PROVE /\ CommissionDue(o) \in Nat /\ FeatureDue(o, h) \in Nat
        /\ Collects(o, h) \in Nat /\ Rebates(o, h) \in Nat
        /\ Collects(o, h) + Rebates(o, h) <= CommissionDue(o) + FeatureDue(o, h)
<1>1. CommissionDue(o) \in Nat /\ FeatureDue(o, h) \in Nat /\ o.sender \in Users
  BY ActualCommissionType, ActualFeatureFeeType, OrderFields DEF CommissionDue, FeatureDue
<1>2. \A fee \in Nat : /\ RebateAmount(o.sender, fee) \in Nat /\ RebateAmount(o.sender, fee) <= fee
                       /\ RebatePaid(o.sender, fee) \in {0, RebateAmount(o.sender, fee)}
  BY <1>1, RebateBounds DEF RebatePaid
<1> DEFINE c == CommissionDue(o)
           f == FeatureDue(o, h)
           rc == RebateAmount(o.sender, c)
           rf == RebateAmount(o.sender, f)
           pc == RebatePaid(o.sender, c)
           pf == RebatePaid(o.sender, f)
<1>3. /\ c \in Nat /\ f \in Nat /\ rc \in Nat /\ rf \in Nat /\ rc <= c /\ rf <= f
      /\ pc \in {0, rc} /\ pf \in {0, rf}
  BY <1>1, <1>2
<1>4. Collects(o, h) = (c - rc) + (f - rf) /\ Rebates(o, h) = pc + pf
  BY DEF Collects, Rebates
<1> HIDE DEF c, f, rc, rf, pc, pf
<1>5. /\ Collects(o, h) \in Nat /\ Rebates(o, h) \in Nat
      /\ Collects(o, h) + Rebates(o, h) <= c + f
  BY <1>3, <1>4
<1> QED BY <1>1, <1>5 DEF c, f

\* A removed order pays exactly its fees, if they are within what it holds back
\* for them and the account has that frozen.
LEMMA RefundHolding ==
  ASSUME NEW b \in Ledger, NEW o, SoundOrder(o), NEW h \in Nat,
         \A e \in Denoms : Escrow(o, o.sender, e) <= b.frozen[o.sender][e],
         CommissionDue(o) <= o.commission, FeatureDue(o, h) <= o.feature
  PROVE /\ Refund(b, o, h).collected = b.collected + Collects(o, h)
        /\ \A w \in Users, e \in Denoms :
             Holding(Refund(b, o, h), w, e)
             = Holding(b, w, e)
               - (IF w = o.sender /\ e = CET THEN Collects(o, h) + Rebates(o, h) ELSE 0)
               + (IF w = RefereeOf[o.sender] /\ e = CET THEN Rebates(o, h) ELSE 0)
<1> DEFINE u == o.sender
           used == UsedDenom(o.side, o.market)
           x == UnFreezeCoins(b, u, used, o.freeze)
           y == IF o.commission = 0 THEN x
                ELSE ChargeFee(UnFreezeCoins(x, u, CET, o.commission),
                               u, CalActualOrderCommission(o))
           z == IF o.tif # "GTE" \/ o.feature = 0 THEN y
                ELSE ChargeFee(UnFreezeCoins(y, u, CET, o.feature),
                               u, CalActualOrderFeatureFee(o, h))
           fc == CommissionDue(o)
           ff == FeatureDue(o, h)
           rc == RebateAmount(u, fc)
           rf == RebateAmount(u, ff)
           pc == RebatePaid(u, fc)
           pf == RebatePaid(u, ff)
<1>1. /\ o \in Order /\ u \in Users /\ used \in Denoms /\ CET \in Denoms
      /\ o.freeze \in Nat /\ o.commission \in Nat /\ o.feature \in Nat
      /\ o.tif # "GTE" => o.feature = 0
  BY OrderFields, BankAssumption DEF SoundOrder
<1>2. /\ \A w \in Users, e \in Denoms : b.frozen[w][e] \in Nat /\ Holding(b, w, e) \in Int
      /\ b.collected \in Nat
  BY LedgerFields DEF Holding
<1>3. \A e \in Denoms :
        Escrow(o, u, e) = (IF used = e THEN o.freeze ELSE 0)
                          + (IF e = CET THEN o.commission + o.feature ELSE 0)
  <2>1. o # NoOrder
    BY <1>1, AbsentAssumption DEF Order
  <2> QED BY <2>1 DEF Escrow
<1>4. Refund(b, o, h) = z
  BY Zenon DEF Refund
<1>5. Escrow(o, u, used) <= b.frozen[u][used] /\ Escrow(o, u, CET) <= b.frozen[u][CET]
  BY <1>1
<1>6. /\ fc \in Nat /\ ff \in Nat /\ fc <= o.commission /\ ff <= o.feature
      /\ rc \in Nat /\ rc <= fc /\ rf \in Nat /\ rf <= ff /\ pc \in {0, rc} /\ pf \in {0, rf}
  <2>1. fc \in Nat /\ ff \in Nat
    BY <1>1, DueType
  <2> HIDE DEF fc, ff
  <2>2. rc \in Nat /\ rc <= fc /\ rf \in Nat /\ rf <= ff
    BY <1>1, <2>1, RebateBounds
  <2>3. pc \in {0, rc} /\ pf \in {0, rf}
    BY DEF RebatePaid
  <2>4. fc <= o.commission /\ ff <= o.feature
    BY DEF fc, ff
  <2> QED BY <2>1, <2>2, <2>3, <2>4
<1>7. /\ fc = (IF o.commission = 0 THEN 0 ELSE CalActualOrderCommission(o))
      /\ ff = (IF o.tif # "GTE" \/ o.feature = 0 THEN 0 ELSE CalActualOrderFeatureFee(o, h))
  BY DEF CommissionDue, FeatureDue
<1>8. Collects(o, h) = (fc - rc) + (ff - rf) /\ Rebates(o, h) = pc + pf
  BY DEF Collects, Rebates
<1> HIDE DEF used, fc, ff
<1>9. x \in Ledger /\ x.collected = b.collected
      /\ (\A w \in Users, e \in Denoms : Holding(x, w, e) = Holding(b, w, e))
      /\ o.commission + o.feature <= x.frozen[u][CET] /\ x.frozen[u][CET] \in Nat
  <2>1. o.freeze <= b.frozen[u][used]
    BY <1>1, <1>2, <1>3, <1>5
  <2>2. x \in Ledger
    BY <1>1, UnFreezeLedger
  <2>3. \A w \in Users, e \in Denoms : Holding(x, w, e) = Holding(b, w, e)
    BY <1>1, <2>1, UnFreezeHolding
  <2>4. x.frozen[u][CET] = IF CET = used THEN b.frozen[u][used] - o.freeze ELSE b.frozen[u][CET]
    BY <1>1, <2>1, UnFreezeFrozen
  <2>5. x.collected = b.collected
    BY DEF UnFreezeCoins, Ledger
  <2> HIDE DEF x, u
  <2>6. o.commission + o.feature <= x.frozen[u][CET] /\ x.frozen[u][CET] \in Nat
    BY <1>1, <1>2, <1>3, <1>5, <2>4
  <2> QED BY <2>2, <2>3, <2>5, <2>6
<1> HIDE DEF x
<1>10. /\ y \in Ledger /\ y.collected = b.collected + (fc - rc)
       /\ \A w \in Users, e \in Denoms :
            Holding(y, w, e) = Holding(b, w, e) - (IF w = u /\ e = CET THEN fc - rc + pc ELSE 0)
                                               + (IF w = RefereeOf[u] /\ e = CET THEN pc ELSE 0)
       /\ o.feature <= y.frozen[u][CET]
  <2>1. CASE o.commission = 0
    <3>1. y = x /\ fc = 0 /\ rc = 0 /\ pc = 0
      BY <1>6, <1>7, <2>1
    <3> HIDE DEF y, rc, pc
    <3> QED BY <1>1, <1>2, <1>9, <2>1, <3>1
  <2>2. CASE o.commission # 0
    <3>1. y = ChargeFee(UnFreezeCoins(x, u, CET, o.commission), u, fc)
      BY <1>7, <2>2
    <3>2. o.commission <= x.frozen[u][CET]
      BY <1>1, <1>9
    <3> HIDE DEF y, u
    <3>3. /\ y \in Ledger
          /\ y.frozen[u][CET] = x.frozen[u][CET] - o.commission
          /\ y.collected = x.collected + (fc - rc)
          /\ \A w \in Users, e \in Denoms :
               Holding(y, w, e)
               = Holding(x, w, e) - (IF w = u /\ e = CET THEN fc - rc + pc ELSE 0)
                                  + (IF w = RefereeOf[u] /\ e = CET THEN pc ELSE 0)
      BY <1>1, <1>6, <1>9, <3>1, <3>2, UnFreezeChargeHolding
    <3> HIDE DEF rc, pc
    <3> QED BY <1>1, <1>9, <3>3
  <2> QED BY <2>1, <2>2
<1> HIDE DEF y
<1>11. /\ z.collected = y.collected + (ff - rf)
       /\ \A w \in Users, e \in Denoms :
            Holding(z, w, e) = Holding(y, w, e) - (IF w = u /\ e = CET THEN ff - rf + pf ELSE 0)
                                               + (IF w = RefereeOf[u] /\ e = CET THEN pf ELSE 0)
  <2>1. CASE o.tif # "GTE" \/ o.feature = 0
    <3>1. z = y /\ ff = 0 /\ rf = 0 /\ pf = 0
      BY <1>6, <1>7, <2>1
    <3>2. y.collected \in Nat /\ \A w \in Users, e \in Denoms : Holding(y, w, e) \in Int
      BY <1>10, LedgerFields DEF Holding
    <3> HIDE DEF z, rf, pf
    <3> QED BY <3>1, <3>2
  <2>2. CASE ~ (o.tif # "GTE" \/ o.feature = 0)
    <3>1. z = ChargeFee(UnFreezeCoins(y, u, CET, o.feature), u, ff)
      BY <1>7, <2>2
    <3> HIDE DEF z, u
    <3> QED BY <1>1, <1>6, <1>10, <3>1, UnFreezeChargeHolding
  <2> QED BY <2>1, <2>2
<1> HIDE DEF z, u, rc, rf, pc, pf
<1>12. z.collected = b.collected + ((fc - rc) + (ff - rf))
  BY <1>2, <1>6, <1>10, <1>11
<1>13. \A w \in Users, e \in Denoms :
         Holding(z, w, e)
         = Holding(b, w, e) - (IF w = u /\ e = CET THEN (fc - rc) + (ff - rf) + (pc + pf) ELSE 0)
                            + (IF w = RefereeOf[u] /\ e = CET THEN pc + pf ELSE 0)
  <2> SUFFICES ASSUME NEW w \in Users, NEW e \in Denoms
               PROVE Holding(z, w, e)
                     = Holding(b, w, e)
                       - (IF w = u /\ e = CET THEN (fc - rc) + (ff - rf) + (pc + pf) ELSE 0)
                       + (IF w = RefereeOf[u] /\ e = CET THEN pc + pf ELSE 0)
    OBVIOUS
  <2>1. pc \in Nat /\ pf \in Nat
    BY <1>6
  <2>2. Holding(b, w, e) \in Int
    BY <1>2
  <2>3. /\ Holding(y, w, e) = Holding(b, w, e) - (IF w = u /\ e = CET THEN fc - rc + pc ELSE 0)
                              + (IF w = RefereeOf[u] /\ e = CET THEN pc ELSE 0)
        /\ Holding(z, w, e) = Holding(y, w, e) - (IF w = u /\ e = CET THEN ff - rf + pf ELSE 0)
                              + (IF w = RefereeOf[u] /\ e = CET THEN pf ELSE 0)
    BY <1>10, <1>11
  <2> QED BY <1>6, <2>1, <2>2, <2>3
<1> QED BY <1>4, <1>8, <1>12, <1>13 DEF u

\* Where the orders after a step come from.
LEMMA WhereOrdersComeFrom ==
  ASSUME IInv, [Next]_vars, NEW s \in Live'
  PROVE \/ s \in Live /\ orders'[s] = orders[s]
        \/ s \in Live /\ Deal
        \/ \E u \in Users, m \in Markets, side \in {"BUY", "SELL"}, p \in Prices,
              q \in Quantities, tif \in TimesInForce, life \in Lifetimes :
             /\ CreateOrder(u, m, side, p, q, tif, life, s)
             /\ orders'[s] = NewOrder(u, m, side, p, q, tif, life)
<1>1. s \in Slots /\ orders'[s] # NoOrder
  BY DEF Live
<1>2. CASE s \in Live
  BY <1>1, <1>2, OnlyDealsChange
<1>3. CASE s \notin Live
  <2>1. orders[s] = NoOrder
    BY <1>1, <1>3 DEF Live
  <2>2. ~UNCHANGED orders
    BY <1>1, <2>1
  <2>3. ASSUME NEW t \in Slots, RemoveOrder(t) PROVE FALSE
    BY <1>1, <2>1, <2>3 DEF RemoveOrder, IInv, OrdersSound
  <2>4. ~Deal
    BY <1>1, <1>3, DealOrders
  <2>5. ~OtherModules /\ ~ (\E gap \in 0..MaxTimeGap : NewBlock(gap)) /\ ~Stop
        /\ ~UNCHANGED vars
    BY <2>2 DEF OtherModules, Transfer, ForbidToken, ForbidAddr, NewBlock, Stop, vars
  <2>6. ~ \E t \in Slots : RemoveTodo(t) \/ Settle(t)
    BY <2>2, <2>3 DEF RemoveTodo, Settle
  <2>7. ~EndBlockNewDay /\ ~StartDelist /\ ~FinishDelist /\ ~EndBlockIdle /\ ~EndBlockMatch
        /\ ~CloseBook /\ ~StartSettle /\ ~FinishSettle
    BY <2>2 DEF EndBlockNewDay, StartDelist, FinishDelist, EndBlockIdle, EndBlockMatch,
                CloseBook, StartSettle, FinishSettle
  <2>8. ~ \E m \in pending : \E bids \in SortedLists(BidCandidates(m)),
                                asks \in SortedLists(AskCandidates(m)) : OpenBook(m, bids, asks)
    BY <2>2 DEF OpenBook
  <2>9. Transaction
    BY <2>4, <2>5, <2>6, <2>7, <2>8 DEF Next, EndBlocker
  <2>10. ~ \E u \in Users, t \in Slots : CancelOrder(u, t)
    BY <2>3 DEF CancelOrder
  <2>11. PICK u \in Users, m \in Markets, side \in {"BUY", "SELL"}, p \in Prices,
              q \in Quantities, tif \in TimesInForce, life \in Lifetimes, t \in Slots :
                CreateOrder(u, m, side, p, q, tif, life, t)
    BY <2>2, <2>9, <2>10
       DEF Transaction, CreateTradingPair, CancelTradingPair, ModifyPricePrecision
  <2> DEFINE o == NewOrder(u, m, side, p, q, tif, life)
  <2>12. orders' = [orders EXCEPT ![t] = o]
    BY <2>11 DEF CreateOrder
  <2> HIDE DEF o
  <2>13. t = s /\ orders'[s] = o
    BY <1>1, <2>1, <2>12 DEF IInv, OrdersSound
  <2> QED BY <2>11, <2>13 DEF o
<1> QED BY <1>2, <1>3

LEMMA CommissionMinimum ==
  ASSUME IInv, NEW u \in Users, NEW m \in Markets, NEW side \in {"BUY", "SELL"},
         NEW p \in Prices, NEW q \in Quantities, NEW tif \in TimesInForce, NEW life \in Lifetimes
  PROVE NewOrder(u, m, side, p, q, tif, life).commission >= MarketFeeMin
<1>1. p \in Nat /\ q \in Nat /\ MarketFeeMin \in Nat
  BY MarketAssumption
<1>2. p * q \in Nat
  BY <1>1, ProductNat
<1>3. MoneyAmount(p, q) \in Nat
  BY <1>2, CeilDivBounds, MarketAssumption DEF MoneyAmount
<1> DEFINE v == GetMarketVolume(m, q, MoneyAmount(p, q))
<1>4. v.num \in Nat /\ v.den \in Nat \ {0}
  BY <1>1, <1>3, VolumeType DEF IInv
<1> HIDE DEF v
<1>5. v.num * RateNum \in Nat /\ v.den * RateDen \in Nat \ {0}
  BY <1>4, MarketAssumption
<1>6. RawCommission(m, p, q) \in Nat
  BY <1>5, CeilDivBounds DEF RawCommission, v
<1>7. NewOrder(u, m, side, p, q, tif, life).commission = CalCommission(m, p, q)
  BY DEF NewOrder
<1> QED BY <1>1, <1>6, <1>7 DEF CalCommission, Greater

\* Every order has at least the least commission frozen.
CommissionsPaid == \A s \in Live : orders[s].commission >= MarketFeeMin

LEMMA NextCommissions == IInv /\ CommissionsPaid /\ [Next]_vars => CommissionsPaid'
<1> SUFFICES ASSUME IInv, CommissionsPaid, [Next]_vars, NEW s \in Live'
             PROVE orders'[s].commission >= MarketFeeMin
  BY DEF CommissionsPaid
<1>1. CASE s \in Live /\ orders'[s] = orders[s]
  BY <1>1 DEF CommissionsPaid
<1>2. CASE s \in Live /\ Deal
  <2>1. \A o \in Order : Dealt(o, DealAmount, DealMoney).commission = o.commission
    BY DEF Dealt, Order
  <2>2. s \in Slots /\ orders[s] \in Order
    BY <1>2, LiveOrder DEF IInv, Live
  <2>3. orders'[s].commission = orders[s].commission
    BY <1>2, <2>1, <2>2, DealOrders
  <2> QED BY <1>2, <2>3 DEF CommissionsPaid
<1>3. CASE \E u \in Users, m \in Markets, side \in {"BUY", "SELL"}, p \in Prices,
              q \in Quantities, tif \in TimesInForce, life \in Lifetimes :
             /\ CreateOrder(u, m, side, p, q, tif, life, s)
             /\ orders'[s] = NewOrder(u, m, side, p, q, tif, life)
  BY <1>3, CommissionMinimum
<1> QED BY <1>1, <1>2, <1>3, WhereOrdersComeFrom

LEMMA CommissionsAlwaysPaid == Spec => []CommissionsPaid
<1>1. Init => CommissionsPaid
  BY DEF Init, CommissionsPaid, Live
<1> QED BY InvariantHolds, <1>1, NextCommissions, PTL DEF Spec

\* What an order is charged is within what it has frozen for it.
LEMMA DueCovered ==
  ASSUME ZeroDealFeeCovered, NEW o, SoundOrder(o), o.commission >= MarketFeeMin, NEW h \in Nat
  PROVE CommissionDue(o) <= o.commission /\ FeatureDue(o, h) <= o.feature
<1>1. /\ o \in Order /\ o.commission \in Nat /\ o.feature \in Nat /\ o.dealStock \in Nat
      /\ o.qty \in Nat \ {0} /\ o.dealStock <= o.qty
      /\ o.height \in Nat /\ o.exist \in Nat
  BY OrderFields DEF SoundOrder
<1>2. /\ FeeForZeroDeal \in Nat /\ MarketFeeMin \in Nat /\ MaxOrderAmount \in Nat
      /\ GTEOrderLifetime \in Nat /\ FeeForZeroDeal <= MarketFeeMin
  BY MarketAssumption DEF ZeroDealFeeCovered
<1>3. CommissionDue(o) <= o.commission
  <2>1. CASE o.dealStock = 0
    BY <1>1, <1>2, <2>1 DEF CommissionDue, CalActualOrderCommission, Lesser
  <2>2. CASE o.dealStock # 0
    <3> DEFINE x == o.dealStock * o.commission
               c == x \div o.qty
    <3>1. x \in Nat
      BY <1>1, ProductNat
    <3>2. c \in Nat /\ o.qty * c <= x
      BY <1>1, <3>1, DivBounds
    <3>3. x <= o.qty * o.commission
      <4>1. o.commission * o.dealStock <= o.commission * o.qty
        BY <1>1, ProductMonotone
      <4> QED BY <1>1, <4>1
    <3> HIDE DEF x, c
    <3>4. o.qty * c <= o.qty * o.commission
      <4>1. o.qty * c \in Nat /\ o.qty * o.commission \in Nat
        BY <1>1, <3>2, ProductNat
      <4> QED BY <3>1, <3>2, <3>3, <4>1
    <3>5. c <= o.commission
      BY <1>1, <3>2, <3>4, ProductCancel
    <3> QED BY <1>1, <1>2, <2>2, <3>2, <3>5 DEF CommissionDue, CalActualOrderCommission, Lesser, c, x
  <2> QED BY <2>1, <2>2
<1>4. FeatureDue(o, h) <= o.feature
  <2> DEFINE charged == h - o.height + 1 - GTEOrderLifetime
             f == (charged * o.feature) \div (o.exist - GTEOrderLifetime)
  <2>1. CASE o.tif # "GTE" \/ o.feature = 0 \/ o.exist <= GTEOrderLifetime \/ charged < 0
    <3>1. FeatureDue(o, h) = 0
      BY <2>1 DEF FeatureDue, CalActualOrderFeatureFee
    <3> QED BY <1>1, <3>1
  <2>2. CASE ~ (o.tif # "GTE" \/ o.feature = 0 \/ o.exist <= GTEOrderLifetime \/ charged < 0)
    <3>1. charged \in Nat /\ o.exist - GTEOrderLifetime \in Nat \ {0}
      BY <1>1, <1>2, <2>2
    <3>2. charged * o.feature \in Nat
      BY <1>1, <3>1, ProductNat
    <3>3. f \in Nat
      BY <3>1, <3>2, DivBounds
    <3>4. FeatureDue(o, h) = Lesser(o.feature, f)
      BY <2>2 DEF FeatureDue, CalActualOrderFeatureFee
    <3> HIDE DEF f
    <3> QED BY <1>1, <3>3, <3>4, LesserNat
  <2> QED BY <2>1, <2>2
<1> QED BY <1>3, <1>4

\* All that a refund needs to know of a live order.
LEMMA LiveRefund ==
  ASSUME ZeroDealFeeCovered, IInv, UnheldCovered, CommissionsPaid, NEW s \in Live
  PROVE /\ SoundOrder(orders[s]) /\ orders[s] \in Order /\ s \in Slots
        /\ orders[s].sender \in Users /\ height \in Nat
        /\ \A e \in Denoms : Escrow(orders[s], orders[s].sender, e)
                             <= bank.frozen[orders[s].sender][e]
        /\ CommissionDue(orders[s]) <= orders[s].commission
        /\ FeatureDue(orders[s], height) <= orders[s].feature
<1>1. s \in Slots /\ SoundOrder(orders[s]) /\ orders[s] \in Order /\ orders[s].sender \in Users
      /\ height \in Nat
  BY LiveOrder, OrderFields DEF IInv, RestType, Live
<1>3. \A e \in Denoms : Escrow(orders[s], orders[s].sender, e)
                        <= bank.frozen[orders[s].sender][e]
  BY <1>1, EscrowFrozen
<1>4. CommissionDue(orders[s]) <= orders[s].commission
      /\ FeatureDue(orders[s], height) <= orders[s].feature
  BY <1>1, DueCovered DEF CommissionsPaid
<1> QED BY <1>1, <1>3, <1>4

-----------------------------------------------------------------------------
(* The fees of a removed order *)

\* Nobody is forbidden to spend CET.
CetFree == CET \notin tokenForbidden /\ \A u \in Users : <<CET, u>> \notin addrForbidden

LEMMA NextCetFree == CetUnforbiddable /\ CetFree /\ [Next]_vars => CetFree'
<1> SUFFICES ASSUME CetUnforbiddable, CetFree, [Next]_vars
             PROVE CetFree'
  OBVIOUS
<1>1. CASE UNCHANGED assetVars
  BY <1>1 DEF assetVars, CetFree
<1>2. ASSUME NEW d \in Denoms, ForbidToken(d) PROVE CetFree'
  <2>1. d # CET /\ tokenForbidden' \subseteq tokenForbidden \cup {d}
        /\ addrForbidden' = addrForbidden
    BY <1>2 DEF ForbidToken, CetUnforbiddable
  <2> QED BY <2>1 DEF CetFree
<1>3. ASSUME NEW d \in Denoms, NEW u \in Users, ForbidAddr(d, u) PROVE CetFree'
  <2>1. d # CET /\ addrForbidden' \subseteq addrForbidden \cup {<<d, u>>}
        /\ tokenForbidden' = tokenForbidden
    BY <1>3 DEF ForbidAddr, CetUnforbiddable
  <2>2. \A v \in Users : <<CET, v>> # <<d, u>>
    BY <2>1
  <2> QED BY <2>1, <2>2 DEF CetFree
<1>4. CASE ~UNCHANGED assetVars
  <2>1. ~Transaction /\ ~Stop /\ ~UNCHANGED vars /\ ~ \E gap \in 0..MaxTimeGap : NewBlock(gap)
    BY <1>4 DEF Transaction, CreateTradingPair, CreateOrder, CancelOrder, CancelTradingPair,
                ModifyPricePrecision, NewBlock, Stop, vars
  <2>2. ~EndBlockNewDay /\ ~StartDelist /\ ~FinishDelist /\ ~EndBlockIdle /\ ~FinishSettle
        /\ ~StartSettle /\ ~EndBlockMatch /\ ~CloseBook /\ ~Deal
    BY <1>4 DEF EndBlockNewDay, StartDelist, FinishDelist, EndBlockIdle, FinishSettle, StartSettle,
                EndBlockMatch, CloseBook, Deal
  <2>3. ~ \E s \in Slots : RemoveTodo(s) \/ Settle(s)
    BY <1>4 DEF RemoveTodo, Settle
  <2>4. ~ \E m \in pending : \E bids \in SortedLists(BidCandidates(m)),
                                asks \in SortedLists(AskCandidates(m)) : OpenBook(m, bids, asks)
    BY <1>4 DEF OpenBook
  <2>5. OtherModules
    BY <2>1, <2>2, <2>3, <2>4 DEF Next, EndBlocker
  <2>6. ~ \E u, v \in Users, d \in Denoms, n \in TransferAmounts : Transfer(u, v, d, n)
    BY <1>4 DEF Transfer
  <2> QED BY <2>5, <2>6, <1>2, <1>3 DEF OtherModules
<1> QED BY <1>1, <1>4

LEMMA LiveFees ==
  ASSUME ZeroDealFeeCovered, IInv, UnheldCovered, CommissionsPaid, CetFree
  PROVE FeesCovered
<1> SUFFICES ASSUME NEW s \in Live
             PROVE LET o == orders[s]
                       b == Refund(bank, o, height)
                       owed == (IF o.commission = 0 THEN 0 ELSE CalActualOrderCommission(o))
                               + (IF o.tif = "GTE" /\ o.feature # 0
                                  THEN CalActualOrderFeatureFee(o, height) ELSE 0)
                       paid == b.collected - bank.collected
                   IN  /\ RefereeOf[o.sender] = 0 => paid = owed
                       /\ RefereeOf[o.sender] # 0 =>
                            /\ paid <= owed
                            /\ Holding(b, o.sender, CET) =
                               Holding(bank, o.sender, CET)
                               - (IF RefereeOf[o.sender] = o.sender THEN paid ELSE owed)
  BY DEF FeesCovered
<1> DEFINE o == orders[s]
           u == o.sender
           b == Refund(bank, o, height)
           c == CommissionDue(o)
           f == FeatureDue(o, height)
           rc == RebateAmount(u, c)
           rf == RebateAmount(u, f)
           all == Collects(o, height)
           rebated == Rebates(o, height)
<1>1. /\ SoundOrder(o) /\ o \in Order /\ u \in Users /\ height \in Nat
      /\ \A e \in Denoms : Escrow(o, u, e) <= bank.frozen[u][e]
      /\ c <= o.commission /\ f <= o.feature
  BY LiveRefund
<1>2. CET \in Denoms /\ bank \in Ledger /\ RefereeOf[u] \in 0..NumUsers
  BY <1>1, BankAssumption DEF IInv, Users
<1>3. b.collected = bank.collected + all
      /\ Holding(b, u, CET) = Holding(bank, u, CET) - (all + rebated)
                              + (IF u = RefereeOf[u] THEN rebated ELSE 0)
  BY <1>1, <1>2, RefundHolding
<1>4. c \in Nat /\ f \in Nat /\ all \in Nat /\ rebated \in Nat
  BY <1>1, DueType
<1>5. ~IsForbidden(CET, u)
  BY <1>1 DEF CetFree, IsForbidden
<1>6. rc \in Nat /\ rf \in Nat /\ rc <= c /\ rf <= f
  BY <1>1, <1>4, RebateBounds
<1>7. all = (c - rc) + (f - rf) /\ rebated = rc + rf
  BY <1>5 DEF Collects, Rebates, RebatePaid
<1>8. RefereeOf[u] = 0 => rc = 0 /\ rf = 0
  BY DEF RebateAmount
<1>9. /\ c = (IF o.commission = 0 THEN 0 ELSE CalActualOrderCommission(o))
      /\ f = (IF o.tif = "GTE" /\ o.feature # 0 THEN CalActualOrderFeatureFee(o, height) ELSE 0)
  BY DEF CommissionDue, FeatureDue
<1>10. bank.collected \in Nat /\ Holding(bank, u, CET) \in Nat
  <2>1. bank.collected \in Nat /\ bank.coins[u][CET] \in Nat /\ bank.frozen[u][CET] \in Nat
    BY <1>1, <1>2, LedgerFields DEF Ledger
  <2> QED BY <2>1 DEF Holding
<1> HIDE DEF o, b, c, f, rc, rf, all, rebated
<1> DEFINE held == Holding(b, u, CET)
           had == Holding(bank, u, CET)
<1>11. /\ held = had - (all + rebated) + (IF u = RefereeOf[u] THEN rebated ELSE 0)
       /\ had \in Nat
  BY <1>3, <1>10
<1> HIDE DEF held, had, u
<1>12. /\ RefereeOf[u] = 0 => b.collected - bank.collected = c + f
       /\ RefereeOf[u] # 0 =>
            /\ b.collected - bank.collected <= c + f
            /\ held = had - (IF RefereeOf[u] = u THEN b.collected - bank.collected ELSE c + f)
  BY <1>3, <1>4, <1>6, <1>7, <1>8, <1>10, <1>11
<1> QED BY <1>9, <1>12 DEF o, b, held, had, u

\* Removing an order collects all it owes: what an order froze when it was made
\* covers the fees it is charged when it goes (endblocker.go:215).
THEOREM FeesAlwaysCovered ==
  ZeroDealFeeCovered /\ CetUnforbiddable /\ Spec => []FeesCovered
<1> SUFFICES ASSUME ZeroDealFeeCovered, CetUnforbiddable PROVE Spec => []FeesCovered
  OBVIOUS
<1>1. Init => CetFree
  BY DEF Init, CetFree
<1>2. IInv /\ EscrowExact /\ CommissionsPaid /\ CetFree => FeesCovered
  BY LiveFees, EscrowsCovered
<1>3. CetFree /\ [Next]_vars => CetFree'
  BY NextCetFree
<1> QED BY InvariantHolds, EscrowAlwaysExact, CommissionsAlwaysPaid, <1>1, <1>2, <1>3, PTL DEF Spec

-----------------------------------------------------------------------------
(* The abstract specification is implemented: boxes for orders *)

\* The refinement mapping: who owns the box of each order, and what is in it.
BoxOwner == [s \in Slots |-> IF s \in Live THEN orders[s].sender ELSE 0]
Boxes == [s \in Slots |-> HeldBy(s)]

LEMMA OneBoxChanges ==
  ASSUME NEW k \in Slots, \A t \in Slots \ {k} : orders'[t] = orders[t]
  PROVE /\ BoxOwner' = [BoxOwner EXCEPT ![k] = BoxOwner'[k]]
        /\ Boxes' = [Boxes EXCEPT ![k] = Boxes'[k]]
<1>1. \A t \in Slots \ {k} : (t \in Live') = (t \in Live) /\ orders'[t] = orders[t]
  BY DEF Live
<1>2. \A t \in Slots \ {k} : BoxOwner'[t] = BoxOwner[t]
  BY <1>1 DEF BoxOwner
<1>3. \A t \in Slots \ {k} : Boxes'[t] = Boxes[t]
  <2> SUFFICES ASSUME NEW t \in Slots \ {k} PROVE Boxes'[t] = Boxes[t]
    OBVIOUS
  <2>1. Boxes'[t] = HeldBy(t)' /\ Boxes[t] = HeldBy(t)
    BY DEF Boxes
  <2>2. HeldBy(t)' = HeldBy(t)
    BY <1>1 DEF HeldBy
  <2> QED BY <2>1, <2>2
<1>4. /\ BoxOwner' = [t \in Slots |-> BoxOwner'[t]] /\ BoxOwner = [t \in Slots |-> BoxOwner[t]]
      /\ Boxes' = [t \in Slots |-> Boxes'[t]] /\ Boxes = [t \in Slots |-> Boxes[t]]
  BY DEF BoxOwner, Boxes
<1> HIDE DEF BoxOwner, Boxes
<1>5. BoxOwner' = [BoxOwner EXCEPT ![k] = BoxOwner'[k]]
  BY <1>2, <1>4
<1>6. Boxes' = [Boxes EXCEPT ![k] = Boxes'[k]]
  BY <1>3, <1>4
<1> QED BY <1>5, <1>6

LEMMA CreateOrderOpens ==
  ASSUME IInv, NEW u \in Users, NEW m \in Markets, NEW side \in {"BUY", "SELL"},
         NEW p \in Prices, NEW q \in Quantities, NEW tif \in TimesInForce,
         NEW life \in Lifetimes, NEW s \in Slots,
         CreateOrder(u, m, side, p, q, tif, life, s), IInv'
  PROVE Promise!Open(s, u)
<1> DEFINE o == NewOrder(u, m, side, p, q, tif, life)
           w == bank.coins
           w2 == bank'.coins
           in == [d \in Denoms |-> Escrow(o, u, d)]
<1>1. /\ o \in Order /\ o.sender = u /\ bank' = FreezeForOrder(bank, o)
      /\ orders[s] = NoOrder /\ orders'[s] = o
      /\ \A t \in Slots \ {s} : orders'[t] = orders[t]
      /\ \A v \in Users, d \in Denoms :
           bank'.frozen[v][d] = bank.frozen[v][d] + Escrow(o, v, d)
  BY CreateOrderFrozen
<1> HIDE DEF o
<1>2. bank \in Ledger /\ bank' \in Ledger
  BY DEF IInv
<1>3. /\ \A v \in Users, d \in Denoms : w2[v][d] = w[v][d] - Escrow(o, v, d)
      /\ bank'.collected = bank.collected
  BY <1>1, <1>2, FreezeForOrderCoins
<1>4. /\ w \in [Users -> [Denoms -> Nat]] /\ w2 \in [Users -> [Denoms -> Nat]]
      /\ \A v \in Users, d \in Denoms : w[v][d] \in Nat /\ w2[v][d] \in Nat
  BY <1>2 DEF Ledger
<1>5. \A v \in Users, d \in Denoms : Escrow(o, v, d) \in Nat /\ (v # u => Escrow(o, v, d) = 0)
  BY <1>1, EscrowType DEF Escrow
<1>6. s \notin Live /\ s \in Live'
  <2>1. o # NoOrder
    BY <1>1, AbsentAssumption DEF Order
  <2> QED BY <1>1, <2>1 DEF Live
<1>7. BoxOwner[s] = 0 /\ BoxOwner'[s] = u
  BY <1>1, <1>6 DEF BoxOwner
<1>8. Boxes'[s] = in
  <2>1. Boxes'[s] = HeldBy(s)'
    BY DEF Boxes
  <2> QED BY <1>1, <1>6, <2>1 DEF HeldBy
<1> HIDE DEF w, w2
<1>9. \A d \in Denoms : in[d] \in 0..w[u][d]
  BY <1>3, <1>4, <1>5
<1>10. \A v \in Users, d \in Denoms : w2[v][d] = IF v = u THEN w[u][d] - in[d] ELSE w[v][d]
  BY <1>3, <1>4, <1>5
<1> HIDE DEF in
<1>11. w2 = [w EXCEPT ![u] = [d \in Denoms |-> @[d] - in[d]]]
  <2> DEFINE r == [w EXCEPT ![u] = [d \in Denoms |-> @[d] - in[d]]]
  <2>1. r = [v \in Users |-> IF v = u THEN [d \in Denoms |-> w[u][d] - in[d]] ELSE w[v]]
    BY <1>4
  <2>2. \A v \in Users : w2[v] = r[v]
    <3> SUFFICES ASSUME NEW v \in Users PROVE w2[v] = r[v]
      OBVIOUS
    <3>1. w2[v] = [d \in Denoms |-> w2[v][d]] /\ w[v] = [d \in Denoms |-> w[v][d]]
      BY <1>4
    <3> QED BY <1>10, <2>1, <3>1
  <2>3. w2 = [v \in Users |-> w2[v]]
    BY <1>4
  <2> HIDE DEF r
  <2> QED BY <2>1, <2>2, <2>3 DEF r
<1>12. /\ BoxOwner' = [BoxOwner EXCEPT ![s] = u]
       /\ Boxes' = [Boxes EXCEPT ![s] = Boxes'[s]]
  BY <1>1, <1>7, OneBoxChanges
<1> QED BY <1>3, <1>7, <1>8, <1>9, <1>11, <1>12 DEF Promise!Open, BoxOwner, Boxes, w, w2

\* Purses are equal if they hold the same of every denom.
Purses == [Users -> [Denoms -> Int]]

LEMMA PursesEqual ==
  ASSUME NEW w \in Purses, NEW x \in Purses, \A v \in Users, e \in Denoms : w[v][e] = x[v][e]
  PROVE w = x
<1>1. \A v \in Users : w[v] = x[v]
  <2> SUFFICES ASSUME NEW v \in Users PROVE w[v] = x[v]
    OBVIOUS
  <2>1. w[v] = [e \in Denoms |-> w[v][e]] /\ x[v] = [e \in Denoms |-> x[v][e]]
    BY DEF Purses
  <2> QED BY <2>1
<1>2. w = [v \in Users |-> w[v]] /\ x = [v \in Users |-> x[v]]
  BY DEF Purses
<1> QED BY <1>1, <1>2

LEMMA PurseGive ==
  ASSUME NEW w \in Purses, NEW u \in Users, NEW d \in Denoms, NEW n \in Int
  PROVE /\ Give(w, u, d, n) \in Purses
        /\ \A v \in Users, e \in Denoms :
             Give(w, u, d, n)[v][e] = IF v = u /\ e = d THEN w[u][d] + n ELSE w[v][e]
<1>1. w[u][d] \in Int
  BY DEF Purses
<1> QED BY <1>1 DEF Give, Purses

LEMMA LedgerPurses == bank \in Ledger => bank.coins \in Purses
BY DEF Ledger, Purses

LEMMA RemoveOrderCloses ==
  ASSUME ZeroDealFeeCovered, IInv, IInv', UnheldCovered, CommissionsPaid,
         NEW s \in Live, RemoveOrder(s)
  PROVE \E v \in Users : \E r \in 0..Boxes[s][CET] : Promise!Close(s, v, r)
<1> DEFINE o == orders[s]
           u == o.sender
           v == IF RefereeOf[u] = 0 THEN u ELSE RefereeOf[u]
           r == Rebates(o, height)
           all == Collects(o, height)
           w == bank.coins
           w2 == bank'.coins
           in == [d \in Denoms |-> Escrow(o, u, d)]
           returned == [w EXCEPT ![u] = [d \in Denoms |-> @[d] + in[d]]]
           taken == Give(returned, u, CET, 0 - (all + r))
<1>1. /\ SoundOrder(o) /\ o \in Order /\ s \in Slots /\ u \in Users /\ height \in Nat
      /\ \A e \in Denoms : Escrow(o, u, e) <= bank.frozen[u][e]
      /\ CommissionDue(o) <= o.commission /\ FeatureDue(o, height) <= o.feature
  BY LiveRefund
<1>2. /\ CET \in Denoms /\ bank \in Ledger /\ bank' \in Ledger /\ bank' = Refund(bank, o, height)
      /\ RefereeOf[u] \in 0..NumUsers /\ NumUsers \in Nat \ {0}
  BY <1>1, BankAssumption DEF IInv, Users, RemoveOrder
<1>3. v \in Users /\ u # 0
  BY <1>1, <1>2 DEF Users
<1>4. r \in Nat /\ all \in Nat /\ all + r <= CommissionDue(o) + FeatureDue(o, height)
      /\ CommissionDue(o) \in Nat /\ FeatureDue(o, height) \in Nat
      /\ (RefereeOf[u] = 0 => r = 0)
  BY <1>1, DueType DEF Rebates, RebatePaid, RebateAmount
<1>5. /\ bank'.collected = bank.collected + all /\ bank.collected \in Nat
      /\ \A x \in Users, e \in Denoms :
           Holding(bank', x, e)
           = Holding(bank, x, e) - (IF x = u /\ e = CET THEN all + r ELSE 0)
                                 + (IF x = RefereeOf[u] /\ e = CET THEN r ELSE 0)
  <2> DEFINE b == Refund(bank, o, height)
  <2>1. /\ b.collected = bank.collected + all
        /\ \A x \in Users, e \in Denoms :
             Holding(b, x, e)
             = Holding(bank, x, e) - (IF x = u /\ e = CET THEN all + r ELSE 0)
                                   + (IF x = RefereeOf[u] /\ e = CET THEN r ELSE 0)
    BY <1>1, <1>2, RefundHolding
  <2>2. bank.collected \in Nat
    BY <1>2 DEF Ledger
  <2> HIDE DEF b, all, r
  <2>3. bank' = b
    BY <1>2 DEF b
  <2> QED BY <2>1, <2>2, <2>3
<1> HIDE DEF all, r
<1>6. \A x \in Users, e \in Denoms :
        /\ bank'.frozen[x][e] = bank.frozen[x][e] - Escrow(o, x, e)
        /\ bank.frozen[x][e] \in Nat /\ bank'.frozen[x][e] \in Nat
        /\ w[x][e] \in Nat /\ w2[x][e] \in Nat /\ Escrow(o, x, e) \in Nat
        /\ x # u => Escrow(o, x, e) = 0
  <2>1. \A x \in Users, e \in Denoms :
          bank'.frozen[x][e] = bank.frozen[x][e] - Escrow(o, x, e)
    BY <1>1, <1>2, RefundFrozen
  <2>2. \A x \in Users, e \in Denoms :
          Escrow(o, x, e) \in Nat /\ (x # u => Escrow(o, x, e) = 0)
    BY <1>1, EscrowType DEF Escrow
  <2> QED BY <1>2, <2>1, <2>2, LedgerFields
<1>7. o # NoOrder /\ orders'[s] = NoOrder /\ \A t \in Slots \ {s} : orders'[t] = orders[t]
  BY <1>1, AbsentAssumption DEF Order, IInv, OrdersSound, RemoveOrder
<1>8. in[CET] = Escrow(o, u, CET) /\ all + r <= in[CET]
  <2>1. o.commission \in Nat /\ o.feature \in Nat /\ o.freeze \in Nat
    BY <1>1, OrderFields
  <2>2. o.commission + o.feature <= Escrow(o, u, CET)
    BY <1>7, <2>1 DEF Escrow
  <2> QED BY <1>1, <1>2, <1>4, <1>6, <2>1, <2>2
<1>9. /\ BoxOwner[s] = u /\ Boxes[s] = in
      /\ BoxOwner'[s] = 0 /\ Boxes'[s] = Promise!Empty
  BY <1>1, <1>7 DEF BoxOwner, Boxes, HeldBy, Live, Promise!Empty
<1>10. /\ BoxOwner' = [BoxOwner EXCEPT ![s] = 0]
       /\ Boxes' = [Boxes EXCEPT ![s] = Promise!Empty]
  BY <1>1, <1>7, <1>9, OneBoxChanges
<1>11. w \in Purses /\ w2 \in Purses
  BY <1>2, LedgerPurses DEF Ledger, Purses
<1>12. \A x \in Users, e \in Denoms :
         w2[x][e] = w[x][e] + (IF x = u THEN Escrow(o, x, e) ELSE 0)
                    - (IF x = u /\ e = CET THEN all + r ELSE 0)
                    + (IF x = v /\ e = CET THEN r ELSE 0)
  <2> SUFFICES ASSUME NEW x \in Users, NEW e \in Denoms
               PROVE w2[x][e] = w[x][e] + (IF x = u THEN Escrow(o, x, e) ELSE 0)
                                - (IF x = u /\ e = CET THEN all + r ELSE 0)
                                + (IF x = v /\ e = CET THEN r ELSE 0)
    OBVIOUS
  <2> DEFINE q == Escrow(o, x, e)
             had == bank.frozen[x][e]
             has == bank'.frozen[x][e]
             gone == IF x = u /\ e = CET THEN all + r ELSE 0
             come == IF x = RefereeOf[u] /\ e = CET THEN r ELSE 0
  <2>1. w2[x][e] + has = (w[x][e] + had) - gone + come
    <3> DEFINE after == Holding(bank', x, e)
               before == Holding(bank, x, e)
    <3>1. after = before - gone + come
      BY <1>5
    <3>2. after = w2[x][e] + has /\ before = w[x][e] + had
      BY DEF Holding
    <3> HIDE DEF after, before, w, w2, had, has, gone, come
    <3> QED BY <3>1, <3>2
  <2>2. /\ has = had - q /\ had \in Nat /\ q \in Nat /\ w[x][e] \in Nat /\ w2[x][e] \in Nat
        /\ (x # u => q = 0)
    BY <1>6
  <2>3. gone \in Nat /\ come \in Nat /\ come = (IF x = v /\ e = CET THEN r ELSE 0)
    BY <1>1, <1>2, <1>4 DEF Users
  <2> HIDE DEF q, had, has, gone, come, w, w2
  <2>4. w2[x][e] = w[x][e] + (IF x = u THEN q ELSE 0) - gone + come
    BY <2>1, <2>2, <2>3
  <2> QED BY <2>3, <2>4 DEF q, gone
<1> HIDE DEF w, w2, v
<1>13. /\ returned \in Purses
       /\ \A x \in Users, e \in Denoms :
            returned[x][e] = w[x][e] + (IF x = u THEN Escrow(o, x, e) ELSE 0)
  <2>1. \A d \in Denoms : w[u][d] + in[d] \in Int
    BY <1>1, <1>6
  <2>2. \A x \in Users : w[x] \in [Denoms -> Int]
    BY <1>11 DEF Purses
  <2>3. returned = [x \in Users |-> IF x = u THEN [d \in Denoms |-> w[u][d] + in[d]] ELSE w[x]]
    BY <1>11 DEF Purses
  <2>4. returned \in Purses
    BY <2>1, <2>2, <2>3 DEF Purses
  <2>5. \A x \in Users, e \in Denoms : w[x][e] \in Int
    BY <1>11 DEF Purses
  <2> QED BY <2>3, <2>4, <2>5
<1> HIDE DEF returned
<1>14. /\ taken \in Purses
       /\ \A x \in Users, e \in Denoms :
            taken[x][e] = IF x = u /\ e = CET THEN returned[u][CET] + (0 - (all + r))
                          ELSE returned[x][e]
  <2>1. 0 - (all + r) \in Int
    BY <1>4
  <2>2. returned \in Purses /\ u \in Users /\ CET \in Denoms
    BY <1>1, <1>2, <1>13
  <2> HIDE DEF u
  <2> QED BY <2>1, <2>2, PurseGive
<1> HIDE DEF taken
<1> DEFINE given == Give(taken, v, CET, r)
<1>15. /\ given \in Purses
       /\ \A x \in Users, e \in Denoms :
            given[x][e] = IF x = v /\ e = CET THEN taken[v][CET] + r ELSE taken[x][e]
  <2>1. r \in Int
    BY <1>4
  <2>2. taken \in Purses /\ v \in Users /\ CET \in Denoms
    BY <1>2, <1>3, <1>14
  <2> QED BY <2>1, <2>2, PurseGive
<1> HIDE DEF given
<1>16. w2 = given
  <2>1. \A x \in Users, e \in Denoms : w2[x][e] = given[x][e]
    <3> SUFFICES ASSUME NEW x \in Users, NEW e \in Denoms PROVE w2[x][e] = given[x][e]
      OBVIOUS
    <3>1. w[x][e] \in Nat /\ Escrow(o, x, e) \in Nat
      BY <1>6 DEF w
    <3>2. returned[x][e] = w[x][e] + (IF x = u THEN Escrow(o, x, e) ELSE 0)
      BY <1>13
    <3>3. taken[x][e] = returned[x][e] - (IF x = u /\ e = CET THEN all + r ELSE 0)
      BY <1>4, <1>14, <3>1, <3>2
    <3>4. given[x][e] = taken[x][e] + (IF x = v /\ e = CET THEN r ELSE 0)
      BY <1>4, <1>15, <3>1, <3>2, <3>3
    <3>5. w2[x][e] = w[x][e] + (IF x = u THEN Escrow(o, x, e) ELSE 0)
                    - (IF x = u /\ e = CET THEN all + r ELSE 0)
                    + (IF x = v /\ e = CET THEN r ELSE 0)
      BY <1>12
    <3> QED BY <1>4, <3>1, <3>2, <3>3, <3>4, <3>5
  <2> QED BY <1>11, <1>15, <2>1, PursesEqual
<1> DEFINE share == bank'.collected - bank.collected
<1>17. share = all
  BY <1>4, <1>5
<1> HIDE DEF share
<1>18. w2 = Give(Give([w EXCEPT ![BoxOwner[s]] = [d \in Denoms |-> @[d] + Boxes[s][d]]],
                           BoxOwner[s], CET, 0 - (share + r)), v, CET, r)
  BY <1>9, <1>16, <1>17 DEF given, taken, returned
<1>19. share >= 0 /\ share + r <= Boxes[s][CET] /\ r \in 0..Boxes[s][CET]
  BY <1>1, <1>2, <1>4, <1>6, <1>8, <1>9, <1>17
<1>20. PICK x \in Users : x = v
  BY <1>3
<1>21. PICK y \in 0..Boxes[s][CET] : y = r
  BY <1>19
<1>22. w2 = Promise!Give(
              Promise!Give([w EXCEPT ![BoxOwner[s]] = [d \in Denoms |-> @[d] + Boxes[s][d]]],
                           BoxOwner[s], CET, 0 - (share + y)), x, CET, y)
  BY <1>18, <1>20, <1>21 DEF Promise!Give, Give
<1>23. Promise!Close(s, x, y)
  BY <1>3, <1>9, <1>10, <1>19, <1>21, <1>22
     DEF Promise!Close, BoxOwner, Boxes, w, w2, share
<1> QED BY <1>23

LEMMA ExchangeCollects ==
  ASSUME NEW b \in Ledger, NEW u \in Users, NEW v \in Users, NEW m \in Markets,
         NEW amount \in Nat, NEW money \in Nat
  PROVE Exchange(b, u, v, m, amount, money).collected = b.collected
<1> DEFINE thawed  == UnFreezeCoins(b, u, StockOf[m], amount)
           stocked == SendCoins(thawed, u, v, StockOf[m], amount)
           freed   == UnFreezeCoins(stocked, v, MoneyOf[m], money)
           paid    == SendCoins(freed, v, u, MoneyOf[m], money)
<1>1. \A c \in Ledger, x, y \in Users, d \in Denoms, n \in Nat :
        /\ UnFreezeCoins(c, x, d, n).collected = c.collected
        /\ SendCoins(c, x, y, d, n).collected = c.collected
  BY DEF UnFreezeCoins, SendCoins, Ledger
<1>2. StockOf[m] \in Denoms /\ MoneyOf[m] \in Denoms
  BY MarketAssumption
<1>3. thawed \in Ledger /\ thawed.collected = b.collected
  BY <1>1, <1>2, UnFreezeLedger
<1> HIDE DEF thawed
<1>4. stocked \in Ledger /\ stocked.collected = thawed.collected
  <2>1. stocked \in Ledger
    BY <1>2, <1>3, SendLedger
  <2>2. stocked.collected = thawed.collected
    BY <1>1, <1>2, <1>3
  <2> QED BY <2>1, <2>2
<1> HIDE DEF stocked
<1>5. freed \in Ledger /\ freed.collected = stocked.collected
  <2>1. freed \in Ledger
    BY <1>2, <1>4, UnFreezeLedger
  <2>2. freed.collected = stocked.collected
    BY <1>1, <1>2, <1>4
  <2> QED BY <2>1, <2>2
<1> HIDE DEF freed
<1>6. paid.collected = freed.collected
  BY <1>1, <1>2, <1>5
<1> QED BY <1>3, <1>4, <1>5, <1>6 DEF Exchange, thawed, stocked, freed

\* A deal takes coins out of two boxes and pays them to the owner of the other.
LEMMA DealCoins ==
  ASSUME IInv, IInv', UnheldCovered, ListsAllowed, Deal
  PROVE \A u \in Users, d \in Denoms :
          bank'.coins[u][d]
          = bank.coins[u][d]
            + (IF u = orders[Buyer].sender /\ d = StockOf[mkt] THEN DealAmount ELSE 0)
            + (IF u = orders[Seller].sender /\ d = MoneyOf[mkt] THEN DealMoney ELSE 0)
<1> DEFINE su == orders[Seller].sender
           bu == orders[Buyer].sender
           stock == StockOf[mkt]
           money == MoneyOf[mkt]
           n == DealAmount
           x == DealMoney
           b == Exchange(bank, su, bu, mkt, n, x)
<1>2. /\ mkt \in Markets /\ Buyer \in OrdersOf(mkt) /\ Seller \in OrdersOf(mkt)
      /\ n \in Nat /\ x \in Nat /\ bank' = b
  BY DealFacts
<1>3. su \in Users /\ bu \in Users
  BY <1>2, LiveOrder, OrderFields DEF IInv, OrdersOf
<1>4. n <= bank.frozen[su][stock] /\ x <= bank.frozen[bu][money]
  BY DealCovered
<1>5. ~IsForbidden(stock, su) /\ ~IsForbidden(money, bu)
  <2>1. 1 \in DOMAIN bidList /\ Buyer = bidList[1] /\ 1 \in DOMAIN askList /\ Seller = askList[1]
        /\ mkt # NoMarket
    BY DEF IInv, BlockType, Deal, Crossing, Buyer, Seller
  <2> QED BY <2>1 DEF ListsAllowed, SenderForbidden
<1>6. bank \in Ledger /\ bank' \in Ledger
  BY DEF IInv
<1>7. stock \in Denoms /\ money \in Denoms /\ stock # money
  BY <1>2, MarketAssumption
<1> SUFFICES ASSUME NEW u \in Users, NEW d \in Denoms
             PROVE bank'.coins[u][d] = bank.coins[u][d]
                     + (IF u = bu /\ d = stock THEN n ELSE 0)
                     + (IF u = su /\ d = money THEN x ELSE 0)
  OBVIOUS
<1>8. /\ Holding(b, u, d)
         = Holding(bank, u, d)
           + (IF u = bu THEN (IF d = stock THEN n ELSE 0) - (IF d = money THEN x ELSE 0) ELSE 0)
           - (IF u = su THEN (IF d = stock THEN n ELSE 0) - (IF d = money THEN x ELSE 0) ELSE 0)
      /\ b.frozen[u][d] = bank.frozen[u][d] - (IF u = su /\ d = stock THEN n ELSE 0)
                                            - (IF u = bu /\ d = money THEN x ELSE 0)
  <2>1. bank \in Ledger /\ mkt \in Markets /\ n \in Nat /\ x \in Nat
    BY <1>2, <1>6
  <2> HIDE DEF n, x, su, bu
  <2>2. Holding(b, u, d)
         = Holding(bank, u, d)
           + (IF u = bu THEN (IF d = stock THEN n ELSE 0) - (IF d = money THEN x ELSE 0) ELSE 0)
           - (IF u = su THEN (IF d = stock THEN n ELSE 0) - (IF d = money THEN x ELSE 0) ELSE 0)
    BY <1>3, <1>4, <1>5, <2>1, ExchangeHolding
  <2>3. b.frozen[u][d] = bank.frozen[u][d] - (IF u = su /\ d = stock THEN n ELSE 0)
                                            - (IF u = bu /\ d = money THEN x ELSE 0)
    BY <1>3, <1>4, <2>1, ExchangeFrozen
  <2> QED BY <2>2, <2>3
<1>9. /\ bank.coins[u][d] \in Nat /\ bank.frozen[u][d] \in Nat
      /\ b.coins[u][d] \in Nat /\ b.frozen[u][d] \in Nat
  BY <1>2, <1>6, LedgerFields
<1>10. /\ Holding(b, u, d) = b.coins[u][d] + b.frozen[u][d]
       /\ Holding(bank, u, d) = bank.coins[u][d] + bank.frozen[u][d]
  BY DEF Holding
<1> HIDE DEF b, n, x, su, bu, stock, money
<1>11. b.coins[u][d] = bank.coins[u][d] + (IF u = bu /\ d = stock THEN n ELSE 0)
                       + (IF u = su /\ d = money THEN x ELSE 0)
  BY <1>2, <1>7, <1>8, <1>9, <1>10
<1> QED BY <1>2, <1>11

LEMMA DealSwaps ==
  ASSUME IInv, IInv', UnheldCovered, ListsAllowed, Deal
  PROVE \E a, b \in Slots, d, e \in Denoms :
          \E n \in 0..Boxes[a][d], x \in 0..Boxes[b][e] : Promise!Swap(a, b, d, e, n, x)
<1> DEFINE w == bank.coins
           w2 == bank'.coins
<1>1. /\ mkt \in Markets /\ Buyer \in OrdersOf(mkt) /\ Seller \in OrdersOf(mkt)
      /\ Buyer # Seller
      /\ orders[Buyer].side = "BUY" /\ orders[Seller].side = "SELL"
      /\ DealAmount \in Nat /\ DealMoney \in Nat
      /\ DealMoney <= orders[Buyer].freeze /\ DealAmount <= orders[Seller].freeze
      /\ Dealt(orders[Buyer], DealAmount, DealMoney) \in Order
      /\ Dealt(orders[Seller], DealAmount, DealMoney) \in Order
  BY DealFacts DEF SoundOrder
<1>2. PICK a \in Slots, b \in Slots : a = Seller /\ b = Buyer
  BY <1>1 DEF OrdersOf, Live
<1>3. PICK d \in Denoms, e \in Denoms : d = StockOf[mkt] /\ e = MoneyOf[mkt]
  BY <1>1, MarketAssumption
<1>4. PICK n \in Nat, x \in Nat : n = DealAmount /\ x = DealMoney
  BY <1>1
<1>5. /\ a \in Live /\ b \in Live /\ orders[a] \in Order /\ orders[b] \in Order
      /\ orders[a].sender \in Users /\ orders[b].sender \in Users
      /\ a # b /\ d # e
      /\ UsedDenom(orders[a].side, orders[a].market) = d
      /\ UsedDenom(orders[b].side, orders[b].market) = e
  <2>1. /\ a \in Live /\ b \in Live /\ orders[a].market = mkt /\ orders[b].market = mkt
    BY <1>1, <1>2 DEF OrdersOf
  <2>2. orders[a] \in Order /\ orders[b] \in Order
    BY <2>1, LiveOrder DEF IInv
  <2> QED BY <1>1, <1>2, <1>3, <2>1, <2>2, OrderFields, MarketAssumption DEF UsedDenom
<1> DEFINE su == orders[a].sender
           bu == orders[b].sender
<1>6. /\ orders'[a] = Dealt(orders[a], n, x) /\ orders'[b] = Dealt(orders[b], n, x)
      /\ \A s \in Slots \ {a, b} : orders'[s] = orders[s]
      /\ Live' = Live /\ orders'[a].sender = su /\ orders'[b].sender = bu
      /\ \A s \in Live : orders'[s].sender = orders[s].sender
      /\ orders'[a] \in Order /\ orders'[b] \in Order
  BY <1>1, <1>2, <1>4, <1>5, DealOrders
<1>7. \A s \in Slots, f \in Denoms :
        /\ Boxes[s][f] = IF s \in Live THEN Escrow(orders[s], orders[s].sender, f) ELSE 0
        /\ Boxes'[s][f] = IF s \in Live' THEN Escrow(orders'[s], orders'[s].sender, f) ELSE 0
  BY DEF Boxes, HeldBy
<1>8. \A f \in Denoms :
        /\ Escrow(orders'[a], su, f) = Escrow(orders[a], su, f) - (IF d = f THEN n ELSE 0)
        /\ Escrow(orders'[b], bu, f) = Escrow(orders[b], bu, f) - (IF e = f THEN x ELSE 0)
        /\ Escrow(orders[a], su, f) \in Nat /\ Escrow(orders[b], bu, f) \in Nat
        /\ Escrow(orders'[a], su, f) \in Nat /\ Escrow(orders'[b], bu, f) \in Nat
  <2>1. orders[a].side = "SELL" /\ orders[b].side = "BUY"
    BY <1>1, <1>2
  <2>2. Dealt(orders[a], n, x) \in Order /\ Dealt(orders[b], n, x) \in Order
    BY <1>1, <1>2, <1>4
  <2>3. \A f \in Denoms :
          /\ Escrow(Dealt(orders[a], n, x), su, f)
             = Escrow(orders[a], su, f) - (IF su = su /\ d = f THEN n ELSE 0)
          /\ Escrow(Dealt(orders[b], n, x), bu, f)
             = Escrow(orders[b], bu, f) - (IF bu = bu /\ e = f THEN x ELSE 0)
    BY <1>4, <1>5, <2>1, <2>2, DealtEscrow
  <2> QED BY <1>5, <1>6, <2>3, EscrowType
<1>9. n \in 0..Boxes[a][d] /\ x \in 0..Boxes[b][e]
  <2>1. /\ n <= Escrow(orders[a], su, d) /\ x <= Escrow(orders[b], bu, e)
    <3>1. Escrow(orders'[a], su, d) = Escrow(orders[a], su, d) - n
          /\ Escrow(orders'[b], bu, e) = Escrow(orders[b], bu, e) - x
      BY <1>8
    <3> QED BY <1>4, <1>8, <3>1
  <2> QED BY <1>4, <1>5, <1>7, <1>8, <2>1
<1>10. BoxOwner' = BoxOwner /\ BoxOwner[a] = su /\ BoxOwner[b] = bu
  BY <1>5, <1>6 DEF BoxOwner
<1>11. su # 0 /\ bu # 0
  BY <1>5 DEF Users
<1>12. \A s \in Slots, f \in Denoms :
         /\ Boxes[s][f] \in Int /\ Boxes'[s][f] \in Int
         /\ Boxes'[s][f] = Boxes[s][f] - (IF s = a /\ f = d THEN n ELSE 0)
                                       - (IF s = b /\ f = e THEN x ELSE 0)
  <2> SUFFICES ASSUME NEW s \in Slots, NEW f \in Denoms
               PROVE /\ Boxes[s][f] \in Int /\ Boxes'[s][f] \in Int
                     /\ Boxes'[s][f] = Boxes[s][f] - (IF s = a /\ f = d THEN n ELSE 0)
                                                   - (IF s = b /\ f = e THEN x ELSE 0)
    OBVIOUS
  <2>1. CASE s = a
    <3>1. Boxes[s][f] = Escrow(orders[a], su, f) /\ Boxes'[s][f] = Escrow(orders'[a], su, f)
      BY <1>5, <1>6, <1>7, <2>1
    <3> QED BY <1>4, <1>5, <1>8, <2>1, <3>1
  <2>2. CASE s = b
    <3>1. Boxes[s][f] = Escrow(orders[b], bu, f) /\ Boxes'[s][f] = Escrow(orders'[b], bu, f)
      BY <1>5, <1>6, <1>7, <2>2
    <3> QED BY <1>4, <1>5, <1>8, <2>2, <3>1
  <2>3. CASE s # a /\ s # b
    <3>1. orders'[s] = orders[s] /\ (s \in Live' <=> s \in Live)
      BY <1>6, <2>3
    <3>2. Boxes'[s][f] = Boxes[s][f]
      BY <1>7, <3>1
    <3>3. Boxes[s][f] \in Nat
      <4>1. CASE s \in Live
        <5>1. orders[s] \in Order
          BY <4>1, LiveOrder DEF IInv
        <5> QED BY <1>7, <4>1, <5>1, EscrowType, OrderFields
      <4> QED BY <1>7, <4>1
    <3> QED BY <2>3, <3>2, <3>3
  <2> QED BY <2>1, <2>2, <2>3
<1>13. Boxes' = [Boxes EXCEPT ![a][d] = @ - n, ![b][e] = @ - x]
  <2> DEFINE r == [Boxes EXCEPT ![a][d] = @ - n, ![b][e] = @ - x]
  <2>1. /\ Boxes = [s \in Slots |-> Boxes[s]] /\ Boxes' = [s \in Slots |-> Boxes'[s]]
        /\ \A s \in Slots : /\ Boxes[s] = [f \in Denoms |-> Boxes[s][f]]
                            /\ Boxes'[s] = [f \in Denoms |-> Boxes'[s][f]]
    BY DEF Boxes, HeldBy
  <2> HIDE DEF Boxes
  <2>2. /\ r = [s \in Slots |-> r[s]]
        /\ \A s \in Slots : r[s] = [f \in Denoms |-> r[s][f]]
    BY <1>5, <2>1
  <2>3. \A s \in Slots, f \in Denoms : r[s][f] = Boxes'[s][f]
    <3>1. r = [s \in Slots |->
                 IF s = a THEN [f \in Denoms |-> IF f = d THEN Boxes[a][d] - n ELSE Boxes[a][f]]
                 ELSE IF s = b THEN [f \in Denoms |-> IF f = e THEN Boxes[b][e] - x ELSE Boxes[b][f]]
                 ELSE Boxes[s]]
      <4> DEFINE mid == [Boxes EXCEPT ![a][d] = @ - n]
                 end == [mid EXCEPT ![b][e] = Boxes[b][e] - x]
      <4>1. mid = [s \in Slots |->
                     IF s = a THEN [f \in Denoms |-> IF f = d THEN Boxes[a][d] - n ELSE Boxes[a][f]]
                     ELSE Boxes[s]]
        <5>1. [Boxes[a] EXCEPT ![d] = @ - n]
              = [f \in Denoms |-> IF f = d THEN Boxes[a][d] - n ELSE Boxes[a][f]]
          BY <2>1
        <5>2. mid = [s \in Slots |-> IF s = a THEN [Boxes[a] EXCEPT ![d] = @ - n] ELSE Boxes[s]]
          BY <2>1
        <5> QED BY <5>1, <5>2
      <4>2. r = end
        OBVIOUS
      <4> HIDE DEF mid
      <4>3. mid[b] = Boxes[b]
        BY <1>5, <4>1
      <4>4. [mid[b] EXCEPT ![e] = Boxes[b][e] - x]
            = [f \in Denoms |-> IF f = e THEN Boxes[b][e] - x ELSE Boxes[b][f]]
        BY <2>1, <4>3
      <4>5. end = [s \in Slots |-> IF s = b THEN [mid[b] EXCEPT ![e] = Boxes[b][e] - x]
                                           ELSE mid[s]]
        BY <4>1
      <4> QED BY <1>5, <4>1, <4>2, <4>4, <4>5
    <3> HIDE DEF r
    <3>2. \A s \in Slots, f \in Denoms :
            r[s][f] = IF s = a THEN (IF f = d THEN Boxes[a][d] - n ELSE Boxes[a][f])
                      ELSE IF s = b THEN (IF f = e THEN Boxes[b][e] - x ELSE Boxes[b][f])
                      ELSE Boxes[s][f]
      BY <3>1
    <3> QED BY <1>4, <1>5, <1>12, <3>2
  <2> HIDE DEF r
  <2>4. \A s \in Slots : r[s] = Boxes'[s]
    BY <2>1, <2>2, <2>3
  <2>5. r = Boxes'
    BY <2>1, <2>2, <2>4
  <2> QED BY <2>5 DEF r
<1> DEFINE one == Give(w, bu, d, n)
           two == Give(one, su, e, x)
<1>14. w \in Purses /\ w2 \in Purses
  <2>1. bank \in Ledger /\ bank' \in Ledger
    BY DEF IInv
  <2> QED BY <2>1, LedgerPurses DEF Ledger, Purses
<1>15. \A u \in Users, f \in Denoms :
         w2[u][f] = w[u][f] + (IF u = bu /\ f = d THEN n ELSE 0)
                            + (IF u = su /\ f = e THEN x ELSE 0)
  BY <1>2, <1>3, <1>4, DealCoins
<1>16. su \in Users /\ bu \in Users
  BY <1>5
<1> HIDE DEF w, w2, su, bu
<1>17. /\ one \in Purses
       /\ \A u \in Users, f \in Denoms :
            one[u][f] = IF u = bu /\ f = d THEN w[bu][d] + n ELSE w[u][f]
  BY <1>14, <1>16, PurseGive
<1> HIDE DEF one
<1>18. /\ two \in Purses
       /\ \A u \in Users, f \in Denoms :
            two[u][f] = IF u = su /\ f = e THEN one[su][e] + x ELSE one[u][f]
  BY <1>16, <1>17, PurseGive
<1> HIDE DEF two
<1>19. w2 = two
  <2>1. \A u \in Users, f \in Denoms : w2[u][f] = two[u][f]
    <3> SUFFICES ASSUME NEW u \in Users, NEW f \in Denoms PROVE w2[u][f] = two[u][f]
      OBVIOUS
    <3>1. w[u][f] \in Int /\ w[bu][d] \in Int
      BY <1>14, <1>16 DEF Purses
    <3>2. one[u][f] = w[u][f] + (IF u = bu /\ f = d THEN n ELSE 0)
      BY <1>4, <1>17, <3>1
    <3>3. two[u][f] = one[u][f] + (IF u = su /\ f = e THEN x ELSE 0)
      BY <1>4, <1>18, <3>1, <3>2
    <3>4. w2[u][f] = w[u][f] + (IF u = bu /\ f = d THEN n ELSE 0)
                             + (IF u = su /\ f = e THEN x ELSE 0)
      BY <1>15
    <3> QED BY <1>4, <3>1, <3>2, <3>3, <3>4
  <2> QED BY <1>14, <1>18, <2>1, PursesEqual
<1>20. w2 = Promise!Give(Promise!Give(w, BoxOwner[b], d, n), BoxOwner[a], e, x)
  BY <1>10, <1>19 DEF two, one, Promise!Give, Give, su, bu
<1>21. bank'.collected = bank.collected
  <2>1. /\ bank' = Exchange(bank, orders[Seller].sender, orders[Buyer].sender, mkt,
                            DealAmount, DealMoney)
        /\ orders[Seller].sender \in Users /\ orders[Buyer].sender \in Users
    BY <1>2, <1>16, DealFacts DEF su, bu
  <2> QED BY <1>1, <2>1, ExchangeCollects DEF IInv
<1>22. Promise!Swap(a, b, d, e, n, x)
  BY <1>5, <1>10, <1>11, <1>13, <1>20, <1>21
     DEF Promise!Swap, BoxOwner, Boxes, w, w2, su, bu
<1> QED BY <1>9, <1>22

LEMMA BoxesStay ==
  ASSUME orders' = orders
  PROVE BoxOwner' = BoxOwner /\ Boxes' = Boxes
BY DEF BoxOwner, Boxes, HeldBy, Live

LEMMA CustodyStays ==
  ASSUME orders' = orders, bank' = bank
  PROVE UNCHANGED Promise!vars
BY BoxesStay DEF Promise!vars, BoxOwner, Boxes

LEMMA CreateTradingPairPays ==
  ASSUME IInv, NEW u \in Users, NEW m \in Markets, NEW k \in Precisions, NEW r \in Precisions,
         CreateTradingPair(u, m, k, r)
  PROVE \E n \in 0..bank.coins[u][CET] : Promise!Pay(u, n)
<1>1. bank \in Ledger /\ CET \in Denoms /\ CreateMarketFee \in Nat
  BY BankAssumption, MarketAssumption DEF IInv
<1>2. bank.coins[u][CET] \in Nat /\ bank.coins[u][CET] >= CreateMarketFee
  BY <1>1, LedgerFields DEF CreateTradingPair, HasCoins
<1>3. ~ (bank.coins[u][CET] < CreateMarketFee)
  BY <1>1, <1>2
<1>4. /\ bank' = [bank EXCEPT !.coins = Give(@, u, CET, 0 - CreateMarketFee),
                              !.collected = @ + CreateMarketFee]
      /\ orders' = orders
  BY <1>3 DEF CreateTradingPair, DeductFee
<1>5. /\ bank'.coins = Give(bank.coins, u, CET, 0 - CreateMarketFee)
      /\ bank'.collected = bank.collected + CreateMarketFee
  BY <1>1, <1>4 DEF Ledger
<1>6. Promise!Pay(u, CreateMarketFee)
  BY <1>4, <1>5, BoxesStay DEF Promise!Pay, Promise!Give, Give, BoxOwner, Boxes
<1> QED BY <1>1, <1>2, <1>6

LEMMA TransferTransfers ==
  ASSUME IInv, NEW u \in Users, NEW v \in Users, NEW d \in Denoms, NEW n \in TransferAmounts,
         Transfer(u, v, d, n)
  PROVE n \in 0..bank.coins[u][d] /\ Promise!Transfer(u, v, d, n)
<1>1. bank \in Ledger /\ n \in Nat
  BY MarketAssumption DEF IInv
<1>2. bank.coins[u][d] \in Nat /\ bank.coins[u][d] >= n
  BY <1>1, LedgerFields DEF Transfer, HasCoins
<1>3. ~ (bank.coins[u][d] < n)
  BY <1>1, <1>2
<1>4. /\ bank' = [bank EXCEPT !.coins = Give(Give(@, u, d, 0 - n), v, d, n)]
      /\ orders' = orders
  BY <1>3 DEF Transfer, SendCoins
<1>5. /\ bank'.coins = Give(Give(bank.coins, u, d, 0 - n), v, d, n)
      /\ bank'.collected = bank.collected
  BY <1>1, <1>4 DEF Ledger
<1>6. Promise!Transfer(u, v, d, n)
  BY <1>4, <1>5, BoxesStay DEF Promise!Transfer, Promise!Give, Give, BoxOwner, Boxes
<1> QED BY <1>1, <1>2, <1>6

LEMMA NextKeepsCustody ==
  ASSUME ZeroDealFeeCovered, IInv, IInv', UnheldCovered, ListsAllowed, CommissionsPaid,
         [Next]_vars
  PROVE [Promise!Next]_(Promise!vars)
<1>1. ASSUME NEW s \in Live, RemoveOrder(s) PROVE Promise!Next
  <2>1. s \in Slots
    BY DEF Live
  <2>2. \E v \in Users : \E r \in 0..Boxes[s][CET] : Promise!Close(s, v, r)
    BY <1>1, RemoveOrderCloses
  <2> QED BY <2>1, <2>2 DEF Promise!Next, Boxes
<1>2. CASE Transaction
  <2>1. ASSUME NEW u \in Users, NEW m \in Markets, NEW k \in Precisions, NEW r \in Precisions,
               CreateTradingPair(u, m, k, r)
        PROVE Promise!Next
    <3>1. \E n \in 0..bank.coins[u][CET] : Promise!Pay(u, n)
      BY <2>1, CreateTradingPairPays
    <3> QED BY <3>1 DEF Promise!Next
  <2>2. ASSUME NEW u \in Users, NEW m \in Markets, NEW side \in {"BUY", "SELL"},
               NEW p \in Prices, NEW q \in Quantities, NEW tif \in TimesInForce,
               NEW life \in Lifetimes, NEW s \in Slots,
               CreateOrder(u, m, side, p, q, tif, life, s)
        PROVE Promise!Next
    <3>1. Promise!Open(s, u)
      BY <2>2, CreateOrderOpens
    <3> QED BY <3>1 DEF Promise!Next
  <2>3. ASSUME NEW u \in Users, NEW s \in Slots, CancelOrder(u, s) PROVE Promise!Next
    BY <1>1, <2>3 DEF CancelOrder
  <2>4. ASSUME NEW u \in Users, NEW m \in Markets, NEW t, CancelTradingPair(u, m, t)
        PROVE UNCHANGED Promise!vars
    BY <2>4, CustodyStays DEF CancelTradingPair
  <2>5. ASSUME NEW u \in Users, NEW m \in Markets, NEW k \in Precisions,
               ModifyPricePrecision(u, m, k)
        PROVE UNCHANGED Promise!vars
    BY <2>5, CustodyStays DEF ModifyPricePrecision
  <2> QED BY <1>2, <2>1, <2>2, <2>3, <2>4, <2>5 DEF Transaction
<1>3. CASE OtherModules
  <2>1. ASSUME NEW u \in Users, NEW v \in Users, NEW d \in Denoms, NEW n \in TransferAmounts,
               Transfer(u, v, d, n)
        PROVE Promise!Next
    <3>1. n \in 0..bank.coins[u][d] /\ Promise!Transfer(u, v, d, n)
      BY <2>1, TransferTransfers
    <3> QED BY <3>1 DEF Promise!Next
  <2>2. ASSUME NEW d \in Denoms, ForbidToken(d) PROVE UNCHANGED Promise!vars
    BY <2>2, CustodyStays DEF ForbidToken
  <2>3. ASSUME NEW d \in Denoms, NEW u \in Users, ForbidAddr(d, u) PROVE UNCHANGED Promise!vars
    BY <2>3, CustodyStays DEF ForbidAddr
  <2> QED BY <1>3, <2>1, <2>2, <2>3 DEF OtherModules
<1>4. CASE Deal
  <2>1. \E a, b \in Slots, d, e \in Denoms :
          \E n \in 0..Boxes[a][d], x \in 0..Boxes[b][e] : Promise!Swap(a, b, d, e, n, x)
    BY <1>4, DealSwaps
  <2> QED BY <2>1 DEF Promise!Next, Boxes
<1>5. ASSUME NEW s \in Slots, RemoveTodo(s) \/ Settle(s)
      PROVE Promise!Next \/ UNCHANGED Promise!vars
  <2>1. s \in Live
    BY <1>5 DEF RemoveTodo, Settle, IInv, BlockSound
  <2>2. RemoveOrder(s) \/ (orders' = orders /\ bank' = bank)
    BY <1>5 DEF RemoveTodo, Settle
  <2> QED BY <1>1, <2>1, <2>2, CustodyStays
<1>6. CASE \E m \in pending : \E bids \in SortedLists(BidCandidates(m)),
                                asks \in SortedLists(AskCandidates(m)) : OpenBook(m, bids, asks)
  BY <1>6, CustodyStays DEF OpenBook
<1>7. CASE EndBlockNewDay \/ StartDelist \/ FinishDelist \/ EndBlockIdle \/ EndBlockMatch
           \/ CloseBook \/ StartSettle \/ FinishSettle
  BY <1>7, CustodyStays DEF EndBlockNewDay, StartDelist, FinishDelist, EndBlockIdle,
                            EndBlockMatch, CloseBook, StartSettle, FinishSettle
<1>8. CASE (\E gap \in 0..MaxTimeGap : NewBlock(gap)) \/ Stop \/ UNCHANGED vars
  BY <1>8, CustodyStays DEF NewBlock, Stop, vars
<1> QED BY <1>2, <1>3, <1>4, <1>5, <1>6, <1>7, <1>8 DEF Next, EndBlocker

LEMMA InitCustody == Init => Promise!Init
<1> SUFFICES ASSUME Init PROVE Promise!Init
  OBVIOUS
<1>1. Live = {}
  BY DEF Init, Live
<1>2. BoxOwner = [s \in Slots |-> 0] /\ Boxes = [s \in Slots |-> Promise!Empty]
  BY <1>1 DEF BoxOwner, Boxes, HeldBy, Promise!Empty
<1>3. bank.coins = InitCoins /\ bank.collected = 0
  BY DEF Init
<1> QED BY <1>2, <1>3 DEF Promise!Init, BoxOwner, Boxes

\* The one frozen balance of an account works like a separate box per order, for
\* any users, tokens and orders: the exchange implements the abstract custodian,
\* under the mapping that puts into an order's box what the order holds back.
\* The hypothesis is about two fee parameters only.
THEOREM CustodyAlwaysKept == ZeroDealFeeCovered /\ Spec => KeepsCustody
<1> SUFFICES ASSUME ZeroDealFeeCovered PROVE Spec => KeepsCustody
  OBVIOUS
<1>1. Init => ListsAllowed
  BY DEF Init, ListsAllowed
<1>2. IInv /\ IInv' /\ ListsAllowed /\ [Next]_vars => ListsAllowed'
  BY NextAllowed
<1>3. IInv /\ IInv' /\ EscrowExact /\ ListsAllowed /\ CommissionsPaid /\ [Next]_vars
      => [Promise!Next]_(Promise!vars)
  BY NextKeepsCustody, EscrowsCovered
<1> QED BY InvariantHolds, EscrowAlwaysExact, CommissionsAlwaysPaid, InitCustody, <1>1, <1>2, <1>3,
           PTL DEF Spec, KeepsCustody, Promise!Spec

-----------------------------------------------------------------------------
(* The order of a settlement does not matter *)

\* What removing order o at height h takes of what account w holds in denom e.
Outflow(o, h, w, e) ==
  (IF w = o.sender /\ e = CET THEN Collects(o, h) + Rebates(o, h) ELSE 0)
  - (IF w = RefereeOf[o.sender] /\ e = CET THEN Rebates(o, h) ELSE 0)

LEMMA OutflowInt ==
  ASSUME NEW o \in Order, NEW h \in Nat, NEW w \in Users, NEW e \in Denoms
  PROVE Outflow(o, h, w, e) \in Int
BY DueType DEF Outflow

LEMMA LedgersEqual ==
  ASSUME NEW b \in Ledger, NEW c \in Ledger, b.collected = c.collected,
         \A w \in Users, e \in Denoms : /\ b.frozen[w][e] = c.frozen[w][e]
                                        /\ Holding(b, w, e) = Holding(c, w, e)
  PROVE b = c
<1>1. \A w \in Users, e \in Denoms :
        /\ b.coins[w][e] \in Nat /\ b.frozen[w][e] \in Nat
        /\ c.coins[w][e] \in Nat /\ c.frozen[w][e] \in Nat
  BY LedgerFields
<1>2. \A w \in Users, e \in Denoms : b.coins[w][e] = c.coins[w][e]
  <2> SUFFICES ASSUME NEW w \in Users, NEW e \in Denoms PROVE b.coins[w][e] = c.coins[w][e]
    OBVIOUS
  <2>1. b.coins[w][e] + b.frozen[w][e] = c.coins[w][e] + c.frozen[w][e]
    BY DEF Holding
  <2> QED BY <1>1, <2>1
<1>3. /\ b.coins \in Purses /\ c.coins \in Purses /\ b.frozen \in Purses /\ c.frozen \in Purses
  BY DEF Ledger, Purses
<1>4. b.coins = c.coins
  BY <1>2, <1>3, PursesEqual
<1>5. b.frozen = c.frozen
  BY <1>3, PursesEqual
<1>6. /\ b = [coins |-> b.coins, frozen |-> b.frozen, collected |-> b.collected]
      /\ c = [coins |-> c.coins, frozen |-> c.frozen, collected |-> c.collected]
  BY DEF Ledger
<1> QED BY <1>4, <1>5, <1>6

\* What two refunds in a row come to, when the accounts have both frozen.
LEMMA TwoRefunds ==
  ASSUME NEW b \in Ledger, NEW h \in Nat, NEW o, SoundOrder(o), NEW p, SoundOrder(p),
         CommissionDue(o) <= o.commission, FeatureDue(o, h) <= o.feature,
         CommissionDue(p) <= p.commission, FeatureDue(p, h) <= p.feature,
         \A w \in Users, e \in Denoms : Escrow(o, w, e) + Escrow(p, w, e) <= b.frozen[w][e]
  PROVE LET c == Refund(Refund(b, o, h), p, h)
        IN  /\ c \in Ledger
            /\ c.collected = b.collected + Collects(o, h) + Collects(p, h)
            /\ \A w \in Users, e \in Denoms :
                 /\ c.frozen[w][e] = b.frozen[w][e] - Escrow(o, w, e) - Escrow(p, w, e)
                 /\ Holding(c, w, e)
                    = Holding(b, w, e) - Outflow(o, h, w, e) - Outflow(p, h, w, e)
<1> DEFINE x == Refund(b, o, h)
           c == Refund(x, p, h)
<1>1. /\ o \in Order /\ p \in Order /\ o.sender \in Users /\ p.sender \in Users
  BY OrderFields DEF SoundOrder
<1>2. \A w \in Users, e \in Denoms :
        /\ Escrow(o, w, e) \in Nat /\ Escrow(p, w, e) \in Nat
        /\ b.frozen[w][e] \in Nat /\ Holding(b, w, e) \in Int
        /\ Outflow(o, h, w, e) \in Int /\ Outflow(p, h, w, e) \in Int
  <2>1. \A w \in Users, e \in Denoms : Escrow(o, w, e) \in Nat /\ Escrow(p, w, e) \in Nat
    BY <1>1, EscrowType
  <2>2. \A w \in Users, e \in Denoms : b.frozen[w][e] \in Nat /\ Holding(b, w, e) \in Int
    BY LedgerFields DEF Holding
  <2> QED BY <1>1, <2>1, <2>2, OutflowInt
<1>3. \A e \in Denoms : Escrow(o, o.sender, e) <= b.frozen[o.sender][e]
  BY <1>1, <1>2
<1>4. x \in Ledger
  BY <1>1, RefundLedger
<1>5. \A w \in Users, e \in Denoms : x.frozen[w][e] = b.frozen[w][e] - Escrow(o, w, e)
  BY <1>3, RefundFrozen
<1>6. /\ x.collected = b.collected + Collects(o, h)
      /\ \A w \in Users, e \in Denoms :
           Holding(x, w, e)
           = Holding(b, w, e)
             - (IF w = o.sender /\ e = CET THEN Collects(o, h) + Rebates(o, h) ELSE 0)
             + (IF w = RefereeOf[o.sender] /\ e = CET THEN Rebates(o, h) ELSE 0)
  BY <1>3, RefundHolding
<1>7. /\ Collects(o, h) \in Nat /\ Rebates(o, h) \in Nat
      /\ Collects(p, h) \in Nat /\ Rebates(p, h) \in Nat /\ b.collected \in Nat
  BY <1>1, DueType DEF Ledger
<1>8. \A w \in Users, e \in Denoms : Holding(x, w, e) = Holding(b, w, e) - Outflow(o, h, w, e)
  BY <1>2, <1>6, <1>7 DEF Outflow
<1> HIDE DEF x
<1>9. \A e \in Denoms : Escrow(p, p.sender, e) <= x.frozen[p.sender][e]
  BY <1>1, <1>2, <1>5
<1>10. c \in Ledger
  BY <1>1, <1>4, RefundLedger
<1>11. \A w \in Users, e \in Denoms : c.frozen[w][e] = x.frozen[w][e] - Escrow(p, w, e)
  BY <1>4, <1>9, RefundFrozen
<1>12. /\ c.collected = x.collected + Collects(p, h)
       /\ \A w \in Users, e \in Denoms :
            Holding(c, w, e)
            = Holding(x, w, e)
              - (IF w = p.sender /\ e = CET THEN Collects(p, h) + Rebates(p, h) ELSE 0)
              + (IF w = RefereeOf[p.sender] /\ e = CET THEN Rebates(p, h) ELSE 0)
  BY <1>4, <1>9, RefundHolding
<1>13. \A w \in Users, e \in Denoms :
         /\ Holding(x, w, e) \in Int
         /\ Holding(c, w, e) = Holding(x, w, e) - Outflow(p, h, w, e)
  BY <1>2, <1>7, <1>8, <1>12 DEF Outflow
<1> HIDE DEF c
<1>14. \A w \in Users, e \in Denoms :
         /\ c.frozen[w][e] = b.frozen[w][e] - Escrow(o, w, e) - Escrow(p, w, e)
         /\ Holding(c, w, e) = Holding(b, w, e) - Outflow(o, h, w, e) - Outflow(p, h, w, e)
  BY <1>2, <1>5, <1>8, <1>11, <1>13
<1> QED BY <1>6, <1>10, <1>12, <1>14 DEF c, x

\* Two orders of an account are both covered by what it has frozen.
LEMMA TwoEscrows ==
  ASSUME IInv, UnheldCovered, NEW s \in Slots, NEW t \in Slots, s # t,
         NEW u \in Users, NEW d \in Denoms
  PROVE Escrow(orders[s], u, d) + Escrow(orders[t], u, d) <= bank.frozen[u][d]
<1> DEFINE f == Escrows(orders, u, d)
<1>1. \A k \in 1..MaxOrders : f[k] \in Nat /\ f[k] = Escrow(orders[k], u, d)
  BY EscrowsNat DEF IInv
<1>2. MaxOrders \in Nat /\ s \in 1..MaxOrders /\ t \in 1..MaxOrders
  BY MarketAssumption DEF Slots
<1>3. bank.frozen[u][d] \in Nat /\ bank.frozen[u][d] - SumTo(f, MaxOrders) >= 0
  BY LedgerFields DEF IInv, UnheldCovered, Unheld
<1> HIDE DEF f
<1>4. f[s] + f[t] <= SumTo(f, MaxOrders) /\ SumTo(f, MaxOrders) \in Int
  BY <1>1, <1>2, SumBoundsTwo, SumInt
<1> QED BY <1>1, <1>2, <1>3, <1>4

LEMMA RefundsCommute ==
  ASSUME ZeroDealFeeCovered, IInv, UnheldCovered, CommissionsPaid,
         NEW s \in Live, NEW t \in Live, s # t
  PROVE Refund(Refund(bank, orders[s], height), orders[t], height)
        = Refund(Refund(bank, orders[t], height), orders[s], height)
<1> DEFINE o == orders[s]
           p == orders[t]
           st == Refund(Refund(bank, o, height), p, height)
           ts == Refund(Refund(bank, p, height), o, height)
<1>1. /\ SoundOrder(o) /\ o \in Order /\ s \in Slots /\ height \in Nat
      /\ CommissionDue(o) <= o.commission /\ FeatureDue(o, height) <= o.feature
  BY LiveRefund
<1>2. /\ SoundOrder(p) /\ p \in Order /\ t \in Slots
      /\ CommissionDue(p) <= p.commission /\ FeatureDue(p, height) <= p.feature
  BY LiveRefund
<1>3. bank \in Ledger
  BY DEF IInv
<1>4. \A w \in Users, e \in Denoms :
        /\ Escrow(o, w, e) + Escrow(p, w, e) <= bank.frozen[w][e]
        /\ Escrow(p, w, e) + Escrow(o, w, e) <= bank.frozen[w][e]
  BY <1>1, <1>2, <1>3, TwoEscrows
<1> HIDE DEF o, p
<1>5. /\ st \in Ledger
      /\ st.collected = bank.collected + Collects(o, height) + Collects(p, height)
      /\ \A w \in Users, e \in Denoms :
           /\ st.frozen[w][e] = bank.frozen[w][e] - Escrow(o, w, e) - Escrow(p, w, e)
           /\ Holding(st, w, e)
              = Holding(bank, w, e) - Outflow(o, height, w, e) - Outflow(p, height, w, e)
  BY <1>1, <1>2, <1>3, <1>4, TwoRefunds
<1>6. /\ ts \in Ledger
      /\ ts.collected = bank.collected + Collects(p, height) + Collects(o, height)
      /\ \A w \in Users, e \in Denoms :
           /\ ts.frozen[w][e] = bank.frozen[w][e] - Escrow(p, w, e) - Escrow(o, w, e)
           /\ Holding(ts, w, e)
              = Holding(bank, w, e) - Outflow(p, height, w, e) - Outflow(o, height, w, e)
  BY <1>1, <1>2, <1>3, <1>4, TwoRefunds
<1> HIDE DEF st, ts
<1>7. /\ Collects(o, height) \in Nat /\ Collects(p, height) \in Nat /\ bank.collected \in Nat
  BY <1>1, <1>2, <1>3, DueType DEF Ledger
<1>8. \A w \in Users, e \in Denoms :
        /\ Escrow(o, w, e) \in Nat /\ Escrow(p, w, e) \in Nat
        /\ bank.frozen[w][e] \in Nat /\ Holding(bank, w, e) \in Int
        /\ Outflow(o, height, w, e) \in Int /\ Outflow(p, height, w, e) \in Int
  <2>1. \A w \in Users, e \in Denoms : Escrow(o, w, e) \in Nat /\ Escrow(p, w, e) \in Nat
    BY <1>1, <1>2, EscrowType
  <2>2. \A w \in Users, e \in Denoms : bank.frozen[w][e] \in Nat /\ Holding(bank, w, e) \in Int
    BY <1>3, LedgerFields DEF Holding
  <2>3. \A w \in Users, e \in Denoms :
          Outflow(o, height, w, e) \in Int /\ Outflow(p, height, w, e) \in Int
    BY <1>1, <1>2, OutflowInt
  <2> QED BY <2>1, <2>2, <2>3
<1>9. st.collected = ts.collected
  BY <1>5, <1>6, <1>7
<1>10. \A w \in Users, e \in Denoms : st.frozen[w][e] = ts.frozen[w][e]
  BY <1>5, <1>6, <1>8
<1>11. \A w \in Users, e \in Denoms : Holding(st, w, e) = Holding(ts, w, e)
  BY <1>5, <1>6, <1>8
<1>12. st = ts
  BY <1>5, <1>6, <1>9, <1>10, <1>11, LedgersEqual
<1> QED BY <1>12 DEF st, ts, o, p

\* The accounts end up the same in whatever order a settlement removes its
\* orders: every node may walk the Go map of endblocker.go:400 in its own way.
THEOREM SettlementCommutes == ZeroDealFeeCovered /\ Spec => []SettleCommutes
<1> SUFFICES ASSUME ZeroDealFeeCovered PROVE Spec => []SettleCommutes
  OBVIOUS
<1>1. IInv /\ EscrowExact /\ CommissionsPaid => SettleCommutes
  BY RefundsCommute, EscrowsCovered DEF SettleCommutes, IInv, BlockSound
<1> QED BY InvariantHolds, EscrowAlwaysExact, CommissionsAlwaysPaid, <1>1, PTL

-----------------------------------------------------------------------------
(* No match is missed *)

\* Two orders that could deal now.
Crosses(b, a) ==
  orders[b].left # 0 /\ orders[a].left # 0 /\ orders[a].price <= orders[b].price

\* The markets to be matched have no forbidden token, and no address is forbidden.
NoneForbidden ==
  /\ addrForbidden = {}
  /\ phase = "match" => \A m \in pending : ~TokensForbidden(m)

\* What is used up waits to be removed.
UsedUpWaits == \A s \in Live : orders[s].left = 0 => s \in todo

\* Only a flagged market, or the one being matched, has orders that could deal.
NoneCross ==
  \A m \in Markets \ newly : m # mkt => \A b \in Bids(m), a \in Asks(m) : ~Crosses(b, a)

\* The lists name an order once, and go from the better to the worse price.
ListsSorted ==
  mkt # NoMarket =>
    /\ \A i, j \in DOMAIN bidList :
         i < j => /\ bidList[i] # bidList[j]
                  /\ orders[bidList[i]].price >= orders[bidList[j]].price
    /\ \A i, j \in DOMAIN askList :
         i < j => /\ askList[i] # askList[j]
                  /\ orders[askList[i]].price <= orders[askList[j]].price

\* The lists miss no order that could deal.
ListsComplete ==
  mkt # NoMarket =>
    \A b \in Bids(mkt), a \in Asks(mkt) : orders[a].price <= orders[b].price =>
      /\ orders[b].left # 0 => b \in InList(bidList)
      /\ orders[a].left # 0 => a \in InList(askList)

\* A sorted list of a set has all its members.
LEMMA SortedListComplete ==
  ASSUME NEW S \in SUBSET Slots, NEW q \in SortedLists(S)
  PROVE InList(q) = S
<1> DEFINE n == Cardinality(S)
<1>1. IsFiniteSet(S)
  <2>1. IsFiniteSet(1..MaxOrders)
    BY MarketAssumption, FS_Interval
  <2> QED BY <2>1, FS_Subset DEF Slots
<1>2. n \in Nat
  BY <1>1, FS_CardinalityType
<1>3. q \in [1..n -> S] /\ \A i, j \in 1..n : i < j => q[i] # q[j]
  BY DEF SortedLists
<1> HIDE DEF n
<1>4. \A i, j \in 1..n : q[i] = q[j] => i = j
  <2> SUFFICES ASSUME NEW i \in 1..n, NEW j \in 1..n, q[i] = q[j], i # j PROVE FALSE
    OBVIOUS
  <2>1. i \in Int /\ j \in Int
    BY <1>2
  <2>2. i < j \/ j < i
    BY <2>1
  <2> QED BY <1>3, <2>2
<1>5. q \in Injection(1..n, S)
  BY <1>3, <1>4 DEF Injection, IsInjective
<1>6. Cardinality(1..n) = n
  BY <1>2, FS_Interval
<1>7. q \in Surjection(1..n, S)
  BY <1>1, <1>5, <1>6, FS_Injection DEF n
<1> QED BY <1>3, <1>7 DEF Surjection, InList

\* The flags and the market being matched change together, and without either
\* only a deal sets the price.
LEMMA FlagsAndMarket ==
  ASSUME [Next]_vars
  PROVE \/ newly \subseteq newly' /\ mkt' = mkt /\ (price' = price \/ Deal)
        \/ CloseBook /\ newly' = newly
        \/ \E m \in pending : \E bids \in SortedLists(BidCandidates(m)),
                                 asks \in SortedLists(AskCandidates(m)) : OpenBook(m, bids, asks)
<1>1. CASE Transaction
  BY <1>1 DEF Transaction, CreateTradingPair, CreateOrder, CancelOrder, CancelTradingPair,
              ModifyPricePrecision, blockVars, dealVars
<1>2. CASE OtherModules
  BY <1>2 DEF OtherModules, Transfer, ForbidToken, ForbidAddr, blockVars, dealVars
<1>3. CASE EndBlockNewDay \/ StartDelist \/ FinishDelist \/ EndBlockIdle \/ EndBlockMatch
           \/ StartSettle \/ FinishSettle \/ Deal \/ CloseBook
  BY <1>3 DEF EndBlockNewDay, StartDelist, FinishDelist, EndBlockIdle, EndBlockMatch,
              StartSettle, FinishSettle, Deal, CloseBook, blockVars, dealVars
<1>4. CASE \E s \in Slots : RemoveTodo(s) \/ Settle(s)
  BY <1>4 DEF RemoveTodo, Settle, dealVars
<1>5. CASE (\E gap \in 0..MaxTimeGap : NewBlock(gap)) \/ Stop \/ UNCHANGED vars
  BY <1>5 DEF NewBlock, Stop, vars, blockVars, dealVars
<1> QED BY <1>1, <1>2, <1>3, <1>4, <1>5 DEF Next, EndBlocker

LEMMA NextNoneForbidden ==
  ASSUME AddrForbiddable = {}, NoneForbidden, [Next]_vars
  PROVE NoneForbidden'
<1>1. CASE Transaction
  BY <1>1 DEF Transaction, CreateTradingPair, CreateOrder, CancelOrder, CancelTradingPair,
              ModifyPricePrecision, assetVars, NoneForbidden
<1>2. CASE OtherModules
  BY <1>2 DEF OtherModules, Transfer, ForbidToken, ForbidAddr, assetVars, NoneForbidden
<1>3. CASE EndBlockMatch
  BY <1>3 DEF EndBlockMatch, assetVars, NoneForbidden, TokensForbidden
<1>4. CASE CloseBook
  BY <1>4 DEF CloseBook, assetVars, NoneForbidden, TokensForbidden
<1>5. CASE EndBlockNewDay \/ StartDelist \/ FinishDelist \/ EndBlockIdle
           \/ StartSettle \/ FinishSettle
  BY <1>5 DEF EndBlockNewDay, StartDelist, FinishDelist, EndBlockIdle,
              StartSettle, FinishSettle, assetVars, NoneForbidden
<1>6. CASE Deal
  BY <1>6 DEF Deal, assetVars, NoneForbidden, TokensForbidden
<1>7. CASE \E s \in Slots : RemoveTodo(s) \/ Settle(s)
  BY <1>7 DEF RemoveTodo, Settle, assetVars, NoneForbidden
<1>8. CASE \E m \in pending : \E bids \in SortedLists(BidCandidates(m)),
                                 asks \in SortedLists(AskCandidates(m)) : OpenBook(m, bids, asks)
  BY <1>8 DEF OpenBook, assetVars, NoneForbidden, TokensForbidden
<1>9. CASE \E gap \in 0..MaxTimeGap : NewBlock(gap)
  BY <1>9 DEF NewBlock, assetVars, NoneForbidden
<1>10. CASE Stop \/ UNCHANGED vars
  BY <1>10 DEF Stop, vars, blockVars, assetVars, NoneForbidden, TokensForbidden
<1> QED BY <1>1, <1>2, <1>3, <1>4, <1>5, <1>6, <1>7, <1>8, <1>9, <1>10 DEF Next, EndBlocker

\* An order that can pay for what is left of it deals all of that.
LEMMA SoundAmount ==
  ASSUME NEW o, SoundOrder(o)
  PROVE o.left \in Nat /\ o.price \in Nat /\ Amount(o) = o.left
<1>1. o \in Order /\ o.left \in Nat /\ o.price \in Nat /\ o.freeze \in Nat
  BY OrderFields DEF SoundOrder
<1>2. CASE o.side = "BUY"
  <2> DEFINE x == o.price * o.left
             q == x \div D
             r == x % D
  <2>1. x \in Nat /\ D \in Nat \ {0} /\ D * o.freeze >= x
    BY <1>1, <1>2, ProductNat, MarketAssumption DEF SoundOrder
  <2> HIDE DEF x
  <2>2. q \in Nat /\ r \in 0..(D - 1) /\ x = D * q + r
    BY <2>1
  <2>3. RoundDiv(x, D) = IF 2 * r > D \/ (2 * r = D /\ q % 2 = 1) THEN q + 1 ELSE q
    BY DEF RoundDiv
  <2> HIDE DEF q, r
  <2>4. q <= o.freeze /\ (r # 0 => q + 1 <= o.freeze)
    <3>1. D * q \in Nat /\ D * o.freeze \in Nat
      BY <1>1, <2>1, <2>2, ProductNat
    <3>2. D * q <= D * o.freeze
      BY <2>1, <2>2, <3>1
    <3>3. q <= o.freeze
      BY <1>1, <2>1, <2>2, <3>2, ProductCancel
    <3>4. ASSUME r # 0, ~ (q + 1 <= o.freeze) PROVE FALSE
      <4>1. o.freeze = q
        BY <1>1, <2>2, <3>3, <3>4
      <4>2. D * o.freeze = D * q
        BY <4>1
      <4> QED BY <2>1, <2>2, <3>1, <3>4, <4>2
    <3> QED BY <3>3, <3>4
  <2>5. RoundDiv(x, D) <= o.freeze
    <3>1. r = 0 => ~ (2 * r > D \/ (2 * r = D /\ q % 2 = 1))
      BY <2>1, <2>2
    <3> QED BY <1>1, <2>2, <2>3, <2>4, <3>1
  <2>6. RoundDiv(x, D) \in Nat
    BY <2>2, <2>3
  <2>7. ~NotEnoughMoney(o)
    BY <1>1, <2>5, <2>6 DEF NotEnoughMoney, x
  <2> QED BY <1>1, <2>7 DEF Amount
<1>3. CASE o.side # "BUY"
  BY <1>1, <1>3 DEF Amount, NotEnoughMoney
<1> QED BY <1>1, <1>2, <1>3

LEMMA LiveLeft ==
  ASSUME OrdersSound, NEW s \in Live
  PROVE /\ orders[s].left \in Nat /\ orders[s].price \in Nat
        /\ Amount(orders[s]) = orders[s].left
BY LiveOrder, SoundAmount

LEMMA NextUsedUpWaits ==
  ASSUME IInv, UsedUpWaits, [Next]_vars
  PROVE UsedUpWaits'
<1> SUFFICES ASSUME NEW s \in Live', orders'[s].left = 0
             PROVE s \in todo'
  BY DEF UsedUpWaits
<1>1. CASE s \in Live /\ orders'[s] = orders[s]
  <2>1. s \in todo /\ s \in Slots /\ orders'[s] # NoOrder /\ phase \notin {"deliver", "commit"}
    BY <1>1 DEF UsedUpWaits, IInv, BlockSound, Live
  <2>2. ASSUME RemoveOrder(s) PROVE FALSE
    BY <2>1, <2>2 DEF RemoveOrder, IInv, OrdersSound
  <2>3. ASSUME NEW t \in Slots, RemoveTodo(t) \/ Settle(t) PROVE s \in todo'
    <3>1. t # s
      BY <1>1, <2>1, <2>2, <2>3 DEF RemoveTodo, Settle, Finished
    <3> QED BY <2>1, <2>3, <3>1 DEF RemoveTodo, Settle
  <2>4. ~Transaction /\ ~OtherModules /\ ~EndBlockNewDay /\ ~EndBlockIdle /\ ~EndBlockMatch
        /\ ~Stop /\ ~ \E gap \in 0..MaxTimeGap : NewBlock(gap)
    <3>1. phase # "deliver" /\ phase # "commit"
      BY <2>1
    <3>2. ~Transaction
      BY <3>1 DEF Transaction, CreateTradingPair, CreateOrder, CancelOrder, CancelTradingPair,
                  ModifyPricePrecision
    <3>3. ~OtherModules
      BY <3>1 DEF OtherModules, Transfer, ForbidToken, ForbidAddr
    <3>4. ~EndBlockNewDay /\ ~EndBlockIdle /\ ~EndBlockMatch
      BY <3>1 DEF EndBlockNewDay, EndBlockIdle, EndBlockMatch
    <3>5. ~Stop /\ ~ \E gap \in 0..MaxTimeGap : NewBlock(gap)
      BY <3>1 DEF NewBlock, Stop
    <3> QED BY <3>2, <3>3, <3>4, <3>5
  <2>5. ~StartDelist /\ ~FinishDelist /\ ~FinishSettle
    BY <2>1 DEF StartDelist, FinishDelist, FinishSettle
  <2>6. CASE StartSettle \/ Deal \/ CloseBook \/ UNCHANGED vars
    BY <2>1, <2>6 DEF StartSettle, Deal, CloseBook, vars, blockVars
  <2>7. CASE \E m \in pending : \E bids \in SortedLists(BidCandidates(m)),
                                   asks \in SortedLists(AskCandidates(m)) : OpenBook(m, bids, asks)
    BY <2>1, <2>7 DEF OpenBook
  <2> QED BY <2>3, <2>4, <2>5, <2>6, <2>7 DEF Next, EndBlocker
<1>2. CASE s \in Live /\ Deal /\ orders'[s] # orders[s]
  <2>1. s \in {Buyer, Seller}
    BY <1>2, DealOrders DEF Live
  <2> QED BY <1>2, <2>1 DEF Deal, Buyer, Seller
<1>3. ASSUME NEW u \in Users, NEW m \in Markets, NEW side \in {"BUY", "SELL"}, NEW p \in Prices,
              NEW q \in Quantities, NEW tif \in TimesInForce, NEW life \in Lifetimes,
             orders'[s] = NewOrder(u, m, side, p, q, tif, life)
      PROVE FALSE
  <2>1. orders'[s].left = q
    BY <1>3 DEF NewOrder
  <2> QED BY <2>1, MarketAssumption
<1> QED BY <1>1, <1>2, <1>3, WhereOrdersComeFrom

\* The heads of the lists have the best prices of them.
LEMMA HeadsBest ==
  ASSUME IInv, ListsSorted, mkt # NoMarket
  PROVE /\ \A b \in InList(bidList) :
             /\ bidList # <<>> /\ BidPrice \in Nat
             /\ orders[b].price \in Nat /\ orders[b].price <= BidPrice
        /\ \A a \in InList(askList) :
             /\ askList # <<>> /\ AskPrice \in Nat
             /\ orders[a].price \in Nat /\ AskPrice <= orders[a].price
<1>1. bidList \in Seq(Slots) /\ askList \in Seq(Slots)
  BY DEF IInv, BlockType
<1>2. /\ \A i \in DOMAIN bidList : orders[bidList[i]].price \in Nat
      /\ \A i \in DOMAIN askList : orders[askList[i]].price \in Nat
  BY LiveLeft DEF IInv, BookSound, OrdersOf
<1>3. ASSUME NEW b \in InList(bidList)
      PROVE /\ bidList # <<>> /\ BidPrice \in Nat
            /\ orders[b].price \in Nat /\ orders[b].price <= BidPrice
  <2>1. PICK i \in DOMAIN bidList : b = bidList[i]
    BY DEF InList
  <2>2. bidList # <<>> /\ 1 \in DOMAIN bidList /\ Head(bidList) = bidList[1] /\ (i = 1 \/ 1 < i)
    BY <1>1, <2>1
  <2> QED BY <1>2, <2>1, <2>2 DEF ListsSorted, BidPrice
<1>4. ASSUME NEW a \in InList(askList)
      PROVE /\ askList # <<>> /\ AskPrice \in Nat
            /\ orders[a].price \in Nat /\ AskPrice <= orders[a].price
  <2>1. PICK i \in DOMAIN askList : a = askList[i]
    BY DEF InList
  <2>2. askList # <<>> /\ 1 \in DOMAIN askList /\ Head(askList) = askList[1] /\ (i = 1 \/ 1 < i)
    BY <1>1, <2>1
  <2> QED BY <1>2, <2>1, <2>2 DEF ListsSorted, AskPrice
<1> QED BY <1>3, <1>4

\* When the lists no longer cross, no two orders of their market could deal.
LEMMA ClosedBook ==
  ASSUME IInv, ListsSorted, ListsComplete, mkt # NoMarket, ~Crossing,
         NEW b \in Bids(mkt), NEW a \in Asks(mkt)
  PROVE ~Crosses(b, a)
<1> SUFFICES ASSUME Crosses(b, a) PROVE FALSE
  OBVIOUS
<1>1. b \in InList(bidList) /\ a \in InList(askList)
  BY DEF ListsComplete, Crosses
<1> QED BY <1>1, HeadsBest DEF Crossing, Crosses

LEMMA NextNoneCross ==
  ASSUME IInv, IInv', ListsSorted, ListsComplete, NoneCross, [Next]_vars
  PROVE NoneCross'
<1> SUFFICES ASSUME NEW m \in Markets \ newly', m # mkt', NEW b \in Bids(m)', NEW a \in Asks(m)'
             PROVE ~ (orders'[b].left # 0 /\ orders'[a].left # 0
                      /\ orders'[a].price <= orders'[b].price)
  BY DEF NoneCross, Crosses
<1>1. b \in Live' /\ a \in Live' /\ orders'[b].market = m /\ orders'[a].market = m
      /\ orders'[b].side = "BUY" /\ orders'[a].side = "SELL"
  BY DEF Bids, Asks, OrdersOf
<1>2. ASSUME NEW s \in Live', orders'[s].market = m
      PROVE s \in Live /\ orders'[s] = orders[s]
  <2>1. CASE s \in Live /\ Deal /\ orders'[s] # orders[s]
    <3>1. s \in {Buyer, Seller} /\ orders'[s].market = orders[s].market
      BY <2>1, DealOrders DEF Live
    <3>2. orders[s].market = mkt
      BY <2>1, <3>1, DealFacts DEF OrdersOf
    <3>3. mkt' = mkt
      BY <2>1 DEF Deal
    <3> QED BY <1>2, <3>1, <3>2, <3>3
  <2>2. ASSUME NEW u \in Users, NEW k \in Markets, NEW side \in {"BUY", "SELL"}, NEW p \in Prices,
               NEW q \in Quantities, NEW tif \in TimesInForce, NEW life \in Lifetimes,
               CreateOrder(u, k, side, p, q, tif, life, s),
               orders'[s] = NewOrder(u, k, side, p, q, tif, life)
        PROVE FALSE
    <3>1. k = m
      BY <1>2, <2>2 DEF NewOrder
    <3>2. newly' = newly \cup {k}
      BY <2>2 DEF CreateOrder
    <3> QED BY <3>1, <3>2
  <2> QED BY <2>1, <2>2, WhereOrdersComeFrom
<1>3. /\ b \in Bids(m) /\ a \in Asks(m) /\ orders'[b] = orders[b] /\ orders'[a] = orders[a]
  BY <1>1, <1>2 DEF Bids, Asks, OrdersOf
<1>4. ~Crosses(b, a)
  <2>1. CASE newly \subseteq newly' /\ mkt' = mkt /\ (price' = price \/ Deal)
    BY <1>3, <2>1 DEF NoneCross
  <2>2. CASE CloseBook /\ newly' = newly
    <3>1. ~Crossing /\ mkt # NoMarket
      BY <2>2 DEF CloseBook
    <3>2. CASE m = mkt
      BY <1>3, <3>1, <3>2, ClosedBook
    <3>3. CASE m # mkt
      BY <1>3, <2>2, <3>3 DEF NoneCross
    <3> QED BY <3>2, <3>3
  <2>3. ASSUME NEW k \in pending, NEW bids \in SortedLists(BidCandidates(k)),
               NEW asks \in SortedLists(AskCandidates(k)), OpenBook(k, bids, asks)
        PROVE ~Crosses(b, a)
    <3>1. mkt = NoMarket /\ mkt' = k /\ newly' = newly \ {k}
      BY <2>3 DEF OpenBook
    <3>2. m # mkt /\ m \notin newly
      BY <3>1, AbsentAssumption
    <3> QED BY <1>3, <3>2 DEF NoneCross
  <2> QED BY <2>1, <2>2, <2>3, FlagsAndMarket
<1> QED BY <1>3, <1>4 DEF Crosses

LEMMA OpenBookComplete ==
  ASSUME IInv, NoneForbidden, NEW m \in pending, NEW bids \in SortedLists(BidCandidates(m)),
         NEW asks \in SortedLists(AskCandidates(m)), OpenBook(m, bids, asks)
  PROVE ListsComplete'
<1>1. BidCandidates(m) \in SUBSET Slots /\ AskCandidates(m) \in SUBSET Slots
  BY DEF BidCandidates, AskCandidates, Bids, Asks, OrdersOf, Live
<1>2. InList(bids) = BidCandidates(m) /\ InList(asks) = AskCandidates(m)
  BY <1>1, SortedListComplete
<1>3. phase = "match" /\ mkt' = m /\ bidList' = bids /\ askList' = asks /\ orders' = orders
  BY DEF OpenBook
<1>4. \A u \in Users : ~SenderForbidden(m, u)
  <2>1. addrForbidden = {} /\ StockOf[m] \notin tokenForbidden /\ MoneyOf[m] \notin tokenForbidden
    BY <1>3 DEF NoneForbidden, TokensForbidden
  <2> QED BY <2>1 DEF SenderForbidden, IsForbidden
<1>5. \A s \in Live : orders[s].sender \in Users
  BY LiveOrder, OrderFields DEF IInv
<1>6. ASSUME NEW b \in Bids(m), NEW a \in Asks(m), orders[a].price <= orders[b].price
      PROVE b \in InList(bids) /\ a \in InList(asks)
  <2>1. b \in Live /\ a \in Live
    BY DEF Bids, Asks, OrdersOf
  <2> QED BY <1>2, <1>4, <1>5, <1>6, <2>1 DEF BidCandidates, AskCandidates
<1>7. Bids(m)' = Bids(m) /\ Asks(m)' = Asks(m)
  BY <1>3 DEF Bids, Asks, OrdersOf, Live
<1> QED BY <1>3, <1>6, <1>7 DEF ListsComplete, InList, Bids, Asks

LEMMA OpenBookSorted ==
  ASSUME IInv, NEW m \in pending, NEW bids \in SortedLists(BidCandidates(m)),
         NEW asks \in SortedLists(AskCandidates(m)), OpenBook(m, bids, asks)
  PROVE ListsSorted'
<1>1. BidCandidates(m) \in SUBSET Slots /\ AskCandidates(m) \in SUBSET Slots
  BY DEF BidCandidates, AskCandidates, Bids, Asks, OrdersOf, Live
<1>2. mkt' = m /\ bidList' = bids /\ askList' = asks /\ orders' = orders
  BY DEF OpenBook
<1>3. ASSUME NEW i \in DOMAIN bids, NEW j \in DOMAIN bids, i < j
      PROVE orders[bids[i]].price >= orders[bids[j]].price
  <2>1. MayPrecede(bids[i], bids[j])
    BY <1>3 DEF SortedLists
  <2>2. bids[i] \in BidCandidates(m) /\ bids[j] \in BidCandidates(m)
    BY <1>1, SortedListType
  <2>3. orders[bids[i]].side = "BUY" /\ bids[i] \in Live /\ bids[j] \in Live
    BY <2>2 DEF BidCandidates, Bids, OrdersOf
  <2>4. orders[bids[i]].price \in Nat /\ orders[bids[j]].price \in Nat
    BY <2>3, LiveLeft DEF IInv
  <2> QED BY <2>1, <2>3, <2>4 DEF MayPrecede
<1>4. ASSUME NEW i \in DOMAIN asks, NEW j \in DOMAIN asks, i < j
      PROVE orders[asks[i]].price <= orders[asks[j]].price
  <2>1. MayPrecede(asks[i], asks[j])
    BY <1>4 DEF SortedLists
  <2>2. asks[i] \in AskCandidates(m) /\ asks[j] \in AskCandidates(m)
    BY <1>1, SortedListType
  <2>3. orders[asks[i]].side = "SELL" /\ asks[i] \in Live /\ asks[j] \in Live
    BY <2>2 DEF AskCandidates, Asks, OrdersOf
  <2>4. orders[asks[i]].price \in Nat /\ orders[asks[j]].price \in Nat
    BY <2>3, LiveLeft DEF IInv
  <2> QED BY <2>1, <2>3, <2>4 DEF MayPrecede
<1>5. /\ \A i, j \in DOMAIN bids : i < j => bids[i] # bids[j]
      /\ \A i, j \in DOMAIN asks : i < j => asks[i] # asks[j]
  BY DEF SortedLists
<1> QED BY <1>2, <1>3, <1>4, <1>5 DEF ListsSorted

\* What a list loses is its head, and only when the head is used up.
Pops(list, next, o) ==
  /\ \E k \in {0, 1} : \A j \in DOMAIN next :
       j \in Nat /\ j + k \in DOMAIN list /\ next[j] = list[j + k]
  /\ \A s \in InList(list) : s \in InList(next) \/ (s = Head(list) /\ Amount(o) = 0)

\* A list that stays, or loses its head with nothing left of the head's order.
LEMMA TakenHead ==
  ASSUME NEW list \in Seq(Slots), list # <<>>, NEW o, NEW next,
         next = list \/ (next = Tail(list) /\ Amount(o) = 0)
  PROVE Pops(list, next, o)
<1>1. CASE next = list
  <2>1. DOMAIN list = 1..Len(list) /\ Len(list) \in Nat
    OBVIOUS
  <2>2. \A j \in DOMAIN next : j \in Nat /\ j + 0 \in DOMAIN list /\ next[j] = list[j + 0]
    BY <1>1, <2>1
  <2>3. \A s \in InList(list) : s \in InList(next)
    BY <1>1
  <2> QED BY <2>2, <2>3 DEF Pops
<1>2. CASE next = Tail(list) /\ Amount(o) = 0
  <2>1. /\ Len(list) \in Nat \ {0} /\ DOMAIN list = 1..Len(list)
        /\ DOMAIN next = 1..(Len(list) - 1) /\ Head(list) = list[1]
        /\ \A i \in DOMAIN next : next[i] = list[i + 1] /\ i + 1 \in DOMAIN list
    BY <1>2
  <2>2. \A i \in DOMAIN list : i = 1 \/ (i - 1 \in DOMAIN next /\ next[i - 1] = list[i])
    BY <2>1
  <2>3. \A s \in InList(list) : s \in InList(next) \/ s = Head(list)
    BY <2>1, <2>2 DEF InList
  <2>4. \A j \in DOMAIN next : j \in Nat /\ j + 1 \in DOMAIN list /\ next[j] = list[j + 1]
    BY <2>1
  <2> QED BY <1>2, <2>3, <2>4 DEF Pops
<1> QED BY <1>1, <1>2

\* So it is with the lists of a deal, PopIfDone.
LEMMA PoppedList ==
  ASSUME NEW list \in Seq(Slots), list # <<>>, NEW o
  PROVE Pops(list, PopIfDone(list, Head(list), o), o)
<1>1. \/ PopIfDone(list, Head(list), o) = list
      \/ PopIfDone(list, Head(list), o) = Tail(list) /\ Amount(o) = 0
  BY DEF PopIfDone
<1> QED BY <1>1, TakenHead

\* A deal takes from the lists only heads that are used up, and changes of the
\* orders neither the price nor the side.
LEMMA DealLists ==
  ASSUME IInv, Deal
  PROVE /\ mkt # NoMarket /\ mkt' = mkt /\ orders' \in [Slots -> Order \cup {NoOrder}]
        /\ Live' = Live /\ Bids(mkt)' = Bids(mkt) /\ Asks(mkt)' = Asks(mkt)
        /\ Buyer \in InList(bidList) /\ Seller \in InList(askList)
        /\ Buyer \in Live /\ Seller \in Live
        /\ orders[Buyer].side = "BUY" /\ orders[Seller].side = "SELL"
        /\ Pops(bidList, bidList', orders'[Buyer]) /\ Pops(askList, askList', orders'[Seller])
        /\ \A s \in Slots \ {Buyer, Seller} : orders'[s] = orders[s]
        /\ \A s \in Live : /\ s \in Slots /\ orders'[s].price = orders[s].price
                           /\ orders'[s].side = orders[s].side
                           /\ orders'[s].left \in Nat /\ Amount(orders'[s]) = orders'[s].left
<1>1. /\ mkt # NoMarket /\ mkt' = mkt /\ bidList # <<>> /\ askList # <<>>
      /\ bidList' = PopIfDone(bidList, Head(bidList), orders'[Buyer])
      /\ askList' = PopIfDone(askList, Head(askList), orders'[Seller])
      /\ Buyer = Head(bidList) /\ Seller = Head(askList)
  BY DEF Deal, Crossing, Buyer, Seller
<1>2. /\ bidList \in Seq(Slots) /\ askList \in Seq(Slots)
      /\ 1 \in DOMAIN bidList /\ bidList[1] = Buyer /\ 1 \in DOMAIN askList /\ askList[1] = Seller
  <2>1. bidList \in Seq(Slots) /\ askList \in Seq(Slots)
    BY DEF IInv, BlockType
  <2> QED BY <1>1, <2>1
<1>3. /\ OrdersSound' /\ Live' = Live
      /\ \A s \in Slots \ {Buyer, Seller} : orders'[s] = orders[s]
      /\ \A s \in Live : orders'[s].side = orders[s].side /\ orders'[s].market = orders[s].market
  BY DealOrders
<1>4. \A s \in Live : s \in Slots /\ orders'[s].price = orders[s].price
  <2>1. \A o \in Order : Dealt(o, DealAmount, DealMoney).price = o.price
    BY DEF Dealt, Order
  <2>2. \A s \in Live : s \in Slots /\ orders[s] \in Order
    BY LiveOrder DEF IInv, Live
  <2> QED BY <1>3, <2>1, <2>2, DealOrders
<1>5. Bids(mkt)' = Bids(mkt) /\ Asks(mkt)' = Asks(mkt)
  BY <1>1, <1>3 DEF Bids, Asks, OrdersOf
<1>6. /\ Buyer \in Live /\ Seller \in Live
      /\ orders[Buyer].side = "BUY" /\ orders[Seller].side = "SELL"
      /\ Buyer \in InList(bidList) /\ Seller \in InList(askList)
  BY <1>2, DealFacts DEF OrdersOf, InList
<1>7. Pops(bidList, bidList', orders'[Buyer])
  <2>1. PICK list \in Seq(Slots) : list = bidList
    BY <1>2
  <2>2. Pops(list, PopIfDone(list, Head(list), orders'[Buyer]), orders'[Buyer])
    BY <1>1, <2>1, PoppedList
  <2> QED BY <1>1, <2>1, <2>2
<1>8. Pops(askList, askList', orders'[Seller])
  <2>1. PICK list \in Seq(Slots) : list = askList
    BY <1>2
  <2>2. Pops(list, PopIfDone(list, Head(list), orders'[Seller]), orders'[Seller])
    BY <1>1, <2>1, PoppedList
  <2> QED BY <1>1, <2>1, <2>2
<1>9. \A s \in Live : orders'[s].left \in Nat /\ Amount(orders'[s]) = orders'[s].left
  BY <1>3, SoundAmount DEF OrdersSound
<1>10. orders' \in [Slots -> Order \cup {NoOrder}]
  BY <1>3 DEF OrdersSound
<1> QED BY <1>1, <1>3, <1>4, <1>5, <1>6, <1>7, <1>8, <1>9, <1>10

LEMMA DealSorted ==
  ASSUME IInv, ListsSorted, Deal
  PROVE ListsSorted'
<1>1. /\ \A i \in DOMAIN bidList : bidList[i] \in Live
      /\ \A i \in DOMAIN askList : askList[i] \in Live
      /\ \A s \in Live : orders'[s].price = orders[s].price
      /\ mkt # NoMarket
  BY DealLists DEF IInv, BookSound, OrdersOf
<1>2. ASSUME NEW i \in DOMAIN bidList', NEW j \in DOMAIN bidList', i < j
      PROVE /\ bidList'[i] # bidList'[j]
            /\ orders'[bidList'[i]].price >= orders'[bidList'[j]].price
  <2>1. PICK k \in {0, 1} : \A n \in DOMAIN bidList' :
          n \in Nat /\ n + k \in DOMAIN bidList /\ bidList'[n] = bidList[n + k]
    BY DealLists DEF Pops
  <2>2. i + k \in DOMAIN bidList /\ j + k \in DOMAIN bidList /\ i + k < j + k
    BY <1>2, <2>1
  <2>3. /\ bidList[i + k] # bidList[j + k]
        /\ orders[bidList[i + k]].price >= orders[bidList[j + k]].price
    BY <1>1, <2>2 DEF ListsSorted
  <2> QED BY <1>1, <2>1, <2>2, <2>3
<1>3. ASSUME NEW i \in DOMAIN askList', NEW j \in DOMAIN askList', i < j
      PROVE /\ askList'[i] # askList'[j]
            /\ orders'[askList'[i]].price <= orders'[askList'[j]].price
  <2>1. PICK k \in {0, 1} : \A n \in DOMAIN askList' :
          n \in Nat /\ n + k \in DOMAIN askList /\ askList'[n] = askList[n + k]
    BY DealLists DEF Pops
  <2>2. i + k \in DOMAIN askList /\ j + k \in DOMAIN askList /\ i + k < j + k
    BY <1>3, <2>1
  <2>3. /\ askList[i + k] # askList[j + k]
        /\ orders[askList[i + k]].price <= orders[askList[j + k]].price
    BY <1>1, <2>2 DEF ListsSorted
  <2> QED BY <1>1, <2>1, <2>2, <2>3
<1> QED BY <1>2, <1>3 DEF ListsSorted

\* So the lists stay complete.
LEMMA DealComplete ==
  ASSUME IInv, ListsComplete, Deal
  PROVE ListsComplete'
<1> SUFFICES ASSUME NEW b \in Bids(mkt), NEW a \in Asks(mkt), orders'[a].price <= orders'[b].price
             PROVE /\ orders'[b].left # 0 => b \in InList(bidList')
                   /\ orders'[a].left # 0 => a \in InList(askList')
  BY DealLists DEF ListsComplete, InList
<1>1. /\ b \in Live /\ a \in Live /\ orders[b].side = "BUY" /\ orders[a].side = "SELL"
      /\ b # Seller /\ a # Buyer
  BY DealLists DEF Bids, Asks, OrdersOf
<1>2. orders[a].price <= orders[b].price
  BY <1>1, DealLists
<1>3. /\ orders[b].left # 0 => b \in InList(bidList)
      /\ orders[a].left # 0 => a \in InList(askList)
  BY <1>2, DealLists DEF ListsComplete
<1>4. /\ \A s \in InList(bidList) :
           s \in InList(bidList') \/ (s = Buyer /\ orders'[Buyer].left = 0)
      /\ \A s \in InList(askList) :
           s \in InList(askList') \/ (s = Seller /\ orders'[Seller].left = 0)
  BY DealLists DEF Pops, Buyer, Seller
<1>5. /\ b # Buyer => orders'[b] = orders[b]
      /\ a # Seller => orders'[a] = orders[a]
  BY <1>1, DealLists
<1> QED BY <1>3, <1>4, <1>5, DealLists

LEMMA NextListsSorted ==
  ASSUME IInv, IInv', ListsSorted, [Next]_vars
  PROVE ListsSorted'
<1>1. CASE mkt' = NoMarket
  BY <1>1 DEF ListsSorted
<1>2. CASE UNCHANGED vars
  BY <1>2 DEF vars, blockVars, dealVars, ListsSorted
<1>3. CASE mkt' # NoMarket /\ ~UNCHANGED vars
  BY <1>3, MatchSteps, DealSorted, OpenBookSorted
<1> QED BY <1>1, <1>2, <1>3

LEMMA NextListsComplete ==
  ASSUME IInv, IInv', NoneForbidden, ListsComplete, [Next]_vars
  PROVE ListsComplete'
<1>1. CASE mkt' = NoMarket
  BY <1>1 DEF ListsComplete
<1>2. CASE UNCHANGED vars
  BY <1>2 DEF vars, blockVars, dealVars, ListsComplete, Bids, Asks, OrdersOf, Live
<1>3. CASE mkt' # NoMarket /\ ~UNCHANGED vars
  BY <1>3, MatchSteps, DealComplete, OpenBookComplete
<1> QED BY <1>1, <1>2, <1>3

\* Between blocks nothing is used up and no market is being matched.
LEMMA UnflaggedApart ==
  ASSUME IInv, UsedUpWaits, NoneCross
  PROVE NoMissedMatch
<1> SUFFICES ASSUME phase \in {"deliver", "commit"},
                    NEW m \in Markets \ newly, NEW b \in Bids(m), NEW a \in Asks(m)
             PROVE orders[b].price < orders[a].price
  BY DEF NoMissedMatch
<1>1. mkt = NoMarket /\ todo = {} /\ m # mkt
  BY AbsentAssumption DEF IInv, BlockSound
<1>2. b \in Live /\ a \in Live
  BY DEF Bids, Asks, OrdersOf
<1>3. orders[b].left # 0 /\ orders[a].left # 0
  BY <1>1, <1>2 DEF UsedUpWaits
<1>4. orders[b].price \in Nat /\ orders[a].price \in Nat
  BY <1>2, LiveLeft DEF IInv
<1> QED BY <1>1, <1>3, <1>4 DEF NoneCross, Crosses

\* Between blocks no two orders of a market that is not flagged could deal: the
\* matching of flagged markets only (endblocker.go:259) misses nothing, as long
\* as the issuers of tokens cannot forbid single addresses.  Where they can, an
\* order skipped for its sender may be left behind: its market's flag is gone.
THEOREM NoMatchMissed == AddrForbiddable = {} /\ Spec => []NoMissedMatch
<1> SUFFICES ASSUME AddrForbiddable = {} PROVE Spec => []NoMissedMatch
  OBVIOUS
<1>1. Init => NoneForbidden /\ UsedUpWaits /\ NoneCross /\ ListsSorted /\ ListsComplete
  BY DEF Init, NoneForbidden, UsedUpWaits, NoneCross, ListsSorted, ListsComplete, Bids, Asks,
         OrdersOf, Live
<1>2. IInv /\ IInv' /\ NoneForbidden /\ UsedUpWaits /\ NoneCross /\ ListsSorted /\ ListsComplete
      /\ [Next]_vars
      => (NoneForbidden /\ UsedUpWaits /\ NoneCross /\ ListsSorted /\ ListsComplete)'
  BY NextNoneForbidden, NextUsedUpWaits, NextNoneCross, NextListsSorted, NextListsComplete
<1>3. IInv /\ UsedUpWaits /\ NoneCross => NoMissedMatch
  BY UnflaggedApart
<1> QED BY InvariantHolds, <1>1, <1>2, <1>3, PTL DEF Spec

-----------------------------------------------------------------------------
(* The price of a deal *)

\* The book the price is looked for in.
ListPrices  == [s \in InList(bidList \o askList) |-> orders[s].price]
ListAmounts == [s \in InList(bidList \o askList) |-> Amount(orders[s])]
BookVolume(p) ==
  ExecutionAmount(InList(bidList), InList(askList), ListPrices, ListAmounts, p)

\* What is in the lists can still be dealt.
ListsAlive ==
  mkt # NoMarket => \A s \in InList(bidList) \cup InList(askList) : orders[s].left > 0

\* While markets are matched, the orders dealt are of markets matched before, or
\* of the one being matched.
DealtMarkets ==
  phase = "match" => \A s \in todo : orders[s].market \in pending => orders[s].market = mkt

\* At no price could more stock change hands than at the one of the deals.
PriceIsBest ==
  price # 0 => mkt # NoMarket /\ \A p \in Nat : BookVolume(p) <= BookVolume(price)

\* Two lists of orders make a book.
LEMMA ListsMakeBook ==
  ASSUME NEW os, NEW bids \in Seq(Slots), NEW asks \in Seq(Slots),
         \A s \in InList(bids) \cup InList(asks) : os[s].price \in Nat /\ Amount(os[s]) \in Nat
  PROVE /\ IsBook(InList(bids), InList(asks), [s \in InList(bids \o asks) |-> os[s].price],
                  [s \in InList(bids \o asks) |-> Amount(os[s])])
        /\ \A s \in InList(bids) \cup InList(asks) : s \in InList(bids \o asks)
<1> DEFINE limit == [s \in InList(bids \o asks) |-> os[s].price]
           amount == [s \in InList(bids \o asks) |-> Amount(os[s])]
<1>1. /\ DOMAIN (bids \o asks) = 1..(Len(bids) + Len(asks))
      /\ Len(bids) \in Nat /\ Len(asks) \in Nat
      /\ DOMAIN bids = 1..Len(bids) /\ DOMAIN asks = 1..Len(asks)
      /\ \A i \in 1..Len(bids) : (bids \o asks)[i] = bids[i]
      /\ \A i \in 1..Len(asks) : (bids \o asks)[Len(bids) + i] = asks[i]
  OBVIOUS
<1>2. InList(bids) \subseteq InList(bids \o asks)
  BY <1>1 DEF InList
<1>3. InList(asks) \subseteq InList(bids \o asks)
  <2>1. \A i \in 1..Len(asks) : Len(bids) + i \in 1..(Len(bids) + Len(asks))
    BY <1>1
  <2> QED BY <1>1, <2>1 DEF InList
<1>4. InList(bids) \subseteq 1..MaxOrders /\ InList(asks) \subseteq 1..MaxOrders
  <2>1. \A list \in Seq(Slots) : \A i \in DOMAIN list : list[i] \in Slots
    OBVIOUS
  <2> QED BY <2>1 DEF InList, Slots
<1>5. \A s \in InList(bids) \cup InList(asks) :
        limit[s] = os[s].price /\ amount[s] = Amount(os[s])
  BY <1>2, <1>3
<1> HIDE DEF limit, amount
<1>6. IsBook(InList(bids), InList(asks), limit, amount)
  BY <1>4, <1>5 DEF IsBook
<1> QED BY <1>2, <1>3, <1>6 DEF limit, amount

LEMMA OpenListsBook ==
  ASSUME IInv, mkt # NoMarket
  PROVE /\ IsBook(InList(bidList), InList(askList), ListPrices, ListAmounts)
        /\ \A s \in InList(bidList) \cup InList(askList) :
             /\ ListPrices[s] = orders[s].price /\ ListAmounts[s] = orders[s].left
             /\ s \in Live /\ orders[s].left \in Nat /\ orders[s].price \in Nat
        /\ \A s \in InList(bidList) : orders[s].side = "BUY"
        /\ \A s \in InList(askList) : orders[s].side = "SELL"
<1>1. bidList \in Seq(Slots) /\ askList \in Seq(Slots)
  BY DEF IInv, BlockType
<1>2. /\ \A s \in InList(bidList) : s \in Live /\ orders[s].side = "BUY"
      /\ \A s \in InList(askList) : s \in Live /\ orders[s].side = "SELL"
  BY DEF IInv, BookSound, InList, OrdersOf
<1>3. \A s \in InList(bidList) \cup InList(askList) :
        /\ orders[s].left \in Nat /\ orders[s].price \in Nat
        /\ Amount(orders[s]) = orders[s].left
  BY <1>2, LiveLeft DEF IInv
<1>4. /\ IsBook(InList(bidList), InList(askList), ListPrices, ListAmounts)
      /\ \A s \in InList(bidList) \cup InList(askList) :
           ListPrices[s] = orders[s].price /\ ListAmounts[s] = Amount(orders[s])
  <2>1. /\ IsBook(InList(bidList), InList(askList), ListPrices, ListAmounts)
        /\ \A s \in InList(bidList) \cup InList(askList) : s \in InList(bidList \o askList)
    BY <1>1, <1>3, ListsMakeBook DEF ListPrices, ListAmounts
  <2> QED BY <2>1 DEF ListPrices, ListAmounts
<1> QED BY <1>2, <1>3, <1>4

\* The price asked for is one at which no less stock changes hands than at any.
LEMMA MatchPriceBest ==
  ASSUME IInv, mkt # NoMarket, InList(bidList) \cup InList(askList) # {}
  PROVE MatchPrice \in Nat /\ \A p \in Nat : BookVolume(p) <= BookVolume(MatchPrice)
<1>1. markets[mkt].last \in Nat
  <2>1. mkt \in Markets /\ markets[mkt] # NoMarket
    BY DEF IInv, BlockType, BlockSound, Listed
  <2> QED BY <2>1 DEF IInv, MarketsType, MarketInfo
<1>2. \A x \in Int : RoundDiv(x, 100) \in Int
  BY DEF RoundDiv
<1> DEFINE mid == markets[mkt].last
           low == RoundDiv(mid * (100 - MaxExecutedPriceChangeRatio), 100)
           high == RoundDiv(mid * (100 + MaxExecutedPriceChangeRatio), 100)
<1>3. low \in Int /\ high \in Int /\ mid \in Int
  <2>1. /\ 100 - MaxExecutedPriceChangeRatio \in Int
        /\ 100 + MaxExecutedPriceChangeRatio \in Int
    BY MarketAssumption
  <2>2. /\ mid * (100 - MaxExecutedPriceChangeRatio) \in Int
        /\ mid * (100 + MaxExecutedPriceChangeRatio) \in Int
    BY <1>1, <2>1
  <2> QED BY <1>1, <1>2, <2>2
<1>4. MatchPrice = GetExecutionPrice(InList(bidList), InList(askList), ListPrices, ListAmounts,
                                     high, mid, low)
  BY DEF MatchPrice, ListPrices, ListAmounts
<1>5. IsBook(InList(bidList), InList(askList), ListPrices, ListAmounts)
  BY OpenListsBook
<1> HIDE DEF low, high, mid
<1>6. ASSUME NEW p \in Nat
      PROVE MatchPrice \in Nat /\ BookVolume(p) <= BookVolume(MatchPrice)
  <2>1. p \in Int
    OBVIOUS
  <2> QED BY <1>3, <1>4, <1>5, <2>1, VolumeMaximal DEF BookVolume
<1> QED BY <1>6

\* The heads accept a price that is best, as something can be dealt between them.
LEMMA BestAccepted ==
  ASSUME IInv, ListsSorted, ListsAlive, mkt # NoMarket, Crossing, NEW best \in Nat,
         \A p \in Nat : BookVolume(p) <= BookVolume(best)
  PROVE HeadsAccept(best)
<1>1. /\ Head(bidList) \in InList(bidList) /\ Head(askList) \in InList(askList)
  <2>1. bidList \in Seq(Slots) /\ askList \in Seq(Slots)
    BY DEF IInv, BlockType
  <2>2. /\ 1 \in DOMAIN bidList /\ Head(bidList) = bidList[1]
        /\ 1 \in DOMAIN askList /\ Head(askList) = askList[1]
    BY <2>1 DEF Crossing
  <2> QED BY <2>2 DEF InList
<1>2. /\ ListPrices[Head(bidList)] = BidPrice /\ ListAmounts[Head(bidList)] > 0
      /\ ListPrices[Head(askList)] = AskPrice /\ ListAmounts[Head(askList)] > 0
      /\ BidPrice \in Nat /\ AskPrice \in Nat
  BY <1>1, OpenListsBook DEF BidPrice, AskPrice, ListsAlive
<1>3. IsBook(InList(bidList), InList(askList), ListPrices, ListAmounts)
  BY OpenListsBook
<1>4. BookVolume(AskPrice) > 0
  BY <1>1, <1>2, <1>3, VolumeAccepted DEF BookVolume, Crossing
<1>5. BookVolume(AskPrice) \in Nat /\ BookVolume(best) \in Nat
  BY <1>2, <1>3, AccumulatedType DEF BookVolume
<1>6. BookVolume(best) > 0
  BY <1>2, <1>4, <1>5
<1>7. /\ \E b \in InList(bidList) : best <= ListPrices[b]
      /\ \E a \in InList(askList) : ListPrices[a] <= best
  BY <1>3, <1>6, VolumeAccepted DEF BookVolume
<1>8. /\ \E b \in InList(bidList) : best <= orders[b].price
      /\ \E a \in InList(askList) : orders[a].price <= best
  BY <1>7, OpenListsBook
<1>9. best <= BidPrice /\ AskPrice <= best
  BY <1>2, <1>8, HeadsBest
<1> QED BY <1>2, <1>9 DEF HeadsAccept

\* So is the price of a deal, kept or new.
LEMMA DealPriceBest ==
  ASSUME IInv, PriceIsBest, mkt # NoMarket, bidList # <<>>
  PROVE DealPrice \in Nat /\ \A p \in Nat : BookVolume(p) <= BookVolume(DealPrice)
<1>1. CASE price # 0 /\ HeadsAccept(price)
  <2>1. DealPrice = price
    BY <1>1 DEF DealPrice
  <2> QED BY <1>1, <2>1 DEF PriceIsBest, IInv, BlockType
<1>2. CASE ~ (price # 0 /\ HeadsAccept(price))
  <2>1. DealPrice = MatchPrice
    BY <1>2 DEF DealPrice
  <2>2. InList(bidList) # {}
    <3>1. bidList \in Seq(Slots)
      BY DEF IInv, BlockType
    <3>2. 1 \in DOMAIN bidList
      BY <3>1
    <3> QED BY <3>2 DEF InList
  <2> QED BY <2>1, <2>2, MatchPriceBest
<1> QED BY <1>1, <1>2

LEMMA NextListsAlive ==
  ASSUME IInv, IInv', UsedUpWaits, DealtMarkets, ListsSorted, ListsAlive, [Next]_vars
  PROVE ListsAlive'
<1>1. CASE mkt' = NoMarket
  BY <1>1 DEF ListsAlive
<1>2. CASE UNCHANGED vars
  BY <1>2 DEF vars, blockVars, dealVars, ListsAlive, InList
<1>3. CASE mkt' # NoMarket /\ Deal
  <2>1. ASSUME NEW s \in InList(bidList) \cup InList(askList), s # Buyer, s # Seller
        PROVE orders'[s].left > 0
    BY <1>3, <2>1, DealLists, OpenListsBook DEF ListsAlive
  <2>2. /\ \A s \in InList(bidList') : s \in InList(bidList)
        /\ \A s \in InList(askList') : s \in InList(askList)
    BY <1>3, DealLists DEF Pops, InList
  <2>3. /\ \A s \in InList(bidList) : s \in Live /\ s # Seller
        /\ \A s \in InList(askList) : s \in Live /\ s # Buyer
    BY <1>3, DealLists, OpenListsBook
  <2>4. Buyer \in InList(bidList') => orders'[Buyer].left # 0
    <3> SUFFICES ASSUME orders'[Buyer].left = 0 PROVE Buyer \notin InList(bidList')
      OBVIOUS
    <3>1. bidList' = Tail(bidList) /\ bidList \in Seq(Slots) /\ bidList # <<>>
      BY <1>3, DealLists DEF Deal, PopIfDone, Buyer, Crossing, IInv, BlockType
    <3>2. /\ Buyer = bidList[1] /\ 1 \in DOMAIN bidList
          /\ \A i \in DOMAIN bidList' : bidList'[i] = bidList[i + 1] /\ i + 1 \in DOMAIN bidList
                                        /\ 1 < i + 1
      BY <3>1 DEF Buyer
    <3> QED BY <1>3, <3>2, DealLists DEF ListsSorted, InList
  <2>5. Seller \in InList(askList') => orders'[Seller].left # 0
    <3> SUFFICES ASSUME orders'[Seller].left = 0 PROVE Seller \notin InList(askList')
      OBVIOUS
    <3>1. askList' = Tail(askList) /\ askList \in Seq(Slots) /\ askList # <<>>
      BY <1>3, DealLists DEF Deal, PopIfDone, Seller, Crossing, IInv, BlockType
    <3>2. /\ Seller = askList[1] /\ 1 \in DOMAIN askList
          /\ \A i \in DOMAIN askList' : askList'[i] = askList[i + 1] /\ i + 1 \in DOMAIN askList
                                        /\ 1 < i + 1
      BY <3>1 DEF Seller
    <3> QED BY <1>3, <3>2, DealLists DEF ListsSorted, InList
  <2>6. orders'[Buyer].left \in Nat /\ orders'[Seller].left \in Nat
    BY <1>3, DealLists
  <2>7. ASSUME NEW s \in InList(bidList') \cup InList(askList') PROVE orders'[s].left > 0
    <3>1. CASE s # Buyer /\ s # Seller
      BY <2>1, <2>2, <3>1
    <3>2. CASE s = Buyer
      BY <2>2, <2>3, <2>4, <2>6, <3>2
    <3>3. CASE s = Seller
      BY <2>2, <2>3, <2>5, <2>6, <3>3
    <3> QED BY <3>1, <3>2, <3>3
  <2> QED BY <2>7 DEF ListsAlive, InList
<1>4. ASSUME NEW m \in pending, NEW bids \in SortedLists(BidCandidates(m)),
             NEW asks \in SortedLists(AskCandidates(m)), OpenBook(m, bids, asks)
      PROVE ListsAlive'
  <2>1. phase = "match" /\ mkt = NoMarket /\ mkt' = m /\ bidList' = bids /\ askList' = asks
        /\ orders' = orders
    BY <1>4 DEF OpenBook
  <2>2. m \in Markets /\ m # NoMarket
    BY AbsentAssumption DEF IInv, BlockType
  <2>3. BidCandidates(m) \in SUBSET OrdersOf(m) /\ AskCandidates(m) \in SUBSET OrdersOf(m)
        /\ OrdersOf(m) \subseteq Slots
    BY DEF BidCandidates, AskCandidates, Bids, Asks, OrdersOf, Live
  <2>4. InList(bids) \subseteq OrdersOf(m) /\ InList(asks) \subseteq OrdersOf(m)
    BY <2>3, SortedListComplete
  <2>5. ASSUME NEW s \in OrdersOf(m) PROVE orders[s].left > 0
    <3>1. s \in Live /\ orders[s].market = m
      BY DEF OrdersOf
    <3>2. s \notin todo
      BY <2>1, <2>2, <3>1 DEF DealtMarkets
    <3> QED BY <3>1, <3>2, LiveLeft DEF UsedUpWaits, IInv
  <2> QED BY <2>1, <2>4, <2>5 DEF ListsAlive, InList
<1>5. CASE mkt' # NoMarket /\ ~UNCHANGED vars
  BY <1>3, <1>4, <1>5, MatchSteps
<1> QED BY <1>1, <1>2, <1>5

LEMMA NextDealtMarkets ==
  ASSUME IInv, IInv', DealtMarkets, [Next]_vars
  PROVE DealtMarkets'
<1> SUFFICES ASSUME phase' = "match", NEW s \in todo', orders'[s].market \in pending'
             PROVE orders'[s].market = mkt'
  BY DEF DealtMarkets
<1>1. s \in Live'
  BY DEF IInv, BlockSound
<1>2. ~Transaction /\ ~OtherModules
  <2>1. ~Transaction
    BY DEF Transaction, CreateTradingPair, CreateOrder, CancelOrder, CancelTradingPair,
           ModifyPricePrecision
  <2>2. ~OtherModules
    BY DEF OtherModules, Transfer, ForbidToken, ForbidAddr
  <2> QED BY <2>1, <2>2
<1>3. ~EndBlockNewDay /\ ~StartDelist /\ ~FinishDelist /\ ~EndBlockIdle /\ ~FinishSettle
      /\ ~StartSettle
  BY DEF EndBlockNewDay, StartDelist, FinishDelist, EndBlockIdle, FinishSettle, StartSettle
<1>4. ~ (\E gap \in 0..MaxTimeGap : NewBlock(gap)) /\ ~ \E t \in Slots : RemoveTodo(t) \/ Settle(t)
  BY DEF NewBlock, RemoveTodo, Settle
<1>5. CASE EndBlockMatch
  BY <1>5 DEF EndBlockMatch, IInv, BlockSound
<1>6. CASE Deal
  <2>1. /\ mkt' = mkt /\ pending' = pending /\ todo' = todo \cup {Seller, Buyer}
        /\ phase = "match"
    BY <1>6 DEF Deal, Buyer, Seller
  <2>2. s \in Live /\ orders'[s].market = orders[s].market
    BY <1>1, <1>6, DealOrders
  <2>3. CASE s \in todo
    BY <2>1, <2>2, <2>3 DEF DealtMarkets
  <2>4. CASE s \in {Seller, Buyer}
    BY <1>6, <2>1, <2>2, <2>4, DealFacts DEF OrdersOf
  <2> QED BY <2>1, <2>3, <2>4
<1>7. CASE CloseBook
  <2>1. /\ phase = "match" /\ orders' = orders /\ pending' = pending \ {mkt}
        /\ \A r \in todo' : r \in todo \/ r \in OrdersOf(mkt)
    BY <1>7 DEF CloseBook
  <2> QED BY <2>1 DEF DealtMarkets, OrdersOf
<1>8. ASSUME NEW m \in pending, NEW bids \in SortedLists(BidCandidates(m)),
             NEW asks \in SortedLists(AskCandidates(m)), OpenBook(m, bids, asks)
      PROVE orders'[s].market = mkt'
  <2>1. /\ phase = "match" /\ orders' = orders /\ pending' = pending /\ todo' = todo
        /\ mkt = NoMarket
    BY <1>8 DEF OpenBook
  <2>2. NoMarket \notin pending
    BY AbsentAssumption DEF IInv, BlockType
  <2> QED BY <2>1, <2>2 DEF DealtMarkets
<1>9. CASE Stop \/ UNCHANGED vars
  BY <1>9 DEF Stop, vars, blockVars, dealVars, DealtMarkets
<1> QED BY <1>2, <1>3, <1>4, <1>5, <1>6, <1>7, <1>8, <1>9 DEF Next, EndBlocker

\* A deal changes the book as BestAfterDeal has it: the price of the deal stays best.
LEMMA DealKeepsBest ==
  ASSUME IInv, IInv', ListsSorted, PriceIsBest, Deal
  PROVE PriceIsBest'
<1> DEFINE B == InList(bidList)
           A == InList(askList)
           C == InList(bidList')
           E == InList(askList')
           limit == ListPrices'
           next == ListAmounts'
           best == DealPrice
           n == DealAmount
<1>1. /\ mkt # NoMarket /\ mkt' # NoMarket /\ price' = best /\ HeadsAccept(best)
      /\ bidList # <<>> /\ askList # <<>>
  BY DealLists DEF Deal, Crossing
<1>2. best \in Nat /\ \A p \in Nat : BookVolume(p) <= BookVolume(best)
  BY <1>1, DealPriceBest
<1>3. /\ IsBook(B, A, ListPrices, ListAmounts)
      /\ \A s \in B \cup A : /\ ListPrices[s] = orders[s].price /\ ListAmounts[s] = orders[s].left
                             /\ s \in Live /\ orders[s].left \in Nat /\ orders[s].price \in Nat
      /\ \A s \in B : orders[s].side = "BUY"
      /\ \A s \in A : orders[s].side = "SELL"
  BY <1>1, OpenListsBook
<1>4. /\ IsBook(C, E, limit, next)
      /\ \A s \in C \cup E : limit[s] = orders'[s].price /\ next[s] = orders'[s].left
  <2>1. bidList' \in Seq(Slots) /\ askList' \in Seq(Slots)
    BY DEF IInv, BlockType
  <2>2. \A s \in C \cup E : s \in Live'
    BY <1>1 DEF IInv, BookSound, InList, OrdersOf
  <2>3. \A s \in C \cup E : /\ orders'[s].left \in Nat /\ orders'[s].price \in Nat
                            /\ Amount(orders'[s]) = orders'[s].left
    BY <2>2, SoundAmount DEF IInv, OrdersSound
  <2>4. /\ IsBook(C, E, [s \in InList(bidList' \o askList') |-> orders'[s].price],
                  [s \in InList(bidList' \o askList') |-> Amount(orders'[s])])
        /\ \A s \in C \cup E : s \in InList(bidList' \o askList')
    BY <2>1, <2>3, ListsMakeBook
  <2>5. /\ limit = [s \in InList(bidList' \o askList') |-> orders'[s].price]
        /\ next = [s \in InList(bidList' \o askList') |-> Amount(orders'[s])]
    BY DEF ListPrices, ListAmounts, InList
  <2> QED BY <2>3, <2>4, <2>5
<1>5. /\ Buyer \in B /\ Seller \in A /\ Buyer \in Live /\ Seller \in Live
      /\ \A s \in Slots \ {Buyer, Seller} : orders'[s] = orders[s]
      /\ \A s \in Live : s \in Slots /\ orders'[s].price = orders[s].price
  BY DealLists
<1>6. /\ C \subseteq B /\ E \subseteq A
      /\ \A s \in B : s \in C \/ (s = Buyer /\ orders'[Buyer].left = 0)
      /\ \A s \in A : s \in E \/ (s = Seller /\ orders'[Seller].left = 0)
  BY DealLists DEF Pops, InList, Buyer, Seller
<1>7. /\ orders'[Buyer].left + n = orders[Buyer].left
      /\ orders'[Seller].left + n = orders[Seller].left
      /\ n \in Nat
  <2>1. n \in Nat
    BY DealFacts
  <2>2. orders[Buyer] \in Order /\ orders[Seller] \in Order
    BY <1>5, LiveOrder DEF IInv
  <2>3. \A o \in Order : Dealt(o, DealAmount, DealMoney).left = o.left - n /\ o.left \in Nat
    BY DEF Dealt, Order
  <2> HIDE DEF n
  <2> QED BY <2>1, <2>2, <2>3, DealOrders
<1>8. B \cap A = {}
  BY <1>3
<1>9. /\ \A s \in B : ListPrices[s] <= ListPrices[Buyer]
      /\ \A s \in A : ListPrices[Seller] <= ListPrices[s]
      /\ best <= ListPrices[Buyer] /\ ListPrices[Seller] <= best
  <2>1. best <= BidPrice /\ AskPrice <= best
    <3>1. BidPrice \in Nat /\ AskPrice \in Nat
      BY <1>1, <1>5, HeadsBest
    <3> HIDE DEF best
    <3> QED BY <1>1, <1>2, <3>1 DEF HeadsAccept
  <2>2. ListPrices[Buyer] = BidPrice /\ ListPrices[Seller] = AskPrice
    BY <1>3, <1>5 DEF BidPrice, AskPrice, Buyer, Seller
  <2> QED BY <1>1, <1>3, <2>1, <2>2, HeadsBest
<1>10. \A s \in C \cup E : limit[s] = ListPrices[s]
  BY <1>3, <1>4, <1>5, <1>6
<1>11. /\ \A s \in C : s # Buyer => next[s] = ListAmounts[s]
       /\ \A s \in E : s # Seller => next[s] = ListAmounts[s]
  BY <1>3, <1>4, <1>5, <1>6, <1>8
<1>12. /\ IF Buyer \in C THEN next[Buyer] + n = ListAmounts[Buyer] ELSE n = ListAmounts[Buyer]
       /\ IF Seller \in E THEN next[Seller] + n = ListAmounts[Seller] ELSE n = ListAmounts[Seller]
  BY <1>3, <1>4, <1>5, <1>6, <1>7
<1>13. B \ C \subseteq {Buyer} /\ A \ E \subseteq {Seller}
  BY <1>6
<1>14. \A p \in Nat : ExecutionAmount(B, A, ListPrices, ListAmounts, p)
                        <= ExecutionAmount(B, A, ListPrices, ListAmounts, best)
  BY <1>2 DEF BookVolume
<1>15. ASSUME NEW p \in Nat
       PROVE ExecutionAmount(C, E, limit, next, p) <= ExecutionAmount(C, E, limit, next, best)
  <2> HIDE DEF B, A, C, E, limit, next, best, n
  <2> QED BY <1>2, <1>3, <1>4, <1>5, <1>6, <1>7, <1>8, <1>9, <1>10, <1>11, <1>12, <1>13, <1>14,
             BestAfterDeal
<1>16. \A p \in Nat : BookVolume(p)' = ExecutionAmount(C, E, limit, next, p)
  BY DEF BookVolume, InList
<1>17. BookVolume(price)' = ExecutionAmount(C, E, limit, next, best)
  BY <1>1 DEF BookVolume, InList
<1> QED BY <1>1, <1>15, <1>16, <1>17 DEF PriceIsBest

LEMMA NextPriceIsBest ==
  ASSUME IInv, IInv', ListsSorted, PriceIsBest, [Next]_vars
  PROVE PriceIsBest'
<1>1. CASE mkt' = NoMarket
  <2>1. CASE price' = price /\ mkt' = mkt
    BY <1>1, <2>1 DEF PriceIsBest
  <2>2. CASE CloseBook
    BY <2>2 DEF CloseBook, PriceIsBest
  <2>3. ASSUME NEW m \in pending, NEW bids \in SortedLists(BidCandidates(m)),
               NEW asks \in SortedLists(AskCandidates(m)), OpenBook(m, bids, asks)
        PROVE FALSE
    BY <1>1, <2>3, AbsentAssumption DEF OpenBook, IInv, BlockType
  <2>4. ~Deal
    BY <1>1 DEF Deal
  <2> QED BY <2>1, <2>2, <2>3, <2>4, FlagsAndMarket
<1>2. CASE UNCHANGED vars
  BY <1>2 DEF vars, blockVars, dealVars, PriceIsBest, BookVolume, ListPrices, ListAmounts, InList
<1>3. CASE mkt' # NoMarket /\ Deal
  BY <1>3, DealKeepsBest
<1>4. ASSUME NEW m \in pending, NEW bids \in SortedLists(BidCandidates(m)),
             NEW asks \in SortedLists(AskCandidates(m)), OpenBook(m, bids, asks)
      PROVE PriceIsBest'
  BY <1>4 DEF OpenBook, PriceIsBest
<1>5. CASE mkt' # NoMarket /\ ~UNCHANGED vars
  BY <1>3, <1>4, <1>5, MatchSteps
<1> QED BY <1>1, <1>2, <1>5

\* All that the lists of the market being matched keep, at every step.
MatchInv == UsedUpWaits /\ DealtMarkets /\ ListsSorted /\ ListsAlive /\ PriceIsBest

LEMMA MatchInvHolds == Spec => []MatchInv
<1>1. Init => MatchInv
  BY DEF Init, MatchInv, UsedUpWaits, DealtMarkets, ListsSorted, ListsAlive, PriceIsBest, Live
<1>2. IInv /\ IInv' /\ MatchInv /\ [Next]_vars => MatchInv'
  BY NextUsedUpWaits, NextDealtMarkets, NextListsSorted, NextListsAlive, NextPriceIsBest
     DEF MatchInv
<1> QED BY InvariantHolds, <1>1, <1>2, PTL DEF Spec

LEMMA BestPriceFound ==
  ASSUME IInv, MatchInv
  PROVE PriceFound
<1> SUFFICES ASSUME mkt # NoMarket, Crossing PROVE HeadsAccept(DealPrice)
  BY DEF PriceFound
<1>1. DealPrice \in Nat /\ \A p \in Nat : BookVolume(p) <= BookVolume(DealPrice)
  BY DealPriceBest DEF MatchInv, Crossing
<1> HIDE DEF DealPrice
<1> QED BY <1>1, BestAccepted DEF MatchInv

LEMMA BestPriceUniform ==
  ASSUME IInv, MatchInv
  PROVE UniformPrice
<1> SUFFICES ASSUME price # 0, Crossing PROVE HeadsAccept(price)
  BY DEF UniformPrice
<1>1. price \in Nat /\ mkt # NoMarket /\ \A p \in Nat : BookVolume(p) <= BookVolume(price)
  BY DEF MatchInv, PriceIsBest, IInv, BlockType
<1> QED BY <1>1, BestAccepted DEF MatchInv

\* As long as the lists cross, the price the engine finds is one that the best
\* bid and the best ask accept: matching never halts before its end (match.go:43).
THEOREM PriceAlwaysFound == Spec => []PriceFound
<1>1. IInv /\ MatchInv => PriceFound
  BY BestPriceFound
<1> QED BY InvariantHolds, MatchInvHolds, <1>1, PTL

\* While the lists of a market still cross after a deal, its price holds for the
\* next deal too: every deal of a market in one block has the same price.
THEOREM PriceAlwaysUniform == Spec => []UniformPrice
<1>1. IInv /\ MatchInv => UniformPrice
  BY BestPriceUniform
<1> QED BY InvariantHolds, MatchInvHolds, <1>1, PTL
=============================================================================
