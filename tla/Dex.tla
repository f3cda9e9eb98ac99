-------------------------------- MODULE Dex --------------------------------
(***************************************************************************)
(* The pools of bancorlite beside the orders of market, on one ledger.     *)
(* What a pool holds are frozen coins of its owner, added to the same      *)
(* number as what his orders hold back; nothing in either module keeps a   *)
(* pool and a market of one pair apart.  A pool trades in transactions     *)
(* only; EndBlocker does not know it.                                      *)
(*                                                                         *)
(* The composition also has the restart of the chain from an exported      *)
(* state: market/genesis.go writes orders, markets and the clean time,     *)
(* bancorlite/genesis.go the pools.                                        *)
(***************************************************************************)
EXTENDS MarketProperties, Bancor

CONSTANTS
  NumPairs, PairAt,       \* the pairs are numbered, so that pools can be summed up
  Designs, CancelTimes,   \* inputs: what pools are asked for
  Amounts, MoneyLimits,   \* inputs: what a trade asks for; limit 0 is none
  CreateBancorFee, CancelBancorFee, TradeFeeNum, TradeFeeDen,
  NoPool,                 \* absent from the store
  MaxImports              \* bound: restarts from an exported state

Pairs == 1..NumPairs

Pool == [owner: Users, design: Design, ar: Nat, price: Nat, stock: Nat, money: Nat,
         cancelTime: Nat]

ASSUME DexAssumption ==
  /\ NumPairs \in Nat
  /\ PairAt \in [Pairs -> Markets]
  /\ \A i, j \in Pairs : PairAt[i] = PairAt[j] => i = j
  /\ Designs \subseteq Design /\ CancelTimes \subseteq Nat
  /\ Amounts \subseteq Nat \ {0} /\ MoneyLimits \subseteq Nat
  /\ CreateBancorFee \in Nat /\ CancelBancorFee \in Nat
  /\ TradeFeeNum \in Nat /\ TradeFeeDen \in Nat \ {0}
  /\ NoPool \notin Pool /\ MaxImports \in Nat

VARIABLES pools,   \* [Pairs -> Pool \cup {NoPool}]
          imports  \* restarts so far

bookVars == <<orders, markets, newly, delist, assetVars, timeVars, phase, blockVars>>
dexVars == <<vars, pools, imports>>

Stock(i) == StockOf[PairAt[i]]
Money(i) == MoneyOf[PairAt[i]]
-----------------------------------------------------------------------------
(* Transactions *)

BancorInit(u, i, x, t) ==
  LET supplied == FreezeCoins(bank, u, Stock(i), x.supply)
  IN  /\ phase = "deliver"
      /\ ValidDesign(x)
      /\ pools[i] = NoPool
      /\ u = OwnerOf[Stock(i)]
      /\ ~IsForbidden(Stock(i), u) /\ HasCoins(bank, u, Stock(i), x.supply)
      /\ HasCoins(supplied, u, CET, CreateBancorFee)
      /\ bank' = DeductFee(supplied, u, CreateBancorFee)
      /\ pools' = [pools EXCEPT ![i] = NewPool(u, x, t)]
      /\ UNCHANGED <<bookVars, imports>>

BancorCancel_MoneyKept(u, i) ==
  /\ phase = "deliver"
  /\ pools[i] # NoPool
  /\ pools[i].owner = u /\ now >= pools[i].cancelTime
  /\ HasCoins(bank, u, CET, CancelBancorFee)
  /\ bank' = UnFreezeCoins(DeductFee(bank, u, CancelBancorFee), u, Stock(i), pools[i].stock)
  /\ pools' = [pools EXCEPT ![i] = NoPool]
  /\ UNCHANGED <<bookVars, imports>>

BancorCancel(u, i) ==
  /\ phase = "deliver"
  /\ pools[i] # NoPool
  /\ pools[i].owner = u /\ now >= pools[i].cancelTime
  /\ HasCoins(bank, u, CET, CancelBancorFee)
  /\ bank.frozen[u][Stock(i)] >= pools[i].stock
  /\ bank.frozen[u][Money(i)] >= pools[i].money
  /\ bank' = UnFreezeCoins(UnFreezeCoins(DeductFee(bank, u, CancelBancorFee),
                                         u, Stock(i), pools[i].stock),
                           u, Money(i), pools[i].money)
  /\ pools' = [pools EXCEPT ![i] = NoPool]
  /\ UNCHANGED <<bookVars, imports>>

\* getTradeFee; GetMarketVolume is the market's, and so is the minimum
TradeFee(i, n, diff) ==
  LET volume == GetMarketVolume(PairAt[i], n, diff)
  IN  Greater((volume.num * TradeFeeNum) \div (volume.den * TradeFeeDen), MarketFeeMin)

\* the collector's part first, then the referee's
PayTradeFee(b, u, fee) ==
  LET rebate == RebateAmount(u, fee)
      paid   == DeductFee(b, u, fee - rebate)
  IN  IF rebate > 0 THEN SendCoins(paid, u, RefereeOf[u], CET, rebate) ELSE paid

Swap_KeepsPayment(b, trader, owner, inDenom, inAmount, outDenom, outAmount) ==
  LET sent  == SendCoins(b, trader, owner, inDenom, inAmount)
      freed == UnFreezeCoins(sent, owner, outDenom, outAmount)
  IN  SendCoins(freed, owner, trader, outDenom, outAmount)

\* swapStockAndMoney
Swap(b, trader, owner, inDenom, inAmount, outDenom, outAmount) ==
  LET sent   == SendCoins(b, trader, owner, inDenom, inAmount)
      frozen == FreezeCoins(sent, owner, inDenom, inAmount)
      freed  == UnFreezeCoins(frozen, owner, outDenom, outAmount)
  IN  SendCoins(freed, owner, trader, outDenom, outAmount)

\* the difference is what the trader pays for n of stock, or receives for it
BancorTrade(u, i, isBuy, n, limit) ==
  /\ phase = "deliver"
  /\ pools[i] # NoPool /\ Stock(i) # CET
  /\ LET p == pools[i]
         stock == IF isBuy THEN p.stock - n ELSE p.stock + n
         moved == UpdateStockInPool(p, stock)
         diff == IF isBuy THEN moved.money - p.money ELSE p.money - moved.money
         fee == TradeFee(i, n, diff)
         paid == PayTradeFee(bank, u, fee)
         inDenom == IF isBuy THEN Money(i) ELSE Stock(i)
         outDenom == IF isBuy THEN Stock(i) ELSE Money(i)
         inAmount == IF isBuy THEN diff ELSE n
         outAmount == IF isBuy THEN n ELSE diff
     IN  /\ u # p.owner
         /\ ~SenderForbidden(PairAt[i], u) /\ ~SenderForbidden(PairAt[i], p.owner)
         /\ n % p.design.step = 0
         /\ stock \in 0..p.design.supply
         /\ diff > 0
         /\ limit > 0 => IF isBuy THEN diff <= limit ELSE diff >= limit
         /\ HasCoins(bank, u, CET, fee)
         /\ RebateAmount(u, fee) > 0 => ~IsForbidden(CET, u)
         /\ HasCoins(paid, u, inDenom, inAmount)
         /\ bank.frozen[p.owner][outDenom] >= outAmount
         /\ bank' = Swap(paid, u, p.owner, inDenom, inAmount, outDenom, outAmount)
         /\ pools' = [pools EXCEPT ![i] = moved]
  /\ UNCHANGED <<bookVars, imports>>

PoolTransaction ==
  \/ \E u \in Users, i \in Pairs, x \in Designs, t \in CancelTimes : BancorInit(u, i, x, t)
  \/ \E u \in Users, i \in Pairs : BancorCancel(u, i)
  \/ \E u \in Users, i \in Pairs, isBuy \in BOOLEAN, n \in Amounts, l \in MoneyLimits :
       BancorTrade(u, i, isBuy, n, l)
-----------------------------------------------------------------------------
(* Restart from an exported state *)

FlaggedAtImport_None == {}

\* InitGenesis stores an order with Add, which flags its market
FlaggedAtImport == {m \in Markets : OrdersOf(m) # {}}

\* ExportGenesis after a commit, InitGenesis of a new chain, which counts its
\* blocks from 1.  The delist requests are not exported, the flags are made anew.
Restart ==
  /\ phase = "commit" /\ imports < MaxImports
  /\ imports' = imports + 1
  /\ newly' = FlaggedAtImport
  /\ delist' = [m \in Markets |-> NoRequest]
  /\ height' = 1
  /\ newPrices' = [m \in Markets |-> 0]
  /\ phase' = "deliver"
  /\ UNCHANGED <<bank, orders, markets, assetVars, now, cleanTime, pending, todo,
                 dealVars, pools>>
-----------------------------------------------------------------------------
DexInit == Init /\ pools = [i \in Pairs |-> NoPool] /\ imports = 0

DexNext ==
  \/ Next /\ UNCHANGED <<pools, imports>>
  \/ PoolTransaction
  \/ Restart

DexSpec == DexInit /\ [][DexNext]_dexVars
-----------------------------------------------------------------------------
(* Properties *)

\* what pool i holds of user u's coins in denom d
Reserve(i, p, u, d) ==
  IF p = NoPool \/ p.owner # u THEN 0
  ELSE (IF d = Stock(i) THEN p.stock ELSE 0) + (IF d = Money(i) THEN p.money ELSE 0)

Reserves(u, d) == SumTo([i \in Pairs |-> Reserve(i, pools[i], u, d)], NumPairs)

InOrders(u, d) == SumTo([s \in Slots |-> Escrow(orders[s], u, d)], MaxOrders)

\* The frozen coins of an account are what its orders hold back and what its
\* pools hold, between any two steps: a deal or a refund of market never takes a
\* pool's reserve (endblocker.go:101, 173), a pool's trade never an order's coins
\* (bancorlite/handler.go:299), and a pool can always be closed (handler.go:119).
FrozenExact ==
  \A u \in Users, d \in Denoms : bank.frozen[u][d] = InOrders(u, d) + Reserves(u, d)

PoolsType == pools \in [Pairs -> Pool \cup {NoPool}] /\ imports \in Nat

\* The pool's money and price are the curve's for the stock it has sold, after any
\* trades in any order: what one trade rounds off, no other trade can collect, and
\* buying in parts and selling at once comes out even (bancor_info.go:33).
PoolOnCurve ==
  \A i \in Pairs : pools[i] # NoPool =>
    LET p == pools[i]
        sold == p.design.supply - p.stock
    IN  /\ p.stock \in 0..p.design.supply
        /\ p.money = MoneyAt(p.design, p.ar, sold)
        /\ p.price = PriceAt(p.design, p.ar, sold)

\* More stock sold is never less money in the pool nor a lower price, between the
\* samples of the table too, and the full sale brings the money and the price that
\* the owner asked for (bancor_info.go:39-71).
CurveMonotone ==
  \A i \in Pairs : pools[i] # NoPool =>
    LET x == pools[i].design
        m(n) == MoneyAt(x, pools[i].ar, n)
        pr(n) == PriceAt(x, pools[i].ar, n)
    IN  /\ \A n \in 1..x.supply : m(n - 1) <= m(n) /\ pr(n - 1) <= pr(n)
        /\ m(0) = 0 /\ pr(0) = x.init /\ pr(x.supply) = x.max
        /\ x.maxMoney # 0 => m(x.supply) = x.maxMoney

\* one other account gets what pair i's pool gives
Delivers(i) ==
  LET p == pools[i]
      sold == p.stock - pools'[i].stock
      paid == pools'[i].money - p.money
      gain(u, d) == bank'.coins[u][d] - bank.coins[u][d]
  IN  /\ gain(p.owner, Stock(i)) = 0
      /\ gain(p.owner, Money(i)) >= 0
      /\ Money(i) # CET => gain(p.owner, Money(i)) = 0
      /\ \E u \in Users \ {p.owner} :
           /\ gain(u, Stock(i)) = sold
           /\ IF Money(i) = CET THEN gain(u, CET) <= 0 - paid
              ELSE gain(u, Money(i)) = 0 - paid
           /\ \A d \in {Stock(i), Money(i)} :
                Holding(bank', u, d) - Holding(bank, u, d) = gain(u, d)

\* A trade pays the pool and not its owner: his spendable coins of the pair are
\* what they were, but for a referee's part of the fee, and one other account has
\* exactly the stock and the money that the pool has lost or got, less the fee
\* (bancorlite/handler.go:291-306).
TradeDelivers ==
  [][\A i \in Pairs :
       pools[i] # NoPool /\ pools'[i] # NoPool /\ pools'[i] # pools[i] => Delivers(i)]_dexVars

\* The two copies of the straight line's formula agree: a pool on it that is
\* exported passes the check of the file it is imported from, whenever the export
\* is made (genesis.go:94).
LinePoolsExportable ==
  \A i \in Pairs : pools[i] # NoPool =>
    LET x == pools[i].design
    IN  x.maxMoney = 0 /\ x.init # x.max => IsConsistent(pools[i])
=============================================================================
