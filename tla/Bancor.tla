------------------------------- MODULE Bancor -------------------------------
(***************************************************************************)
(* The price curve of bancorlite: how much money a pool holds and what it  *)
(* asks for its stock, as functions of the stock it has sold.  A pool's    *)
(* owner sets the price of the first and of the last unit; the price goes  *)
(* up on a straight line, or, if he also sets the money of the full sale,  *)
(* as a power of the share sold, read from a table.                        *)
(*                                                                         *)
(* An sdk.Dec is an integer number of 1/Unit: multiplying by an integer is *)
(* exact, dividing truncates or rounds as the called method does.          *)
(***************************************************************************)
EXTENDS Integers

CONSTANTS Unit,                \* the smallest Dec is 1/Unit
          BancorTable,         \* [x][k] is TableMax * (k/SupplyRatioSamples)^(x/ARSamples)
          MaxAR, ARSamples,    \* its rows are 0..MaxAR+ARSamples
          SupplyRatioSamples, TableMax,
          MaxTradeAmount

ASSUME BancorAssumption ==
  /\ Unit \in Nat \ {0} /\ MaxAR \in Nat /\ ARSamples \in Nat \ {0}
  /\ SupplyRatioSamples \in Nat \ {0} /\ TableMax \in Nat \ {0}
  /\ MaxTradeAmount \in Nat
  /\ BancorTable \in [0..(MaxAR + ARSamples) -> [0..SupplyRatioSamples -> 0..TableMax]]
  /\ \A x \in 1..(MaxAR + ARSamples) :
       /\ BancorTable[x][0] = 0 /\ BancorTable[x][SupplyRatioSamples] = TableMax
       /\ \A j, k \in 0..SupplyRatioSamples : j <= k => BancorTable[x][j] <= BancorTable[x][k]

\* Dec.Quo rounds half to even
QuoRound(a, b) ==
  LET q == a \div b
      r == a % b
  IN  IF 2 * r > b \/ (2 * r = b /\ q % 2 = 1) THEN q + 1 ELSE q

\* and so does RoundInt
RoundInt(dec) == QuoRound(dec, Unit)

TableLookup(x, k) == QuoRound(BancorTable[x][k] * Unit, TableMax)
-----------------------------------------------------------------------------
(* A design is what MsgBancorInit asks for: [init, max, supply, maxMoney,   *)
(* step], where step is 10^StockPrecision.                                  *)

Design == [init: Nat, max: Nat, supply: Nat, maxMoney: Nat, step: Nat \ {0}]

\* maxPrice.Sub(initPrice) is exact; of two powers the exponent that makes the
\* full sale cost maxMoney, or 0 for the straight line
CalculateAR(x) ==
  LET above == x.max * x.supply - x.maxMoney * Unit
      below == x.maxMoney * Unit - x.init * x.supply
  IN  IF x.max = x.init \/ below <= 0 \/ above <= 0 THEN 0
      ELSE (((above * Unit) \div below) * ARSamples) \div Unit

\* MsgBancorInit.ValidateBasic
ValidDesign(x) ==
  /\ x.supply \in 1..MaxTradeAmount /\ x.maxMoney \in 0..MaxTradeAmount
  /\ x.init >= 0 /\ x.max > 0
  /\ x.supply % x.step = 0
  /\ IF x.maxMoney = 0
     THEN x.init <= x.max /\ ((x.init + x.max) \div 2) * x.supply <= MaxTradeAmount * Unit
     ELSE CalculateAR(x) \in 1..MaxAR

\* the straight line, after the sale of n units
LinePrice(x, n) == ((x.max - x.init) * n) \div x.supply + x.init
LineMoney(x, n) == RoundInt(((LinePrice(x, n) + x.init) * n) \div 2)

Between_FromNear(x, row, n) ==
  LET k == (n * SupplyRatioSamples) \div x.supply
      over == n * SupplyRatioSamples - k * x.supply
  IN  IF over = 0 THEN TableLookup(row, k)
      ELSE QuoRound((TableLookup(row, k + 1) - TableLookup(row, k)) * over, x.supply)
           + TableLookup(row, k + 1)

\* a row of the table at n/supply, interpolated between its two neighbours
Between(x, row, n) ==
  LET k == (n * SupplyRatioSamples) \div x.supply
      over == n * SupplyRatioSamples - k * x.supply
  IN  IF over = 0 THEN TableLookup(row, k)
      ELSE QuoRound((TableLookup(row, k + 1) - TableLookup(row, k)) * over, x.supply)
           + TableLookup(row, k)

PowerPrice(x, ar, n) == (Between(x, ar, n) * (x.max - x.init)) \div Unit + x.init
PowerMoney(x, ar, n) ==
  (Between(x, ar + ARSamples, n) * (x.maxMoney - (x.init * x.supply) \div Unit)
     + x.init * n) \div Unit

PriceAt(x, ar, n) == IF x.maxMoney = 0 THEN LinePrice(x, n) ELSE PowerPrice(x, ar, n)
MoneyAt(x, ar, n) == IF x.maxMoney = 0 THEN LineMoney(x, n) ELSE PowerMoney(x, ar, n)
-----------------------------------------------------------------------------
(* A pool: [owner, design, ar, price, stock, money, cancelTime].            *)

\* handleMsgBancorInit: nothing is sold
NewPool(u, x, t) ==
  [owner |-> u, design |-> x, ar |-> CalculateAR(x), price |-> x.init,
   stock |-> x.supply, money |-> 0, cancelTime |-> t]

\* the pool moves along the curve from where it is
UpdateStockInPool_Stepwise(p, stock) ==
  LET price == PriceAt(p.design, p.ar, p.design.supply - stock)
  IN  [p EXCEPT !.stock = stock, !.price = price,
                !.money = @ + RoundInt(((p.price + price) * (p.stock - stock)) \div 2)]

\* BancorInfo.UpdateStockInPool, for stock within 0..supply
UpdateStockInPool(p, stock) ==
  LET sold == p.design.supply - stock
  IN  [p EXCEPT !.stock = stock, !.price = PriceAt(p.design, p.ar, sold),
                !.money = MoneyAt(p.design, p.ar, sold)]

IsConsistent_Truncates(p) ==
  LET x == p.design
      sold == x.supply - p.stock
  IN  IF x.init = x.max
      THEN x.maxMoney = (x.init * x.supply) \div Unit /\ p.ar = 0
           /\ x.init * sold = p.money * Unit
      ELSE /\ x.maxMoney = 0
           /\ p.price = LinePrice(x, sold)
           /\ p.money = (((p.price + x.init) * sold) \div 2) \div Unit

\* BancorInfo.IsConsistent, which a genesis file's pools must satisfy.  With a
\* maxMoney other than 0 it returns false: for the valid AR of such a pool
\* CheckAR returns ok, and ok is tested the wrong way round.
IsConsistent(p) ==
  LET x == p.design
      sold == x.supply - p.stock
  IN  IF x.init = x.max
      THEN x.maxMoney = (x.init * x.supply) \div Unit /\ p.ar = 0
           /\ x.init * sold = p.money * Unit
      ELSE /\ x.maxMoney = 0
           /\ p.price = LinePrice(x, sold) /\ p.money = LineMoney(x, sold) /\ p.ar = 0
=============================================================================
