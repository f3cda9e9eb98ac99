------------------------------ MODULE DexProofs ------------------------------
(***************************************************************************)
(* Theorems about the pools of bancorlite beside the orders of market, for *)
(* any designs, table, users and pairs.  A step of the market keeps the    *)
(* frozen coins that no order holds back (NextUnheld); a pool's            *)
(* transaction moves them by what it moves the pool's reserve.  First come *)
(* lemmas about the curve of a valid design, for every design and every    *)
(* table: it stays in the naturals, begins and ends where it should, and   *)
(* never falls.                                                            *)
(***************************************************************************)
EXTENDS Dex, MarketProofs

LEMMA DivMonotone ==
  ASSUME NEW a \in Nat, NEW c \in Nat, NEW b \in Nat \ {0}, a <= c
  PROVE a \div b <= c \div b
<1> DEFINE p == a \div b
           q == c \div b
<1>1. p \in Nat /\ q \in Nat /\ b * p <= a /\ c < b * q + b
  BY DivBounds
<1> HIDE DEF p, q
<1>2. b * p < b * (q + 1)
  BY <1>1
<1>3. p < q + 1
  BY <1>1, <1>2
<1> QED BY <1>1, <1>3 DEF p, q

LEMMA DivExact ==
  ASSUME NEW a \in Nat, NEW b \in Nat \ {0}
  PROVE (a * b) \div b = a
<1> DEFINE q == (a * b) \div b
<1>0. a * b \in Nat
  OBVIOUS
<1>1. q \in Nat /\ b * q <= a * b /\ a * b < b * q + b
  BY <1>0, DivBounds
<1> HIDE DEF q
<1>2. b * q <= b * a /\ b * a < b * (q + 1)
  BY <1>1
<1>3. q <= a
  BY <1>1, <1>2, ProductCancel
<1>4. a < q + 1
  BY <1>1, <1>2
<1> QED BY <1>1, <1>3, <1>4 DEF q

LEMMA Remainder ==
  ASSUME NEW a \in Nat, NEW b \in Nat \ {0}
  PROVE a % b \in 0..(b - 1) /\ a = b * (a \div b) + (a % b)
OBVIOUS

LEMMA QuoRoundNat ==
  ASSUME NEW a \in Nat, NEW b \in Nat \ {0}
  PROVE QuoRound(a, b) \in Nat
BY DivBounds, Remainder DEF QuoRound

\* rounding keeps the order
LEMMA QuoRoundMonotone ==
  ASSUME NEW a \in Nat, NEW c \in Nat, NEW b \in Nat \ {0}, a <= c
  PROVE QuoRound(a, b) <= QuoRound(c, b)
<1> DEFINE p == a \div b
           q == c \div b
           r == a % b
           s == c % b
<1>1. p \in Nat /\ q \in Nat /\ p <= q
  BY DivBounds, DivMonotone
<1>2. r \in Nat /\ s \in Nat /\ a = b * p + r /\ c = b * q + s
  BY Remainder
<1>3. /\ QuoRound(a, b) = IF 2 * r > b \/ (2 * r = b /\ p % 2 = 1) THEN p + 1 ELSE p
      /\ QuoRound(c, b) = IF 2 * s > b \/ (2 * s = b /\ q % 2 = 1) THEN q + 1 ELSE q
  BY DEF QuoRound
<1> HIDE DEF p, q, r, s
<1>4. CASE p < q
  BY <1>1, <1>3, <1>4
<1>5. CASE p = q
  <2>1. r <= s
    BY <1>1, <1>2, <1>5
  <2> QED BY <1>1, <1>2, <1>3, <1>5, <2>1
<1> QED BY <1>1, <1>4, <1>5

\* an exact quotient is not rounded
LEMMA QuoRoundExact ==
  ASSUME NEW a \in Nat, NEW b \in Nat \ {0}
  PROVE QuoRound(a * b, b) = a
<1> DEFINE m == a * b
           q == m \div b
           r == m % b
<1>1. m \in Nat /\ q = a
  BY DivExact
<1>2. r \in 0..(b - 1) /\ m = b * q + r
  BY <1>1, Remainder
<1>3. QuoRound(a * b, b) = IF 2 * r > b \/ (2 * r = b /\ q % 2 = 1) THEN q + 1 ELSE q
  BY DEF QuoRound
<1>4. m = b * a
  OBVIOUS
<1> HIDE DEF m, q, r
<1>5. r = 0
  BY <1>1, <1>2, <1>4
<1> QED BY <1>1, <1>3, <1>5
-----------------------------------------------------------------------------
(* The table *)

Rows == 1..(MaxAR + ARSamples)
Columns == 0..SupplyRatioSamples

LEMMA TableLookupFacts ==
  ASSUME NEW row \in Rows
  PROVE /\ \A k \in Columns : TableLookup(row, k) \in Nat
        /\ \A j, k \in Columns : j <= k => TableLookup(row, j) <= TableLookup(row, k)
        /\ TableLookup(row, 0) = 0 /\ TableLookup(row, SupplyRatioSamples) = Unit
<1> DEFINE T(k) == BancorTable[row][k]
<1>1. /\ Unit \in Nat \ {0} /\ TableMax \in Nat \ {0} /\ SupplyRatioSamples \in Nat \ {0}
      /\ T(0) = 0 /\ T(SupplyRatioSamples) = TableMax
      /\ \A k \in Columns : T(k) \in Nat
      /\ \A j, k \in Columns : j <= k => T(j) <= T(k)
  BY BancorAssumption DEF Rows, Columns
<1>2. \A k : TableLookup(row, k) = QuoRound(T(k) * Unit, TableMax)
  BY DEF TableLookup
<1> HIDE DEF T
<1>3. \A k \in Columns : T(k) * Unit \in Nat
  BY <1>1
<1>4. ASSUME NEW j \in Columns, NEW k \in Columns, j <= k
      PROVE TableLookup(row, j) <= TableLookup(row, k)
  <2>1. T(j) * Unit <= T(k) * Unit
    <3>1. Unit * T(j) <= Unit * T(k)
      BY <1>1, <1>4, ProductMonotone
    <3> QED BY <1>1, <3>1
  <2> QED BY <1>1, <1>2, <1>3, <2>1, QuoRoundMonotone
<1>5. TableLookup(row, 0) = 0
  <2>1. T(0) * Unit = 0 * TableMax
    BY <1>1
  <2>2. QuoRound(0 * TableMax, TableMax) = 0
    BY <1>1, QuoRoundExact
  <2> QED BY <1>2, <2>1, <2>2
<1>6. TableLookup(row, SupplyRatioSamples) = Unit
  <2>1. T(SupplyRatioSamples) * Unit = Unit * TableMax
    BY <1>1
  <2>2. QuoRound(Unit * TableMax, TableMax) = Unit
    BY <1>1, QuoRoundExact
  <2> QED BY <1>2, <2>1, <2>2
<1>7. \A k \in Columns : TableLookup(row, k) \in Nat
  BY <1>1, <1>2, <1>3, QuoRoundNat
<1> QED BY <1>4, <1>5, <1>6, <1>7

\* the sample at or below n of the supply, and how far n is beyond it
Near(x, n) == (n * SupplyRatioSamples) \div x.supply
Over(x, n) == n * SupplyRatioSamples - Near(x, n) * x.supply

LEMMA NearFacts ==
  ASSUME NEW x, x.supply \in Nat \ {0}, NEW n \in 0..x.supply
  PROVE /\ Near(x, n) \in Columns /\ Over(x, n) \in Nat /\ Over(x, n) <= x.supply
        /\ Over(x, n) # 0 => Near(x, n) + 1 \in Columns
<1> DEFINE k == Near(x, n)
           s == x.supply
           c == SupplyRatioSamples
           o == Over(x, n)
<1>1. s \in Nat \ {0} /\ c \in Nat \ {0} /\ n \in Nat /\ n <= s
  BY BancorAssumption
<1>2. n * c \in Nat
  BY <1>1
<1>3. k \in Nat /\ s * k <= n * c /\ n * c < s * k + s
  BY <1>1, <1>2, DivBounds DEF Near
<1>4. o = n * c - k * s
  BY DEF Over
<1>5. n * c <= s * c
  <2>1. c * n <= c * s
    BY <1>1, ProductMonotone
  <2> QED BY <1>1, <2>1
<1> HIDE DEF k, s, c, o
<1>6. k * s = s * k /\ s * k \in Nat
  BY <1>1, <1>3
<1>7. o \in Nat /\ o <= s
  BY <1>2, <1>3, <1>4, <1>6, <1>1
<1>8. k <= c
  <2>1. s * k <= s * c /\ s * c \in Nat
    BY <1>1, <1>2, <1>3, <1>5, <1>6
  <2> QED BY <1>1, <1>3, <2>1, ProductCancel
<1>9. o # 0 => k # c
  <2>1. k = c => k * s = s * c
    BY <1>1
  <2> QED BY <1>1, <1>2, <1>3, <1>4, <1>5, <1>6, <1>7, <2>1
<1>10. k \in 0..c /\ (o # 0 => k + 1 \in 0..c)
  BY <1>1, <1>3, <1>8, <1>9
<1> QED BY <1>7, <1>10 DEF Columns, k, s, c, o

\* interpolation stays between the two samples
LEMMA BetweenBounds ==
  ASSUME NEW x, x.supply \in Nat \ {0}, NEW row \in Rows, NEW n \in 0..x.supply
  PROVE /\ Between(x, row, n) \in Nat
        /\ TableLookup(row, Near(x, n)) <= Between(x, row, n)
        /\ Over(x, n) = 0 => Between(x, row, n) = TableLookup(row, Near(x, n))
        /\ Over(x, n) # 0 => Between(x, row, n) <= TableLookup(row, Near(x, n) + 1)
<1> DEFINE k == Near(x, n)
           o == Over(x, n)
           s == x.supply
           a == TableLookup(row, k)
           b == TableLookup(row, k + 1)
           part == QuoRound((b - a) * o, s)
<1>1. k \in Columns /\ o \in Nat /\ o <= s /\ (o # 0 => k + 1 \in Columns) /\ s \in Nat \ {0}
  BY NearFacts
<1>2. a \in Nat /\ (o # 0 => b \in Nat /\ a <= b)
  <2>1. a \in Nat
    BY <1>1, TableLookupFacts
  <2>2. ASSUME o # 0 PROVE b \in Nat /\ a <= b
    <3>1. k \in Int /\ k <= k + 1
      BY <1>1 DEF Columns
    <3> HIDE DEF k, o
    <3> QED BY <1>1, <2>2, <3>1, TableLookupFacts
  <2> QED BY <2>1, <2>2
<1>3. Between(x, row, n) = IF o = 0 THEN a ELSE part + a
  BY DEF Between, Near, Over
<1>4. ASSUME o # 0 PROVE part \in Nat /\ part <= b - a
  <2> DEFINE e == b - a
  <2>1. e \in Nat /\ e * o \in Nat /\ e * s \in Nat
    BY <1>1, <1>2, <1>4
  <2> HIDE DEF e, o, s
  <2>2. e * o <= e * s
    BY <1>1, <2>1, ProductMonotone
  <2>3. QuoRound(e * o, s) \in Nat /\ QuoRound(e * o, s) <= QuoRound(e * s, s)
    BY <1>1, <2>1, <2>2, QuoRoundNat, QuoRoundMonotone
  <2>4. QuoRound(e * s, s) = e
    BY <1>1, <2>1, QuoRoundExact
  <2> QED BY <2>3, <2>4 DEF e, o, s
<1> HIDE DEF a, b, part, o
<1>5. /\ Between(x, row, n) \in Nat /\ a <= Between(x, row, n)
      /\ o = 0 => Between(x, row, n) = a
      /\ o # 0 => Between(x, row, n) <= b
  BY <1>2, <1>3, <1>4
<1> QED BY <1>5 DEF a, b, o

LEMMA BetweenMonotone ==
  ASSUME NEW x, x.supply \in Nat \ {0}, NEW row \in Rows,
         NEW n \in 0..x.supply, NEW m \in 0..x.supply, n <= m
  PROVE Between(x, row, n) <= Between(x, row, m)
<1> DEFINE k == Near(x, n)
           l == Near(x, m)
           s == x.supply
           c == SupplyRatioSamples
<1>1. /\ k \in Columns /\ Over(x, n) \in Nat /\ (Over(x, n) # 0 => k + 1 \in Columns)
      /\ l \in Columns /\ Over(x, m) \in Nat /\ (Over(x, m) # 0 => l + 1 \in Columns)
      /\ s \in Nat \ {0} /\ c \in Nat \ {0} /\ n \in Nat /\ m \in Nat
  BY NearFacts, BancorAssumption
<1>2. n * c \in Nat /\ m * c \in Nat /\ n * c <= m * c
  <2>1. c * n <= c * m
    BY <1>1, ProductMonotone
  <2> HIDE DEF c
  <2> QED BY <1>1, <2>1
<1>3. k <= l
  BY <1>1, <1>2, DivMonotone DEF Near
<1>4. k \in Int /\ l \in Int
  BY <1>1 DEF Columns
<1>5. /\ Between(x, row, n) \in Nat /\ Between(x, row, m) \in Nat
      /\ TableLookup(row, l) <= Between(x, row, m)
      /\ Over(x, n) = 0 => Between(x, row, n) = TableLookup(row, k)
      /\ Over(x, n) # 0 => Between(x, row, n) <= TableLookup(row, k + 1)
  BY BetweenBounds
<1>6. CASE k < l
  <2>1. TableLookup(row, k) <= TableLookup(row, l)
        /\ TableLookup(row, l) \in Nat /\ TableLookup(row, k) \in Nat
    <3> HIDE DEF k, l
    <3> QED BY <1>1, <1>3, TableLookupFacts
  <2>2. ASSUME Over(x, n) # 0
        PROVE TableLookup(row, k + 1) <= TableLookup(row, l) /\ TableLookup(row, k + 1) \in Nat
    <3>1. k + 1 <= l
      BY <1>4, <1>6
    <3> HIDE DEF k, l
    <3> QED BY <1>1, <2>2, <3>1, TableLookupFacts
  <2> HIDE DEF k, l
  <2> QED BY <1>5, <2>1, <2>2
<1>7. CASE k = l
  <2> DEFINE a == TableLookup(row, k)
             e == TableLookup(row, k + 1) - a
             o == Over(x, n)
             q == Over(x, m)
  <2>1. o <= q
    <3>1. o = n * c - k * s /\ q = m * c - k * s
      BY <1>7 DEF Over
    <3>2. k * s \in Int
      BY <1>1, <1>4
    <3> HIDE DEF k, s, c, o, q
    <3> QED BY <1>2, <3>1, <3>2
  <2>2. CASE o = 0
    <3>1. Between(x, row, n) = a
      BY <1>5, <2>2
    <3>2. a <= Between(x, row, m)
      BY <1>5, <1>7
    <3> QED BY <3>1, <3>2
  <2>3. CASE o # 0
    <3>1. q # 0
      BY <1>1, <2>1, <2>3
    <3>2. /\ Between(x, row, n) = QuoRound(e * o, s) + a
          /\ Between(x, row, m) = QuoRound(e * q, s) + a
      BY <1>7, <2>3, <3>1 DEF Between, Near, Over
    <3>3. a \in Nat /\ e \in Nat
      <4>1. k <= k + 1 /\ k \in Columns /\ k + 1 \in Columns
        BY <1>1, <1>4, <2>3
      <4> HIDE DEF k
      <4>2. a \in Nat /\ TableLookup(row, k + 1) \in Nat /\ a <= TableLookup(row, k + 1)
        BY <4>1, TableLookupFacts
      <4> HIDE DEF a
      <4> QED BY <4>2
    <3> HIDE DEF a, e, o, q, s
    <3>4. e * o \in Nat /\ e * q \in Nat /\ e * o <= e * q
      BY <1>1, <2>1, <3>3, ProductMonotone DEF o, q
    <3>5. QuoRound(e * o, s) <= QuoRound(e * q, s)
          /\ QuoRound(e * o, s) \in Nat /\ QuoRound(e * q, s) \in Nat
      BY <1>1, <3>4, QuoRoundMonotone, QuoRoundNat DEF s
    <3> QED BY <3>2, <3>3, <3>5
  <2> QED BY <2>2, <2>3
<1> QED BY <1>3, <1>4, <1>6, <1>7

LEMMA BetweenEnds ==
  ASSUME NEW x, x.supply \in Nat \ {0}, NEW row \in Rows
  PROVE Between(x, row, 0) = 0 /\ Between(x, row, x.supply) = Unit
<1> DEFINE s == x.supply
           c == SupplyRatioSamples
<1>1. s \in Nat \ {0} /\ c \in Nat \ {0}
  BY BancorAssumption
<1>2. Near(x, 0) = 0 /\ Over(x, 0) = 0
  <2>1. 0 * c = 0 * s
    BY <1>1
  <2>2. (0 * s) \div s = 0
    BY <1>1, DivExact
  <2> QED BY <1>1, <2>1, <2>2 DEF Near, Over
<1>3. Near(x, s) = c /\ Over(x, s) = 0
  <2>1. s * c = c * s
    BY <1>1
  <2>2. (c * s) \div s = c
    BY <1>1, DivExact
  <2> QED BY <1>1, <2>1, <2>2 DEF Near, Over
<1>4. 0 \in 0..s /\ s \in 0..s
  BY <1>1
<1> QED BY <1>2, <1>3, <1>4, BetweenBounds, TableLookupFacts
-----------------------------------------------------------------------------
(* Designs *)

LEMMA DivWithRest ==
  ASSUME NEW a \in Nat, NEW b \in Nat \ {0}, NEW r \in Nat, r < b
  PROVE (b * a + r) \div b = a
<1> DEFINE m == b * a + r
           q == m \div b
<1>1. m \in Nat
  OBVIOUS
<1>2. q \in Nat /\ b * q <= m /\ m < b * q + b
  BY <1>1, DivBounds
<1>3. m = b * a + r /\ b * a \in Nat
  OBVIOUS
<1> HIDE DEF m, q
<1>4. b * q < b * (a + 1) /\ b * a < b * (q + 1)
  BY <1>2, <1>3
<1>5. q < a + 1 /\ a < q + 1
  BY <1>2, <1>4
<1> QED BY <1>2, <1>5 DEF q, m

\* a product grows with its factors
LEMMA ProductOrder ==
  ASSUME NEW a \in Nat, NEW b \in Nat, NEW c \in Nat, NEW d \in Nat, a <= c, b <= d
  PROVE a * b \in Nat /\ c * d \in Nat /\ a * b <= c * d
<1>1. a * b <= a * d /\ a * b \in Nat /\ a * d \in Nat
  BY ProductMonotone
<1>2. d * a <= d * c
  BY ProductMonotone
<1>3. d * a = a * d /\ d * c = c * d /\ c * d \in Nat
  OBVIOUS
<1> QED BY <1>1, <1>2, <1>3

LEMMA DesignFields ==
  ASSUME NEW x \in Design
  PROVE x.init \in Nat /\ x.max \in Nat /\ x.supply \in Nat /\ x.maxMoney \in Nat
BY DEF Design

LEMMA DesignFacts ==
  ASSUME NEW x \in Design, ValidDesign(x)
  PROVE /\ x.supply \in Nat \ {0} /\ x.init <= x.max
        /\ x.maxMoney = 0 => CalculateAR(x) = 0
        /\ x.maxMoney # 0 => /\ CalculateAR(x) \in Rows /\ CalculateAR(x) + ARSamples \in Rows
                             /\ (x.init * x.supply) \div Unit <= x.maxMoney
<1> DEFINE above == x.max * x.supply - x.maxMoney * Unit
           below == x.maxMoney * Unit - x.init * x.supply
           i == x.init
           h == x.max
           s == x.supply
           m == x.maxMoney
<1>1. /\ i \in Nat /\ h \in Nat /\ s \in Nat /\ m \in Nat
      /\ Unit \in Nat \ {0} /\ MaxAR \in Nat /\ ARSamples \in Nat \ {0}
  BY DesignFields, BancorAssumption
<1>2. s # 0 /\ (m = 0 => i <= h) /\ (m # 0 => CalculateAR(x) \in 1..MaxAR)
  BY <1>1 DEF ValidDesign
<1>3. CalculateAR(x) = IF h = i \/ below <= 0 \/ above <= 0 THEN 0
                       ELSE (((above * Unit) \div below) * ARSamples) \div Unit
  BY DEF CalculateAR
<1>4. above = h * s - m * Unit /\ below = m * Unit - i * s
  OBVIOUS
<1>5. h * s \in Nat /\ m * Unit \in Nat /\ i * s \in Nat
  BY <1>1
<1> HIDE DEF above, below, i, h, s, m
<1>6. CASE m = 0
  <2>1. m * Unit = 0
    BY <1>1, <1>6
  <2>2. below <= 0
    BY <1>4, <1>5, <2>1
  <2> QED BY <1>1, <1>2, <1>3, <1>6, <2>2 DEF i, h, s, m
<1>7. CASE m # 0
  <2>1. CalculateAR(x) \in 1..MaxAR
    BY <1>2, <1>7
  <2>2. ~ (below <= 0) /\ ~ (above <= 0)
    BY <1>3, <2>1
  <2>3. i * s < m * Unit /\ m * Unit < h * s
    BY <1>4, <1>5, <2>2
  <2>4. i <= h
    <3>1. s * i <= s * h /\ s * i \in Nat /\ s * h \in Nat
      BY <1>1, <1>5, <2>3
    <3> QED BY <1>1, <1>2, <3>1, ProductCancel
  <2>5. (i * s) \div Unit <= m
    <3>1. (i * s) \div Unit <= (m * Unit) \div Unit
      BY <1>1, <1>5, <2>3, DivMonotone
    <3>2. (m * Unit) \div Unit = m
      BY <1>1, DivExact
    <3> QED BY <3>1, <3>2
  <2>6. CalculateAR(x) \in Rows /\ CalculateAR(x) + ARSamples \in Rows
    BY <1>1, <2>1 DEF Rows
  <2> QED BY <1>1, <1>2, <1>7, <2>4, <2>5, <2>6 DEF i, h, s, m
<1> QED BY <1>6, <1>7

-----------------------------------------------------------------------------
(* The two curves *)

LEMMA LinePriceFacts ==
  ASSUME NEW x \in Design, ValidDesign(x), x.maxMoney = 0
  PROVE /\ \A n \in 0..x.supply : LinePrice(x, n) \in Nat
        /\ \A n, m \in 0..x.supply : n <= m => LinePrice(x, n) <= LinePrice(x, m)
        /\ LinePrice(x, 0) = x.init /\ LinePrice(x, x.supply) = x.max
<1> DEFINE s == x.supply
           i == x.init
           e == x.max - x.init
<1>1. s \in Nat \ {0} /\ i \in Nat /\ e \in Nat /\ x.max = e + i
  BY DesignFields, DesignFacts
<1>2. \A n : LinePrice(x, n) = (e * n) \div s + i
  BY DEF LinePrice
<1>3. (e * 0) \div s = 0 /\ (e * s) \div s = e
  <2>1. (0 * s) \div s = 0 /\ (e * s) \div s = e
    BY <1>1, DivExact
  <2>2. e * 0 = 0 * s
    BY <1>1
  <2> QED BY <2>1, <2>2
<1> HIDE DEF s, i, e
<1>4. ASSUME NEW n \in 0..s PROVE n \in Nat /\ e * n \in Nat /\ (e * n) \div s \in Nat
  BY <1>1, DivBounds
<1>5. ASSUME NEW n \in 0..s, NEW m \in 0..s, n <= m
      PROVE (e * n) \div s <= (e * m) \div s
  <2>1. n \in Nat /\ m \in Nat /\ e * n \in Nat /\ e * m \in Nat
    BY <1>1
  <2>2. e * n <= e * m
    BY <1>1, <1>5, <2>1, ProductMonotone
  <2> QED BY <1>1, <2>1, <2>2, DivMonotone
<1>6. /\ \A n \in 0..s : LinePrice(x, n) \in Nat
      /\ \A n, m \in 0..s : n <= m => LinePrice(x, n) <= LinePrice(x, m)
      /\ LinePrice(x, 0) = i /\ LinePrice(x, s) = x.max
  <2> DEFINE G(n) == (e * n) \div s
  <2>1. /\ \A n \in 0..s : G(n) \in Nat
        /\ \A n, m \in 0..s : n <= m => G(n) <= G(m)
        /\ G(0) = 0 /\ G(s) = e
        /\ \A n : LinePrice(x, n) = G(n) + i
    BY <1>2, <1>3, <1>4, <1>5
  <2> HIDE DEF G
  <2> QED BY <1>1, <2>1
<1> QED BY <1>6 DEF s, i

LEMMA LineMoneyFacts ==
  ASSUME NEW x \in Design, ValidDesign(x), x.maxMoney = 0
  PROVE /\ \A n \in 0..x.supply : LineMoney(x, n) \in Nat
        /\ \A n, m \in 0..x.supply : n <= m => LineMoney(x, n) <= LineMoney(x, m)
        /\ LineMoney(x, 0) = 0
<1> DEFINE s == x.supply
           i == x.init
           P(n) == LinePrice(x, n) + i
<1>1. /\ s \in Nat \ {0} /\ i \in Nat /\ Unit \in Nat \ {0}
      /\ \A n \in 0..s : P(n) \in Nat
      /\ \A n, m \in 0..s : n <= m => P(n) <= P(m)
  BY DesignFields, DesignFacts, LinePriceFacts, BancorAssumption
<1>2. \A n : LineMoney(x, n) = QuoRound((P(n) * n) \div 2, Unit)
  BY DEF LineMoney, RoundInt
<1> HIDE DEF s, i, P
<1>3. ASSUME NEW n \in 0..s
      PROVE P(n) * n \in Nat /\ (P(n) * n) \div 2 \in Nat
  <2>1. P(n) * n \in Nat
    BY <1>1
  <2> QED BY <2>1, DivBounds
<1>4. ASSUME NEW n \in 0..s, NEW m \in 0..s, n <= m
      PROVE LineMoney(x, n) <= LineMoney(x, m)
  <2>1. P(n) * n <= P(m) * m
    BY <1>1, <1>4, ProductOrder
  <2>2. (P(n) * n) \div 2 <= (P(m) * m) \div 2
    BY <1>3, <2>1, DivMonotone
  <2> QED BY <1>1, <1>2, <1>3, <2>2, QuoRoundMonotone
<1>5. LineMoney(x, 0) = 0
  <2>1. (P(0) * 0) \div 2 = 0 * Unit
    BY <1>1
  <2> QED BY <1>1, <1>2, <2>1, QuoRoundExact
<1>6. \A n \in 0..s : LineMoney(x, n) \in Nat
  BY <1>1, <1>2, <1>3, QuoRoundNat
<1> QED BY <1>4, <1>5, <1>6 DEF s

LEMMA PowerPriceFacts ==
  ASSUME NEW x \in Design, NEW ar \in Rows, x.supply \in Nat \ {0}, x.init <= x.max
  PROVE /\ \A n \in 0..x.supply : PowerPrice(x, ar, n) \in Nat
        /\ \A n, m \in 0..x.supply : n <= m => PowerPrice(x, ar, n) <= PowerPrice(x, ar, m)
        /\ PowerPrice(x, ar, 0) = x.init /\ PowerPrice(x, ar, x.supply) = x.max
<1> DEFINE s == x.supply
           i == x.init
           e == x.max - x.init
           B(n) == Between(x, ar, n)
<1>1. /\ s \in Nat \ {0} /\ i \in Nat /\ e \in Nat /\ x.max = e + i /\ Unit \in Nat \ {0}
      /\ \A n \in 0..s : B(n) \in Nat
      /\ \A n, m \in 0..s : n <= m => B(n) <= B(m)
      /\ B(0) = 0 /\ B(s) = Unit
  BY DesignFields, BetweenBounds, BetweenMonotone, BetweenEnds, BancorAssumption
<1>2. \A n : PowerPrice(x, ar, n) = (B(n) * e) \div Unit + i
  BY DEF PowerPrice
<1> HIDE DEF s, i, e, B
<1>3. ASSUME NEW n \in 0..s PROVE B(n) * e \in Nat /\ (B(n) * e) \div Unit \in Nat
  BY <1>1, DivBounds
<1>4. ASSUME NEW n \in 0..s, NEW m \in 0..s, n <= m
      PROVE (B(n) * e) \div Unit <= (B(m) * e) \div Unit
  <2>1. B(n) * e <= B(m) * e
    BY <1>1, <1>4, ProductOrder
  <2> QED BY <1>1, <1>3, <2>1, DivMonotone
<1>5. (B(0) * e) \div Unit = 0 /\ (B(s) * e) \div Unit = e
  <2>1. (0 * Unit) \div Unit = 0 /\ (e * Unit) \div Unit = e
    BY <1>1, DivExact
  <2>2. B(0) * e = 0 * Unit /\ B(s) * e = e * Unit
    BY <1>1
  <2> QED BY <2>1, <2>2
<1>6. /\ \A n \in 0..s : PowerPrice(x, ar, n) \in Nat
      /\ \A n, m \in 0..s : n <= m => PowerPrice(x, ar, n) <= PowerPrice(x, ar, m)
      /\ PowerPrice(x, ar, 0) = i /\ PowerPrice(x, ar, s) = x.max
  <2> DEFINE G(n) == (B(n) * e) \div Unit
  <2>1. /\ \A n \in 0..s : G(n) \in Nat
        /\ \A n, m \in 0..s : n <= m => G(n) <= G(m)
        /\ G(0) = 0 /\ G(s) = e
        /\ \A n : PowerPrice(x, ar, n) = G(n) + i
    BY <1>2, <1>3, <1>4, <1>5
  <2> HIDE DEF G
  <2> QED BY <1>1, <2>1
<1> QED BY <1>6 DEF s, i

LEMMA PowerMoneyFacts ==
  ASSUME NEW x \in Design, NEW ar, ar + ARSamples \in Rows, x.supply \in Nat \ {0},
         (x.init * x.supply) \div Unit <= x.maxMoney
  PROVE /\ \A n \in 0..x.supply : PowerMoney(x, ar, n) \in Nat
        /\ \A n, m \in 0..x.supply : n <= m => PowerMoney(x, ar, n) <= PowerMoney(x, ar, m)
        /\ PowerMoney(x, ar, 0) = 0 /\ PowerMoney(x, ar, x.supply) = x.maxMoney
<1> DEFINE s == x.supply
           i == x.init
           q == (i * s) \div Unit
           c == x.maxMoney - q
           B(n) == Between(x, ar + ARSamples, n)
           M(n) == B(n) * c + i * n
<1>1. /\ s \in Nat \ {0} /\ i \in Nat /\ Unit \in Nat \ {0} /\ x.maxMoney \in Nat
      /\ i * s \in Nat /\ q <= x.maxMoney
      /\ \A n \in 0..s : B(n) \in Nat
      /\ \A n, m \in 0..s : n <= m => B(n) <= B(m)
      /\ B(0) = 0 /\ B(s) = Unit
  BY DesignFields, BetweenBounds, BetweenMonotone, BetweenEnds, BancorAssumption, SMTT(30)
<1>2. q \in Nat /\ c \in Nat /\ x.maxMoney = q + c
  <2>1. q \in Nat
    <3> HIDE DEF i, s
    <3> QED BY <1>1, DivBounds
  <2>2. c = x.maxMoney - q
    OBVIOUS
  <2> HIDE DEF q, c
  <2> QED BY <1>1, <2>1, <2>2
<1>3. \A n : PowerMoney(x, ar, n) = M(n) \div Unit
  BY DEF PowerMoney
<1>4. i * s = Unit * q + ((i * s) % Unit) /\ (i * s) % Unit \in 0..(Unit - 1)
  BY <1>1, Remainder
<1> HIDE DEF s, i, q, c, B
<1>5. ASSUME NEW n \in 0..s
      PROVE n \in Nat /\ B(n) * c \in Nat /\ i * n \in Nat /\ M(n) \in Nat /\ M(n) \div Unit \in Nat
  <2>1. n \in Nat /\ B(n) * c \in Nat /\ i * n \in Nat
    BY <1>1, <1>2
  <2>2. M(n) \in Nat
    BY <2>1
  <2> HIDE DEF M
  <2> QED BY <1>1, <2>1, <2>2, DivBounds
<1>6. ASSUME NEW n \in 0..s, NEW m \in 0..s, n <= m
      PROVE M(n) \div Unit <= M(m) \div Unit
  <2>1. B(n) * c <= B(m) * c
    BY <1>1, <1>2, <1>6, ProductOrder
  <2>2. i * n <= i * m
    BY <1>1, <1>5, <1>6, ProductMonotone
  <2>3. M(n) <= M(m)
    BY <1>5, <2>1, <2>2
  <2> HIDE DEF M
  <2> QED BY <1>1, <1>5, <2>3, DivMonotone
<1>7. M(0) \div Unit = 0
  <2>1. M(0) = 0 * Unit
    BY <1>1, <1>2
  <2> QED BY <1>1, <2>1, DivExact
<1>8. M(s) \div Unit = x.maxMoney
  <2> DEFINE r == (i * s) % Unit
  <2>1. r \in Nat /\ r < Unit
    BY <1>1, <1>4
  <2>2. M(s) = Unit * (q + c) + r
    <3>1. M(s) = Unit * c + i * s
      BY <1>1
    <3>2. Unit * (q + c) = Unit * q + Unit * c /\ Unit * q \in Nat /\ Unit * c \in Nat
      BY <1>1, <1>2
    <3>3. i * s = Unit * q + r /\ r \in Nat
      BY <1>4, <2>1
    <3> HIDE DEF r, M
    <3> QED BY <3>1, <3>2, <3>3
  <2> HIDE DEF r, M
  <2>3. (Unit * (q + c) + r) \div Unit = q + c
    BY <1>1, <1>2, <2>1, DivWithRest
  <2> QED BY <1>2, <2>2, <2>3
<1> HIDE DEF M
<1>9. /\ \A n \in 0..s : PowerMoney(x, ar, n) \in Nat
      /\ \A n, m \in 0..s : n <= m => PowerMoney(x, ar, n) <= PowerMoney(x, ar, m)
      /\ PowerMoney(x, ar, 0) = 0 /\ PowerMoney(x, ar, s) = x.maxMoney
  BY <1>3, <1>5, <1>6, <1>7, <1>8
<1> QED BY <1>9 DEF s

\* What a pool holds and asks on the way from its first to its last unit.
LEMMA CurveFacts ==
  ASSUME NEW x \in Design, ValidDesign(x), NEW ar, ar = CalculateAR(x)
  PROVE /\ \A n \in 0..x.supply : PriceAt(x, ar, n) \in Nat /\ MoneyAt(x, ar, n) \in Nat
        /\ \A n, m \in 0..x.supply : n <= m =>
             PriceAt(x, ar, n) <= PriceAt(x, ar, m) /\ MoneyAt(x, ar, n) <= MoneyAt(x, ar, m)
        /\ PriceAt(x, ar, 0) = x.init /\ PriceAt(x, ar, x.supply) = x.max
        /\ MoneyAt(x, ar, 0) = 0
        /\ x.maxMoney # 0 => MoneyAt(x, ar, x.supply) = x.maxMoney
<1>1. CASE x.maxMoney = 0
  BY <1>1, LinePriceFacts, LineMoneyFacts DEF PriceAt, MoneyAt
<1>2. CASE x.maxMoney # 0
  <2>1. /\ ar \in Rows /\ ar + ARSamples \in Rows /\ x.supply \in Nat \ {0} /\ x.init <= x.max
        /\ (x.init * x.supply) \div Unit <= x.maxMoney
    BY <1>2, DesignFacts
  <2> QED BY <1>2, <2>1, PowerPriceFacts, PowerMoneyFacts DEF PriceAt, MoneyAt
<1> QED BY <1>1, <1>2
-----------------------------------------------------------------------------
(* Pools and orders *)

\* a pool where its design's curve has it for the stock it has sold
PoolSound(p) ==
  /\ p \in Pool
  /\ ValidDesign(p.design) /\ p.ar = CalculateAR(p.design)
  /\ p.stock \in 0..p.design.supply
  /\ p.money = MoneyAt(p.design, p.ar, p.design.supply - p.stock)
  /\ p.price = PriceAt(p.design, p.ar, p.design.supply - p.stock)

PoolsSound ==
  /\ pools \in [Pairs -> Pool \cup {NoPool}]
  /\ \A i \in Pairs : pools[i] # NoPool => PoolSound(pools[i])

\* The inductive invariant of the two modules together.
DexInv == IInv /\ PoolsSound /\ FrozenExact /\ imports \in Nat

-----------------------------------------------------------------------------
(* Pools *)

LEMMA PoolFields ==
  ASSUME NEW p \in Pool
  PROVE /\ p.owner \in Users /\ p.design \in Design /\ p.stock \in Nat /\ p.money \in Nat
        /\ p # NoPool
BY DexAssumption DEF Pool

LEMMA PairFacts ==
  ASSUME NEW i \in Pairs
  PROVE PairAt[i] \in Markets /\ Stock(i) \in Denoms /\ Money(i) \in Denoms
        /\ Stock(i) # Money(i)
BY DexAssumption, MarketAssumption DEF Stock, Money

\* a new pool has sold nothing
LEMMA NewPoolSound ==
  ASSUME NEW u \in Users, NEW x \in Design, NEW t \in Nat, ValidDesign(x)
  PROVE PoolSound(NewPool(u, x, t))
<1> DEFINE p == NewPool(u, x, t)
           ar == CalculateAR(x)
<1>1. /\ p.owner = u /\ p.design = x /\ p.ar = ar /\ p.price = x.init
      /\ p.stock = x.supply /\ p.money = 0 /\ p.cancelTime = t
  BY DEF NewPool
<1>2. x.supply \in Nat /\ x.init \in Nat
  BY DesignFields
<1>3. PriceAt(x, ar, 0) = x.init /\ MoneyAt(x, ar, 0) = 0
  BY CurveFacts
<1>4. ar \in Nat
  BY DesignFacts DEF Rows
<1>5. p \in Pool
  <2> HIDE DEF ar
  <2>1. p = [owner |-> u, design |-> x, ar |-> ar, price |-> x.init,
             stock |-> x.supply, money |-> 0, cancelTime |-> t]
    BY DEF NewPool, ar
  <2> QED BY <1>2, <1>4, <2>1 DEF Pool
<1>6. x.supply - x.supply = 0 /\ x.supply \in 0..x.supply
  BY <1>2
<1> HIDE DEF p, ar
<1>7. PoolSound(p)
  BY <1>1, <1>3, <1>5, <1>6 DEF PoolSound, ar
<1> QED BY <1>7 DEF p

\* a pool that is moved to another stock of its supply stays on its curve
LEMMA MovedPoolSound ==
  ASSUME NEW p, PoolSound(p), NEW stock \in 0..p.design.supply
  PROVE /\ PoolSound(UpdateStockInPool(p, stock))
        /\ UpdateStockInPool(p, stock).stock = stock
        /\ UpdateStockInPool(p, stock).owner = p.owner
        /\ UpdateStockInPool(p, stock).design = p.design
        /\ UpdateStockInPool(p, stock).ar = p.ar
<1> DEFINE x == p.design
           sold == x.supply - stock
           q == UpdateStockInPool(p, stock)
           price1 == PriceAt(x, p.ar, sold)
           money1 == MoneyAt(x, p.ar, sold)
<1>1. p \in Pool /\ x \in Design /\ ValidDesign(x) /\ p.ar = CalculateAR(x)
  BY PoolFields DEF PoolSound
<1>2. x.supply \in Nat
  BY <1>1, DesignFields
<1>3. sold \in 0..x.supply /\ stock \in Nat
  BY <1>2
<1>4. price1 \in Nat /\ money1 \in Nat
  BY <1>1, <1>3, CurveFacts
<1>5. q = [p EXCEPT !.stock = stock, !.price = price1, !.money = money1]
  BY DEF UpdateStockInPool
<1> HIDE DEF price1, money1, q
<1>6. /\ q \in Pool /\ q.stock = stock /\ q.price = price1 /\ q.money = money1
      /\ q.owner = p.owner /\ q.design = p.design /\ q.ar = p.ar
  BY <1>1, <1>3, <1>4, <1>5 DEF Pool
<1>7. PoolSound(q)
  BY <1>1, <1>6 DEF PoolSound, price1, money1
<1> QED BY <1>6, <1>7 DEF q

\* one pair's pool is replaced by a sound one, or closed
LEMMA OnePoolChanges ==
  ASSUME PoolsSound, NEW i \in Pairs, NEW q, q = NoPool \/ PoolSound(q),
         pools' = [pools EXCEPT ![i] = q]
  PROVE PoolsSound'
BY DEF PoolsSound, PoolSound
-----------------------------------------------------------------------------
(* Reserves *)

Held(ps, u, d) == [i \in Pairs |-> Reserve(i, ps[i], u, d)]

LEMMA ReserveType ==
  ASSUME NEW i \in Pairs, NEW p \in Pool \cup {NoPool}, NEW u, NEW d
  PROVE Reserve(i, p, u, d) \in Nat
<1>1. CASE p = NoPool
  BY <1>1 DEF Reserve
<1>2. CASE p # NoPool
  BY <1>2, PoolFields DEF Reserve
<1> QED BY <1>1, <1>2

LEMMA HeldNat ==
  ASSUME PoolsSound, NEW u, NEW d
  PROVE \A i \in 1..NumPairs : Held(pools, u, d)[i] = Reserve(i, pools[i], u, d)
                               /\ Held(pools, u, d)[i] \in Nat
BY ReserveType DEF PoolsSound, Held, Pairs

LEMMA ReservesNat ==
  ASSUME PoolsSound, NEW u, NEW d
  PROVE Reserves(u, d) = SumTo(Held(pools, u, d), NumPairs) /\ Reserves(u, d) \in Nat
<1>1. Reserves(u, d) = SumTo(Held(pools, u, d), NumPairs)
  BY DEF Reserves, Held
<1>2. NumPairs \in Nat
  BY DexAssumption
<1>3. SumTo(Held(pools, u, d), NumPairs) \in Nat
  BY <1>2, HeldNat, SumNat
<1> QED BY <1>1, <1>3

LEMMA OrdersHold ==
  ASSUME OrdersSound, NEW u \in Users, NEW d \in Denoms
  PROVE SumTo(Escrows(orders, u, d), MaxOrders) \in Int
<1>1. \A s \in 1..MaxOrders : Escrows(orders, u, d)[s] \in Int
  BY EscrowsNat
<1> QED BY <1>1, SumInt, MarketAssumption

\* What no order holds back is what the pools hold.
LEMMA FrozenExactMeaning ==
  ASSUME IInv, PoolsSound
  PROVE FrozenExact <=> \A u \in Users, d \in Denoms : Unheld(u, d) = Reserves(u, d)
<1>1. ASSUME NEW u \in Users, NEW d \in Denoms
      PROVE /\ bank.frozen[u][d] \in Nat /\ InOrders(u, d) \in Int /\ Reserves(u, d) \in Nat
            /\ Unheld(u, d) = bank.frozen[u][d] - InOrders(u, d)
  <2>1. InOrders(u, d) = SumTo(Escrows(orders, u, d), MaxOrders)
    BY DEF InOrders, Escrows
  <2>2. SumTo(Escrows(orders, u, d), MaxOrders) \in Int
    BY OrdersHold DEF IInv
  <2> QED BY <2>1, <2>2, LedgerFields, ReservesNat DEF IInv, Unheld
<1>2. ASSUME NEW u \in Users, NEW d \in Denoms
      PROVE bank.frozen[u][d] = InOrders(u, d) + Reserves(u, d)
            <=> Unheld(u, d) = Reserves(u, d)
  BY <1>1
<1> QED BY <1>2 DEF FrozenExact

LEMMA MarketKeepsReserves ==
  ASSUME DexInv, [Next]_vars, pools' = pools, IInv'
  PROVE FrozenExact'
<1>1. \A u \in Users, d \in Denoms : Unheld(u, d) = Reserves(u, d) /\ Reserves(u, d) \in Nat
  BY FrozenExactMeaning, ReservesNat DEF DexInv
<1>2. UnheldCovered
  BY <1>1 DEF UnheldCovered
<1>3. ASSUME NEW u \in Users, NEW d \in Denoms
      PROVE bank'.frozen[u][d] = InOrders(u, d)' + Reserves(u, d)'
  <2>1. Unheld(u, d)' = Reserves(u, d)
    BY <1>1, <1>2, NextUnheld DEF DexInv
  <2>2. Reserves(u, d)' = Reserves(u, d)
    BY DEF Reserves
  <2>3. \A s \in 1..MaxOrders : Escrows(orders', u, d)[s] \in Int
    BY EscrowType DEF IInv, OrdersSound, Escrows, Slots
  <2>4. SumTo(Escrows(orders', u, d), MaxOrders) \in Int
    BY <2>3, SumInt, MarketAssumption
  <2>5. InOrders(u, d)' = SumTo(Escrows(orders', u, d), MaxOrders)
    BY DEF InOrders, Escrows
  <2>6. bank'.frozen[u][d] \in Nat
    BY LedgerFields DEF IInv
  <2>7. bank'.frozen[u][d] - SumTo(Escrows(orders', u, d), MaxOrders) = Reserves(u, d)
    BY <2>1 DEF Unheld
  <2> QED BY <1>1, <2>2, <2>4, <2>5, <2>6, <2>7
<1> QED BY <1>3 DEF FrozenExact

\* A transaction of pair i's pool that moves the frozen coins by what it moves
\* the pool's reserve.
LEMMA PoolMoves ==
  ASSUME DexInv, NEW i \in Pairs, NEW q \in Pool \cup {NoPool},
         pools' = [pools EXCEPT ![i] = q], orders' = orders,
         \A u \in Users, d \in Denoms :
           bank'.frozen[u][d]
           = bank.frozen[u][d] + Reserve(i, q, u, d) - Reserve(i, pools[i], u, d)
  PROVE FrozenExact'
<1> SUFFICES ASSUME NEW u \in Users, NEW d \in Denoms
             PROVE bank'.frozen[u][d] = InOrders(u, d)' + Reserves(u, d)'
  BY DEF FrozenExact
<1> DEFINE f == Held(pools, u, d)
           g == Held(pools', u, d)
<1>1. NumPairs \in Nat /\ i \in 1..NumPairs
  BY DexAssumption DEF Pairs
<1>2. \A j \in 1..NumPairs : f[j] \in Int /\ f[j] = Reserve(j, pools[j], u, d)
  BY HeldNat DEF DexInv
<1>3. g[i] = Reserve(i, q, u, d) /\ \A j \in (1..NumPairs) \ {i} : g[j] = f[j]
  BY DEF DexInv, PoolsSound, Held, Pairs
<1>4. g[i] \in Int
  BY <1>3, ReserveType
<1>5. Reserves(u, d)' = SumTo(g, NumPairs)
  BY DEF Reserves, Held
<1>6. Reserves(u, d) = SumTo(f, NumPairs) /\ Reserves(u, d) \in Nat
  BY ReservesNat DEF DexInv
<1> HIDE DEF f, g
<1>7. SumTo(g, NumPairs) = SumTo(f, NumPairs) + g[i] - f[i]
  BY <1>1, <1>2, <1>3, <1>4, SumUpdate
<1>8. InOrders(u, d)' = InOrders(u, d)
  BY DEF InOrders
<1>9. InOrders(u, d) \in Int
  <2>1. SumTo(Escrows(orders, u, d), MaxOrders) \in Int
    BY OrdersHold DEF DexInv, IInv
  <2> QED BY <2>1 DEF InOrders, Escrows
<1>10. bank.frozen[u][d] = InOrders(u, d) + Reserves(u, d)
  BY DEF DexInv, FrozenExact
<1>11. bank'.frozen[u][d] = bank.frozen[u][d] + g[i] - f[i]
  BY <1>1, <1>2, <1>3
<1> QED BY <1>1, <1>2, <1>4, <1>5, <1>6, <1>7, <1>8, <1>9, <1>10, <1>11
-----------------------------------------------------------------------------
(* What the transactions do to the ledger *)

\* a fee and a referee's part of it leave frozen coins and totals alone
LEMMA PayTradeFeeFacts ==
  ASSUME NEW b \in Ledger, NEW u \in Users, NEW fee \in Nat
  PROVE /\ PayTradeFee(b, u, fee) \in Ledger
        /\ PayTradeFee(b, u, fee).frozen = b.frozen
        /\ \A e \in Denoms : Total(PayTradeFee(b, u, fee), e) = Total(b, e)
<1> DEFINE rebate == RebateAmount(u, fee)
           paid == DeductFee(b, u, fee - rebate)
<1>1. rebate \in Nat /\ fee - rebate \in Nat
  BY RebateBounds
<1>2. rebate > 0 => RefereeOf[u] \in Users
  BY BankAssumption DEF RebateAmount, Users
<1>3. PayTradeFee(b, u, fee)
      = IF rebate > 0 THEN SendCoins(paid, u, RefereeOf[u], CET, rebate) ELSE paid
  BY DEF PayTradeFee
<1>4. CET \in Denoms
  BY BankAssumption
<1> HIDE DEF rebate
<1>5. paid \in Ledger /\ paid.frozen = b.frozen /\ \A e \in Denoms : Total(paid, e) = Total(b, e)
  BY <1>1, DeductLedger, DeductTotal
<1> HIDE DEF paid
<1>6. CASE rebate > 0
  BY <1>1, <1>2, <1>3, <1>4, <1>5, <1>6, SendLedger, SendTotal
<1>7. CASE ~ (rebate > 0)
  BY <1>3, <1>5, <1>7
<1> QED BY <1>6, <1>7

LEMMA TradeFeeNat ==
  ASSUME MarketsType, NEW i \in Pairs, NEW n \in Nat, NEW diff \in Nat
  PROVE TradeFee(i, n, diff) \in Nat
<1> DEFINE v == GetMarketVolume(PairAt[i], n, diff)
           a == v.num * TradeFeeNum
           b == v.den * TradeFeeDen
<1>1. v.num \in Nat /\ v.den \in Nat \ {0}
  BY PairFacts, VolumeType
<1> HIDE DEF v
<1>2. a \in Nat /\ b \in Nat \ {0} /\ MarketFeeMin \in Nat
  BY <1>1, DexAssumption, MarketAssumption
<1>3. TradeFee(i, n, diff) = Greater(a \div b, MarketFeeMin)
  BY DEF TradeFee, v
<1> HIDE DEF a, b
<1>4. a \div b \in Nat
  BY <1>2, DivBounds
<1> QED BY <1>2, <1>3, <1>4 DEF Greater

\* a payment that is not refused
LEMMA SendMoves ==
  ASSUME NEW b \in Ledger, NEW u \in Users, NEW v \in Users, NEW d \in Denoms, NEW n \in Nat,
         u # v, ~IsForbidden(d, u), b.coins[u][d] >= n
  PROVE \A w \in Users, e \in Denoms :
          SendCoins(b, u, v, d, n).coins[w][e]
          = IF e # d THEN b.coins[w][e]
            ELSE IF w = u THEN b.coins[u][d] - n
            ELSE IF w = v THEN b.coins[v][d] + n ELSE b.coins[w][e]
<1> DEFINE c == Give(b.coins, u, d, 0 - n)
<1>1. /\ b.coins \in Balances /\ b.coins[u][d] \in Nat /\ b.coins[v][d] \in Nat
      /\ b.coins[u][d] + (0 - n) >= 0 /\ b.coins[u][d] + (0 - n) = b.coins[u][d] - n
      /\ ~ (b.coins[u][d] < n)
  BY LedgerFields
<1>2. /\ c \in Balances
      /\ \A w \in Users, e \in Denoms :
           c[w][e] = IF w = u /\ e = d THEN b.coins[u][d] - n ELSE b.coins[w][e]
  BY <1>1, GiveType
<1>3. SendCoins(b, u, v, d, n).coins = Give(c, v, d, n)
  BY <1>1 DEF SendCoins, Ledger
<1> HIDE DEF c
<1>4. c[v][d] = b.coins[v][d] /\ c[v][d] + n >= 0
  BY <1>1, <1>2
<1>5. \A w \in Users, e \in Denoms :
        Give(c, v, d, n)[w][e] = IF w = v /\ e = d THEN c[v][d] + n ELSE c[w][e]
  BY <1>2, <1>4, GiveType
<1> QED BY <1>2, <1>3, <1>4, <1>5

\* The swap moves what it moves of the owner's frozen coins, and no others.
LEMMA SwapFacts ==
  ASSUME NEW b \in Ledger, NEW u \in Users, NEW o \in Users, u # o,
         NEW d \in Denoms, NEW n \in Nat, NEW e \in Denoms, NEW m \in Nat, d # e,
         ~IsForbidden(d, u), ~IsForbidden(d, o), b.coins[u][d] >= n, b.frozen[o][e] >= m
  PROVE /\ Swap(b, u, o, d, n, e, m) \in Ledger
        /\ \A w \in Users, x \in Denoms :
             Swap(b, u, o, d, n, e, m).frozen[w][x]
             = IF w # o THEN b.frozen[w][x]
               ELSE IF x = d THEN b.frozen[w][x] + n
               ELSE IF x = e THEN b.frozen[w][x] - m ELSE b.frozen[w][x]
        /\ \A x \in Denoms : Total(Swap(b, u, o, d, n, e, m), x) = Total(b, x)
<1> DEFINE sent == SendCoins(b, u, o, d, n)
           kept == FreezeCoins(sent, o, d, n)
           freed == UnFreezeCoins(kept, o, e, m)
<1>1. sent \in Ledger /\ sent.frozen = b.frozen /\ \A x \in Denoms : Total(sent, x) = Total(b, x)
  BY SendLedger, SendTotal
<1>2. sent.coins[o][d] >= n
  BY SendMoves, LedgerFields
<1> HIDE DEF sent
<1>3. kept \in Ledger /\ \A x \in Denoms : Total(kept, x) = Total(b, x)
  BY <1>1, FreezeLedger, FreezeTotal
<1>4. \A w \in Users, x \in Denoms :
        kept.frozen[w][x] = IF w = o /\ x = d THEN b.frozen[o][d] + n ELSE b.frozen[w][x]
  BY <1>1, <1>2, FreezeFrozen
<1> HIDE DEF kept
<1>5. freed \in Ledger /\ \A x \in Denoms : Total(freed, x) = Total(b, x)
  BY <1>3, UnFreezeLedger, UnFreezeTotal
<1>6. m <= kept.frozen[o][e]
  BY <1>4, LedgerFields
<1>7. \A w \in Users, x \in Denoms :
        freed.frozen[w][x] = IF w = o /\ x = e THEN kept.frozen[o][e] - m ELSE kept.frozen[w][x]
  BY <1>3, <1>6, UnFreezeFrozen
<1>8. Swap(b, u, o, d, n, e, m) = SendCoins(freed, o, u, e, m)
  BY DEF Swap, freed, kept, sent
<1> HIDE DEF freed
<1>9. /\ Swap(b, u, o, d, n, e, m) \in Ledger
      /\ Swap(b, u, o, d, n, e, m).frozen = freed.frozen
      /\ \A x \in Denoms : Total(Swap(b, u, o, d, n, e, m), x) = Total(b, x)
  BY <1>5, <1>8, SendLedger, SendTotal
<1> QED BY <1>4, <1>7, <1>9
-----------------------------------------------------------------------------
(* The transactions *)

TotalsKept == \A d \in Denoms : Total(bank', d) = Total(bank, d)

\* nothing of the market but the ledger changes
LEMMA OnlyLedgerChanges ==
  ASSUME IInv, bank' \in Ledger, UNCHANGED bookVars
  PROVE IInv'
<1>1. OrdersSound' /\ MarketsType' /\ Live' = Live /\ \A k : Listed(k)' <=> Listed(k)
  BY DEF IInv, OrdersSound, Live, MarketsType, Listed, bookVars
<1>2. RestType' /\ BlockType'
  BY DEF IInv, RestType, BlockType, bookVars, assetVars, timeVars, blockVars, dealVars
<1>3. BookSound'
  BY DEF IInv, BookSound, OrdersOf, Live, bookVars, blockVars, dealVars
<1>4. BlockSound'
  BY <1>1 DEF IInv, BlockSound, bookVars, blockVars, dealVars
<1> QED BY <1>1, <1>2, <1>3, <1>4 DEF IInv

LEMMA BancorInitSafe ==
  ASSUME DexInv, NEW u \in Users, NEW i \in Pairs, NEW x \in Designs, NEW t \in CancelTimes,
         BancorInit(u, i, x, t)
  PROVE DexInv' /\ TotalsKept
<1> DEFINE p == NewPool(u, x, t)
           supplied == FreezeCoins(bank, u, Stock(i), x.supply)
<1>1. /\ x \in Design /\ t \in Nat /\ ValidDesign(x) /\ CreateBancorFee \in Nat
      /\ Stock(i) \in Denoms /\ bank \in Ledger /\ x.supply \in Nat
  BY DexAssumption, PairFacts, DesignFields DEF BancorInit, DexInv, IInv
<1>2. /\ pools[i] = NoPool /\ pools' = [pools EXCEPT ![i] = p]
      /\ bank' = DeductFee(supplied, u, CreateBancorFee) /\ UNCHANGED bookVars
      /\ ~IsForbidden(Stock(i), u) /\ x.supply <= bank.coins[u][Stock(i)]
      /\ imports' = imports
  <2>1. bank.coins[u][Stock(i)] \in Nat
    BY <1>1, LedgerFields
  <2> QED BY <1>1, <2>1 DEF BancorInit, HasCoins
<1>3. PoolSound(p) /\ p \in Pool /\ p.owner = u /\ p.stock = x.supply /\ p.money = 0
  <2>1. PoolSound(p)
    BY <1>1, NewPoolSound
  <2> QED BY <2>1 DEF PoolSound, NewPool
<1>4. /\ supplied \in Ledger
      /\ \A d \in Denoms : Total(supplied, d) = Total(bank, d)
      /\ \A v \in Users, d \in Denoms :
           supplied.frozen[v][d]
           = IF v = u /\ d = Stock(i) THEN bank.frozen[u][Stock(i)] + x.supply
             ELSE bank.frozen[v][d]
  BY <1>1, <1>2, FreezeLedger, FreezeTotal, FreezeFrozen, SMTT(30)
<1> HIDE DEF p, supplied
<1>5. bank' \in Ledger /\ bank'.frozen = supplied.frozen /\ TotalsKept
  BY <1>1, <1>2, <1>4, DeductLedger, DeductTotal DEF TotalsKept
<1>6. p # NoPool
  BY <1>3, PoolFields
<1>7. ASSUME NEW v \in Users, NEW d \in Denoms
      PROVE bank'.frozen[v][d]
            = bank.frozen[v][d] + Reserve(i, p, v, d) - Reserve(i, pools[i], v, d)
  <2>1. Reserve(i, pools[i], v, d) = 0
    BY <1>2 DEF Reserve
  <2>2. Reserve(i, p, v, d) = IF v = u /\ d = Stock(i) THEN x.supply ELSE 0
    BY <1>1, <1>3, <1>6 DEF Reserve
  <2>3. bank.frozen[v][d] \in Nat
    BY <1>1, LedgerFields
  <2> QED BY <1>1, <1>4, <1>5, <2>1, <2>2, <2>3
<1>8. FrozenExact'
  <2>1. orders' = orders /\ pools' = [pools EXCEPT ![i] = p] /\ p \in Pool \cup {NoPool}
    BY <1>2, <1>3 DEF bookVars
  <2> QED BY <1>7, <2>1, PoolMoves
<1>9. PoolsSound'
  BY <1>2, <1>3, OnePoolChanges DEF DexInv
<1>10. IInv'
  BY <1>2, <1>5, OnlyLedgerChanges DEF DexInv
<1> QED BY <1>2, <1>5, <1>8, <1>9, <1>10 DEF DexInv

LEMMA BancorCancelSafe ==
  ASSUME DexInv, NEW u \in Users, NEW i \in Pairs, BancorCancel(u, i)
  PROVE DexInv' /\ TotalsKept
<1> DEFINE p == pools[i]
           paid == DeductFee(bank, u, CancelBancorFee)
           freed == UnFreezeCoins(paid, u, Stock(i), p.stock)
<1>1. /\ p \in Pool /\ p # NoPool /\ p.owner = u /\ p.stock \in Nat /\ p.money \in Nat
      /\ pools' = [pools EXCEPT ![i] = NoPool]
      /\ bank' = UnFreezeCoins(freed, u, Money(i), p.money) /\ UNCHANGED bookVars
      /\ bank.frozen[u][Stock(i)] >= p.stock /\ bank.frozen[u][Money(i)] >= p.money
      /\ imports' = imports
  <2>1. p \in Pool
    BY DEF DexInv, PoolsSound, BancorCancel
  <2> QED BY <2>1, PoolFields DEF BancorCancel
<1>2. /\ bank \in Ledger /\ Stock(i) \in Denoms /\ Money(i) \in Denoms /\ Stock(i) # Money(i)
      /\ CancelBancorFee \in Nat
  BY DexAssumption, PairFacts DEF DexInv, IInv
<1>3. /\ paid \in Ledger /\ paid.frozen = bank.frozen
      /\ \A d \in Denoms : Total(paid, d) = Total(bank, d)
  BY <1>2, DeductLedger, DeductTotal
<1> HIDE DEF p, paid
<1>4. /\ p.stock <= paid.frozen[u][Stock(i)]
      /\ bank.frozen[u][Stock(i)] \in Nat /\ bank.frozen[u][Money(i)] \in Nat
  BY <1>1, <1>2, <1>3, LedgerFields
<1>5. /\ freed \in Ledger /\ \A d \in Denoms : Total(freed, d) = Total(bank, d)
      /\ \A v \in Users, d \in Denoms :
           freed.frozen[v][d]
           = IF v = u /\ d = Stock(i) THEN bank.frozen[u][Stock(i)] - p.stock
             ELSE bank.frozen[v][d]
  <2>1. freed \in Ledger /\ \A d \in Denoms : Total(freed, d) = Total(paid, d)
    BY <1>1, <1>2, <1>3, UnFreezeLedger, UnFreezeTotal
  <2>2. \A v \in Users, d \in Denoms :
          freed.frozen[v][d] = IF v = u /\ d = Stock(i) THEN paid.frozen[u][Stock(i)] - p.stock
                               ELSE paid.frozen[v][d]
    BY <1>1, <1>2, <1>3, <1>4, UnFreezeFrozen
  <2> HIDE DEF freed
  <2> QED BY <1>3, <2>1, <2>2
<1> HIDE DEF freed
<1>6. p.money <= freed.frozen[u][Money(i)]
  BY <1>1, <1>2, <1>4, <1>5
<1>7. /\ bank' \in Ledger /\ TotalsKept
      /\ \A v \in Users, d \in Denoms :
           bank'.frozen[v][d]
           = IF v = u /\ d = Money(i) THEN freed.frozen[u][Money(i)] - p.money
             ELSE freed.frozen[v][d]
  BY <1>1, <1>2, <1>5, <1>6, UnFreezeLedger, UnFreezeTotal, UnFreezeFrozen DEF TotalsKept
<1>8. ASSUME NEW v \in Users, NEW d \in Denoms
      PROVE bank'.frozen[v][d]
            = bank.frozen[v][d] + Reserve(i, NoPool, v, d) - Reserve(i, pools[i], v, d)
  <2>1. Reserve(i, NoPool, v, d) = 0
    BY DEF Reserve
  <2>2. Reserve(i, pools[i], v, d)
        = IF v # u THEN 0 ELSE IF d = Stock(i) THEN p.stock
          ELSE IF d = Money(i) THEN p.money ELSE 0
    BY <1>1, <1>2 DEF Reserve, p
  <2>3. bank.frozen[v][d] \in Nat
    BY <1>2, LedgerFields
  <2> QED BY <1>1, <1>2, <1>5, <1>7, <2>1, <2>2, <2>3
<1>9. FrozenExact'
  <2>1. orders' = orders /\ pools' = [pools EXCEPT ![i] = NoPool] /\ NoPool \in Pool \cup {NoPool}
    BY <1>1 DEF bookVars
  <2> QED BY <1>8, <2>1, PoolMoves
<1>10. PoolsSound'
  BY <1>1, OnePoolChanges DEF DexInv
<1>11. IInv'
  BY <1>1, <1>7, OnlyLedgerChanges DEF DexInv
<1> QED BY <1>1, <1>7, <1>9, <1>10, <1>11 DEF DexInv
\* what the guards of a trade leave of it
LEMMA BancorTradeFacts ==
  ASSUME DexInv, NEW u \in Users, NEW i \in Pairs, NEW isBuy \in BOOLEAN, NEW n \in Amounts,
         NEW l \in MoneyLimits, BancorTrade(u, i, isBuy, n, l)
  PROVE \E q \in Pool, fee \in Nat, diff \in Nat :
          LET p == pools[i]
              din == IF isBuy THEN Money(i) ELSE Stock(i)
              dout == IF isBuy THEN Stock(i) ELSE Money(i)
              nin == IF isBuy THEN diff ELSE n
              nout == IF isBuy THEN n ELSE diff
              paid == PayTradeFee(bank, u, fee)
          IN  /\ p \in Pool /\ p # NoPool /\ u # p.owner /\ Stock(i) # CET
              /\ pools' = [pools EXCEPT ![i] = q] /\ PoolSound(q) /\ q.owner = p.owner
              /\ q.stock = (IF isBuy THEN p.stock - n ELSE p.stock + n)
              /\ q.money = (IF isBuy THEN p.money + diff ELSE p.money - diff)
              /\ ~IsForbidden(din, u) /\ ~IsForbidden(dout, u)
              /\ ~IsForbidden(din, p.owner) /\ ~IsForbidden(dout, p.owner)
              /\ n \in Nat /\ diff > 0
              /\ bank.coins[u][CET] >= fee
              /\ RebateAmount(u, fee) > 0 => ~IsForbidden(CET, u)
              /\ paid.coins[u][din] >= nin /\ bank.frozen[p.owner][dout] >= nout
              /\ bank' = Swap(paid, u, p.owner, din, nin, dout, nout)
              /\ UNCHANGED <<bookVars, imports>>
<1> DEFINE p == pools[i]
           stock == IF isBuy THEN p.stock - n ELSE p.stock + n
           q == UpdateStockInPool(p, stock)
           diff == IF isBuy THEN q.money - p.money ELSE p.money - q.money
           fee == TradeFee(i, n, diff)
<1>1. /\ p # NoPool /\ PoolSound(p) /\ p \in Pool /\ n \in Nat
      /\ stock \in 0..p.design.supply /\ diff > 0
  BY DexAssumption DEF DexInv, PoolsSound, PoolSound, BancorTrade
<1>2. PoolSound(q) /\ q.stock = stock /\ q.owner = p.owner
  BY <1>1, MovedPoolSound
<1>3. q \in Pool /\ q.money \in Nat /\ p.money \in Nat
  BY <1>1, <1>2, PoolFields DEF PoolSound
<1>4. diff \in Nat /\ q.money = (IF isBuy THEN p.money + diff ELSE p.money - diff)
  <2> HIDE DEF q, p
  <2> QED BY <1>1, <1>3
<1>5. fee \in Nat
  <2> HIDE DEF diff
  <2> QED BY <1>1, <1>4, TradeFeeNat DEF DexInv, IInv
<1>6. /\ u # p.owner /\ Stock(i) # CET
      /\ ~SenderForbidden(PairAt[i], u) /\ ~SenderForbidden(PairAt[i], p.owner)
      /\ bank.coins[u][CET] >= fee
      /\ RebateAmount(u, fee) > 0 => ~IsForbidden(CET, u)
      /\ HasCoins(PayTradeFee(bank, u, fee), u, IF isBuy THEN Money(i) ELSE Stock(i),
                  IF isBuy THEN diff ELSE n)
      /\ bank.frozen[p.owner][IF isBuy THEN Stock(i) ELSE Money(i)] >= IF isBuy THEN n ELSE diff
      /\ bank' = Swap(PayTradeFee(bank, u, fee), u, p.owner,
                      IF isBuy THEN Money(i) ELSE Stock(i), IF isBuy THEN diff ELSE n,
                      IF isBuy THEN Stock(i) ELSE Money(i), IF isBuy THEN n ELSE diff)
      /\ pools' = [pools EXCEPT ![i] = q]
      /\ UNCHANGED <<bookVars, imports>>
  BY DEF BancorTrade, HasCoins
<1>7. \A v : ~SenderForbidden(PairAt[i], v) =>
               ~IsForbidden(Stock(i), v) /\ ~IsForbidden(Money(i), v)
  BY DEF SenderForbidden, Stock, Money
<1> HIDE DEF p, stock, q, diff, fee
<1>8. stock = (IF isBuy THEN p.stock - n ELSE p.stock + n)
  BY DEF stock
<1> q \in Pool /\ fee \in Nat /\ diff \in Nat
  BY <1>3, <1>4, <1>5
<1> WITNESS q \in Pool, fee \in Nat, diff \in Nat
<1> QED BY <1>1, <1>2, <1>3, <1>4, <1>5, <1>6, <1>7, <1>8 DEF HasCoins, p

LEMMA BancorTradeSafe ==
  ASSUME DexInv, NEW u \in Users, NEW i \in Pairs, NEW isBuy \in BOOLEAN, NEW n \in Amounts,
         NEW l \in MoneyLimits, BancorTrade(u, i, isBuy, n, l)
  PROVE DexInv' /\ TotalsKept
<1> DEFINE p == pools[i]
           din == IF isBuy THEN Money(i) ELSE Stock(i)
           dout == IF isBuy THEN Stock(i) ELSE Money(i)
<1>1. PICK q \in Pool, fee \in Nat, diff \in Nat :
        LET nin == IF isBuy THEN diff ELSE n
            nout == IF isBuy THEN n ELSE diff
            paid == PayTradeFee(bank, u, fee)
        IN  /\ p \in Pool /\ p # NoPool /\ u # p.owner
            /\ pools' = [pools EXCEPT ![i] = q] /\ PoolSound(q) /\ q.owner = p.owner
            /\ q.stock = (IF isBuy THEN p.stock - n ELSE p.stock + n)
            /\ q.money = (IF isBuy THEN p.money + diff ELSE p.money - diff)
            /\ ~IsForbidden(din, u) /\ ~IsForbidden(din, p.owner)
            /\ n \in Nat
            /\ paid.coins[u][din] >= nin /\ bank.frozen[p.owner][dout] >= nout
            /\ bank' = Swap(paid, u, p.owner, din, nin, dout, nout)
            /\ UNCHANGED <<bookVars, imports>>
  BY BancorTradeFacts
<1> DEFINE nin == IF isBuy THEN diff ELSE n
           nout == IF isBuy THEN n ELSE diff
           paid == PayTradeFee(bank, u, fee)
<1>2. /\ p.owner \in Users /\ p.stock \in Nat /\ p.money \in Nat
      /\ q # NoPool /\ q.stock \in Nat /\ q.money \in Nat
      /\ nin \in Nat /\ nout \in Nat /\ bank \in Ledger
      /\ Stock(i) \in Denoms /\ Money(i) \in Denoms /\ Stock(i) # Money(i)
  BY <1>1, PoolFields, PairFacts DEF DexInv, IInv
<1>3. /\ paid \in Ledger /\ paid.frozen = bank.frozen
      /\ \A d \in Denoms : Total(paid, d) = Total(bank, d)
  BY <1>2, PayTradeFeeFacts
<1>4. din \in Denoms /\ dout \in Denoms /\ din # dout
  BY <1>2
<1>5. /\ ~IsForbidden(din, u) /\ ~IsForbidden(din, p.owner) /\ u # p.owner
      /\ paid.coins[u][din] >= nin /\ paid.frozen[p.owner][dout] >= nout
      /\ bank' = Swap(paid, u, p.owner, din, nin, dout, nout)
  BY <1>1, <1>3
<1> HIDE DEF p, paid, din, dout, nin, nout
<1>6. /\ bank' \in Ledger
      /\ \A w \in Users, x \in Denoms :
           bank'.frozen[w][x]
           = IF w # p.owner THEN paid.frozen[w][x]
             ELSE IF x = din THEN paid.frozen[w][x] + nin
             ELSE IF x = dout THEN paid.frozen[w][x] - nout ELSE paid.frozen[w][x]
      /\ \A x \in Denoms : Total(bank', x) = Total(paid, x)
  <2> DEFINE o == p.owner
             swapped == Swap(paid, u, o, din, nin, dout, nout)
  <2>0. /\ paid \in Ledger /\ o \in Users /\ u # o
        /\ din \in Denoms /\ nin \in Nat /\ dout \in Denoms /\ nout \in Nat /\ din # dout
        /\ ~IsForbidden(din, u) /\ ~IsForbidden(din, o)
        /\ paid.coins[u][din] >= nin /\ paid.frozen[o][dout] >= nout
        /\ bank' = swapped
    BY <1>2, <1>3, <1>4, <1>5
  <2> HIDE DEF o
  <2>1. /\ swapped \in Ledger
        /\ \A w \in Users, x \in Denoms :
             swapped.frozen[w][x]
             = IF w # o THEN paid.frozen[w][x]
               ELSE IF x = din THEN paid.frozen[w][x] + nin
               ELSE IF x = dout THEN paid.frozen[w][x] - nout ELSE paid.frozen[w][x]
        /\ \A x \in Denoms : Total(swapped, x) = Total(paid, x)
    BY <2>0, SwapFacts
  <2> HIDE DEF swapped
  <2> QED BY <2>0, <2>1 DEF o
<1>7. ASSUME NEW v \in Users, NEW d \in Denoms
      PROVE bank'.frozen[v][d]
            = bank.frozen[v][d] + Reserve(i, q, v, d) - Reserve(i, pools[i], v, d)
  <2>1. bank.frozen[v][d] \in Nat
    BY <1>2, LedgerFields
  <2>2. Reserve(i, q, v, d) = IF v # p.owner THEN 0 ELSE IF d = Stock(i) THEN q.stock
                              ELSE IF d = Money(i) THEN q.money ELSE 0
    BY <1>1, <1>2 DEF Reserve
  <2>3. Reserve(i, pools[i], v, d)
        = IF v # p.owner THEN 0 ELSE IF d = Stock(i) THEN p.stock
          ELSE IF d = Money(i) THEN p.money ELSE 0
    BY <1>1, <1>2 DEF Reserve, p
  <2>4. CASE isBuy
    <3>1. q.stock = p.stock - n /\ q.money = p.money + diff /\ din = Money(i) /\ dout = Stock(i)
          /\ nin = diff /\ nout = n /\ n \in Nat
      BY <1>1, <2>4 DEF din, dout, nin, nout
    <3> QED BY <1>2, <1>3, <1>6, <2>1, <2>2, <2>3, <3>1
  <2>5. CASE ~isBuy
    <3>1. q.stock = p.stock + n /\ q.money = p.money - diff /\ din = Stock(i) /\ dout = Money(i)
          /\ nin = n /\ nout = diff /\ n \in Nat
      BY <1>1, <2>5 DEF din, dout, nin, nout
    <3> QED BY <1>2, <1>3, <1>6, <2>1, <2>2, <2>3, <3>1
  <2> QED BY <2>4, <2>5
<1>8. FrozenExact'
  <2>1. orders' = orders /\ pools' = [pools EXCEPT ![i] = q] /\ q \in Pool \cup {NoPool}
    BY <1>1 DEF bookVars
  <2> QED BY <1>7, <2>1, PoolMoves
<1>9. PoolsSound'
  BY <1>1, OnePoolChanges DEF DexInv
<1>10. IInv'
  BY <1>1, <1>6, OnlyLedgerChanges DEF DexInv
<1> QED BY <1>1, <1>3, <1>6, <1>8, <1>9, <1>10 DEF DexInv, TotalsKept

LEMMA RestartSafe ==
  ASSUME DexInv, Restart
  PROVE DexInv' /\ TotalsKept
<1>1. bank' = bank /\ orders' = orders /\ markets' = markets /\ pools' = pools
  BY DEF Restart
<1>2. bank' \in Ledger /\ OrdersSound' /\ MarketsType' /\ Live' = Live
      /\ \A k : Listed(k)' <=> Listed(k)
  BY <1>1, OnlyBlockChanges DEF DexInv
<1>3. RestType'
  BY DEF DexInv, IInv, RestType, Restart, FlaggedAtImport, assetVars, NoRequest
<1>4. BlockType'
  BY DEF DexInv, IInv, BlockType, Restart, dealVars
<1>5. mkt' = NoMarket /\ todo' = {}
  BY DEF DexInv, IInv, BlockSound, Restart, dealVars
<1>6. BookSound'
  BY <1>5 DEF BookSound
<1>7. BlockSound'
  BY <1>2, <1>5 DEF BlockSound, Restart
<1>8. IInv'
  BY <1>2, <1>3, <1>4, <1>6, <1>7 DEF IInv
<1>9. PoolsSound' /\ FrozenExact' /\ imports' \in Nat
  BY <1>1 DEF DexInv, PoolsSound, FrozenExact, InOrders, Reserves, Restart
<1> QED BY <1>1, <1>8, <1>9 DEF DexInv, TotalsKept
-----------------------------------------------------------------------------
(* The theorems *)

LEMMA InitDexInv == DexInit => DexInv
<1> SUFFICES ASSUME DexInit PROVE DexInv
  OBVIOUS
<1>1. IInv
  BY InitIInv DEF DexInit
<1>2. PoolsSound
  BY DEF DexInit, PoolsSound
<1>3. ASSUME NEW u \in Users, NEW d \in Denoms PROVE Unheld(u, d) = Reserves(u, d)
  <2>1. Unheld(u, d) = 0
    BY <1>1, InitEscrow, EscrowExactMeaning DEF DexInit
  <2>2. \A i \in 1..NumPairs : Held(pools, u, d)[i] = 0
    BY DEF DexInit, Held, Reserve, Pairs
  <2>3. NumPairs \in Nat
    BY DexAssumption
  <2>4. SumTo(Held(pools, u, d), NumPairs) = 0
    BY <2>2, <2>3, SumOfZeros
  <2> QED BY <1>2, <2>1, <2>4, ReservesNat
<1>4. FrozenExact
  BY <1>1, <1>2, <1>3, FrozenExactMeaning
<1> QED BY <1>1, <1>2, <1>4 DEF DexInv, DexInit

LEMMA NextDexInv == DexInv /\ [DexNext]_dexVars => DexInv' /\ TotalsKept
<1> SUFFICES ASSUME DexInv, [DexNext]_dexVars PROVE DexInv' /\ TotalsKept
  OBVIOUS
<1>1. CASE [Next]_vars /\ UNCHANGED <<pools, imports>>
  <2>1. IInv'
    BY <1>1, NextIInv DEF DexInv
  <2>2. FrozenExact'
    BY <1>1, <2>1, MarketKeepsReserves
  <2>3. PoolsSound' /\ imports' \in Nat
    BY <1>1 DEF DexInv, PoolsSound
  <2>4. TotalsKept
    BY <1>1, SameTotals DEF DexInv, TotalsKept
  <2> QED BY <2>1, <2>2, <2>3, <2>4 DEF DexInv
<1>2. CASE PoolTransaction
  BY <1>2, BancorInitSafe, BancorCancelSafe, BancorTradeSafe DEF PoolTransaction
<1>3. CASE Restart
  BY <1>3, RestartSafe
<1> QED BY <1>1, <1>2, <1>3 DEF DexNext, dexVars

\* Whatever orders, pools, deals and restarts there are, in any order, the state
\* of the exchange and of its pools satisfies the inductive invariant.
THEOREM DexInvariantHolds == DexSpec => []DexInv
BY InitDexInv, NextDexInv, PTL DEF DexSpec

\* The frozen coins of an account are exactly what its orders and its pools hold:
\* neither module's calls can take what the other one has frozen in the same
\* number, for any number of pairs and any designs (endblocker.go:101, 173,
\* bancorlite/handler.go:119, 299).
THEOREM FrozenAlwaysExact == DexSpec => []FrozenExact
<1>1. DexInv => FrozenExact
  BY DEF DexInv
<1> QED BY DexInvariantHolds, <1>1, PTL

\* A pool is where its curve has it for the stock it has sold, after any trades:
\* no series of buys and sells leaves a rounding behind (bancor_info.go:33).
THEOREM PoolAlwaysOnCurve == DexSpec => []PoolOnCurve
<1>1. DexInv => PoolOnCurve
  BY DEF DexInv, PoolsSound, PoolSound, PoolOnCurve
<1> QED BY DexInvariantHolds, <1>1, PTL

\* Of any valid design, with any table whose rows rise from 0 to the top, the curve
\* never falls and begins and ends where the owner asked (bancor_info.go:39-71).
THEOREM CurveAlwaysMonotone == DexSpec => []CurveMonotone
<1>1. ASSUME DexInv, NEW i \in Pairs, pools[i] # NoPool
      PROVE LET x == pools[i].design
                m(n) == MoneyAt(x, pools[i].ar, n)
                pr(n) == PriceAt(x, pools[i].ar, n)
            IN  /\ \A n \in 1..x.supply : m(n - 1) <= m(n) /\ pr(n - 1) <= pr(n)
                /\ m(0) = 0 /\ pr(0) = x.init /\ pr(x.supply) = x.max
                /\ x.maxMoney # 0 => m(x.supply) = x.maxMoney
  <2> DEFINE x == pools[i].design
             ar == pools[i].ar
  <2>1. x \in Design /\ ValidDesign(x) /\ ar = CalculateAR(x)
    BY <1>1, PoolFields DEF DexInv, PoolsSound, PoolSound
  <2>2. x.supply \in Nat
    BY <2>1, DesignFields
  <2> HIDE DEF x, ar
  <2>3. \A n \in 1..x.supply : n - 1 \in 0..x.supply /\ n \in 0..x.supply /\ n - 1 <= n
    BY <2>2
  <2>4. /\ \A n \in 1..x.supply : /\ MoneyAt(x, ar, n - 1) <= MoneyAt(x, ar, n)
                                  /\ PriceAt(x, ar, n - 1) <= PriceAt(x, ar, n)
        /\ MoneyAt(x, ar, 0) = 0 /\ PriceAt(x, ar, 0) = x.init
        /\ PriceAt(x, ar, x.supply) = x.max
        /\ x.maxMoney # 0 => MoneyAt(x, ar, x.supply) = x.maxMoney
    BY <2>1, <2>3, CurveFacts
  <2> QED BY <2>4 DEF x, ar
<1>2. DexInv => CurveMonotone
  BY <1>1 DEF CurveMonotone
<1> QED BY DexInvariantHolds, <1>2, PTL

\* Every pool on a sloped line passes the check of the genesis file it is exported
\* to: BancorInfo.IsConsistent repeats the formula of the line (genesis.go:94).
THEOREM LinePoolsAlwaysExportable == DexSpec => []LinePoolsExportable
<1>1. ASSUME DexInv, NEW i \in Pairs, pools[i] # NoPool, pools[i].design.maxMoney = 0,
             pools[i].design.init # pools[i].design.max
      PROVE IsConsistent(pools[i])
  <2>1. PoolSound(pools[i]) /\ pools[i].design \in Design
    BY <1>1, PoolFields DEF DexInv, PoolsSound, PoolSound
  <2>2. pools[i].ar = 0
    BY <1>1, <2>1, DesignFacts DEF PoolSound
  <2> QED BY <1>1, <2>1, <2>2 DEF PoolSound, IsConsistent, PriceAt, MoneyAt
<1>2. DexInv => LinePoolsExportable
  BY <1>1 DEF LinePoolsExportable
<1> QED BY DexInvariantHolds, <1>2, PTL

\* With the pools, too, no operation makes or destroys coins.
THEOREM DexCoinsConserved == DexSpec => []Conservation
<1>1. DexInit => Conservation
  BY InitConservation DEF DexInit
<1>2. Conservation /\ TotalsKept => Conservation'
  BY DEF Conservation, TotalsKept
<1> QED BY <1>1, <1>2, NextDexInv, DexInvariantHolds, PTL DEF DexSpec
-----------------------------------------------------------------------------
(* What a trade pays to whom *)

\* The fee touches CET only; nobody but the payer has less after it.
LEMMA PayTradeFeeCoins ==
  ASSUME NEW b \in Ledger, NEW u \in Users, NEW fee \in Nat
  PROVE \A w \in Users, e \in Denoms :
          /\ e # CET => PayTradeFee(b, u, fee).coins[w][e] = b.coins[w][e]
          /\ w # u => PayTradeFee(b, u, fee).coins[w][e] >= b.coins[w][e]
          /\ PayTradeFee(b, u, fee).coins[u][e] <= b.coins[u][e]
<1> DEFINE rebate == RebateAmount(u, fee)
           part == fee - rebate
           r == RefereeOf[u]
           paid == DeductFee(b, u, part)
           c == Give(paid.coins, u, CET, 0 - rebate)
<1>1. rebate \in Nat /\ part \in Nat /\ CET \in Denoms /\ (rebate > 0 => r \in Users)
  BY RebateBounds, BankAssumption DEF RebateAmount, Users
<1>2. PayTradeFee(b, u, fee) = IF rebate > 0 THEN SendCoins(paid, u, r, CET, rebate) ELSE paid
  BY DEF PayTradeFee
<1> HIDE DEF rebate, part, r
<1>3. /\ paid \in Ledger
      /\ \A w \in Users, e \in Denoms :
           paid.coins[w][e] = b.coins[w][e]
           \/ (w = u /\ e = CET /\ paid.coins[w][e] = b.coins[w][e] - part)
  <2>1. paid \in Ledger
    BY <1>1, DeductLedger
  <2>2. CASE b.coins[u][CET] < part
    BY <2>1, <2>2 DEF DeductFee
  <2>3. CASE ~ (b.coins[u][CET] < part)
    <3>1. b.coins[u][CET] + (0 - part) >= 0
          /\ b.coins[u][CET] + (0 - part) = b.coins[u][CET] - part
      BY <1>1, <2>3, LedgerFields
    <3>2. paid.coins = Give(b.coins, u, CET, 0 - part)
      BY <2>3 DEF DeductFee, Ledger
    <3>3. \A w \in Users, e \in Denoms :
            Give(b.coins, u, CET, 0 - part)[w][e]
            = IF w = u /\ e = CET THEN b.coins[u][CET] + (0 - part) ELSE b.coins[w][e]
      BY <1>1, <3>1, LedgerFields, GiveType
    <3> QED BY <2>1, <3>1, <3>2, <3>3
  <2> QED BY <2>2, <2>3
<1>4. ASSUME NEW w \in Users, NEW e \in Denoms
      PROVE b.coins[w][e] \in Nat /\ b.coins[u][e] \in Nat
            /\ paid.coins[w][e] \in Nat /\ paid.coins[u][e] \in Nat
  BY <1>3, <1>4, LedgerFields
<1> HIDE DEF paid
<1>5. CASE ~ (rebate > 0 /\ ~IsForbidden(CET, u) /\ paid.coins[u][CET] >= rebate)
  <2>1. PayTradeFee(b, u, fee) = paid
    <3>1. paid.coins[u][CET] \in Nat
      BY <1>1, <1>4
    <3> QED BY <1>1, <1>2, <1>5, <3>1 DEF SendCoins
  <2> QED BY <1>1, <1>3, <1>4, <2>1
<1>6. CASE rebate > 0 /\ ~IsForbidden(CET, u) /\ paid.coins[u][CET] >= rebate
  <2>1. /\ paid.coins[u][CET] + (0 - rebate) >= 0 /\ r \in Users /\ paid.coins \in Balances
        /\ paid.coins[u][CET] \in Nat
    BY <1>1, <1>3, <1>4, <1>6, LedgerFields
  <2>2. /\ c \in Balances
        /\ \A w \in Users, e \in Denoms :
             c[w][e] = IF w = u /\ e = CET THEN paid.coins[u][CET] + (0 - rebate)
                       ELSE paid.coins[w][e]
    BY <1>1, <2>1, GiveType
  <2>3. PayTradeFee(b, u, fee).coins = Give(c, r, CET, rebate)
    <3>1. ~ (paid.coins[u][CET] < rebate)
      BY <1>1, <1>6, <2>1
    <3> QED BY <1>2, <1>3, <1>6, <3>1 DEF SendCoins, Ledger
  <2> HIDE DEF c
  <2>4. c[r][CET] \in Nat /\ c[r][CET] + rebate >= 0
    BY <1>1, <2>1, <2>2 DEF Balances
  <2>5. \A w \in Users, e \in Denoms :
          Give(c, r, CET, rebate)[w][e] = IF w = r /\ e = CET THEN c[r][CET] + rebate ELSE c[w][e]
    BY <1>1, <2>1, <2>2, <2>4, GiveType
  <2>6. ASSUME NEW w \in Users, NEW e \in Denoms
        PROVE /\ e # CET => Give(c, r, CET, rebate)[w][e] = b.coins[w][e]
              /\ w # u => Give(c, r, CET, rebate)[w][e] >= b.coins[w][e]
              /\ Give(c, r, CET, rebate)[u][e] <= b.coins[u][e]
    <3>1. /\ e # CET => Give(c, r, CET, rebate)[w][e] = b.coins[w][e]
          /\ w # u => Give(c, r, CET, rebate)[w][e] >= b.coins[w][e]
      BY <1>1, <1>3, <1>4, <2>1, <2>2, <2>5
    <3>2. Give(c, r, CET, rebate)[u][e] <= b.coins[u][e]
      BY <1>1, <1>3, <1>4, <2>1, <2>2, <2>5
    <3> QED BY <3>1, <3>2
  <2> QED BY <2>3, <2>6
<1> QED BY <1>5, <1>6

\* The owner of the pool ends with the spendable coins he began with.
LEMMA SwapCoins ==
  ASSUME NEW b \in Ledger, NEW u \in Users, NEW o \in Users, u # o,
         NEW d \in Denoms, NEW n \in Nat, NEW e \in Denoms, NEW m \in Nat, d # e,
         ~IsForbidden(d, u), ~IsForbidden(d, o), ~IsForbidden(e, o),
         b.coins[u][d] >= n, b.frozen[o][e] >= m
  PROVE /\ \A x \in Denoms : Swap(b, u, o, d, n, e, m).coins[o][x] = b.coins[o][x]
        /\ Swap(b, u, o, d, n, e, m).coins[u][d] = b.coins[u][d] - n
        /\ Swap(b, u, o, d, n, e, m).coins[u][e] = b.coins[u][e] + m
<1> DEFINE sent == SendCoins(b, u, o, d, n)
           kept == FreezeCoins(sent, o, d, n)
           freed == UnFreezeCoins(kept, o, e, m)
<1>0. \A w \in Users, x \in Denoms : b.coins[w][x] \in Nat /\ b.frozen[w][x] \in Nat
  BY LedgerFields
<1>1. /\ sent \in Ledger /\ sent.frozen = b.frozen
      /\ \A w \in Users, x \in Denoms :
           sent.coins[w][x] = IF x # d THEN b.coins[w][x] ELSE IF w = u THEN b.coins[u][d] - n
                              ELSE IF w = o THEN b.coins[o][d] + n ELSE b.coins[w][x]
  BY SendLedger, SendMoves
<1>2. n <= sent.coins[o][d]
  BY <1>0, <1>1
<1> HIDE DEF sent
<1>3. /\ kept \in Ledger
      /\ \A w \in Users, x \in Denoms :
           /\ kept.frozen[w][x] = IF w = o /\ x = d THEN sent.frozen[o][d] + n ELSE sent.frozen[w][x]
           /\ kept.coins[w][x] = IF w = o /\ x = d THEN sent.coins[o][d] - n ELSE sent.coins[w][x]
  <2>1. kept \in Ledger
    BY <1>1, FreezeLedger
  <2> QED BY <1>1, <1>2, <2>1, FreezeFrozen
<1> HIDE DEF kept
<1>4. /\ kept.coins[o][e] = b.coins[o][e] /\ kept.coins[o][d] = b.coins[o][d]
      /\ \A x \in Denoms : kept.coins[o][x] = b.coins[o][x]
      /\ kept.coins[u][d] = b.coins[u][d] - n /\ kept.coins[u][e] = b.coins[u][e]
      /\ kept.frozen[o][e] >= m
  BY <1>0, <1>1, <1>3
<1>5. freed \in Ledger
  BY <1>3, UnFreezeLedger
<1>6. \A w \in Users, x \in Denoms :
        freed.coins[w][x] = IF w = o /\ x = e THEN kept.coins[o][e] + m ELSE kept.coins[w][x]
  <2>1. kept.coins \in Balances /\ kept.coins[o][e] + m >= 0 /\ ~ (kept.frozen[o][e] < m)
    BY <1>0, <1>3, <1>4, LedgerFields
  <2>2. freed.coins = Give(kept.coins, o, e, m)
    BY <1>3, <2>1 DEF UnFreezeCoins, Ledger
  <2> HIDE DEF freed
  <2> QED BY <2>1, <2>2, GiveType
<1>7. Swap(b, u, o, d, n, e, m) = SendCoins(freed, o, u, e, m)
  BY DEF Swap, freed, kept, sent
<1> HIDE DEF freed
<1>8. freed.coins[o][e] >= m
  BY <1>0, <1>4, <1>6
<1>9. \A w \in Users, x \in Denoms :
        SendCoins(freed, o, u, e, m).coins[w][x]
        = IF x # e THEN freed.coins[w][x] ELSE IF w = o THEN freed.coins[o][e] - m
          ELSE IF w = u THEN freed.coins[u][e] + m ELSE freed.coins[w][x]
  BY <1>5, <1>8, SendMoves
<1> QED BY <1>0, <1>4, <1>6, <1>7, <1>9
LEMMA BancorTradeDelivers ==
  ASSUME DexInv, NEW u \in Users, NEW i \in Pairs, NEW isBuy \in BOOLEAN, NEW n \in Amounts,
         NEW l \in MoneyLimits, BancorTrade(u, i, isBuy, n, l)
  PROVE Delivers(i) /\ \A j \in Pairs \ {i} : pools'[j] = pools[j]
<1> DEFINE p == pools[i]
           din == IF isBuy THEN Money(i) ELSE Stock(i)
           dout == IF isBuy THEN Stock(i) ELSE Money(i)
           o == p.owner
<1>1. PICK q \in Pool, fee \in Nat, diff \in Nat :
        LET nin == IF isBuy THEN diff ELSE n
            nout == IF isBuy THEN n ELSE diff
            paid == PayTradeFee(bank, u, fee)
        IN  /\ p \in Pool /\ u # o /\ Stock(i) # CET
            /\ pools' = [pools EXCEPT ![i] = q]
            /\ q.stock = (IF isBuy THEN p.stock - n ELSE p.stock + n)
            /\ q.money = (IF isBuy THEN p.money + diff ELSE p.money - diff)
            /\ ~IsForbidden(din, u) /\ ~IsForbidden(din, o) /\ ~IsForbidden(dout, o)
            /\ n \in Nat
            /\ paid.coins[u][din] >= nin /\ bank.frozen[o][dout] >= nout
            /\ bank' = Swap(paid, u, o, din, nin, dout, nout)
  BY BancorTradeFacts
<1> DEFINE nin == IF isBuy THEN diff ELSE n
           nout == IF isBuy THEN n ELSE diff
           paid == PayTradeFee(bank, u, fee)
<1>2. /\ o \in Users /\ p.stock \in Nat /\ p.money \in Nat
      /\ nin \in Nat /\ nout \in Nat /\ bank \in Ledger
      /\ Stock(i) \in Denoms /\ Money(i) \in Denoms /\ Stock(i) # Money(i)
  BY <1>1, PoolFields, PairFacts DEF DexInv, IInv
<1>3. /\ paid \in Ledger /\ paid.frozen = bank.frozen
      /\ \A w \in Users, e \in Denoms :
           /\ e # CET => paid.coins[w][e] = bank.coins[w][e]
           /\ w # u => paid.coins[w][e] >= bank.coins[w][e]
           /\ paid.coins[u][e] <= bank.coins[u][e]
  BY <1>2, PayTradeFeeFacts, PayTradeFeeCoins
<1>4. din \in Denoms /\ dout \in Denoms /\ din # dout
  BY <1>2
<1>5. /\ ~IsForbidden(din, u) /\ ~IsForbidden(din, o) /\ ~IsForbidden(dout, o) /\ u # o
      /\ paid.coins[u][din] >= nin /\ paid.frozen[o][dout] >= nout
      /\ bank' = Swap(paid, u, o, din, nin, dout, nout)
  BY <1>1, <1>3
<1>6. /\ pools'[i] = q /\ \A j \in Pairs \ {i} : pools'[j] = pools[j]
  BY <1>1 DEF DexInv, PoolsSound
<1> HIDE DEF p, o, paid, din, dout, nin, nout
<1>7. /\ \A x \in Denoms : bank'.coins[o][x] = paid.coins[o][x]
      /\ bank'.coins[u][din] = paid.coins[u][din] - nin
      /\ bank'.coins[u][dout] = paid.coins[u][dout] + nout
  BY <1>2, <1>3, <1>4, <1>5, SwapCoins, SMTT(30)
<1>8. bank' \in Ledger /\ \A x \in Denoms : bank'.frozen[u][x] = bank.frozen[u][x]
  BY <1>2, <1>3, <1>4, <1>5, SwapFacts, SMTT(30)
<1>9. \A w \in Users, x \in Denoms :
        /\ bank.coins[w][x] \in Nat /\ bank.frozen[w][x] \in Nat
        /\ paid.coins[w][x] \in Nat /\ bank'.coins[w][x] \in Nat
  BY <1>2, <1>3, <1>8, LedgerFields
<1>10. /\ bank'.coins[u][Stock(i)] - bank.coins[u][Stock(i)] = p.stock - q.stock
       /\ bank'.coins[u][Money(i)] = paid.coins[u][Money(i)] - (q.money - p.money)
  <2>1. paid.coins[u][Stock(i)] = bank.coins[u][Stock(i)]
    BY <1>1, <1>2, <1>3
  <2>2. CASE isBuy
    <3>1. q.stock = p.stock - n /\ q.money = p.money + diff /\ din = Money(i) /\ dout = Stock(i)
          /\ nin = diff /\ nout = n /\ n \in Nat /\ diff \in Nat
      BY <1>1, <2>2 DEF din, dout, nin, nout
    <3> QED BY <1>2, <1>7, <1>9, <2>1, <3>1
  <2>3. CASE ~isBuy
    <3>1. q.stock = p.stock + n /\ q.money = p.money - diff /\ din = Stock(i) /\ dout = Money(i)
          /\ nin = n /\ nout = diff /\ n \in Nat /\ diff \in Nat
      BY <1>1, <2>3 DEF din, dout, nin, nout
    <3> QED BY <1>2, <1>7, <1>9, <2>1, <3>1
  <2> QED BY <2>2, <2>3
<1>11. q.money - p.money \in Int
  BY <1>2, PoolFields
<1>12. /\ bank'.coins[o][Stock(i)] - bank.coins[o][Stock(i)] = 0
       /\ bank'.coins[o][Money(i)] - bank.coins[o][Money(i)] >= 0
       /\ Money(i) # CET => bank'.coins[o][Money(i)] - bank.coins[o][Money(i)] = 0
  BY <1>1, <1>2, <1>3, <1>5, <1>7, <1>9
<1>13. IF Money(i) = CET THEN bank'.coins[u][CET] - bank.coins[u][CET] <= 0 - (q.money - p.money)
       ELSE bank'.coins[u][Money(i)] - bank.coins[u][Money(i)] = 0 - (q.money - p.money)
  <2> DEFINE k == q.money - p.money
             a == bank.coins[u][Money(i)]
             b == paid.coins[u][Money(i)]
             c == bank'.coins[u][Money(i)]
  <2>1. k \in Int /\ a \in Nat /\ b \in Nat /\ c \in Nat /\ c = b - k /\ b <= a
        /\ (Money(i) # CET => b = a)
    BY <1>2, <1>3, <1>9, <1>10, <1>11
  <2> HIDE DEF k, a, b, c
  <2>2. c - a <= 0 - k /\ (Money(i) # CET => c - a = 0 - k)
    BY <2>1
  <2> QED BY <2>2 DEF k, a, b, c
<1>14. \A d \in {Stock(i), Money(i)} :
         Holding(bank', u, d) - Holding(bank, u, d) = bank'.coins[u][d] - bank.coins[u][d]
  BY <1>2, <1>8, <1>9 DEF Holding
<1>15. Delivers(i)
  BY <1>5, <1>6, <1>10, <1>12, <1>13, <1>14 DEF Delivers, p, o
<1> QED BY <1>6, <1>15

\* A trade pays the pool, not its owner, and one other account gets exactly what
\* the pool gives, less the fee, for any two designs and any referees
\* (bancorlite/handler.go:291-306).
THEOREM TradeAlwaysDelivers == DexSpec => TradeDelivers
<1>1. ASSUME DexInv, [DexNext]_dexVars, NEW i \in Pairs,
             pools[i] # NoPool, pools'[i] # NoPool, pools'[i] # pools[i]
      PROVE Delivers(i)
  <2>1. CASE UNCHANGED pools
    BY <1>1, <2>1
  <2>2. ASSUME NEW u \in Users, NEW j \in Pairs, NEW x \in Designs, NEW t \in CancelTimes,
               BancorInit(u, j, x, t)
        PROVE Delivers(i)
    BY <1>1, <2>2 DEF BancorInit, DexInv, PoolsSound
  <2>3. ASSUME NEW u \in Users, NEW j \in Pairs, BancorCancel(u, j)
        PROVE Delivers(i)
    BY <1>1, <2>3 DEF BancorCancel, DexInv, PoolsSound
  <2>4. ASSUME NEW u \in Users, NEW j \in Pairs, NEW isBuy \in BOOLEAN, NEW n \in Amounts,
               NEW l \in MoneyLimits, BancorTrade(u, j, isBuy, n, l)
        PROVE Delivers(i)
    BY <1>1, <2>4, BancorTradeDelivers
  <2> QED BY <1>1, <2>1, <2>2, <2>3, <2>4 DEF DexNext, PoolTransaction, Restart, dexVars
<1>2. DexInv /\ [DexNext]_dexVars =>
        [\A i \in Pairs : pools[i] # NoPool /\ pools'[i] # NoPool /\ pools'[i] # pools[i]
                            => Delivers(i)]_dexVars
  BY <1>1
<1> QED BY DexInvariantHolds, <1>2, PTL DEF DexSpec, TradeDelivers
-----------------------------------------------------------------------------
(* Matching, with pools and restarts *)

\* What makes matching the flagged markets only enough.
NoneLeft == NoneForbidden /\ NoneCross /\ ListsComplete

\* A pool's transaction changes ledger and pools.
LEMMA PoolsLeaveBook == PoolTransaction => UNCHANGED <<bookVars, imports>>
<1>1. \A u \in Users, i \in Pairs, x \in Designs, t \in CancelTimes :
        BancorInit(u, i, x, t) => UNCHANGED <<bookVars, imports>>
  BY DEF BancorInit
<1>2. \A u \in Users, i \in Pairs : BancorCancel(u, i) => UNCHANGED <<bookVars, imports>>
  BY DEF BancorCancel
<1>3. \A u \in Users, i \in Pairs, isBuy \in BOOLEAN, n \in Amounts, l \in MoneyLimits :
        BancorTrade(u, i, isBuy, n, l) => UNCHANGED <<bookVars, imports>>
  BY DEF BancorTrade
<1> QED BY <1>1, <1>2, <1>3 DEF PoolTransaction

LEMMA PoolsKeepMatching ==
  ASSUME UNCHANGED bookVars
  PROVE /\ MatchInv => MatchInv'
        /\ NoneLeft => NoneLeft'
<1>1. /\ orders' = orders /\ newly' = newly /\ phase' = phase /\ addrForbidden' = addrForbidden
      /\ tokenForbidden' = tokenForbidden /\ pending' = pending /\ todo' = todo
      /\ mkt' = mkt /\ bidList' = bidList /\ askList' = askList /\ price' = price
  BY DEF bookVars, assetVars, blockVars, dealVars
<1>2. MatchInv => MatchInv'
  BY <1>1 DEF MatchInv, UsedUpWaits, DealtMarkets, ListsSorted, ListsAlive, PriceIsBest,
              BookVolume, ListPrices, ListAmounts, InList, Live
<1>3. NoneLeft => NoneLeft'
  BY <1>1 DEF NoneLeft, NoneForbidden, TokensForbidden, NoneCross, Crosses, ListsComplete,
              Bids, Asks, OrdersOf, Live, InList
<1> QED BY <1>2, <1>3

\* A restart comes between blocks, when nothing is being matched, and flags every
\* market that has orders.
LEMMA RestartKeepsMatching ==
  ASSUME DexInv, Restart
  PROVE /\ MatchInv => MatchInv'
        /\ NoneLeft => NoneLeft'
<1>1. /\ orders' = orders /\ todo' = todo /\ pending' = pending /\ mkt' = mkt /\ price' = price
      /\ phase' = "deliver" /\ addrForbidden' = addrForbidden /\ newly' = FlaggedAtImport
  BY DEF Restart, assetVars, dealVars
<1>2. mkt' = NoMarket
  BY <1>1 DEF DexInv, IInv, BlockSound, Restart
<1>3. MatchInv => MatchInv'
  BY <1>1, <1>2 DEF MatchInv, UsedUpWaits, DealtMarkets, ListsSorted, ListsAlive, PriceIsBest,
                    Live
<1>4. \A m \in Markets \ newly' : Bids(m)' = {}
  BY <1>1 DEF FlaggedAtImport, Bids, OrdersOf, Live
<1>5. NoneCross'
  BY <1>4 DEF NoneCross
<1>6. NoneLeft => NoneLeft'
  BY <1>1, <1>2, <1>5 DEF NoneLeft, NoneForbidden, ListsComplete
<1> QED BY <1>3, <1>6

LEMMA NextDexMatching ==
  ASSUME DexInv, DexInv', MatchInv, [DexNext]_dexVars
  PROVE /\ MatchInv'
        /\ AddrForbiddable = {} /\ NoneLeft => NoneLeft'
<1>1. CASE [Next]_vars
  <2>1. IInv /\ IInv'
    BY DEF DexInv
  <2>2. MatchInv'
    BY <1>1, <2>1, NextUsedUpWaits, NextDealtMarkets, NextListsSorted, NextListsAlive,
       NextPriceIsBest DEF MatchInv
  <2>3. AddrForbiddable = {} /\ NoneLeft => NoneLeft'
    BY <1>1, <2>1, NextNoneForbidden, NextNoneCross, NextListsComplete DEF MatchInv, NoneLeft
  <2> QED BY <2>2, <2>3
<1>2. CASE PoolTransaction
  <2>1. UNCHANGED bookVars
    BY <1>2, PoolsLeaveBook
  <2> QED BY <2>1, PoolsKeepMatching
<1>3. CASE Restart
  BY <1>3, RestartKeepsMatching
<1> QED BY <1>1, <1>2, <1>3 DEF DexNext, dexVars

LEMMA DexMatchInvHolds == DexSpec => []MatchInv
<1>1. DexInit => MatchInv
  BY DEF DexInit, Init, MatchInv, UsedUpWaits, DealtMarkets, ListsSorted, ListsAlive,
         PriceIsBest, Live
<1>2. DexInv /\ DexInv' /\ MatchInv /\ [DexNext]_dexVars => MatchInv'
  BY NextDexMatching
<1> QED BY DexInvariantHolds, <1>1, <1>2, PTL DEF DexSpec

\* With pools and restarts, too, no market without a flag holds a pair of orders
\* that could deal: an import forgets the flags and makes them anew for every
\* market with orders (genesis.go:50, order_keeper.go:257).
THEOREM DexMissesNoMatch == AddrForbiddable = {} /\ DexSpec => []NoMissedMatch
<1> SUFFICES ASSUME AddrForbiddable = {} PROVE DexSpec => []NoMissedMatch
  OBVIOUS
<1>1. DexInit => NoneLeft
  BY DEF DexInit, Init, NoneLeft, NoneForbidden, NoneCross, ListsComplete, Bids, Asks,
         OrdersOf, Live
<1>2. DexInv /\ DexInv' /\ MatchInv /\ NoneLeft /\ [DexNext]_dexVars => NoneLeft'
  BY NextDexMatching
<1>3. DexInv /\ MatchInv /\ NoneLeft => NoMissedMatch
  BY UnflaggedApart DEF DexInv, MatchInv, NoneLeft
<1> QED BY DexInvariantHolds, DexMatchInvHolds, <1>1, <1>2, <1>3, PTL DEF DexSpec

\* Beside pools the engine's price is accepted by the best bid and the best ask as
\* well, and holds for every deal of a market in a block (match.go:42).
THEOREM DexPricesHold == DexSpec => [](PriceFound /\ UniformPrice)
<1>1. DexInv /\ MatchInv => PriceFound /\ UniformPrice
  BY BestPriceFound, BestPriceUniform DEF DexInv
<1> QED BY DexInvariantHolds, DexMatchInvHolds, <1>1, PTL
-----------------------------------------------------------------------------
(* Deals and fees, with pools and restarts *)

\* What the pools hold is there beside what the orders hold back.
LEMMA ReservesCovered == DexInv => UnheldCovered
<1> SUFFICES ASSUME DexInv PROVE UnheldCovered
  OBVIOUS
<1>1. \A u \in Users, d \in Denoms : Unheld(u, d) = Reserves(u, d) /\ Reserves(u, d) \in Nat
  BY FrozenExactMeaning, ReservesNat DEF DexInv
<1> QED BY <1>1 DEF UnheldCovered

\* What deals and refunds rely on.
Payable == ListsAllowed /\ CommissionsPaid

LEMMA NextDexPayable ==
  ASSUME DexInv, DexInv', Payable, [DexNext]_dexVars
  PROVE Payable'
<1>1. CASE [Next]_vars
  BY <1>1, NextAllowed, NextCommissions DEF DexInv, Payable
<1>2. CASE PoolTransaction
  <2>1. UNCHANGED bookVars
    BY <1>2, PoolsLeaveBook
  <2>2. /\ orders' = orders /\ mkt' = mkt /\ bidList' = bidList /\ askList' = askList
        /\ tokenForbidden' = tokenForbidden /\ addrForbidden' = addrForbidden
    BY <2>1 DEF bookVars, assetVars, blockVars, dealVars
  <2> QED BY <2>2 DEF Payable, ListsAllowed, SenderForbidden, IsForbidden, CommissionsPaid, Live
<1>3. CASE Restart
  <2>1. orders' = orders /\ mkt' = NoMarket
    BY <1>3 DEF DexInv, IInv, BlockSound, Restart, dealVars
  <2> QED BY <2>1 DEF Payable, ListsAllowed, CommissionsPaid, Live
<1> QED BY <1>1, <1>2, <1>3 DEF DexNext, dexVars

LEMMA PayableHolds == DexSpec => []Payable
<1>1. DexInit => Payable
  BY DEF DexInit, Init, Payable, ListsAllowed, CommissionsPaid, Live
<1>2. DexInv /\ DexInv' /\ Payable /\ [DexNext]_dexVars => Payable'
  BY NextDexPayable
<1> QED BY DexInvariantHolds, <1>1, <1>2, PTL DEF DexSpec

\* A deal hands over what its two orders record, although the frozen coins it is
\* paid from are one number with the reserves of its parties' pools (endblocker.go:101).
THEOREM DexDealsDeliver == DexSpec => DealDelivers
<1>1. DexInv /\ Payable /\ [DexNext]_dexVars =>
        [\A s \in Slots :
           s \in Live /\ orders'[s] # NoOrder /\ orders'[s] # orders[s] =>
             \A u \in Users, d \in Denoms :
               Holding(bank', u, d) - Holding(bank, u, d) = Gained(u, d)]_vars
  <2> SUFFICES ASSUME DexInv, Payable, [DexNext]_dexVars, NEW s \in Live,
                      orders'[s] # NoOrder, orders'[s] # orders[s],
                      NEW u \in Users, NEW d \in Denoms
               PROVE Holding(bank', u, d) - Holding(bank, u, d) = Gained(u, d)
    OBVIOUS
  <2>1. [Next]_vars
    <3>1. CASE PoolTransaction
      BY <3>1, PoolsLeaveBook DEF bookVars
    <3>2. CASE Restart
      BY <3>2 DEF Restart
    <3> QED BY <3>1, <3>2 DEF DexNext, dexVars
  <2> QED BY <2>1, OnlyDealsChange, DealPays, ReservesCovered DEF DexInv, Payable
<1> QED BY DexInvariantHolds, PayableHolds, <1>1, PTL DEF DexSpec, DealDelivers

\* Removing an order collects all it owes beside the reserves of its sender's pools
\* and after an import, which makes heights begin anew (endblocker.go:215).
THEOREM DexFeesCovered ==
  ZeroDealFeeCovered /\ CetUnforbiddable /\ DexSpec => []FeesCovered
<1> SUFFICES ASSUME ZeroDealFeeCovered, CetUnforbiddable PROVE DexSpec => []FeesCovered
  OBVIOUS
<1>1. DexInit => CetFree
  BY DEF DexInit, Init, CetFree
<1>2. CetFree /\ [DexNext]_dexVars => CetFree'
  <2> SUFFICES ASSUME CetFree, [DexNext]_dexVars PROVE CetFree'
    OBVIOUS
  <2>1. CASE UNCHANGED assetVars
    BY <2>1 DEF assetVars, CetFree
  <2>2. UNCHANGED assetVars \/ [Next]_vars
    BY PoolsLeaveBook DEF DexNext, dexVars, bookVars, Restart
  <2> QED BY <2>1, <2>2, NextCetFree
<1>3. DexInv /\ Payable /\ CetFree => FeesCovered
  BY LiveFees, ReservesCovered DEF DexInv, Payable
<1> QED BY DexInvariantHolds, PayableHolds, <1>1, <1>2, <1>3, PTL DEF DexSpec

\* The removals of a settlement commute beside reserves, too (endblocker.go:400).
THEOREM DexSettlementCommutes == ZeroDealFeeCovered /\ DexSpec => []SettleCommutes
<1> SUFFICES ASSUME ZeroDealFeeCovered PROVE DexSpec => []SettleCommutes
  OBVIOUS
<1>1. DexInv /\ Payable => SettleCommutes
  BY RefundsCommute, ReservesCovered DEF SettleCommutes, DexInv, Payable, IInv, BlockSound
<1> QED BY DexInvariantHolds, PayableHolds, <1>1, PTL
=============================================================================
