----------------------------- MODULE OrderLemmas -----------------------------
(* What the operators of module Bank preserve and change, for every ledger,   *)
(* and what those of module Market compute: amounts, fees, orders, the sorted *)
(* lists, the refund of an order.                                             *)
EXTENDS MarketProperties, EngineLemmas

LEMMA DivBounds ==
  ASSUME NEW a \in Nat, NEW b \in Nat \ {0}
  PROVE /\ a \div b \in Nat
        /\ b * (a \div b) <= a
        /\ a < b * (a \div b) + b
OBVIOUS

LEMMA ProductMonotone ==
  ASSUME NEW a \in Nat, NEW b \in Nat, NEW c \in Nat, b <= c
  PROVE a * b <= a * c /\ a * b \in Nat
OBVIOUS

\* a factor of a bounded product is bounded
LEMMA ProductCancel ==
  ASSUME NEW a \in Nat \ {0}, NEW b \in Nat, NEW c \in Nat, a * b <= a * c
  PROVE b <= c
OBVIOUS

-----------------------------------------------------------------------------
(* Every operator maps a ledger to a ledger *)

Balances == [Users -> [Denoms -> Nat]]

LEMMA GiveType ==
  ASSUME NEW w \in Balances, NEW u \in Users, NEW d \in Denoms, NEW n \in Int, w[u][d] + n >= 0
  PROVE /\ Give(w, u, d, n) \in Balances
        /\ \A v \in Users, e \in Denoms :
             Give(w, u, d, n)[v][e] = IF v = u /\ e = d THEN w[u][d] + n ELSE w[v][e]
<1>1. w[u][d] \in Nat /\ w[u][d] + n \in Nat
  BY DEF Balances
<1> QED BY <1>1 DEF Give, Balances

LEMMA LedgerFields ==
  ASSUME NEW b \in Ledger
  PROVE /\ b.coins \in Balances /\ b.frozen \in Balances /\ b.collected \in Nat
        /\ \A u \in Users, d \in Denoms : b.coins[u][d] \in Nat /\ b.frozen[u][d] \in Nat
BY DEF Ledger, Balances

LEMMA SendLedger ==
  ASSUME NEW b \in Ledger, NEW u \in Users, NEW v \in Users, NEW d \in Denoms, NEW n \in Nat
  PROVE SendCoins(b, u, v, d, n) \in Ledger /\ SendCoins(b, u, v, d, n).frozen = b.frozen
<1>1. CASE IsForbidden(d, u) \/ b.coins[u][d] < n
  BY <1>1 DEF SendCoins
<1>2. CASE ~ (IsForbidden(d, u) \/ b.coins[u][d] < n)
  <2> DEFINE c == Give(b.coins, u, d, 0 - n)
             e == Give(c, v, d, n)
  <2>1. b.coins[u][d] + (0 - n) >= 0
    BY <1>2, LedgerFields
  <2>2. c \in Balances
    BY <2>1, LedgerFields, GiveType
  <2>3. e \in Balances
    <3>1. c[v][d] + n >= 0
      BY <2>2 DEF Balances
    <3> HIDE DEF c
    <3> QED BY <2>2, <3>1, GiveType
  <2>4. SendCoins(b, u, v, d, n) = [b EXCEPT !.coins = e]
    BY <1>2 DEF SendCoins
  <2> HIDE DEF c, e
  <2> QED BY <2>3, <2>4 DEF Ledger, Balances
<1> QED BY <1>1, <1>2

LEMMA FreezeLedger ==
  ASSUME NEW b \in Ledger, NEW u \in Users, NEW d \in Denoms, NEW n \in Nat
  PROVE FreezeCoins(b, u, d, n) \in Ledger
<1>1. CASE IsForbidden(d, u) \/ b.coins[u][d] < n
  BY <1>1 DEF FreezeCoins
<1>2. CASE ~ (IsForbidden(d, u) \/ b.coins[u][d] < n)
  <2>1. b.coins[u][d] + (0 - n) >= 0 /\ b.frozen[u][d] + n >= 0
    BY <1>2, LedgerFields
  <2>2. Give(b.coins, u, d, 0 - n) \in Balances /\ Give(b.frozen, u, d, n) \in Balances
    BY <2>1, LedgerFields, GiveType
  <2> QED BY <1>2, <2>2 DEF FreezeCoins, Ledger, Balances
<1> QED BY <1>1, <1>2

LEMMA UnFreezeLedger ==
  ASSUME NEW b \in Ledger, NEW u \in Users, NEW d \in Denoms, NEW n \in Nat
  PROVE UnFreezeCoins(b, u, d, n) \in Ledger
<1>1. CASE b.frozen[u][d] < n
  BY <1>1 DEF UnFreezeCoins
<1>2. CASE ~ (b.frozen[u][d] < n)
  <2>1. b.frozen[u][d] + (0 - n) >= 0 /\ b.coins[u][d] + n >= 0
    BY <1>2, LedgerFields
  <2>2. Give(b.frozen, u, d, 0 - n) \in Balances /\ Give(b.coins, u, d, n) \in Balances
    BY <2>1, LedgerFields, GiveType
  <2> QED BY <1>2, <2>2 DEF UnFreezeCoins, Ledger, Balances
<1> QED BY <1>1, <1>2

LEMMA DeductLedger ==
  ASSUME NEW b \in Ledger, NEW u \in Users, NEW n \in Nat
  PROVE DeductFee(b, u, n) \in Ledger /\ DeductFee(b, u, n).frozen = b.frozen
<1>1. CASE b.coins[u][CET] < n
  BY <1>1 DEF DeductFee
<1>2. CASE ~ (b.coins[u][CET] < n)
  <2>0. CET \in Denoms
    BY BankAssumption
  <2>1. b.coins[u][CET] + (0 - n) >= 0 /\ b.collected + n \in Nat
    BY <1>2, <2>0, LedgerFields
  <2>2. Give(b.coins, u, CET, 0 - n) \in Balances
    BY <2>0, <2>1, LedgerFields, GiveType
  <2> QED BY <1>2, <2>1, <2>2 DEF DeductFee, Ledger, Balances
<1> QED BY <1>1, <1>2

\* the rebate is a part of the fee
LEMMA RebateBounds ==
  ASSUME NEW u \in Users, NEW fee \in Nat
  PROVE RebateAmount(u, fee) \in Nat /\ RebateAmount(u, fee) <= fee
<1>1. RebateRatio \in Nat /\ RebateRatioBase \in Nat \ {0} /\ RebateRatio <= RebateRatioBase
  BY BankAssumption
<1>2. fee * RebateRatio \in Nat /\ fee * RebateRatio <= fee * RebateRatioBase
  BY <1>1, ProductMonotone
<1> DEFINE q == (fee * RebateRatio) \div RebateRatioBase
<1>3. q \in Nat /\ RebateRatioBase * q <= fee * RebateRatio
  BY <1>1, <1>2, DivBounds
<1>4. q <= fee
  <2>1. RebateRatioBase * q <= RebateRatioBase * fee
    <3>1. fee * RebateRatioBase = RebateRatioBase * fee /\ RebateRatioBase * q \in Nat
          /\ RebateRatioBase * fee \in Nat
      BY <1>1, <1>3
    <3> HIDE DEF q
    <3> QED BY <1>2, <1>3, <3>1
  <2> HIDE DEF q
  <2> QED BY <1>1, <1>3, <2>1, ProductCancel
<1> QED BY <1>3, <1>4 DEF RebateAmount

LEMMA ChargeLedger ==
  ASSUME NEW b \in Ledger, NEW u \in Users, NEW fee \in Nat
  PROVE ChargeFee(b, u, fee) \in Ledger /\ ChargeFee(b, u, fee).frozen = b.frozen
<1> DEFINE rebate == RebateAmount(u, fee)
           paid == IF rebate > 0 THEN SendCoins(b, u, RefereeOf[u], CET, rebate) ELSE b
<1>1. rebate \in Nat /\ fee - rebate \in Nat
  BY RebateBounds
<1>2. rebate > 0 => RefereeOf[u] \in Users
  BY BankAssumption DEF RebateAmount, Users
<1>3. paid \in Ledger /\ paid.frozen = b.frozen
  <2>1. CET \in Denoms
    BY BankAssumption
  <2>2. CASE rebate > 0
    <3> HIDE DEF rebate
    <3>1. SendCoins(b, u, RefereeOf[u], CET, rebate) \in Ledger
          /\ SendCoins(b, u, RefereeOf[u], CET, rebate).frozen = b.frozen
      BY <1>1, <1>2, <2>1, <2>2, SendLedger
    <3> QED BY <2>2, <3>1
  <2>3. CASE ~ (rebate > 0)
    BY <2>3
  <2> QED BY <2>2, <2>3
<1>4. ChargeFee(b, u, fee) = DeductFee(paid, u, fee - rebate)
  BY DEF ChargeFee
<1> HIDE DEF rebate, paid
<1> QED BY <1>1, <1>3, <1>4, DeductLedger
-----------------------------------------------------------------------------
(* No operator makes or destroys coins *)

Terms(b, d) == [u \in Users |-> b.coins[u][d] + b.frozen[u][d]]

LEMMA TermsInt ==
  ASSUME NEW b \in Ledger, NEW d \in Denoms
  PROVE \A w \in 1..NumUsers : Terms(b, d)[w] = b.coins[w][d] + b.frozen[w][d]
                               /\ Terms(b, d)[w] \in Int
BY LedgerFields DEF Terms, Users

LEMMA TotalIsSum ==
  ASSUME NEW b, NEW d
  PROVE Total(b, d) = SumTo(Terms(b, d), NumUsers) + (IF d = CET THEN b.collected ELSE 0)
BY DEF Total, Terms

\* a ledger with the same holdings and the same fee collector has the same totals
LEMMA SameTotal ==
  ASSUME NEW b \in Ledger, NEW c \in Ledger, NEW e \in Denoms,
         e = CET => c.collected = b.collected,
         \A w \in Users : c.coins[w][e] + c.frozen[w][e] = b.coins[w][e] + b.frozen[w][e]
  PROVE Total(c, e) = Total(b, e)
<1>1. SumTo(Terms(c, e), NumUsers) = SumTo(Terms(b, e), NumUsers)
  <2>1. \A w \in 1..NumUsers : Terms(b, e)[w] \in Int /\ Terms(c, e)[w] = Terms(b, e)[w]
    BY TermsInt DEF Users
  <2>2. NumUsers \in Nat
    BY BankAssumption
  <2> QED BY <2>1, <2>2, SumCongruence
<1> QED BY <1>1, TotalIsSum

LEMMA FreezeTotal ==
  ASSUME NEW b \in Ledger, NEW u \in Users, NEW d \in Denoms, NEW n \in Nat, NEW e \in Denoms
  PROVE Total(FreezeCoins(b, u, d, n), e) = Total(b, e)
<1> DEFINE c == FreezeCoins(b, u, d, n)
<1>1. CASE IsForbidden(d, u) \/ b.coins[u][d] < n
  BY <1>1 DEF FreezeCoins
<1>2. CASE ~ (IsForbidden(d, u) \/ b.coins[u][d] < n)
  <2>1. b.coins[u][d] + (0 - n) >= 0 /\ b.frozen[u][d] + n >= 0
    BY <1>2, LedgerFields
  <2>2. c.coins = Give(b.coins, u, d, 0 - n) /\ c.frozen = Give(b.frozen, u, d, n)
        /\ c.collected = b.collected
    BY <1>2 DEF FreezeCoins, Ledger
  <2>3. \A w \in Users :
          /\ Give(b.coins, u, d, 0 - n)[w][e]
             = IF w = u /\ e = d THEN b.coins[u][d] + (0 - n) ELSE b.coins[w][e]
          /\ Give(b.frozen, u, d, n)[w][e]
             = IF w = u /\ e = d THEN b.frozen[u][d] + n ELSE b.frozen[w][e]
    BY <2>1, LedgerFields, GiveType
  <2>4. \A w \in Users : c.coins[w][e] + c.frozen[w][e] = b.coins[w][e] + b.frozen[w][e]
    BY <2>2, <2>3, LedgerFields
  <2> HIDE DEF c
  <2> QED BY <2>2, <2>4, FreezeLedger, SameTotal DEF c
<1> QED BY <1>1, <1>2

LEMMA UnFreezeTotal ==
  ASSUME NEW b \in Ledger, NEW u \in Users, NEW d \in Denoms, NEW n \in Nat, NEW e \in Denoms
  PROVE Total(UnFreezeCoins(b, u, d, n), e) = Total(b, e)
<1> DEFINE c == UnFreezeCoins(b, u, d, n)
<1>1. CASE b.frozen[u][d] < n
  BY <1>1 DEF UnFreezeCoins
<1>2. CASE ~ (b.frozen[u][d] < n)
  <2>1. b.frozen[u][d] + (0 - n) >= 0 /\ b.coins[u][d] + n >= 0
    BY <1>2, LedgerFields
  <2>2. c.frozen = Give(b.frozen, u, d, 0 - n) /\ c.coins = Give(b.coins, u, d, n)
        /\ c.collected = b.collected
    BY <1>2 DEF UnFreezeCoins, Ledger
  <2>3. \A w \in Users :
          /\ Give(b.frozen, u, d, 0 - n)[w][e]
             = IF w = u /\ e = d THEN b.frozen[u][d] + (0 - n) ELSE b.frozen[w][e]
          /\ Give(b.coins, u, d, n)[w][e]
             = IF w = u /\ e = d THEN b.coins[u][d] + n ELSE b.coins[w][e]
    BY <2>1, LedgerFields, GiveType
  <2>4. \A w \in Users : c.coins[w][e] + c.frozen[w][e] = b.coins[w][e] + b.frozen[w][e]
    BY <2>2, <2>3, LedgerFields
  <2> HIDE DEF c
  <2> QED BY <2>2, <2>4, UnFreezeLedger, SameTotal DEF c
<1> QED BY <1>1, <1>2

LEMMA SendTotal ==
  ASSUME NEW b \in Ledger, NEW u \in Users, NEW v \in Users, NEW d \in Denoms, NEW n \in Nat,
         NEW e \in Denoms
  PROVE Total(SendCoins(b, u, v, d, n), e) = Total(b, e)
<1> DEFINE c == SendCoins(b, u, v, d, n)
           mid == Give(b.coins, u, d, 0 - n)
<1>1. CASE IsForbidden(d, u) \/ b.coins[u][d] < n
  BY <1>1 DEF SendCoins
<1>2. CASE ~ (IsForbidden(d, u) \/ b.coins[u][d] < n)
  <2>1. b.coins[u][d] + (0 - n) >= 0
    BY <1>2, LedgerFields
  <2>2. mid \in Balances /\ \A w \in Users, f \in Denoms :
          mid[w][f] = IF w = u /\ f = d THEN b.coins[u][d] + (0 - n) ELSE b.coins[w][f]
    BY <2>1, LedgerFields, GiveType
  <2>3. c.coins = Give(mid, v, d, n) /\ c.frozen = b.frozen /\ c.collected = b.collected
    BY <1>2 DEF SendCoins, Ledger
  <2> HIDE DEF mid, c
  <2>4. mid[v][d] + n >= 0
    BY <2>2 DEF Balances
  <2>5. \A w \in Users : c.coins[w][e] = IF w = v /\ e = d THEN mid[v][d] + n ELSE mid[w][e]
    BY <2>2, <2>3, <2>4, GiveType
  <2>6. c \in Ledger
    BY SendLedger DEF c
  <2>7. CASE e # d \/ u = v
    <3>1. \A w \in Users : c.coins[w][e] + c.frozen[w][e] = b.coins[w][e] + b.frozen[w][e]
      BY <2>2, <2>3, <2>5, <2>7, LedgerFields
    <3> QED BY <2>3, <2>6, <3>1, SameTotal DEF c
  <2>8. CASE e = d /\ u # v
    <3>1. /\ c.coins[u][e] = b.coins[u][e] - n /\ c.coins[v][e] = b.coins[v][e] + n
          /\ \A w \in Users \ {u, v} : c.coins[w][e] = b.coins[w][e]
      BY <2>2, <2>5, <2>8, LedgerFields
    <3>2. /\ Terms(c, e)[u] = Terms(b, e)[u] - n /\ Terms(c, e)[v] = Terms(b, e)[v] + n
          /\ \A w \in (1..NumUsers) \ {u, v} : Terms(c, e)[w] = Terms(b, e)[w]
      BY <2>3, <2>6, <3>1, LedgerFields, TermsInt DEF Users
    <3>3. SumTo(Terms(c, e), NumUsers)
          = SumTo(Terms(b, e), NumUsers) + (Terms(c, e)[u] - Terms(b, e)[u])
            + (Terms(c, e)[v] - Terms(b, e)[v])
      <4>1. NumUsers \in Nat /\ u \in 1..NumUsers /\ v \in 1..NumUsers
        BY BankAssumption DEF Users
      <4>2. \A w \in 1..NumUsers : Terms(b, e)[w] \in Int /\ Terms(c, e)[w] \in Int
        BY <2>6, TermsInt
      <4>3. \A w \in (1..NumUsers) \ {u, v} : Terms(c, e)[w] = Terms(b, e)[w]
        BY <3>2
      <4> DEFINE f == Terms(b, e)
                 g == Terms(c, e)
      <4>4. /\ u # v /\ NumUsers \in Nat /\ u \in 1..NumUsers /\ v \in 1..NumUsers
            /\ \A w \in 1..NumUsers : f[w] \in Int
            /\ g[u] \in Int /\ g[v] \in Int
            /\ \A w \in (1..NumUsers) \ {u, v} : g[w] = f[w]
        BY <2>8, <4>1, <4>2, <4>3
      <4> HIDE DEF f, g
      <4>5. SumTo(g, NumUsers) = SumTo(f, NumUsers) + (g[u] - f[u]) + (g[v] - f[v])
        BY <4>4, SumUpdateTwo
      <4> QED BY <4>5 DEF f, g
    <3>4. SumTo(Terms(c, e), NumUsers) = SumTo(Terms(b, e), NumUsers)
      <4>1. SumTo(Terms(b, e), NumUsers) \in Int
        BY TermsInt, SumInt, BankAssumption
      <4>2. Terms(b, e)[u] \in Int /\ Terms(b, e)[v] \in Int
        BY TermsInt DEF Users
      <4> QED BY <3>2, <3>3, <4>1, <4>2
    <3> QED BY <2>3, <3>4, TotalIsSum DEF c
  <2> QED BY <2>7, <2>8
<1> QED BY <1>1, <1>2

LEMMA DeductTotal ==
  ASSUME NEW b \in Ledger, NEW u \in Users, NEW n \in Nat, NEW e \in Denoms
  PROVE Total(DeductFee(b, u, n), e) = Total(b, e)
<1> DEFINE c == DeductFee(b, u, n)
<1>1. CASE b.coins[u][CET] < n
  BY <1>1 DEF DeductFee
<1>2. CASE ~ (b.coins[u][CET] < n)
  <2>0. CET \in Denoms
    BY BankAssumption
  <2>1. b.coins[u][CET] + (0 - n) >= 0
    BY <1>2, <2>0, LedgerFields
  <2>2. c.coins = Give(b.coins, u, CET, 0 - n) /\ c.frozen = b.frozen
        /\ c.collected = b.collected + n
    BY <1>2 DEF DeductFee, Ledger
  <2>3. \A w \in Users : Give(b.coins, u, CET, 0 - n)[w][e]
             = IF w = u /\ e = CET THEN b.coins[u][CET] + (0 - n) ELSE b.coins[w][e]
    BY <2>0, <2>1, LedgerFields, GiveType
  <2>4. c \in Ledger
    BY DeductLedger
  <2> HIDE DEF c
  <2>5. CASE e # CET
    BY <2>2, <2>3, <2>4, <2>5, SameTotal DEF c
  <2>6. CASE e = CET
    <3>1. /\ Terms(c, e)[u] = Terms(b, e)[u] - n
          /\ \A w \in (1..NumUsers) \ {u} : Terms(c, e)[w] = Terms(b, e)[w]
      BY <2>2, <2>3, <2>4, <2>6, LedgerFields, TermsInt DEF Users
    <3>2. NumUsers \in Nat /\ u \in 1..NumUsers
      BY BankAssumption DEF Users
    <3>3. Terms(b, e)[u] \in Int /\ Terms(c, e)[u] \in Int
          /\ SumTo(Terms(b, e), NumUsers) \in Int
      BY <2>4, <3>2, TermsInt, SumInt
    <3>4. SumTo(Terms(c, e), NumUsers)
          = SumTo(Terms(b, e), NumUsers) + Terms(c, e)[u] - Terms(b, e)[u]
      <4>1. \A w \in 1..NumUsers : Terms(b, e)[w] \in Int
        BY TermsInt
      <4> QED BY <3>1, <3>2, <3>3, <4>1, SumUpdate
    <3>5. b.collected \in Nat
      BY LedgerFields
    <3>6. SumTo(Terms(c, e), NumUsers) + c.collected
          = SumTo(Terms(b, e), NumUsers) + b.collected
      BY <2>2, <3>1, <3>3, <3>4, <3>5
    <3> QED BY <2>6, <3>6, TotalIsSum DEF c
  <2> QED BY <2>5, <2>6
<1> QED BY <1>1, <1>2

LEMMA ChargeTotal ==
  ASSUME NEW b \in Ledger, NEW u \in Users, NEW fee \in Nat, NEW e \in Denoms
  PROVE Total(ChargeFee(b, u, fee), e) = Total(b, e)
<1> DEFINE rebate == RebateAmount(u, fee)
           paid == IF rebate > 0 THEN SendCoins(b, u, RefereeOf[u], CET, rebate) ELSE b
<1>1. rebate \in Nat /\ fee - rebate \in Nat
  BY RebateBounds
<1>2. rebate > 0 => RefereeOf[u] \in Users
  BY BankAssumption DEF RebateAmount, Users
<1>3. paid \in Ledger /\ Total(paid, e) = Total(b, e)
  <2>1. CET \in Denoms
    BY BankAssumption
  <2>2. CASE rebate > 0
    <3> HIDE DEF rebate
    <3>1. SendCoins(b, u, RefereeOf[u], CET, rebate) \in Ledger
          /\ Total(SendCoins(b, u, RefereeOf[u], CET, rebate), e) = Total(b, e)
      BY <1>1, <1>2, <2>1, <2>2, SendLedger, SendTotal
    <3> QED BY <2>2, <3>1
  <2>3. CASE ~ (rebate > 0)
    BY <2>3
  <2> QED BY <2>2, <2>3
<1>4. ChargeFee(b, u, fee) = DeductFee(paid, u, fee - rebate)
  BY DEF ChargeFee
<1> HIDE DEF rebate, paid
<1> QED BY <1>1, <1>3, <1>4, DeductTotal
-----------------------------------------------------------------------------
(* What a call that is not refused does to the frozen coins *)

LEMMA UnFreezeFrozen ==
  ASSUME NEW b \in Ledger, NEW u \in Users, NEW d \in Denoms, NEW n \in Nat, n <= b.frozen[u][d]
  PROVE \A v \in Users, e \in Denoms :
          UnFreezeCoins(b, u, d, n).frozen[v][e]
          = IF v = u /\ e = d THEN b.frozen[u][d] - n ELSE b.frozen[v][e]
<1>1. b.frozen[u][d] + (0 - n) >= 0 /\ b.frozen[u][d] + (0 - n) = b.frozen[u][d] - n
      /\ ~ (b.frozen[u][d] < n)
  BY LedgerFields
<1>2. UnFreezeCoins(b, u, d, n).frozen = Give(b.frozen, u, d, 0 - n)
  BY <1>1 DEF UnFreezeCoins, Ledger
<1> QED BY <1>1, <1>2, LedgerFields, GiveType

LEMMA FreezeFrozen ==
  ASSUME NEW b \in Ledger, NEW u \in Users, NEW d \in Denoms, NEW n \in Nat,
         n # 0 => ~IsForbidden(d, u), n <= b.coins[u][d]
  PROVE /\ \A v \in Users, e \in Denoms :
             /\ FreezeCoins(b, u, d, n).frozen[v][e]
                = IF v = u /\ e = d THEN b.frozen[u][d] + n ELSE b.frozen[v][e]
             /\ FreezeCoins(b, u, d, n).coins[v][e]
                = IF v = u /\ e = d THEN b.coins[u][d] - n ELSE b.coins[v][e]
<1>1. b.coins[u][d] + (0 - n) >= 0 /\ b.coins[u][d] + (0 - n) = b.coins[u][d] - n
      /\ b.frozen[u][d] + n >= 0 /\ ~ (b.coins[u][d] < n)
  BY LedgerFields
<1>2. CASE IsForbidden(d, u)
  BY <1>2, LedgerFields DEF FreezeCoins
<1>3. CASE ~IsForbidden(d, u)
  <2>1. FreezeCoins(b, u, d, n).frozen = Give(b.frozen, u, d, n)
        /\ FreezeCoins(b, u, d, n).coins = Give(b.coins, u, d, 0 - n)
    BY <1>1, <1>3 DEF FreezeCoins, Ledger
  <2> QED BY <1>1, <2>1, LedgerFields, GiveType
<1> QED BY <1>2, <1>3
-----------------------------------------------------------------------------
(* Orders *)

LEMMA CeilDivBounds ==
  ASSUME NEW a \in Nat, NEW b \in Nat \ {0}
  PROVE CeilDiv(a, b) \in Nat /\ a <= b * CeilDiv(a, b)
<1>1. a + b - 1 \in Nat
  OBVIOUS
<1>2. (a + b - 1) \div b \in Nat /\ a + b - 1 < b * ((a + b - 1) \div b) + b
  BY <1>1, DivBounds
<1> DEFINE q == (a + b - 1) \div b
<1>3. b * q \in Nat
  BY <1>2
<1> HIDE DEF q
<1>4. a <= b * q
  BY <1>2, <1>3 DEF q
<1> QED BY <1>2, <1>4 DEF CeilDiv, q

LEMMA ProductNat ==
  ASSUME NEW a \in Nat, NEW b \in Nat
  PROVE a * b \in Nat
OBVIOUS

LEMMA LesserNat ==
  ASSUME NEW a \in Nat, NEW b \in Nat
  PROVE Lesser(a, b) \in Nat /\ Lesser(a, b) <= a /\ Lesser(a, b) <= b
BY DEF Lesser

-----------------------------------------------------------------------------
(* Fees *)

MarketsType == markets \in [Markets -> MarketInfo \cup {NoMarket}]

LEMMA VolumeType ==
  ASSUME MarketsType, NEW m \in Markets, NEW x \in Nat, NEW y \in Nat
  PROVE /\ GetMarketVolume(m, x, y).num \in Nat
        /\ GetMarketVolume(m, x, y).den \in Nat \ {0}
<1>1. D \in Nat \ {0}
  BY MarketAssumption
<1>2. \A a, b \in Denoms : ListedPair(a, b) # {} =>
        markets[CHOOSE k \in ListedPair(a, b) : TRUE].last \in Nat
  <2> SUFFICES ASSUME NEW a \in Denoms, NEW b \in Denoms, ListedPair(a, b) # {}
               PROVE markets[CHOOSE k \in ListedPair(a, b) : TRUE].last \in Nat
    OBVIOUS
  <2> DEFINE k == CHOOSE k \in ListedPair(a, b) : TRUE
  <2>1. k \in ListedPair(a, b)
    OBVIOUS
  <2> HIDE DEF k
  <2>2. k \in Markets /\ markets[k] # NoMarket
    BY <2>1 DEF ListedPair, Listed
  <2>3. markets[k] \in MarketInfo
    BY <2>2 DEF MarketsType
  <2>4. markets[k].last \in Nat
    BY <2>3 DEF MarketInfo
  <2> QED BY <2>4 DEF k
<1>3. StockOf[m] \in Denoms /\ MoneyOf[m] \in Denoms /\ CET \in Denoms
  BY MarketAssumption, BankAssumption
<1>4. \A n \in Nat, p \in Nat : n * p \in Nat
  OBVIOUS
<1>5. \A a, b \in Denoms, n \in Nat : ListedPair(a, b) # {} =>
        LET p == markets[CHOOSE k \in ListedPair(a, b) : TRUE].last
        IN  p \in Nat /\ n * p \in Nat /\ n * D \in Nat
  BY <1>1, <1>2, <1>4
<1> QED BY <1>1, <1>3, <1>5 DEF GetMarketVolume

LEMMA CommissionType ==
  ASSUME MarketsType, NEW m \in Markets, NEW p \in Nat, NEW q \in Nat
  PROVE CalCommission(m, p, q) \in Nat
<1> DEFINE v == GetMarketVolume(m, q, MoneyAmount(p, q))
<1>1. MoneyAmount(p, q) \in Nat
  <2>1. p * q \in Nat
    BY ProductNat
  <2> QED BY <2>1, CeilDivBounds, MarketAssumption DEF MoneyAmount
<1>2. v.num \in Nat /\ v.den \in Nat \ {0}
  BY <1>1, VolumeType
<1> HIDE DEF v
<1>3. v.num * RateNum \in Nat /\ v.den * RateDen \in Nat \ {0}
  BY <1>2, MarketAssumption
<1>4. RawCommission(m, p, q) \in Nat
  BY <1>3, CeilDivBounds DEF RawCommission, v
<1>5. MarketFeeMin \in Nat
  BY MarketAssumption
<1> QED BY <1>4, <1>5 DEF CalCommission, Greater

LEMMA FeatureFeeType ==
  ASSUME NEW tif, NEW life \in Nat
  PROVE CalFeatureFee(tif, life) \in Nat
<1>1. GTEOrderLifetime \in Nat /\ FeatureFeeByBlocks \in Nat /\ MaxOrderAmount \in Nat
  BY MarketAssumption
<1>2. CASE tif = "IOC" \/ life < GTEOrderLifetime
  BY <1>2 DEF CalFeatureFee
<1>3. CASE ~ (tif = "IOC" \/ life < GTEOrderLifetime)
  <2>1. (life - GTEOrderLifetime) * FeatureFeeByBlocks \in Nat
    BY <1>1, <1>3, ProductNat
  <2> QED BY <1>1, <1>3, <2>1, LesserNat DEF CalFeatureFee
<1> QED BY <1>2, <1>3

LEMMA OrderFields ==
  ASSUME NEW o \in Order
  PROVE /\ o.sender \in Users /\ o.market \in Markets /\ o.side \in {"BUY", "SELL"}
        /\ o.tif \in {"GTE", "IOC"}
        /\ o.price \in Nat /\ o.qty \in Nat \ {0} /\ o.height \in Nat /\ o.exist \in Nat
        /\ o.commission \in Nat /\ o.feature \in Nat /\ o.left \in Nat /\ o.freeze \in Nat
        /\ o.dealStock \in Nat /\ o.dealMoney \in Nat
        /\ UsedDenom(o.side, o.market) \in Denoms
<1>1. StockOf \in [Markets -> Denoms] /\ MoneyOf \in [Markets -> Denoms]
  BY MarketAssumption
<1> QED BY <1>1 DEF Order, UsedDenom

LEMMA ActualCommissionType ==
  ASSUME NEW o \in Order
  PROVE CalActualOrderCommission(o) \in Nat
<1>1. MaxOrderAmount \in Nat /\ FeeForZeroDeal \in Nat
  BY MarketAssumption
<1>2. o.dealStock \in Nat /\ o.commission \in Nat /\ o.qty \in Nat \ {0}
  BY OrderFields
<1>3. o.dealStock * o.commission \in Nat
  BY <1>2, ProductNat
<1>4. (o.dealStock * o.commission) \div o.qty \in Nat
  BY <1>2, <1>3, DivBounds
<1> QED BY <1>1, <1>4, LesserNat DEF CalActualOrderCommission

LEMMA ActualFeatureFeeType ==
  ASSUME NEW o \in Order, NEW h \in Nat
  PROVE CalActualOrderFeatureFee(o, h) \in Nat
<1> DEFINE charged == h - o.height + 1 - GTEOrderLifetime
<1>1. GTEOrderLifetime \in Nat /\ o.height \in Nat /\ o.feature \in Nat /\ o.exist \in Nat
  BY MarketAssumption, OrderFields
<1>2. CASE o.exist <= GTEOrderLifetime \/ charged < 0
  BY <1>2 DEF CalActualOrderFeatureFee
<1>3. CASE ~ (o.exist <= GTEOrderLifetime \/ charged < 0)
  <2>1. charged \in Nat /\ o.exist - GTEOrderLifetime \in Nat \ {0}
    BY <1>1, <1>3
  <2>2. charged * o.feature \in Nat
    BY <1>1, <2>1, ProductNat
  <2>3. (charged * o.feature) \div (o.exist - GTEOrderLifetime) \in Nat
    BY <2>1, <2>2, DivBounds
  <2> QED BY <1>1, <1>3, <2>3, LesserNat DEF CalActualOrderFeatureFee
<1> QED BY <1>2, <1>3
-----------------------------------------------------------------------------
(* Orders *)

\* an order whose counts add up and that can pay for what is left of it
SoundOrder(o) ==
  /\ o \in Order
  /\ o.left + o.dealStock = o.qty
  /\ IF o.side = "BUY" THEN D * o.freeze >= o.price * o.left ELSE o.freeze = o.left
  /\ o.tif = "IOC" => o.feature = 0

OrdersSound ==
  /\ orders \in [Slots -> Order \cup {NoOrder}]
  /\ \A s \in Live : SoundOrder(orders[s])

LEMMA OrdersSoundMeaning == OrdersSound => OrdersType /\ BuyerCanPay
BY DEF OrdersSound, OrdersType, BuyerCanPay, SoundOrder, Live

LEMMA LiveOrder ==
  ASSUME OrdersSound, NEW s \in Live
  PROVE orders[s] \in Order /\ SoundOrder(orders[s])
BY DEF OrdersSound, Live, SoundOrder

LEMMA NewOrderSound ==
  ASSUME MarketsType, height \in Nat, NEW u \in Users, NEW m \in Markets,
         NEW side \in {"BUY", "SELL"}, NEW p \in Prices, NEW q \in Quantities,
         NEW tif \in TimesInForce, NEW life \in Lifetimes
  PROVE SoundOrder(NewOrder(u, m, side, p, q, tif, life))
<1> DEFINE o == NewOrder(u, m, side, p, q, tif, life)
<1>1. p \in Nat /\ q \in Nat \ {0} /\ tif \in {"GTE", "IOC"} /\ life \in Nat /\ D \in Nat \ {0}
  BY MarketAssumption
<1>2. p * q \in Nat
  BY <1>1, ProductNat
<1>3. MoneyAmount(p, q) \in Nat /\ p * q <= D * MoneyAmount(p, q)
  BY <1>1, <1>2, CeilDivBounds DEF MoneyAmount
<1>4. CalCommission(m, p, q) \in Nat /\ CalFeatureFee(tif, life) \in Nat
  BY <1>1, CommissionType, FeatureFeeType
<1>5. (IF life = 0 /\ tif = "GTE" THEN GTEOrderLifetime ELSE life) \in Nat
  BY <1>1, MarketAssumption
<1>6. o \in Order
  BY <1>1, <1>3, <1>4, <1>5 DEF NewOrder, Order
<1>7. o.left = q /\ o.dealStock = 0 /\ o.qty = q /\ o.side = side /\ o.price = p
      /\ o.freeze = IF side = "BUY" THEN MoneyAmount(p, q) ELSE q
  BY DEF NewOrder
<1>11. o.tif = "IOC" => o.feature = 0
  BY DEF NewOrder, CalFeatureFee
<1> HIDE DEF o
<1>8. D * MoneyAmount(p, q) \in Nat
  BY <1>1, <1>3, ProductNat
<1>9. o.left + o.dealStock = o.qty
  BY <1>1, <1>7
<1>10. IF o.side = "BUY" THEN D * o.freeze >= o.price * o.left ELSE o.freeze = o.left
  BY <1>2, <1>3, <1>7, <1>8
<1> QED BY <1>6, <1>9, <1>10, <1>11 DEF SoundOrder, o

LEMMA FreezeForOrderLedger ==
  ASSUME NEW b \in Ledger, NEW o \in Order
  PROVE /\ FreezeForOrder(b, o) \in Ledger
        /\ \A d \in Denoms : Total(FreezeForOrder(b, o), d) = Total(b, d)
<1> DEFINE x == FreezeCoins(b, o.sender, UsedDenom(o.side, o.market), o.freeze)
           y == FreezeCoins(x, o.sender, CET, o.commission)
           z == FreezeCoins(y, o.sender, CET, o.feature)
<1>1. CET \in Denoms
  BY BankAssumption
<1>2. x \in Ledger /\ \A d \in Denoms : Total(x, d) = Total(b, d)
  BY OrderFields, FreezeLedger, FreezeTotal
<1> HIDE DEF x
<1>3. y \in Ledger /\ \A d \in Denoms : Total(y, d) = Total(x, d)
  BY <1>1, <1>2, OrderFields, FreezeLedger, FreezeTotal
<1> HIDE DEF y
<1>4. z \in Ledger /\ \A d \in Denoms : Total(z, d) = Total(y, d)
  BY <1>1, <1>3, OrderFields, FreezeLedger, FreezeTotal
<1>5. FreezeForOrder(b, o) = z
  BY DEF FreezeForOrder, x, y
<1> HIDE DEF z
<1> QED BY <1>2, <1>3, <1>4, <1>5

\* Unfreeze, then charge: the form every part of a refund has.
LEMMA UnFreezeAndCharge ==
  ASSUME NEW b \in Ledger, NEW u \in Users, NEW n \in Nat, NEW fee \in Nat
  PROVE /\ ChargeFee(UnFreezeCoins(b, u, CET, n), u, fee) \in Ledger
        /\ ChargeFee(UnFreezeCoins(b, u, CET, n), u, fee).frozen = UnFreezeCoins(b, u, CET, n).frozen
        /\ \A d \in Denoms : Total(ChargeFee(UnFreezeCoins(b, u, CET, n), u, fee), d) = Total(b, d)
<1>1. CET \in Denoms
  BY BankAssumption
<1> DEFINE x == UnFreezeCoins(b, u, CET, n)
<1>2. x \in Ledger /\ \A d \in Denoms : Total(x, d) = Total(b, d)
  BY <1>1, UnFreezeLedger, UnFreezeTotal
<1> HIDE DEF x
<1>3. ChargeFee(x, u, fee) \in Ledger /\ ChargeFee(x, u, fee).frozen = x.frozen
      /\ \A d \in Denoms : Total(ChargeFee(x, u, fee), d) = Total(x, d)
  BY <1>2, ChargeLedger, ChargeTotal
<1> QED BY <1>2, <1>3 DEF x

LEMMA RefundLedger ==
  ASSUME NEW b \in Ledger, NEW o \in Order, NEW h \in Nat
  PROVE /\ Refund(b, o, h) \in Ledger
        /\ \A d \in Denoms : Total(Refund(b, o, h), d) = Total(b, d)
<1> DEFINE refunded == UnFreezeCoins(b, o.sender, UsedDenom(o.side, o.market), o.freeze)
           commissioned ==
             IF o.commission = 0 THEN refunded
             ELSE ChargeFee(UnFreezeCoins(refunded, o.sender, CET, o.commission),
                            o.sender, CalActualOrderCommission(o))
           featured ==
             IF o.tif # "GTE" \/ o.feature = 0 THEN commissioned
             ELSE ChargeFee(UnFreezeCoins(commissioned, o.sender, CET, o.feature),
                            o.sender, CalActualOrderFeatureFee(o, h))
<1>1. refunded \in Ledger /\ \A d \in Denoms : Total(refunded, d) = Total(b, d)
  BY OrderFields, UnFreezeLedger, UnFreezeTotal
<1> HIDE DEF refunded
<1>2. commissioned \in Ledger /\ \A d \in Denoms : Total(commissioned, d) = Total(refunded, d)
  BY <1>1, OrderFields, ActualCommissionType, UnFreezeAndCharge, SMTT(30)
<1> HIDE DEF commissioned
<1>3. featured \in Ledger /\ \A d \in Denoms : Total(featured, d) = Total(commissioned, d)
  <2>1. CASE o.tif # "GTE" \/ o.feature = 0
    BY <1>2, <2>1
  <2>2. CASE ~ (o.tif # "GTE" \/ o.feature = 0)
    <3>1. CalActualOrderFeatureFee(o, h) \in Nat /\ o.feature \in Nat /\ o.sender \in Users
      BY OrderFields, ActualFeatureFeeType
    <3> DEFINE charged == ChargeFee(UnFreezeCoins(commissioned, o.sender, CET, o.feature),
                                    o.sender, CalActualOrderFeatureFee(o, h))
    <3>2. charged \in Ledger /\ \A d \in Denoms : Total(charged, d) = Total(commissioned, d)
      BY <1>2, <3>1, UnFreezeAndCharge
    <3>3. featured = charged
      BY <2>2
    <3> HIDE DEF charged, featured
    <3> QED BY <3>2, <3>3
  <2> QED BY <2>1, <2>2
<1>4. Refund(b, o, h) = featured
  BY Zenon DEF Refund, commissioned, refunded
<1> HIDE DEF featured
<1> QED BY <1>1, <1>2, <1>3, <1>4

LEMMA SortedListType ==
  ASSUME NEW S \in SUBSET Slots, NEW q \in SortedLists(S)
  PROVE /\ q \in Seq(Slots)
        /\ \A i \in DOMAIN q : q[i] \in S
<1>1. MaxOrders \in Nat
  BY MarketAssumption
<1>2. IsFiniteSet(S)
  <2>1. IsFiniteSet(1..MaxOrders)
    BY <1>1, FS_Interval
  <2> QED BY <2>1, FS_Subset DEF Slots
<1>3. Cardinality(S) \in Nat
  BY <1>2, FS_CardinalityType
<1>4. q \in [1..Cardinality(S) -> S]
  BY DEF SortedLists
<1> QED BY <1>3, <1>4
-----------------------------------------------------------------------------
(* Deals *)

LEMMA AmountType ==
  ASSUME NEW o \in Order
  PROVE Amount(o) \in Nat /\ Amount(o) <= o.left
BY OrderFields DEF Amount

\* What a buyer pays at a price not above his limit, his frozen money covers.
LEMMA PaymentCovered ==
  ASSUME NEW limit \in Nat, NEW left \in Nat, NEW freeze \in Nat,
         NEW p \in Nat, NEW amount \in Nat,
         D * freeze >= limit * left, p <= limit, amount <= left
  PROVE LET money == (p * amount) \div D
        IN  /\ money \in Nat /\ money <= freeze
            /\ D * (freeze - money) >= limit * (left - amount)
<1> DEFINE money == (p * amount) \div D
<1>1. D \in Nat \ {0}
  BY MarketAssumption
<1>2. p * amount \in Nat
  BY ProductNat
<1>3. money \in Nat /\ D * money <= p * amount
  BY <1>1, <1>2, DivBounds
<1> HIDE DEF money
<1>4. p * amount <= limit * amount
  <2>1. amount * p <= amount * limit
    BY ProductMonotone
  <2> QED BY <2>1
<1>5. limit * amount <= limit * left /\ limit * left \in Nat /\ limit * amount \in Nat
  BY ProductMonotone
<1>6. D * money \in Nat /\ D * freeze \in Nat
  BY <1>1, <1>3, ProductNat
<1>7. money <= freeze
  <2>1. D * money <= D * freeze
    BY <1>2, <1>3, <1>4, <1>5, <1>6
  <2> QED BY <1>1, <1>3, <2>1, ProductCancel
<1>8. D * (freeze - money) = D * freeze - D * money
      /\ limit * (left - amount) = limit * left - limit * amount
  BY <1>1, <1>3
<1>9. D * freeze - D * money >= limit * left - limit * amount
  BY <1>2, <1>3, <1>4, <1>5, <1>6
<1>10. D * (freeze - money) >= limit * (left - amount)
  BY <1>8, <1>9
<1> QED BY <1>3, <1>7, <1>10 DEF money

LEMMA DealtSound ==
  ASSUME NEW o, SoundOrder(o), NEW p \in Nat, NEW amount \in Nat, amount <= o.left,
         o.side = "BUY" => p <= o.price
  PROVE /\ (p * amount) \div D \in Nat
        /\ (IF o.side = "BUY" THEN (p * amount) \div D ELSE amount) <= o.freeze
        /\ SoundOrder(Dealt(o, amount, (p * amount) \div D))
<1> DEFINE money == (p * amount) \div D
           r == Dealt(o, amount, money)
           part == IF o.side = "BUY" THEN money ELSE amount
<1>1. o \in Order /\ o.left + o.dealStock = o.qty
      /\ o.left \in Nat /\ o.freeze \in Nat /\ o.dealStock \in Nat /\ o.dealMoney \in Nat
      /\ o.price \in Nat /\ o.qty \in Nat \ {0}
  BY OrderFields DEF SoundOrder
<1>2. money \in Nat
  <2>1. p * amount \in Nat
    BY ProductNat
  <2>2. D \in Nat \ {0}
    BY MarketAssumption
  <2> QED BY <2>1, <2>2, DivBounds
<1>3. /\ part \in Nat /\ part <= o.freeze
      /\ IF o.side = "BUY" THEN D * (o.freeze - part) >= o.price * (o.left - amount)
                           ELSE o.freeze - part = o.left - amount
  <2>1. CASE o.side = "BUY"
    <3>1. D * o.freeze >= o.price * o.left
      BY <2>1 DEF SoundOrder
    <3>2. money <= o.freeze /\ D * (o.freeze - money) >= o.price * (o.left - amount)
      BY <1>1, <2>1, <3>1, PaymentCovered
    <3> HIDE DEF money
    <3> QED BY <1>2, <2>1, <3>2
  <2>2. CASE o.side # "BUY"
    BY <1>1, <2>2 DEF SoundOrder
  <2> QED BY <2>1, <2>2
<1> HIDE DEF money
<1>4. /\ r.left = o.left - amount /\ r.freeze = o.freeze - part
      /\ r.dealStock = o.dealStock + amount /\ r.dealMoney = o.dealMoney + money
      /\ r.side = o.side /\ r.price = o.price /\ r.qty = o.qty
      /\ r.tif = o.tif /\ r.feature = o.feature
  BY <1>1 DEF Dealt, Order
<1>5. o.left - amount \in Nat /\ o.freeze - part \in Nat /\ o.dealStock + amount \in Nat
      /\ o.dealMoney + money \in Nat
  BY <1>1, <1>2, <1>3
<1>6. r \in Order
  <2> HIDE DEF part
  <2>1. r = [o EXCEPT !.left = @ - amount, !.freeze = @ - part,
                      !.dealStock = @ + amount, !.dealMoney = @ + money]
    BY DEF Dealt, part
  <2> HIDE DEF r
  <2> QED BY <1>1, <1>5, <2>1 DEF Order
<1> HIDE DEF part, r
<1>7. r.left + r.dealStock = r.qty
  BY <1>1, <1>4
<1>8. IF r.side = "BUY" THEN D * r.freeze >= r.price * r.left ELSE r.freeze = r.left
  BY <1>3, <1>4
<1>9. r.tif = "IOC" => r.feature = 0
  BY <1>4 DEF SoundOrder
<1> QED BY <1>2, <1>3, <1>6, <1>7, <1>8, <1>9 DEF SoundOrder, money, part, r

LEMMA ExchangeLedger ==
  ASSUME NEW b \in Ledger, NEW u \in Users, NEW v \in Users, NEW m \in Markets,
         NEW amount \in Nat, NEW money \in Nat
  PROVE /\ Exchange(b, u, v, m, amount, money) \in Ledger
        /\ \A d \in Denoms : Total(Exchange(b, u, v, m, amount, money), d) = Total(b, d)
<1> DEFINE thawed  == UnFreezeCoins(b, u, StockOf[m], amount)
           stocked == SendCoins(thawed, u, v, StockOf[m], amount)
           freed   == UnFreezeCoins(stocked, v, MoneyOf[m], money)
           paid    == SendCoins(freed, v, u, MoneyOf[m], money)
<1>1. StockOf[m] \in Denoms /\ MoneyOf[m] \in Denoms
  BY MarketAssumption
<1>2. thawed \in Ledger /\ \A d \in Denoms : Total(thawed, d) = Total(b, d)
  BY <1>1, UnFreezeLedger, UnFreezeTotal
<1> HIDE DEF thawed
<1>3. stocked \in Ledger /\ \A d \in Denoms : Total(stocked, d) = Total(thawed, d)
  BY <1>1, <1>2, SendLedger, SendTotal
<1> HIDE DEF stocked
<1>4. freed \in Ledger /\ \A d \in Denoms : Total(freed, d) = Total(stocked, d)
  BY <1>1, <1>3, UnFreezeLedger, UnFreezeTotal
<1> HIDE DEF freed
<1>5. paid \in Ledger /\ \A d \in Denoms : Total(paid, d) = Total(freed, d)
  BY <1>1, <1>4, SendLedger, SendTotal
<1>6. Exchange(b, u, v, m, amount, money) = paid
  BY DEF Exchange, freed, stocked, thawed
<1> HIDE DEF paid
<1> QED BY <1>2, <1>3, <1>4, <1>5, <1>6
-----------------------------------------------------------------------------
(* Escrow *)

LEMMA EscrowType ==
  ASSUME NEW o \in Order \cup {NoOrder}, NEW u \in Users, NEW d \in Denoms
  PROVE Escrow(o, u, d) \in Nat
BY OrderFields DEF Escrow

\* Creating an order freezes what it will hold back, if the sender can afford it.
LEMMA FreezeForOrderFrozen ==
  ASSUME NEW b \in Ledger, NEW o \in Order,
         ~IsForbidden(UsedDenom(o.side, o.market), o.sender),
         o.commission + o.feature # 0 => ~IsForbidden(CET, o.sender),
         o.commission + o.feature <= b.coins[o.sender][CET],
         LET used == UsedDenom(o.side, o.market)
         IN  o.freeze + (IF used = CET THEN o.commission + o.feature ELSE 0)
             <= b.coins[o.sender][used]
  PROVE \A v \in Users, e \in Denoms :
          FreezeForOrder(b, o).frozen[v][e] = b.frozen[v][e] + Escrow(o, v, e)
<1> DEFINE u == o.sender
           used == UsedDenom(o.side, o.market)
           x == FreezeCoins(b, u, used, o.freeze)
           y == FreezeCoins(x, u, CET, o.commission)
           z == FreezeCoins(y, u, CET, o.feature)
<1>1. /\ u \in Users /\ used \in Denoms /\ CET \in Denoms
      /\ o.freeze \in Nat /\ o.commission \in Nat /\ o.feature \in Nat
  BY OrderFields, BankAssumption
<1>2. /\ b.coins[u][used] \in Nat /\ b.coins[u][CET] \in Nat
      /\ \A v \in Users, e \in Denoms : b.frozen[v][e] \in Nat
  BY <1>1, LedgerFields
<1>3. /\ ~IsForbidden(used, u)
      /\ o.commission # 0 => ~IsForbidden(CET, u)
      /\ o.feature # 0 => ~IsForbidden(CET, u)
      /\ o.freeze <= b.coins[u][used]
  BY <1>1, <1>2
<1>4. Escrow(o, u, used) \in Nat /\ \A v \in Users, e \in Denoms :
        Escrow(o, v, e) = IF v # u THEN 0
                          ELSE (IF used = e THEN o.freeze ELSE 0)
                               + (IF e = CET THEN o.commission + o.feature ELSE 0)
  <2>1. o # NoOrder
    BY AbsentAssumption DEF Order
  <2> QED BY <1>1, <2>1, EscrowType DEF Escrow
<1>5. FreezeForOrder(b, o) = z
  BY DEF FreezeForOrder
<1>6. o.commission + o.feature <= b.coins[u][CET]
      /\ o.freeze + (IF used = CET THEN o.commission + o.feature ELSE 0) <= b.coins[u][used]
  OBVIOUS
<1> HIDE DEF used, u
<1>7. x \in Ledger /\ \A v \in Users, e \in Denoms :
        /\ x.frozen[v][e] = IF v = u /\ e = used THEN b.frozen[u][used] + o.freeze
                            ELSE b.frozen[v][e]
        /\ x.coins[v][e] = IF v = u /\ e = used THEN b.coins[u][used] - o.freeze
                           ELSE b.coins[v][e]
  BY <1>1, <1>3, FreezeLedger, FreezeFrozen, SMTT(30)
<1> HIDE DEF x
<1>8. o.commission + o.feature <= x.coins[u][CET] /\ x.coins[u][CET] \in Nat
  BY <1>1, <1>2, <1>6, <1>7
<1>9. y \in Ledger /\ \A v \in Users, e \in Denoms :
        /\ y.frozen[v][e] = IF v = u /\ e = CET THEN x.frozen[u][CET] + o.commission
                            ELSE x.frozen[v][e]
        /\ y.coins[v][e] = IF v = u /\ e = CET THEN x.coins[u][CET] - o.commission
                           ELSE x.coins[v][e]
  <2>1. o.commission <= x.coins[u][CET]
    BY <1>1, <1>8
  <2>2. x \in Ledger
    BY <1>7
  <2>3. y \in Ledger
    BY <1>1, <2>2, FreezeLedger
  <2>4. \A v \in Users, e \in Denoms :
          /\ y.frozen[v][e] = IF v = u /\ e = CET THEN x.frozen[u][CET] + o.commission
                              ELSE x.frozen[v][e]
          /\ y.coins[v][e] = IF v = u /\ e = CET THEN x.coins[u][CET] - o.commission
                             ELSE x.coins[v][e]
    BY <1>1, <1>3, <2>1, <2>2, FreezeFrozen
  <2> QED BY <2>3, <2>4
<1> HIDE DEF y
<1>10. o.feature <= y.coins[u][CET]
  BY <1>1, <1>8, <1>9
<1>11. \A v \in Users, e \in Denoms :
         z.frozen[v][e] = IF v = u /\ e = CET THEN y.frozen[u][CET] + o.feature
                          ELSE y.frozen[v][e]
  BY <1>1, <1>3, <1>9, <1>10, FreezeFrozen
<1> HIDE DEF z
<1>12. \A v \in Users, e \in Denoms : z.frozen[v][e] = b.frozen[v][e] + Escrow(o, v, e)
  BY <1>1, <1>2, <1>4, <1>7, <1>9, <1>11
<1> QED BY <1>5, <1>12

\* Removing an order returns what it holds back, if the account has that frozen.
LEMMA RefundFrozen ==
  ASSUME NEW b \in Ledger, NEW o, SoundOrder(o), NEW h \in Nat,
         \A e \in Denoms : Escrow(o, o.sender, e) <= b.frozen[o.sender][e]
  PROVE \A v \in Users, e \in Denoms :
          Refund(b, o, h).frozen[v][e] = b.frozen[v][e] - Escrow(o, v, e)
<1> DEFINE u == o.sender
           used == UsedDenom(o.side, o.market)
           x == UnFreezeCoins(b, u, used, o.freeze)
           y == IF o.commission = 0 THEN x
                ELSE ChargeFee(UnFreezeCoins(x, u, CET, o.commission),
                               u, CalActualOrderCommission(o))
           z == IF o.tif # "GTE" \/ o.feature = 0 THEN y
                ELSE ChargeFee(UnFreezeCoins(y, u, CET, o.feature),
                               u, CalActualOrderFeatureFee(o, h))
<1>1. /\ o \in Order /\ u \in Users /\ used \in Denoms /\ CET \in Denoms
      /\ o.freeze \in Nat /\ o.commission \in Nat /\ o.feature \in Nat
      /\ o.tif # "GTE" => o.feature = 0
  BY OrderFields, BankAssumption DEF SoundOrder
<1>2. \A v \in Users, e \in Denoms : b.frozen[v][e] \in Nat
  BY LedgerFields
<1>3. \A v \in Users, e \in Denoms :
        Escrow(o, v, e) = IF v # u THEN 0
                          ELSE (IF used = e THEN o.freeze ELSE 0)
                               + (IF e = CET THEN o.commission + o.feature ELSE 0)
  <2>1. o # NoOrder
    BY <1>1, AbsentAssumption DEF Order
  <2> QED BY <2>1 DEF Escrow
<1>4. Refund(b, o, h) = z
  BY Zenon DEF Refund
<1>5. /\ Escrow(o, u, used) <= b.frozen[u][used] /\ Escrow(o, u, CET) <= b.frozen[u][CET]
      /\ CalActualOrderCommission(o) \in Nat /\ CalActualOrderFeatureFee(o, h) \in Nat
  BY <1>1, ActualCommissionType, ActualFeatureFeeType
<1> HIDE DEF used, u
<1>6. x \in Ledger /\ \A v \in Users, e \in Denoms :
        x.frozen[v][e] = IF v = u /\ e = used THEN b.frozen[u][used] - o.freeze
                         ELSE b.frozen[v][e]
  <2>1. o.freeze <= b.frozen[u][used]
    BY <1>1, <1>2, <1>3, <1>5
  <2> QED BY <1>1, <2>1, UnFreezeLedger, UnFreezeFrozen, SMTT(30)
<1> HIDE DEF x
<1>7. o.commission + o.feature <= x.frozen[u][CET] /\ x.frozen[u][CET] \in Nat
  BY <1>1, <1>2, <1>3, <1>5, <1>6, LedgerFields
<1>8. y \in Ledger /\ \A v \in Users, e \in Denoms :
        y.frozen[v][e] = IF v = u /\ e = CET THEN x.frozen[u][CET] - o.commission
                         ELSE x.frozen[v][e]
  <2>1. CASE o.commission = 0
    BY <1>6, <1>7, <2>1
  <2>2. CASE o.commission # 0
    <3>1. o.commission <= x.frozen[u][CET]
      BY <1>1, <1>7
    <3>2. \A v \in Users, e \in Denoms :
            UnFreezeCoins(x, u, CET, o.commission).frozen[v][e]
            = IF v = u /\ e = CET THEN x.frozen[u][CET] - o.commission ELSE x.frozen[v][e]
      BY <1>1, <1>6, <3>1, UnFreezeFrozen
    <3>3. y = ChargeFee(UnFreezeCoins(x, u, CET, o.commission), u, CalActualOrderCommission(o))
      BY <2>2
    <3> HIDE DEF y
    <3>4. y \in Ledger /\ y.frozen = UnFreezeCoins(x, u, CET, o.commission).frozen
      <4>1. /\ x \in Ledger /\ u \in Users /\ o.commission \in Nat
            /\ CalActualOrderCommission(o) \in Nat
        BY <1>1, <1>5, <1>6
      <4> QED BY <3>3, <4>1, UnFreezeAndCharge, Zenon
    <3> QED BY <3>2, <3>4
  <2> QED BY <2>1, <2>2
<1> HIDE DEF y
<1>9. o.feature <= y.frozen[u][CET] /\ y.frozen[u][CET] \in Nat
  BY <1>1, <1>7, <1>8
<1>10. \A v \in Users, e \in Denoms :
         z.frozen[v][e] = IF v = u /\ e = CET THEN y.frozen[u][CET] - o.feature
                          ELSE y.frozen[v][e]
  <2>1. CASE o.feature = 0
    BY <1>9, <2>1
  <2>2. CASE o.feature # 0
    <3>1. \A v \in Users, e \in Denoms :
            UnFreezeCoins(y, u, CET, o.feature).frozen[v][e]
            = IF v = u /\ e = CET THEN y.frozen[u][CET] - o.feature ELSE y.frozen[v][e]
      BY <1>1, <1>8, <1>9, UnFreezeFrozen
    <3>2. z = ChargeFee(UnFreezeCoins(y, u, CET, o.feature), u, CalActualOrderFeatureFee(o, h))
      BY <1>1, <2>2
    <3> HIDE DEF z
    <3>3. z.frozen = UnFreezeCoins(y, u, CET, o.feature).frozen
      <4>1. /\ y \in Ledger /\ u \in Users /\ o.feature \in Nat
            /\ CalActualOrderFeatureFee(o, h) \in Nat
        BY <1>1, <1>5, <1>8
      <4> QED BY <3>2, <4>1, UnFreezeAndCharge, Zenon
    <3> QED BY <3>1, <3>3
  <2> QED BY <2>1, <2>2
<1> HIDE DEF z
<1>11. \A v \in Users, e \in Denoms : z.frozen[v][e] = b.frozen[v][e] - Escrow(o, v, e)
  BY <1>1, <1>2, <1>3, <1>6, <1>8, <1>10
<1> QED BY <1>4, <1>11

LEMMA ExchangeFrozen ==
  ASSUME NEW b \in Ledger, NEW u \in Users, NEW v \in Users, NEW m \in Markets,
         NEW amount \in Nat, NEW money \in Nat,
         amount <= b.frozen[u][StockOf[m]], money <= b.frozen[v][MoneyOf[m]]
  PROVE \A w \in Users, e \in Denoms :
          Exchange(b, u, v, m, amount, money).frozen[w][e]
          = b.frozen[w][e] - (IF w = u /\ e = StockOf[m] THEN amount ELSE 0)
                           - (IF w = v /\ e = MoneyOf[m] THEN money ELSE 0)
<1> DEFINE thawed  == UnFreezeCoins(b, u, StockOf[m], amount)
           stocked == SendCoins(thawed, u, v, StockOf[m], amount)
           freed   == UnFreezeCoins(stocked, v, MoneyOf[m], money)
           paid    == SendCoins(freed, v, u, MoneyOf[m], money)
<1>1. StockOf[m] \in Denoms /\ MoneyOf[m] \in Denoms /\ StockOf[m] # MoneyOf[m]
  BY MarketAssumption
<1>2. \A w \in Users, e \in Denoms : b.frozen[w][e] \in Nat
  BY LedgerFields
<1>3. thawed \in Ledger /\ \A w \in Users, e \in Denoms :
        thawed.frozen[w][e] = IF w = u /\ e = StockOf[m] THEN b.frozen[u][StockOf[m]] - amount
                              ELSE b.frozen[w][e]
  BY <1>1, UnFreezeLedger, UnFreezeFrozen, SMTT(30)
<1> HIDE DEF thawed
<1>4. stocked \in Ledger /\ stocked.frozen = thawed.frozen
  BY <1>1, <1>3, SendLedger
<1> HIDE DEF stocked
<1>5. freed \in Ledger /\ \A w \in Users, e \in Denoms :
        freed.frozen[w][e] = IF w = v /\ e = MoneyOf[m] THEN stocked.frozen[v][MoneyOf[m]] - money
                             ELSE stocked.frozen[w][e]
  <2>1. money <= stocked.frozen[v][MoneyOf[m]]
    BY <1>1, <1>3, <1>4
  <2>2. stocked \in Ledger
    BY <1>4
  <2>3. freed \in Ledger
    BY <1>1, <2>2, UnFreezeLedger
  <2>4. \A w \in Users, e \in Denoms :
          freed.frozen[w][e] = IF w = v /\ e = MoneyOf[m]
                               THEN stocked.frozen[v][MoneyOf[m]] - money
                               ELSE stocked.frozen[w][e]
    BY <1>1, <2>1, <2>2, UnFreezeFrozen
  <2> QED BY <2>3, <2>4
<1> HIDE DEF freed
<1>6. paid.frozen = freed.frozen
  BY <1>1, <1>5, SendLedger
<1>7. Exchange(b, u, v, m, amount, money) = paid
  BY DEF Exchange, freed, stocked, thawed
<1> HIDE DEF paid
<1>8. \A w \in Users, e \in Denoms :
        paid.frozen[w][e]
        = b.frozen[w][e] - (IF w = u /\ e = StockOf[m] THEN amount ELSE 0)
                         - (IF w = v /\ e = MoneyOf[m] THEN money ELSE 0)
  BY <1>1, <1>2, <1>3, <1>4, <1>5, <1>6
<1> QED BY <1>7, <1>8
=============================================================================
