---------------------------- MODULE WalletProofs ----------------------------
(* What holds of every token, wallet and profile, for every value of the      *)
(* constants.  The argument about coins: a token's supply is the sum of three *)
(* columns, spendable, frozen and locked, and of what modules collected; an   *)
(* action is characterised by what it adds to the sum of each, and the sums   *)
(* change alike.  The argument about time: between blocks the unlock queue    *)
(* and the lists tell the same; while EndBlocker works only the entries it    *)
(* has yet to visit may be without a coin.                                    *)
EXTENDS Profiles, SumLemmas
-----------------------------------------------------------------------------
(* Columns of a ledger *)

Balances == [Users -> [Denoms -> Nat]]
IntBalances == [Users -> [Denoms -> Int]]

Column(w, d) == [u \in Users |-> w[u][d]]
ColumnSum(w, d) == SumTo(Column(w, d), NumUsers)

LEMMA ConstantTypes ==
  /\ NumUsers \in Nat /\ NumUsers # 0 /\ CET \in Denoms /\ Users = 1..NumUsers /\ 0 \notin Users
  /\ ActivationFee \in Nat /\ IssueFee \in Nat /\ AliasFee \in Nat
BY AssetsAssumption, WalletsAssumption, ProfilesAssumption DEF Users

LEMMA BalancesAreInt ==
  ASSUME NEW w \in Balances
  PROVE w \in IntBalances /\ \A u \in Users, d \in Denoms : w[u][d] \in Nat
BY DEF Balances, IntBalances

LEMMA BalancesFromEntries ==
  ASSUME NEW w \in IntBalances, \A u \in Users, d \in Denoms : w[u][d] >= 0
  PROVE w \in Balances
<1>1. ASSUME NEW u \in Users PROVE w[u] \in [Denoms -> Nat]
  <2>1. w[u] \in [Denoms -> Int]
    BY DEF IntBalances
  <2>2. \A d \in Denoms : w[u][d] \in Nat
    BY <2>1
  <2> QED BY <2>1, <2>2
<1> QED BY <1>1 DEF Balances, IntBalances

LEMMA CreditEntries ==
  ASSUME NEW w \in IntBalances, NEW u \in Users, NEW d \in Denoms, NEW n \in Int
  PROVE /\ Credit(w, u, d, n) \in IntBalances
        /\ \A v \in Users, e \in Denoms :
             Credit(w, u, d, n)[v][e] = IF v = u /\ e = d THEN w[v][e] + n ELSE w[v][e]
BY DEF Credit, IntBalances

LEMMA DebitEntries ==
  ASSUME NEW w \in IntBalances, NEW u \in Users, NEW d \in Denoms, NEW n \in Int
  PROVE /\ Debit(w, u, d, n) \in IntBalances
        /\ \A v \in Users, e \in Denoms :
             Debit(w, u, d, n)[v][e] = IF v = u /\ e = d THEN w[v][e] - n ELSE w[v][e]
BY DEF Debit, IntBalances

LEMMA ColumnEntries ==
  ASSUME NEW w \in IntBalances, NEW d \in Denoms
  PROVE /\ \A u \in 1..NumUsers : Column(w, d)[u] = w[u][d] /\ Column(w, d)[u] \in Int
        /\ ColumnSum(w, d) \in Int
<1>1. \A u \in 1..NumUsers : Column(w, d)[u] = w[u][d] /\ Column(w, d)[u] \in Int
  BY DEF Column, IntBalances, Users
<1> QED BY <1>1, ConstantTypes, SumInt DEF ColumnSum

\* one entry that changes moves its column's sum as much
LEMMA ColumnUpdate ==
  ASSUME NEW w \in IntBalances, NEW v \in IntBalances, NEW u \in Users, NEW d \in Denoms,
         \A x \in Users \ {u} : v[x][d] = w[x][d]
  PROVE ColumnSum(v, d) = ColumnSum(w, d) + (v[u][d] - w[u][d])
<1> DEFINE f == Column(w, d)
           g == Column(v, d)
<1>1. /\ NumUsers \in Nat /\ u \in 1..NumUsers
      /\ \A i \in 1..NumUsers : f[i] \in Int
      /\ g[u] \in Int
      /\ \A i \in (1..NumUsers) \ {u} : g[i] = f[i]
  BY ConstantTypes, ColumnEntries
<1>2. f[u] = w[u][d] /\ g[u] = v[u][d]
  BY <1>1, ColumnEntries
<1>3. SumTo(g, NumUsers) = SumTo(f, NumUsers) + g[u] - f[u]
  <2> HIDE DEF f, g
  <2> QED BY <1>1, SumUpdate
<1>4. SumTo(f, NumUsers) \in Int /\ f[u] \in Int /\ g[u] \in Int
  <2> HIDE DEF f, g
  <2> QED BY <1>1, SumInt
<1> HIDE DEF f, g
<1>5. SumTo(g, NumUsers) = SumTo(f, NumUsers) + (g[u] - f[u])
  BY <1>3, <1>4
<1> QED BY <1>2, <1>5 DEF f, g, ColumnSum

LEMMA ColumnSame ==
  ASSUME NEW w \in IntBalances, NEW v \in IntBalances, NEW d \in Denoms,
         \A x \in Users : v[x][d] = w[x][d]
  PROVE ColumnSum(v, d) = ColumnSum(w, d)
<1>1. \A i \in 1..NumUsers : Column(w, d)[i] \in Int /\ Column(v, d)[i] = Column(w, d)[i]
  BY ColumnEntries, ConstantTypes
<1>2. NumUsers \in Nat
  BY ConstantTypes
<1> QED BY <1>1, <1>2, SumCongruence DEF ColumnSum

LEMMA CreditSum ==
  ASSUME NEW w \in IntBalances, NEW u \in Users, NEW d \in Denoms, NEW n \in Int,
         NEW e \in Denoms
  PROVE ColumnSum(Credit(w, u, d, n), e) = ColumnSum(w, e) + (IF e = d THEN n ELSE 0)
<1> DEFINE v == Credit(w, u, d, n)
<1>1. v \in IntBalances /\ \A x \in Users, f \in Denoms :
        v[x][f] = IF x = u /\ f = d THEN w[x][f] + n ELSE w[x][f]
  BY CreditEntries
<1>2. w[u][e] \in Int /\ ColumnSum(w, e) \in Int
  BY ColumnEntries DEF IntBalances
<1> HIDE DEF v
<1>3. ColumnSum(v, e) = ColumnSum(w, e) + (v[u][e] - w[u][e])
  <2>1. \A x \in Users \ {u} : v[x][e] = w[x][e]
    BY <1>1
  <2> QED BY <1>1, <2>1, ColumnUpdate
<1>4. v[u][e] = IF e = d THEN w[u][e] + n ELSE w[u][e]
  BY <1>1
<1> QED BY <1>2, <1>3, <1>4 DEF v

LEMMA DebitSum ==
  ASSUME NEW w \in IntBalances, NEW u \in Users, NEW d \in Denoms, NEW n \in Int,
         NEW e \in Denoms
  PROVE ColumnSum(Debit(w, u, d, n), e) = ColumnSum(w, e) - (IF e = d THEN n ELSE 0)
<1> DEFINE v == Debit(w, u, d, n)
<1>1. v \in IntBalances /\ \A x \in Users, f \in Denoms :
        v[x][f] = IF x = u /\ f = d THEN w[x][f] - n ELSE w[x][f]
  BY DebitEntries
<1>2. w[u][e] \in Int /\ ColumnSum(w, e) \in Int
  BY ColumnEntries DEF IntBalances
<1> HIDE DEF v
<1>3. ColumnSum(v, e) = ColumnSum(w, e) + (v[u][e] - w[u][e])
  <2>1. \A x \in Users \ {u} : v[x][e] = w[x][e]
    BY <1>1
  <2> QED BY <1>1, <2>1, ColumnUpdate
<1>4. v[u][e] = IF e = d THEN w[u][e] - n ELSE w[u][e]
  BY <1>1
<1> QED BY <1>2, <1>3, <1>4 DEF v

\* the same of a ledger that is one with a credit, or a debit
LEMMA CreditIs ==
  ASSUME NEW w \in IntBalances, NEW u \in Users, NEW d \in Denoms, NEW n \in Int,
         NEW v, v = Credit(w, u, d, n)
  PROVE /\ v \in IntBalances
        /\ \A x \in Users, e \in Denoms : v[x][e] = IF x = u /\ e = d THEN w[x][e] + n ELSE w[x][e]
        /\ \A e \in Denoms : ColumnSum(v, e) = ColumnSum(w, e) + (IF e = d THEN n ELSE 0)
BY CreditEntries, CreditSum

LEMMA DebitIs ==
  ASSUME NEW w \in IntBalances, NEW u \in Users, NEW d \in Denoms, NEW n \in Int,
         NEW v, v = Debit(w, u, d, n)
  PROVE /\ v \in IntBalances
        /\ \A x \in Users, e \in Denoms : v[x][e] = IF x = u /\ e = d THEN w[x][e] - n ELSE w[x][e]
        /\ \A e \in Denoms : ColumnSum(v, e) = ColumnSum(w, e) - (IF e = d THEN n ELSE 0)
BY DebitEntries, DebitSum

LEMMA ColumnNat ==
  ASSUME NEW w \in Balances, NEW d \in Denoms
  PROVE ColumnSum(w, d) \in Nat /\ \A u \in Users : w[u][d] <= ColumnSum(w, d)
<1>1. NumUsers \in Nat /\ \A u \in 1..NumUsers : Column(w, d)[u] = w[u][d] /\ Column(w, d)[u] \in Nat
  BY ConstantTypes DEF Column, Balances
<1> QED BY <1>1, ConstantTypes, SumNat, SumBoundsTerm DEF ColumnSum
-----------------------------------------------------------------------------
(* Locked coins *)

\* the value of a locked coin for denom d, and the coins of all lists
InDenom(d) == [c \in LockedCoin |-> IF c.denom = d THEN c.amount ELSE 0]

LockColumn(l, d) == [u \in Users |-> ValueSum(l[u], InDenom(d))]
LockSum(l, d) == SumTo(LockColumn(l, d), NumUsers)

Lists == [Users -> Seq(LockedCoin)]

LEMMA InDenomType ==
  ASSUME NEW d
  PROVE /\ InDenom(d) \in [LockedCoin -> Nat] /\ InDenom(d) \in [LockedCoin -> Int]
        /\ \A c \in LockedCoin : InDenom(d)[c] = IF c.denom = d THEN c.amount ELSE 0
BY DEF InDenom, LockedCoin

\* LockedAmount is the sum of a column's entry
LEMMA LockedAmountOf ==
  ASSUME NEW l \in Lists, NEW u \in Users, NEW d
  PROVE /\ SumTo([k \in DOMAIN l[u] |-> IF l[u][k].denom = d THEN l[u][k].amount ELSE 0],
                 Len(l[u])) = ValueSum(l[u], InDenom(d))
        /\ ValueSum(l[u], InDenom(d)) \in Nat
<1> DEFINE s == l[u]
<1>1. s \in Seq(LockedCoin)
  BY DEF Lists
<1> HIDE DEF s
<1> DEFINE f == [k \in DOMAIN s |-> InDenom(d)[s[k]]]
           g == [k \in DOMAIN s |-> IF s[k].denom = d THEN s[k].amount ELSE 0]
<1>2. Len(s) \in Nat /\ DOMAIN s = 1..Len(s) /\ \A k \in 1..Len(s) : s[k] \in LockedCoin
  BY <1>1
<1>3. \A k \in 1..Len(s) : f[k] \in Int /\ g[k] = f[k]
  BY <1>2, InDenomType
<1>4. SumTo(g, Len(s)) = SumTo(f, Len(s))
  <2> HIDE DEF f, g
  <2> QED BY <1>2, <1>3, SumCongruence
<1>5. ValueSum(s, InDenom(d)) \in Nat
  BY <1>1, InDenomType, ValueSumNat
<1> QED BY <1>4, <1>5 DEF ValueSum, s

LEMMA LockColumnNat ==
  ASSUME NEW l \in Lists, NEW d
  PROVE /\ \A u \in 1..NumUsers : LockColumn(l, d)[u] = ValueSum(l[u], InDenom(d))
                                  /\ LockColumn(l, d)[u] \in Nat
        /\ LockSum(l, d) \in Nat
        /\ \A u \in Users : ValueSum(l[u], InDenom(d)) <= LockSum(l, d)
<1>1. \A u \in 1..NumUsers : LockColumn(l, d)[u] = ValueSum(l[u], InDenom(d))
                                  /\ LockColumn(l, d)[u] \in Nat
  BY LockedAmountOf, ConstantTypes DEF LockColumn
<1> QED BY <1>1, ConstantTypes, SumNat, SumBoundsTerm DEF LockSum

\* when one list changes
LEMMA LockUpdate ==
  ASSUME NEW l \in Lists, NEW u \in Users, NEW s \in Seq(LockedCoin), NEW d
  PROVE LockSum([l EXCEPT ![u] = s], d)
          = LockSum(l, d) + (ValueSum(s, InDenom(d)) - ValueSum(l[u], InDenom(d)))
<1> DEFINE m == [l EXCEPT ![u] = s]
           f == LockColumn(l, d)
           g == LockColumn(m, d)
<1>1. m \in Lists /\ m[u] = s /\ \A v \in Users \ {u} : m[v] = l[v]
  BY DEF Lists
<1>2. /\ NumUsers \in Nat /\ u \in 1..NumUsers
      /\ \A i \in 1..NumUsers : f[i] \in Int
      /\ f[u] = ValueSum(l[u], InDenom(d))
  BY ConstantTypes, LockColumnNat
<1>3. \A i \in 1..NumUsers : g[i] = ValueSum(m[i], InDenom(d)) /\ g[i] \in Int
  <2> HIDE DEF m
  <2> QED BY <1>1, LockColumnNat
<1>4. g[u] = ValueSum(s, InDenom(d)) /\ g[u] \in Int
      /\ \A i \in (1..NumUsers) \ {u} : g[i] = f[i]
  <2>1. \A i \in (1..NumUsers) \ {u} : m[i] = l[i] /\ f[i] = ValueSum(l[i], InDenom(d))
    BY <1>1, ConstantTypes, LockColumnNat
  <2> HIDE DEF m, f, g
  <2> QED BY <1>1, <1>2, <1>3, <2>1
<1> HIDE DEF f, g
<1>5. SumTo(g, NumUsers) = SumTo(f, NumUsers) + g[u] - f[u]
  BY <1>2, <1>4, SumUpdate
<1>6. SumTo(f, NumUsers) \in Int /\ f[u] \in Int /\ g[u] \in Int
  BY <1>2, <1>4, SumInt
<1>7. SumTo(g, NumUsers) = SumTo(f, NumUsers) + (g[u] - f[u])
  BY <1>5, <1>6
<1> QED BY <1>2, <1>4, <1>7 DEF f, g, LockSum
-----------------------------------------------------------------------------
(* The invariant about coins *)

WalletTypes ==
  /\ tokens \in [Denoms -> Token \cup {NoToken}]
  /\ coins \in Balances /\ frozen \in Balances /\ locked \in Lists
  /\ collected \in Nat /\ accounts \subseteq Users /\ now \in Nat

FeesIn(d, n) == IF d = CET THEN n ELSE 0

SupplyOf(t) == IF t = NoToken THEN 0 ELSE t.supply

\* what there is of d, and what its token says
Counted(d) ==
  /\ ColumnSum(coins, d) + ColumnSum(frozen, d) + LockSum(locked, d) + FeesIn(d, collected)
       = SupplyOf(tokens[d])
  /\ Exists(d) => tokens[d].sendLock = LockSum(locked, d)

MoneyInv == WalletTypes /\ (\A d \in Denoms : Counted(d)) /\ TokensValid

LEMMA TokenFields ==
  ASSUME NEW t \in Token
  PROVE /\ t # NoToken /\ t.owner \in Users /\ t.supply \in Nat /\ t.supply > 0
        /\ t.mint \in Nat /\ t.burn \in Nat /\ t.sendLock \in Nat
        /\ t.mintable \in BOOLEAN /\ t.burnable \in BOOLEAN /\ t.addrForbiddable \in BOOLEAN
        /\ t.tokenForbiddable \in BOOLEAN /\ t.forbidden \in BOOLEAN
<1>1. t # NoToken
  BY AssetsAssumption
<1> QED BY <1>1 DEF Token

LEMMA WithSendLock ==
  ASSUME NEW t \in Token, NEW n \in Nat
  PROVE /\ [t EXCEPT !.sendLock = n] \in Token
        /\ [t EXCEPT !.sendLock = n].sendLock = n
        /\ n = t.sendLock => [t EXCEPT !.sendLock = n] = t
BY DEF Token

LEMMA TotalCoinsOf ==
  ASSUME WalletTypes, NEW u \in Users, NEW d \in Denoms
  PROVE /\ LockedAmount(u, d) = ValueSum(locked[u], InDenom(d))
        /\ LockedAmount(u, d) \in Nat
        /\ GetTotalCoins(u, d) = coins[u][d] + frozen[u][d] + LockedAmount(u, d)
        /\ GetTotalCoins(u, d) \in Nat /\ coins[u][d] \in Nat /\ frozen[u][d] \in Nat
<1>1. LockedAmount(u, d) = ValueSum(locked[u], InDenom(d)) /\ LockedAmount(u, d) \in Nat
  <2>1. locked \in Lists
    BY DEF WalletTypes
  <2>2. /\ SumTo([k \in DOMAIN locked[u] |-> IF locked[u][k].denom = d THEN locked[u][k].amount ELSE 0],
                 Len(locked[u])) = ValueSum(locked[u], InDenom(d))
        /\ ValueSum(locked[u], InDenom(d)) \in Nat
    BY <2>1, LockedAmountOf
  <2> QED BY <2>2, Zenon DEF LockedAmount
<1>2. coins[u][d] \in Nat /\ frozen[u][d] \in Nat
  BY BalancesAreInt DEF WalletTypes
<1> QED BY <1>1, <1>2 DEF GetTotalCoins

LEMMA HeldSum ==
  ASSUME WalletTypes, NEW d \in Denoms
  PROVE /\ SumTo([u \in Users |-> GetTotalCoins(u, d)], NumUsers)
             = ColumnSum(coins, d) + ColumnSum(frozen, d) + LockSum(locked, d)
        /\ SumTo([u \in Users |-> LockedAmount(u, d)], NumUsers) = LockSum(locked, d)
        /\ ColumnSum(coins, d) \in Nat /\ ColumnSum(frozen, d) \in Nat /\ LockSum(locked, d) \in Nat
<1> DEFINE a == Column(coins, d)
           b == Column(frozen, d)
           c == LockColumn(locked, d)
           e == [u \in 1..NumUsers |-> a[u] + b[u]]
           h == [u \in Users |-> GetTotalCoins(u, d)]
           l == [u \in Users |-> LockedAmount(u, d)]
<1>1. NumUsers \in Nat /\ Users = 1..NumUsers
  BY ConstantTypes
<1>2. \A u \in 1..NumUsers : a[u] = coins[u][d] /\ a[u] \in Int /\ b[u] = frozen[u][d] /\ b[u] \in Int
  BY BalancesAreInt, ColumnEntries DEF WalletTypes
<1>3. \A u \in 1..NumUsers : c[u] = ValueSum(locked[u], InDenom(d)) /\ c[u] \in Int
  BY LockColumnNat DEF WalletTypes
<1>4. \A u \in 1..NumUsers : l[u] = LockedAmount(u, d) /\ h[u] = GetTotalCoins(u, d)
                             /\ e[u] = a[u] + b[u] /\ e[u] \in Int
  BY <1>1, <1>2
<1>5. \A u \in 1..NumUsers : l[u] = c[u] /\ h[u] = e[u] + c[u] /\ h[u] \in Int
  BY <1>1, <1>2, <1>3, <1>4, TotalCoinsOf
<1>6. ColumnSum(coins, d) \in Nat /\ ColumnSum(frozen, d) \in Nat /\ LockSum(locked, d) \in Nat
  BY ColumnNat, LockColumnNat DEF WalletTypes
<1>7. ColumnSum(coins, d) = SumTo(a, NumUsers) /\ ColumnSum(frozen, d) = SumTo(b, NumUsers)
      /\ LockSum(locked, d) = SumTo(c, NumUsers)
  BY DEF ColumnSum, LockSum
<1>8. /\ SumTo(e, NumUsers) = SumTo(a, NumUsers) + SumTo(b, NumUsers)
      /\ SumTo(h, NumUsers) = SumTo(e, NumUsers) + SumTo(c, NumUsers)
      /\ SumTo(l, NumUsers) = SumTo(c, NumUsers)
  <2> HIDE DEF a, b, c, e, h, l
  <2>1. \A i \in 1..NumUsers : a[i] \in Int /\ b[i] \in Int /\ e[i] = a[i] + b[i]
    BY <1>2, <1>4
  <2>2. \A i \in 1..NumUsers : e[i] \in Int /\ c[i] \in Int /\ h[i] = e[i] + c[i]
    BY <1>3, <1>4, <1>5
  <2>3. \A i \in 1..NumUsers : c[i] \in Int /\ l[i] = c[i]
    BY <1>3, <1>5
  <2>4. SumTo(e, NumUsers) = SumTo(a, NumUsers) + SumTo(b, NumUsers)
    BY <1>1, <2>1, SumAdd
  <2>5. SumTo(h, NumUsers) = SumTo(e, NumUsers) + SumTo(c, NumUsers)
    BY <1>1, <2>2, SumAdd
  <2>6. SumTo(l, NumUsers) = SumTo(c, NumUsers)
    BY <1>1, <2>3, SumCongruence
  <2> QED BY <2>4, <2>5, <2>6
<1> HIDE DEF a, b, c, e
<1> QED BY <1>6, <1>7, <1>8

\* What the invariant says of the two figures is what the properties say.
LEMMA MoneyInvGives ==
  MoneyInv => SupplyExact /\ SendLockExact /\ TokensValid
<1> SUFFICES ASSUME MoneyInv PROVE SupplyExact /\ SendLockExact
  BY DEF MoneyInv
<1>1. WalletTypes /\ \A d \in Denoms : Counted(d)
  BY DEF MoneyInv
<1>2. SupplyExact
  <2> SUFFICES ASSUME NEW d \in Denoms
      PROVE SumTo([u \in Users |-> GetTotalCoins(u, d)], NumUsers)
              + (IF d = CET THEN collected ELSE 0)
            = IF Exists(d) THEN tokens[d].supply ELSE 0
    BY DEF SupplyExact
  <2> DEFINE s == SumTo([u \in Users |-> GetTotalCoins(u, d)], NumUsers)
  <2>1. s = ColumnSum(coins, d) + ColumnSum(frozen, d) + LockSum(locked, d)
    BY <1>1, HeldSum
  <2> HIDE DEF s
  <2>2. s + (IF d = CET THEN collected ELSE 0) = IF Exists(d) THEN tokens[d].supply ELSE 0
    BY <1>1, <2>1 DEF Counted, FeesIn, SupplyOf, Exists
  <2> QED BY <2>2 DEF s
<1>3. SendLockExact
  BY <1>1, HeldSum DEF SendLockExact, Counted
<1> QED BY <1>2, <1>3

LEMMA TokenOf ==
  ASSUME WalletTypes, NEW d \in Denoms, Exists(d)
  PROVE tokens[d] \in Token
BY DEF WalletTypes, Exists

\* Only what exists is held.
LEMMA NothingOfNoToken ==
  ASSUME MoneyInv, NEW d \in Denoms, ~Exists(d)
  PROVE /\ ColumnSum(coins, d) = 0 /\ ColumnSum(frozen, d) = 0 /\ LockSum(locked, d) = 0
        /\ FeesIn(d, collected) = 0
<1>1. ColumnSum(coins, d) \in Nat /\ ColumnSum(frozen, d) \in Nat /\ LockSum(locked, d) \in Nat
      /\ FeesIn(d, collected) \in Nat
  BY HeldSum DEF MoneyInv, WalletTypes, FeesIn
<1>2. ColumnSum(coins, d) + ColumnSum(frozen, d) + LockSum(locked, d) + FeesIn(d, collected) = 0
  BY DEF MoneyInv, Counted, SupplyOf, Exists
<1>3. \A a, b, c, e \in Nat : a + b + c + e = 0 => a = 0 /\ b = 0 /\ c = 0 /\ e = 0
  OBVIOUS
<1> QED BY <1>1, <1>2, <1>3

LEMMA LockedExists ==
  ASSUME MoneyInv, NEW u \in Users, NEW k \in 1..Len(locked[u])
  PROVE /\ locked[u][k] \in LockedCoin /\ Exists(locked[u][k].denom)
        /\ locked[u][k].amount <= LockSum(locked, locked[u][k].denom)
<1> DEFINE c == locked[u][k]
           s == locked[u]
           val == InDenom(c.denom)
<1>1. locked \in Lists /\ s \in Seq(LockedCoin)
  BY DEF MoneyInv, WalletTypes, Lists
<1>2. c \in LockedCoin
  BY <1>1
<1>3. c.amount \in Nat /\ c.amount > 0 /\ c.denom \in Denoms
  BY <1>2 DEF LockedCoin
<1>4. val[c] = c.amount
  BY <1>2, InDenomType
<1>5. val[s[k]] <= ValueSum(s, val) /\ ValueSum(s, val) \in Nat
  <2>1. val \in [LockedCoin -> Nat]
    BY InDenomType
  <2> HIDE DEF s, val
  <2> QED BY <1>1, <2>1, ValueSumNat DEF s
<1>6. ValueSum(s, val) <= LockSum(locked, c.denom) /\ LockSum(locked, c.denom) \in Nat
  BY <1>1, LockColumnNat
<1>7. c.amount <= LockSum(locked, c.denom)
  <2>1. val[c] <= ValueSum(s, val)
    BY <1>5
  <2> HIDE DEF val
  <2> QED BY <1>3, <1>4, <1>5, <1>6, <2>1
<1>8. Exists(c.denom)
  <2> HIDE DEF c
  <2> QED BY <1>3, <1>6, <1>7, NothingOfNoToken
<1> QED BY <1>2, <1>7, <1>8
-----------------------------------------------------------------------------
(* Steps that keep it *)

\* coins move, no token changes
LEMMA PlainStep ==
  ASSUME MoneyInv, tokens' = tokens, locked' = locked,
         coins' \in Balances, frozen' \in Balances, collected' \in Nat,
         accounts' \subseteq Users, now' \in Nat,
         \A d \in Denoms :
           ColumnSum(coins', d) + ColumnSum(frozen', d) + FeesIn(d, collected')
             = ColumnSum(coins, d) + ColumnSum(frozen, d) + FeesIn(d, collected)
  PROVE MoneyInv'
<1>1. WalletTypes'
  BY DEF MoneyInv, WalletTypes
<1>2. TokensValid'
  BY DEF MoneyInv, TokensValid, Exists
<1>3. ASSUME NEW d \in Denoms PROVE Counted(d)'
  <2>1. Counted(d)
    BY DEF MoneyInv
  <2>2. /\ ColumnSum(coins, d) \in Int /\ ColumnSum(frozen, d) \in Int
        /\ ColumnSum(coins', d) \in Int /\ ColumnSum(frozen', d) \in Int
        /\ LockSum(locked, d) \in Int
    BY BalancesAreInt, ColumnEntries, LockColumnNat DEF MoneyInv, WalletTypes
  <2>3. FeesIn(d, collected) \in Int /\ FeesIn(d, collected') \in Int
    BY DEF FeesIn, MoneyInv, WalletTypes
  <2>4. ColumnSum(coins', d) + ColumnSum(frozen', d) + LockSum(locked, d) + FeesIn(d, collected')
          = ColumnSum(coins, d) + ColumnSum(frozen, d) + LockSum(locked, d) + FeesIn(d, collected)
    BY <2>2, <2>3
  <2> QED BY <2>1, <2>4 DEF Counted, Exists
<1> QED BY <1>1, <1>2, <1>3 DEF MoneyInv

\* x[d] coins of d are locked, or unlocked when it is negative
LEMMA LockStep ==
  ASSUME MoneyInv, NEW x \in [Denoms -> Int],
         coins' \in Balances, frozen' \in Balances, locked' \in Lists, collected' \in Nat,
         accounts' \subseteq Users, now' \in Nat,
         \A d \in Denoms :
           /\ LockSum(locked', d) = LockSum(locked, d) + x[d]
           /\ ColumnSum(coins', d) + ColumnSum(frozen', d) + FeesIn(d, collected')
                = ColumnSum(coins, d) + ColumnSum(frozen, d) + FeesIn(d, collected) - x[d],
         tokens' = [d \in Denoms |-> tokens'[d]],
         \A d \in Denoms :
           IF Exists(d) THEN tokens'[d] = [tokens[d] EXCEPT !.sendLock = tokens[d].sendLock + x[d]]
           ELSE tokens'[d] = NoToken
  PROVE MoneyInv'
<1>0. WalletTypes /\ TokensValid /\ \A d \in Denoms : Counted(d)
  BY DEF MoneyInv
<1>1. ASSUME NEW d \in Denoms
      PROVE /\ LockSum(locked, d) \in Int /\ LockSum(locked', d) \in Nat
            /\ ColumnSum(coins, d) \in Int /\ ColumnSum(frozen, d) \in Int
            /\ ColumnSum(coins', d) \in Int /\ ColumnSum(frozen', d) \in Int
            /\ FeesIn(d, collected) \in Int /\ FeesIn(d, collected') \in Int
  BY <1>0, BalancesAreInt, ColumnEntries, LockColumnNat DEF WalletTypes, FeesIn
<1>2. ASSUME NEW d \in Denoms, Exists(d)
      PROVE /\ tokens'[d] \in Token /\ tokens'[d].sendLock = LockSum(locked', d)
            /\ tokens'[d].supply = tokens[d].supply
            /\ tokens'[d].mint = tokens[d].mint /\ tokens'[d].burn = tokens[d].burn
            /\ tokens'[d].mintable = tokens[d].mintable /\ tokens'[d].burnable = tokens[d].burnable
            /\ tokens'[d].tokenForbiddable = tokens[d].tokenForbiddable
            /\ tokens'[d].forbidden = tokens[d].forbidden
            /\ tokens'[d].owner = tokens[d].owner
  <2>1. tokens[d] \in Token
    BY <1>0, <1>2, TokenOf
  <2>2. tokens[d].sendLock + x[d] = LockSum(locked', d)
    BY <1>0, <1>2 DEF Counted
  <2>3. tokens'[d] = [tokens[d] EXCEPT !.sendLock = LockSum(locked', d)]
    BY <1>2, <2>2
  <2> QED BY <1>1, <2>1, <2>3, WithSendLock DEF Token
<1>3. \A d \in Denoms : Exists(d) <=> Exists(d)'
  BY <1>2, TokenFields DEF Exists
<1>4. WalletTypes'
  <2>1. tokens' \in [Denoms -> Token \cup {NoToken}]
    <3>1. \A d \in Denoms : tokens'[d] \in Token \cup {NoToken}
      BY <1>2
    <3> QED BY <3>1
  <2> QED BY <2>1 DEF WalletTypes
<1>5. TokensValid'
  BY <1>0, <1>2, <1>3, TokenFields DEF TokensValid
<1>6. ASSUME NEW d \in Denoms PROVE Counted(d)'
  <2>1. SupplyOf(tokens'[d]) = SupplyOf(tokens[d])
    BY <1>2, <1>3 DEF SupplyOf, Exists
  <2>2. Counted(d)
    BY <1>0
  <2>3. ColumnSum(coins', d) + ColumnSum(frozen', d) + LockSum(locked', d) + FeesIn(d, collected')
          = ColumnSum(coins, d) + ColumnSum(frozen, d) + LockSum(locked, d) + FeesIn(d, collected)
    BY <1>1
  <2> QED BY <1>2, <1>3, <2>1, <2>2, <2>3 DEF Counted
<1> QED BY <1>4, <1>5, <1>6 DEF MoneyInv
-----------------------------------------------------------------------------
(* Transactions of the bank *)

LEMMA MoneyFacts ==
  ASSUME MoneyInv
  PROVE /\ tokens \in [Denoms -> Token \cup {NoToken}]
        /\ coins \in Balances /\ frozen \in Balances /\ locked \in Lists
        /\ coins \in IntBalances /\ frozen \in IntBalances
        /\ collected \in Nat /\ accounts \subseteq Users /\ now \in Nat
        /\ \A u \in Users, d \in Denoms : coins[u][d] \in Nat /\ frozen[u][d] \in Nat
        /\ \A d \in Denoms : /\ ColumnSum(coins, d) \in Int /\ ColumnSum(frozen, d) \in Int
                             /\ LockSum(locked, d) \in Nat
BY BalancesAreInt, ColumnEntries, LockColumnNat DEF MoneyInv, WalletTypes

\* n CET go from an account to a module
LEMMA PayFee ==
  ASSUME MoneyInv, NEW u \in Users, NEW n \in Nat, coins[u][CET] >= n,
         coins' = Debit(coins, u, CET, n), collected' = collected + n,
         tokens' = tokens, locked' = locked, frozen' = frozen,
         accounts' \subseteq Users, now' \in Nat
  PROVE MoneyInv'
<1>0. /\ coins \in Balances /\ frozen \in Balances /\ coins \in IntBalances /\ frozen \in IntBalances
      /\ locked \in Lists /\ tokens \in [Denoms -> Token \cup {NoToken}]
      /\ collected \in Nat /\ accounts \subseteq Users /\ now \in Nat
  BY MoneyFacts
<1>n. /\ \A a \in Users, e \in Denoms : coins[a][e] \in Nat /\ frozen[a][e] \in Nat
      /\ \A e \in Denoms : /\ ColumnSum(coins, e) \in Int /\ ColumnSum(frozen, e) \in Int
                           /\ LockSum(locked, e) \in Nat
  BY MoneyFacts
<1>1. CET \in Denoms /\ n \in Int
  BY ConstantTypes
<1>2. coins' \in IntBalances /\ \A v \in Users, e \in Denoms :
        coins'[v][e] = IF v = u /\ e = CET THEN coins[v][e] - n ELSE coins[v][e]
  BY <1>1, <1>0, DebitIs
<1>3. coins' \in Balances
  <2>1. \A v \in Users, e \in Denoms : coins'[v][e] >= 0
    BY <1>2, <1>n
  <2> QED BY <1>2, <2>1, BalancesFromEntries
<1>4. ASSUME NEW d \in Denoms
      PROVE ColumnSum(coins', d) + ColumnSum(frozen', d) + FeesIn(d, collected')
              = ColumnSum(coins, d) + ColumnSum(frozen, d) + FeesIn(d, collected)
  <2>1. ColumnSum(coins', d) = ColumnSum(coins, d) - (IF d = CET THEN n ELSE 0)
    BY <1>0, <1>1, DebitIs
  <2> QED BY <2>1, <1>0, <1>n DEF FeesIn
<1> QED BY <1>3, <1>4, <1>0, PlainStep

LEMMA FreezeMoney ==
  ASSUME MoneyInv, NEW u \in Users, NEW d \in Denoms, NEW n \in Nat, now' = now,
         Freeze(u, d, n) \/ UnFreeze(u, d, n)
  PROVE MoneyInv'
<1>0. /\ coins \in Balances /\ frozen \in Balances /\ coins \in IntBalances /\ frozen \in IntBalances
      /\ locked \in Lists /\ tokens \in [Denoms -> Token \cup {NoToken}]
      /\ collected \in Nat /\ accounts \subseteq Users /\ now \in Nat
  BY MoneyFacts
<1>n. /\ \A a \in Users, e \in Denoms : coins[a][e] \in Nat /\ frozen[a][e] \in Nat
      /\ \A e \in Denoms : /\ ColumnSum(coins, e) \in Int /\ ColumnSum(frozen, e) \in Int
                           /\ LockSum(locked, e) \in Nat
  BY MoneyFacts
<1>z. n \in Int
  OBVIOUS
<1>1. CASE Freeze(u, d, n)
  <2>1. coins' = Debit(coins, u, d, n) /\ frozen' = Credit(frozen, u, d, n) /\ coins[u][d] >= n
        /\ tokens' = tokens /\ locked' = locked /\ collected' = collected /\ accounts' = accounts
    BY <1>1 DEF Freeze, CanSend, HasCoins
  <2>c. coins' \in IntBalances /\ \A v \in Users, e \in Denoms :
          coins'[v][e] = IF v = u /\ e = d THEN coins[v][e] - n ELSE coins[v][e]
    BY <2>1, <1>0, <1>z, DebitIs
  <2>f. frozen' \in IntBalances /\ \A v \in Users, e \in Denoms :
          frozen'[v][e] = IF v = u /\ e = d THEN frozen[v][e] + n ELSE frozen[v][e]
    BY <2>1, <1>0, <1>z, CreditIs
  <2>2. coins' \in IntBalances /\ frozen' \in IntBalances /\ \A v \in Users, e \in Denoms :
          /\ coins'[v][e] = IF v = u /\ e = d THEN coins[v][e] - n ELSE coins[v][e]
          /\ frozen'[v][e] = IF v = u /\ e = d THEN frozen[v][e] + n ELSE frozen[v][e]
    BY <2>c, <2>f
  <2>3. coins' \in Balances /\ frozen' \in Balances
    <3>1. \A v \in Users, e \in Denoms : coins'[v][e] >= 0 /\ frozen'[v][e] >= 0
      BY <2>1, <2>2, <1>n
    <3> QED BY <2>2, <3>1, BalancesFromEntries
  <2>4. ASSUME NEW e \in Denoms
        PROVE ColumnSum(coins', e) + ColumnSum(frozen', e) + FeesIn(e, collected')
                = ColumnSum(coins, e) + ColumnSum(frozen, e) + FeesIn(e, collected)
    <3>1. ColumnSum(coins', e) = ColumnSum(coins, e) - (IF e = d THEN n ELSE 0)
      BY <2>1, <1>0, <1>z, DebitIs
    <3>2. ColumnSum(frozen', e) = ColumnSum(frozen, e) + (IF e = d THEN n ELSE 0)
      BY <2>1, <1>0, <1>z, CreditIs
    <3> QED BY <2>1, <3>1, <3>2, <1>0, <1>n DEF FeesIn
  <2> QED BY <2>1, <2>3, <2>4, <1>0, PlainStep
<1>2. CASE UnFreeze(u, d, n)
  <2>1. coins' = Credit(coins, u, d, n) /\ frozen' = Debit(frozen, u, d, n) /\ frozen[u][d] >= n
        /\ tokens' = tokens /\ locked' = locked /\ collected' = collected /\ accounts' = accounts
    BY <1>2 DEF UnFreeze
  <2>c. coins' \in IntBalances /\ \A v \in Users, e \in Denoms :
          coins'[v][e] = IF v = u /\ e = d THEN coins[v][e] + n ELSE coins[v][e]
    BY <2>1, <1>0, <1>z, CreditIs
  <2>f. frozen' \in IntBalances /\ \A v \in Users, e \in Denoms :
          frozen'[v][e] = IF v = u /\ e = d THEN frozen[v][e] - n ELSE frozen[v][e]
    BY <2>1, <1>0, <1>z, DebitIs
  <2>2. coins' \in IntBalances /\ frozen' \in IntBalances /\ \A v \in Users, e \in Denoms :
          /\ coins'[v][e] = IF v = u /\ e = d THEN coins[v][e] + n ELSE coins[v][e]
          /\ frozen'[v][e] = IF v = u /\ e = d THEN frozen[v][e] - n ELSE frozen[v][e]
    BY <2>c, <2>f
  <2>3. coins' \in Balances /\ frozen' \in Balances
    <3>1. \A v \in Users, e \in Denoms : coins'[v][e] >= 0 /\ frozen'[v][e] >= 0
      BY <2>1, <2>2, <1>n
    <3> QED BY <2>2, <3>1, BalancesFromEntries
  <2>4. ASSUME NEW e \in Denoms
        PROVE ColumnSum(coins', e) + ColumnSum(frozen', e) + FeesIn(e, collected')
                = ColumnSum(coins, e) + ColumnSum(frozen, e) + FeesIn(e, collected)
    <3>1. ColumnSum(coins', e) = ColumnSum(coins, e) + (IF e = d THEN n ELSE 0)
      BY <2>1, <1>0, <1>z, CreditIs
    <3>2. ColumnSum(frozen', e) = ColumnSum(frozen, e) - (IF e = d THEN n ELSE 0)
      BY <2>1, <1>0, <1>z, DebitIs
    <3> QED BY <2>1, <3>1, <3>2, <1>0, <1>n DEF FeesIn
  <2> QED BY <2>1, <2>3, <2>4, <1>0, PlainStep
<1> QED BY <1>1, <1>2

LEMMA DonateMoney ==
  ASSUME MoneyInv, NEW u \in Users, NEW n \in Nat, now' = now, Donate(u, n)
  PROVE MoneyInv'
<1>1. /\ coins' = Debit(coins, u, CET, n) /\ collected' = collected + n /\ coins[u][CET] >= n
      /\ tokens' = tokens /\ locked' = locked /\ frozen' = frozen /\ accounts' = accounts
  BY DEF Donate, HasCoins
<1> QED BY <1>1, MoneyFacts, PayFee

LEMMA LockFeeNat ==
  ASSUME NEW t \in Nat, now \in Nat
  PROVE LockFee(t) \in Nat
<1> DEFINE over == t - now - LockCoinsFreeTime
<1>1. LockCoinsFreeTime \in Nat /\ LockCoinsFeePerDay \in Nat /\ DayLen \in Nat \ {0}
  BY WalletsAssumption
<1>2. CASE over > 0
  <2>1. over - 1 \in Nat
    BY <1>1, <1>2
  <2>2. (over - 1) \div DayLen + 1 \in Nat
    <3> HIDE DEF over
    <3> QED BY <1>1, <2>1
  <2>3. \A a, b \in Nat : a * b \in Nat
    OBVIOUS
  <2>4. LockCoinsFeePerDay * ((over - 1) \div DayLen + 1) \in Nat
    <3> HIDE DEF over
    <3> QED BY <1>1, <2>2, <2>3
  <2> QED BY <2>4 DEF LockFee
<1>3. CASE ~(over > 0)
  BY <1>3 DEF LockFee
<1> QED BY <1>2, <1>3

\* UpdateTokenSendLock changes one token
LEMMA SendLockUpdate ==
  ASSUME WalletTypes, NEW d \in Denoms, NEW n \in Int, Exists(d),
         NEW x, \A e \in Denoms : x[e] = IF e = d THEN n ELSE 0,
         tokens' = UpdateSendLock(tokens, d, n)
  PROVE /\ tokens' = [e \in Denoms |-> tokens'[e]]
        /\ \A e \in Denoms :
             IF Exists(e) THEN tokens'[e] = [tokens[e] EXCEPT !.sendLock = tokens[e].sendLock + x[e]]
             ELSE tokens'[e] = NoToken
<1>1. tokens \in [Denoms -> Token \cup {NoToken}] /\ tokens' = [tokens EXCEPT ![d].sendLock = @ + n]
  BY DEF WalletTypes, UpdateSendLock
<1>2. tokens' = [e \in Denoms |-> tokens'[e]]
  BY <1>1
<1>3. ASSUME NEW e \in Denoms
      PROVE IF Exists(e) THEN tokens'[e] = [tokens[e] EXCEPT !.sendLock = tokens[e].sendLock + x[e]]
            ELSE tokens'[e] = NoToken
  <2>1. CASE e = d
    BY <1>1, <2>1
  <2>2. CASE e # d /\ Exists(e)
    <3>1. tokens[e] \in Token
      BY <2>2, TokenOf
    <3>2. tokens[e].sendLock \in Nat
      BY <3>1, TokenFields
    <3>3. tokens[e].sendLock + x[e] = tokens[e].sendLock
      BY <2>2, <3>2
    <3>4. [tokens[e] EXCEPT !.sendLock = tokens[e].sendLock] = tokens[e]
      BY <3>1, <3>2, WithSendLock
    <3>5. tokens'[e] = tokens[e]
      BY <1>1, <2>2
    <3> QED BY <2>2, <3>3, <3>4, <3>5
  <2>3. CASE e # d /\ ~Exists(e)
    BY <1>1, <2>3 DEF Exists
  <2> QED BY <2>1, <2>2, <2>3
<1> QED BY <1>2, <1>3

\* The coin that is locked leaves u's spendable coins, w being what is left of them
\* when fee0 has been paid, and joins v's list.
LEMMA LockCoins ==
  ASSUME MoneyInv, NEW u \in Users, NEW v \in Users, NEW coin \in LockedCoin,
         NEW w \in Balances, NEW fee0 \in Nat, NEW fee \in Nat,
         \A d \in Denoms : ColumnSum(w, d) = ColumnSum(coins, d) - FeesIn(d, fee0),
         SendLockedCoins(w, u, v, coin, fee),
         collected' = collected + (fee0 + fee), frozen' = frozen, accounts' \subseteq Users, now' = now
  PROVE MoneyInv'
<1>0. /\ coins \in Balances /\ frozen \in Balances /\ coins \in IntBalances /\ frozen \in IntBalances
      /\ locked \in Lists /\ tokens \in [Denoms -> Token \cup {NoToken}]
      /\ collected \in Nat /\ accounts \subseteq Users /\ now \in Nat
  BY MoneyFacts
<1>n. /\ \A a \in Users, e \in Denoms : coins[a][e] \in Nat /\ frozen[a][e] \in Nat
      /\ \A e \in Denoms : /\ ColumnSum(coins, e) \in Int /\ ColumnSum(frozen, e) \in Int
                           /\ LockSum(locked, e) \in Nat
  BY MoneyFacts
<1> DEFINE d == coin.denom
           n == coin.amount
           y == Debit(w, u, CET, fee)
           x == [e \in Denoms |-> IF e = d THEN n ELSE 0]
<1>1. /\ Exists(d) /\ w[u][CET] >= fee /\ y[u][d] >= n
      /\ coins' = Debit(y, u, d, n)
      /\ locked' = [locked EXCEPT ![v] = Append(locked[v], coin)]
      /\ tokens' = [tokens EXCEPT ![d].sendLock = @ + n]
  BY DEF SendLockedCoins, IsForbidden, UpdateSendLock
<1>2. d \in Denoms /\ n \in Nat /\ n \in Int /\ fee \in Int /\ CET \in Denoms /\ w \in IntBalances
      /\ \A a \in Users, e \in Denoms : w[a][e] \in Nat
  BY ConstantTypes, BalancesAreInt DEF LockedCoin
<1>3. y \in IntBalances /\ \A a \in Users, e \in Denoms :
        y[a][e] = IF a = u /\ e = CET THEN w[a][e] - fee ELSE w[a][e]
  BY ONLY DebitEntries, u \in Users, <1>2
<1>4. \A e \in Denoms : ColumnSum(y, e) = ColumnSum(w, e) - (IF e = CET THEN fee ELSE 0)
  BY <1>2, DebitSum
<1> HIDE DEF y, d, n
<1>c. y \in IntBalances /\ d \in Denoms /\ n \in Int /\ coins' = Debit(y, u, d, n)
  BY <1>1, <1>2, <1>3
<1>5. coins' \in IntBalances /\ \A a \in Users, e \in Denoms :
        coins'[a][e] = IF a = u /\ e = d THEN y[a][e] - n ELSE y[a][e]
  <2> DEFINE z == Debit(y, u, d, n)
  <2>1. z \in IntBalances /\ \A a \in Users, e \in Denoms :
          z[a][e] = IF a = u /\ e = d THEN y[a][e] - n ELSE y[a][e]
    BY ONLY DebitEntries, u \in Users, <1>c
  <2>2. coins' = z
    BY <1>c
  <2> HIDE DEF z
  <2> QED BY <2>1, <2>2
<1>6. coins' \in Balances
  <2>1. ASSUME NEW a \in Users, NEW e \in Denoms PROVE coins'[a][e] >= 0
    <3>1. w[a][e] \in Nat /\ y[a][e] = (IF a = u /\ e = CET THEN w[a][e] - fee ELSE w[a][e])
          /\ coins'[a][e] = (IF a = u /\ e = d THEN y[a][e] - n ELSE y[a][e])
      BY <1>2, <1>3, <1>5
    <3>2. w[u][CET] >= fee /\ y[u][d] >= n
      BY <1>1
    <3> QED BY <1>2, <3>1, <3>2
  <2> QED BY <1>5, <2>1, BalancesFromEntries
<1>7. locked' \in Lists /\ locked[v] \in Seq(LockedCoin) /\ Append(locked[v], coin) \in Seq(LockedCoin)
  BY <1>0, <1>1 DEF Lists
<1>8. ASSUME NEW e \in Denoms PROVE LockSum(locked', e) = LockSum(locked, e) + x[e]
  <2>1. ValueSum(Append(locked[v], coin), InDenom(e)) = ValueSum(locked[v], InDenom(e)) + InDenom(e)[coin]
    BY <1>7, InDenomType, ValueSumAppend
  <2>2. InDenom(e)[coin] = x[e] /\ x[e] \in Int
    BY <1>2, InDenomType DEF d, n
  <2>3. LockSum(locked', e) = LockSum(locked, e)
          + (ValueSum(Append(locked[v], coin), InDenom(e)) - ValueSum(locked[v], InDenom(e)))
    <3> DEFINE s == Append(locked[v], coin)
               l == [locked EXCEPT ![v] = s]
    <3>1. locked \in Lists /\ s \in Seq(LockedCoin) /\ locked' = l
      BY <1>0, <1>1, <1>7
    <3>2. LockSum(l, e) = LockSum(locked, e)
            + (ValueSum(s, InDenom(e)) - ValueSum(locked[v], InDenom(e)))
      <4> HIDE DEF s
      <4> QED BY <3>1, LockUpdate
    <3> QED BY <3>1, <3>2
  <2>4. ValueSum(locked[v], InDenom(e)) \in Int
    BY <1>7, InDenomType, ValueSumInt
  <2>5. LockSum(locked, e) \in Int
    BY <1>n
  <2> HIDE DEF x
  <2> QED BY <2>1, <2>2, <2>3, <2>4, <2>5
<1>9. ASSUME NEW e \in Denoms
      PROVE ColumnSum(coins', e) + ColumnSum(frozen', e) + FeesIn(e, collected')
              = ColumnSum(coins, e) + ColumnSum(frozen, e) + FeesIn(e, collected) - x[e]
  <2>1. ColumnSum(coins', e) = ColumnSum(y, e) - x[e]
    <3>1. ColumnSum(coins', e) = ColumnSum(y, e) - (IF e = d THEN n ELSE 0)
      BY <1>c, DebitIs
    <3> QED BY <3>1
  <2>2. FeesIn(e, collected') = FeesIn(e, collected) + FeesIn(e, fee0) + FeesIn(e, fee)
    BY <1>0 DEF FeesIn
  <2>3. /\ FeesIn(e, collected) \in Int /\ FeesIn(e, fee0) \in Int /\ FeesIn(e, fee) \in Int
        /\ x[e] \in Int
    BY <1>0, <1>2 DEF FeesIn
  <2>4. ColumnSum(y, e) = (ColumnSum(coins, e) - FeesIn(e, fee0)) - FeesIn(e, fee)
    BY <1>n, <1>4 DEF FeesIn
  <2> HIDE DEF x
  <2> QED BY <1>n, <2>1, <2>2, <2>3, <2>4
<1>10. /\ tokens' = [e \in Denoms |-> tokens'[e]]
       /\ \A e \in Denoms :
            IF Exists(e) THEN tokens'[e] = [tokens[e] EXCEPT !.sendLock = tokens[e].sendLock + x[e]]
            ELSE tokens'[e] = NoToken
  <2>1. /\ d \in Denoms /\ n \in Int /\ Exists(d) /\ WalletTypes
        /\ tokens' = UpdateSendLock(tokens, d, n)
    BY <1>1, <1>2 DEF UpdateSendLock, MoneyInv
  <2>2. \A e \in Denoms : x[e] = IF e = d THEN n ELSE 0
    OBVIOUS
  <2> HIDE DEF x
  <2> QED BY <2>1, <2>2, SendLockUpdate
<1>11. x \in [Denoms -> Int]
  BY <1>2
<1>12. collected' \in Nat /\ now' \in Nat /\ frozen' \in Balances
  BY <1>0
<1> HIDE DEF x
<1> QED BY <1>6, <1>7, <1>8, <1>9, <1>10, <1>11, <1>12, LockStep

LEMMA DebitKeeps ==
  ASSUME NEW w \in Balances, NEW u \in Users, NEW d \in Denoms, NEW n \in Nat, w[u][d] >= n,
         NEW v, v = Debit(w, u, d, n)
  PROVE /\ v \in Balances
        /\ \A x \in Users, e \in Denoms : v[x][e] = IF x = u /\ e = d THEN w[x][e] - n ELSE w[x][e]
        /\ \A e \in Denoms : ColumnSum(v, e) = ColumnSum(w, e) - (IF e = d THEN n ELSE 0)
<1>1. w \in IntBalances /\ n \in Int /\ \A x \in Users, e \in Denoms : w[x][e] \in Nat
  BY BalancesAreInt
<1>2. /\ v \in IntBalances
      /\ \A x \in Users, e \in Denoms : v[x][e] = IF x = u /\ e = d THEN w[x][e] - n ELSE w[x][e]
      /\ \A e \in Denoms : ColumnSum(v, e) = ColumnSum(w, e) - (IF e = d THEN n ELSE 0)
  BY <1>1, DebitEntries, DebitSum, SMTT(30)
<1>3. \A x \in Users, e \in Denoms : v[x][e] >= 0
  BY <1>1, <1>2
<1> QED BY <1>2, <1>3, BalancesFromEntries

LEMMA CreditKeeps ==
  ASSUME NEW w \in Balances, NEW u \in Users, NEW d \in Denoms, NEW n \in Nat,
         NEW v, v = Credit(w, u, d, n)
  PROVE /\ v \in Balances
        /\ \A x \in Users, e \in Denoms : v[x][e] = IF x = u /\ e = d THEN w[x][e] + n ELSE w[x][e]
        /\ \A e \in Denoms : ColumnSum(v, e) = ColumnSum(w, e) + (IF e = d THEN n ELSE 0)
<1>1. w \in IntBalances /\ n \in Int /\ \A x \in Users, e \in Denoms : w[x][e] \in Nat
  BY BalancesAreInt
<1>2. v \in IntBalances /\ \A x \in Users, e \in Denoms :
        v[x][e] = IF x = u /\ e = d THEN w[x][e] + n ELSE w[x][e]
  <2>1. ASSUME NEW m \in IntBalances, NEW k \in Int
        PROVE /\ Credit(m, u, d, k) \in IntBalances
              /\ \A x \in Users, e \in Denoms :
                   Credit(m, u, d, k)[x][e] = IF x = u /\ e = d THEN m[x][e] + k ELSE m[x][e]
    BY CreditEntries
  <2> QED BY <1>1, <2>1
<1>3. \A e \in Denoms : ColumnSum(v, e) = ColumnSum(w, e) + (IF e = d THEN n ELSE 0)
  BY <1>1, CreditSum
<1>4. \A x \in Users, e \in Denoms : v[x][e] >= 0
  BY <1>1, <1>2
<1> QED BY <1>2, <1>3, <1>4, BalancesFromEntries

\* A fee is paid, and n coins sent: handleMsgSend, and a comment's donation and reward.
LEMMA PayAndSend ==
  ASSUME MoneyInv, NEW u \in Users, NEW v \in Users, NEW d \in Denoms, NEW fee \in Nat, NEW n \in Nat,
         NEW w, w = Debit(coins, u, CET, fee), coins[u][CET] >= fee, w[u][d] >= n,
         coins' = Credit(Debit(w, u, d, n), v, d, n), collected' = collected + fee,
         tokens' = tokens, locked' = locked, frozen' = frozen, accounts' \subseteq Users, now' \in Nat
  PROVE MoneyInv'
<1>0. coins \in Balances /\ frozen \in Balances /\ collected \in Nat
  BY MoneyFacts
<1>1. CET \in Denoms
  BY ConstantTypes
<1>2. w \in Balances /\ \A e \in Denoms : ColumnSum(w, e) = ColumnSum(coins, e) - (IF e = CET THEN fee ELSE 0)
  BY <1>0, <1>1, DebitKeeps
<1> DEFINE y == Debit(w, u, d, n)
<1>3. y \in Balances /\ \A e \in Denoms : ColumnSum(y, e) = ColumnSum(w, e) - (IF e = d THEN n ELSE 0)
  BY <1>2, DebitKeeps
<1>4. coins' = Credit(y, v, d, n)
  OBVIOUS
<1> HIDE DEF y
<1>5. coins' \in Balances
      /\ \A e \in Denoms : ColumnSum(coins', e) = ColumnSum(y, e) + (IF e = d THEN n ELSE 0)
  BY <1>3, <1>4, CreditKeeps
<1>6. ASSUME NEW e \in Denoms
      PROVE ColumnSum(coins', e) + ColumnSum(frozen', e) + FeesIn(e, collected')
              = ColumnSum(coins, e) + ColumnSum(frozen, e) + FeesIn(e, collected)
  <2>1. ColumnSum(coins, e) \in Int /\ ColumnSum(frozen, e) \in Int
    BY MoneyFacts
  <2>2. ColumnSum(coins', e) = ColumnSum(coins, e) - (IF e = CET THEN fee ELSE 0)
    BY <2>1, <1>2, <1>3, <1>5
  <2> QED BY <2>1, <2>2, <1>0 DEF FeesIn
<1>7. collected' \in Nat /\ frozen' \in Balances
  BY <1>0
<1> QED BY <1>5, <1>6, <1>7, PlainStep

LEMMA SendMoney ==
  ASSUME MoneyInv, NEW u \in Users, NEW v \in Users, NEW d \in Denoms, NEW n \in Nat \ {0},
         NEW t \in Nat, now' = now, Send(u, v, d, n, t)
  PROVE MoneyInv'
<1> DEFINE fee == IF v \in accounts THEN 0 ELSE ActivationFee
           left == IF d = CET THEN n - fee ELSE n
           w == Debit(coins, u, CET, fee)
           lockFee == LockFee(t)
<1>0. /\ coins \in Balances /\ frozen \in Balances /\ collected \in Nat /\ accounts \subseteq Users
      /\ now \in Nat
  BY MoneyFacts
<1>1. coins[u][CET] \in Nat /\ coins[u][d] \in Nat /\ CET \in Denoms
  BY ConstantTypes, MoneyFacts
<1>2. /\ coins[u][d] >= n /\ (fee > 0 => d = CET /\ n >= fee) /\ frozen' = frozen
      /\ accounts' = accounts \cup {v}
  BY DEF Send, CanSend, HasCoins
<1>3. fee \in Nat /\ left \in Nat /\ coins[u][CET] >= fee /\ lockFee \in Nat
  <2>1. fee \in Nat /\ lockFee \in Nat
    BY <1>0, ConstantTypes, LockFeeNat
  <2> HIDE DEF fee, lockFee
  <2> QED BY <1>1, <1>2, <2>1
<1>4. w \in Balances /\ \A x \in Users, e \in Denoms :
                           w[x][e] = IF x = u /\ e = CET THEN coins[x][e] - fee ELSE coins[x][e]
  <2> HIDE DEF fee
  <2> QED BY <1>0, <1>1, <1>3, DebitKeeps
<1>5. \A e \in Denoms : ColumnSum(w, e) = ColumnSum(coins, e) - (IF e = CET THEN fee ELSE 0)
  <2> HIDE DEF fee
  <2> QED BY <1>0, <1>1, <1>3, DebitKeeps
<1>6. w[u][d] >= left
  <2> HIDE DEF fee, w
  <2> QED BY <1>1, <1>2, <1>3, <1>4
<1>7. accounts' \subseteq Users /\ now' \in Nat
  BY <1>0, <1>2
<1>8. CASE t = 0
  <2>1. coins' = Credit(Debit(w, u, d, left), v, d, left) /\ collected' = collected + fee
        /\ tokens' = tokens /\ locked' = locked
    BY <1>8 DEF Send
  <2>2. w = Debit(coins, u, CET, fee)
    OBVIOUS
  <2> HIDE DEF fee, left, w
  <2> QED BY <1>2, <1>3, <1>6, <1>7, <2>1, <2>2, PayAndSend
<1>9. CASE t # 0 /\ left = 0
  <2>1. /\ w[u][CET] >= lockFee /\ coins' = Debit(w, u, CET, lockFee)
        /\ collected' = collected + fee + lockFee
        /\ tokens' = tokens /\ locked' = locked
    BY <1>9 DEF Send
  <2> HIDE DEF fee, left, w, lockFee
  <2>2. coins' \in Balances
        /\ \A e \in Denoms : ColumnSum(coins', e) = ColumnSum(w, e) - (IF e = CET THEN lockFee ELSE 0)
    BY <2>1, <1>1, <1>3, <1>4, DebitKeeps
  <2>3. ASSUME NEW e \in Denoms
        PROVE ColumnSum(coins', e) + ColumnSum(frozen', e) + FeesIn(e, collected')
                = ColumnSum(coins, e) + ColumnSum(frozen, e) + FeesIn(e, collected)
    <3>1. ColumnSum(coins, e) \in Int /\ ColumnSum(frozen, e) \in Int
      BY MoneyFacts
    <3> QED BY <3>1, <1>0, <1>2, <1>3, <1>5, <2>1, <2>2 DEF FeesIn
  <2>4. collected' \in Nat /\ frozen' \in Balances
    BY <1>0, <1>2, <1>3, <2>1
  <2> QED BY <1>7, <2>1, <2>2, <2>3, <2>4, PlainStep
<1>10. CASE t # 0 /\ left # 0
  <2> DEFINE coin == [denom |-> d, amount |-> left, time |-> t, from |-> 0, supervisor |-> 0,
                      reward |-> 0]
  <2>1. SendLockedCoins(w, u, v, coin, lockFee) /\ collected' = collected + fee + lockFee
    BY <1>10 DEF Send
  <2>2. coin \in LockedCoin
    <3> HIDE DEF left
    <3> QED BY <1>10, <1>3 DEF LockedCoin
  <2> HIDE DEF fee, left, w, lockFee, coin
  <2>3. \A e \in Denoms : ColumnSum(w, e) = ColumnSum(coins, e) - FeesIn(e, fee)
    BY <1>5 DEF FeesIn
  <2>4. collected' = collected + (fee + lockFee)
    BY <1>0, <1>3, <2>1
  <2> QED BY <1>2, <1>3, <1>4, <1>7, <2>1, <2>2, <2>3, <2>4, LockCoins
<1> QED BY <1>8, <1>9, <1>10

LEMMA SupervisedSendMoney ==
  ASSUME MoneyInv, NEW r \in SupervisedMsg, now' = now, SupervisedSend(r)
  PROVE MoneyInv'
<1> DEFINE coin == AsLocked(r)
<1>0. coins \in Balances /\ collected \in Nat /\ accounts \subseteq Users /\ now \in Nat
  BY MoneyFacts
<1>1. r.from \in Users /\ r.to \in Users /\ r.time \in Nat /\ coin \in LockedCoin
  BY DEF SupervisedMsg, AsLocked, LockedCoin
<1>2. LockFee(r.time) \in Nat
  BY <1>0, <1>1, LockFeeNat
<1>3. /\ SendLockedCoins(coins, r.from, r.to, coin, LockFee(r.time))
      /\ collected' = collected + LockFee(r.time) /\ frozen' = frozen /\ accounts' = accounts
  BY DEF SupervisedSend
<1>4. \A d \in Denoms : ColumnSum(coins, d) = ColumnSum(coins, d) - FeesIn(d, 0)
  <2>1. \A d \in Denoms : ColumnSum(coins, d) \in Int
    BY MoneyFacts
  <2> QED BY <2>1 DEF FeesIn
<1>5. collected' = collected + (0 + LockFee(r.time))
  BY <1>0, <1>2, <1>3
<1> HIDE DEF coin
<1> QED BY <1>0, <1>1, <1>2, <1>3, <1>4, <1>5, LockCoins
-----------------------------------------------------------------------------
(* Early unlock *)

\* the coin that EarlierUnlockCoin takes
LEMMA FirstFound ==
  ASSUME WalletTypes, NEW r \in SupervisedMsg, Found(r) # {},
         NEW i, i = CHOOSE k \in Found(r) : \A j \in Found(r) : k <= j
  PROVE i \in 1..Len(locked[r.to]) /\ locked[r.to][i] = AsLocked(r)
<1> DEFINE s == locked[r.to]
<1>1. s \in Seq(LockedCoin)
  BY DEF WalletTypes, Lists, SupervisedMsg
<1>2. Len(s) \in Nat /\ DOMAIN s = 1..Len(s)
  <2> HIDE DEF s
  <2> QED BY <1>1
<1>3. Found(r) \in SUBSET (1..Len(s))
  BY <1>2 DEF Found
<1>4. \E k \in Found(r) : \A j \in Found(r) : k <= j
  <2> HIDE DEF s
  <2> QED BY <1>2, <1>3, SmallestOf
<1>5. i \in Found(r)
  BY <1>4
<1> QED BY <1>3, <1>5 DEF Found

\* The first found coin leaves its list; what it counts is divided.
LEMMA EarlierUnlockMoney ==
  ASSUME MoneyInv, NEW r \in SupervisedMsg, r.reward <= r.amount, NEW isReturned \in BOOLEAN,
         now' = now, EarlierUnlock(r, isReturned),
         ~isReturned \/ r.from \in Users
  PROVE MoneyInv'
<1> DEFINE d == r.denom
           n == r.amount
           v == r.to
           rc == IF isReturned THEN r.from ELSE r.to
           rew == IF r.supervisor = 0 THEN 0 ELSE r.reward
           x == [e \in Denoms |-> IF e = d THEN 0 - n ELSE 0]
<1>0. /\ coins \in Balances /\ frozen \in Balances /\ locked \in Lists /\ collected \in Nat
      /\ accounts \subseteq Users /\ now \in Nat
  BY MoneyFacts
<1>1. /\ d \in Denoms /\ n \in Nat /\ n > 0 /\ v \in Users /\ rc \in Users /\ rew \in Nat /\ rew <= n
      /\ r.supervisor \in Users \cup {0}
  BY DEF SupervisedMsg
<1>2. PICK i \in 1..Len(locked[v]) :
        /\ locked[v][i] = AsLocked(r)
        /\ locked' = [locked EXCEPT ![v] = RemoveAt(@, i)]
  <2>1. /\ Found(r) # {} /\ WalletTypes
        /\ locked' = [locked EXCEPT ![v] =
             RemoveAt(@, CHOOSE k \in Found(r) : \A j \in Found(r) : k <= j)]
    BY DEF EarlierUnlock, MoneyInv
  <2> QED BY <2>1, FirstFound
<1>3. /\ frozen' = frozen /\ collected' = collected /\ accounts' = accounts
      /\ tokens' = UpdateSendLock(tokens, d, 0 - n)
  BY DEF EarlierUnlock
<1>4. coins' = IF rew > 0 THEN Credit(Credit(coins, rc, d, n - rew), r.supervisor, d, rew)
               ELSE Credit(coins, rc, d, n - rew)
  BY DEF EarlierUnlock
<1> HIDE DEF rc, rew
<1>5. coins' \in Balances
      /\ \A e \in Denoms : ColumnSum(coins', e) = ColumnSum(coins, e) + (IF e = d THEN n ELSE 0)
  <2> DEFINE m == n - rew
             paid == Credit(coins, rc, d, m)
  <2>1. m \in Nat /\ n = m + rew
    BY <1>1
  <2> HIDE DEF m
  <2>2. paid \in Balances
        /\ \A e \in Denoms : ColumnSum(paid, e) = ColumnSum(coins, e) + (IF e = d THEN m ELSE 0)
    <3>1. coins \in Balances /\ rc \in Users /\ d \in Denoms /\ m \in Nat
          /\ paid = Credit(coins, rc, d, m)
      BY <1>0, <1>1, <2>1
    <3> HIDE DEF paid, d
    <3> QED BY <3>1, CreditKeeps
  <2>3. \A e \in Denoms : ColumnSum(coins, e) \in Int
    BY MoneyFacts
  <2> HIDE DEF paid
  <2>4. CASE rew > 0
    <3>1. r.supervisor \in Users
      BY <1>1, <2>4 DEF rew
    <3>2. coins' = Credit(paid, r.supervisor, d, rew)
      BY <1>4, <2>4 DEF paid, m
    <3>3. coins' \in Balances
          /\ \A e \in Denoms : ColumnSum(coins', e) = ColumnSum(paid, e) + (IF e = d THEN rew ELSE 0)
      <4>1. paid \in Balances /\ r.supervisor \in Users /\ d \in Denoms /\ rew \in Nat
            /\ coins' = Credit(paid, r.supervisor, d, rew)
        BY <1>1, <2>2, <3>1, <3>2
      <4> QED BY <4>1, CreditKeeps
    <3>4. coins' \in Balances
      BY <3>3
    <3>5. ASSUME NEW e \in Denoms
          PROVE ColumnSum(coins', e) = ColumnSum(coins, e) + (IF e = d THEN n ELSE 0)
      BY <1>1, <2>1, <2>2, <2>3, <3>3
    <3> QED BY <3>4, <3>5
  <2>5. CASE ~(rew > 0)
    <3>1. coins' = paid /\ rew = 0
      BY <1>1, <1>4, <2>5 DEF paid, m
    <3> QED BY <1>1, <2>1, <2>2, <2>3, <3>1
  <2> QED BY <2>4, <2>5
<1>6. locked[v] \in Seq(LockedCoin) /\ RemoveAt(locked[v], i) = Without(locked[v], i)
  BY <1>0, <1>1 DEF Lists, RemoveAt, Without
<1> DEFINE s == Without(locked[v], i)
           l == [locked EXCEPT ![v] = s]
<1>7. s \in Seq(LockedCoin) /\ locked' = l
  BY <1>2, <1>6, WithoutElements
<1>8. Exists(d)
  BY <1>1, <1>2, LockedExists DEF AsLocked
<1>9. l \in Lists
  <2> HIDE DEF s
  <2> QED BY <1>0, <1>7 DEF Lists
<1>10. ASSUME NEW e \in Denoms PROVE LockSum(locked', e) = LockSum(locked, e) + x[e]
  <2>1. ValueSum(s, InDenom(e)) = ValueSum(locked[v], InDenom(e)) - InDenom(e)[locked[v][i]]
    BY <1>6, InDenomType, ValueSumWithout
  <2>2. InDenom(e)[locked[v][i]] = 0 - x[e] /\ x[e] \in Int
    <3>1. AsLocked(r) \in LockedCoin /\ AsLocked(r).denom = d /\ AsLocked(r).amount = n
      BY DEF AsLocked, LockedCoin, SupervisedMsg
    <3> QED BY <1>1, <1>2, <3>1, InDenomType
  <2>3. LockSum(l, e) = LockSum(locked, e) + (ValueSum(s, InDenom(e)) - ValueSum(locked[v], InDenom(e)))
    <3> HIDE DEF s
    <3> QED BY <1>0, <1>1, <1>7, LockUpdate
  <2>4. ValueSum(locked[v], InDenom(e)) \in Int /\ LockSum(locked, e) \in Int
    BY <1>6, InDenomType, ValueSumInt, MoneyFacts
  <2> HIDE DEF x, s, l
  <2> QED BY <1>7, <2>1, <2>2, <2>3, <2>4
<1> HIDE DEF s, l
<1>11. ASSUME NEW e \in Denoms
       PROVE ColumnSum(coins', e) + ColumnSum(frozen', e) + FeesIn(e, collected')
               = ColumnSum(coins, e) + ColumnSum(frozen, e) + FeesIn(e, collected) - x[e]
  <2>1. ColumnSum(coins', e) = ColumnSum(coins, e) - x[e] /\ x[e] \in Int
    <3>1. ColumnSum(coins', e) = ColumnSum(coins, e) + (IF e = d THEN n ELSE 0)
      BY <1>5
    <3>2. ColumnSum(coins, e) \in Int
      BY MoneyFacts
    <3> QED BY <1>1, <3>1, <3>2
  <2>2. ColumnSum(coins, e) \in Int /\ ColumnSum(frozen, e) \in Int
    BY MoneyFacts
  <2>3. FeesIn(e, collected) \in Int
    BY <1>0 DEF FeesIn
  <2> HIDE DEF x
  <2> QED BY <1>3, <2>1, <2>2, <2>3
<1>12. /\ tokens' = [e \in Denoms |-> tokens'[e]]
       /\ \A e \in Denoms :
            IF Exists(e) THEN tokens'[e] = [tokens[e] EXCEPT !.sendLock = tokens[e].sendLock + x[e]]
            ELSE tokens'[e] = NoToken
  <2>1. 0 - n \in Int /\ WalletTypes /\ \A e \in Denoms : x[e] = IF e = d THEN 0 - n ELSE 0
    BY <1>1 DEF MoneyInv
  <2> DEFINE m == 0 - n
  <2>2. m \in Int /\ tokens' = UpdateSendLock(tokens, d, m)
        /\ \A e \in Denoms : x[e] = IF e = d THEN m ELSE 0
    BY <1>3, <2>1
  <2> HIDE DEF x, m
  <2> QED BY <1>1, <1>8, <2>1, <2>2, SendLockUpdate
<1>13. x \in [Denoms -> Int]
  BY <1>1
<1> HIDE DEF x
<1>14. locked' \in Lists /\ frozen' \in Balances /\ collected' \in Nat /\ accounts' \subseteq Users
       /\ now' \in Nat
  BY <1>0, <1>3, <1>7, <1>9
<1> QED BY <1>5, <1>10, <1>11, <1>12, <1>13, <1>14, LockStep

LEMMA EarlyUnlockMoney ==
  ASSUME MoneyInv, NEW r \in SupervisedMsg, r.reward <= r.amount, now' = now, EarlyUnlock(r)
  PROVE MoneyInv'
<1>1. PICK isReturned \in BOOLEAN : EarlierUnlock(r, isReturned)
  BY DEF EarlyUnlock
<1>2. r.from \in Users
  BY DEF SupervisedMsg
<1> QED BY <1>1, <1>2, EarlierUnlockMoney
-----------------------------------------------------------------------------
(* Multi-send: what its entries move, by accounts and by entries *)

Entry == [user: Users, denom: Denoms, amount: Nat \ {0}]

LEMMA MovedSum ==
  ASSUME NEW s \in Entries, NEW d
  PROVE /\ \A u \in Users : Moved(s, u, d) \in Nat
        /\ SumTo([u \in Users |-> Moved(s, u, d)], NumUsers) = EntriesTotal(s, d)
        /\ UsersOf(s) \subseteq Users
<1> DEFINE n == Len(s)
           share(u) == [k \in DOMAIN s |-> IF s[k].user = u /\ s[k].denom = d THEN s[k].amount ELSE 0]
           a == [u \in Users |-> share(u)]
           row == [u \in Users |-> Moved(s, u, d)]
           col == [k \in DOMAIN s |-> IF s[k].denom = d THEN s[k].amount ELSE 0]
<1>1. /\ n \in Nat /\ DOMAIN s = 1..n
      /\ \A k \in 1..n : s[k].user \in Users /\ s[k].amount \in Nat
  <2>1. s \in Seq(Entry)
    BY DEF Entries, Entry
  <2>2. \A e \in Entry : e.user \in Users /\ e.amount \in Nat
    BY DEF Entry
  <2> QED BY <2>1, <2>2
<1>2. NumUsers \in Nat /\ Users = 1..NumUsers
  BY ConstantTypes
<1>3. \A u \in 1..NumUsers, k \in 1..n :
        /\ a[u][k] = IF s[k].user = u /\ s[k].denom = d THEN s[k].amount ELSE 0
        /\ a[u][k] \in Nat /\ a[u][k] \in Int
  BY <1>1, <1>2
<1>4. \A u \in 1..NumUsers : row[u] = Moved(s, u, d) /\ Moved(s, u, d) = SumTo(a[u], n)
  BY <1>2 DEF Moved
<1>5. ASSUME NEW k \in 1..n PROVE col[k] = SumTo([u \in 1..NumUsers |-> a[u][k]], NumUsers)
  <2> DEFINE f == [u \in 1..NumUsers |-> a[u][k]]
             v == s[k].user
  <2>1. v \in 1..NumUsers
    BY <1>1, <1>2
  <2>0. \A u \in 1..NumUsers : f[u] = a[u][k]
    OBVIOUS
  <2>4. col[k] = IF s[k].denom = d THEN s[k].amount ELSE 0
    BY <1>1
  <2> HIDE DEF f, col, a
  <2>2. f[v] = col[k] /\ f[v] \in Int /\ \A u \in (1..NumUsers) \ {v} : f[u] = 0
    BY <1>3, <2>0, <2>1, <2>4
  <2> HIDE DEF v
  <2>3. SumTo(f, NumUsers) = f[v]
    BY <1>2, <2>1, <2>2, SumOfOne
  <2> QED BY <2>2, <2>3 DEF f
<1>6. \A u \in 1..NumUsers : Moved(s, u, d) \in Nat
  <2> SUFFICES ASSUME NEW u \in 1..NumUsers PROVE Moved(s, u, d) \in Nat
    OBVIOUS
  <2>1. \A k \in 1..n : a[u][k] \in Nat
    BY <1>3
  <2> HIDE DEF a, n
  <2>2. SumTo(a[u], n) \in Nat
    BY <1>1, <2>1, SumNat
  <2> QED BY <1>4, <2>2
<1>7. SumTo(row, NumUsers) = SumTo(col, n)
  <2>1. \A u \in 1..NumUsers : row[u] = SumTo(a[u], n)
    BY <1>4
  <2>2. \A k \in 1..n : col[k] = SumTo([u \in 1..NumUsers |-> a[u][k]], NumUsers)
    BY <1>5
  <2>3. \A u \in 1..NumUsers, k \in 1..n : a[u][k] \in Int
    BY <1>3
  <2>4. n \in Nat /\ NumUsers \in Nat
    BY <1>1, <1>2
  <2> HIDE DEF a, n, row, col
  <2> QED BY <2>1, <2>2, <2>3, <2>4, SumSwap
<1>8. UsersOf(s) \subseteq Users
  BY <1>1 DEF UsersOf
<1> QED BY <1>2, <1>6, <1>7, <1>8 DEF EntriesTotal

\* fees of the accounts that are opened
LEMMA FeeSum ==
  ASSUME NEW S \in SUBSET Users, NEW fee \in Nat, NEW f,
         \A u \in Users : f[u] = IF u \in S THEN fee ELSE 0
  PROVE SumTo(f, NumUsers) = fee * Cardinality(S) /\ fee * Cardinality(S) \in Nat
<1> DEFINE one == [u \in 1..NumUsers |-> IF u \in S THEN 1 ELSE 0]
<1>1. NumUsers \in Nat /\ Users = 1..NumUsers
  BY ConstantTypes
<1>2. \A u \in 1..NumUsers : one[u] = (IF u \in S THEN 1 ELSE 0) /\ one[u] \in Nat /\ one[u] \in Int
  OBVIOUS
<1>3. fee \in Int /\ \A u \in 1..NumUsers : one[u] \in Int /\ f[u] = fee * one[u]
  BY <1>1, <1>2
<1> HIDE DEF one
<1>4. SumTo(one, NumUsers) = Cardinality(S)
  BY <1>1, <1>2, SumCounts
<1>5. SumTo(f, NumUsers) = fee * SumTo(one, NumUsers)
  BY <1>1, <1>3, SumScale
<1>6. SumTo(one, NumUsers) \in Nat
  BY <1>1, <1>2, SumNat
<1>7. \A x, y \in Nat : x * y \in Nat
  OBVIOUS
<1> QED BY <1>4, <1>5, <1>6, <1>7

LEMMA MultiSendMoney ==
  ASSUME MoneyInv, NEW ins \in Entries, NEW outs \in Entries,
         \A d \in Denoms : EntriesTotal(ins, d) = EntriesTotal(outs, d),
         now' = now, MultiSend(ins, outs)
  PROVE MoneyInv'
<1> DEFINE fresh == UsersOf(outs) \ accounts
           fee(u, d) == IF u \in fresh /\ d = CET THEN ActivationFee ELSE 0
           paid == ActivationFee * Cardinality(fresh)
<1>0. /\ coins \in Balances /\ frozen \in Balances /\ coins \in IntBalances /\ collected \in Nat
      /\ accounts \subseteq Users /\ now \in Nat
  BY MoneyFacts
<1>1. /\ coins' = [u \in Users |-> [d \in Denoms |->
                     coins[u][d] - Moved(ins, u, d) + Moved(outs, u, d) - fee(u, d)]]
      /\ \A u \in Users, d \in Denoms :
           coins[u][d] - Moved(ins, u, d) + Moved(outs, u, d) - fee(u, d) >= 0
      /\ collected' = collected + paid /\ accounts' = accounts \cup fresh
      /\ tokens' = tokens /\ locked' = locked /\ frozen' = frozen
  BY DEF MultiSend
<1>2. fresh \in SUBSET Users /\ ActivationFee \in Nat /\ NumUsers \in Nat /\ Users = 1..NumUsers
  BY MovedSum, ConstantTypes
<1>3. \A u \in Users, d \in Denoms : fee(u, d) \in Nat
  BY <1>2
<1>4. \A u \in Users, d \in Denoms : Moved(ins, u, d) \in Nat /\ Moved(outs, u, d) \in Nat
  BY MovedSum
<1> HIDE DEF fee, fresh
<1>5. coins' \in IntBalances
      /\ \A u \in Users, d \in Denoms :
           coins'[u][d] = coins[u][d] - Moved(ins, u, d) + Moved(outs, u, d) - fee(u, d)
  <2>1. \A u \in Users, d \in Denoms : coins[u][d] \in Int
    BY MoneyFacts
  <2> QED BY <1>1, <1>3, <1>4, <2>1 DEF IntBalances
<1>6. coins' \in Balances
  <2>1. \A u \in Users, d \in Denoms : coins'[u][d] >= 0
    BY <1>1, <1>5
  <2> QED BY <1>5, <2>1, BalancesFromEntries
<1>7. paid \in Nat
  <2> DEFINE f == [u \in Users |-> IF u \in fresh THEN ActivationFee ELSE 0]
  <2>1. \A u \in Users : f[u] = IF u \in fresh THEN ActivationFee ELSE 0
    OBVIOUS
  <2> HIDE DEF f
  <2> QED BY <1>2, <2>1, FeeSum
<1>8. ASSUME NEW d \in Denoms
      PROVE ColumnSum(coins', d) + FeesIn(d, paid) = ColumnSum(coins, d)
  <2> DEFINE old == Column(coins, d)
             new == Column(coins', d)
             in == [u \in Users |-> Moved(ins, u, d)]
             out == [u \in Users |-> Moved(outs, u, d)]
             fees == [u \in Users |-> fee(u, d)]
             p == [u \in Users |-> new[u] + in[u]]
             q == [u \in Users |-> p[u] + fees[u]]
             r == [u \in Users |-> old[u] + out[u]]
  <2>1. \A u \in 1..NumUsers : /\ old[u] = coins[u][d] /\ old[u] \in Int
                               /\ new[u] = coins'[u][d] /\ new[u] \in Int
    BY <1>0, <1>5, ColumnEntries
  <2>2. \A u \in 1..NumUsers : /\ in[u] = Moved(ins, u, d) /\ in[u] \in Int
                               /\ out[u] = Moved(outs, u, d) /\ out[u] \in Int
                               /\ fees[u] = fee(u, d) /\ fees[u] \in Int
    BY <1>2, <1>3, <1>4
  <2>3. \A u \in 1..NumUsers : p[u] = new[u] + in[u] /\ q[u] = p[u] + fees[u] /\ r[u] = old[u] + out[u]
    BY <1>2
  <2> HIDE DEF old, new, in, out, fees, p, q, r
  <2>4. ASSUME NEW u \in 1..NumUsers
        PROVE p[u] \in Int /\ q[u] \in Int /\ r[u] \in Int /\ q[u] = r[u]
    <3>1. new[u] = old[u] - in[u] + out[u] - fees[u]
      BY <1>2, <1>5, <2>1, <2>2
    <3> QED BY <2>1, <2>2, <2>3, <3>1
  <2>a. \A u \in 1..NumUsers : new[u] \in Int /\ in[u] \in Int /\ p[u] = new[u] + in[u]
    BY <2>1, <2>2, <2>3
  <2>b. \A u \in 1..NumUsers : p[u] \in Int /\ fees[u] \in Int /\ q[u] = p[u] + fees[u]
    BY <2>2, <2>3, <2>4
  <2>c. \A u \in 1..NumUsers : old[u] \in Int /\ out[u] \in Int /\ r[u] = old[u] + out[u]
    BY <2>1, <2>2, <2>3
  <2>5. SumTo(p, NumUsers) = SumTo(new, NumUsers) + SumTo(in, NumUsers)
    BY <1>2, <2>a, SumAdd
  <2>6. SumTo(q, NumUsers) = SumTo(p, NumUsers) + SumTo(fees, NumUsers)
    BY <1>2, <2>b, SumAdd
  <2>7. SumTo(r, NumUsers) = SumTo(old, NumUsers) + SumTo(out, NumUsers)
    BY <1>2, <2>c, SumAdd
  <2>8. SumTo(q, NumUsers) = SumTo(r, NumUsers)
    BY <1>2, <2>4, SumCongruence
  <2>9. SumTo(in, NumUsers) = SumTo(out, NumUsers)
    BY MovedSum DEF in, out
  <2>10. SumTo(fees, NumUsers) = FeesIn(d, paid)
    <3>1. CASE d = CET
      <4>1. \A u \in Users : fees[u] = IF u \in fresh THEN ActivationFee ELSE 0
        BY <3>1 DEF fees, fee
      <4>2. SumTo(fees, NumUsers) = ActivationFee * Cardinality(fresh)
        BY <1>2, <4>1, FeeSum
      <4> QED BY <3>1, <4>2 DEF FeesIn
    <3>2. CASE d # CET
      <4>1. \A u \in 1..NumUsers : fees[u] = 0
        BY <1>2, <3>2 DEF fees, fee
      <4> QED BY <1>2, <3>2, <4>1, SumOfZeros DEF FeesIn
    <3> QED BY <3>1, <3>2
  <2>11. /\ SumTo(new, NumUsers) \in Int /\ SumTo(in, NumUsers) \in Int
         /\ SumTo(fees, NumUsers) \in Int /\ SumTo(old, NumUsers) \in Int
    BY <1>2, <2>1, <2>2, SumInt
  <2>12. SumTo(new, NumUsers) + SumTo(fees, NumUsers) = SumTo(old, NumUsers)
    <3>1. \A a, b, c, e \in Int : (a + b) + c = e + b => a + c = e
      OBVIOUS
    <3>2. (SumTo(new, NumUsers) + SumTo(in, NumUsers)) + SumTo(fees, NumUsers)
            = SumTo(old, NumUsers) + SumTo(in, NumUsers)
      BY <2>5, <2>6, <2>7, <2>8, <2>9, Zenon
    <3> QED BY <2>11, <3>1, <3>2
  <2>13. ColumnSum(coins', d) = SumTo(new, NumUsers) /\ ColumnSum(coins, d) = SumTo(old, NumUsers)
    BY DEF ColumnSum, old, new
  <2> QED BY <2>10, <2>12, <2>13
<1> HIDE DEF paid
<1>9. ASSUME NEW d \in Denoms
      PROVE ColumnSum(coins', d) + ColumnSum(frozen', d) + FeesIn(d, collected')
              = ColumnSum(coins, d) + ColumnSum(frozen, d) + FeesIn(d, collected)
  <2>1. ColumnSum(coins, d) \in Int /\ ColumnSum(frozen, d) \in Int
    BY MoneyFacts
  <2>2. ColumnSum(coins', d) \in Int
    BY <1>5, ColumnEntries
  <2> QED BY <1>0, <1>1, <1>7, <1>8, <2>1, <2>2 DEF FeesIn
<1>10. accounts' \subseteq Users /\ now' \in Nat /\ collected' \in Nat /\ frozen' \in Balances
  BY <1>0, <1>1, <1>2, <1>7
<1> QED BY <1>1, <1>6, <1>9, <1>10, PlainStep
-----------------------------------------------------------------------------
(* Transactions of a token's owner *)

SoundToken(t) ==
  /\ t.forbidden => t.tokenForbiddable
  /\ t.mint > 0 => t.mintable
  /\ t.burn > 0 => t.burnable

\* One token changes, and as many of its coins come or go as its supply says.
LEMMA TokenStep ==
  ASSUME MoneyInv, NEW d \in Denoms, NEW t \in Token, SoundToken(t),
         tokens' = [tokens EXCEPT ![d] = t], t.sendLock = LockSum(locked, d),
         coins' \in Balances, collected' \in Nat, locked' = locked, frozen' = frozen,
         accounts' = accounts, now' = now,
         \A e \in Denoms :
           ColumnSum(coins', e) + FeesIn(e, collected')
             = ColumnSum(coins, e) + FeesIn(e, collected)
               + (IF e = d THEN t.supply - SupplyOf(tokens[d]) ELSE 0)
  PROVE MoneyInv'
<1>0. /\ coins \in Balances /\ frozen \in Balances /\ locked \in Lists /\ collected \in Nat
      /\ tokens \in [Denoms -> Token \cup {NoToken}] /\ accounts \subseteq Users /\ now \in Nat
  BY MoneyFacts
<1>1. WalletTypes'
  BY <1>0 DEF WalletTypes
<1>2. \A e \in Denoms : tokens'[e] = IF e = d THEN t ELSE tokens[e]
  BY <1>0
<1>3. t # NoToken /\ t.supply \in Nat /\ t.supply > 0 /\ t.mint \in Nat /\ t.burn \in Nat
      /\ t.sendLock \in Nat
  BY TokenFields
<1>4. TokensValid'
  BY <1>2, <1>3 DEF MoneyInv, TokensValid, SoundToken, Exists
<1>5. ASSUME NEW e \in Denoms PROVE Counted(e)'
  <2>1. /\ ColumnSum(coins, e) \in Int /\ ColumnSum(frozen, e) \in Int /\ LockSum(locked, e) \in Int
        /\ ColumnSum(coins', e) \in Int
    <3>1. ColumnSum(coins', e) \in Int
      BY ColumnNat
    <3> QED BY <3>1, MoneyFacts
  <2>2. FeesIn(e, collected) \in Int /\ FeesIn(e, collected') \in Int
    BY <1>0 DEF FeesIn
  <2>3. /\ ColumnSum(coins, e) + ColumnSum(frozen, e) + LockSum(locked, e) + FeesIn(e, collected)
             = SupplyOf(tokens[e])
        /\ Exists(e) => tokens[e].sendLock = LockSum(locked, e)
    BY DEF MoneyInv, Counted
  <2>4. CASE e = d
    <3>1. SupplyOf(tokens'[e]) = t.supply
      BY <1>2, <1>3, <2>4 DEF SupplyOf
    <3>2. ColumnSum(coins', e) + FeesIn(e, collected')
            = ColumnSum(coins, e) + FeesIn(e, collected) + (t.supply - SupplyOf(tokens[d]))
      BY <2>4
    <3>3. SupplyOf(tokens[d]) \in Int
      BY <2>1, <2>2, <2>3, <2>4
    <3>4. ColumnSum(coins', e) + ColumnSum(frozen, e) + LockSum(locked, e) + FeesIn(e, collected')
            = t.supply
      BY <1>3, <2>1, <2>2, <2>3, <2>4, <3>2, <3>3
    <3> QED BY <1>2, <2>4, <3>1, <3>4 DEF Counted
  <2>5. CASE e # d
    <3>1. tokens'[e] = tokens[e] /\ (Exists(e) <=> Exists(e)')
      BY <1>2, <2>5 DEF Exists
    <3>2. ColumnSum(coins', e) + FeesIn(e, collected') = ColumnSum(coins, e) + FeesIn(e, collected)
      <4>1. ColumnSum(coins', e) + FeesIn(e, collected')
              = ColumnSum(coins, e) + FeesIn(e, collected) + 0
        BY <2>5
      <4> QED BY <2>1, <2>2, <4>1
    <3>3. ColumnSum(coins', e) + ColumnSum(frozen, e) + LockSum(locked, e) + FeesIn(e, collected')
            = SupplyOf(tokens[e])
      BY <2>1, <2>2, <2>3, <3>2
    <3> QED BY <2>3, <3>1, <3>3 DEF Counted
  <2> QED BY <2>4, <2>5
<1> QED BY <1>1, <1>4, <1>5 DEF MoneyInv

\* the same when coins and fees stay, and the supply
LEMMA RecordStep ==
  ASSUME MoneyInv, NEW d \in Denoms, Exists(d), NEW t \in Token, SoundToken(t),
         tokens' = [tokens EXCEPT ![d] = t], t.sendLock = tokens[d].sendLock,
         t.supply = tokens[d].supply,
         coins' = coins, collected' = collected, locked' = locked, frozen' = frozen,
         accounts' = accounts, now' = now
  PROVE MoneyInv'
<1>1. coins' \in Balances /\ collected' \in Nat
  BY MoneyFacts
<1>2. t.sendLock = LockSum(locked, d)
  BY DEF MoneyInv, Counted
<1>3. SupplyOf(tokens[d]) = t.supply /\ t.supply \in Nat
  BY TokenFields DEF Exists, SupplyOf
<1>4. ASSUME NEW e \in Denoms
      PROVE ColumnSum(coins', e) + FeesIn(e, collected')
              = ColumnSum(coins, e) + FeesIn(e, collected)
                + (IF e = d THEN t.supply - SupplyOf(tokens[d]) ELSE 0)
  <2>1. ColumnSum(coins, e) \in Int /\ collected \in Nat
    BY MoneyFacts
  <2>2. FeesIn(e, collected) \in Int
    BY <2>1 DEF FeesIn
  <2> QED BY <1>3, <2>1, <2>2
<1> QED BY <1>1, <1>2, <1>4, TokenStep

LEMMA SoundTokens ==
  ASSUME MoneyInv, NEW d \in Denoms, Exists(d)
  PROVE tokens[d] \in Token /\ SoundToken(tokens[d])
BY TokenOf DEF MoneyInv, TokensValid, SoundToken

LEMMA IssueTokenMoney ==
  ASSUME MoneyInv, NEW u \in Users, NEW d \in Denoms, NEW n \in Nat \ {0}, NEW f \in Flags,
         now' = now, IssueToken(u, d, n, f)
  PROVE MoneyInv'
<1> DEFINE t == NewToken(u, n, f)
           w == Debit(coins, u, CET, IssueFee)
<1>0. coins \in Balances /\ collected \in Nat /\ CET \in Denoms /\ IssueFee \in Nat
  BY MoneyFacts, ConstantTypes
<1>1. /\ ~Exists(d) /\ coins[u][CET] >= IssueFee
      /\ tokens' = [tokens EXCEPT ![d] = t] /\ coins' = Credit(w, u, d, n)
      /\ collected' = collected + IssueFee
      /\ locked' = locked /\ frozen' = frozen /\ accounts' = accounts
  BY DEF IssueToken, HasCoins, holdVars
<1>2. t \in Token /\ SoundToken(t) /\ t.supply = n /\ t.sendLock = 0
  BY DEF NewToken, Token, SoundToken, Flags
<1>3. SupplyOf(tokens[d]) = 0 /\ LockSum(locked, d) = 0
  BY <1>1, NothingOfNoToken DEF SupplyOf, Exists
<1>4. w \in Balances
      /\ \A e \in Denoms : ColumnSum(w, e) = ColumnSum(coins, e) - (IF e = CET THEN IssueFee ELSE 0)
  BY <1>0, <1>1, DebitKeeps
<1> HIDE DEF t, w
<1>5. coins' \in Balances
      /\ \A e \in Denoms : ColumnSum(coins', e) = ColumnSum(w, e) + (IF e = d THEN n ELSE 0)
  BY <1>1, <1>4, CreditKeeps
<1>6. ASSUME NEW e \in Denoms
      PROVE ColumnSum(coins', e) + FeesIn(e, collected')
              = ColumnSum(coins, e) + FeesIn(e, collected)
                + (IF e = d THEN t.supply - SupplyOf(tokens[d]) ELSE 0)
  <2>1. ColumnSum(coins, e) \in Int
    BY MoneyFacts
  <2>2. ColumnSum(coins', e) = ColumnSum(coins, e) - (IF e = CET THEN IssueFee ELSE 0)
                               + (IF e = d THEN n ELSE 0)
    BY <1>4, <1>5
  <2> QED BY <1>0, <1>1, <1>2, <1>3, <2>1, <2>2 DEF FeesIn
<1>7. collected' \in Nat /\ t.sendLock = LockSum(locked, d)
  BY <1>0, <1>1, <1>2, <1>3
<1> QED BY <1>1, <1>2, <1>5, <1>6, <1>7, TokenStep

LEMMA MintTokenMoney ==
  ASSUME MoneyInv, NEW u \in Users, NEW d \in Denoms, NEW n \in Nat \ {0},
         now' = now, MintToken(u, d, n)
  PROVE MoneyInv'
<1> DEFINE old == tokens[d]
           t == [old EXCEPT !.mint = @ + n, !.supply = @ + n]
<1>0. coins \in Balances /\ collected \in Nat /\ tokens \in [Denoms -> Token \cup {NoToken}]
  BY MoneyFacts
<1>1. /\ Exists(d) /\ old.mintable /\ tokens' = [tokens EXCEPT ![d] = t]
      /\ coins' = Credit(coins, u, d, n) /\ collected' = collected
      /\ locked' = locked /\ frozen' = frozen /\ accounts' = accounts
  BY DEF MintToken, IsTokenIssuer, holdVars
<1>2. old \in Token /\ SoundToken(old)
  BY <1>1, SoundTokens
<1>3. SupplyOf(tokens[d]) = old.supply /\ old.supply \in Nat /\ old.sendLock = LockSum(locked, d)
  BY <1>1, <1>2, TokenFields DEF SupplyOf, Exists, MoneyInv, Counted
<1> HIDE DEF old
<1>4. t \in Token /\ SoundToken(t) /\ t.supply = old.supply + n /\ t.sendLock = old.sendLock
  <2> DEFINE x == old.mint + n
             y == old.supply + n
  <2>1. x \in Nat /\ y \in Nat \ {0} /\ t = [old EXCEPT !.mint = x, !.supply = y]
    <3>1. old.supply \in Nat /\ old.mint \in Nat
      BY <1>2, TokenFields
    <3> QED BY <1>1, <3>1
  <2> HIDE DEF x, y, t
  <2>2. t \in Token /\ t.supply = y /\ t.sendLock = old.sendLock
    BY <1>2, <2>1 DEF Token
  <2>3. SoundToken(t)
    BY <1>1, <1>2, <2>1 DEF Token, SoundToken
  <2> QED BY <2>2, <2>3 DEF y
<1> HIDE DEF t
<1>5. coins' \in Balances
      /\ \A e \in Denoms : ColumnSum(coins', e) = ColumnSum(coins, e) + (IF e = d THEN n ELSE 0)
  BY <1>0, <1>1, CreditKeeps
<1>6. ASSUME NEW e \in Denoms
      PROVE ColumnSum(coins', e) + FeesIn(e, collected')
              = ColumnSum(coins, e) + FeesIn(e, collected)
                + (IF e = d THEN t.supply - SupplyOf(tokens[d]) ELSE 0)
  <2>1. ColumnSum(coins, e) \in Int
    BY MoneyFacts
  <2> QED BY <1>0, <1>1, <1>3, <1>4, <1>5, <2>1 DEF FeesIn
<1> QED BY <1>0, <1>1, <1>3, <1>4, <1>5, <1>6, TokenStep

LEMMA BurnTokenMoney ==
  ASSUME MoneyInv, NEW u \in Users, NEW d \in Denoms, NEW n \in Nat \ {0},
         now' = now, BurnToken(u, d, n)
  PROVE MoneyInv'
<1> DEFINE old == tokens[d]
           t == [old EXCEPT !.burn = @ + n, !.supply = @ - n]
<1>0. coins \in Balances /\ collected \in Nat /\ tokens \in [Denoms -> Token \cup {NoToken}]
  BY MoneyFacts
<1>1. /\ Exists(d) /\ old.burnable /\ tokens' = [tokens EXCEPT ![d] = t]
      /\ coins[u][d] >= n /\ old.supply - n > 0
      /\ coins' = Debit(coins, u, d, n) /\ collected' = collected
      /\ locked' = locked /\ frozen' = frozen /\ accounts' = accounts
  BY DEF BurnToken, IsTokenIssuer, HasCoins, holdVars
<1>2. old \in Token /\ SoundToken(old)
  BY <1>1, SoundTokens
<1>3. SupplyOf(tokens[d]) = old.supply /\ old.supply \in Nat /\ old.sendLock = LockSum(locked, d)
  BY <1>1, <1>2, TokenFields DEF SupplyOf, Exists, MoneyInv, Counted
<1> HIDE DEF old
<1>4. t \in Token /\ SoundToken(t) /\ t.supply = old.supply - n /\ t.sendLock = old.sendLock
  <2> DEFINE x == old.burn + n
             y == old.supply - n
  <2>1. x \in Nat /\ y \in Nat \ {0} /\ t = [old EXCEPT !.burn = x, !.supply = y]
    <3>1. old.supply \in Nat /\ old.burn \in Nat
      BY <1>2, TokenFields
    <3> QED BY <1>1, <3>1
  <2> HIDE DEF x, y, t
  <2>2. t \in Token /\ t.supply = y /\ t.sendLock = old.sendLock
    BY <1>2, <2>1 DEF Token
  <2>3. SoundToken(t)
    BY <1>1, <1>2, <2>1 DEF Token, SoundToken
  <2> QED BY <2>2, <2>3 DEF y
<1> HIDE DEF t
<1>5. coins' \in Balances
      /\ \A e \in Denoms : ColumnSum(coins', e) = ColumnSum(coins, e) - (IF e = d THEN n ELSE 0)
  BY <1>0, <1>1, DebitKeeps
<1>6. ASSUME NEW e \in Denoms
      PROVE ColumnSum(coins', e) + FeesIn(e, collected')
              = ColumnSum(coins, e) + FeesIn(e, collected)
                + (IF e = d THEN t.supply - SupplyOf(tokens[d]) ELSE 0)
  <2>1. ColumnSum(coins, e) \in Int
    BY MoneyFacts
  <2> QED BY <1>0, <1>1, <1>3, <1>4, <1>5, <2>1 DEF FeesIn
<1> QED BY <1>0, <1>1, <1>3, <1>4, <1>5, <1>6, TokenStep

LEMMA RecordMoney ==
  ASSUME MoneyInv, NEW u \in Users, NEW d \in Denoms, now' = now,
         \/ \E v \in Users : TransferOwnership(u, d, v)
         \/ \E b \in BOOLEAN : SetForbidden(u, d, b)
  PROVE MoneyInv'
<1> DEFINE old == tokens[d]
<1>1. CASE \E v \in Users : TransferOwnership(u, d, v)
  <2>1. PICK v \in Users : TransferOwnership(u, d, v)
    BY <1>1
  <2> DEFINE t == [old EXCEPT !.owner = v]
  <2>2. /\ Exists(d) /\ tokens' = [tokens EXCEPT ![d] = t] /\ coins' = coins
        /\ collected' = collected /\ locked' = locked /\ frozen' = frozen /\ accounts' = accounts
    BY <2>1 DEF TransferOwnership, IsTokenIssuer, holdVars
  <2>3. old \in Token /\ SoundToken(old)
    BY <2>2, SoundTokens
  <2>4. t \in Token /\ SoundToken(t) /\ t.supply = old.supply /\ t.sendLock = old.sendLock
    <3> HIDE DEF old
    <3> QED BY <2>3 DEF Token, SoundToken
  <2> HIDE DEF t
  <2> QED BY <2>2, <2>4, RecordStep
<1>2. CASE \E b \in BOOLEAN : SetForbidden(u, d, b)
  <2>1. PICK b \in BOOLEAN : SetForbidden(u, d, b)
    BY <1>2
  <2> DEFINE t == [old EXCEPT !.forbidden = b]
  <2>2. /\ Exists(d) /\ tokens' = [tokens EXCEPT ![d] = t] /\ coins' = coins
        /\ collected' = collected /\ locked' = locked /\ frozen' = frozen /\ accounts' = accounts
        /\ old.tokenForbiddable
    BY <2>1 DEF SetForbidden, IsTokenIssuer, holdVars
  <2>3. old \in Token /\ SoundToken(old)
    BY <2>2, SoundTokens
  <2>4. t \in Token /\ SoundToken(t) /\ t.supply = old.supply /\ t.sendLock = old.sendLock
    <3> HIDE DEF old
    <3> QED BY <2>2, <2>3 DEF Token, SoundToken
  <2> HIDE DEF t
  <2> QED BY <2>2, <2>4, RecordStep
<1> QED BY <1>1, <1>2

\* What the owner holds is the whole supply when it may be changed.
LEMMA ModifyTokenInfoMoney ==
  ASSUME MoneyInv, NEW u \in Users, NEW d \in Denoms, NEW n \in Nat \ {0}, NEW f \in Flags,
         now' = now, ModifyTokenInfo(u, d, n, f)
  PROVE MoneyInv'
<1> DEFINE old == tokens[d]
           t == Modified(old, n, f)
           held == GetTotalCoins(u, d)
           m == n - held
<1>0. coins \in Balances /\ coins \in IntBalances /\ collected \in Nat
      /\ tokens \in [Denoms -> Token \cup {NoToken}] /\ WalletTypes
  BY MoneyFacts DEF MoneyInv
<1>1. /\ Exists(d) /\ tokens' = [tokens EXCEPT ![d] = t] /\ collected' = collected
      /\ n # old.supply => coins[u][d] >= held - n /\ held = old.supply
      /\ coins' = IF n = old.supply THEN coins ELSE Credit(coins, u, d, m)
      /\ locked' = locked /\ frozen' = frozen /\ accounts' = accounts
  BY DEF ModifyTokenInfo, IsTokenIssuer, Distributed, holdVars
<1>2. old \in Token /\ SoundToken(old)
  BY <1>1, SoundTokens
<1>3. SupplyOf(tokens[d]) = old.supply /\ old.supply \in Nat /\ old.sendLock = LockSum(locked, d)
  BY <1>1, <1>2, TokenFields DEF SupplyOf, Exists, MoneyInv, Counted
<1>h. held \in Nat /\ coins[u][d] \in Nat
  BY <1>0, TotalCoinsOf
<1> HIDE DEF old, held
<1>4. t \in Token /\ SoundToken(t) /\ t.supply = n /\ t.sendLock = old.sendLock
  <2> DEFINE mi == IF old.mintable /\ ~f.mintable THEN 0 ELSE old.mint
             bu == IF old.burnable /\ ~f.burnable THEN 0 ELSE old.burn
             fo == old.forbidden /\ ~(old.tokenForbiddable /\ ~f.tokenForbiddable)
  <2>1. /\ old.mint \in Nat /\ old.burn \in Nat /\ old.forbidden \in BOOLEAN
        /\ old.forbidden => old.tokenForbiddable
        /\ old.mint > 0 => old.mintable
        /\ old.burn > 0 => old.burnable
    BY <1>2, TokenFields DEF SoundToken
  <2>2. /\ mi \in Nat /\ bu \in Nat /\ fo \in BOOLEAN
        /\ f.mintable \in BOOLEAN /\ f.burnable \in BOOLEAN
        /\ f.addrForbiddable \in BOOLEAN /\ f.tokenForbiddable \in BOOLEAN
        /\ mi > 0 => f.mintable
        /\ bu > 0 => f.burnable
        /\ fo => f.tokenForbiddable
    BY <2>1 DEF Flags
  <2>3. t = [old EXCEPT !.supply = n, !.mintable = f.mintable, !.burnable = f.burnable,
                        !.addrForbiddable = f.addrForbiddable,
                        !.tokenForbiddable = f.tokenForbiddable,
                        !.mint = mi, !.burn = bu, !.forbidden = fo]
    BY DEF Modified
  <2> HIDE DEF mi, bu, fo, t
  <2>4. /\ t \in Token /\ t.supply = n /\ t.sendLock = old.sendLock
        /\ t.mint = mi /\ t.burn = bu /\ t.forbidden = fo /\ t.mintable = f.mintable
        /\ t.burnable = f.burnable /\ t.tokenForbiddable = f.tokenForbiddable
    BY <1>2, <2>2, <2>3 DEF Token
  <2> QED BY <2>2, <2>4 DEF SoundToken
<1> HIDE DEF t
<1>m. m \in Int /\ m = n - held
  BY <1>h
<1> HIDE DEF m
<1>5. coins' \in Balances
      /\ \A e \in Denoms : ColumnSum(coins', e) = ColumnSum(coins, e) + (IF e = d THEN n - old.supply ELSE 0)
  <2>0. \A e \in Denoms : ColumnSum(coins, e) \in Int
    BY MoneyFacts
  <2>1. CASE n = old.supply
    BY <1>0, <1>1, <1>3, <2>0, <2>1
  <2>2. CASE n # old.supply
    <3>1. coins' = Credit(coins, u, d, m)
      BY <1>1, <2>2
    <3>2. coins' \in IntBalances /\ \A x \in Users, e \in Denoms :
            coins'[x][e] = IF x = u /\ e = d THEN coins[x][e] + m ELSE coins[x][e]
      <4>1. m \in Int /\ coins \in IntBalances /\ u \in Users /\ d \in Denoms
        BY <1>0, <1>m
      <4> DEFINE z == Credit(coins, u, d, m)
      <4>2. z \in IntBalances /\ \A x \in Users, e \in Denoms :
              z[x][e] = IF x = u /\ e = d THEN coins[x][e] + m ELSE coins[x][e]
        BY <4>1, CreditEntries
      <4>3. coins' = z
        BY <3>1
      <4> HIDE DEF z
      <4> QED BY <4>2, <4>3
    <3>3. \A e \in Denoms : ColumnSum(coins', e) = ColumnSum(coins, e) + (IF e = d THEN m ELSE 0)
      BY <1>0, <1>m, <3>1, CreditIs
    <3>4. \A x \in Users, e \in Denoms : coins[x][e] \in Nat
      BY MoneyFacts
    <3>5. \A x \in Users, e \in Denoms : coins'[x][e] >= 0
      BY <1>1, <1>h, <1>m, <2>2, <3>2, <3>4
    <3>6. coins' \in Balances
      BY <3>2, <3>5, BalancesFromEntries
    <3> QED BY <1>1, <1>m, <2>2, <3>3, <3>6
  <2> QED BY <2>1, <2>2
<1>6. ASSUME NEW e \in Denoms
      PROVE ColumnSum(coins', e) + FeesIn(e, collected')
              = ColumnSum(coins, e) + FeesIn(e, collected)
                + (IF e = d THEN t.supply - SupplyOf(tokens[d]) ELSE 0)
  <2>1. ColumnSum(coins, e) \in Int
    BY MoneyFacts
  <2> QED BY <1>0, <1>1, <1>3, <1>4, <1>5, <2>1 DEF FeesIn
<1> QED BY <1>0, <1>1, <1>3, <1>4, <1>5, <1>6, TokenStep

LEMMA NothingMoves ==
  ASSUME MoneyInv, UNCHANGED <<tokens, coins, collected, holdVars>>, now' \in Nat
  PROVE MoneyInv'
BY DEF MoneyInv, WalletTypes, Counted, TokensValid, Exists, holdVars

LEMMA AssetMoney ==
  ASSUME MoneyInv, NEW u \in Users, now' = now, AssetTransaction(u)
  PROVE MoneyInv'
<1>0. now' \in Nat
  BY MoneyFacts
<1>1. PICK d \in Denoms :
        \/ \E n \in IssueAmounts, f \in TokenFlags : IssueToken(u, d, n, f)
        \/ \E v \in NewOwners : TransferOwnership(u, d, v)
        \/ /\ Exists(d)
           /\ \E n \in MintAmounts : MintToken(u, d, n) \/ BurnToken(u, d, n)
        \/ \E b \in BOOLEAN : SetForbidden(u, d, b)
        \/ \E v \in Listed, b \in BOOLEAN : SetWhitelisted(u, d, v, b) \/ SetAddrForbidden(u, d, v, b)
        \/ /\ Exists(d)
           /\ \E n \in NewSupplies \cup {tokens[d].supply}, f \in TokenFlags :
                ModifyTokenInfo(u, d, n, f)
  BY Zenon DEF AssetTransaction
<1>2. /\ IssueAmounts \subseteq Nat \ {0} /\ MintAmounts \subseteq Nat \ {0}
      /\ TokenFlags \subseteq Flags /\ NewSupplies \subseteq Nat \ {0} /\ NewOwners \subseteq Users
  BY AssetsAssumption
<1>3. ASSUME NEW n \in IssueAmounts, NEW f \in TokenFlags, IssueToken(u, d, n, f) PROVE MoneyInv'
  BY <1>2, <1>3, IssueTokenMoney
<1>4. ASSUME NEW v \in NewOwners, TransferOwnership(u, d, v) PROVE MoneyInv'
  BY <1>2, <1>4, RecordMoney
<1>5. ASSUME NEW n \in MintAmounts, MintToken(u, d, n) PROVE MoneyInv'
  BY <1>2, <1>5, MintTokenMoney
<1>6. ASSUME NEW n \in MintAmounts, BurnToken(u, d, n) PROVE MoneyInv'
  BY <1>2, <1>6, BurnTokenMoney
<1>7. ASSUME NEW b \in BOOLEAN, SetForbidden(u, d, b) PROVE MoneyInv'
  BY <1>7, RecordMoney
<1>8. ASSUME NEW v \in Listed, NEW b \in BOOLEAN,
             SetWhitelisted(u, d, v, b) \/ SetAddrForbidden(u, d, v, b)
      PROVE MoneyInv'
  BY <1>0, <1>8, NothingMoves DEF SetWhitelisted, SetAddrForbidden
<1>9. ASSUME Exists(d), NEW n \in NewSupplies \cup {tokens[d].supply}, NEW f \in TokenFlags,
             ModifyTokenInfo(u, d, n, f)
      PROVE MoneyInv'
  <2>1. n \in Nat \ {0}
    <3>1. tokens[d].supply \in Nat \ {0}
      BY <1>9, SoundTokens, TokenFields
    <3> QED BY <1>2, <3>1
  <2> QED BY <1>2, <1>9, <2>1, ModifyTokenInfoMoney
<1> QED BY <1>1, <1>3, <1>4, <1>5, <1>6, <1>7, <1>8, <1>9
-----------------------------------------------------------------------------
(* What is left of a list when the coins that are due leave it *)

IsKept(g, s, n) ==
  g = [i \in 0..n |-> IF i = 0 THEN <<>>
                      ELSE IF IsDue(s[i]) THEN g[i - 1] ELSE Append(g[i - 1], s[i])]

LEMMA KeptExists ==
  ASSUME NEW s \in Seq(LockedCoin)
  PROVE \E g \in [0..Len(s) -> Seq(LockedCoin)] : IsKept(g, s, Len(s))
<1> DEFINE n == Len(s)
           G == {k \in 0..n : \E g \in [0..k -> Seq(LockedCoin)] : IsKept(g, s, k)}
<1>0. n \in Nat /\ \A i \in 1..n : s[i] \in LockedCoin
  OBVIOUS
<1> HIDE DEF n
<1>1. 0 \in G
  <2> DEFINE g == [i \in 0..0 |-> <<>>]
  <2>1. g \in [0..0 -> Seq(LockedCoin)] /\ IsKept(g, s, 0)
    BY DEF IsKept
  <2> QED BY <1>0, <2>1, SMTT(30)
<1>2. ASSUME NEW k \in 0..(n-1), k \in G PROVE k+1 \in G
  <2>1. PICK g \in [0..k -> Seq(LockedCoin)] : IsKept(g, s, k)
    BY <1>2
  <2> DEFINE last == IF IsDue(s[k+1]) THEN g[k] ELSE Append(g[k], s[k+1])
             h == [i \in 0..(k+1) |-> IF i = k+1 THEN last ELSE g[i]]
  <2>2. last \in Seq(LockedCoin)
    <3>1. g[k] \in Seq(LockedCoin) /\ s[k+1] \in LockedCoin
      BY <1>0, <2>1
    <3> QED BY <3>1
  <2>3. \A i \in 0..k : g[i] = IF i = 0 THEN <<>>
                               ELSE IF IsDue(s[i]) THEN g[i - 1] ELSE Append(g[i - 1], s[i])
    BY <2>1 DEF IsKept
  <2>4. h \in [0..(k+1) -> Seq(LockedCoin)]
    <3> HIDE DEF last
    <3> QED BY <2>1, <2>2
  <2>5. ASSUME NEW i \in 0..(k+1)
        PROVE h[i] = IF i = 0 THEN <<>>
                     ELSE IF IsDue(s[i]) THEN h[i - 1] ELSE Append(h[i - 1], s[i])
    <3>1. CASE i = k + 1
      <4>1. h[i] = last /\ h[i - 1] = g[k] /\ i # 0
        BY <3>1
      <4> QED BY <3>1, <4>1
    <3>2. CASE i # k + 1
      <4>1. i \in 0..k /\ h[i] = g[i] /\ (i # 0 => h[i - 1] = g[i - 1])
        BY <3>2
      <4> HIDE DEF h
      <4> QED BY <2>3, <4>1
    <3> QED BY <3>1, <3>2
  <2>6. IsKept(h, s, k + 1)
    <3>1. h = [i \in 0..(k+1) |-> h[i]]
      OBVIOUS
    <3> HIDE DEF h
    <3> QED BY <2>5, <3>1 DEF IsKept
  <2> HIDE DEF h
  <2> QED BY <1>0, <2>4, <2>6
<1>3. n \in G
  <2> HIDE DEF G
  <2> QED BY <1>0, <1>1, <1>2, NatSetInduction
<1> QED BY <1>3 DEF n

\* StillLocked is the last of the partial lists.
LEMMA StillLockedPartial ==
  ASSUME NEW s \in Seq(LockedCoin)
  PROVE \E g \in [0..Len(s) -> Seq(LockedCoin)] :
          /\ g[0] = <<>> /\ g[Len(s)] = StillLocked(s)
          /\ \A i \in 1..Len(s) : g[i] = IF IsDue(s[i]) THEN g[i - 1] ELSE Append(g[i - 1], s[i])
<1>1. PICK g \in [0..Len(s) -> Seq(LockedCoin)] : IsKept(g, s, Len(s))
  BY KeptExists
<1> DEFINE n == Len(s)
           c == CHOOSE h : IsKept(h, s, n)
<1>2. StillLocked(s) = c[n]
  BY Zenon DEF StillLocked, IsKept
<1>3. IsKept(c, s, n)
  BY <1>1
<1>4. n \in Nat
  OBVIOUS
<1>5. c = [i \in 0..n |-> IF i = 0 THEN <<>>
                          ELSE IF IsDue(s[i]) THEN c[i - 1] ELSE Append(c[i - 1], s[i])]
  BY <1>3 DEF IsKept
<1> HIDE DEF c, n
<1>6. \A i \in 0..n : c[i] = IF i = 0 THEN <<>>
                             ELSE IF IsDue(s[i]) THEN c[i - 1] ELSE Append(c[i - 1], s[i])
  BY <1>5
<1>7. \A i \in 0..n : g[i] = IF i = 0 THEN <<>>
                             ELSE IF IsDue(s[i]) THEN g[i - 1] ELSE Append(g[i - 1], s[i])
  BY <1>1 DEF IsKept, n
<1> DEFINE G == {k \in 0..n : c[k] = g[k]}
<1>8. n \in G
  <2>1. 0 \in G
    BY <1>4, <1>6, <1>7
  <2>2. ASSUME NEW k \in 0..(n-1), k \in G PROVE k + 1 \in G
    <3>1. k + 1 \in 0..n /\ k + 1 # 0 /\ (k + 1) - 1 = k /\ c[k] = g[k]
      BY <1>4, <2>2
    <3>2. c[k + 1] = g[k + 1]
      BY <1>6, <1>7, <3>1
    <3> QED BY <3>1, <3>2
  <2> HIDE DEF G
  <2> QED BY <1>4, <2>1, <2>2, NatSetInduction
<1>9. g[0] = <<>> /\ \A i \in 1..n : g[i] = IF IsDue(s[i]) THEN g[i - 1] ELSE Append(g[i - 1], s[i])
  BY <1>4, <1>7
<1> QED BY <1>1, <1>2, <1>8, <1>9 DEF n

\* what a coin counts for when those that are due count for nothing
Kept(val) == [c \in LockedCoin |-> IF IsDue(c) THEN 0 ELSE val[c]]
Released(val) == [c \in LockedCoin |-> IF IsDue(c) THEN val[c] ELSE 0]

LEMMA StillLockedSum ==
  ASSUME NEW s \in Seq(LockedCoin), NEW val \in [LockedCoin -> Int]
  PROVE /\ StillLocked(s) \in Seq(LockedCoin)
        /\ ValueSum(StillLocked(s), val) = ValueSum(s, Kept(val))
        /\ ValueSum(s, val) = ValueSum(s, Kept(val)) + ValueSum(s, Released(val))
        /\ ValueSum(s, Kept(val)) \in Int /\ ValueSum(s, Released(val)) \in Int
<1> DEFINE n == Len(s)
           f == [k \in DOMAIN s |-> Kept(val)[s[k]]]
           h == [k \in DOMAIN s |-> Released(val)[s[k]]]
           a == [k \in DOMAIN s |-> val[s[k]]]
<1>1. PICK g \in [0..n -> Seq(LockedCoin)] :
        /\ g[0] = <<>> /\ g[n] = StillLocked(s)
        /\ \A i \in 1..n : g[i] = IF IsDue(s[i]) THEN g[i - 1] ELSE Append(g[i - 1], s[i])
  BY StillLockedPartial
<1>2. n \in Nat /\ DOMAIN s = 1..n /\ \A i \in 1..n : s[i] \in LockedCoin
  OBVIOUS
<1>3. \A i \in 1..n : /\ f[i] = IF IsDue(s[i]) THEN 0 ELSE val[s[i]]
                      /\ h[i] = IF IsDue(s[i]) THEN val[s[i]] ELSE 0
                      /\ a[i] = val[s[i]]
                      /\ f[i] \in Int /\ h[i] \in Int /\ a[i] \in Int /\ val[s[i]] \in Int
                      /\ a[i] = f[i] + h[i]
  BY <1>2 DEF Kept, Released
<1>4. ValueSum(s, val) = SumTo(a, n) /\ ValueSum(s, Kept(val)) = SumTo(f, n)
      /\ ValueSum(s, Released(val)) = SumTo(h, n)
  BY DEF ValueSum
<1> HIDE DEF n, f, h, a
<1>5. SumTo(a, n) = SumTo(f, n) + SumTo(h, n)
  <2>1. \A i \in 1..n : f[i] \in Int /\ h[i] \in Int /\ a[i] = f[i] + h[i]
    BY <1>3
  <2> QED BY <1>2, <2>1, SumAdd
<1>6. SumTo(f, n) \in Int /\ SumTo(h, n) \in Int
  BY <1>2, <1>3, SumInt
<1> DEFINE G == {k \in 0..n : ValueSum(g[k], val) = SumTo(f, k)}
<1>7. n \in G
  <2>1. 0 \in G
    BY <1>1, <1>2, ValueSumEmpty, SumEmpty
  <2>2. ASSUME NEW k \in 0..(n-1), k \in G PROVE k + 1 \in G
    <3>1. /\ k \in Nat /\ k + 1 \in 1..n /\ k + 1 \in 0..n /\ (k + 1) - 1 = k
          /\ ValueSum(g[k], val) = SumTo(f, k) /\ k \in 0..n
      BY <1>2, <2>2
    <3>2. g[k] \in Seq(LockedCoin) /\ s[k + 1] \in LockedCoin
      BY <1>1, <1>2, <3>1
    <3>3. \A i \in 1..(k + 1) : f[i] \in Int
      BY <1>2, <1>3, <3>1
    <3>4. SumTo(f, k + 1) = SumTo(f, k) + f[k + 1]
      BY <3>1, <3>3, SumStep
    <3>5. g[k + 1] = IF IsDue(s[k + 1]) THEN g[k] ELSE Append(g[k], s[k + 1])
      BY <1>1, <3>1
    <3>6. f[k + 1] = IF IsDue(s[k + 1]) THEN 0 ELSE val[s[k + 1]]
      BY <1>3, <3>1
    <3>7. ValueSum(Append(g[k], s[k + 1]), val) = ValueSum(g[k], val) + val[s[k + 1]]
      BY <3>2, ValueSumAppend
    <3>8. SumTo(f, k) \in Int
      <4>1. \A i \in 1..k : f[i] \in Int
        BY <3>1, <3>3
      <4> QED BY <3>1, <4>1, SumInt
    <3>9. ValueSum(g[k + 1], val) = SumTo(f, k + 1)
      <4>1. CASE IsDue(s[k + 1])
        BY <3>1, <3>4, <3>5, <3>6, <3>8, <4>1
      <4>2. CASE ~IsDue(s[k + 1])
        BY <3>1, <3>4, <3>5, <3>6, <3>7, <4>2
      <4> QED BY <4>1, <4>2
    <3> QED BY <3>1, <3>9
  <2> HIDE DEF G
  <2> QED BY <1>2, <2>1, <2>2, NatSetInduction
<1>8. StillLocked(s) \in Seq(LockedCoin)
  BY <1>1, <1>2
<1>9. ValueSum(StillLocked(s), val) = SumTo(f, n)
  BY <1>1, <1>7
<1> QED BY <1>4, <1>5, <1>6, <1>8, <1>9

\* the coins that stay are those that are not due
LEMMA StillLockedElements ==
  ASSUME NEW s \in Seq(LockedCoin)
  PROVE /\ StillLocked(s) \in Seq(LockedCoin)
        /\ \A k \in 1..Len(StillLocked(s)) : \E j \in 1..Len(s) :
             StillLocked(s)[k] = s[j] /\ ~IsDue(s[j])
        /\ \A j \in 1..Len(s) : ~IsDue(s[j]) => \E k \in 1..Len(StillLocked(s)) :
             StillLocked(s)[k] = s[j]
<1> DEFINE n == Len(s)
           In(t, c) == \E k \in 1..Len(t) : t[k] = c
           Among(m, c) == \E j \in 1..m : s[j] = c /\ ~IsDue(s[j])
<1>1. PICK g \in [0..n -> Seq(LockedCoin)] :
        /\ g[0] = <<>> /\ g[n] = StillLocked(s)
        /\ \A i \in 1..n : g[i] = IF IsDue(s[i]) THEN g[i - 1] ELSE Append(g[i - 1], s[i])
  BY StillLockedPartial
<1>2. n \in Nat /\ \A i \in 1..n : s[i] \in LockedCoin
  OBVIOUS
<1> HIDE DEF n
<1> DEFINE G == {m \in 0..n : \A c \in LockedCoin : In(g[m], c) <=> Among(m, c)}
<1>3. n \in G
  <2>1. 0 \in G
    BY <1>1, <1>2
  <2>2. ASSUME NEW m \in 0..(n-1), m \in G PROVE m + 1 \in G
    <3>1. /\ m \in Nat /\ m + 1 \in 1..n /\ m + 1 \in 0..n /\ (m + 1) - 1 = m /\ m \in 0..n
      BY <1>2, <2>2
    <3>2. g[m] \in Seq(LockedCoin) /\ s[m + 1] \in LockedCoin
      BY <1>1, <1>2, <3>1
    <3>3. g[m + 1] = IF IsDue(s[m + 1]) THEN g[m] ELSE Append(g[m], s[m + 1])
      BY <1>1, <3>1
    <3>4. ASSUME NEW c \in LockedCoin PROVE In(g[m + 1], c) <=> Among(m + 1, c)
      <4>1. In(g[m], c) <=> Among(m, c)
        BY <2>2
      <4>2. Among(m + 1, c) <=> Among(m, c) \/ (s[m + 1] = c /\ ~IsDue(s[m + 1]))
        BY <3>1
      <4>3. In(Append(g[m], s[m + 1]), c) <=> In(g[m], c) \/ s[m + 1] = c
        BY <3>2, SMTT(30)
      <4> HIDE DEF In, Among
      <4> QED BY <3>3, <4>1, <4>2, <4>3
    <3> QED BY <3>1, <3>4
  <2> HIDE DEF G
  <2> QED BY <1>2, <2>1, <2>2, NatSetInduction
<1> DEFINE t == StillLocked(s)
<1>4. t \in Seq(LockedCoin) /\ \A c \in LockedCoin : In(t, c) <=> Among(n, c)
  BY <1>1, <1>2, <1>3
<1> HIDE DEF t
<1>5. \A k \in 1..Len(t) : t[k] \in LockedCoin
  BY <1>4
<1> QED BY <1>2, <1>4, <1>5 DEF t, n
-----------------------------------------------------------------------------
(* Blocks *)

\* the entries of the unlock queue
QueueTypes == queue \subseteq Nat \X Users /\ due \subseteq Nat \X Users

LEMMA BlockRewardNat ==
  ASSUME NEW h
  PROVE BlockReward(h) \in Nat
<1> DEFINE at == h + HeightAdjustment
           running == {k \in DOMAIN Plans : Plans[k].start < at /\ at <= Plans[k].end}
           f == [k \in DOMAIN Plans |-> IF k \in running THEN Plans[k].reward ELSE 0]
           n == Len(Plans)
<1>1. DefaultReward \in Nat /\ Plans \in Seq([start: Nat, end: Nat, reward: Nat])
  BY WalletsAssumption
<1>2. n \in Nat /\ DOMAIN Plans = 1..n /\ \A k \in 1..n : Plans[k].reward \in Nat
  <2> DEFINE Plan == [start: Nat, end: Nat, reward: Nat]
  <2>1. \A p \in Plan : p.reward \in Nat
    OBVIOUS
  <2>2. Plans \in Seq(Plan)
    BY <1>1
  <2> HIDE DEF Plan
  <2> QED BY <2>1, <2>2
<1>3. BlockReward(h) = IF running = {} THEN DefaultReward ELSE SumTo(f, n)
  BY DEF BlockReward
<1> HIDE DEF running
<1>4. \A k \in 1..n : f[k] \in Nat
  BY <1>2
<1> HIDE DEF f, n
<1>5. SumTo(f, n) \in Nat
  BY <1>2, <1>4, SumNat
<1> QED BY <1>1, <1>3, <1>5

LEMMA BeginBlockMoney ==
  ASSUME MoneyInv, BeginBlock
  PROVE MoneyInv'
<1> DEFINE reward == BlockReward(height + 1)
<1>1. reward \in Nat
  BY BlockRewardNat
<1>2. /\ IF PoolAccount # 0 /\ HasCoins(PoolAccount, CET, reward)
         THEN coins' = Debit(coins, PoolAccount, CET, reward) /\ collected' = collected + reward
         ELSE UNCHANGED <<coins, collected>>
      /\ tokens' = tokens /\ locked' = locked /\ frozen' = frozen /\ accounts' = accounts
  BY DEF BeginBlock, holdVars
<1>3. now' \in Nat /\ accounts' \subseteq Users
  <2>1. PICK gap \in 0..MaxTimeGap : now' = now + gap
    BY DEF BeginBlock
  <2> QED BY <1>2, <2>1, MoneyFacts, WalletsAssumption
<1> HIDE DEF reward
<1>4. CASE PoolAccount # 0 /\ HasCoins(PoolAccount, CET, reward)
  <2>1. /\ PoolAccount \in Users /\ coins[PoolAccount][CET] >= reward
        /\ coins' = Debit(coins, PoolAccount, CET, reward) /\ collected' = collected + reward
    BY <1>2, <1>4, WalletsAssumption DEF HasCoins
  <2> QED BY <1>1, <1>2, <1>3, <2>1, PayFee
<1>5. CASE ~(PoolAccount # 0 /\ HasCoins(PoolAccount, CET, reward))
  BY <1>2, <1>3, <1>5, NothingMoves DEF holdVars
<1> QED BY <1>4, <1>5

LEMMA UnlockedAmountOf ==
  ASSUME WalletTypes, NEW u \in Users, NEW d
  PROVE UnlockedAmount(u, d) = ValueSum(locked[u], Released(InDenom(d)))
<1> DEFINE s == locked[u]
           n == Len(s)
           f == [k \in DOMAIN s |-> Released(InDenom(d))[s[k]]]
           g == [k \in DOMAIN s |-> IF IsDue(s[k]) /\ s[k].denom = d THEN s[k].amount ELSE 0]
<1>1. s \in Seq(LockedCoin)
  BY DEF WalletTypes, Lists
<1>2. UnlockedAmount(u, d) = SumTo(g, n) /\ ValueSum(s, Released(InDenom(d))) = SumTo(f, n)
  BY DEF UnlockedAmount, ValueSum
<1> HIDE DEF s
<1>3. n \in Nat /\ DOMAIN s = 1..n /\ \A k \in 1..n : s[k] \in LockedCoin
  BY <1>1
<1> HIDE DEF n
<1>4. \A k \in 1..n : f[k] \in Int /\ g[k] = f[k]
  <2> SUFFICES ASSUME NEW k \in 1..n PROVE f[k] \in Int /\ g[k] = f[k]
    OBVIOUS
  <2>1. s[k] \in LockedCoin /\ k \in DOMAIN s
    BY <1>3
  <2>2. InDenom(d)[s[k]] = (IF s[k].denom = d THEN s[k].amount ELSE 0) /\ InDenom(d)[s[k]] \in Int
    BY <2>1, InDenomType
  <2>3. f[k] = IF IsDue(s[k]) THEN InDenom(d)[s[k]] ELSE 0
    BY <2>1 DEF Released
  <2>4. g[k] = IF IsDue(s[k]) /\ s[k].denom = d THEN s[k].amount ELSE 0
    BY <2>1
  <2> QED BY <2>2, <2>3, <2>4
<1> HIDE DEF f, g
<1>5. SumTo(g, n) = SumTo(f, n)
  BY <1>3, <1>4, SumCongruence
<1> QED BY <1>2, <1>5 DEF s

\* The coins that are due become spendable: the sendLock's decrement does not fail.
LEMMA WithdrawMoney ==
  ASSUME MoneyInv, NEW e, e[2] \in Users, WithdrawUnlocked(e)
  PROVE MoneyInv'
<1> DEFINE u == e[2]
           s == StillLocked(locked[u])
           l == [locked EXCEPT ![u] = s]
           out == [d \in Denoms |-> UnlockedAmount(u, d)]
           x == [d \in Denoms |-> 0 - out[d]]
<1>0. /\ coins \in Balances /\ frozen \in Balances /\ locked \in Lists /\ collected \in Nat
      /\ tokens \in [Denoms -> Token \cup {NoToken}] /\ accounts \subseteq Users /\ now \in Nat
      /\ WalletTypes
  BY MoneyFacts DEF MoneyInv
<1>1. /\ coins' = [coins EXCEPT ![u] = [d \in Denoms |-> @[d] + UnlockedAmount(u, d)]]
      /\ tokens' = [d \in Denoms |->
                       IF Exists(d) /\ tokens[d].sendLock >= UnlockedAmount(u, d)
                       THEN [tokens[d] EXCEPT !.sendLock = @ - UnlockedAmount(u, d)]
                       ELSE tokens[d]]
      /\ locked' = l
      /\ collected' = collected /\ frozen' = frozen /\ accounts' = accounts /\ now' = now
  BY DEF WithdrawUnlocked
<1>2. u \in Users /\ locked[u] \in Seq(LockedCoin)
  BY <1>0 DEF Lists
<1> HIDE DEF u
<1>3. ASSUME NEW d \in Denoms
      PROVE /\ out[d] = UnlockedAmount(u, d) /\ out[d] \in Nat /\ x[d] = 0 - out[d]
            /\ out[d] <= LockSum(locked, d)
            /\ ValueSum(s, InDenom(d)) = ValueSum(locked[u], InDenom(d)) - out[d]
            /\ s \in Seq(LockedCoin) /\ ValueSum(locked[u], InDenom(d)) \in Int
  <2> DEFINE val == InDenom(d)
  <2>1. val \in [LockedCoin -> Nat] /\ val \in [LockedCoin -> Int]
    BY InDenomType
  <2>2. Released(val) \in [LockedCoin -> Nat] /\ Kept(val) \in [LockedCoin -> Nat]
    BY <2>1 DEF Released, Kept
  <2> HIDE DEF val
  <2>3. ValueSum(locked[u], Released(val)) \in Nat /\ ValueSum(locked[u], Kept(val)) \in Nat
    BY <1>2, <2>2, ValueSumNat
  <2>4. /\ s \in Seq(LockedCoin) /\ ValueSum(s, val) = ValueSum(locked[u], Kept(val))
        /\ ValueSum(locked[u], val)
             = ValueSum(locked[u], Kept(val)) + ValueSum(locked[u], Released(val))
    BY <1>2, <2>1, StillLockedSum
  <2>5. out[d] = UnlockedAmount(u, d) /\ UnlockedAmount(u, d) = ValueSum(locked[u], Released(val))
    BY <1>0, <1>2, UnlockedAmountOf DEF val
  <2>6. ValueSum(locked[u], val) <= LockSum(locked, d) /\ LockSum(locked, d) \in Nat
    BY <1>0, <1>2, LockColumnNat DEF val
  <2>7. x[d] = 0 - out[d]
    OBVIOUS
  <2> HIDE DEF out, x, s
  <2>8. out[d] \in Nat /\ out[d] <= LockSum(locked, d)
        /\ ValueSum(s, val) = ValueSum(locked[u], val) - out[d] /\ ValueSum(locked[u], val) \in Int
    BY <2>3, <2>4, <2>5, <2>6
  <2> QED BY <2>4, <2>5, <2>7, <2>8 DEF val
<1>4. s \in Seq(LockedCoin)
  BY <1>2, StillLockedElements
<1> HIDE DEF s, out
<1>5. locked' \in Lists
  BY <1>0, <1>1, <1>2, <1>4 DEF Lists
<1>6. ASSUME NEW d \in Denoms PROVE LockSum(locked', d) = LockSum(locked, d) + x[d]
  <2>1. LockSum(l, d) = LockSum(locked, d) + (ValueSum(s, InDenom(d)) - ValueSum(locked[u], InDenom(d)))
    BY <1>0, <1>2, <1>4, LockUpdate
  <2>2. LockSum(locked, d) \in Int
    BY MoneyFacts
  <2> HIDE DEF l, x
  <2> QED BY <1>1, <1>3, <2>1, <2>2
<1>7. coins' \in Balances /\ \A v \in Users, d \in Denoms :
        coins'[v][d] = IF v = u THEN coins[v][d] + out[d] ELSE coins[v][d]
  <2>1. \A d \in Denoms : coins[u][d] \in Nat /\ out[d] = UnlockedAmount(u, d) /\ out[d] \in Nat
    BY <1>2, <1>3, MoneyFacts
  <2> DEFINE row == [d \in Denoms |-> coins[u][d] + UnlockedAmount(u, d)]
  <2>2. row \in [Denoms -> Nat] /\ coins' = [coins EXCEPT ![u] = row]
    BY <1>1, <2>1
  <2>3. \A d \in Denoms : row[d] = coins[u][d] + out[d]
    BY <2>1
  <2> HIDE DEF row
  <2> QED BY <1>0, <1>2, <2>2, <2>3 DEF Balances
<1>8. ASSUME NEW d \in Denoms
      PROVE ColumnSum(coins', d) + ColumnSum(frozen', d) + FeesIn(d, collected')
              = ColumnSum(coins, d) + ColumnSum(frozen, d) + FeesIn(d, collected) - x[d]
  <2>1. coins \in IntBalances /\ coins' \in IntBalances
    BY <1>0, <1>7, BalancesAreInt
  <2>2. \A v \in Users \ {u} : coins'[v][d] = coins[v][d]
    BY <1>7
  <2>3. ColumnSum(coins', d) = ColumnSum(coins, d) + (coins'[u][d] - coins[u][d])
    BY <1>2, <2>1, <2>2, ColumnUpdate
  <2>4. coins'[u][d] = coins[u][d] + out[d] /\ coins[u][d] \in Int
    BY <1>2, <1>7, MoneyFacts
  <2>5. ColumnSum(coins, d) \in Int /\ ColumnSum(frozen, d) \in Int
    BY MoneyFacts
  <2>6. FeesIn(d, collected) \in Int
    BY <1>0 DEF FeesIn
  <2> HIDE DEF x
  <2> QED BY <1>1, <1>3, <2>3, <2>4, <2>5, <2>6, SMTT(30)
<1>9. tokens' = [d \in Denoms |-> tokens'[d]]
  BY <1>1
<1>10. ASSUME NEW d \in Denoms
       PROVE IF Exists(d) THEN tokens'[d] = [tokens[d] EXCEPT !.sendLock = tokens[d].sendLock + x[d]]
             ELSE tokens'[d] = NoToken
  <2>1. CASE Exists(d)
    <3>1. tokens[d].sendLock = LockSum(locked, d) /\ LockSum(locked, d) \in Nat
      BY <2>1, MoneyFacts DEF MoneyInv, Counted
    <3>2. tokens[d].sendLock >= UnlockedAmount(u, d)
          /\ tokens[d].sendLock - UnlockedAmount(u, d) = tokens[d].sendLock + x[d]
      BY <1>3, <3>1
    <3>3. tokens'[d] = [tokens[d] EXCEPT !.sendLock = tokens[d].sendLock - UnlockedAmount(u, d)]
      BY <1>1, <2>1, <3>2
    <3> QED BY <2>1, <3>2, <3>3
  <2>2. CASE ~Exists(d)
    BY <1>1, <2>2 DEF Exists
  <2> QED BY <2>1, <2>2
<1>11. x \in [Denoms -> Int]
  BY <1>3
<1> HIDE DEF x
<1>12. collected' \in Nat /\ frozen' \in Balances /\ now' \in Nat /\ accounts' \subseteq Users
  BY <1>0, <1>1
<1> QED BY <1>5, <1>6, <1>7, <1>8, <1>9, <1>10, <1>11, <1>12, LockStep
-----------------------------------------------------------------------------
(* The coins are counted right in every state *)

LEMMA InitMoney ==
  ASSUME WalletsInit
  PROVE MoneyInv
<1>1. /\ InitTokens \in [Denoms -> Token \cup {NoToken}] /\ InitCoins \in Balances
      /\ NumUsers \in Nat /\ Users = 1..NumUsers
  BY AssetsAssumption, ConstantTypes DEF Balances
<1>2. /\ tokens = InitTokens /\ coins = InitCoins /\ collected = 0 /\ now = 0
      /\ frozen = [u \in Users |-> [d \in Denoms |-> 0]] /\ locked = [u \in Users |-> <<>>]
      /\ accounts = {u \in Users : \E d \in Denoms : InitCoins[u][d] > 0}
  BY DEF WalletsInit
<1>3. WalletTypes
  <2>1. frozen \in Balances
    BY <1>2 DEF Balances
  <2>2. locked \in Lists
    BY <1>2 DEF Lists
  <2> QED BY <1>1, <1>2, <2>1, <2>2 DEF WalletTypes
<1>4. ASSUME NEW d \in Denoms
      PROVE Counted(d)
  <2>1. ColumnSum(coins, d) = SumTo([u \in Users |-> InitCoins[u][d]], NumUsers)
    BY <1>2 DEF ColumnSum, Column
  <2>2. ColumnSum(frozen, d) = 0
    <3>1. \A u \in 1..NumUsers : Column(frozen, d)[u] = 0
      BY <1>1, <1>2 DEF Column
    <3> QED BY <1>1, <3>1, SumOfZeros DEF ColumnSum
  <2>3. LockSum(locked, d) = 0
    <3>1. \A u \in 1..NumUsers : LockColumn(locked, d)[u] = 0
      BY <1>1, <1>2, ValueSumEmpty DEF LockColumn
    <3> QED BY <1>1, <3>1, SumOfZeros DEF LockSum
  <2>4. FeesIn(d, collected) = 0
    BY <1>2 DEF FeesIn
  <2>5. /\ SumTo([u \in Users |-> InitCoins[u][d]], NumUsers) = SupplyOf(tokens[d])
        /\ Exists(d) => tokens[d].sendLock = 0
    BY <1>2, GenesisAssumption DEF SupplyOf, Exists
  <2>6. ColumnSum(coins, d) \in Int
    <3>1. coins \in Balances
      BY <1>1, <1>2
    <3> QED BY <3>1, ColumnNat
  <2> QED BY <2>1, <2>2, <2>3, <2>4, <2>5, <2>6 DEF Counted
<1>5. TokensValid
  <2> SUFFICES ASSUME NEW d \in Denoms, Exists(d)
               PROVE LET t == tokens[d]
                     IN  /\ t.supply > 0 /\ t.mint >= 0 /\ t.burn >= 0 /\ t.sendLock >= 0
                         /\ t.forbidden => t.tokenForbiddable
                         /\ t.mint > 0 => t.mintable
                         /\ t.burn > 0 => t.burnable
    BY DEF TokensValid
  <2>1. tokens[d] \in Token
    BY <1>3, TokenOf
  <2>2. SoundToken(tokens[d])
    BY <1>2, GenesisAssumption DEF SoundToken, Exists
  <2> QED BY <2>1, <2>2, TokenFields DEF SoundToken
<1> QED BY <1>3, <1>4, <1>5 DEF MoneyInv

LEMMA BankMoney ==
  ASSUME MoneyInv, now' = now, BankTransaction
  PROVE MoneyInv'
<1>1. /\ Sends \subseteq SendMsg /\ Supervised \subseteq SupervisedMsg
      /\ \A r \in Supervised : r.reward <= r.amount
      /\ \A m \in MultiSends : m.ins \in Entries /\ m.outs \in Entries /\ InputsMatchOutputs(m)
      /\ \A f \in Freezes : f.user \in Users /\ f.denom \in Denoms /\ f.amount \in Nat \ {0}
      /\ Donations \subseteq Nat
  BY WalletsAssumption
<1>2. ASSUME NEW m \in Sends, Send(m.from, m.to, m.denom, m.amount, m.time) PROVE MoneyInv'
  <2>1. m.from \in Users /\ m.to \in Users /\ m.denom \in Denoms /\ m.amount \in Nat \ {0}
        /\ m.time \in Nat
    BY <1>1 DEF SendMsg
  <2> QED BY <1>2, <2>1, SendMoney
<1>3. ASSUME NEW m \in MultiSends, MultiSend(m.ins, m.outs) PROVE MoneyInv'
  BY <1>1, <1>3, MultiSendMoney DEF InputsMatchOutputs
<1>4. ASSUME NEW r \in Supervised, SupervisedSend(r) PROVE MoneyInv'
  BY <1>1, <1>4, SupervisedSendMoney
<1>5. ASSUME NEW r \in Supervised, EarlyUnlock(r) PROVE MoneyInv'
  BY <1>1, <1>5, EarlyUnlockMoney
<1>6. ASSUME NEW f \in Freezes,
             Freeze(f.user, f.denom, f.amount) \/ UnFreeze(f.user, f.denom, f.amount)
      PROVE MoneyInv'
  <2>1. f.user \in Users /\ f.denom \in Denoms /\ f.amount \in Nat
    BY <1>1
  <2> QED BY <1>6, <2>1, FreezeMoney
<1>7. ASSUME NEW u \in Signers, NEW n \in Donations, Donate(u, n) PROVE MoneyInv'
  <2>1. u \in Users /\ n \in Nat
    BY <1>1, MoneyFacts DEF Signers
  <2> QED BY <1>7, <2>1, DonateMoney
<1> QED BY <1>2, <1>3, <1>4, <1>5, <1>6, <1>7 DEF BankTransaction

LEMMA WalletsMoney ==
  ASSUME MoneyInv, QueueTypes, [WalletsNext]_walletVars
  PROVE MoneyInv'
<1>0. now \in Nat /\ accounts \subseteq Users
  BY MoneyFacts
<1>1. CASE WalletTransaction
  <2>1. now' = now
    BY <1>1 DEF WalletTransaction, blockVars
  <2>2. CASE BankTransaction
    BY <2>1, <2>2, BankMoney
  <2>3. ASSUME NEW u \in Signers, AssetTransaction(u) PROVE MoneyInv'
    <3>1. u \in Users
      BY <1>0 DEF Signers
    <3> QED BY <2>1, <2>3, <3>1, AssetMoney
  <2> QED BY <1>1, <2>2, <2>3 DEF WalletTransaction
<1>2. CASE BeginBlock
  BY <1>2, BeginBlockMoney
<1>3. CASE EndBlocker
  BY <1>0, <1>3, NothingMoves DEF EndBlocker, assetVars
<1>4. ASSUME NEW e \in due, WithdrawUnlocked(e) PROVE MoneyInv'
  <2>1. e[2] \in Users
    BY DEF QueueTypes
  <2> QED BY <1>4, <2>1, WithdrawMoney
<1>5. CASE Commit
  BY <1>0, <1>5, NothingMoves DEF Commit, assetVars
<1>6. CASE Restart
  BY <1>0, <1>6, NothingMoves DEF Restart, assetVars
<1>7. CASE UNCHANGED walletVars
  BY <1>0, <1>7, NothingMoves DEF walletVars, assetVars, blockVars
<1> QED BY <1>1, <1>2, <1>3, <1>4, <1>5, <1>6, <1>7 DEF WalletsNext, BlockStep, Full

\* An alias is paid for, a comment may give coins; nothing else about a profile is money.
LEMMA ProfileMoney ==
  ASSUME MoneyInv, ProfileTransaction
  PROVE MoneyInv'
<1>0. /\ now' = now /\ now \in Nat /\ accounts \subseteq Users
      /\ ProfileUsers \subseteq Users
      /\ \A c \in Comments : c.token \in Denoms /\ c.donation \in Nat /\ c.reward \in Reward
  BY MoneyFacts, ProfilesAssumption DEF ProfileTransaction, blockVars
<1>1. ASSUME NEW u \in Users, NEW a \in Aliases, NEW b \in BOOLEAN, AddAlias(u, a, b)
      PROVE MoneyInv'
  <2>1. /\ tokens' = tokens /\ locked' = locked /\ frozen' = frozen /\ accounts' = accounts
        /\ \/ /\ HasCoins(u, CET, AliasFee)
              /\ coins' = Debit(coins, u, CET, AliasFee) /\ collected' = collected + AliasFee
           \/ coins' = coins /\ collected' = collected
    <3> DEFINE isNew == \A e \in Of(aliasesOf, u) : e[2] # a
    <3>1. /\ tokens' = tokens /\ locked' = locked /\ frozen' = frozen /\ accounts' = accounts
          /\ isNew => HasCoins(u, CET, AliasFee)
          /\ coins' = IF isNew THEN Debit(coins, u, CET, AliasFee) ELSE coins
          /\ collected' = IF isNew THEN collected + AliasFee ELSE collected
      BY <1>1 DEF AddAlias, holdVars
    <3> HIDE DEF isNew
    <3> QED BY <3>1
  <2>2. CASE /\ HasCoins(u, CET, AliasFee)
             /\ coins' = Debit(coins, u, CET, AliasFee) /\ collected' = collected + AliasFee
    <3>1. coins[u][CET] >= AliasFee /\ AliasFee \in Nat /\ accounts' \subseteq Users /\ now' \in Nat
      BY <1>0, <2>1, <2>2, ConstantTypes DEF HasCoins
    <3> QED BY <2>1, <2>2, <3>1, PayFee
  <2>3. CASE coins' = coins /\ collected' = collected
    BY <1>0, <2>1, <2>3, NothingMoves DEF holdVars
  <2> QED BY <2>1, <2>2, <2>3
<1>2. ASSUME NEW u \in Users, NEW c \in Comments, CommentToken(u, c) PROVE MoneyInv'
  <2> DEFINE r == c.reward
             w == Debit(coins, u, CET, c.donation)
  <2>1. /\ coins[u][CET] >= c.donation /\ c.donation \in Nat
        /\ r.token \in Denoms /\ r.amount \in Nat /\ r.target \in Users
        /\ r.amount > 0 => w[u][r.token] >= r.amount
        /\ coins' = IF r.amount > 0 THEN Credit(Debit(w, u, r.token, r.amount), r.target, r.token, r.amount)
                    ELSE w
        /\ collected' = collected + c.donation
        /\ tokens' = tokens /\ locked' = locked /\ frozen' = frozen /\ accounts' = accounts
    BY <1>0, <1>2 DEF CommentToken, HasCoins, holdVars, Reward
  <2>2. w = Debit(coins, u, CET, c.donation)
    OBVIOUS
  <2>3. now' \in Nat /\ accounts' \subseteq Users
    BY <1>0, <2>1
  <2> HIDE DEF r, w
  <2>4. CASE r.amount > 0
    <3>1. coins' = Credit(Debit(w, u, r.token, r.amount), r.target, r.token, r.amount)
          /\ w[u][r.token] >= r.amount
      BY <2>1, <2>4
    <3> QED BY <2>1, <2>2, <2>3, <3>1, PayAndSend
  <2>5. CASE ~(r.amount > 0)
    <3>1. coins' = Debit(coins, u, CET, c.donation)
      BY <2>1, <2>2, <2>5
    <3> QED BY <2>1, <2>3, <3>1, PayFee
  <2> QED BY <2>4, <2>5
<1>3. ASSUME NEW u \in Users, NEW a \in Aliases, RemoveAlias(u, a) PROVE MoneyInv'
  BY <1>0, <1>3, NothingMoves DEF RemoveAlias, assetVars
<1>4. ASSUME NEW u \in Users, NEW b \in BOOLEAN, SetMemoRequired(u, b) PROVE MoneyInv'
  BY <1>0, <1>4, NothingMoves DEF SetMemoRequired, assetVars
<1>5. ASSUME NEW u \in Users, NEW v \in Referees, SetReferee(u, v) PROVE MoneyInv'
  BY <1>0, <1>5, NothingMoves DEF SetReferee, assetVars
<1> QED BY <1>0, <1>1, <1>2, <1>3, <1>4, <1>5 DEF ProfileTransaction
-----------------------------------------------------------------------------
(* The unlock queue *)

\* Entries that EndBlocker has yet to visit may be without a coin: one visit unlocks
\* all the coins of an account that are due.  All others have one.
QueueInv ==
  /\ QueueTypes /\ imports \in Nat
  /\ phase # "unlock" => due = {}
  /\ due \subseteq queue /\ \A e \in due : e[1] <= now
  /\ phase = "unlock" => \A e \in queue \ due : e[1] > now
  /\ queue \ due \subseteq LockTimes
  /\ imports = 0 => LockTimes \subseteq queue
  /\ phase = "commit" /\ imports = 0 => \A e \in queue : e[1] > now

LEMMA LockTimesAre ==
  ASSUME NEW u \in Users, NEW t
  PROVE <<t, u>> \in LockTimes <=> \E k \in DOMAIN locked[u] : locked[u][k].time = t
BY DEF LockTimes

LEMMA LockTimesTyped ==
  ASSUME locked \in Lists
  PROVE LockTimes \subseteq Nat \X Users
<1>1. ASSUME NEW u \in Users, NEW k \in DOMAIN locked[u] PROVE locked[u][k].time \in Nat
  <2>1. locked[u] \in Seq(LockedCoin)
    BY DEF Lists
  <2>2. locked[u][k] \in LockedCoin
    BY <2>1
  <2> QED BY <2>2 DEF LockedCoin
<1> QED BY <1>1 DEF LockTimes

LEMMA QueueInvGives ==
  ASSUME WalletTypes, QueueInv
  PROVE QueueExact /\ ReleasedOnTime
<1>1. QueueExact
  BY DEF QueueInv, QueueExact
<1>2. ASSUME phase = "commit", imports = 0, NEW u \in Users, NEW k \in DOMAIN locked[u]
      PROVE locked[u][k].time > now
  <2>1. <<locked[u][k].time, u>> \in LockTimes
    BY LockTimesAre
  <2>2. <<locked[u][k].time, u>> \in queue
    BY <1>2, <2>1 DEF QueueInv
  <2> QED BY <1>2, <2>2 DEF QueueInv
<1> QED BY <1>1, <1>2 DEF ReleasedOnTime

\* what a transaction may do to the lists and the queue
QueueMove ==
  \/ queue' = queue /\ LockTimes' = LockTimes
  \/ \E e \in Nat \X Users : queue' = queue \cup {e} /\ LockTimes' = LockTimes \cup {e}
  \/ \E e \in Nat \X Users : queue' = queue \ {e} /\ LockTimes' = LockTimes \ {e}

LEMMA QueueMoveKeeps ==
  ASSUME QueueInv, phase = "deliver", UNCHANGED blockVars, QueueMove
  PROVE QueueInv'
<1>1. /\ due' = due /\ now' = now /\ phase' = phase /\ imports' = imports /\ due = {}
  BY DEF QueueInv, blockVars
<1>2. CASE queue' = queue /\ LockTimes' = LockTimes
  BY <1>1, <1>2 DEF QueueInv, QueueTypes
<1>3. CASE \E e \in Nat \X Users : queue' = queue \cup {e} /\ LockTimes' = LockTimes \cup {e}
  BY <1>1, <1>3 DEF QueueInv, QueueTypes
<1>4. CASE \E e \in Nat \X Users : queue' = queue \ {e} /\ LockTimes' = LockTimes \ {e}
  BY <1>1, <1>4 DEF QueueInv, QueueTypes
<1> QED BY <1>2, <1>3, <1>4 DEF QueueMove

LEMMA LockingMoves ==
  ASSUME locked \in Lists, NEW w, NEW u, NEW v \in Users, NEW coin \in LockedCoin, NEW fee,
         SendLockedCoins(w, u, v, coin, fee)
  PROVE QueueMove
<1> DEFINE e == <<coin.time, v>>
           s == locked[v]
           l == [locked EXCEPT ![v] = Append(s, coin)]
<1>1. locked' = l /\ queue' = queue \cup {e}
  BY DEF SendLockedCoins
<1>2. e \in Nat \X Users
  BY DEF LockedCoin
<1>3. s \in Seq(LockedCoin)
  BY DEF Lists
<1>4. l[v] = Append(s, coin) /\ \A x \in Users \ {v} : l[x] = locked[x]
  BY DEF Lists
<1> HIDE DEF l, s
<1>5. ASSUME NEW x \in Users, NEW t
      PROVE (\E k \in DOMAIN l[x] : l[x][k].time = t)
              <=> (\E k \in DOMAIN locked[x] : locked[x][k].time = t) \/ <<t, x>> = e
  <2>1. CASE x = v
    <3>1. DOMAIN Append(s, coin) = DOMAIN s \cup {Len(s) + 1} /\ Append(s, coin)[Len(s) + 1] = coin
          /\ \A k \in DOMAIN s : Append(s, coin)[k] = s[k]
      BY <1>3
    <3> QED BY <1>4, <2>1, <3>1 DEF s
  <2>2. CASE x # v
    BY <1>4, <2>2
  <2> QED BY <2>1, <2>2
<1>6. LockTimes' = LockTimes \cup {e}
  <2>1. \A x \in Users : \A t : <<t, x>> \in LockTimes' <=> \E k \in DOMAIN l[x] : l[x][k].time = t
    BY <1>1 DEF LockTimes
  <2>2. ASSUME NEW x \in Users, NEW t
        PROVE <<t, x>> \in LockTimes' <=> <<t, x>> \in LockTimes \/ <<t, x>> = e
    <3>1. <<t, x>> \in LockTimes <=> \E k \in DOMAIN locked[x] : locked[x][k].time = t
      BY LockTimesAre
    <3>2. <<t, x>> \in LockTimes' <=> \E k \in DOMAIN l[x] : l[x][k].time = t
      BY <2>1
    <3> HIDE DEF e
    <3> QED BY <1>5, <3>1, <3>2
  <2>3. \A p \in LockTimes \cup LockTimes' \cup {e} : \E x \in Users : \E t : p = <<t, x>>
    BY <1>2 DEF LockTimes
  <2> QED BY <2>2, <2>3
<1> QED BY <1>1, <1>2, <1>6 DEF QueueMove

LEMMA UnlockingMoves ==
  ASSUME WalletTypes, NEW r \in SupervisedMsg, NEW isReturned, EarlierUnlock(r, isReturned)
  PROVE QueueMove
<1> DEFINE v == r.to
           s == locked[v]
<1>0. locked \in Lists /\ v \in Users /\ s \in Seq(LockedCoin)
  BY DEF WalletTypes, SupervisedMsg, Lists
<1>1. PICK i \in 1..Len(s) :
        /\ s[i] = AsLocked(r)
        /\ locked' = [locked EXCEPT ![v] = RemoveAt(@, i)]
        /\ queue' = EntryAfter(v, i)
  <2>1. /\ Found(r) # {}
        /\ locked' = [locked EXCEPT ![v] =
             RemoveAt(@, CHOOSE k \in Found(r) : \A j \in Found(r) : k <= j)]
        /\ queue' = EntryAfter(v, CHOOSE k \in Found(r) : \A j \in Found(r) : k <= j)
    BY DEF EarlierUnlock
  <2> QED BY <2>1, FirstFound
<1> DEFINE z == Without(s, i)
           l == [locked EXCEPT ![v] = z]
           e == <<s[i].time, v>>
           Shared == \E j \in DOMAIN s \ {i} : s[j].time = s[i].time
<1>2. locked' = l
  BY <1>1 DEF RemoveAt, Without
<1>3. e \in Nat \X Users
  <2>1. s[i] \in LockedCoin
    BY <1>0, <1>1
  <2> QED BY <1>0, <2>1 DEF LockedCoin
<1>4. queue' = IF Shared THEN queue ELSE queue \ {e}
  BY <1>1 DEF EntryAfter
<1>5. l[v] = z /\ \A x \in Users \ {v} : l[x] = locked[x]
  BY <1>0 DEF Lists
<1>6. ASSUME NEW t
      PROVE (\E k \in DOMAIN z : z[k].time = t) <=> \E j \in DOMAIN s \ {i} : s[j].time = t
  <2>1. /\ z \in Seq(LockedCoin) /\ Len(z) = Len(s) - 1
        /\ \A k \in 1..Len(z) : z[k] = IF k < i THEN s[k] ELSE s[k + 1]
    BY <1>0, <1>1, WithoutElements
  <2>2. DOMAIN s = 1..Len(s) /\ Len(s) \in Nat
    BY <1>0
  <2> HIDE DEF z, s
  <2>3. DOMAIN z = 1..(Len(s) - 1)
    BY <2>1
  <2>4. ASSUME NEW k \in DOMAIN z, z[k].time = t PROVE \E j \in DOMAIN s \ {i} : s[j].time = t
    <3>1. CASE k < i
      BY <1>1, <2>1, <2>2, <2>3, <2>4, <3>1
    <3>2. CASE ~(k < i)
      <4>1. k + 1 \in DOMAIN s \ {i} /\ s[k + 1].time = t
        BY <1>1, <2>1, <2>2, <2>3, <2>4, <3>2
      <4> QED BY <4>1
    <3> QED BY <3>1, <3>2
  <2>5. ASSUME NEW j \in DOMAIN s \ {i}, s[j].time = t PROVE \E k \in DOMAIN z : z[k].time = t
    <3>1. CASE j < i
      <4>1. j \in DOMAIN z /\ z[j].time = t
        BY <1>1, <2>1, <2>2, <2>3, <2>5, <3>1
      <4> QED BY <4>1
    <3>2. CASE ~(j < i)
      <4>1. j - 1 \in DOMAIN z /\ ~(j - 1 < i) /\ (j - 1) + 1 = j
        BY <1>1, <2>2, <2>3, <2>5, <3>2
      <4>2. z[j - 1].time = t
        BY <2>1, <2>3, <2>5, <4>1
      <4> QED BY <4>1, <4>2
    <3> QED BY <3>1, <3>2
  <2> QED BY <2>4, <2>5
<1> HIDE DEF z, l
<1>7. ASSUME NEW x \in Users, NEW t
      PROVE (\E k \in DOMAIN l[x] : l[x][k].time = t)
              <=> /\ \E k \in DOMAIN locked[x] : locked[x][k].time = t
                  /\ Shared \/ <<t, x>> # e
  <2>1. CASE x = v
    <3>1. (\E k \in DOMAIN l[x] : l[x][k].time = t) <=> \E j \in DOMAIN s \ {i} : s[j].time = t
      BY <1>5, <1>6, <2>1
    <3>2. i \in DOMAIN s
      BY <1>0, <1>1
    <3> QED BY <2>1, <3>1, <3>2
  <2>2. CASE x # v
    BY <1>5, <2>2
  <2> QED BY <2>1, <2>2
<1>8. LockTimes' = IF Shared THEN LockTimes ELSE LockTimes \ {e}
  <2>1. \A x \in Users : \A t : <<t, x>> \in LockTimes' <=> \E k \in DOMAIN l[x] : l[x][k].time = t
    BY <1>2 DEF LockTimes
  <2> HIDE DEF Shared, e
  <2>2. ASSUME NEW x \in Users, NEW t
        PROVE <<t, x>> \in LockTimes' <=> <<t, x>> \in LockTimes /\ (Shared \/ <<t, x>> # e)
    <3>1. <<t, x>> \in LockTimes <=> \E k \in DOMAIN locked[x] : locked[x][k].time = t
      BY LockTimesAre
    <3>2. <<t, x>> \in LockTimes' <=> \E k \in DOMAIN l[x] : l[x][k].time = t
      BY <2>1
    <3> QED BY <1>7, <3>1, <3>2
  <2>3. \A p \in LockTimes \cup LockTimes' : \E x \in Users : \E t : p = <<t, x>>
    BY DEF LockTimes
  <2>4. ASSUME NEW p
        PROVE p \in LockTimes' <=> p \in LockTimes /\ (Shared \/ p # e)
    BY <2>2, <2>3
  <2> QED BY <2>4
<1> HIDE DEF Shared, e
<1>9. CASE ~Shared
  BY <1>3, <1>4, <1>8, <1>9 DEF QueueMove
<1>10. CASE Shared
  BY <1>4, <1>8, <1>10 DEF QueueMove
<1> QED BY <1>9, <1>10

LEMMA NoMove ==
  ASSUME UNCHANGED <<locked, queue>>
  PROVE QueueMove
BY DEF QueueMove, LockTimes

LEMMA SendMoves ==
  ASSUME MoneyInv, NEW u \in Users, NEW v \in Users, NEW d \in Denoms, NEW n \in Nat \ {0},
         NEW t \in Nat, Send(u, v, d, n, t)
  PROVE QueueMove
<1> DEFINE fee == IF v \in accounts THEN 0 ELSE ActivationFee
           left == IF d = CET THEN n - fee ELSE n
           w == Debit(coins, u, CET, fee)
           coin == [denom |-> d, amount |-> left, time |-> t, from |-> 0, supervisor |-> 0,
                    reward |-> 0]
<1>1. locked \in Lists
  BY MoneyFacts
<1>2. CASE t = 0 \/ left = 0
  BY <1>2, NoMove DEF Send
<1>3. CASE t # 0 /\ left # 0
  <2>1. SendLockedCoins(w, u, v, coin, LockFee(t)) /\ (fee > 0 => d = CET /\ n >= fee)
    BY <1>3 DEF Send
  <2>2. fee \in Nat
    BY ConstantTypes
  <2> HIDE DEF fee
  <2>3. left \in Nat \ {0}
    BY <1>3, <2>1, <2>2
  <2> HIDE DEF left
  <2>4. coin \in LockedCoin
    BY <2>3 DEF LockedCoin
  <2> HIDE DEF w, coin
  <2> QED BY <1>1, <2>1, <2>4, LockingMoves
<1> QED BY <1>2, <1>3

LEMMA BankMoves ==
  ASSUME MoneyInv, BankTransaction
  PROVE QueueMove
<1>0. locked \in Lists /\ WalletTypes
  BY MoneyFacts DEF MoneyInv
<1>1. Sends \subseteq SendMsg /\ Supervised \subseteq SupervisedMsg
  BY WalletsAssumption
<1>2. ASSUME NEW m \in Sends, Send(m.from, m.to, m.denom, m.amount, m.time) PROVE QueueMove
  <2>1. m.from \in Users /\ m.to \in Users /\ m.denom \in Denoms /\ m.amount \in Nat \ {0}
        /\ m.time \in Nat
    BY <1>1 DEF SendMsg
  <2> QED BY <1>2, <2>1, SendMoves
<1>3. ASSUME NEW r \in Supervised, SupervisedSend(r) PROVE QueueMove
  <2>1. AsLocked(r) \in LockedCoin /\ r.to \in Users
    BY <1>1 DEF SupervisedMsg, AsLocked, LockedCoin
  <2>2. SendLockedCoins(coins, r.from, r.to, AsLocked(r), LockFee(r.time))
    BY <1>3 DEF SupervisedSend
  <2> QED BY <1>0, <2>1, <2>2, LockingMoves
<1>4. ASSUME NEW r \in Supervised, EarlyUnlock(r) PROVE QueueMove
  <2>1. PICK isReturned \in BOOLEAN : EarlierUnlock(r, isReturned)
    BY <1>4 DEF EarlyUnlock
  <2>2. r \in SupervisedMsg
    BY <1>1
  <2> QED BY <1>0, <2>1, <2>2, UnlockingMoves
<1>5. ASSUME NEW m \in MultiSends, MultiSend(m.ins, m.outs) PROVE QueueMove
  BY <1>5, NoMove DEF MultiSend
<1>6. ASSUME NEW f \in Freezes,
             Freeze(f.user, f.denom, f.amount) \/ UnFreeze(f.user, f.denom, f.amount)
      PROVE QueueMove
  BY <1>6, NoMove DEF Freeze, UnFreeze
<1>7. ASSUME NEW u \in Signers, NEW n \in Donations, Donate(u, n) PROVE QueueMove
  BY <1>7, NoMove DEF Donate
<1> QED BY <1>2, <1>3, <1>4, <1>5, <1>6, <1>7 DEF BankTransaction

LEMMA AssetHolds ==
  ASSUME NEW u, AssetTransaction(u)
  PROVE UNCHANGED holdVars
<1>1. PICK d \in Denoms :
        \/ \E n \in IssueAmounts, f \in TokenFlags : IssueToken(u, d, n, f)
        \/ \E v \in NewOwners : TransferOwnership(u, d, v)
        \/ \E n \in MintAmounts : MintToken(u, d, n) \/ BurnToken(u, d, n)
        \/ \E b \in BOOLEAN : SetForbidden(u, d, b)
        \/ \E v \in Listed, b \in BOOLEAN : SetWhitelisted(u, d, v, b) \/ SetAddrForbidden(u, d, v, b)
        \/ \E n \in NewSupplies \cup {tokens[d].supply}, f \in TokenFlags :
             ModifyTokenInfo(u, d, n, f)
  BY Zenon DEF AssetTransaction
<1> QED BY <1>1 DEF IssueToken, TransferOwnership, MintToken, BurnToken, SetForbidden,
                    SetWhitelisted, SetAddrForbidden, ModifyTokenInfo

\* A visit leaves the account's coins that are not due, whose entries are not due either.
LEMMA WithdrawQueue ==
  ASSUME WalletTypes, QueueInv, NEW e \in due, WithdrawUnlocked(e)
  PROVE QueueInv'
<1> DEFINE u == e[2]
           s == StillLocked(locked[u])
           l == [locked EXCEPT ![u] = s]
<1>0. /\ QueueTypes /\ imports \in Nat /\ due \subseteq queue
      /\ \A f \in due : f[1] <= now
      /\ phase = "unlock" /\ \A f \in queue \ due : f[1] > now
      /\ queue \ due \subseteq LockTimes
      /\ imports = 0 => LockTimes \subseteq queue
      /\ now \in Nat
  BY DEF QueueInv, WithdrawUnlocked, WalletTypes
<1>1. /\ locked' = l /\ queue' = queue \ {e} /\ due' = due \ {e}
      /\ now' = now /\ phase' = phase /\ imports' = imports
  BY DEF WithdrawUnlocked
<1>2. u \in Users /\ e[1] \in Nat /\ e = <<e[1], u>> /\ e[1] <= now
  BY <1>0 DEF QueueTypes
<1>3. locked \in Lists /\ locked[u] \in Seq(LockedCoin)
  BY <1>2 DEF WalletTypes, Lists
<1> HIDE DEF u
<1>4. l[u] = s /\ \A x \in Users \ {u} : l[x] = locked[x]
  BY <1>2, <1>3 DEF Lists
<1>5. ASSUME NEW t
      PROVE (\E k \in DOMAIN s : s[k].time = t)
              <=> (\E j \in DOMAIN locked[u] : locked[u][j].time = t) /\ ~(t <= now)
  <2>1. /\ s \in Seq(LockedCoin)
        /\ \A k \in 1..Len(s) : \E j \in 1..Len(locked[u]) :
             s[k] = locked[u][j] /\ ~IsDue(locked[u][j])
        /\ \A j \in 1..Len(locked[u]) : ~IsDue(locked[u][j]) => \E k \in 1..Len(s) :
             s[k] = locked[u][j]
    BY <1>3, StillLockedElements
  <2> HIDE DEF s
  <2>2. DOMAIN s = 1..Len(s) /\ DOMAIN locked[u] = 1..Len(locked[u])
    BY <1>3, <2>1
  <2>3. ASSUME NEW k \in DOMAIN s, s[k].time = t
        PROVE (\E j \in DOMAIN locked[u] : locked[u][j].time = t) /\ ~(t <= now)
    <3>1. PICK j \in 1..Len(locked[u]) : s[k] = locked[u][j] /\ ~IsDue(locked[u][j])
      BY <2>1, <2>2
    <3> QED BY <2>2, <2>3, <3>1 DEF IsDue
  <2>4. ASSUME NEW j \in DOMAIN locked[u], locked[u][j].time = t, ~(t <= now)
        PROVE \E k \in DOMAIN s : s[k].time = t
    <3>1. ~IsDue(locked[u][j])
      BY <2>4 DEF IsDue
    <3>2. PICK k \in 1..Len(s) : s[k] = locked[u][j]
      BY <2>1, <2>2, <3>1
    <3> QED BY <2>2, <2>4, <3>2
  <2> QED BY <2>3, <2>4
<1> HIDE DEF s, l
<1>6. ASSUME NEW x \in Users, NEW t
      PROVE <<t, x>> \in LockTimes' <=> <<t, x>> \in LockTimes /\ (x # u \/ ~(t <= now))
  <2>1. <<t, x>> \in LockTimes <=> \E k \in DOMAIN locked[x] : locked[x][k].time = t
    BY LockTimesAre
  <2>2. <<t, x>> \in LockTimes' <=> \E k \in DOMAIN l[x] : l[x][k].time = t
    BY <1>1 DEF LockTimes
  <2>3. CASE x = u
    BY <1>4, <1>5, <2>1, <2>2, <2>3
  <2>4. CASE x # u
    BY <1>4, <2>1, <2>2, <2>4
  <2> QED BY <2>3, <2>4
<1>7. \A p \in LockTimes \cup LockTimes' \cup queue : \E x \in Users : \E t : p = <<t, x>>
  BY <1>0 DEF LockTimes, QueueTypes
<1>8. queue' \ due' \subseteq LockTimes'
  <2> SUFFICES ASSUME NEW p \in queue' \ due' PROVE p \in LockTimes'
    OBVIOUS
  <2>1. p \in queue \ due
    BY <1>1
  <2>a. PICK x \in Users : \E t : p = <<t, x>>
    BY <1>7, <2>1
  <2>2. PICK t : p = <<t, x>>
    BY <2>a
  <2>3. t > now /\ t \in Nat /\ p \in LockTimes
    BY <1>0, <2>1, <2>2 DEF QueueTypes
  <2> QED BY <1>0, <1>6, <2>2, <2>3
<1>9. imports = 0 => LockTimes' \subseteq queue'
  <2> SUFFICES ASSUME imports = 0, NEW p \in LockTimes' PROVE p \in queue'
    OBVIOUS
  <2>a. PICK x \in Users : \E t : p = <<t, x>>
    BY <1>7
  <2>1. PICK t : p = <<t, x>>
    BY <2>a
  <2>2. p \in LockTimes /\ (x # u \/ ~(t <= now))
    BY <1>6, <2>1
  <2>3. p # e
    <3>1. p[2] = x /\ p[1] = t
      BY <2>1
    <3> QED BY <1>2, <2>2, <3>1
  <2> QED BY <1>0, <1>1, <2>2, <2>3
<1> QED BY <1>0, <1>1, <1>8, <1>9 DEF QueueInv, QueueTypes

LEMMA WalletsQueue ==
  ASSUME MoneyInv, QueueInv, [WalletsNext]_walletVars
  PROVE QueueInv'
<1>0. /\ WalletTypes /\ now \in Nat /\ QueueTypes /\ imports \in Nat
      /\ \A p \in queue : p[1] \in Nat
  BY MoneyFacts DEF MoneyInv, QueueInv, QueueTypes
<1>1. CASE WalletTransaction
  <2>1. phase = "deliver" /\ UNCHANGED blockVars
    BY <1>1 DEF WalletTransaction
  <2>2. QueueMove
    <3>1. CASE BankTransaction
      BY <3>1, BankMoves
    <3>2. CASE (\E u \in Signers : AssetTransaction(u)) /\ UNCHANGED queue
      BY <3>2, AssetHolds, NoMove DEF holdVars
    <3> QED BY <1>1, <3>1, <3>2 DEF WalletTransaction
  <2> QED BY <2>1, <2>2, QueueMoveKeeps
<1>2. CASE BeginBlock
  <2>1. /\ phase = "commit" /\ phase' = "deliver" /\ locked' = locked /\ queue' = queue /\ due' = due
        /\ imports' = imports /\ LockTimes' = LockTimes
    BY <1>2 DEF BeginBlock, holdVars, LockTimes
  <2> QED BY <2>1 DEF QueueInv, QueueTypes
<1>3. CASE EndBlocker
  <2>1. /\ phase = "deliver" /\ phase' = "unlock" /\ due' = {e \in queue : e[1] <= now}
        /\ queue' = queue /\ now' = now /\ imports' = imports /\ LockTimes' = LockTimes
    BY <1>3 DEF EndBlocker, assetVars, holdVars, LockTimes
  <2>2. due = {}
    BY <2>1 DEF QueueInv
  <2> QED BY <1>0, <2>1, <2>2 DEF QueueInv, QueueTypes
<1>4. ASSUME NEW e \in due, WithdrawUnlocked(e) PROVE QueueInv'
  BY <1>0, <1>4, WithdrawQueue
<1>5. CASE Commit
  <2>1. /\ phase = "unlock" /\ phase' = "commit" /\ due = {} /\ due' = {}
        /\ queue' = queue /\ now' = now /\ imports' = imports /\ LockTimes' = LockTimes
    BY <1>5 DEF Commit, assetVars, holdVars, LockTimes
  <2> QED BY <2>1 DEF QueueInv, QueueTypes
<1>6. CASE Restart
  <2>1. /\ phase = "commit" /\ phase' = "commit" /\ due' = due /\ imports' = imports + 1
        /\ queue' = {} /\ now' = now
    BY <1>6 DEF Restart
  <2> QED BY <1>0, <2>1 DEF QueueInv, QueueTypes
<1>7. CASE UNCHANGED walletVars
  <2>1. /\ phase' = phase /\ due' = due /\ queue' = queue /\ now' = now /\ imports' = imports
        /\ LockTimes' = LockTimes
    BY <1>7 DEF walletVars, blockVars, assetVars, holdVars, LockTimes
  <2> QED BY <2>1 DEF QueueInv, QueueTypes
<1> QED BY <1>1, <1>2, <1>3, <1>4, <1>5, <1>6, <1>7 DEF WalletsNext, BlockStep, Full

LEMMA ProfileQueue ==
  ASSUME QueueInv, ProfileTransaction
  PROVE QueueInv'
<1>1. locked' = locked /\ queue' = queue /\ UNCHANGED blockVars /\ phase = "deliver"
  BY ZenonT(60) DEF ProfileTransaction, AddAlias, RemoveAlias, SetMemoRequired, SetReferee, CommentToken,
         assetVars, holdVars
<1> QED BY <1>1, NoMove, QueueMoveKeeps
-----------------------------------------------------------------------------
(* The invariant, and what follows *)

WalletsInv == MoneyInv /\ QueueInv

LEMMA WalletsInitInv ==
  WalletsInit => WalletsInv
<1> SUFFICES ASSUME WalletsInit PROVE WalletsInv
  OBVIOUS
<1>1. MoneyInv
  BY InitMoney
<1>2. queue = {} /\ due = {} /\ phase = "commit" /\ imports = 0 /\ LockTimes = {}
  BY DEF WalletsInit, LockTimes
<1>3. QueueInv
  BY <1>2 DEF QueueInv, QueueTypes
<1> QED BY <1>1, <1>3 DEF WalletsInv

LEMMA WalletsStepInv ==
  WalletsInv /\ [WalletsNext]_walletVars => WalletsInv'
BY WalletsMoney, WalletsQueue DEF WalletsInv, QueueInv

LEMMA ProfilesStepInv ==
  WalletsInv /\ [ProfilesNext]_allVars => WalletsInv'
<1> SUFFICES ASSUME WalletsInv, [ProfilesNext]_allVars PROVE WalletsInv'
  OBVIOUS
<1>1. CASE [WalletsNext]_walletVars
  BY <1>1, WalletsStepInv
<1>2. CASE ProfileTransaction
  BY <1>2, ProfileMoney, ProfileQueue DEF WalletsInv
<1> QED BY <1>1, <1>2 DEF ProfilesNext, allVars

LEMMA WalletsInvGives ==
  WalletsInv => SupplyExact /\ SendLockExact /\ TokensValid /\ QueueExact /\ ReleasedOnTime
BY MoneyInvGives, QueueInvGives DEF WalletsInv, MoneyInv

\* Every state of the wallets satisfies the invariant: messages of bankx and asset,
\* blocks, unlocking and restarts.
THEOREM WalletsAlwaysInv == WalletsSpec => []WalletsInv
<1>1. WalletsInit => WalletsInv
  BY WalletsInitInv
<1>2. WalletsInv /\ [WalletsNext]_walletVars => WalletsInv'
  BY WalletsStepInv
<1> QED BY <1>1, <1>2, PTL DEF WalletsSpec

\* The same with the aliases, referees and comments of profiles.
THEOREM ProfilesAlwaysInv == ProfilesSpec => []WalletsInv
<1>1. ProfilesInit => WalletsInv
  BY WalletsInitInv DEF ProfilesInit
<1>2. WalletsInv /\ [ProfilesNext]_allVars => WalletsInv'
  BY ProfilesStepInv
<1> QED BY <1>1, <1>2, PTL DEF ProfilesSpec

\* A token's sendLock is at all times the sum of its locked coins, so that the
\* unlocking's dropped error never occurs (authx endblocker).
THEOREM SendLockAlwaysExact == WalletsSpec => []SendLockExact
BY WalletsAlwaysInv, WalletsInvGives, PTL

\* The unlock queue has one entry for each time and account with locked coins between
\* blocks, and after an import none without coins (bankx keeper).
THEOREM QueueAlwaysExact == WalletsSpec => []QueueExact
BY WalletsAlwaysInv, WalletsInvGives, PTL

\* No committed block leaves a coin locked whose time has come (authx endblocker).
THEOREM AlwaysReleasedOnTime == WalletsSpec => []ReleasedOnTime
BY WalletsAlwaysInv, WalletsInvGives, PTL

\* The supply a token counts is what accounts and modules have of it, whatever
\* owners, senders, comments, rewards and blocks do (asset and bankx keepers).
THEOREM SupplyAlwaysExact == ProfilesSpec => []SupplyExact
BY ProfilesAlwaysInv, WalletsInvGives, PTL

\* Every token passes at all times the check that a genesis file's tokens must pass.
THEOREM TokensAlwaysValid == ProfilesSpec => []TokensValid
BY ProfilesAlwaysInv, WalletsInvGives, PTL
-----------------------------------------------------------------------------
(* What holders rely on *)

LEMMA KeepsLocks ==
  ASSUME NEW t \in Token, NEW n
  PROVE Keeps(t, t) /\ Keeps(t, [t EXCEPT !.sendLock = n])
<1>1. t.supply \in Nat
  BY TokenFields
<1>2. Keeps(t, t)
  BY <1>1 DEF Keeps
<1> DEFINE s == [t EXCEPT !.sendLock = n]
<1>3. /\ s.mintable = t.mintable /\ s.burnable = t.burnable
      /\ s.addrForbiddable = t.addrForbiddable /\ s.tokenForbiddable = t.tokenForbiddable
      /\ s.supply = t.supply /\ s.mint = t.mint /\ s.burn = t.burn
  BY DEF Token
<1> HIDE DEF s
<1>4. Keeps(t, s)
  BY <1>1, <1>3 DEF Keeps
<1> QED BY <1>2, <1>4 DEF s

LEMMA UpdateKeeps ==
  ASSUME WalletTypes, NEW d \in Denoms, Exists(d), NEW e, NEW n,
         tokens' = UpdateSendLock(tokens, e, n) \/ tokens' = tokens
  PROVE Keeps(tokens[d], tokens'[d])
<1>1. tokens[d] \in Token /\ tokens \in [Denoms -> Token \cup {NoToken}]
  BY TokenOf DEF WalletTypes
<1>2. CASE tokens' = tokens
  BY <1>1, <1>2, KeepsLocks
<1>3. CASE tokens' = UpdateSendLock(tokens, e, n)
  <2>1. tokens'[d] = IF e = d THEN [tokens[d] EXCEPT !.sendLock = tokens[d].sendLock + n] ELSE tokens[d]
    BY <1>1, <1>3 DEF UpdateSendLock
  <2> QED BY <1>1, <2>1, KeepsLocks
<1> QED BY <1>2, <1>3

LEMMA BankUpdates ==
  ASSUME BankTransaction
  PROVE \E e, n : tokens' = UpdateSendLock(tokens, e, n) \/ tokens' = tokens
<1>1. ASSUME NEW m \in Sends, Send(m.from, m.to, m.denom, m.amount, m.time)
      PROVE \E e, n : tokens' = UpdateSendLock(tokens, e, n) \/ tokens' = tokens
  BY <1>1 DEF Send, SendLockedCoins
<1>2. ASSUME NEW r \in Supervised, SupervisedSend(r)
      PROVE \E e, n : tokens' = UpdateSendLock(tokens, e, n) \/ tokens' = tokens
  BY <1>2 DEF SupervisedSend, SendLockedCoins
<1>3. ASSUME NEW r \in Supervised, EarlyUnlock(r)
      PROVE \E e, n : tokens' = UpdateSendLock(tokens, e, n) \/ tokens' = tokens
  BY <1>3 DEF EarlyUnlock, EarlierUnlock
<1>4. ASSUME NEW m \in MultiSends, MultiSend(m.ins, m.outs) PROVE tokens' = tokens
  BY <1>4 DEF MultiSend
<1>5. ASSUME NEW f \in Freezes,
             Freeze(f.user, f.denom, f.amount) \/ UnFreeze(f.user, f.denom, f.amount)
      PROVE tokens' = tokens
  BY <1>5 DEF Freeze, UnFreeze
<1>6. ASSUME NEW u \in Signers, NEW n \in Donations, Donate(u, n) PROVE tokens' = tokens
  BY <1>6 DEF Donate
<1> QED BY <1>1, <1>2, <1>3, <1>4, <1>5, <1>6 DEF BankTransaction

\* An owner who is not alone does not hold the whole supply.
LEMMA NotAlone ==
  ASSUME MoneyInv, NEW d \in Denoms, Exists(d), NEW u \in Users, NEW v \in Users, u # v,
         GetTotalCoins(v, d) > 0
  PROVE Distributed(u, d)
<1> DEFINE f == [x \in Users |-> GetTotalCoins(x, d)]
<1>1. NumUsers \in Nat /\ Users = 1..NumUsers /\ WalletTypes
  BY ConstantTypes DEF MoneyInv
<1>2. \A x \in 1..NumUsers : f[x] = GetTotalCoins(x, d) /\ f[x] \in Nat
  BY <1>1, TotalCoinsOf
<1>3. f[u] = GetTotalCoins(u, d) /\ f[v] = GetTotalCoins(v, d)
  OBVIOUS
<1>4. /\ SumTo(f, NumUsers) + FeesIn(d, collected) = tokens[d].supply
      /\ FeesIn(d, collected) \in Nat
  <2>1. SumTo(f, NumUsers) + FeesIn(d, collected) = tokens[d].supply
    <3>1. SupplyExact
      BY MoneyInvGives
    <3> QED BY <3>1 DEF SupplyExact, FeesIn
  <2> QED BY <1>1, <2>1 DEF FeesIn, WalletTypes
<1> HIDE DEF f
<1>5. f[u] + f[v] <= SumTo(f, NumUsers)
  BY <1>1, <1>2, SumBoundsTwo
<1>6. SumTo(f, NumUsers) \in Nat
  BY <1>1, <1>2, SumNat
<1>7. f[u] \in Nat /\ f[v] \in Nat /\ f[v] > 0
  BY <1>1, <1>2, <1>3
<1>8. f[u] # tokens[d].supply
  BY <1>4, <1>5, <1>6, <1>7
<1> QED BY <1>3, <1>8 DEF Distributed

LEMMA AssetKeeps ==
  ASSUME MoneyInv, NEW u \in Users, AssetTransaction(u), NEW d \in Denoms, Exists(d),
         NEW v \in Users \ {tokens[d].owner}, GetTotalCoins(v, d) > 0
  PROVE Keeps(tokens[d], tokens'[d])
<1> DEFINE t == tokens[d]
<1>0. tokens \in [Denoms -> Token \cup {NoToken}] /\ t \in Token
  BY MoneyFacts, TokenOf DEF MoneyInv
<1>f. t.supply \in Nat /\ t.mint \in Nat /\ t.burn \in Nat
  BY <1>0, TokenFields
<1>1. PICK e \in Denoms :
        \/ \E n \in IssueAmounts, f \in TokenFlags : IssueToken(u, e, n, f)
        \/ \E w \in NewOwners : TransferOwnership(u, e, w)
        \/ \E n \in MintAmounts : MintToken(u, e, n) \/ BurnToken(u, e, n)
        \/ \E b \in BOOLEAN : SetForbidden(u, e, b)
        \/ \E w \in Listed, b \in BOOLEAN : SetWhitelisted(u, e, w, b) \/ SetAddrForbidden(u, e, w, b)
        \/ \E n \in NewSupplies \cup {tokens[e].supply}, f \in TokenFlags :
             ModifyTokenInfo(u, e, n, f)
  BY Zenon DEF AssetTransaction
<1>k. Keeps(t, t)
  BY <1>0, KeepsLocks
<1>2. CASE tokens'[d] = t
  BY <1>2, <1>k
<1>3. CASE \E n \in IssueAmounts, f \in TokenFlags : IssueToken(u, e, n, f)
  <2>1. e # d /\ \E x : tokens' = [tokens EXCEPT ![e] = x]
    BY <1>3 DEF IssueToken
  <2> QED BY <1>0, <1>k, <2>1
<1>4. CASE \E w \in Listed, b \in BOOLEAN : SetWhitelisted(u, e, w, b) \/ SetAddrForbidden(u, e, w, b)
  BY <1>4, <1>k DEF SetWhitelisted, SetAddrForbidden
<1> HIDE DEF t
<1>5. CASE \E w \in NewOwners : TransferOwnership(u, e, w)
  <2>1. PICK w \in NewOwners : tokens' = [tokens EXCEPT ![e].owner = w]
    BY <1>5 DEF TransferOwnership
  <2>2. tokens'[d] = IF e = d THEN [t EXCEPT !.owner = w] ELSE t
    BY <1>0, <2>1 DEF t
  <2>3. Keeps(t, [t EXCEPT !.owner = w])
    BY <1>0, <1>f DEF Token, Keeps
  <2> QED BY <1>k, <2>2, <2>3 DEF t
<1>6. CASE \E b \in BOOLEAN : SetForbidden(u, e, b)
  <2>1. PICK b \in BOOLEAN : tokens' = [tokens EXCEPT ![e].forbidden = b]
    BY <1>6 DEF SetForbidden
  <2>2. tokens'[d] = IF e = d THEN [t EXCEPT !.forbidden = b] ELSE t
    BY <1>0, <2>1 DEF t
  <2>3. Keeps(t, [t EXCEPT !.forbidden = b])
    BY <1>0, <1>f DEF Token, Keeps
  <2> QED BY <1>k, <2>2, <2>3 DEF t
<1>7. ASSUME NEW n \in MintAmounts, MintToken(u, e, n) PROVE Keeps(tokens[d], tokens'[d])
  <2> DEFINE s == [t EXCEPT !.mint = @ + n, !.supply = @ + n]
  <2>1. tokens'[d] = (IF e = d THEN s ELSE t) /\ (e = d => t.mintable) /\ n \in Nat
    BY <1>0, <1>7, AssetsAssumption DEF MintToken, t
  <2>2. /\ s.mintable = t.mintable /\ s.burnable = t.burnable
        /\ s.addrForbiddable = t.addrForbiddable /\ s.tokenForbiddable = t.tokenForbiddable
        /\ s.supply = t.supply + n /\ s.mint = t.mint + n
    BY <1>0 DEF Token
  <2> HIDE DEF s
  <2>3. t.mintable => Keeps(t, s)
    BY <1>f, <2>1, <2>2 DEF Keeps
  <2> QED BY <1>k, <2>1, <2>3 DEF t
<1>8. ASSUME NEW n \in MintAmounts, BurnToken(u, e, n) PROVE Keeps(tokens[d], tokens'[d])
  <2> DEFINE s == [t EXCEPT !.burn = @ + n, !.supply = @ - n]
  <2>1. tokens'[d] = (IF e = d THEN s ELSE t) /\ (e = d => t.burnable) /\ n \in Nat
    BY <1>0, <1>8, AssetsAssumption DEF BurnToken, t
  <2>2. /\ s.mintable = t.mintable /\ s.burnable = t.burnable
        /\ s.addrForbiddable = t.addrForbiddable /\ s.tokenForbiddable = t.tokenForbiddable
        /\ s.supply = t.supply - n /\ s.burn = t.burn + n
    BY <1>0 DEF Token
  <2> HIDE DEF s
  <2>3. t.burnable => Keeps(t, s)
    BY <1>f, <2>1, <2>2 DEF Keeps
  <2> QED BY <1>k, <2>1, <2>3 DEF t
<1>9. ASSUME NEW n, NEW f \in TokenFlags, ModifyTokenInfo(u, e, n, f)
      PROVE Keeps(tokens[d], tokens'[d])
  <2>1. CASE e # d
    <3>1. tokens'[d] = t
      BY <1>0, <1>9, <2>1 DEF ModifyTokenInfo, t
    <3> QED BY <1>k, <3>1 DEF t
  <2>2. CASE e = d
    <3>1. t.owner = u /\ tokens' = [tokens EXCEPT ![d] = Modified(t, n, f)]
          /\ (Distributed(u, d) => /\ n = t.supply
                                   /\ f.mintable => t.mintable
                                   /\ t.burnable => f.burnable
                                   /\ f.addrForbiddable => t.addrForbiddable
                                   /\ f.tokenForbiddable => t.tokenForbiddable)
      BY <1>9, <2>2 DEF ModifyTokenInfo, IsTokenIssuer, t
    <3>2. Distributed(u, d)
      BY <3>1, NotAlone DEF t
    <3> DEFINE s == Modified(t, n, f)
    <3>3. /\ s.mintable = f.mintable /\ s.burnable = f.burnable
          /\ s.addrForbiddable = f.addrForbiddable /\ s.tokenForbiddable = f.tokenForbiddable
          /\ s.supply = n
      BY <1>0 DEF Token, Modified
    <3> HIDE DEF s
    <3>4. Keeps(t, s)
      BY <1>f, <3>1, <3>2, <3>3 DEF Keeps
    <3>5. tokens'[d] = s
      BY <1>0, <3>1 DEF s
    <3> QED BY <3>4, <3>5 DEF t
  <2> QED BY <2>1, <2>2
<1> QED BY <1>1, <1>3, <1>4, <1>5, <1>6, <1>7, <1>8, <1>9

LEMMA WithdrawKeeps ==
  ASSUME WalletTypes, NEW e, WithdrawUnlocked(e), NEW d \in Denoms, Exists(d)
  PROVE Keeps(tokens[d], tokens'[d])
<1> DEFINE n == UnlockedAmount(e[2], d)
<1>1. tokens[d] \in Token
  BY TokenOf
<1>2. tokens'[d] = IF tokens[d].sendLock >= n
                   THEN [tokens[d] EXCEPT !.sendLock = tokens[d].sendLock - n] ELSE tokens[d]
  BY DEF WithdrawUnlocked
<1> HIDE DEF n
<1> QED BY <1>1, <1>2, KeepsLocks

LEMMA DistributedStep ==
  ASSUME WalletsInv, [ProfilesNext]_allVars
  PROVE DistributedKept
<1> SUFFICES ASSUME NEW d \in Denoms, Exists(d), NEW v \in Users \ {tokens[d].owner},
                    GetTotalCoins(v, d) > 0
             PROVE Keeps(tokens[d], tokens'[d])
  BY DEF DistributedKept
<1>0. MoneyInv /\ WalletTypes /\ accounts \subseteq Users
  BY DEF WalletsInv, MoneyInv, WalletTypes
<1>1. CASE tokens' = tokens
  BY <1>0, <1>1, UpdateKeeps
<1>2. CASE BankTransaction
  BY <1>0, <1>2, BankUpdates, UpdateKeeps
<1>3. ASSUME NEW u \in Signers, AssetTransaction(u) PROVE Keeps(tokens[d], tokens'[d])
  <2>1. u \in Users
    BY <1>0 DEF Signers
  <2> QED BY <1>0, <1>3, <2>1, AssetKeeps
<1>4. ASSUME NEW e \in due, WithdrawUnlocked(e) PROVE Keeps(tokens[d], tokens'[d])
  BY <1>0, <1>4, WithdrawKeeps
<1>5. CASE BeginBlock \/ EndBlocker \/ Commit \/ Restart \/ UNCHANGED walletVars
  <2>1. tokens' = tokens
    BY <1>5 DEF BeginBlock, EndBlocker, Commit, Restart, walletVars, assetVars
  <2> QED BY <1>1, <2>1
<1>6. CASE ProfileTransaction
  <2>1. tokens' = tokens
    BY <1>6, ZenonT(60) DEF ProfileTransaction, AddAlias, RemoveAlias, SetMemoRequired, SetReferee,
                CommentToken, assetVars
  <2> QED BY <1>1, <2>1
<1>7. CASE WalletsNext
  BY <1>2, <1>3, <1>4, <1>5, <1>7 DEF WalletsNext, WalletTransaction, BlockStep, Full
<1> QED BY <1>1, <1>6, <1>7 DEF ProfilesNext, allVars, walletVars, assetVars

\* What the holders of a distributed token rely on is never changed (asset keeper).
THEOREM AlwaysSealed == ProfilesSpec => SealedAfterDistribution
<1>1. WalletsInv /\ [ProfilesNext]_allVars => [DistributedKept]_walletVars
  BY DistributedStep
<1> QED BY <1>1, ProfilesAlwaysInv, PTL DEF ProfilesSpec, SealedAfterDistribution
-----------------------------------------------------------------------------
(* Forbidden accounts *)

\* What a debit of others, or in another denomination, leaves alone.
LEMMA DebitOther ==
  ASSUME NEW w \in Balances, NEW x \in Users, NEW e \in Denoms, NEW n \in Int,
         NEW u \in Users, NEW d \in Denoms, x # u \/ e # d
  PROVE Debit(w, x, e, n) \in IntBalances /\ Debit(w, x, e, n)[u][d] = w[u][d]
BY BalancesAreInt, DebitEntries

LEMMA CreditMore ==
  ASSUME NEW w \in IntBalances, NEW x \in Users, NEW e \in Denoms, NEW n \in Nat,
         NEW u \in Users, NEW d \in Denoms
  PROVE /\ Credit(w, x, e, n) \in IntBalances
        /\ Credit(w, x, e, n)[u][d] >= w[u][d]
<1>1. w[u][d] \in Int /\ n \in Int
  BY DEF IntBalances
<1>2. Credit(w, x, e, n) \in IntBalances
      /\ Credit(w, x, e, n)[u][d] = IF u = x /\ d = e THEN w[u][d] + n ELSE w[u][d]
  BY <1>1, CreditEntries
<1> QED BY <1>1, <1>2

LEMMA CreditAt ==
  ASSUME NEW w \in IntBalances, NEW x \in Users, NEW e \in Denoms, NEW n \in Int,
         NEW u \in Users, NEW d \in Denoms
  PROVE Credit(w, x, e, n)[u][d] = IF u = x /\ d = e THEN w[u][d] + n ELSE w[u][d]
BY CreditEntries

LEMMA LockSpares ==
  ASSUME NEW w \in Balances, NEW x \in Users, NEW v, NEW coin \in LockedCoin, NEW fee \in Nat,
         SendLockedCoins(w, x, v, coin, fee),
         NEW u \in Users, NEW d \in Denoms \ {CET}, IsForbidden(d, u)
  PROVE coins'[u][d] = w[u][d]
<1> DEFINE y == Debit(w, x, CET, fee)
<1>1. CET \in Denoms /\ coin.denom \in Denoms /\ coin.amount \in Int /\ fee \in Int
  BY ConstantTypes DEF LockedCoin
<1>2. coin.denom # d \/ x # u
  BY DEF SendLockedCoins
<1>3. y \in IntBalances /\ y[u][d] = w[u][d]
  BY <1>1, DebitOther
<1>4. coins' = Debit(y, x, coin.denom, coin.amount)
  BY DEF SendLockedCoins
<1> HIDE DEF y
<1>5. coins'[u][d] = IF u = x /\ d = coin.denom THEN y[u][d] - coin.amount ELSE y[u][d]
  BY <1>1, <1>3, <1>4, DebitEntries, SMTT(30)
<1> QED BY <1>2, <1>3, <1>5

LEMMA SendSpares ==
  ASSUME MoneyInv, NEW x \in Users, NEW v \in Users, NEW e \in Denoms, NEW n \in Nat \ {0},
         NEW t \in Nat, Send(x, v, e, n, t),
         NEW u \in Users, NEW d \in Denoms \ {CET}, IsForbidden(d, u)
  PROVE coins'[u][d] >= coins[u][d]
<1> DEFINE fee == IF v \in accounts THEN 0 ELSE ActivationFee
           left == IF e = CET THEN n - fee ELSE n
           w == Debit(coins, x, CET, fee)
           lockFee == LockFee(t)
<1>0. coins \in Balances /\ now \in Nat /\ coins[u][d] \in Nat /\ coins[x][CET] \in Nat
      /\ coins[x][e] \in Nat /\ CET \in Denoms
  BY MoneyFacts, ConstantTypes
<1>1. /\ coins[x][e] >= n /\ (fee > 0 => e = CET /\ n >= fee)
      /\ e # d \/ x # u
  BY DEF Send, CanSend, HasCoins
<1>2. fee \in Nat /\ lockFee \in Nat
  BY <1>0, ConstantTypes, LockFeeNat
<1>3. left \in Nat /\ coins[x][CET] >= fee
  <2> HIDE DEF fee
  <2> QED BY <1>0, <1>1, <1>2
<1>4. w \in Balances /\ w[u][d] = coins[u][d]
  <2> HIDE DEF fee
  <2> QED BY <1>0, <1>2, <1>3, DebitKeeps
<1>5. \/ coins' = Credit(Debit(w, x, e, left), v, e, left)
      \/ coins' = Debit(w, x, CET, lockFee)
      \/ left # 0 /\ SendLockedCoins(w, x, v, [denom |-> e, amount |-> left, time |-> t,
                                  from |-> 0, supervisor |-> 0, reward |-> 0], lockFee)
  BY DEF Send
<1> HIDE DEF fee, left, w, lockFee
<1>6. CASE coins' = Credit(Debit(w, x, e, left), v, e, left)
  <2> DEFINE y == Debit(w, x, e, left)
  <2>1. y \in IntBalances /\ y[u][d] = w[u][d]
    BY <1>1, <1>3, <1>4, DebitOther
  <2>2. coins' = Credit(y, v, e, left)
    BY <1>6
  <2> HIDE DEF y
  <2> QED BY <1>3, <1>4, <2>1, <2>2, CreditMore
<1>7. CASE coins' = Debit(w, x, CET, lockFee)
  <2>1. coins'[u][d] = w[u][d]
    BY <1>0, <1>2, <1>4, <1>7, DebitOther
  <2> QED BY <1>0, <1>4, <2>1
<1>8. CASE left # 0 /\ SendLockedCoins(w, x, v, [denom |-> e, amount |-> left, time |-> t,
                                from |-> 0, supervisor |-> 0, reward |-> 0], lockFee)
  <2> DEFINE coin == [denom |-> e, amount |-> left, time |-> t, from |-> 0, supervisor |-> 0,
                      reward |-> 0]
  <2>1. coin \in LockedCoin /\ SendLockedCoins(w, x, v, coin, lockFee)
    BY <1>3, <1>8 DEF LockedCoin
  <2> HIDE DEF coin
  <2>2. coins'[u][d] = w[u][d]
    BY <1>2, <1>4, <2>1, LockSpares
  <2> QED BY <1>0, <1>4, <2>2
<1> QED BY <1>5, <1>6, <1>7, <1>8

LEMMA EarlierUnlockMore ==
  ASSUME MoneyInv, NEW r \in SupervisedMsg, r.reward <= r.amount, NEW isReturned \in BOOLEAN,
         EarlierUnlock(r, isReturned), ~isReturned \/ r.from \in Users,
         NEW u \in Users, NEW d \in Denoms
  PROVE coins'[u][d] >= coins[u][d]
<1> DEFINE rc == IF isReturned THEN r.from ELSE r.to
           rew == IF r.supervisor = 0 THEN 0 ELSE r.reward
           m == r.amount - rew
           paid == Credit(coins, rc, r.denom, m)
<1>0. coins \in IntBalances /\ coins[u][d] \in Int
  BY MoneyFacts
<1>1. /\ r.denom \in Denoms /\ rc \in Users /\ rew \in Nat /\ m \in Nat
      /\ rew > 0 => r.supervisor \in Users
  BY DEF SupervisedMsg
<1>2. coins' = IF rew > 0 THEN Credit(paid, r.supervisor, r.denom, rew) ELSE paid
  BY DEF EarlierUnlock
<1> HIDE DEF rc, rew, m
<1>3. paid \in IntBalances /\ paid[u][d] >= coins[u][d]
  BY <1>0, <1>1, CreditMore
<1> HIDE DEF paid
<1>4. CASE rew > 0
  <2>1. coins' = Credit(paid, r.supervisor, r.denom, rew) /\ r.supervisor \in Users
    BY <1>1, <1>2, <1>4
  <2>2. coins' \in IntBalances /\ coins'[u][d] >= paid[u][d]
    BY <1>1, <1>3, <2>1, CreditMore
  <2>3. coins'[u][d] \in Int /\ paid[u][d] \in Int
    BY <1>3, <2>2 DEF IntBalances
  <2> QED BY <1>0, <1>3, <2>2, <2>3
<1>5. CASE ~(rew > 0)
  BY <1>2, <1>3, <1>5
<1> QED BY <1>4, <1>5

LEMMA MultiSendSpares ==
  ASSUME MoneyInv, NEW ins \in Entries, NEW outs \in Entries, MultiSend(ins, outs),
         NEW u \in Users, NEW d \in Denoms \ {CET}, IsForbidden(d, u)
  PROVE coins'[u][d] >= coins[u][d]
<1> DEFINE n == Len(ins)
           f == [k \in DOMAIN ins |->
                   IF ins[k].user = u /\ ins[k].denom = d THEN ins[k].amount ELSE 0]
<1>1. n \in Nat /\ DOMAIN ins = 1..n
  <2>1. ins \in Seq(Entry)
    BY DEF Entries, Entry
  <2> QED BY <2>1
<1>2. \A k \in DOMAIN ins : ~IsForbidden(ins[k].denom, ins[k].user)
  BY DEF MultiSend, InputsAllowed
<1>3. \A k \in 1..n : f[k] = 0
  BY <1>1, <1>2
<1>4. Moved(ins, u, d) = SumTo(f, n)
  BY DEF Moved
<1> HIDE DEF f, n
<1>5. Moved(ins, u, d) = 0
  BY <1>1, <1>3, <1>4, SumOfZeros
<1>6. Moved(outs, u, d) \in Nat /\ coins[u][d] \in Nat
  BY MovedSum, MoneyFacts
<1>7. coins'[u][d] = coins[u][d] - Moved(ins, u, d) + Moved(outs, u, d) - 0
  BY DEF MultiSend
<1> QED BY <1>5, <1>6, <1>7

LEMMA AssetSpares ==
  ASSUME MoneyInv, NEW x \in Users, AssetTransaction(x),
         NEW u \in Users, NEW d \in Denoms \ {CET}, Exists(d), u # tokens[d].owner
  PROVE coins'[u][d] >= coins[u][d]
<1>0. coins \in Balances /\ coins \in IntBalances /\ coins[u][d] \in Int /\ CET \in Denoms
      /\ IssueFee \in Int /\ WalletTypes
  BY MoneyFacts, ConstantTypes DEF MoneyInv
<1>1. PICK e \in Denoms :
        \/ \E n \in IssueAmounts, f \in TokenFlags : IssueToken(x, e, n, f)
        \/ \E w \in NewOwners : TransferOwnership(x, e, w)
        \/ \E n \in MintAmounts : MintToken(x, e, n) \/ BurnToken(x, e, n)
        \/ \E b \in BOOLEAN : SetForbidden(x, e, b)
        \/ \E w \in Listed, b \in BOOLEAN : SetWhitelisted(x, e, w, b) \/ SetAddrForbidden(x, e, w, b)
        \/ \E n \in NewSupplies \cup {tokens[e].supply}, f \in TokenFlags :
             ModifyTokenInfo(x, e, n, f)
  BY Zenon DEF AssetTransaction
<1>2. CASE coins' = coins
  BY <1>0, <1>2
<1>3. ASSUME NEW n \in IssueAmounts, NEW f \in TokenFlags, IssueToken(x, e, n, f)
      PROVE coins'[u][d] >= coins[u][d]
  <2> DEFINE y == Debit(coins, x, CET, IssueFee)
  <2>1. y \in IntBalances /\ y[u][d] = coins[u][d]
    BY <1>0, DebitOther
  <2>2. coins' = Credit(y, x, e, n) /\ n \in Nat
    BY <1>3, AssetsAssumption DEF IssueToken
  <2> HIDE DEF y
  <2> QED BY <2>1, <2>2, CreditMore
<1>4. ASSUME NEW n \in MintAmounts, MintToken(x, e, n) PROVE coins'[u][d] >= coins[u][d]
  <2>1. coins' = Credit(coins, x, e, n) /\ n \in Nat
    BY <1>4, AssetsAssumption DEF MintToken
  <2> QED BY <1>0, <2>1, CreditMore
<1>5. ASSUME NEW n \in MintAmounts, BurnToken(x, e, n) PROVE coins'[u][d] >= coins[u][d]
  <2>1. coins' = Debit(coins, x, e, n) /\ n \in Int /\ (x # u \/ e # d)
    BY <1>5, AssetsAssumption DEF BurnToken, IsTokenIssuer
  <2>2. coins'[u][d] = coins[u][d]
    BY <1>0, <2>1, DebitOther
  <2> QED BY <1>0, <2>2
<1>6. ASSUME NEW n \in NewSupplies \cup {tokens[e].supply}, NEW f, ModifyTokenInfo(x, e, n, f)
      PROVE coins'[u][d] >= coins[u][d]
  <2> DEFINE m == n - GetTotalCoins(x, e)
  <2>1. Exists(e) /\ (x # u \/ e # d) /\ (coins' = coins \/ coins' = Credit(coins, x, e, m))
    BY <1>6 DEF ModifyTokenInfo, IsTokenIssuer
  <2>2. m \in Int
    <3>1. GetTotalCoins(x, e) \in Nat
      BY <1>0, TotalCoinsOf
    <3>2. tokens[e].supply \in Nat
      BY <1>0, <2>1, TokenOf, TokenFields
    <3>3. n \in Int
      BY <3>2, AssetsAssumption
    <3> QED BY <3>1, <3>3
  <2> HIDE DEF m
  <2>3. CASE coins' = Credit(coins, x, e, m)
    <3>1. Credit(coins, x, e, m)[u][d] = IF u = x /\ d = e THEN coins[u][d] + m ELSE coins[u][d]
      BY <1>0, <2>2, CreditEntries
    <3> QED BY <1>0, <2>1, <2>3, <3>1
  <2> QED BY <1>2, <2>1, <2>3
<1>7. CASE \/ \E w \in NewOwners : TransferOwnership(x, e, w)
           \/ \E b \in BOOLEAN : SetForbidden(x, e, b)
           \/ \E w \in Listed, b \in BOOLEAN : SetWhitelisted(x, e, w, b) \/ SetAddrForbidden(x, e, w, b)
  <2>1. coins' = coins
    BY <1>7 DEF TransferOwnership, SetForbidden, SetWhitelisted, SetAddrForbidden
  <2> QED BY <1>2, <2>1
<1> QED BY <1>1, <1>3, <1>4, <1>5, <1>6, <1>7

LEMMA WithdrawMore ==
  ASSUME MoneyInv, NEW e, e[2] \in Users, WithdrawUnlocked(e), NEW u \in Users, NEW d \in Denoms
  PROVE coins'[u][d] >= coins[u][d]
<1> DEFINE v == e[2]
           row == [f \in Denoms |-> coins[v][f] + UnlockedAmount(v, f)]
<1>0. coins \in Balances /\ coins[u][d] \in Nat /\ WalletTypes /\ locked \in Lists
  BY MoneyFacts DEF MoneyInv
<1>1. coins' = [coins EXCEPT ![v] = row]
  BY DEF WithdrawUnlocked
<1>2. UnlockedAmount(v, d) \in Nat
  <2>1. Released(InDenom(d)) \in [LockedCoin -> Nat] /\ locked[v] \in Seq(LockedCoin)
    BY <1>0, InDenomType DEF Released, Lists
  <2>2. ValueSum(locked[v], Released(InDenom(d))) \in Nat
    BY <2>1, ValueSumNat
  <2> QED BY <1>0, <2>2, UnlockedAmountOf
<1>3. row[d] = coins[v][d] + UnlockedAmount(v, d)
  OBVIOUS
<1> HIDE DEF v, row
<1>4. coins'[u][d] = IF u = v THEN row[d] ELSE coins[u][d]
  BY <1>0, <1>1 DEF Balances
<1> QED BY <1>0, <1>2, <1>3, <1>4

LEMMA ProfileSpares ==
  ASSUME MoneyInv, ProfileTransaction,
         NEW u \in Users, NEW d \in Denoms \ {CET}, IsForbidden(d, u)
  PROVE coins'[u][d] >= coins[u][d]
<1>0. /\ coins \in Balances /\ coins[u][d] \in Int /\ CET \in Denoms /\ AliasFee \in Int
      /\ ProfileUsers \subseteq Users
      /\ \A c \in Comments : c.token \in Denoms /\ c.donation \in Nat /\ c.reward \in Reward
  BY MoneyFacts, ConstantTypes, ProfilesAssumption
<1>1. CASE coins' = coins
  BY <1>0, <1>1
<1>2. ASSUME NEW x \in Users, NEW a \in Aliases, NEW b \in BOOLEAN, AddAlias(x, a, b)
      PROVE coins'[u][d] >= coins[u][d]
  <2>1. coins' = Debit(coins, x, CET, AliasFee) \/ coins' = coins
    BY <1>2 DEF AddAlias
  <2>2. CASE coins' = Debit(coins, x, CET, AliasFee)
    <3>1. coins'[u][d] = coins[u][d]
      BY <1>0, <2>2, DebitOther
    <3> QED BY <1>0, <3>1
  <2> QED BY <1>1, <2>1, <2>2
<1>3. ASSUME NEW x \in Users, NEW c \in Comments, CommentToken(x, c)
      PROVE coins'[u][d] >= coins[u][d]
  <2> DEFINE r == c.reward
             w == Debit(coins, x, CET, c.donation)
  <2>1. /\ c.donation \in Nat /\ coins[x][CET] >= c.donation
        /\ r.token \in Denoms /\ r.amount \in Nat /\ r.target \in Users
        /\ r.amount > 0 => ~IsForbidden(r.token, x)
        /\ coins' = IF r.amount > 0 THEN Credit(Debit(w, x, r.token, r.amount), r.target, r.token, r.amount)
                    ELSE w
    BY <1>0, <1>3 DEF CommentToken, HasCoins, Reward
  <2>2. w \in Balances /\ w[u][d] = coins[u][d]
    BY <1>0, <2>1, DebitKeeps
  <2> HIDE DEF r, w
  <2>3. CASE r.amount > 0
    <3> DEFINE y == Debit(w, x, r.token, r.amount)
    <3>1. x # u \/ r.token # d
      BY <2>1, <2>3
    <3>2. y \in IntBalances /\ y[u][d] = w[u][d]
      BY <2>1, <2>2, <3>1, DebitOther
    <3>3. coins' = Credit(y, r.target, r.token, r.amount)
      BY <2>1, <2>3
    <3> HIDE DEF y
    <3>4. coins'[u][d] >= y[u][d]
      BY <2>1, <3>2, <3>3, CreditMore
    <3> QED BY <2>2, <3>2, <3>4
  <2>4. CASE ~(r.amount > 0)
    <3>1. coins'[u][d] = coins[u][d]
      BY <2>1, <2>2, <2>4
    <3> QED BY <1>0, <3>1
  <2> QED BY <2>3, <2>4
<1>4. ASSUME NEW x, \/ \E a \in Aliases : RemoveAlias(x, a)
                    \/ \E b \in BOOLEAN : SetMemoRequired(x, b)
                    \/ \E v \in Referees : SetReferee(x, v)
      PROVE coins'[u][d] >= coins[u][d]
  BY <1>1, <1>4 DEF RemoveAlias, SetMemoRequired, SetReferee, assetVars
<1> QED BY <1>0, <1>2, <1>3, <1>4 DEF ProfileTransaction

\* Nothing but a freeze touches frozen coins, and there the sum stays.
Spared(u, d) ==
  /\ coins'[u][d] >= coins[u][d]
  /\ \/ frozen'[u][d] = frozen[u][d]
     \/ coins'[u][d] + frozen'[u][d] = coins[u][d] + frozen[u][d]

LEMMA FreezeSpares ==
  ASSUME MoneyInv, NEW x \in Users, NEW e \in Denoms, NEW n \in Nat,
         Freeze(x, e, n) \/ UnFreeze(x, e, n),
         NEW u \in Users, NEW d \in Denoms, IsForbidden(d, u)
  PROVE Spared(u, d)
<1>0. /\ coins \in Balances /\ frozen \in Balances /\ coins \in IntBalances /\ frozen \in IntBalances
      /\ coins[u][d] \in Nat /\ frozen[u][d] \in Nat /\ n \in Int
  BY MoneyFacts
<1>1. CASE Freeze(x, e, n)
  <2>1. /\ x # u \/ e # d
        /\ coins' = Debit(coins, x, e, n) /\ frozen' = Credit(frozen, x, e, n)
    BY <1>1 DEF Freeze, CanSend
  <2>2. coins'[u][d] = coins[u][d]
    BY <1>0, <2>1, DebitOther
  <2>3. Credit(frozen, x, e, n)[u][d] = IF u = x /\ d = e THEN frozen[u][d] + n ELSE frozen[u][d]
    BY <1>0, CreditAt
  <2> QED BY <1>0, <2>1, <2>2, <2>3 DEF Spared
<1>2. CASE UnFreeze(x, e, n)
  <2>1. coins' = Credit(coins, x, e, n) /\ frozen' = Debit(frozen, x, e, n)
    BY <1>2 DEF UnFreeze
  <2>2. Credit(coins, x, e, n)[u][d] = IF u = x /\ d = e THEN coins[u][d] + n ELSE coins[u][d]
    BY <1>0, CreditAt
  <2>3. Debit(frozen, x, e, n)[u][d] = IF u = x /\ d = e THEN frozen[u][d] - n ELSE frozen[u][d]
    BY <1>0, DebitEntries
  <2> QED BY <1>0, <2>1, <2>2, <2>3 DEF Spared
<1> QED BY <1>1, <1>2

LEMMA BankSpares ==
  ASSUME MoneyInv, BankTransaction, NEW u \in Users, NEW d \in Denoms \ {CET}, IsForbidden(d, u)
  PROVE Spared(u, d)
<1>0. coins \in Balances /\ accounts \subseteq Users /\ CET \in Denoms /\ coins[u][d] \in Nat
      /\ now \in Nat
  BY MoneyFacts, ConstantTypes
<1>t. /\ Signers \subseteq Users /\ Sends \subseteq SendMsg /\ Supervised \subseteq SupervisedMsg
      /\ \A r \in Supervised : r.reward <= r.amount
      /\ \A m \in MultiSends : m.ins \in Entries /\ m.outs \in Entries
      /\ \A f \in Freezes : f.user \in Users /\ f.denom \in Denoms /\ f.amount \in Nat \ {0}
      /\ Donations \subseteq Nat
  BY <1>0, WalletsAssumption DEF Signers
<1>1. ASSUME frozen' = frozen, coins'[u][d] >= coins[u][d] PROVE Spared(u, d)
  BY <1>1 DEF Spared
<1>2. ASSUME NEW m \in Sends, Send(m.from, m.to, m.denom, m.amount, m.time) PROVE Spared(u, d)
  <2>1. m.from \in Users /\ m.to \in Users /\ m.denom \in Denoms /\ m.amount \in Nat \ {0}
        /\ m.time \in Nat
    BY <1>t DEF SendMsg
  <2>2. coins'[u][d] >= coins[u][d]
    BY <1>2, <2>1, SendSpares
  <2> QED BY <1>1, <1>2, <2>2 DEF Send
<1>3. ASSUME NEW m \in MultiSends, MultiSend(m.ins, m.outs) PROVE Spared(u, d)
  <2>1. coins'[u][d] >= coins[u][d]
    BY <1>t, <1>3, MultiSendSpares
  <2> QED BY <1>1, <1>3, <2>1 DEF MultiSend
<1>4. ASSUME NEW r \in Supervised, SupervisedSend(r) PROVE Spared(u, d)
  <2>1. r \in SupervisedMsg /\ r.from \in Users /\ r.time \in Nat /\ AsLocked(r) \in LockedCoin
    BY <1>t DEF SupervisedMsg, AsLocked, LockedCoin
  <2>2. LockFee(r.time) \in Nat
    BY <1>0, <2>1, LockFeeNat
  <2>3. coins'[u][d] = coins[u][d]
    BY <1>0, <1>4, <2>1, <2>2, LockSpares DEF SupervisedSend
  <2>4. coins'[u][d] >= coins[u][d]
    BY <1>0, <2>3
  <2> QED BY <1>1, <1>4, <2>4 DEF SupervisedSend
<1>5. ASSUME NEW r \in Supervised, EarlyUnlock(r) PROVE Spared(u, d)
  <2>1. \E b \in BOOLEAN : EarlierUnlock(r, b) /\ (~b \/ r.from \in Users)
    BY <1>t, <1>5 DEF EarlyUnlock, SupervisedMsg
  <2>2. coins'[u][d] >= coins[u][d]
    BY <1>t, <2>1, EarlierUnlockMore
  <2> QED BY <1>1, <2>1, <2>2 DEF EarlierUnlock
<1>6. ASSUME NEW f \in Freezes,
             Freeze(f.user, f.denom, f.amount) \/ UnFreeze(f.user, f.denom, f.amount)
      PROVE Spared(u, d)
  BY <1>t, <1>6, FreezeSpares
<1>7. ASSUME NEW x \in Signers, NEW n \in Donations, Donate(x, n) PROVE Spared(u, d)
  <2>1. coins' = Debit(coins, x, CET, n) /\ x \in Users /\ n \in Int
    BY <1>t, <1>7 DEF Donate
  <2>2. coins'[u][d] = coins[u][d]
    BY <1>0, <2>1, DebitOther
  <2> QED BY <1>0, <1>1, <1>7, <2>2 DEF Donate
<1> QED BY <1>2, <1>3, <1>4, <1>5, <1>6, <1>7 DEF BankTransaction

LEMMA ForbiddenStep ==
  ASSUME WalletsInv, [ProfilesNext]_allVars
  PROVE ForbiddenKept
<1> SUFFICES ASSUME NEW d \in Denoms \ {CET}, NEW u \in Users, Exists(d), u # tokens[d].owner,
                    <<d, u>> \in blacklist \/ (tokens[d].forbidden /\ <<d, u>> \notin whitelist)
             PROVE /\ coins'[u][d] >= coins[u][d]
                   /\ coins'[u][d] + frozen'[u][d] >= coins[u][d] + frozen[u][d]
  BY DEF ForbiddenKept
<1>0. /\ MoneyInv /\ MoneyInv' /\ IsForbidden(d, u) /\ accounts \subseteq Users
      /\ coins \in Balances /\ coins[u][d] \in Nat /\ frozen[u][d] \in Nat /\ CET \in Denoms
  BY ProfilesStepInv, MoneyFacts, ConstantTypes DEF WalletsInv, IsForbidden
<1>1. coins'[u][d] \in Nat
  <2>1. coins' \in Balances
    BY <1>0 DEF MoneyInv, WalletTypes, Balances
  <2> QED BY <2>1 DEF Balances
<1>2. SUFFICES Spared(u, d)
  BY <1>0, <1>1 DEF Spared
<1>3. CASE coins' = coins /\ frozen' = frozen
  BY <1>0, <1>3 DEF Spared
<1>4. CASE BankTransaction
  BY <1>0, <1>4, BankSpares
<1>5. ASSUME NEW x \in Signers, AssetTransaction(x) PROVE Spared(u, d)
  <2>1. x \in Users
    BY <1>0 DEF Signers
  <2>2. coins'[u][d] >= coins[u][d]
    BY <1>0, <1>5, <2>1, AssetSpares
  <2>3. frozen' = frozen
    BY <1>5, ZenonT(60) DEF AssetTransaction, IssueToken, TransferOwnership, MintToken, BurnToken, SetForbidden,
                SetWhitelisted, SetAddrForbidden, ModifyTokenInfo, holdVars
  <2> QED BY <2>2, <2>3 DEF Spared
<1>6. ASSUME NEW e \in due, WithdrawUnlocked(e) PROVE Spared(u, d)
  <2>1. e[2] \in Users
    BY DEF WalletsInv, QueueInv, QueueTypes
  <2>2. coins'[u][d] >= coins[u][d]
    BY <1>0, <1>6, <2>1, WithdrawMore
  <2> QED BY <1>6, <2>2 DEF Spared, WithdrawUnlocked
<1>7. CASE BeginBlock
  <2>1. frozen' = frozen
    BY <1>7 DEF BeginBlock, holdVars
  <2>2. coins' = coins \/ (PoolAccount \in Users
                           /\ coins' = Debit(coins, PoolAccount, CET, BlockReward(height + 1)))
    BY <1>7, WalletsAssumption DEF BeginBlock
  <2>3. BlockReward(height + 1) \in Int
    <3>1. BlockReward(height + 1) \in Nat
      BY BlockRewardNat
    <3> QED BY <3>1
  <2>4. CASE coins' = Debit(coins, PoolAccount, CET, BlockReward(height + 1)) /\ PoolAccount \in Users
    <3>1. coins'[u][d] = coins[u][d]
      BY <1>0, <2>3, <2>4, DebitOther
    <3> QED BY <1>0, <2>1, <3>1 DEF Spared
  <2> QED BY <1>3, <2>1, <2>2, <2>4
<1>8. CASE EndBlocker \/ Commit \/ Restart \/ UNCHANGED walletVars
  BY <1>3, <1>8 DEF EndBlocker, Commit, Restart, walletVars, assetVars, holdVars
<1>9. CASE ProfileTransaction
  <2>1. coins'[u][d] >= coins[u][d]
    BY <1>0, <1>9, ProfileSpares
  <2>2. frozen' = frozen
    BY <1>9, ZenonT(60) DEF ProfileTransaction, AddAlias, RemoveAlias, SetMemoRequired, SetReferee, CommentToken,
                assetVars, holdVars
  <2> QED BY <2>1, <2>2 DEF Spared
<1>10. CASE WalletsNext
  BY <1>4, <1>5, <1>6, <1>7, <1>8, <1>10 DEF WalletsNext, WalletTransaction, BlockStep, Full
<1> QED BY <1>8, <1>9, <1>10 DEF ProfilesNext, allVars

\* The coins of an account that its token's owner has forbidden are not moved away,
\* by no message, fee or block (asset keeper, bankx).
THEOREM AlwaysForbiddenStay == ProfilesSpec => ForbiddenStay
<1>1. WalletsInv /\ [ProfilesNext]_allVars => [ForbiddenKept]_walletVars
  BY ForbiddenStep
<1> QED BY <1>1, ProfilesAlwaysInv, PTL DEF ProfilesSpec, ForbiddenStay
-----------------------------------------------------------------------------
(* Coins that leave a list *)

Is(c) == [x \in LockedCoin |-> IF x = c THEN 1 ELSE 0]

LEMMA CountIs ==
  ASSUME NEW s \in Seq(LockedCoin), NEW c
  PROVE /\ Is(c) \in [LockedCoin -> Int]
        /\ Count(s, c) = ValueSum(s, Is(c)) /\ Count(s, c) \in Int
<1> DEFINE n == Len(s)
           S == {k \in DOMAIN s : s[k] = c}
           f == [k \in DOMAIN s |-> Is(c)[s[k]]]
<1>1. Is(c) \in [LockedCoin -> Int]
  BY DEF Is
<1>2. n \in Nat /\ DOMAIN s = 1..n /\ \A k \in 1..n : s[k] \in LockedCoin
  OBVIOUS
<1>3. S \in SUBSET (1..n) /\ \A k \in 1..n : f[k] = IF k \in S THEN 1 ELSE 0
  BY <1>2 DEF Is
<1>4. ValueSum(s, Is(c)) = SumTo(f, n) /\ Count(s, c) = Cardinality(S)
  BY DEF ValueSum, Count
<1>5. ValueSum(s, Is(c)) \in Int
  BY <1>1, ValueSumInt
<1> HIDE DEF f, S, n
<1>6. SumTo(f, n) = Cardinality(S)
  BY <1>2, <1>3, SumCounts
<1> QED BY <1>1, <1>4, <1>5, <1>6

LEMMA CountAppend ==
  ASSUME NEW s \in Seq(LockedCoin), NEW b \in LockedCoin, NEW c
  PROVE Count(Append(s, b), c) >= Count(s, c)
<1>1. Append(s, b) \in Seq(LockedCoin)
  OBVIOUS
<1>2. ValueSum(Append(s, b), Is(c)) = ValueSum(s, Is(c)) + Is(c)[b]
  BY CountIs, ValueSumAppend
<1>3. Is(c)[b] \in Nat
  BY DEF Is
<1>4. Count(Append(s, b), c) = ValueSum(Append(s, b), Is(c))
  BY <1>1, CountIs
<1>5. Count(s, c) = ValueSum(s, Is(c)) /\ Count(s, c) \in Int
  BY CountIs
<1> QED BY <1>2, <1>3, <1>4, <1>5

LEMMA CountWithout ==
  ASSUME NEW s \in Seq(LockedCoin), NEW i \in 1..Len(s), NEW c, s[i] # c
  PROVE Count(Without(s, i), c) = Count(s, c)
<1>1. Without(s, i) \in Seq(LockedCoin) /\ s[i] \in LockedCoin
  BY WithoutElements
<1>2. ValueSum(Without(s, i), Is(c)) = ValueSum(s, Is(c)) - Is(c)[s[i]]
  BY CountIs, ValueSumWithout
<1>3. Is(c)[s[i]] = 0
  BY <1>1 DEF Is
<1> QED BY <1>1, <1>2, <1>3, CountIs

\* the coins that are not due are all kept
LEMMA CountStillLocked ==
  ASSUME NEW s \in Seq(LockedCoin), NEW c, ~IsDue(c)
  PROVE Count(StillLocked(s), c) = Count(s, c)
<1> DEFINE val == Is(c)
<1>1. /\ StillLocked(s) \in Seq(LockedCoin)
      /\ ValueSum(StillLocked(s), val) = ValueSum(s, Kept(val))
  BY CountIs, StillLockedSum
<1>2. \A k \in 1..Len(s) : Kept(val)[s[k]] = val[s[k]]
  BY DEF Kept, Is
<1>3. ValueSum(s, Kept(val)) = ValueSum(s, val)
  <2>1. val \in [LockedCoin -> Int]
    BY CountIs
  <2> HIDE DEF val
  <2> QED BY <1>2, <2>1, ValueSumCongruence
<1> QED BY <1>1, <1>3, CountIs

\* No coin is missing from u's list that was there.
Missing(u, c) == Count(locked'[u], c) < Count(locked[u], c)

LEMMA SameList ==
  ASSUME locked \in Lists, NEW u \in Users, NEW c, locked'[u] = locked[u]
  PROVE ~Missing(u, c)
<1>1. locked[u] \in Seq(LockedCoin)
  BY DEF Lists
<1>2. Count(locked[u], c) \in Int
  BY <1>1, CountIs
<1> QED BY <1>2 DEF Missing

LEMMA LockingMisses ==
  ASSUME locked \in Lists, NEW w, NEW x, NEW v \in Users, NEW coin \in LockedCoin, NEW fee,
         SendLockedCoins(w, x, v, coin, fee), NEW u \in Users, NEW c
  PROVE ~Missing(u, c)
<1>1. locked' = [locked EXCEPT ![v] = Append(locked[v], coin)]
  BY DEF SendLockedCoins
<1>2. CASE u = v
  <2>1. locked'[u] = Append(locked[u], coin) /\ locked[u] \in Seq(LockedCoin)
    BY <1>1, <1>2 DEF Lists
  <2>2. Append(locked[u], coin) \in Seq(LockedCoin)
    BY <2>1
  <2>3. Count(locked[u], c) \in Int /\ Count(Append(locked[u], coin), c) \in Int
        /\ Count(Append(locked[u], coin), c) >= Count(locked[u], c)
    BY <2>1, <2>2, CountIs, CountAppend
  <2> QED BY <2>1, <2>3 DEF Missing
<1>3. CASE u # v
  BY <1>1, <1>3, SameList DEF Lists
<1> QED BY <1>2, <1>3

LEMMA SendMisses ==
  ASSUME MoneyInv, NEW x \in Users, NEW v \in Users, NEW d \in Denoms, NEW n \in Nat \ {0},
         NEW t \in Nat, Send(x, v, d, n, t), NEW u \in Users, NEW c
  PROVE ~Missing(u, c)
<1> DEFINE fee == IF v \in accounts THEN 0 ELSE ActivationFee
           left == IF d = CET THEN n - fee ELSE n
           w == Debit(coins, x, CET, fee)
           coin == [denom |-> d, amount |-> left, time |-> t, from |-> 0, supervisor |-> 0,
                    reward |-> 0]
<1>1. locked \in Lists
  BY MoneyFacts
<1>2. CASE t = 0 \/ left = 0
  BY <1>1, <1>2, SameList DEF Send
<1>3. CASE t # 0 /\ left # 0
  <2>1. SendLockedCoins(w, x, v, coin, LockFee(t)) /\ (fee > 0 => d = CET /\ n >= fee)
    BY <1>3 DEF Send
  <2>2. fee \in Nat
    BY ConstantTypes
  <2> HIDE DEF fee
  <2>3. left \in Nat \ {0}
    BY <1>3, <2>1, <2>2
  <2> HIDE DEF left
  <2>4. coin \in LockedCoin
    BY <2>3 DEF LockedCoin
  <2> HIDE DEF w, coin
  <2> QED BY <1>1, <2>1, <2>4, LockingMisses
<1> QED BY <1>2, <1>3

\* What an early unlock takes is paid in full: to the receiver of the money, and
\* the reward to the supervisor.
LEMMA EarlierUnlockPays ==
  ASSUME MoneyInv, NEW r \in SupervisedMsg, r.reward <= r.amount, NEW isReturned \in BOOLEAN,
         EarlierUnlock(r, isReturned), ~isReturned \/ r.from \in Users,
         NEW u \in Users, NEW c, Missing(u, c)
  PROVE PaidEarly(u, c)
<1> DEFINE rc == IF isReturned THEN r.from ELSE r.to
           rew == IF r.supervisor = 0 THEN 0 ELSE r.reward
           m == r.amount - rew
           d == r.denom
           v == r.to
           paid == Credit(coins, rc, d, m)
<1>0. coins \in IntBalances /\ locked \in Lists /\ WalletTypes
      /\ \A x \in Users, e \in Denoms : coins[x][e] \in Nat
  BY MoneyFacts DEF MoneyInv
<1>1. /\ d \in Denoms /\ rc \in Users /\ v \in Users /\ rew \in Nat /\ m \in Nat /\ m \in Int
      /\ rew \in Int /\ m = r.amount - rew
      /\ rew > 0 => r.supervisor \in Users
  BY DEF SupervisedMsg
<1>2. PICK i \in 1..Len(locked[v]) :
        /\ locked[v][i] = AsLocked(r)
        /\ locked' = [locked EXCEPT ![v] = RemoveAt(@, i)]
  <2>1. /\ Found(r) # {}
        /\ locked' = [locked EXCEPT ![v] =
             RemoveAt(@, CHOOSE k \in Found(r) : \A j \in Found(r) : k <= j)]
    BY DEF EarlierUnlock
  <2> QED BY <1>0, <2>1, FirstFound
<1>3. locked[v] \in Seq(LockedCoin) /\ RemoveAt(locked[v], i) = Without(locked[v], i)
  BY <1>0, <1>1 DEF Lists, RemoveAt, Without
<1>4. u = v
  BY <1>0, <1>2, SameList DEF Lists
<1>5. locked'[u] = Without(locked[u], i) /\ Len(locked'[u]) = Len(locked[u]) - 1
  BY <1>0, <1>1, <1>2, <1>3, <1>4, WithoutElements DEF Lists
<1>6. c = AsLocked(r)
  <2> SUFFICES ASSUME c # AsLocked(r) PROVE FALSE
    OBVIOUS
  <2>1. Count(locked'[u], c) = Count(locked[u], c) /\ Count(locked[u], c) \in Int
    BY <1>2, <1>3, <1>4, <1>5, CountWithout, CountIs
  <2> QED BY <2>1 DEF Missing
<1>7. coins' = IF rew > 0 THEN Credit(paid, r.supervisor, d, rew) ELSE paid
  BY DEF EarlierUnlock
<1>r. rc \in {u, r.from} \ {0} /\ (rew # 0 => rew > 0)
  BY <1>1, <1>4, ConstantTypes
<1>s. rew = IF c.supervisor = 0 THEN 0 ELSE c.reward
  BY <1>6 DEF AsLocked
<1>t. /\ c.denom = d /\ c.amount = r.amount /\ c.supervisor = r.supervisor /\ c.from = r.from
  BY <1>6 DEF AsLocked
<1> HIDE DEF rc, rew, m, d, v
<1>8. ASSUME NEW x \in Users
      PROVE coins'[x][d] - coins[x][d]
              = (IF x = rc THEN m ELSE 0) + (IF x = r.supervisor THEN rew ELSE 0)
  <2>1. paid \in IntBalances /\ paid[x][d] = IF x = rc THEN coins[x][d] + m ELSE coins[x][d]
    <3>1. paid \in IntBalances
      BY <1>0, <1>1, CreditEntries
    <3>2. paid[x][d] = IF x = rc /\ d = d THEN coins[x][d] + m ELSE coins[x][d]
      BY <1>0, <1>1, CreditAt
    <3> QED BY <3>1, <3>2
  <2> HIDE DEF paid
  <2>2. CASE rew > 0
    <3>1. coins' = Credit(paid, r.supervisor, d, rew)
      BY <1>7, <2>2
    <3>2. coins'[x][d] = IF x = r.supervisor THEN paid[x][d] + rew ELSE paid[x][d]
      BY <1>1, <2>1, <2>2, <3>1, CreditAt
    <3> QED BY <1>0, <1>1, <2>1, <3>2
  <2>3. CASE rew = 0
    <3>1. coins'[x][d] = paid[x][d]
      BY <1>7, <2>3
    <3> QED BY <1>0, <1>1, <2>1, <2>3, <3>1
  <2> QED BY <1>r, <2>2, <2>3
<1> QED BY <1>1, <1>5, <1>8, <1>r, <1>s, <1>t DEF PaidEarly

LEMMA BankMisses ==
  ASSUME MoneyInv, BankTransaction, NEW u \in Users, NEW c, Missing(u, c)
  PROVE PaidEarly(u, c)
<1>0. locked \in Lists
  BY MoneyFacts
<1>t. /\ Sends \subseteq SendMsg /\ Supervised \subseteq SupervisedMsg
      /\ \A r \in Supervised : r.reward <= r.amount
  BY WalletsAssumption
<1>1. ASSUME locked' = locked PROVE FALSE
  BY <1>0, <1>1, SameList
<1>2. ASSUME NEW m \in Sends, Send(m.from, m.to, m.denom, m.amount, m.time) PROVE FALSE
  <2>1. m.from \in Users /\ m.to \in Users /\ m.denom \in Denoms /\ m.amount \in Nat \ {0}
        /\ m.time \in Nat
    BY <1>t DEF SendMsg
  <2> QED BY <1>2, <2>1, SendMisses
<1>3. ASSUME NEW r \in Supervised, SupervisedSend(r) PROVE FALSE
  <2>1. AsLocked(r) \in LockedCoin /\ r.to \in Users
    BY <1>t DEF SupervisedMsg, AsLocked, LockedCoin
  <2>2. SendLockedCoins(coins, r.from, r.to, AsLocked(r), LockFee(r.time))
    BY <1>3 DEF SupervisedSend
  <2> QED BY <1>0, <2>1, <2>2, LockingMisses
<1>4. ASSUME NEW r \in Supervised, EarlyUnlock(r) PROVE PaidEarly(u, c)
  <2>1. \E b \in BOOLEAN : EarlierUnlock(r, b) /\ (~b \/ r.from \in Users)
    BY <1>t, <1>4 DEF EarlyUnlock, SupervisedMsg
  <2> QED BY <1>t, <2>1, EarlierUnlockPays
<1>5. ASSUME \/ \E m \in MultiSends : MultiSend(m.ins, m.outs)
             \/ \E f \in Freezes : \/ Freeze(f.user, f.denom, f.amount)
                                   \/ UnFreeze(f.user, f.denom, f.amount)
             \/ \E x \in Signers, n \in Donations : Donate(x, n)
      PROVE FALSE
  BY <1>1, <1>5 DEF MultiSend, Freeze, UnFreeze, Donate
<1> QED BY <1>2, <1>3, <1>4, <1>5 DEF BankTransaction

LEMMA MissingStep ==
  ASSUME WalletsInv, [WalletsNext]_walletVars
  PROVE LeavesWhenDueOrPaid
<1> SUFFICES ASSUME NEW u \in Users, NEW k \in DOMAIN locked[u], Missing(u, locked[u][k])
             PROVE (phase = "unlock" /\ IsDue(locked[u][k])) \/ PaidEarly(u, locked[u][k])
  BY DEF LeavesWhenDueOrPaid, Missing
<1> DEFINE c == locked[u][k]
<1>0. MoneyInv /\ locked \in Lists
  BY MoneyFacts DEF WalletsInv
<1>1. Missing(u, c)
  OBVIOUS
<1> HIDE DEF c
<1>2. ASSUME locked' = locked PROVE FALSE
  BY <1>0, <1>1, <1>2, SameList
<1>3. CASE BankTransaction
  BY <1>0, <1>1, <1>3, BankMisses DEF c
<1>4. ASSUME NEW x \in Signers, AssetTransaction(x) PROVE FALSE
  BY <1>2, <1>4, AssetHolds DEF holdVars
<1>5. ASSUME NEW e \in due, WithdrawUnlocked(e) PROVE phase = "unlock" /\ IsDue(c)
  <2>1. /\ phase = "unlock"
        /\ locked' = [locked EXCEPT ![e[2]] = StillLocked(locked[e[2]])]
    BY <1>5 DEF WithdrawUnlocked
  <2>2. ASSUME ~IsDue(c) PROVE FALSE
    <3>1. CASE u = e[2]
      <4>1. locked'[u] = StillLocked(locked[u]) /\ locked[u] \in Seq(LockedCoin)
        BY <1>0, <2>1, <3>1 DEF Lists
      <4>2. Count(locked'[u], c) = Count(locked[u], c) /\ Count(locked[u], c) \in Int
        BY <2>2, <4>1, CountStillLocked, CountIs
      <4> QED BY <1>1, <4>2 DEF Missing
    <3>2. CASE u # e[2]
      <4>1. locked'[u] = locked[u]
        BY <1>0, <2>1, <3>2 DEF Lists
      <4> QED BY <1>0, <1>1, <4>1, SameList
    <3> QED BY <3>1, <3>2
  <2> QED BY <2>1, <2>2
<1>6. ASSUME BeginBlock \/ EndBlocker \/ Commit \/ Restart \/ UNCHANGED walletVars PROVE FALSE
  BY <1>2, <1>6 DEF BeginBlock, EndBlocker, Commit, Restart, walletVars, assetVars, holdVars
<1> QED BY <1>3, <1>4, <1>5, <1>6 DEF WalletsNext, WalletTransaction, BlockStep, Full, c

\* A locked coin that leaves before its time leaves alone and is paid in full, to its
\* sender or its receiver and to the supervisor (bankx keeper).
THEOREM AlwaysPaidEarly == WalletsSpec => EarlyUnlockPays
<1>1. WalletsInv /\ [WalletsNext]_walletVars => [LeavesWhenDueOrPaid]_walletVars
  BY MissingStep
<1> QED BY <1>1, WalletsAlwaysInv, PTL DEF WalletsSpec, EarlyUnlockPays
-----------------------------------------------------------------------------
(* Aliases.  The lemmas are about any set of marks an entry may have; the code's *)
(* are TRUE, for the default alias, and FALSE.                                   *)

\* The store by alias and the store by account tell the same.
SameStores(ofAlias, ofUser, Marks) ==
  /\ ofAlias \in [Aliases -> (Users \X Marks) \cup {NoAlias}]
  /\ ofUser \subseteq Users \X Aliases \X Marks /\ IsFiniteSet(ofUser)
  /\ \A u \in Users, a \in Aliases, m \in Marks :
       <<u, a, m>> \in ofUser <=> ofAlias[a] = <<u, m>>

OneMarked(ofUser, on) ==
  \A u \in Users, a \in Aliases, b \in Aliases :
    <<u, a, on>> \in ofUser /\ <<u, b, on>> \in ofUser => a = b

\* u may have the alias a: it is free, or he has it
MayHave(ofAlias, u, a, Marks) == ofAlias[a] = NoAlias \/ \E m \in Marks : ofAlias[a] = <<u, m>>

AliasesInv ==
  /\ SameStores(accountOf, aliasesOf, BOOLEAN)
  /\ OneMarked(aliasesOf, TRUE)
  /\ \A u \in Users : Cardinality(Of(aliasesOf, u)) <= MaxAliasCount

LEMMA OfFinite ==
  ASSUME NEW S, IsFiniteSet(S), NEW u
  PROVE IsFiniteSet(Of(S, u)) /\ Cardinality(Of(S, u)) \in Nat
<1>1. Of(S, u) \subseteq S
  BY DEF Of
<1> QED BY <1>1, FS_Subset, FS_CardinalityType

LEMMA AliasShape ==
  ASSUME NEW M, NEW A, NEW S, SameStores(A, S, M)
  PROVE \A e \in S : e[1] \in Users /\ e[2] \in Aliases /\ e[3] \in M /\ e = <<e[1], e[2], e[3]>>
BY DEF SameStores

\* What an entry that is set makes of one store is what it makes of the other.
LEMMA SetAliasStores ==
  ASSUME NEW M, NoAlias \notin Users \X M, NEW A, NEW S, SameStores(A, S, M),
         NEW u \in Users, NEW a \in Aliases, NEW b \in M, MayHave(A, u, a, M)
  PROVE SameStores([A EXCEPT ![a] = <<u, b>>], SetAlias(S, u, a, b), M)
<1> DEFINE B == [A EXCEPT ![a] = <<u, b>>]
           R == {e \in S : ~(e[1] = u /\ e[2] = a)}
           T == R \cup {<<u, a, b>>}
<1>0. /\ A \in [Aliases -> (Users \X M) \cup {NoAlias}]
      /\ S \subseteq Users \X Aliases \X M /\ IsFiniteSet(S)
  BY DEF SameStores
<1>1. T = SetAlias(S, u, a, b)
  BY DEF SetAlias
<1>2. B \in [Aliases -> (Users \X M) \cup {NoAlias}]
  BY <1>0
<1>3. T \subseteq Users \X Aliases \X M
  BY <1>0
<1>4. IsFiniteSet(T)
  <2>1. R \subseteq S
    OBVIOUS
  <2>2. IsFiniteSet(R)
    BY <1>0, <2>1, FS_Subset
  <2> HIDE DEF R
  <2> QED BY <2>2, FS_AddElement
<1>5. ASSUME NEW v \in Users, NEW c \in Aliases, NEW f \in M
      PROVE <<v, c, f>> \in T <=> B[c] = <<v, f>>
  <2>1. <<v, c, f>> \in S <=> A[c] = <<v, f>>
    BY DEF SameStores
  <2>2. <<v, c, f>> \in T <=> (<<v, c, f>> \in S /\ ~(v = u /\ c = a)) \/ (v = u /\ c = a /\ f = b)
    OBVIOUS
  <2>3. CASE c = a
    <3>1. B[c] = <<u, b>>
      BY <1>0, <2>3
    <3>2. v # u => A[c] # <<v, f>>
      BY <2>3 DEF MayHave
    <3> QED BY <2>1, <2>2, <2>3, <3>1, <3>2
  <2>4. CASE c # a
    <3>1. B[c] = A[c]
      BY <1>0, <2>4
    <3> QED BY <2>1, <2>2, <2>4, <3>1
  <2> QED BY <2>3, <2>4
<1> HIDE DEF B, T
<1>6. SameStores(B, T, M)
  BY <1>2, <1>3, <1>4, <1>5 DEF SameStores
<1> QED BY <1>1, <1>6 DEF B

\* an entry that is replaced adds none
LEMMA SetAliasCount ==
  ASSUME NEW M, NoAlias \notin Users \X M, NEW A, NEW S, SameStores(A, S, M),
         NEW u \in Users, NEW a \in Aliases, NEW b \in M, MayHave(A, u, a, M), NEW v \in Users
  PROVE Cardinality(Of(SetAlias(S, u, a, b), v))
          = Cardinality(Of(S, v)) + (IF v = u /\ A[a] = NoAlias THEN 1 ELSE 0)
<1> DEFINE T == SetAlias(S, u, a, b)
           O == Of(S, v)
           x == <<u, a, b>>
<1>0. /\ IsFiniteSet(S)
      /\ \A w \in Users, c \in Aliases, f \in M : <<w, c, f>> \in S <=> A[c] = <<w, f>>
      /\ \A e \in S : e[1] \in Users /\ e[2] \in Aliases /\ e[3] \in M /\ e = <<e[1], e[2], e[3]>>
  BY AliasShape DEF SameStores
<1>1. IsFiniteSet(O) /\ Cardinality(O) \in Nat
  BY <1>0, OfFinite
<1>2. CASE v # u
  <2>1. Of(T, v) = O
    BY <1>2 DEF Of, SetAlias
  <2> QED BY <1>1, <1>2, <2>1
<1>3. CASE v = u /\ A[a] = NoAlias
  <2>1. \A f \in M : <<u, a, f>> \notin S
    BY <1>0, <1>3, SMTT(30)
  <2>2. \A e \in S : ~(e[1] = u /\ e[2] = a)
    BY <1>0, <2>1
  <2>3. Of(T, v) = O \cup {x} /\ x \notin O
    BY <1>3, <2>1, <2>2 DEF Of, SetAlias
  <2> HIDE DEF O, T, x
  <2>4. Cardinality(Of(T, v)) = Cardinality(O) + 1
    BY <1>1, <2>3, FS_AddElement
  <2> QED BY <1>3, <2>4 DEF O, T
<1>4. CASE v = u /\ A[a] # NoAlias
  <2>1. PICK f \in M : A[a] = <<u, f>>
    BY <1>4 DEF MayHave
  <2> DEFINE y == <<u, a, f>>
  <2>2. y \in O /\ \A e \in S : e[1] = u /\ e[2] = a => e = y
    <3>1. y \in O
      BY <1>0, <1>4, <2>1 DEF Of
    <3>2. ASSUME NEW e \in S, e[1] = u, e[2] = a PROVE e = y
      <4>1. e = <<u, a, e[3]>> /\ A[a] = <<u, e[3]>>
        BY <1>0, <3>2
      <4> QED BY <2>1, <4>1
    <3> QED BY <3>1, <3>2
  <2>3. Of(T, v) = (O \ {y}) \cup {x} /\ x \notin O \ {y}
    <3>1. x[1] = u /\ x[2] = a /\ y[1] = u /\ y[2] = a
      OBVIOUS
    <3>2. Of(T, v) = {e \in S : e[1] = u /\ e[2] # a} \cup {x}
      BY <1>4 DEF Of, SetAlias
    <3>3. O \ {y} = {e \in S : e[1] = u /\ e[2] # a}
      BY <1>4, <2>2, <3>1 DEF Of
    <3> HIDE DEF x, y
    <3> QED BY <3>1, <3>2, <3>3
  <2> HIDE DEF O, T, x, y
  <2>4. IsFiniteSet(O \ {y}) /\ Cardinality(O \ {y}) = Cardinality(O) - 1
    BY <1>1, <2>2, FS_RemoveElement
  <2>5. Cardinality(Of(T, v)) = Cardinality(O \ {y}) + 1
    BY <2>3, <2>4, FS_AddElement
  <2> QED BY <1>1, <1>4, <2>4, <2>5 DEF O, T
<1> QED BY <1>2, <1>3, <1>4

\* A new entry may be marked when no other one is.
LEMMA SetAliasMarked ==
  ASSUME NEW S, NEW on, OneMarked(S, on), NEW u \in Users, NEW a \in Aliases, NEW b,
         b = on => \A c \in Aliases : <<u, c, on>> \notin S
  PROVE OneMarked(SetAlias(S, u, a, b), on)
<1> SUFFICES ASSUME NEW v \in Users, NEW c \in Aliases, NEW d \in Aliases,
                    <<v, c, on>> \in SetAlias(S, u, a, b), <<v, d, on>> \in SetAlias(S, u, a, b)
             PROVE c = d
  BY DEF OneMarked
<1>1. \A x \in Aliases : <<v, x, on>> \in SetAlias(S, u, a, b)
                           => <<v, x, on>> \in S \/ (v = u /\ x = a /\ b = on)
  BY DEF SetAlias
<1>2. <<v, c, on>> \in S \/ (v = u /\ c = a /\ b = on)
  BY <1>1
<1>3. <<v, d, on>> \in S \/ (v = u /\ d = a /\ b = on)
  BY <1>1
<1> QED BY <1>2, <1>3 DEF OneMarked

\* An entry is marked after the one that was marked has made place.
LEMMA ClearThenMark ==
  ASSUME NEW M, NoAlias \notin Users \X M, NEW on \in M, NEW off \in M, on # off,
         NEW A, NEW S, SameStores(A, S, M), OneMarked(S, on),
         NEW u \in Users, NEW p \in Aliases, <<u, p, on>> \in S,
         NEW a \in Aliases, MayHave(A, u, a, M), A[a] # <<u, on>>
  PROVE /\ SameStores([[A EXCEPT ![p] = <<u, off>>] EXCEPT ![a] = <<u, on>>],
                      SetAlias(SetAlias(S, u, p, off), u, a, on), M)
        /\ OneMarked(SetAlias(SetAlias(S, u, p, off), u, a, on), on)
        /\ \A v \in Users : Cardinality(Of(SetAlias(SetAlias(S, u, p, off), u, a, on), v))
                              = Cardinality(Of(S, v)) + (IF v = u /\ A[a] = NoAlias THEN 1 ELSE 0)
<1> DEFINE C == [A EXCEPT ![p] = <<u, off>>]
           R == SetAlias(S, u, p, off)
<1>a. A[p] = <<u, on>> /\ MayHave(A, u, p, M) /\ A[p] # NoAlias
  BY DEF SameStores, MayHave
<1>b. \A c \in Aliases : <<u, c, on>> \notin R
  <2> SUFFICES ASSUME NEW c \in Aliases, <<u, c, on>> \in R PROVE FALSE
    OBVIOUS
  <2>1. <<u, c, on>> \in S /\ c # p
    BY DEF SetAlias
  <2> QED BY <2>1 DEF OneMarked
<1>c. ASSUME NEW v \in Users PROVE Cardinality(Of(R, v)) = Cardinality(Of(S, v))
  <2>1. Cardinality(Of(R, v)) = Cardinality(Of(S, v)) + 0
    BY <1>a, SetAliasCount
  <2>2. Cardinality(Of(S, v)) \in Nat
    BY OfFinite DEF SameStores
  <2> QED BY <2>1, <2>2
<1>d. SameStores(C, R, M)
  BY <1>a, SetAliasStores
<1>e. OneMarked(R, on)
  BY SetAliasMarked
<1>1. /\ SameStores(C, R, M) /\ OneMarked(R, on)
      /\ \A c \in Aliases : <<u, c, on>> \notin R
      /\ \A v \in Users : Cardinality(Of(R, v)) = Cardinality(Of(S, v))
      /\ A[p] = <<u, on>>
  BY <1>a, <1>b, <1>c, <1>d, <1>e
<1>2. C[a] = A[a]
  <2>1. p # a /\ A \in [Aliases -> (Users \X M) \cup {NoAlias}]
    BY <1>1 DEF SameStores
  <2> QED BY <2>1
<1>3. MayHave(C, u, a, M)
  BY <1>2 DEF MayHave
<1> HIDE DEF C, R
<1>4. SameStores([C EXCEPT ![a] = <<u, on>>], SetAlias(R, u, a, on), M)
  BY <1>1, <1>3, SetAliasStores
<1>5. OneMarked(SetAlias(R, u, a, on), on)
  BY <1>1, SetAliasMarked
<1>6. \A v \in Users : Cardinality(Of(SetAlias(R, u, a, on), v))
                        = Cardinality(Of(R, v)) + (IF v = u /\ C[a] = NoAlias THEN 1 ELSE 0)
  BY <1>1, <1>3, SetAliasCount
<1> QED BY <1>1, <1>2, <1>4, <1>5, <1>6 DEF C, R

LEMMA AliasFacts ==
  ASSUME AliasesInv
  PROVE /\ NoAlias \notin Users \X BOOLEAN /\ MaxAliasCount \in Nat /\ TRUE # FALSE
        /\ \A v \in Users : /\ Cardinality(Of(aliasesOf, v)) \in Nat
                            /\ Cardinality(Of(aliasesOf, v)) <= MaxAliasCount
        /\ \A e \in aliasesOf : e[3] <=> e[3] = TRUE
        /\ \A e \in aliasesOf : accountOf[e[2]] = <<e[1], e[3]>> /\ accountOf[e[2]] # NoAlias
<1>1. NoAlias \notin Users \X BOOLEAN /\ MaxAliasCount \in Nat /\ TRUE # FALSE
  BY ProfilesAssumption
<1>2. \A v \in Users : /\ Cardinality(Of(aliasesOf, v)) \in Nat
                       /\ Cardinality(Of(aliasesOf, v)) <= MaxAliasCount
  BY OfFinite DEF AliasesInv, SameStores
<1> DEFINE M == BOOLEAN
<1>3. M = BOOLEAN /\ NoAlias \notin Users \X M /\ SameStores(accountOf, aliasesOf, M)
  BY <1>1 DEF AliasesInv
<1> HIDE DEF M
<1>4. \A e \in aliasesOf : e[1] \in Users /\ e[2] \in Aliases /\ e[3] \in M /\ e = <<e[1], e[2], e[3]>>
  BY <1>3, AliasShape
<1>5. ASSUME NEW e \in aliasesOf PROVE e[3] <=> e[3] = TRUE
  <2>1. e[3] \in BOOLEAN
    BY <1>3, <1>4
  <2> QED BY <2>1, Zenon
<1>6. ASSUME NEW e \in aliasesOf
      PROVE accountOf[e[2]] = <<e[1], e[3]>> /\ accountOf[e[2]] # NoAlias
  <2>1. accountOf[e[2]] = <<e[1], e[3]>>
    BY <1>3, <1>4 DEF SameStores
  <2>2. <<e[1], e[3]>> \in Users \X M
    BY <1>4
  <2> QED BY <1>3, <2>1, <2>2
<1> QED BY <1>1, <1>2, <1>5, <1>6

LEMMA AddAliasInv ==
  ASSUME AliasesInv, NEW u \in Users, NEW a \in Aliases, NEW b \in BOOLEAN, AddAlias(u, a, b)
  PROVE AliasesInv'
<1> DEFINE old == {e \in Of(aliasesOf, u) : e[3]}
           isNew == \A e \in Of(aliasesOf, u) : e[2] # a
           replaced == IF b THEN old ELSE {}
           first == CHOOSE e \in replaced : TRUE
           M == BOOLEAN
           on == TRUE
           off == FALSE
           cleared == [c \in Aliases |-> IF \E e \in replaced : e[2] = c THEN <<u, off>>
                                         ELSE accountOf[c]]
           S == IF replaced = {} THEN aliasesOf ELSE SetAlias(aliasesOf, u, first[2], off)
<1>1. /\ accountOf[a] = NoAlias \/ accountOf[a] = <<u, ~b>>
      /\ isNew => Cardinality(Of(aliasesOf, u)) < MaxAliasCount
      /\ accountOf' = [cleared EXCEPT ![a] = <<u, b>>]
      /\ aliasesOf' = SetAlias(S, u, a, b)
  BY DEF AddAlias
<1>2. accountOf[a] = NoAlias => isNew
  BY AliasFacts DEF Of
<1>3. /\ M = BOOLEAN /\ NoAlias \notin Users \X M /\ on \in M /\ off \in M /\ on # off /\ b \in M
      /\ SameStores(accountOf, aliasesOf, M) /\ OneMarked(aliasesOf, on)
  BY AliasFacts DEF AliasesInv
<1>4. MayHave(accountOf, u, a, M)
  <2>1. (~b) \in M
    OBVIOUS
  <2> HIDE DEF M
  <2> QED BY <1>1, <2>1 DEF MayHave
<1>5. b = on => accountOf[a] # <<u, on>>
  <2> SUFFICES ASSUME b = on, accountOf[a] = <<u, on>> PROVE FALSE
    OBVIOUS
  <2>1. ~b = off
    OBVIOUS
  <2>2. <<u, on>> \in Users \X M
    OBVIOUS
  <2> HIDE DEF on, off, M
  <2> QED BY <1>1, <1>3, <2>1, <2>2
<1>6. \A e \in aliasesOf : e[1] \in Users /\ e[2] \in Aliases /\ e = <<e[1], e[2], e[3]>>
  <2> HIDE DEF M
  <2> QED BY <1>3, AliasShape
<1>m. \A e \in aliasesOf : e[3] <=> e[3] = on
  BY AliasFacts, Zenon
<1>b. b <=> b = on
  BY Zenon
<1>7. \A e : e \in replaced <=> b = on /\ e \in aliasesOf /\ e[1] = u /\ e[3] = on
  <2>1. \A e : e \in old <=> e \in aliasesOf /\ e[1] = u /\ e[3]
    BY DEF Of
  <2>2. \A e : e \in replaced <=> b /\ e \in old
    <3> HIDE DEF old
    <3> QED BY Zenon
  <2> HIDE DEF old, on, replaced
  <2> SUFFICES ASSUME NEW e
               PROVE e \in replaced <=> b = on /\ e \in aliasesOf /\ e[1] = u /\ e[3] = on
    BY Zenon
  <2>3. e \in replaced <=> b /\ e \in old
    BY <2>2, Zenon
  <2>4. e \in old <=> e \in aliasesOf /\ e[1] = u /\ e[3]
    BY <2>1, Zenon
  <2>5. e \in aliasesOf => (e[3] <=> e[3] = on)
    BY <1>m, Zenon
  <2> QED BY <1>b, <2>3, <2>4, <2>5, Zenon
<1>f. replaced # {} => first \in replaced
  OBVIOUS
<1>s. /\ replaced = {} => cleared = [c \in Aliases |-> accountOf[c]] /\ S = aliasesOf
      /\ replaced # {} => S = SetAlias(aliasesOf, u, first[2], off)
      /\ cleared = [c \in Aliases |-> IF \E e \in replaced : e[2] = c THEN <<u, off>>
                                      ELSE accountOf[c]]
      /\ accountOf \in [Aliases -> (Users \X M) \cup {NoAlias}]
  BY <1>3 DEF SameStores
<1> HIDE DEF replaced, first, on, off, M, isNew, cleared, S
<1> DEFINE Count1(v) == Cardinality(Of(aliasesOf, v)) + (IF v = u /\ accountOf[a] = NoAlias THEN 1 ELSE 0)
<1>8. /\ SameStores(accountOf', aliasesOf', M) /\ OneMarked(aliasesOf', on)
      /\ \A v \in Users : Cardinality(Of(aliasesOf', v)) = Count1(v)
  <2>1. CASE replaced = {}
    <3>1. accountOf' = [accountOf EXCEPT ![a] = <<u, b>>] /\ aliasesOf' = SetAlias(aliasesOf, u, a, b)
      BY <1>1, <1>s, <2>1
    <3>2. b = on => \A c \in Aliases : <<u, c, on>> \notin aliasesOf
      BY <1>7, <2>1
    <3>3. SameStores([accountOf EXCEPT ![a] = <<u, b>>], SetAlias(aliasesOf, u, a, b), M)
      BY <1>3, <1>4, SetAliasStores
    <3>4. OneMarked(SetAlias(aliasesOf, u, a, b), on)
      BY <1>3, <3>2, SetAliasMarked
    <3>5. \A v \in Users : Cardinality(Of(SetAlias(aliasesOf, u, a, b), v)) = Count1(v)
      BY <1>3, <1>4, SetAliasCount
    <3> QED BY <3>1, <3>3, <3>4, <3>5
  <2>2. CASE replaced # {}
    <3> DEFINE p == first[2]
    <3>1. b = on /\ first \in aliasesOf /\ p \in Aliases /\ <<u, p, on>> \in aliasesOf
          /\ first \in replaced
      <4>1. first \in replaced
        BY <1>f, <2>2
      <4>2. b = on /\ first \in aliasesOf /\ first[1] = u /\ first[3] = on
        BY <1>7, <4>1, Zenon
      <4>3. p \in Aliases /\ first = <<first[1], p, first[3]>>
        BY <1>6, <4>2
      <4> QED BY <4>1, <4>2, <4>3
    <3>2. \A c \in Aliases : (\E e \in replaced : e[2] = c) <=> c = p
      <4>1. \A e \in replaced : e \in aliasesOf /\ e[2] \in Aliases /\ <<u, e[2], on>> \in aliasesOf
        <5> SUFFICES ASSUME NEW e \in replaced
                     PROVE e \in aliasesOf /\ e[2] \in Aliases /\ <<u, e[2], on>> \in aliasesOf
          OBVIOUS
        <5>1. e \in aliasesOf /\ e[1] = u /\ e[3] = on
          BY <1>7, Zenon
        <5>2. e[2] \in Aliases /\ e = <<e[1], e[2], e[3]>>
          BY <1>6, <5>1
        <5> QED BY <5>1, <5>2
      <4>2. \A e \in replaced : e[2] = p
        BY <1>3, <3>1, <4>1 DEF OneMarked
      <4> QED BY <3>1, <4>2
    <3>3. aliasesOf' = SetAlias(SetAlias(aliasesOf, u, p, off), u, a, on)
      BY <1>1, <1>s, <2>2, <3>1
    <3>4. cleared = [accountOf EXCEPT ![p] = <<u, off>>]
      BY <1>s, <3>1, <3>2
    <3> HIDE DEF p
    <3>5. accountOf' = [[accountOf EXCEPT ![p] = <<u, off>>] EXCEPT ![a] = <<u, on>>]
      BY <1>1, <3>1, <3>4
    <3> DEFINE B == [[accountOf EXCEPT ![p] = <<u, off>>] EXCEPT ![a] = <<u, on>>]
               T == SetAlias(SetAlias(aliasesOf, u, p, off), u, a, on)
    <3>6. /\ SameStores(B, T, M) /\ OneMarked(T, on)
          /\ \A v \in Users : Cardinality(Of(T, v)) = Count1(v)
      BY <1>3, <1>4, <1>5, <3>1, ClearThenMark
    <3>7. accountOf' = B /\ aliasesOf' = T
      BY <3>3, <3>5
    <3> HIDE DEF B, T
    <3> QED BY <3>6, <3>7
  <2> QED BY <2>1, <2>2
<1>9. ASSUME NEW v \in Users PROVE Cardinality(Of(aliasesOf', v)) <= MaxAliasCount
  <2>1. /\ Cardinality(Of(aliasesOf, v)) \in Nat /\ MaxAliasCount \in Nat
        /\ Cardinality(Of(aliasesOf, v)) <= MaxAliasCount
    BY AliasFacts
  <2>2. Cardinality(Of(aliasesOf', v)) = Cardinality(Of(aliasesOf, v)) + (IF v = u /\ accountOf[a] = NoAlias THEN 1 ELSE 0)
    BY <1>8
  <2> QED BY <1>1, <1>2, <2>1, <2>2
<1>10. SameStores(accountOf', aliasesOf', BOOLEAN) /\ OneMarked(aliasesOf', TRUE)
  BY <1>8 DEF M, on
<1> QED BY <1>9, <1>10 DEF AliasesInv, SameStores, OneMarked, Of

LEMMA RemoveAliasInv ==
  ASSUME AliasesInv, NEW u \in Users, NEW a \in Aliases, RemoveAlias(u, a)
  PROVE AliasesInv'
<1> DEFINE M == BOOLEAN
           T == {e \in aliasesOf : ~(e[1] = u /\ e[2] = a)}
           B == [accountOf EXCEPT ![a] = NoAlias]
<1>1. accountOf[a] # NoAlias /\ accountOf[a][1] = u /\ accountOf' = B /\ aliasesOf' = T
  BY DEF RemoveAlias
<1>2. NoAlias \notin Users \X M /\ SameStores(accountOf, aliasesOf, M)
  BY AliasFacts DEF AliasesInv
<1> HIDE DEF M
<1>3. /\ accountOf \in [Aliases -> (Users \X M) \cup {NoAlias}]
      /\ aliasesOf \subseteq Users \X Aliases \X M /\ IsFiniteSet(aliasesOf)
      /\ \A v \in Users, c \in Aliases, m \in M : <<v, c, m>> \in aliasesOf <=> accountOf[c] = <<v, m>>
  BY <1>2 DEF SameStores
<1>4. T \subseteq aliasesOf /\ IsFiniteSet(T)
  <2>1. T \subseteq aliasesOf
    OBVIOUS
  <2> HIDE DEF T
  <2> QED BY <1>3, <2>1, FS_Subset
<1>5. B \in [Aliases -> (Users \X M) \cup {NoAlias}]
  BY <1>3
<1>6. ASSUME NEW v \in Users, NEW c \in Aliases, NEW m \in M
      PROVE <<v, c, m>> \in T <=> B[c] = <<v, m>>
  <2>1. <<v, c, m>> \in T <=> accountOf[c] = <<v, m>> /\ ~(v = u /\ c = a)
    BY <1>3
  <2>2. CASE c = a
    <3>1. B[c] = NoAlias /\ <<v, m>> \in Users \X M
      BY <1>3, <2>2
    <3>2. accountOf[c] = <<v, m>> => v = u
      BY <1>1, <2>2
    <3> QED BY <1>2, <2>1, <2>2, <3>1, <3>2
  <2>3. CASE c # a
    <3>1. B[c] = accountOf[c]
      BY <1>3, <2>3
    <3> QED BY <2>1, <2>3, <3>1
  <2> QED BY <2>2, <2>3
<1> HIDE DEF B, T
<1>7. SameStores(B, T, M)
  BY <1>3, <1>4, <1>5, <1>6 DEF SameStores
<1>8. OneMarked(T, TRUE)
  BY <1>4 DEF AliasesInv, OneMarked
<1>9. ASSUME NEW v \in Users PROVE Cardinality(Of(T, v)) <= MaxAliasCount
  <2>1. /\ Cardinality(Of(aliasesOf, v)) \in Nat /\ MaxAliasCount \in Nat
        /\ Cardinality(Of(aliasesOf, v)) <= MaxAliasCount /\ IsFiniteSet(Of(aliasesOf, v))
    BY <1>3, AliasFacts, OfFinite
  <2>2. Of(T, v) \subseteq Of(aliasesOf, v)
    BY <1>4 DEF Of
  <2>3. Cardinality(Of(T, v)) <= Cardinality(Of(aliasesOf, v)) /\ Cardinality(Of(T, v)) \in Nat
    BY <1>4, <2>1, <2>2, FS_Subset, OfFinite
  <2> QED BY <2>1, <2>3
<1> QED BY <1>1, <1>7, <1>8, <1>9, ZenonT(60) DEF AliasesInv, SameStores, OneMarked, Of, M

LEMMA AliasesStepInv ==
  AliasesInv /\ [ProfilesNext]_allVars => AliasesInv'
<1> SUFFICES ASSUME AliasesInv, [ProfilesNext]_allVars PROVE AliasesInv'
  OBVIOUS
<1>1. CASE UNCHANGED aliasVars
  BY <1>1 DEF aliasVars, AliasesInv, SameStores, OneMarked, Of
<1>2. CASE ProfileTransaction
  <2>1. ProfileUsers \subseteq Users
    BY ProfilesAssumption
  <2>2. ASSUME NEW u \in Users, NEW a \in Aliases, NEW b \in BOOLEAN, AddAlias(u, a, b)
        PROVE AliasesInv'
    BY <2>2, AddAliasInv
  <2>3. ASSUME NEW u \in Users, NEW a \in Aliases, RemoveAlias(u, a) PROVE AliasesInv'
    BY <2>3, RemoveAliasInv
  <2>4. ASSUME NEW u, \/ \E b \in BOOLEAN : SetMemoRequired(u, b)
                      \/ \E v \in Referees : SetReferee(u, v)
                      \/ \E c \in Comments : CommentToken(u, c)
        PROVE AliasesInv'
    BY <1>1, <2>4 DEF SetMemoRequired, SetReferee, CommentToken
  <2> QED BY <1>2, <2>1, <2>2, <2>3, <2>4 DEF ProfileTransaction
<1> QED BY <1>1, <1>2 DEF ProfilesNext, profileVars, allVars

LEMMA AliasesInvGives ==
  AliasesInv => AliasesConsistent
<1> SUFFICES ASSUME AliasesInv PROVE AliasesConsistent
  OBVIOUS
<1> DEFINE M == BOOLEAN
           on == TRUE
<1>0. /\ M = BOOLEAN /\ on \in M /\ NoAlias \notin Users \X M
      /\ SameStores(accountOf, aliasesOf, M) /\ OneMarked(aliasesOf, on)
  BY AliasFacts DEF AliasesInv
<1>1. \A u \in Users : {e \in Of(aliasesOf, u) : e[3]} = {e \in Of(aliasesOf, u) : e[3] = on}
  <2>1. \A e \in aliasesOf : e[3] <=> e[3] = TRUE
    BY AliasFacts
  <2>2. \A u \in Users : \A e \in Of(aliasesOf, u) : e \in aliasesOf
    BY DEF Of
  <2> QED BY <2>1, <2>2, Zenon
<1> HIDE DEF M, on
<1>2. /\ accountOf \in [Aliases -> (Users \X M) \cup {NoAlias}]
      /\ \A v \in Users, c \in Aliases, m \in M : <<v, c, m>> \in aliasesOf <=> accountOf[c] = <<v, m>>
      /\ \A e \in aliasesOf : e[1] \in Users /\ e[2] \in Aliases /\ e[3] \in M /\ e = <<e[1], e[2], e[3]>>
  BY <1>0, AliasShape DEF SameStores
<1>3. aliasesOf = {<<accountOf[a][1], a, accountOf[a][2]>> : a \in {b \in Aliases : accountOf[b] # NoAlias}}
  <2> DEFINE R == {<<accountOf[a][1], a, accountOf[a][2]>> : a \in {b \in Aliases : accountOf[b] # NoAlias}}
  <2>1. ASSUME NEW e \in aliasesOf PROVE e \in R
    <3>1. accountOf[e[2]] = <<e[1], e[3]>>
      BY <1>2
    <3>2. accountOf[e[2]] # NoAlias
      BY <1>0, <1>2, <3>1
    <3>3. e = <<accountOf[e[2]][1], e[2], accountOf[e[2]][2]>>
      BY <1>2, <3>1
    <3> QED BY <1>2, <3>2, <3>3
  <2>2. ASSUME NEW a \in Aliases, accountOf[a] # NoAlias
        PROVE <<accountOf[a][1], a, accountOf[a][2]>> \in aliasesOf
    <3>1. accountOf[a] \in Users \X M
      BY <1>2, <2>2
    <3>2. accountOf[a][1] \in Users /\ accountOf[a][2] \in M
          /\ accountOf[a] = <<accountOf[a][1], accountOf[a][2]>>
      BY <3>1
    <3> QED BY <1>2, <3>2
  <2> QED BY <2>1, <2>2
<1>4. ASSUME NEW u \in Users PROVE Cardinality({e \in Of(aliasesOf, u) : e[3] = on}) <= 1
  <2> DEFINE D == {e \in Of(aliasesOf, u) : e[3] = on}
  <2>1. \A e \in D : e \in aliasesOf /\ e[2] \in Aliases /\ e = <<u, e[2], on>>
    BY <1>2 DEF Of
  <2>2. \A e, f \in D : e = f
    BY <1>0, <2>1 DEF OneMarked
  <2> HIDE DEF D
  <2>3. D = {} \/ \E e : D = {e}
    BY <2>2
  <2>4. Cardinality(D) = 0 \/ Cardinality(D) = 1
    BY <2>3, FS_EmptySet, FS_Singleton
  <2> QED BY <2>4 DEF D
<1> QED BY <1>1, <1>3, <1>4, AliasFacts DEF AliasesConsistent

\* The two alias stores tell the same in every state, no account has two defaults or
\* too many aliases (alias keeper).
THEOREM AliasesAlwaysConsistent == ProfilesSpec => []AliasesConsistent
<1>1. ProfilesInit => AliasesInv
  <2> SUFFICES ASSUME ProfilesInit PROVE AliasesInv
    OBVIOUS
  <2>1. accountOf = [a \in Aliases |-> NoAlias] /\ aliasesOf = {}
    BY DEF ProfilesInit
  <2> DEFINE M == BOOLEAN
  <2>2. NoAlias \notin Users \X M /\ MaxAliasCount \in Nat
    BY ProfilesAssumption
  <2> HIDE DEF M
  <2>3. SameStores(accountOf, aliasesOf, M)
    BY <2>1, <2>2, FS_EmptySet DEF SameStores
  <2>4. \A u : Of(aliasesOf, u) = {}
    BY <2>1 DEF Of
  <2> QED BY <2>1, <2>2, <2>3, <2>4, FS_EmptySet DEF AliasesInv, OneMarked, M
<1>2. AliasesInv /\ [ProfilesNext]_allVars => AliasesInv'
  BY AliasesStepInv
<1>3. AliasesInv => AliasesConsistent
  BY AliasesInvGives
<1> QED BY <1>1, <1>2, <1>3, PTL DEF ProfilesSpec
=============================================================================
