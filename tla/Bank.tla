-------------------------------- MODULE Bank --------------------------------
(***************************************************************************)
(* The coin ledger of modules bankx and authx: the spendable coins that    *)
(* the auth account keeps, the frozen coins that the AccountX record keeps *)
(* beside it, and the coins moved to the fee collector.  Every operator    *)
(* maps a ledger to the ledger after the call; a call that returns an      *)
(* error leaves it as it was, as the keeper methods do.  bankx asks the    *)
(* asset module whether a sender is forbidden before it moves coins.       *)
(***************************************************************************)
EXTENDS Integers, Sums

CONSTANTS NumUsers,   \* the accounts are 1..NumUsers
          Denoms,     \* the token symbols
          CET,        \* the symbol fees are paid in
          OwnerOf,    \* [Denoms -> Users], the token's owner
          RefereeOf,  \* [Users -> Users \cup {0}]: 0 is "no referee"
          RebateRatio, RebateRatioBase  \* the share of a fee a referee gets

ASSUME BankAssumption ==
  /\ NumUsers \in Nat \ {0}
  /\ CET \in Denoms
  /\ OwnerOf \in [Denoms -> 1..NumUsers]
  /\ RefereeOf \in [1..NumUsers -> 0..NumUsers]
  /\ RebateRatio \in Nat /\ RebateRatioBase \in Nat \ {0}
  /\ RebateRatio <= RebateRatioBase

VARIABLES tokenForbidden,  \* tokens their owner has forbidden
          addrForbidden    \* pairs <<token, account>> an owner has forbidden

Users == 1..NumUsers

Ledger == [coins: [Users -> [Denoms -> Nat]],
           frozen: [Users -> [Denoms -> Nat]],
           collected: Nat]

\* asset.IsForbiddenByTokenIssuer, with an empty whitelist
IsForbidden(d, u) ==
  <<d, u>> \in addrForbidden \/ (d \in tokenForbidden /\ u # OwnerOf[d])

\* all coins of denom d there are
Total(b, d) ==
  SumTo([u \in Users |-> b.coins[u][d] + b.frozen[u][d]], NumUsers)
    + (IF d = CET THEN b.collected ELSE 0)

HasCoins(b, u, d, n) == b.coins[u][d] >= n

\* add n, which may be negative, to u's entry for d
Give(w, u, d, n) == [w EXCEPT ![u][d] = @ + n]

SendCoins_StaleReceiver(b, u, v, d, n) ==
  IF IsForbidden(d, u) \/ b.coins[u][d] < n THEN b
  ELSE [b EXCEPT !.coins = [Give(@, u, d, 0 - n) EXCEPT ![v][d] = b.coins[v][d] + n]]

\* bankx.Keeper.SendCoins; u and v may be the same account
SendCoins(b, u, v, d, n) ==
  IF IsForbidden(d, u) \/ b.coins[u][d] < n THEN b
  ELSE [b EXCEPT !.coins = Give(Give(@, u, d, 0 - n), v, d, n)]

\* bankx.Keeper.FreezeCoins
FreezeCoins(b, u, d, n) ==
  IF IsForbidden(d, u) \/ b.coins[u][d] < n THEN b
  ELSE [b EXCEPT !.coins = Give(@, u, d, 0 - n), !.frozen = Give(@, u, d, n)]

\* bankx.Keeper.UnFreezeCoins
UnFreezeCoins(b, u, d, n) ==
  IF b.frozen[u][d] < n THEN b
  ELSE [b EXCEPT !.frozen = Give(@, u, d, 0 - n), !.coins = Give(@, u, d, n)]

\* bankx.Keeper.DeductInt64CetFee: the fee collector is a module account
DeductFee(b, u, n) ==
  IF b.coins[u][CET] < n THEN b
  ELSE [b EXCEPT !.coins = Give(@, u, CET, 0 - n), !.collected = @ + n]

\* the part of a fee the payer's referee receives
RebateAmount(u, fee) ==
  IF RefereeOf[u] = 0 THEN 0 ELSE (fee * RebateRatio) \div RebateRatioBase

ChargeFee_NoRebatePaid(b, u, fee) == DeductFee(b, u, fee - RebateAmount(u, fee))

\* pay a fee of n CET: the rebate goes to the referee, the rest is collected
ChargeFee(b, u, fee) ==
  LET rebate == RebateAmount(u, fee)
      paid   == IF rebate > 0 THEN SendCoins(b, u, RefereeOf[u], CET, rebate) ELSE b
  IN  DeductFee(paid, u, fee - rebate)
=============================================================================
