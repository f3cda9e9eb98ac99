-------------------------- MODULE WalletProperties --------------------------
(* What tokens and wallets promise. *)
EXTENDS Wallets

LockTimes == UNION {{<<locked[u][k].time, u>> : k \in DOMAIN locked[u]} : u \in Users}

\* Between blocks the unlock queue has an entry for every time at which an account
\* has a locked coin, and no other: coins of one time are added and taken away one
\* by one, their entry is shared (bankx keeper.go:167, 174).  After an import the
\* coins from before it have none, but no entry is without a coin.
QueueExact ==
  phase # "unlock" =>
    /\ queue \subseteq LockTimes
    /\ imports = 0 => LockTimes \subseteq queue

\* No committed block leaves a coin locked whose time has come, although EndBlocker
\* looks at queue entries and not at coins (authx/endblocker.go:11-22).
ReleasedOnTime ==
  phase = "commit" /\ imports = 0 =>
    \A u \in Users : \A k \in DOMAIN locked[u] : locked[u][k].time > now

\* A token's sendLock is the sum of its locked coins: the decrement whose error
\* withdrawUnlockedCoins drops (authx/endblocker.go:53) never fails.
SendLockExact ==
  \A d \in Denoms : Exists(d) =>
    tokens[d].sendLock = SumTo([u \in Users |-> LockedAmount(u, d)], NumUsers)

Count(s, c) == Cardinality({k \in DOMAIN s : s[k] = c})

\* the locked coin c leaves u's list alone, and is paid to its sender or to u
PaidEarly(u, c) ==
  LET gain(x) == coins'[x][c.denom] - coins[x][c.denom]
      reward == IF c.supervisor = 0 THEN 0 ELSE c.reward
  IN  /\ Len(locked'[u]) = Len(locked[u]) - 1
      /\ \E v \in {u, c.from} \ {0} :
           \A x \in Users :
             gain(x) = (IF x = v THEN c.amount - reward ELSE 0)
                       + (IF x = c.supervisor THEN reward ELSE 0)

LeavesWhenDueOrPaid ==
  \A u \in Users : \A k \in DOMAIN locked[u] :
    LET c == locked[u][k]
    IN  Count(locked'[u], c) < Count(locked[u], c) =>
          (phase = "unlock" /\ IsDue(c)) \/ PaidEarly(u, c)

\* A coin that is not due leaves its account's list only alone, by an early unlock
\* of a supervised send: its sender gets it back, or its receiver gets it, less the
\* supervisor's reward (bankx keeper.go:117-170).
EarlyUnlockPays == [][LeavesWhenDueOrPaid]_walletVars

\* Every locked coin is unlocked, early or when its time comes within the bounds.
UnlockedInTime ==
  \A u \in Users, t \in 1..MaxHeight :
    <<t, u>> \in LockTimes /\ now >= t ~> <<t, u>> \notin LockTimes \/ imports > 0
-----------------------------------------------------------------------------
\* A token's supply is the sum of what all accounts have of it, spendable, frozen
\* and locked, and of what modules have: minting, burning, changing it and fees
\* write the token and the coins apart (asset keeper.go:148-198, 339-365).
SupplyExact ==
  \A d \in Denoms :
    SumTo([u \in Users |-> GetTotalCoins(u, d)], NumUsers) + (IF d = CET THEN collected ELSE 0)
      = IF Exists(d) THEN tokens[d].supply ELSE 0

\* Whatever an owner does to his token, it passes the Validate that a genesis file's
\* tokens must pass: the state can always be exported (token.go:151-184).
TokensValid ==
  \A d \in Denoms : Exists(d) =>
    LET t == tokens[d]
    IN  /\ t.supply > 0 /\ t.mint >= 0 /\ t.burn >= 0 /\ t.sendLock >= 0
        /\ t.forbidden => t.tokenForbiddable
        /\ t.mint > 0 => t.mintable
        /\ t.burn > 0 => t.burnable

\* what the holders of a token t rely on is so of s
Keeps(t, s) ==
  /\ s.mintable => t.mintable
  /\ t.burnable => s.burnable
  /\ s.addrForbiddable => t.addrForbiddable
  /\ s.tokenForbiddable => t.tokenForbiddable
  /\ s.supply > t.supply => t.mintable /\ s.mint - t.mint = s.supply - t.supply
  /\ s.supply < t.supply => t.burnable /\ s.burn - t.burn = t.supply - s.supply

DistributedKept ==
  \A d \in Denoms :
    Exists(d) /\ (\E v \in Users \ {tokens[d].owner} : GetTotalCoins(v, d) > 0) =>
      Keeps(tokens[d], tokens'[d])

\* Once somebody but its owner has some of a token, nothing of it changes that its
\* holders rely on: it cannot be made mintable or forbiddable nor stop to be
\* burnable, and its supply changes by minting and burning only (asset
\* keeper.go:327-410).
SealedAfterDistribution == [][DistributedKept]_walletVars

ForbiddenKept ==
  \A d \in Denoms \ {CET}, u \in Users :
    /\ Exists(d) /\ u # tokens[d].owner
    /\ <<d, u>> \in blacklist \/ (tokens[d].forbidden /\ <<d, u>> \notin whitelist)
    => /\ coins'[u][d] >= coins[u][d]
       /\ coins'[u][d] + frozen'[u][d] >= coins[u][d] + frozen[u][d]

\* The coins of an account its token's owner has forbidden stay where they are:
\* neither sent, nor given with others in a multi-send, locked, frozen or tipped.
\* Fees and donations in CET are excepted, and what an owner burns.
ForbiddenStay == [][ForbiddenKept]_walletVars
=============================================================================
