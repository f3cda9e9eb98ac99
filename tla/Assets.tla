------------------------------- MODULE Assets -------------------------------
(***************************************************************************)
(* The tokens of module asset and the coins they count.  A token's record  *)
(* keeps figures that other modules make true or false: the total supply   *)
(* is the sum of every account's coins, sendLock the sum of the locked     *)
(* ones.  What the owner may change is sealed once he no longer holds the  *)
(* whole supply himself.                                                   *)
(*                                                                         *)
(* Module Bank is the ledger the exchange works on; here are the same      *)
(* coins with those locked until a time, and tokens that change.           *)
(***************************************************************************)
EXTENDS Integers, SequencesExt, Sums

CONSTANTS
  NumUsers, Denoms, CET,
  NoToken,          \* absent from the store
  InitTokens,       \* [Denoms -> Token \cup {NoToken}]
  InitCoins,        \* [Users -> [Denoms -> Nat]]
  ReservedSymbols,  \* symbols only the owner of CET may issue
  IssueFee,
  IssueAmounts, MintAmounts,    \* inputs
  TokenFlags, NewSupplies,      \* inputs: what tokens are issued with and changed to
  NewOwners, Listed,            \* inputs: who tokens are handed to, and who is listed
  MaxSupply                     \* bound on what a token counts

Users == 1..NumUsers

Token == [owner: Users, supply: Nat \ {0}, mint: Nat, burn: Nat, sendLock: Nat,
          mintable: BOOLEAN, burnable: BOOLEAN,
          addrForbiddable: BOOLEAN, tokenForbiddable: BOOLEAN, forbidden: BOOLEAN]

Flags == [mintable: BOOLEAN, burnable: BOOLEAN,
          addrForbiddable: BOOLEAN, tokenForbiddable: BOOLEAN]

LockedCoin == [denom: Denoms, amount: Nat \ {0}, time: Nat,
               from: Users \cup {0}, supervisor: Users \cup {0}, reward: Nat]

ASSUME AssetsAssumption ==
  /\ NumUsers \in Nat \ {0} /\ CET \in Denoms /\ NoToken \notin Token
  /\ InitTokens \in [Denoms -> Token \cup {NoToken}] /\ InitTokens[CET] # NoToken
  /\ InitCoins \in [Users -> [Denoms -> Nat]]
  /\ ReservedSymbols \subseteq Denoms /\ IssueFee \in Nat
  /\ IssueAmounts \subseteq Nat \ {0} /\ MintAmounts \subseteq Nat \ {0}
  /\ TokenFlags \subseteq Flags /\ NewSupplies \subseteq Nat \ {0}
  /\ NewOwners \subseteq Users /\ Listed \subseteq Users /\ MaxSupply \in Nat

\* The chain begins with coins whose tokens count them, and have none locked.
ASSUME GenesisAssumption ==
  \A d \in Denoms :
    LET t == InitTokens[d]
    IN  /\ SumTo([u \in Users |-> InitCoins[u][d]], NumUsers)
             = IF t = NoToken THEN 0 ELSE t.supply
        /\ t # NoToken => /\ t.sendLock = 0
                          /\ t.forbidden => t.tokenForbiddable
                          /\ t.mint > 0 => t.mintable
                          /\ t.burn > 0 => t.burnable

VARIABLES
  tokens,      \* [Denoms -> Token \cup {NoToken}]
  whitelist,   \* pairs <<denom, user>>
  blacklist,   \* pairs <<denom, user>>: the forbidden addresses
  coins,       \* [Users -> [Denoms -> Nat]], spendable
  frozen,      \* [Users -> [Denoms -> Nat]]
  locked,      \* [Users -> Seq(LockedCoin)]
  collected,   \* CET of the module accounts: fee collector, community pool
  accounts     \* users with an auth account

listVars == <<whitelist, blacklist>>
holdVars == <<frozen, locked, accounts>>
assetVars == <<tokens, listVars, coins, collected, holdVars>>
-----------------------------------------------------------------------------
Exists(d) == tokens[d] # NoToken
IsTokenIssuer(d, u) == Exists(d) /\ tokens[d].owner = u

\* IsForbiddenByTokenIssuer: the whitelist does not help a forbidden address, nor
\* does owning the token
IsForbidden(d, u) ==
  \/ ~Exists(d)
  \/ <<d, u>> \in blacklist
  \/ tokens[d].forbidden /\ <<d, u>> \notin whitelist /\ tokens[d].owner # u

Credit(w, u, d, n) == [w EXCEPT ![u][d] = @ + n]
Debit(w, u, d, n) == [w EXCEPT ![u][d] = @ - n]

HasCoins(u, d, n) == u \in accounts /\ coins[u][d] >= n

LockedAmount(u, d) ==
  SumTo([k \in DOMAIN locked[u] |->
           IF locked[u][k].denom = d THEN locked[u][k].amount ELSE 0], Len(locked[u]))

\* GetTotalCoins: spendable, frozen and locked
GetTotalCoins(u, d) == coins[u][d] + frozen[u][d] + LockedAmount(u, d)

UpdateSendLock_LocksOnly(t, d, n) == IF n < 0 THEN t ELSE [t EXCEPT ![d].sendLock = @ + n]

\* UpdateTokenSendLock; n is negative to unlock
UpdateSendLock(t, d, n) == [t EXCEPT ![d].sendLock = @ + n]
-----------------------------------------------------------------------------
(* Transactions of a token's owner; one that fails is rolled back. *)

NewToken(u, n, f) ==
  [owner |-> u, supply |-> n, mint |-> 0, burn |-> 0, sendLock |-> 0,
   mintable |-> f.mintable, burnable |-> f.burnable,
   addrForbiddable |-> f.addrForbiddable, tokenForbiddable |-> f.tokenForbiddable,
   forbidden |-> FALSE]

\* handleMsgIssueToken; the code's fee depends on the symbol's length
IssueToken(u, d, n, f) ==
  /\ ~Exists(d) /\ HasCoins(u, CET, IssueFee)
  /\ d \in ReservedSymbols => IsTokenIssuer(CET, u)
  /\ tokens' = [tokens EXCEPT ![d] = NewToken(u, n, f)]
  /\ coins' = Credit(Debit(coins, u, CET, IssueFee), u, d, n)
  /\ collected' = collected + IssueFee
  /\ UNCHANGED <<listVars, holdVars>>

\* the new owner may be on the token's lists, or have no account
TransferOwnership(u, d, v) ==
  /\ IsTokenIssuer(d, u) /\ u # v
  /\ tokens' = [tokens EXCEPT ![d].owner = v]
  /\ UNCHANGED <<listVars, coins, collected, holdVars>>

MintToken(u, d, n) ==
  /\ IsTokenIssuer(d, u) /\ tokens[d].mintable
  /\ tokens' = [tokens EXCEPT ![d].mint = @ + n, ![d].supply = @ + n]
  /\ coins' = Credit(coins, u, d, n)
  /\ UNCHANGED <<listVars, collected, holdVars>>

BurnToken_SupplyKept(u, d, n) ==
  /\ IsTokenIssuer(d, u) /\ tokens[d].burnable
  /\ HasCoins(u, d, n) /\ tokens[d].supply - n > 0
  /\ tokens' = [tokens EXCEPT ![d].burn = @ + n]
  /\ coins' = Debit(coins, u, d, n)
  /\ UNCHANGED <<listVars, collected, holdVars>>

\* the last coin cannot be burnt: SetTotalSupply wants a positive number
BurnToken(u, d, n) ==
  /\ IsTokenIssuer(d, u) /\ tokens[d].burnable
  /\ HasCoins(u, d, n) /\ tokens[d].supply - n > 0
  /\ tokens' = [tokens EXCEPT ![d].burn = @ + n, ![d].supply = @ - n]
  /\ coins' = Debit(coins, u, d, n)
  /\ UNCHANGED <<listVars, collected, holdVars>>

\* ForbidToken and UnForbidToken: the state must change
SetForbidden(u, d, b) ==
  /\ IsTokenIssuer(d, u) /\ tokens[d].tokenForbiddable
  /\ tokens[d].forbidden # b
  /\ tokens' = [tokens EXCEPT ![d].forbidden = b]
  /\ UNCHANGED <<listVars, coins, collected, holdVars>>

\* AddTokenWhitelist and RemoveTokenWhitelist; the owner may list himself
SetWhitelisted(u, d, v, b) ==
  /\ IsTokenIssuer(d, u) /\ tokens[d].tokenForbiddable
  /\ whitelist' = IF b THEN whitelist \cup {<<d, v>>} ELSE whitelist \ {<<d, v>>}
  /\ UNCHANGED <<tokens, blacklist, coins, collected, holdVars>>

\* ForbidAddress, for another address than one's own, and UnForbidAddress
SetAddrForbidden(u, d, v, b) ==
  /\ IsTokenIssuer(d, u) /\ tokens[d].addrForbiddable
  /\ b => u # v
  /\ blacklist' = IF b THEN blacklist \cup {<<d, v>>} ELSE blacklist \ {<<d, v>>}
  /\ UNCHANGED <<tokens, whitelist, coins, collected, holdVars>>

\* what ModifyTokenInfo makes of a token's record: a switch that is turned off
\* takes what was counted or forbidden under it with it
Modified_TotalsKept(t, n, f) ==
  [t EXCEPT !.supply = n, !.mintable = f.mintable, !.burnable = f.burnable,
            !.addrForbiddable = f.addrForbiddable, !.tokenForbiddable = f.tokenForbiddable,
            !.forbidden = @ /\ ~(t.tokenForbiddable /\ ~f.tokenForbiddable)]

Modified(t, n, f) ==
  [t EXCEPT !.supply = n, !.mintable = f.mintable, !.burnable = f.burnable,
            !.addrForbiddable = f.addrForbiddable, !.tokenForbiddable = f.tokenForbiddable,
            !.mint = IF t.mintable /\ ~f.mintable THEN 0 ELSE @,
            !.burn = IF t.burnable /\ ~f.burnable THEN 0 ELSE @,
            !.forbidden = @ /\ ~(t.tokenForbiddable /\ ~f.tokenForbiddable)]

Distributed_SendLockOnly(u, d) == tokens[d].sendLock > 0 \/ GetTotalCoins(u, d) = 0

\* the owner does not hold the whole supply
Distributed(u, d) == GetTotalCoins(u, d) # tokens[d].supply

\* n and f are the whole of what the token shall be; the message may leave any of
\* it as it is.  A supply that is changed becomes what the owner holds: coins are
\* minted to him, or burnt from his spendable ones.
ModifyTokenInfo(u, d, n, f) ==
  LET t == tokens[d]
      ownerAmt == GetTotalCoins(u, d)
  IN  /\ IsTokenIssuer(d, u)
      /\ Distributed(u, d) =>
           /\ n = t.supply
           /\ f.mintable => t.mintable
           /\ t.burnable => f.burnable
           /\ f.addrForbiddable => t.addrForbiddable
           /\ f.tokenForbiddable => t.tokenForbiddable
      /\ n # t.supply => coins[u][d] >= ownerAmt - n
      /\ tokens' = [tokens EXCEPT ![d] = Modified(t, n, f)]
      /\ coins' = IF n = t.supply THEN coins ELSE Credit(coins, u, d, n - ownerAmt)
      /\ blacklist' = IF t.addrForbiddable /\ ~f.addrForbiddable
                      THEN {e \in blacklist : e[1] # d} ELSE blacklist
      /\ UNCHANGED <<whitelist, collected, holdVars>>

AssetTransaction(u) ==
  \E d \in Denoms :
    \/ \E n \in IssueAmounts, f \in TokenFlags : IssueToken(u, d, n, f)
    \/ \E v \in NewOwners : TransferOwnership(u, d, v)
    \/ /\ Exists(d)
       /\ \E n \in MintAmounts :
            \/ Max({tokens[d].supply, tokens[d].mint}) + n <= MaxSupply /\ MintToken(u, d, n)
            \/ tokens[d].burn + n <= MaxSupply /\ BurnToken(u, d, n)
    \/ \E b \in BOOLEAN : SetForbidden(u, d, b)
    \/ \E v \in Listed, b \in BOOLEAN : SetWhitelisted(u, d, v, b) \/ SetAddrForbidden(u, d, v, b)
    \/ /\ Exists(d)
       /\ \E n \in NewSupplies \cup {tokens[d].supply}, f \in TokenFlags :
            ModifyTokenInfo(u, d, n, f)
=============================================================================
