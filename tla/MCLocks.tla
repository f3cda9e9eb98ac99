------------------------------ MODULE MCLocks ------------------------------
(* User 1 sends and locks coins of two tokens for user 2, whom he may have to   *)
(* make known first; user 3 supervises, and locks coins just like those of user *)
(* 1; user 4 is the incentive pool.                                             *)
EXTENDS WalletProperties

LocksToken(owner, supply) ==
  [owner |-> owner, supply |-> supply, mint |-> 0, burn |-> 0, sendLock |-> 0,
   mintable |-> FALSE, burnable |-> FALSE,
   addrForbiddable |-> FALSE, tokenForbiddable |-> FALSE, forbidden |-> FALSE]
LocksCoins == [u \in Users |-> [d \in Denoms |->
                 CASE u = 1 -> IF d = "cet" THEN 3 ELSE 2
                   [] u = 3 -> IF d = "cet" THEN 1 ELSE 2
                   [] u = 4 -> IF d = "cet" THEN 2 ELSE 0
                   [] OTHER -> 0]]
LocksTokens == [d \in Denoms |-> LocksToken(1, IF d = "cet" THEN 6 ELSE 4)]
LocksRequests ==
  {[from |-> 1, to |-> 2, supervisor |-> 3, denom |-> "abc", amount |-> 2, time |-> 2, reward |-> 1],
   [from |-> 1, to |-> 2, supervisor |-> 0, denom |-> "abc", amount |-> 1, time |-> 2, reward |-> 0],
   [from |-> 3, to |-> 2, supervisor |-> 3, denom |-> "abc", amount |-> 2, time |-> 2, reward |-> 1],
   [from |-> 1, to |-> 2, supervisor |-> 3, denom |-> "cet", amount |-> 1, time |-> 3, reward |-> 0]}
LocksSends ==
  {[from |-> 1, to |-> 2, denom |-> "cet", amount |-> 1, time |-> 0],
   [from |-> 1, to |-> 2, denom |-> "cet", amount |-> 2, time |-> 2],
   [from |-> 2, to |-> 2, denom |-> "abc", amount |-> 1, time |-> 2]}
LocksPlans == <<[start |-> 0, end |-> 1, reward |-> 1], [start |-> 0, end |-> 3, reward |-> 1]>>
=============================================================================
