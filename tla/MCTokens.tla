------------------------------ MODULE MCTokens ------------------------------
(* User 1 owns CET, user 2 may issue abc; user 1 may come to hold abc, be *)
(* forbidden, and own it at last.                                         *)
EXTENDS Profiles

TokensTokens == [d \in Denoms |->
                   IF d # "cet" THEN NoToken
                   ELSE [owner |-> 1, supply |-> 3, mint |-> 0, burn |-> 0, sendLock |-> 0,
                         mintable |-> FALSE, burnable |-> FALSE, addrForbiddable |-> FALSE,
                         tokenForbiddable |-> FALSE, forbidden |-> FALSE]]
TokensCoins == [u \in Users |-> [d \in Denoms |-> IF d = "cet" THEN <<2, 1>>[u] ELSE 0]]
TokensFlags ==
  {[mintable |-> TRUE, burnable |-> b, addrForbiddable |-> b, tokenForbiddable |-> b] : b \in BOOLEAN}
TokensSends == {[from |-> 2, to |-> 1, denom |-> "abc", amount |-> 1, time |-> 0]}
TokensMultiSends ==
  {[ins |-> <<[user |-> 2, denom |-> "abc", amount |-> 1], [user |-> 1, denom |-> "abc", amount |-> 1]>>,
    outs |-> <<[user |-> 2, denom |-> "abc", amount |-> 2]>>]}
TokensFreezes == {[user |-> 1, denom |-> "abc", amount |-> 1]}
TokensPlans == <<>>
TokensComments ==
  {[token |-> "abc", donation |-> 0, reward |-> [token |-> "abc", amount |-> 1, target |-> 2]]}
=============================================================================
