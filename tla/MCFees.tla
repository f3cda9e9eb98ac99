------------------------------- MODULE MCFees -------------------------------
(* Market abc/usd, whose fees go by the price of cet/usd; user 2 refers user 1. *)
EXTENDS MarketProperties

FeesStock == [m \in Markets |-> IF m = "abc/usd" THEN "abc" ELSE "cet"]
FeesMoney == [m \in Markets |-> "usd"]
FeesMarkets == [m \in Markets |-> [last |-> IF m = "cet/usd" THEN 2 ELSE 0, pprec |-> 1, oprec |-> 1]]
FeesOwner == [d \in Denoms |-> 1]
FeesReferee == [u \in 1..NumUsers |-> IF u = 1 THEN 2 ELSE 0]
FeesCoins == [u \in 1..NumUsers |->
                [d \in Denoms |-> IF d = "cet" THEN 6 - u ELSE IF d = "abc" THEN 4 - 2 * u ELSE 4 * u - 4]]
=============================================================================
