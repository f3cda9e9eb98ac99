------------------------------ MODULE MCForbid ------------------------------
(* The owner of abc forbids the token and single accounts while orders rest   *)
(* in two markets of it; coins move between accounts meanwhile.               *)
EXTENDS MarketProperties

ForbidMarkets == [m \in Markets |-> IF m = "abc/usd" THEN [last |-> 2, pprec |-> 1, oprec |-> 1]
                                    ELSE NoMarket]
ForbidStock == [m \in Markets |-> "abc"]
ForbidMoney == [m \in Markets |-> IF m = "abc/cet" THEN "cet" ELSE "usd"]
ForbidOwner == [d \in Denoms |-> 1]
NoReferee == [u \in 1..NumUsers |-> 0]
ForbidCoins == [u \in 1..NumUsers |->
                  [d \in Denoms |-> IF d = "cet" THEN 2
                                    ELSE IF (d = "abc") = (u = 1) THEN 2 ELSE 0]]
=============================================================================
