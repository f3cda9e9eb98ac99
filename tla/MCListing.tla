------------------------------ MODULE MCListing ------------------------------
(* Two pairs of stock abc are listed, delisted and listed again over days;    *)
(* orders expire, one of them with a lifetime of 2^63-1 blocks (here 7).      *)
EXTENDS MarketProperties

ListingMarkets == [m \in Markets |-> IF m = "abc/cet" THEN [last |-> 0, pprec |-> 1, oprec |-> 1]
                                     ELSE NoMarket]
ListingStock == [m \in Markets |-> "abc"]
ListingMoney == [m \in Markets |-> IF m = "abc/cet" THEN "cet" ELSE "usd"]
ListingOwner == [d \in Denoms |-> 1]
NoReferee == [u \in 1..NumUsers |-> 0]
ListingCoins == [u \in 1..NumUsers |->
                   [d \in Denoms |-> IF d = "cet" THEN (IF u = 1 THEN 2 ELSE 7)
                                     ELSE IF d = "abc" /\ u = 1 THEN 2 ELSE 0]]
ASSUME LifetimesAssumption == LongLivesPricedOut
=============================================================================
