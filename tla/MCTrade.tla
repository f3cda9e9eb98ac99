------------------------------- MODULE MCTrade -------------------------------
(* One market abc/cet: three orders of two users deal, are cancelled, expire. *)
EXTENDS MarketProperties

TradeStock == [m \in Markets |-> "abc"]
TradeMoney == [m \in Markets |-> "cet"]
TradeMarkets == [m \in Markets |-> [last |-> 0, pprec |-> 1, oprec |-> 0]]
TradeOwner == [d \in Denoms |-> 1]
NoReferee  == [u \in 1..NumUsers |-> 0]
TradeCoins == [u \in 1..NumUsers |->
                 [d \in Denoms |-> IF u = 1 THEN (IF d = "abc" THEN 3 ELSE 2)
                                   ELSE (IF d = "abc" THEN 0 ELSE 6)]]
=============================================================================
