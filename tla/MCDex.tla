------------------------------- MODULE MCDex -------------------------------
(* One pair with a market and a pool: the token's owner sells abc through both, *)
(* user 2, whose referee he is, buys and sells; one restart from an export.     *)
EXTENDS Dex

DexStock == [m \in Markets |-> "abc"]
DexMoney == [m \in Markets |-> "cet"]
DexMarkets == [m \in Markets |-> [last |-> 0, pprec |-> 1, oprec |-> 0]]
DexOwner == [d \in Denoms |-> 1]
DexReferee == [u \in 1..NumUsers |-> IF u = 2 THEN 1 ELSE 0]
DexCoins == [u \in 1..NumUsers |->
               [d \in Denoms |-> IF d = "cet" THEN (IF u = 1 THEN 4 ELSE 7)
                                 ELSE IF u = 1 THEN 4 ELSE 0]]
DexPair == [i \in 1..NumPairs |-> "abc/cet"]
\* row x, column k: the largest v with (v/TableMax)^ARSamples <= (k/samples)^x
DexTable ==
  [x \in 0..(MaxAR + ARSamples) |-> [k \in 0..SupplyRatioSamples |->
    IF x = 0 THEN TableMax
    ELSE CHOOSE v \in 0..TableMax :
           LET Under(w) == w^ARSamples * SupplyRatioSamples^x <= k^x * TableMax^ARSamples
           IN  Under(v) /\ (v = TableMax \/ ~Under(v + 1))]]
\* a line, and a power of the share sold with a price of 1/2 to start from
DexDesigns ==
  {[init |-> 0, max |-> 5, supply |-> 3, maxMoney |-> 0, step |-> 1],
   [init |-> 1, max |-> 6, supply |-> 3, maxMoney |-> 4, step |-> 1]}
=============================================================================
