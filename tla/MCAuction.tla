------------------------------ MODULE MCAuction ------------------------------
(***************************************************************************)
(* Orders of one side at one price count by their sum alone, so that one   *)
(* bid and one ask at each of five prices stand for every book.            *)
(***************************************************************************)
EXTENDS Auction

AuctionSides == [i \in 1..10 |-> IF i <= 5 THEN "bid" ELSE "ask"]
AuctionLimits == [i \in 1..10 |-> IF i <= 5 THEN i ELSE i - 5]
=============================================================================
