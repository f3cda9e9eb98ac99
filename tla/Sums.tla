-------------------------------- MODULE Sums --------------------------------
(***************************************************************************)
(* Finite sums over an initial segment of the naturals.  Accounts and      *)
(* order slots are numbered, so that a total of a ledger column or of the  *)
(* escrow of all orders is a sum of this form.  A recursive function, not  *)
(* a RECURSIVE operator, so that module SumLemmas can prove facts of it.   *)
(***************************************************************************)
EXTENDS Integers

\* f[1] + ... + f[n]
SumTo(f, n) ==
  LET sum[i \in 0..n] == IF i = 0 THEN 0 ELSE sum[i-1] + f[i]
  IN  sum[n]
=============================================================================
