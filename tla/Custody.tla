------------------------------- MODULE Custody -------------------------------
(***************************************************************************)
(* What the exchange promises about coins, with no market in it: every     *)
(* order is a box of its own.  Its owner puts coins in when it is opened;  *)
(* a deal takes coins out of two boxes and gives them to the owner of the  *)
(* other one; closing a box returns the rest, less a fee that the box      *)
(* itself covers.  The code keeps no boxes: it adds all frozen coins of an *)
(* account into one number and trusts that nobody takes more than his own. *)
(***************************************************************************)
EXTENDS Integers

CONSTANTS Users, Denoms, CET, Slots, Coins

VARIABLES wallet,  \* [Users -> [Denoms -> Nat]], what a user may spend
          owner,   \* [Slots -> Users \cup {0}], 0 for no box
          held,    \* [Slots -> [Denoms -> Nat]], what a box holds
          pool     \* the fees collected

vars == <<wallet, owner, held, pool>>

Empty == [d \in Denoms |-> 0]

Give(w, u, d, n) == [w EXCEPT ![u][d] = @ + n]

Open(s, u) ==
  /\ owner[s] = 0
  /\ owner' = [owner EXCEPT ![s] = u]
  /\ \A d \in Denoms : held'[s][d] \in 0..wallet[u][d]
  /\ held' = [held EXCEPT ![s] = held'[s]]
  /\ wallet' = [wallet EXCEPT ![u] = [d \in Denoms |-> @[d] - held'[s][d]]]
  /\ UNCHANGED pool

\* box a gives n of one denom for x of another one from box b
Swap(a, b, d, e, n, x) ==
  /\ a # b /\ d # e
  /\ owner[a] # 0 /\ owner[b] # 0
  /\ held' = [held EXCEPT ![a][d] = @ - n, ![b][e] = @ - x]
  /\ wallet' = Give(Give(wallet, owner[b], d, n), owner[a], e, x)
  /\ UNCHANGED <<owner, pool>>

\* of the fee, pool gets its share and v gets r
Close(s, v, r) ==
  LET u == owner[s]
      share == pool' - pool
      returned == [wallet EXCEPT ![u] = [d \in Denoms |-> @[d] + held[s][d]]]
  IN  /\ u # 0
      /\ share >= 0 /\ share + r <= held[s][CET]
      /\ wallet' = Give(Give(returned, u, CET, 0 - (share + r)), v, CET, r)
      /\ owner' = [owner EXCEPT ![s] = 0]
      /\ held' = [held EXCEPT ![s] = Empty]

Pay(u, n) ==
  /\ pool' = pool + n
  /\ wallet' = Give(wallet, u, CET, 0 - n)
  /\ UNCHANGED <<owner, held>>

Transfer(u, v, d, n) ==
  /\ wallet' = Give(Give(wallet, u, d, 0 - n), v, d, n)
  /\ UNCHANGED <<owner, held, pool>>

Init ==
  /\ wallet = Coins /\ pool = 0
  /\ owner = [s \in Slots |-> 0] /\ held = [s \in Slots |-> Empty]

Next ==
  \/ \E s \in Slots, u \in Users : Open(s, u)
  \/ \E a, b \in Slots, d, e \in Denoms :
       \E n \in 0..held[a][d], x \in 0..held[b][e] : Swap(a, b, d, e, n, x)
  \/ \E s \in Slots, v \in Users : \E r \in 0..held[s][CET] : Close(s, v, r)
  \/ \E u \in Users : \E n \in 0..wallet[u][CET] : Pay(u, n)
  \/ \E u, v \in Users, d \in Denoms : \E n \in 0..wallet[u][d] : Transfer(u, v, d, n)

Spec == Init /\ [][Next]_vars
=============================================================================
