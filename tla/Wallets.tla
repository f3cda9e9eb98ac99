------------------------------ MODULE Wallets ------------------------------
(***************************************************************************)
(* What accounts do with their coins: the messages of bankx, the unlocking *)
(* of locked coins by authx's EndBlocker, the block reward of incentive,   *)
(* a comment's donation and reward, and the restart of the chain from an   *)
(* exported state.  A locked coin is in two places: in its owner's list,   *)
(* with its time, and as an entry <<time, owner>> of the unlock queue, one *)
(* for all his coins of that time.                                         *)
(***************************************************************************)
EXTENDS Assets

CONSTANTS
  PoolAccount,      \* the incentive pool's account, which signs nothing; 0 is none
  Plans, DefaultReward, HeightAdjustment,
  ActivationFee, LockCoinsFreeTime, LockCoinsFeePerDay, DayLen,
  Sends, Supervised, MultiSends, Freezes, Donations,  \* inputs
  MaxLocks, MaxHeight, MaxTimeGap, MaxImports    \* bounds

\* MsgSend, where time 0 means at once, and MsgSupervisedSend
SendMsg == [from: Users, to: Users, denom: Denoms, amount: Nat \ {0}, time: Nat]
SupervisedMsg == [from: Users, to: Users, supervisor: Users \cup {0}, denom: Denoms,
                  amount: Nat \ {0}, time: Nat \ {0}, reward: Nat]

\* inputs and outputs of MsgMultiSend
Entries == Seq([user: Users, denom: Denoms, amount: Nat \ {0}])

EntriesTotal(entries, d) ==
  SumTo([k \in DOMAIN entries |-> IF entries[k].denom = d THEN entries[k].amount ELSE 0],
        Len(entries))

\* ValidateInputsOutputs
InputsMatchOutputs(m) == \A d \in Denoms : EntriesTotal(m.ins, d) = EntriesTotal(m.outs, d)

ASSUME WalletsAssumption ==
  /\ PoolAccount \in Users \cup {0}
  /\ Plans \in Seq([start: Nat, end: Nat, reward: Nat])
  /\ DefaultReward \in Nat /\ HeightAdjustment \in Nat
  /\ ActivationFee \in Nat /\ LockCoinsFreeTime \in Nat /\ LockCoinsFeePerDay \in Nat
  /\ DayLen \in Nat \ {0}
  /\ Sends \subseteq SendMsg
  /\ Supervised \subseteq SupervisedMsg /\ \A r \in Supervised : r.reward <= r.amount
  /\ \A m \in MultiSends : m.ins \in Entries /\ m.outs \in Entries /\ InputsMatchOutputs(m)
  /\ \A f \in Freezes : f.user \in Users /\ f.denom \in Denoms /\ f.amount \in Nat \ {0}
  /\ Donations \subseteq Nat
  /\ MaxLocks \in Nat /\ MaxHeight \in Nat /\ MaxTimeGap \in Nat /\ MaxImports \in Nat

VARIABLES
  queue,     \* unlock queue: pairs <<time, user>>
  due,       \* the entries EndBlocker still has to visit
  now, height, phase, imports

blockVars == <<due, now, height, phase, imports>>
walletVars == <<assetVars, queue, blockVars>>

Signers == accounts \ {PoolAccount}

\* SendCoins's checks and effect, for a transfer that must succeed
CanSend(u, d, n) == ~IsForbidden(d, u) /\ HasCoins(u, d, n)
-----------------------------------------------------------------------------
(* Sends *)

LockFee(t) ==
  LET over == t - now - LockCoinsFreeTime
  IN  IF over > 0 /\ LockCoinsFeePerDay > 0
      THEN LockCoinsFeePerDay * ((over - 1) \div DayLen + 1) ELSE 0

\* the fee, which is CET, is taken first; w is what is left of the coins by then
SendLockedCoins(w, u, v, coin, fee) ==
  /\ ~IsForbidden(coin.denom, u)
  /\ w[u][CET] >= fee
  /\ Debit(w, u, CET, fee)[u][coin.denom] >= coin.amount
  /\ coins' = Debit(Debit(w, u, CET, fee), u, coin.denom, coin.amount)
  /\ locked' = [locked EXCEPT ![v] = Append(@, coin)]
  /\ tokens' = UpdateSendLock(tokens, coin.denom, coin.amount)
  /\ queue' = queue \cup {<<coin.time, v>>}

\* handleMsgSend: the fee that opens v's account comes out of the amount, and
\* nothing may be left of it
Send(u, v, d, n, t) ==
  LET fee == IF v \in accounts THEN 0 ELSE ActivationFee
      left == IF d = CET THEN n - fee ELSE n
      w == Debit(coins, u, CET, fee)
      lockFee == LockFee(t)
  IN  /\ CanSend(u, d, n)
      /\ fee > 0 => d = CET /\ n >= fee
      /\ accounts' = accounts \cup {v}
      /\ IF t = 0
         THEN /\ coins' = Credit(Debit(w, u, d, left), v, d, left)
              /\ collected' = collected + fee
              /\ UNCHANGED <<tokens, locked, queue>>
         ELSE /\ t >= now
              /\ collected' = collected + fee + lockFee
              /\ IF left = 0
                 THEN w[u][CET] >= lockFee /\ coins' = Debit(w, u, CET, lockFee)
                      /\ UNCHANGED <<tokens, locked, queue>>
                 ELSE Len(locked[v]) < MaxLocks /\
                      SendLockedCoins(w, u, v, [denom |-> d, amount |-> left, time |-> t,
                                      from |-> 0, supervisor |-> 0, reward |-> 0], lockFee)
      /\ UNCHANGED <<listVars, frozen>>

\* what entries, a sequence of [user, denom, amount], move for u in d
Moved(entries, u, d) ==
  SumTo([k \in DOMAIN entries |->
           IF entries[k].user = u /\ entries[k].denom = d THEN entries[k].amount ELSE 0],
        Len(entries))

UsersOf(entries) == {entries[k].user : k \in DOMAIN entries}

InputsAllowed_OnlyFirst(ins) == ~IsForbidden(ins[1].denom, ins[1].user)

InputsAllowed(ins) == \A k \in DOMAIN ins : ~IsForbidden(ins[k].denom, ins[k].user)

\* handleMsgMultiSend: every input is signed.  Here the new accounts pay their
\* opening themselves, from what they have received.
MultiSend(ins, outs) ==
  LET fresh == UsersOf(outs) \ accounts
      fee(u, d) == IF u \in fresh /\ d = CET THEN ActivationFee ELSE 0
      after(u, d) == coins[u][d] - Moved(ins, u, d) + Moved(outs, u, d) - fee(u, d)
  IN  /\ UsersOf(ins) \subseteq Signers
      /\ InputsAllowed(ins)
      /\ \A u \in Users, d \in Denoms : coins[u][d] >= Moved(ins, u, d) /\ after(u, d) >= 0
      /\ coins' = [u \in Users |-> [d \in Denoms |-> after(u, d)]]
      /\ collected' = collected + ActivationFee * Cardinality(fresh)
      /\ accounts' = accounts \cup fresh
      /\ UNCHANGED <<tokens, listVars, frozen, locked, queue>>

AsLocked(r) == [denom |-> r.denom, amount |-> r.amount, time |-> r.time,
                from |-> r.from, supervisor |-> r.supervisor, reward |-> r.reward]

\* handleMsgSupervisedSend, Create
SupervisedSend(r) ==
  /\ r.to \in accounts /\ r.supervisor \in accounts \cup {0} /\ r.time >= now
  /\ Exists(r.denom) /\ HasCoins(r.from, r.denom, r.amount)
  /\ Len(locked[r.to]) < MaxLocks
  /\ SendLockedCoins(coins, r.from, r.to, AsLocked(r), LockFee(r.time))
  /\ collected' = collected + LockFee(r.time)
  /\ UNCHANGED <<listVars, frozen, accounts>>

EntryAfter_Always(v, i) == queue \ {<<locked[v][i].time, v>>}

\* the queue's entry goes with the last coin of its time
EntryAfter(v, i) ==
  IF \E j \in DOMAIN locked[v] \ {i} : locked[v][j].time = locked[v][i].time
  THEN queue ELSE queue \ {<<locked[v][i].time, v>>}

Found_AnySender(r) ==
  {i \in DOMAIN locked[r.to] : [locked[r.to][i] EXCEPT !.from = r.from] = AsLocked(r)}

\* LockedCoin.IsEqual: the coin that r has locked
Found(r) == {i \in DOMAIN locked[r.to] : locked[r.to][i] = AsLocked(r)}

\* EarlierUnlockCoin takes the first coin found.  Comparing it with one of another
\* denomination panics, which fails the transaction; coins of other times are not
\* compared.
EarlierUnlock(r, isReturned) ==
  LET i == CHOOSE k \in Found(r) : \A j \in Found(r) : k <= j
      receiver == IF isReturned THEN r.from ELSE r.to
      reward == IF r.supervisor = 0 THEN 0 ELSE r.reward
      paid == Credit(coins, receiver, r.denom, r.amount - reward)
  IN  /\ r.to \in accounts /\ r.supervisor \in accounts \cup {0} /\ r.time >= now
      /\ Found(r) # {}
      /\ \A j \in 1..(i - 1) : locked[r.to][j].time = r.time => locked[r.to][j].denom = r.denom
      /\ coins' = IF reward > 0 THEN Credit(paid, r.supervisor, r.denom, reward) ELSE paid
      /\ locked' = [locked EXCEPT ![r.to] = RemoveAt(@, i)]
      /\ tokens' = UpdateSendLock(tokens, r.denom, 0 - r.amount)
      /\ queue' = EntryAfter(r.to, i)
      /\ UNCHANGED <<listVars, frozen, collected, accounts>>

\* a return, and an unlocking by the supervisor, are signed by him
EarlyUnlock(r) ==
  \/ r.supervisor \in Signers /\ \E isReturned \in BOOLEAN : EarlierUnlock(r, isReturned)
  \/ r.from \in Signers /\ EarlierUnlock(r, FALSE)

\* FreezeCoins and UnFreezeCoins, as the orders and pools of an account call them
Freeze(u, d, n) ==
  /\ CanSend(u, d, n)
  /\ coins' = Debit(coins, u, d, n) /\ frozen' = Credit(frozen, u, d, n)
  /\ UNCHANGED <<tokens, listVars, locked, collected, accounts, queue>>

UnFreeze(u, d, n) ==
  /\ frozen[u][d] >= n
  /\ frozen' = Debit(frozen, u, d, n) /\ coins' = Credit(coins, u, d, n)
  /\ UNCHANGED <<tokens, listVars, locked, collected, accounts, queue>>

\* DonateToCommunityPool; whether CET is forbidden is not asked
Donate(u, n) ==
  /\ n > 0 /\ HasCoins(u, CET, n)
  /\ coins' = Debit(coins, u, CET, n) /\ collected' = collected + n
  /\ UNCHANGED <<tokens, listVars, frozen, locked, accounts, queue>>

BankTransaction ==
  \/ \E m \in Sends : m.from \in Signers /\ Send(m.from, m.to, m.denom, m.amount, m.time)
  \/ \E m \in MultiSends : MultiSend(m.ins, m.outs)
  \/ \E r \in Supervised : (r.from \in Signers /\ SupervisedSend(r)) \/ EarlyUnlock(r)
  \/ \E f \in Freezes : f.user \in Signers /\ (Freeze(f.user, f.denom, f.amount)
                                              \/ UnFreeze(f.user, f.denom, f.amount))
  \/ \E u \in Signers, n \in Donations : Donate(u, n)
-----------------------------------------------------------------------------
(* Blocks *)

\* calcRewards: plans may overlap
BlockReward(h) ==
  LET at == h + HeightAdjustment
      running == {k \in DOMAIN Plans : Plans[k].start < at /\ at <= Plans[k].end}
  IN  IF running = {} THEN DefaultReward
      ELSE SumTo([k \in DOMAIN Plans |-> IF k \in running THEN Plans[k].reward ELSE 0], Len(Plans))

\* a block's transactions follow incentive's BeginBlocker
BeginBlock ==
  /\ phase = "commit" /\ height < MaxHeight
  /\ height' = height + 1
  /\ \E gap \in 0..MaxTimeGap : now' = now + gap
  /\ LET reward == BlockReward(height + 1)
     IN  IF PoolAccount # 0 /\ HasCoins(PoolAccount, CET, reward)
         THEN coins' = Debit(coins, PoolAccount, CET, reward) /\ collected' = collected + reward
         ELSE UNCHANGED <<coins, collected>>
  /\ phase' = "deliver"
  /\ UNCHANGED <<tokens, listVars, holdVars, queue, due, imports>>

\* EndBlocker's iterator runs over the entries whose time has come
EndBlocker ==
  /\ phase = "deliver"
  /\ due' = {e \in queue : e[1] <= now}
  /\ phase' = "unlock"
  /\ UNCHANGED <<assetVars, queue, now, height, imports>>

IsDue_Later(coin) == coin.time < now

IsDue(coin) == coin.time <= now

UnlockedAmount(u, d) ==
  SumTo([k \in DOMAIN locked[u] |->
           IF IsDue(locked[u][k]) /\ locked[u][k].denom = d THEN locked[u][k].amount ELSE 0],
        Len(locked[u]))

\* the coins of a list that are not due, in their order
StillLocked(s) ==
  LET kept[i \in 0..Len(s)] ==
        IF i = 0 THEN <<>>
        ELSE IF IsDue(s[i]) THEN kept[i - 1] ELSE Append(kept[i - 1], s[i])
  IN  kept[Len(s)]

\* one entry: all coins of the account that are due, those of other entries too
WithdrawUnlocked(e) ==
  LET u == e[2]
  IN  /\ phase = "unlock" /\ e \in due
      /\ \A f \in due : e[1] <= f[1]
      /\ coins' = [coins EXCEPT ![u] = [d \in Denoms |-> @[d] + UnlockedAmount(u, d)]]
      /\ tokens' = [d \in Denoms |->
                       IF Exists(d) /\ tokens[d].sendLock >= UnlockedAmount(u, d)
                       THEN [tokens[d] EXCEPT !.sendLock = @ - UnlockedAmount(u, d)]
                       ELSE tokens[d]]
      /\ locked' = [locked EXCEPT ![u] = StillLocked(@)]
      /\ queue' = queue \ {e} /\ due' = due \ {e}
      /\ UNCHANGED <<listVars, frozen, collected, accounts, now, height, phase, imports>>

Commit ==
  /\ phase = "unlock" /\ due = {}
  /\ phase' = "commit"
  /\ UNCHANGED <<assetVars, queue, due, now, height, imports>>

\* ExportGenesis, InitGenesis: the queue is in neither.  An owner on a list of his
\* token stops the import.
Restart ==
  /\ phase = "commit" /\ imports < MaxImports
  /\ \A d \in Denoms : Exists(d) => <<d, tokens[d].owner>> \notin whitelist \cup blacklist
  /\ imports' = imports + 1
  /\ queue' = {} /\ height' = 0
  /\ UNCHANGED <<assetVars, due, now, phase>>
-----------------------------------------------------------------------------
WalletsInit ==
  /\ tokens = InitTokens /\ whitelist = {} /\ blacklist = {}
  /\ coins = InitCoins /\ frozen = [u \in Users |-> [d \in Denoms |-> 0]]
  /\ locked = [u \in Users |-> <<>>] /\ collected = 0
  /\ accounts = {u \in Users : \E d \in Denoms : InitCoins[u][d] > 0}
  /\ queue = {} /\ due = {} /\ now = 0 /\ height = 0 /\ phase = "commit" /\ imports = 0

WalletTransaction ==
  /\ phase = "deliver"
  /\ \/ BankTransaction
     \/ (\E u \in Signers : AssetTransaction(u)) /\ UNCHANGED queue
  /\ UNCHANGED blockVars

BlockStep == BeginBlock \/ EndBlocker \/ (\E e \in due : WithdrawUnlocked(e)) \/ Commit

\* the bound ends the chain
Full == phase = "commit" /\ height = MaxHeight /\ UNCHANGED walletVars

WalletsNext == WalletTransaction \/ BlockStep \/ Restart \/ Full

\* consensus goes on: a block's transactions end, its EndBlocker runs to the commit,
\* and there is a next block
WalletsSpec == WalletsInit /\ [][WalletsNext]_walletVars /\ WF_walletVars(BlockStep)
=============================================================================
