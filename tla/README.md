# A TLA+ verification of cet-sdk

cet-sdk is the module library of the CoinEx chain, an exchange chain on the
Cosmos SDK. Transactions run one at a time; after those of a block every
module's EndBlocker runs; then the block is committed. All nodes must compute
the same state. The hard part is therefore not threads: it is what a long
sequence of legal transactions and block ends does to state that several modules
share (coins, frozen coins, the forbidden lists), with ledger calls whose errors
are dropped, clean-ups keyed by height and by day, and integer arithmetic in
every amount.

## Inventory

| Component | State | Operations | Talks to | What is hard | What makes it correct |
|---|---|---|---|---|---|
| `market` | orders with an order queue, a bid list and an ask list; market infos; NewlyAdded flags; delist requests; order clean time | create and cancel orders, create and cancel pairs, modify the precision; EndBlocker: expire, delist, match, settle | bankx for every coin, authx for referees, asset for owners and forbidden lists, msgqueue for events | one frozen balance for all orders of an account; dropped errors; flags read long after they are set; removal in map order; rounding of partial fills; int64 sums | coins neither made nor lost; frozen coins = what the orders hold; a match ends, at one price, misses no pair; no order is orphaned, expires early or outlives its time; fees are covered |
| `market/match` | none (a pure engine) | sort, price, execute | calls back into market's Deal | tie rules; a loop that ends only if its price is acceptable | the price moves the most stock, is accepted by both best orders and follows the market-pressure rule |
| `bancorlite` | pools | init, trade, cancel | bankx: the reserves are frozen coins of the pool's owner, in the number market uses too | rounding of the price curve; shared frozen balance | the pool can always pay; buys and sells never gain money |
| `bankx` | none of its own; the coins of auth accounts | send, locked and supervised send, early unlock, multi-send, freeze, unfreeze, fees | authx, asset, auth and bank of the SDK | a locked coin lives in an account list and a time queue | sums preserved, queue and list agree |
| `authx` | frozen and locked coins, referee, memo flag; unlock queue | set referee; EndBlocker unlocks coins | asset (send-lock counter) | queue entries deleted while iterating; several coins with one time; an import without the queue | every locked coin is released once its time has come, once |
| `asset` | tokens, forbidden lists, whitelists, send-locks | issue, transfer ownership, mint, burn, (un)forbid, (un)whitelist, modify | bankx, authx | token totals kept beside the supply and the coins; what is sealed depends on what the owner holds | the figures are true; holders are not surprised; forbidden coins stay |
| `incentive` | plan list, adjustment height | BeginBlocker pays from a pool account | bank | overlapping plans, an empty pool | pays what the plans say or nothing |
| `distributionx` | none of its own | donation to the community pool | bankx, SDK | - | the coins arrive |
| `alias` | alias to account and account to alias entries | add, remove | bankx (fee), asset | two entries per alias | entries are inverse; at most one default |
| `comment` | comment count per token | comment | bankx, distributionx, msgqueue | several payments of one message | a payment per reward, and the count only grows |
| `msgqueue` | event files, pipes, Kafka | write, roll over, prune | every module | the pruning goroutine beside the writer; writes that fail and are tried again; crashes between the steps of either | no block of a kept file is lost, blocks are told in order |
| `stakingx`, `supplyx` | nearly none | read-only figures; burning into the community pool | SDK modules | - | totals include locked and frozen coins |

`bancortable` (generated numbers), clients, test applications and scripts are
not candidates. PROJECT.json holds the status of each component and, under
`hazards`, what in this code a test would hardly reach, with the property that
watches it or the reason none does.

## Modules

```
Sums -+- Bank ----+                               Custody
      |           +-- Market --- MarketProperties -+- MCTrade MCFees MCListing MCForbid
      |MatchEngine+                                |
      |   |                             Bancor ----+-- Dex --- MCDex
      |   +-- Auction --- MCAuction
      |
      +- Assets --- Wallets --- WalletProperties -+- MCLocks
                                                  +- Profiles --- MCTokens
         MsgQueue --- MCQueue

proofs:  SumLemmas -+- EngineLemmas -+- AuctionProofs  (of Auction)
                    |                +- OrderLemmas --- MarketProofs --- DexProofs
                    +- WalletProofs  (of Wallets and Profiles)
                    +- QueueProofs   (of MsgQueue)
```

* **Bank** - the ledger. A record of spendable coins (auth account), frozen
  coins (AccountX) and the fees collected. `SendCoins`, `FreezeCoins`,
  `UnFreezeCoins`, `DeductFee`, `ChargeFee` map a ledger to a ledger; a call
  that returns an error maps it to itself. `ChargeFee` pays the referee first
  and then the collector, two calls that can fail separately, as in market's
  `chargeFee`. The variables `tokenForbidden` and `addrForbidden` are asset's;
  bankx asks them before it moves or freezes coins, and not before it unfreezes.
* **MatchEngine** - `GetExecutionPrice`: price points, accumulated amounts, the
  three selection rounds, the reference price. Prices are integers. `TieOrder` is
  the order in which the second sort leaves the ties.
* **Auction** - a book that grows unit by unit, so that the engine meets every book
  there is, and what the comments of match.go promise of the price.
* **Market** - the keeper's stores, one action per message, and EndBlocker as a
  sequence of steps (`phase`): `expire` and `delist` in the first block of a day,
  otherwise `match` and `settle`. A step is one order removed, one deal, one
  order settled, so an invariant is checked between any two ledger changes of
  one block. Transactions are atomic: a handler that returns an error is rolled
  back by the SDK, so only a handler that succeeds is an action. Within
  EndBlocker nothing rolls back, and the failed calls are in the model.
* **Custody** - the abstract specification: every order is a box of coins with
  an owner. Deals swap between two boxes, closing a box returns the rest less a
  fee taken from that box. The code has no boxes, only one frozen number per
  account and denomination; `KeepsCustody` maps the exchange to Custody.
* **MarketProperties** - the properties, and the refinement mapping.
* **Bancor** - the price curve of bancorlite as functions: the straight line, the
  power of the share sold read from the table, the exponent, what a valid design
  is, and the second copy of the formulas that checks a genesis file.
* **Dex** - the composition of Market and bancorlite's pools on the one ledger: a
  pool's reserves are frozen coins of its owner, added to those of his orders.
  `Restart` exports after a commit and imports into a new chain.
* **Assets** - module asset's tokens and lists, and the coins they count:
  spendable, frozen and locked. One operator per message of the owner.
* **Wallets** - bankx's messages, the unlock queue, authx's EndBlocker entry by
  entry, incentive's BeginBlocker, donations, and `Restart`.
* **Profiles** - aliases with their two stores, memo flags, referees, comments, on
  top of Wallets.
* **WalletProperties** - the properties of Assets and Wallets.
* **MsgQueue** - the directory of event files: the writer's two halves of WriteKV,
  each of which may fail and is tried again by Retry, the pruning goroutine's
  receive, look and remove, crash and reopening.
* **MC\*** - the instances TLC checks.
* **\*Lemmas**, **\*Proofs** - facts about the operators; the theorems.

Bank and Assets both model the accounts' coins. Bank is what the exchange needs
and the proofs are about: tokens exist, keep their owners and only become
forbidden. Assets has tokens that change and locked coins, and no exchange; its
`Freeze` and `UnFreeze` stand for what orders and pools ask of bankx.

| State | In the code |
|---|---|
| **Market** `bank` | auth accounts, AccountX.FrozenCoins, the fee collector |
| `orders[s]` | an Order in the order book store with its queue and bid/ask keys; `s` stands for its ID |
| `markets[m]` | MarketInfo: LastExecutedPrice, PricePrecision, OrderPrecision |
| `newly` | the NewlyAdded keys |
| `delist[m]` | the delist request's time |
| `height`, `now`, `cleanTime` | block header, OrderCleanTime |
| `pending`, `todo`, `newPrices`, `mkt`, `bidList`, `askList`, `price` | EndBlocker's local variables |
| **Dex** `pools[i]` | BancorInfo of the i-th pair |
| **Assets** `tokens[d]`, `whitelist`, `blacklist` | BaseToken; the whitelist and forbidden-address keys |
| `coins`, `frozen`, `locked` | auth accounts; AccountX.FrozenCoins and LockedCoins |
| `accounts`, `collected` | which auth accounts exist; CET of module accounts |
| **Wallets** `queue`, `due` | the unlock queue's keys; what EndBlocker's iterator has still to visit |
| **Profiles** `accountOf`, `aliasesOf` | alias to account keys; account to alias keys |
| `memoRequired`, `referee`, `refereeTime`, `commentCount` | AccountX's fields; comment's counts |
| **MsgQueue** `files` | the files backup-i with the messages written in full |
| `torn` | the places where a failed write has left a part of its line |
| `fileIndex`, `handle`, `rolled` | dirMsgWriter; whether this call of WriteKV has made its new file |
| `begun`, `sending` | the block whose messages the chain is sending (outside src/) |
| `pruner`, `done` | the goroutine's program counter and locals; the highest block it was told of |
| `up`, `crashes`, `openFailures`, `writeFailures`, `imports` | faults and restarts |

What is abstracted in Market:

* A failed transaction leaves its state as it was and is not an action. (So in
  Wallets and Profiles too.)
* Index keys: the keeper writes and deletes the three entries of an order
  together, so they are one slot. Order IDs contain the sender's sequence number
  and are never reused; a free slot stands for a new ID.
* Hashes rank orders of one price and height; the list a match gets is any list
  sorted by price and height (`SortedLists`), chosen nondeterministically.
* The order of the markets in a match, of the orders in a clean-up and of the Go
  map in a settlement is nondeterministic.
* Deal changes orders in memory and Update stores them at the settlement; the
  model changes `orders` at once. Nothing between the two reads them from the
  store, except for the search for IOC orders, which uses fields deals leave alone.
* Prices are integers p that stand for p/D; the rounding of sdk.Dec at its 18th
  digit is below that, and the volume of another market is an exact quotient.
  Freezing rounds up, deals truncate, the fee share truncates, as in the code.
* `Base` stands for 10 in tick sizes and granularities. A message's order
  precision above 8 becomes 0 in the code; the inputs are at most 8.
* `Day` stands for time.Day(), the day of the month: it repeats after
  `MonthLen` days, as it does in the code. The integration net's clock (minutes
  instead of days) is the same function with another unit.
* Tokens exist and keep their owners; the referee and the rebate ratio are
  constants; the token whitelist is empty (all of these change in Assets and
  Profiles); a transfer moves plain coins. Events for the message queue are left out.

What is abstracted in the other modules:

* Bancor works on sdk.Dec exactly: a Dec is an integer number of 1/`Unit`, and each
  operation truncates or rounds half to even as the method the code calls. `Unit`
  is 10^18 in the code and small in the run, which makes rounding frequent instead
  of rare. The table is a constant; `BancorAssumption` says what its rows must satisfy.
* Dex: an import keeps everything but flags, delist requests and the height. Token
  state is not exported through asset's files here, that is in Wallets.
* A message of Wallets carries one coin, a list message one address, a comment one
  reward; a fee that depends on a name's length (issuing, aliases) is one number.
  Module accounts are `collected`, which sends nothing back.
* MsgQueue: a block is its height_info line and `NumEvents` others. A write succeeds,
  or fails with nothing or a part of the line in the file; the next try appends the
  whole line behind the part, and the message then counts as written in full. Retry's
  pauses are left out, and so is its end: RetryNum is the largest int64. A crash is
  one of the process: it falls between two steps, and what was written outlives it. A
  panic of the goroutine is one of the crashes.

## What the runs check

Each run looks for deadlock too, and the bounds end in the explicit steps `Stop`
and `Full`. Only `queue` does not: there a chain that has used up its blocks, or a
writer whose file could not be opened, really stops.

| Run | Question | Instance |
|---|---|---|
| `trade` | Do coins and orders stay consistent between any two deals? Does every auction end, at one price, with no crossing pair overlooked? | 1 market, 3 orders, 2 users, prices 1 and 1.5, amounts 1 and 2, 2 blocks |
| `fees` | Is every fee covered by what was frozen, does the map order of a settlement matter, does the shared frozen balance work like one box per order? | a market priced by another market, a referee, feature fees, IOC and GTE orders |
| `listing` | Is no order left behind, early or late, when pairs are listed, changed, delisted and listed again? | 2 pairs of one stock, 2 orders, 3 blocks over days, a lifetime of the largest int64 (7) |
| `forbid` | Are deals delivered although forbidding takes effect between order and match? Does EndBlocker end? | 2 markets of one token, forbidding of the token and of accounts, transfers |
| `auction` | Is the price the one the comments define? | every book of up to 6 units at 5 prices, 3 last prices |
| `dex` | Do orders and pools of one account share its frozen coins without touching each other's? Does a pool stay on its curve under any trades, and does an export carry everything over? | 1 pair with a market and a pool, 2 users, 2 orders, a line and a power curve of 3 units of stock, money in halves, 1 restart |
| `locks` | Is every locked coin released, once, at its time or early, and paid to the right account? | 4 users (one supervises, one is the incentive pool), 2 tokens, at most 2 locked coins, 4 blocks, 1 restart |
| `tokens` | Are a token's figures true, are its holders safe from its owner, do the two alias stores agree? | 2 users, 2 tokens, the transactions of one block in any order and number |
| `queue` | Which blocks can a reader of the event files rely on, with the pruning goroutine, failed writes and crashes at any moment? | 7 blocks, 2 per file, 2 messages per block, 2 crashes, 1 failed write, 1 file that cannot be opened |
| `orphan_flag`, `ioc_survives`, `zero_deal_fee` | three sentences of the code that the program does not keep, see below | the instances of `listing` and `fees` |

Properties of the exchange, from the deepest:

* `EscrowExact` - the frozen coins of every account are the sum of what its
  orders hold, between any two steps. The calls whose errors `Deal` and
  `removeOrder` drop cannot fail. `FrozenExact` - the same with pools beside the
  orders.
* `KeepsCustody` - refinement of Custody: no order lives off another one.
* `BuyerCanPay` - rounding of partial fills never leaves a buy order short.
* `PoolOnCurve` - a pool's money and price depend on the stock it has sold and on
  nothing else, so no series of buys and sells gains from the rounding.
* `UniformPrice`, `OneRoundIsEnough` - the loop of Match has a second round
  that never happens: the price that moves the most stock leaves nothing that crosses.
* `PriceFound`, `BlockEnds` - the loop always makes progress; EndBlocker ends.
* `NoMissedMatch` - a market without a flag never holds two orders that could
  deal; `dex` checks it after an import too, which makes the flags anew.
* `OrdersHaveMarket`, `ExpiredGone`, `NoEarlyExpiry` - delisting and expiry.
* `FeesCovered`, `SettleCommutes` - what removal charges; nodes agree on it.
* `DealDelivers`, `TradeDelivers` - accounts change by exactly what the orders, or
  the pool, record.
* `CurveMonotone`, `LinePoolsExportable` - the curve across the table's samples; the
  two copies of its formulas.
* `Conservation`, `TypeOK` - no coin is made or lost, no amount is negative.
* `MaximalVolume`, `AcceptedByBest`, `PressureRule`, `FewTies` - the price.
  `PressureRule` is about books with at most `StableLength` prices of the largest
  volume, see below.

Properties of wallets and tokens:

* `QueueExact` - the unlock queue has exactly the entries that the locked coins
  need; `ReleasedOnTime`, `UnlockedInTime` - so no coin stays locked.
* `EarlyUnlockPays` - a coin leaves early only alone, and whole, to its sender or
  its receiver, less the reward.
* `SendLockExact`, `SupplyExact` - the figures asset keeps beside the coins are true.
* `SealedAfterDistribution`, `ForbiddenStay` - what a token's owner can no longer
  do to its holders; what a forbidden holder cannot do.
* `TokensValid`, `AliasesConsistent` - states can be exported; two stores agree.

Properties of the event files:

* `KeptUntilDone` - no block is removed that the reader may still need;
  `ToldInOrder` - the files, read by their numbers, tell the blocks in order.
* `HeightReadable` - a file begins with a height_info; where the goroutine finds no
  height to read, a crash or a failed write of its own is behind each such file; and
  it never looks at a file that is just being begun.
* `BlockSent` - a failed write holds a block up and does not stop it.

`SettleCommutes` reads the settlement where it bites; the invariant says two
removals commute, and so all orders of a map give one state.

### Why the bounds are enough

`trade` needs three orders: two on one side make partial fills, a head that
changes, and a rest that meets a later order; with one side of two at different
prices every position of the price relative to a list occurs. Prices 2 and 3
with D = 2 are a whole and a half, so that single deals truncate and freezing
rounds up. Two blocks give a first auction without a last price and a second one
with it. `fees` and `forbid` need two orders, the smallest deal, since fees and
forbidden senders concern an order or a pair. `listing` needs three blocks: an
order, the day it expires or its market goes, and what the next block makes of
the left-over; `MaxTimeGap` 1 makes any of them the first of a day. `MaxInt64` is
7 so that height + lifetime overflows inside the bounds; `MaxOrderAmount` is below
it as 9e18 is below 2^63. The auction's books are bounded by sums per price,
since GetExecutionPrice sees orders only through them.

`dex`: three units of stock are bought and sold one or two at a time, so that every
amount is reached in several ways; `Unit` is 2, and both designs have an odd
price, so that nearly every amount of money is rounded; three units between two
samples of the table make the code interpolate. The pool's owner may have an order
in the same two denominations beside it, or one that is dealt, cancelled or expired
while the pool is open. `locks`: the requests are two coins that differ in their
sender only, two of one time in different tokens, one without a supervisor and one
that its receiver locks for himself. These are the cases in which the search for
the coin, or for another coin that needs the queue's entry, can go wrong; a third
coin adds none. Four blocks pass the time of each coin with one to spare. `tokens`
bounds the supply by 2 and not the number of transactions: one unit
at the owner and one elsewhere is what the rules for distributed tokens tell
apart. Heights and times do nothing here but delay a referee's change. `queue`: 7
blocks in files of 2 fill four files, and two removals happen; two crashes allow one
in the middle of a block and another one while it is sent again. One write fails,
whole or halfway, at any message: at the first of a file the next try leaves that
file behind, and with the crashes there are up to three such files, side by side too.

### Fairness

Three properties need it.

* `BlockEnds`: `WF_vars(EndBlocker)`. Once a block's end has begun, the node runs
  it to the commit, in one thread; nothing else is enabled meanwhile. EndBlocker is
  also what begins a block's end, and weak fairness does not force it to begin:
  transactions may go on for ever.
* `UnlockedInTime`: `WF_walletVars(BlockStep)`. Here a block must also begin and
  end, since it is the passing of blocks that releases coins: a block holds
  finitely many transactions and consensus goes on. A time within the bounds
  comes or does not; the property begins when it has come.
* `BlockSent`: `WF_queueVars(WriterStep)`. The goroutine that prunes shares nothing
  with the writer but the directory, and the scheduler of Go starves neither. Writes
  do not fail for ever, which is what the bound on `writeFailures` says here. The
  property excepts a crash and a writer that is left without an open file, see below.

No fairness is assumed of users, of any transaction, of the goroutine, or of
restarts; crashes are bounded in number and never obliged to happen.

## Disagreements found

Each is a run with expectation `violation` whose property quotes the code.

* **A flag outlives its market** (`orphan_flag`). `EndBlocker` returns at a
  flagged market that is not in the store, "should not reach here in production".
  An order made in the block that delists its market leaves the flag behind, and
  from the next block on no market is matched until the pair is listed again.
* **Immediate-or-cancel orders that stay** (`ioc_survives`). IOC orders are
  collected by their height in the match of their block. The first block of a
  day has no match, and a market with a forbidden token is skipped: such an order
  rests like any other.
* **The fee of an undealt order** (`zero_deal_fee`). `FeeForZeroDeal` may be
  configured above the minimum that was frozen; the charge then "should not
  reach this clause in production" and does. With the default parameters, both
  equal, it does not: that is run `fees`.

Observed while modelling, in the model as the code has it, and not a run because
no sentence of the repository says otherwise:

* The tie rule of match.go takes the list of best prices to fall from the first to
  the last. It is put together sorted, but line 250 sorts it once more by the
  surplus with `sort.Slice`, which is not stable: lists of up to 12 elements keep the
  order of equal ones, longer lists need not. A book of 14 prices with equal volume
  shows it: bids of 1 at each of 2 to 7 and of 20 at 14, asks of 20 at 1, 1 at each of
  8, 9, 11 and 13, and 2 at 10 and 12. Its two best prices 8 and 7 come out as 7, 8, and with a last price
  of 8 the code executes at 7, where the comment at line 321 says that "the reference
  price should be chose". `TieOrder` leaves the order of ties open when the sort is
  that long, `PressureRule` speaks of the books the sort keeps in order. Everything
  else about the price holds in any order of the ties.
* authx's genesis file has the locked coins and not the unlock queue
  (authx/genesis.go:31). After an import a coin is released only if its account gets
  another locked coin that falls due, or by an early unlock. `QueueExact`,
  `ReleasedOnTime` and `UnlockedInTime` say what is left of them then.
* market's genesis file has no delist requests, and orders keep the heights of the
  old chain (market/genesis.go:50).
* `IsConsistent`, which checks the pools of a genesis file, knows the straight line
  only: a pool on a power curve, or on a line with one price, is refused
  (bancor_info.go:81, 105). `LinePoolsExportable` is about the others.
* A token's owner may be on a list of his token, by a change of ownership; the
  import of the exported state panics (asset keeper.go:695).
* `EarlierUnlockCoin` compares coins of different denominations with the SDK's
  `IsEqual`, which panics; the transaction fails (bankx keeper.go:129). A coin
  behind one of the same time and another token cannot be unlocked early.
* The oldest file may have no height to read, and the goroutine panics when it looks
  for one (msgqueue/prune_file.go:45, utils.go:115, 128), in every run of the node
  until somebody removes the file. A crash between a file's creation and its first line
  leaves such a file, and so does a failed write without any crash: Retry
  (producer.go:115) calls `WriteKV` from its beginning, which for the height_info of a
  boundary closes the file it has just made and makes another one; and a part of a
  height_info stays in front of the whole one. `HeightReadable` counts these files.
* `WriteKV` closes the old file before it opens the new one (msg_writer_dir.go:52-55);
  if that fails, every retry fails to close it again and the node stands still in this
  block. No sentence promises otherwise, so it is in the model (`RollFile`) and excepted
  by `BlockSent`; the block is not lost, it is sent again after a restart.

## What is proved

Every invariant and action property that a passing run checks is also a theorem,
for any number of users, tokens, pairs, orders, pools, blocks and for any values of
the parameters within the assumptions below. PROJECT.json lists the theorems with
the properties they state.

### Assumptions

The modules name what they assume of their constants, and TLC evaluates each
assumption in the runs: `BankAssumption`, `EngineAssumption`, `MarketAssumption`,
`AbsentAssumption`, `AuctionAssumption`, `BancorAssumption`, `DexAssumption`,
`AssetsAssumption`, `GenesisAssumption`, `WalletsAssumption`, `ProfilesAssumption`,
`MsgQueueAssumption`. They are types, non-zero divisors, values that stand for
"absent" and are no market, order or pool, and:

* `BancorAssumption`: rows 1 and up of the table begin with 0, end with TableMax and
  never fall. These are facts about data, and the rows of the repository's
  table.go have them.
* `GenesisAssumption`: the tokens at the beginning are tokens an import accepts, and
  their figures are what the accounts hold.

Some theorems have a hypothesis of their own, a statement about parameters:

| Hypothesis | Theorems | Why the code's parameters meet it |
|---|---|---|
| `ZeroDealFeeCovered`: the fee of an undealt order is at most the least commission | FeesAlwaysCovered, CustodyAlwaysKept, SettlementCommutes, and the first and last for Dex | both defaults are 1000000; a chain that configures them otherwise is run `zero_deal_fee` |
| `CetUnforbiddable` | FeesAlwaysCovered, DexFeesCovered | cet is issued without either power (genesis_token.go:53) |
| `LongLivesPricedOut`: a lifetime that overflows int64 costs more than an order may freeze | NeverExpiresEarly | an order may freeze 10^18 and a block costs 10, so lifetimes end near 10^17; int64 ends near 9 * 10^18 |
| `AddrForbiddable = {}`: no token's owner can forbid single addresses | NoMatchMissed, DexMissesNoMatch | a real restriction: with such tokens an order skipped for its sender may be left behind without a flag, the hazard at endblocker.go:259 |

### The exchange

* `InvariantHolds` - `IInv` is inductive. `TypeOK` and `BuyerCanPay` are not
  inductive alone: that a deal's payment is covered needs the deal's two orders to
  be live orders of the market being matched, each of its side (`BookSound`); that
  a removed order exists needs the work lists to hold live orders only
  (`BlockSound`); and that an order's frozen money suffices is
  `D * freeze >= price * left`, which a deal at p <= price preserves although
  `freeze` loses a truncated amount. One lemma per operation.
* `TypeCorrect`, `BuyerCanAlwaysPay` - from IInv. `CoinsConserved` - every step leaves
  the total of every coin (`SameTotals`), including steps in which some ledger calls
  fail.
* `EscrowAlwaysExact` - inductive relative to IInv: an operation changes one order (a
  deal: two) and moves in the account of its sender what that order's escrow changes
  by. With EscrowExact before the step, each unfreeze is covered, so it succeeds; that
  is the argument that makes the dropped errors harmless.
* `CustodyAlwaysKept` - the refinement. `Promise!Init` follows from Init, and each
  operation is mapped to Custody's step of that name, or to none: the coins of an
  order's box are its escrow, so a deal, whose four ledger calls succeed by
  EscrowExact, is a swap between two boxes; a removal closes one.
* `DealsAlwaysDeliver` - the same four calls, now as amounts. Its invariant
  `ListsAllowed` says that nobody in the lists of the market being matched is
  forbidden: what is forbidden cannot change while a block ends.
* `FeesAlwaysCovered` - an order's commission is never below the least one
  (`CommissionsPaid`) and its parts of fees never exceed what it froze; the referee's
  part is moved first and succeeds as CET is free (`CetFree`).
* `SettlementCommutes` - a refund moves, in each column of the ledger, an amount that
  depends on the order alone and not on the ledger (`Outflow`), once it is known that
  none of its calls fails in either order; `TwoEscrows` is that fact.
* `OrdersAlwaysListed`, `ExpiredAlwaysGone`, `NeverExpiresEarly` - `ListInv`: orders
  have listed markets at every step, and while delisting those of a market about to
  go are in the work list. `ExpireInv`: from the first step of a new day the orders
  whose time is over are in the work list, and it is empty when delisting begins.
  `ExpiryFits`: heights and lifetimes add up without overflow.
* `NoMatchMissed` - nothing of NoMissedMatch is known in the middle of a match, so
  its invariant follows the lists: they are sorted by price (`ListsSorted`), and
  miss no order that could deal (`ListsComplete`); an order that is used up waits to be removed
  (`UsedUpWaits`). When the lists no longer cross, no two orders of the market do,
  and the market joins those of which `NoneCross` is known.
* `PriceAlwaysFound`, `PriceAlwaysUniform` - `MatchInv` adds that the orders in the
  lists are alive, and `PriceIsBest`: from the first deal of a market on, no price
  moves more of what its lists still hold than the price of the deals. A deal
  takes the same amount from the demand up to the best bid and from the supply down
  to the best ask, so a price that was best stays best (`BestAfterDeal`); and a best
  price is accepted by both heads, as something can be dealt between them.

### The price

EngineLemmas proves for every book that demand falls and supply rises with the
price; therefore the volume at any price is at most that of an order's price
next to it, which is why the engine may look at orders' prices only, and stays
maximal between two best prices, which is why the reference price may be taken
there. AuctionProofs states it for every reachable book: `VolumeAlwaysMaximal`,
`AlwaysAccepted`, `OneRoundAlwaysEnough`, `PressureAlwaysRules`, and
`TiesAlwaysFew`: of three best prices with a surplus of one sign the middle one
would have an order whose amount changes the surplus, so there are two of each sign
at most.

### Pools

* `DexInvariantHolds` - `DexInv` is `IInv`, each pool sound (a valid design, its
  exponent, stock within the supply, money and price on the curve) and
  `FrozenExact`. A step of the market is the step MarketProofs knows, but
  EscrowExact is false here: an account's frozen number also holds reserves.
  MarketProofs therefore proves of each step that it keeps the frozen coins no
  order holds back (`Unheld`), as long as these are not negative (`NextUnheld`);
  EscrowAlwaysExact is the case 0, FrozenExact the case "the reserves". A pool's
  transaction leaves the orders alone and moves one term of the sum of reserves.
* `FrozenAlwaysExact`, `PoolAlwaysOnCurve`, `DexCoinsConserved` - from it.
* `TradeAlwaysDelivers` - from it and from what each ledger call of a swap does to
  spendable coins: the owner's end where they began.
* `DexMissesNoMatch`, `DexPricesHold` - the invariants of matching do not read
  balances, so pools leave them alone; a restart comes when nothing is being
  matched and flags every market with an order.
* `DexDealsDeliver`, `DexFeesCovered`, `DexSettlementCommutes` - the lemmas behind their
  counterparts for the exchange alone ask for `UnheldCovered` only: that the frozen
  coins no order holds back are not negative, which reserves are not.
* `CurveAlwaysMonotone`, `LinePoolsAlwaysExportable` - from the sound pools and
  `CurveFacts`: half-even rounding and truncation keep the order, interpolation stays
  between two samples, a valid design's power curve has its rows in the table and
  room for its money.

### Wallets, tokens, profiles

* `WalletsAlwaysInv` - `MoneyInv`: for each token the supply is the sum of three
  columns (spendable, frozen, locked) and of what modules collected, and the
  send-lock is the sum of the third. Each action is characterised by what it adds to
  the sum of each column; a transfer to oneself, a multi-send with one account on
  both sides, or a referee who is the sender, is no special case, since the sum over
  all accounts does not tell them apart. `QueueInv`: outside EndBlocker the queue's
  entries are the times and accounts of locked coins. Within it an entry that is
  still to be visited may be without coins, since one visit unlocks all coins of an
  account that are due. A transaction changes queue and lists alike by at most one
  entry (`QueueMove`); that an early unlock keeps the entry another coin needs is here.
* `ProfilesAlwaysInv` - the same with module Profiles. From the two follow
  `SupplyAlwaysExact`, `SendLockAlwaysExact`, `TokensAlwaysValid`, `QueueAlwaysExact`,
  `AlwaysReleasedOnTime`, and the action properties `AlwaysPaidEarly`, `AlwaysSealed`,
  `AlwaysForbiddenStay`.
* `AliasesAlwaysConsistent` - the two stores are one relation read in two directions
  (`SameStores`), and an account has at most one entry that is marked.

### Event files

* `QueueAlwaysInv` - `QInv`. Files are told apart by heights: a height that begins a
  new file lies within no file but as its first, so a file spans at most FILEHEIGHT
  heights (`FileSpans`). The goroutine removes the oldest file when the height it was
  told is 2 * FILEHEIGHT past that file's first, so the file ends before what the
  reader may still need (`AlwaysKeptUntilDone`). What it knows may be old, the
  writer runs ahead of it, which does no harm (`PrunerKnows`).
* `AlwaysToldInOrder` - within a file, across neighbouring ones with empty files
  between them skipped, and between the newest line and the next one to be written
  (`ToldWithin`, `ToldAcross`, `LastTold`); the last is what a crash breaks in the one
  way `Follows` allows.
* `AlwaysHeightReadable` - each step makes at most one file that has no height to read
  and is not just being begun, and only one that counts a crash or a failed write does
  (`FewSpoilt`). The file a fault spoils is the newest, the one that is being begun:
  `SendingBlock` says when that is empty (`rolled`). The goroutine never looks at it,
  since a block is committed before the reader is done with it, and so is in a file.

SumLemmas proves what sums over accounts and orders need by an induction drawn
from the well-foundedness of the subsets of 0..n; OrderLemmas says what each ledger
call preserves and changes, and does the arithmetic of amounts and fees.

Only model-checked: liveness (`BlockEnds`, `UnlockedInTime`, `BlockSent`) and
anything with ENABLED, which are out of the prover's reach, as is induction over
data in general. The numbers of the price table are data too.

## Not modelled

* The ante handler's checks of gas price and memo length, and `stakingx`, whose
  functions only read: the bond pool's figures, the non-bondable addresses, which
  are set at genesis.
* `supplyx`, one function that turns what other SDK modules burn into a gift to
  the community pool, modules that are not in this repository.
* The writers to pipes, Kafka and standard output, which hold no state of ours, and the
  directory writer behind `dir:`, which begins a new file by size and is never pruned;
  what the messages say; order IDs and other texts, descriptions, URLs.
* The numbers of the price table. A reference table of the same definition takes
  its place, small enough to enumerate.
* market's own tokens change in no run: Assets and Market meet in the forbidden
  lists and the frozen coins. A referee who changes between an order and its deal
  is not composed with the fees, which read the referee when they are paid.
* Queries, REST and command-line clients, codecs, parameters' plumbing,
  simulation, test applications and scripts.

By lines, most of the implementation is the generated rows of
bancorlite/internal/types/table.go (612,120 lines, more than everything else
together), which are data; much of the rest is
clients, simulation, codecs and module plumbing. A map of all the logic in this
repository could thus not reach a third of its lines. What carries state -
handlers, EndBlockers, keepers, the match, the curve, the file queue - is mapped
except for what is listed above.

## Plan

1. Done: Bank, MatchEngine, Market, Custody, their runs, and their theorems.
2. Done: Bancor and Dex, pools and orders on the one frozen balance, with restarts.
3. Done: Assets and Wallets, locked and supervised coins and the token's figures.
4. Done: Profiles (alias, memo, referee, comment), incentive, donations.
5. Done: MsgQueue, the writer and the pruner with crashes and failed writes.
6. Done: Dex's theorems, by lifting MarketProofs from `frozen = escrows` to
   `frozen = escrows + reserves`, and the facts of the curve.
7. Done: the theorems of wallets, tokens, aliases and event files, of the price, of
   the exchange's remaining safety properties, and the refinement of Custody.
8. Next: custody for Dex, with a pool as a box beside those of orders, and a measure
   that every step of EndBlocker lowers, the safety half of `BlockEnds`.
