SPECIFICATION WalletsSpec
CONSTANTS
  NumUsers = 4
  Denoms = {"cet", "abc"}
  CET = "cet"
  NoToken = NoToken
  InitTokens <- LocksTokens
  InitCoins <- LocksCoins
  ReservedSymbols = {}
  IssueFee = 1
  IssueAmounts = {}
  MintAmounts = {}
  TokenFlags = {}
  NewSupplies = {}
  NewOwners = {}
  Listed = {}
  MaxSupply = 0
  PoolAccount = 4
  Plans <- LocksPlans
  DefaultReward = 0
  HeightAdjustment = 0
  ActivationFee = 1
  LockCoinsFreeTime = 1
  LockCoinsFeePerDay = 1
  DayLen = 1
  Sends <- LocksSends
  Supervised <- LocksRequests
  MultiSends = {}
  Freezes = {}
  Donations = {}
  MaxLocks = 2
  MaxHeight = 4
  MaxTimeGap = 1
  MaxImports = 1
INVARIANTS QueueExact ReleasedOnTime SendLockExact
PROPERTIES EarlyUnlockPays UnlockedInTime
