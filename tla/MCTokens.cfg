SPECIFICATION ProfilesSpec
CONSTANTS
  NumUsers = 2
  Denoms = {"cet", "abc"}
  CET = "cet"
  NoToken = NoToken
  InitTokens <- TokensTokens
  InitCoins <- TokensCoins
  ReservedSymbols = {}
  IssueFee = 1
  IssueAmounts = {1}
  MintAmounts = {1}
  TokenFlags <- TokensFlags
  NewSupplies = {2}
  NewOwners = {1}
  Listed = {1}
  MaxSupply = 2
  PoolAccount = 0
  Plans <- TokensPlans
  DefaultReward = 0
  HeightAdjustment = 0
  ActivationFee = 0
  LockCoinsFreeTime = 0
  LockCoinsFeePerDay = 0
  DayLen = 1
  Sends <- TokensSends
  Supervised = {}
  MultiSends <- TokensMultiSends
  Freezes <- TokensFreezes
  Donations = {1}
  MaxLocks = 1
  MaxHeight = 1
  MaxTimeGap = 1
  MaxImports = 0
  Aliases = {"a", "b"}
  NoAlias = NoAlias
  OnlyForCoinEx = {"a"}
  AliasFee = 1
  MaxAliasCount = 2
  RefereeChangeMinInterval = 1
  ProfileUsers = {1, 2}
  MemoUsers = {1}
  Referees = {1}
  Comments <- TokensComments
  MaxComments = 1
INVARIANTS SupplyExact TokensValid AliasesConsistent
PROPERTIES SealedAfterDistribution ForbiddenStay
