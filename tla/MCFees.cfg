SPECIFICATION Spec
CONSTANTS
  NumUsers = 2
  Denoms = {"cet", "abc", "usd"}
  CET = "cet"
  OwnerOf <- FeesOwner
  RefereeOf <- FeesReferee
  RebateRatio = 5
  RebateRatioBase = 10
  Markets = {"abc/usd", "cet/usd"}
  StockOf <- FeesStock
  MoneyOf <- FeesMoney
  InitMarkets <- FeesMarkets
  InitCoins <- FeesCoins
  NoMarket = NoMarket
  NoOrder = NoOrder
  MaxOrders = 2
  D = 2
  Base = 2
  Prices = {2}
  Quantities = {2}
  TimesInForce = {"GTE", "IOC"}
  Lifetimes = {0, 3}
  Precisions = {}
  TransferAmounts = {}
  MaxOrderAmount = 20
  MaxInt64 = 100
  CreateMarketFee = 1
  MarketFeeMin = 2
  RateNum = 1
  RateDen = 2
  FeeForZeroDeal = 2
  GTEOrderLifetime = 1
  FeatureFeeByBlocks = 1
  MaxExecutedPriceChangeRatio = 25
  MarketMinExpiredTime = 1
  TokenForbiddable = {}
  AddrForbiddable = {}
  DayLen = 1
  MonthLen = 3
  MaxHeight = 2
  MaxTimeGap = 0
INVARIANTS FeesCovered SettleCommutes
PROPERTIES KeepsCustody
