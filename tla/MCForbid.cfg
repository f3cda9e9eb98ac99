SPECIFICATION FairSpec
CONSTANTS
  NumUsers = 2
  Denoms = {"cet", "abc", "usd"}
  CET = "cet"
  OwnerOf <- ForbidOwner
  RefereeOf <- NoReferee
  RebateRatio = 2
  RebateRatioBase = 10
  Markets = {"abc/usd", "abc/cet"}
  StockOf <- ForbidStock
  MoneyOf <- ForbidMoney
  InitMarkets <- ForbidMarkets
  InitCoins <- ForbidCoins
  NoMarket = NoMarket
  NoOrder = NoOrder
  MaxOrders = 2
  D = 2
  Base = 2
  Prices = {2}
  Quantities = {2}
  TimesInForce = {"GTE"}
  Lifetimes = {0}
  Precisions = {}
  TransferAmounts = {2}
  MaxOrderAmount = 20
  MaxInt64 = 100
  CreateMarketFee = 1
  MarketFeeMin = 1
  RateNum = 1
  RateDen = 4
  FeeForZeroDeal = 1
  GTEOrderLifetime = 2
  FeatureFeeByBlocks = 1
  MaxExecutedPriceChangeRatio = 25
  MarketMinExpiredTime = 1
  TokenForbiddable = {"abc"}
  AddrForbiddable = {"abc", "usd"}
  DayLen = 1
  MonthLen = 3
  MaxHeight = 2
  MaxTimeGap = 1
PROPERTIES DealDelivers BlockEnds
