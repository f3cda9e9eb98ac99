SPECIFICATION Spec
CONSTANTS
  NumUsers = 2
  Denoms = {"cet", "abc", "usd"}
  CET = "cet"
  OwnerOf <- ListingOwner
  RefereeOf <- NoReferee
  RebateRatio = 2
  RebateRatioBase = 10
  Markets = {"abc/cet", "abc/usd"}
  StockOf <- ListingStock
  MoneyOf <- ListingMoney
  InitMarkets <- ListingMarkets
  InitCoins <- ListingCoins
  NoMarket = NoMarket
  NoOrder = NoOrder
  MaxOrders = 2
  D = 2
  Base = 2
  Prices = {2}
  Quantities = {2}
  TimesInForce = {"GTE", "IOC"}
  Lifetimes = {0, 7}
  Precisions = {1}
  TransferAmounts = {}
  MaxOrderAmount = 4
  MaxInt64 = 7
  CreateMarketFee = 1
  MarketFeeMin = 1
  RateNum = 1
  RateDen = 4
  FeeForZeroDeal = 1
  GTEOrderLifetime = 2
  FeatureFeeByBlocks = 1
  MaxExecutedPriceChangeRatio = 25
  MarketMinExpiredTime = 1
  TokenForbiddable = {}
  AddrForbiddable = {}
  DayLen = 1
  MonthLen = 3
  MaxHeight = 3
  MaxTimeGap = 1
INVARIANTS OrdersHaveMarket NoEarlyExpiry
PROPERTIES ExpiredGone
