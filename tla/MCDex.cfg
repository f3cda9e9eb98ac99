SPECIFICATION DexSpec
CONSTANTS
  NumUsers = 2
  Denoms = {"cet", "abc"}
  CET = "cet"
  OwnerOf <- DexOwner
  RefereeOf <- DexReferee
  RebateRatio = 5
  RebateRatioBase = 10
  Markets = {"abc/cet"}
  StockOf <- DexStock
  MoneyOf <- DexMoney
  InitMarkets <- DexMarkets
  InitCoins <- DexCoins
  NoMarket = NoMarket
  NoOrder = NoOrder
  MaxOrders = 2
  D = 2
  Base = 2
  Prices = {3}
  Quantities = {1}
  TimesInForce = {"GTE"}
  Lifetimes = {0}
  Precisions = {}
  TransferAmounts = {}
  MaxOrderAmount = 20
  MaxInt64 = 100
  CreateMarketFee = 1
  MarketFeeMin = 2
  RateNum = 1
  RateDen = 4
  FeeForZeroDeal = 1
  GTEOrderLifetime = 2
  FeatureFeeByBlocks = 1
  MaxExecutedPriceChangeRatio = 25
  MarketMinExpiredTime = 1
  TokenForbiddable = {"abc"}
  AddrForbiddable = {}
  DayLen = 1
  MonthLen = 3
  MaxHeight = 2
  MaxTimeGap = 1
  Unit = 2
  MaxAR = 4
  ARSamples = 2
  SupplyRatioSamples = 2
  TableMax = 7
  BancorTable <- DexTable
  MaxTradeAmount = 12
  NumPairs = 1
  PairAt <- DexPair
  Designs <- DexDesigns
  CancelTimes = {1}
  Amounts = {1, 2}
  MoneyLimits = {0, 1}
  CreateBancorFee = 1
  CancelBancorFee = 1
  TradeFeeNum = 1
  TradeFeeDen = 4
  NoPool = NoPool
  MaxImports = 1
INVARIANTS FrozenExact PoolOnCurve CurveMonotone LinePoolsExportable NoMissedMatch
PROPERTY TradeDelivers
