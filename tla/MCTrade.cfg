SPECIFICATION Spec
CONSTANTS
  NumUsers = 2
  Denoms = {"cet", "abc"}
  CET = "cet"
  OwnerOf <- TradeOwner
  RefereeOf <- NoReferee
  RebateRatio = 2
  RebateRatioBase = 10
  Markets = {"abc/cet"}
  StockOf <- TradeStock
  MoneyOf <- TradeMoney
  InitMarkets <- TradeMarkets
  InitCoins <- TradeCoins
  NoMarket = NoMarket
  NoOrder = NoOrder
  MaxOrders = 3
  D = 2
  Base = 2
  Prices = {2, 3}
  Quantities = {1, 2}
  TimesInForce = {"GTE"}
  Lifetimes = {0}
  Precisions = {}
  TransferAmounts = {}
  MaxOrderAmount = 20
  MaxInt64 = 100
  CreateMarketFee = 1
  MarketFeeMin = 1
  RateNum = 1
  RateDen = 4
  FeeForZeroDeal = 1
  GTEOrderLifetime = 2
  FeatureFeeByBlocks = 1
  MaxExecutedPriceChangeRatio = 25
  MarketMinExpiredTime = 1
  TokenForbiddable = {}
  AddrForbiddable = {}
  DayLen = 1
  MonthLen = 3
  MaxHeight = 2
  MaxTimeGap = 0
INVARIANTS TypeOK EscrowExact BuyerCanPay Conservation PriceFound UniformPrice NoMissedMatch
