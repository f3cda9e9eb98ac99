SPECIFICATION Spec
CONSTANTS
  MaxOrders = 10
  SideOf <- AuctionSides
  LimitOf <- AuctionLimits
  MaxAmount = 2
  MaxTotal = 6
  LastPrices = {0, 2, 4}
  Ratio = 50
  TrialPrices = {0, 1, 2, 3, 4, 5, 6, 7, 8, 9, 10}
INVARIANTS MaximalVolume AcceptedByBest PressureRule FewTies OneRoundIsEnough
