SPECIFICATION Spec
CONSTANTS
  EventTypes <- MCEventTypes
  Subjects <- MCSubjects
  Portfolios <- MCPortfolios
  Trades <- MCTrades
  Handlers = {"gate", "venue", "application"}
  Symbols = {a}
  Capitals = {100}
  MaxPerMinute = 1
  Minute = 2
  SinglePct = 4
  TotalPct = 10
  SectorPct = 20
  HeatPct = 25
  MaxDrawdownPct = 50
  DailyLossPct = 20
  MaxLossStreak = 2
  Orders = {o1, o2}
  MaxTime = 2
  MaxActs = 2
SYMMETRY OrdersAlike
INVARIANTS
  TypeOK
  RateIsKept
  OneVerdictEach
PROPERTIES
  TripStopsOrders
CHECK_DEADLOCK FALSE
