SPECIFICATION Spec
CONSTANTS
  Symbols = {a, b}
  InitialCash = 10
  MaxPositionPct = 25
  MaxPositions = 2
  MaxDrawdownPct = 50
  DailyLossPct = 20
  MaxLossStreak = 2
  Tiers <- MCTiers
  Recommended = {2}
  RiskPct = 25
  FallbackPct = 30
  FallbackLosses = 2
  Prices = {1, 2}
  StandardFee = 1
  Fees = {0}
  MaxTrades = 3
  MaxHeld = 2
  MaxRestarts = 1
INVARIANTS
  TypeOK
  MoneyIsConserved
  KillSwitchIsExact
  ProgressMatchesHistory
PROPERTIES
  TierMovesAreEarned
CHECK_DEADLOCK FALSE
