\* XVA requests with cubes of their own, or on small priced portfolios.
CONSTANTS
  swap5y = swap5y
  swap10y = swap10y
  option = option
  irs = irs
  fx = fx
  MaxTrades = 5
  NotEmbedded = NotEmbedded
  NoValue = NoValue
  Absent = Absent
  Products <- MCProducts
  Layout <- MCLayout
  Portfolios <- MCPortfolios
  Worth <- MCWorth
  Survival <- MCSurvival
  XvaRequests <- MCXvaRequests
  NettingSets = {"A", "B"}
  DefaultSet = "default"
  TradeIds = {1, 2, 3, 4, 5}
  Unit = 4
  max_products = 4
  max_batch_items = 2
  max_derived_paths = 3
SPECIFICATION MCSpec
INVARIANTS
  XvaIInv
  SetsApartWithoutP
  LossBounded
PROPERTY
  ImplementsSettlement
\* A call ends.
CHECK_DEADLOCK FALSE
