\* Two scenarios on portfolios of up to four trades, some above max_products.
CONSTANTS
  swap = swap
  option = option
  irs = irs
  fx = fx
  MaxTrades = 4
  NotEmbedded = NotEmbedded
  NoValue = NoValue
  NoChunkSize = NoChunkSize
  Products <- MCProducts
  Layout <- MCLayout
  Portfolios <- MCPortfolios
  max_products = 3
  max_batch_items = 2
  MaxScenarios = 2
SPECIFICATION RunSpec
INVARIANT
  RunIInv
PROPERTIES
  RunEnds
\* A run ends.
CHECK_DEADLOCK FALSE
