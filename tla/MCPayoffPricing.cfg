\* Payoff programs priced, derived and measured on every path of three values per
\* date, and rights of exercise on batches of four paths.
CONSTANTS
  None = None
  Panic = Panic
  Requests <- MCRequests
  Batch <- MCBatch
  Estimates = {10, 20, 40}
  Bump = 10
  Brownian <- MCBrownian
  EventOrder <- MCEventOrder
SPECIFICATION Spec
INVARIANTS
  AgreesWithReference
  FirstHitWins
  BridgeOnlyAdds
  ValidatedIsPriced
  PolicyHolds
  NoLookAhead
  GreekOfThePrice
  PortfolioNets
CHECK_DEADLOCK FALSE
