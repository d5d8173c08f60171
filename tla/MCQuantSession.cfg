\* A client builds, edits and forks its document, and asks for prices and risk.
CONSTANTS
  Absent = Absent
  Null = Null
  NotANumber = NotANumber
  MaxRevision = 2
  IdOrder <- MCIdOrder
  max_payment_periods = 2
  max_products = 2
  HandEdits = {"product"}
  ForkUpTo = 1
  Npv <- MCNpv
  Greek <- MCGreek
  Unit = 2
  PV01_SCALE = 3
  DEFAULT_BUMP = 1
  Batches <- MCBatches
  Mutations <- MCMutations
  RiskAsks <- MCRiskAsks
SPECIFICATION Spec
INVARIANTS
  Transactional
  SessionIInv
  ReadingsAgree
  MatrixFaithful
  WorkShared
