\* A contract with a right of exercise, on one date, derived by likelihood ratio.
CONSTANTS
  None = None
  Panic = Panic
  Requests <- UndecidedRights
  Batch <- MCBatch
  Estimates = {10, 20, 40}
  Bump = 10
  Brownian <- MCBrownian
  EventOrder <- MCEventOrder
SPECIFICATION Spec
INVARIANT
  ExerciseIsDecided
CHECK_DEADLOCK FALSE
