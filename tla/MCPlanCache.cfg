\* Clones extended, compiled with and dropped in every order.
CONSTANTS
  swaps = swaps
  fast = fast
  options = options
  book = book
  mixed = mixed
  Threads = {t1, t2}
  Registries = {first, second}
  First = first
  Kernels <- MCKernels
  Rank <- MCRank
  Supported <- MCSupported
  Requests <- MCRequests
  Families <- MCFamilies
SPECIFICATION Spec
SYMMETRY ThreadSymmetry
INVARIANTS
  IInv
