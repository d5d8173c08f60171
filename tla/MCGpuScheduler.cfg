\* Registrations, grants and releases in every order.
CONSTANTS
  none = none
  light = light
  middle = middle
  heavy = heavy
  Jobs <- MCJobs
  MemoryBytes <- MCMemoryBytes
  Devices = {d1, d2}
  Configs <- MCConfigs
  NoDevice = NoDevice
SPECIFICATION Spec
SYMMETRY DeviceSymmetry
INVARIANTS
  IInv
  CleanDeviceWithinBudget
