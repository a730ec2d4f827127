SPECIFICATION Spec
CONSTANTS
  Master1 = m1
  Master2 = m2
  FailThreshold = 2
  FaultKinds <- CrashAndRepl
  MaxFaults = 2
  FenceRequired = TRUE
  BootPrimary = TRUE
  KubeReady = FALSE
INVARIANT NoDualPrimary
