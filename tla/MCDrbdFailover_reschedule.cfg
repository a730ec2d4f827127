SPECIFICATION FairSpec
CONSTANTS
  Master1 = m1
  Master2 = m2
  FailThreshold = 2
  FaultKinds <- Crashes
  MaxFaults = 1
  FenceRequired = TRUE
  BootPrimary = TRUE
  KubeReady = TRUE
PROPERTY MariaDBRescheduled
