SPECIFICATION FairSpec
CONSTANTS
  Master1 = m1
  Master2 = m2
  FailThreshold = 3
  FaultKinds <- LinkFaults
  MaxFaults = 4
  FenceRequired = FALSE
  BootPrimary = TRUE
  KubeReady = FALSE
INVARIANT OneMasterSurvives
PROPERTY AlivePeerNotFenced
