SPECIFICATION FairSpec
CONSTANTS
  Master1 = m1
  Master2 = m2
  FailThreshold = 2
  FaultKinds <- KubeFaults
  MaxFaults = 2
  FenceRequired = TRUE
  BootPrimary = TRUE
  KubeReady = TRUE
 
PROPERTY LabelFollowsPrimary
