SPECIFICATION FairSpec
CONSTANTS
  Master1 = m1
  Master2 = m2
  FailThreshold = 2
  FaultKinds <- StorageFaults
  MaxFaults = 2
  FenceRequired = TRUE
  BootPrimary = FALSE
  KubeReady = FALSE
INVARIANTS
  TypeOK
  NoDualPrimary
PROPERTIES
  VolumeIsFenced
  SurvivorServes
