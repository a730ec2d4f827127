SPECIFICATION FairSpec
CONSTANTS
  Hosts = {"jumpstart", "node"}
  Jump = "jumpstart"
  maxParallelHosts = 1
  Accounts = {TRUE, FALSE}
  Programs <- DeployAndVerify
  Dials = 4
  MaxFaults <- FaultBound
INVARIANTS
  TypeOK
  NoClosedConnectionInUse
  EveryConnectionTracked
  OneKeyPinned
  SftpNeverHalf
  
PROPERTIES
  
  ParallelCalls
