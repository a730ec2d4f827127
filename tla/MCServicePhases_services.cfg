SPECIFICATION FairSpec
CONSTANTS
  LBs <- MCLBs
  Router = "router"
  Orders <- MCOrders
  Concurrency = 2
  Issues <- MCIssues
  MaxFaults = 2
INVARIANTS
  TypeOK
  FaultCostsOneBalancer
  
PROPERTIES
  
  HealthyKept
  
