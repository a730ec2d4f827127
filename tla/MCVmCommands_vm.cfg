SPECIFICATION FairSpec
CONSTANTS
  Jumpstart = "jumpstart"
  Batches <- MCBatches
  Replicated = {"master"}
  Nets <- MCNets
  Victims <- MCVictims
  Requests <- AllCommands
  MaxFaults = 2
INVARIANTS
  TypeOK
  DefinedHasDisks
  
  JudgedWhileOff
PROPERTIES
  
  RecreateConverges
