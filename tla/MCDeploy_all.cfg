SPECIFICATION FairSpec
CONSTANTS
  LaterPhases <- MCLaterPhases
  Requests <- AllRequests
  Stagger = TRUE
  MaxFaults = 2
INVARIANTS
  TypeOK
  RecordedPhaseSucceeded
  
PROPERTIES
  
  CheckpointRecords
  
  ResumeConverges
