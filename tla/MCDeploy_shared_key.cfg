SPECIFICATION Spec
CONSTANTS
  LaterPhases <- MCLaterPhases
  Requests <- FreshOrResume
  Stagger = FALSE
  MaxFaults = 1
INVARIANT ResumeSkipsCompletedOnly
