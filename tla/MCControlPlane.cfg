\* Stops that time out, failed appends, a restart and a fresh life.
SPECIFICATION Spec
CONSTANTS
  MaxRuns = 2
  MaxProposals = 1
  MaxUpsets = 2
INVARIANTS
  OneLoopUnlessAbandoned
  EndIsTold
  CarriedOutOnce
  DeltaConserved
  SavedAtRest
  NoProposalHidden
  StreamComplete
PROPERTIES
  ApprovalReachesLoop
CHECK_DEADLOCK FALSE
