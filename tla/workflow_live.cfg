\* Two runs of two steps with a failing request: every run ends.
SPECIFICATION FairSpec
CONSTANTS
  r1 = r1
  Size = 2
  StepOf <- OneAndOne
  RunPolicy = "ignore_failed"
  InitialMax = 1
  EditedMax = {1}
  Requests = {r1}
  UnknownReports = FALSE
  MaxRuns = 2
  MaxErrors = 1
  MaxCrashes = 0
PROPERTIES WorkflowEnds
INVARIANTS JobsTracked CancelNotLost
