\* A workflow created with max_submit_jobs 0 is left although nothing of it runs.
SPECIFICATION Spec
CONSTANTS
  r1 = r1
  Size = 2
  StepOf <- OneAndOne
  RunPolicy = "all_completed"
  InitialMax = 0
  EditedMax = {1}
  Requests = {r1}
  UnknownReports = FALSE
  MaxRuns = 1
  MaxErrors = 0
  MaxCrashes = 0
PROPERTIES ReturnsWhileRunning
