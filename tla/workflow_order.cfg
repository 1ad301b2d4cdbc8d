\* Steps of two and one jobs, edits, a kill of the scanner and a job in UN.
SPECIFICATION Spec
CONSTANTS
  r1 = r1
  Size = 3
  StepOf <- TwoAndOne
  RunPolicy = "all_completed"
  InitialMax = 2
  EditedMax = {1}
  Requests = {r1}
  UnknownReports = TRUE
  MaxRuns = 1
  MaxErrors = 0
  MaxCrashes = 1
INVARIANTS TypeOK StepsInOrder MaxSubmitJobs JobsTracked
PROPERTIES EndsWhenOver
