\* The handler of a started job fails after the sync process found the job.
SPECIFICATION Spec
CONSTANTS
  j1 = j1
  j2 = j2
  r1 = r1
  r2 = r2
  Jobs = {j1}
  Kind <- OneSubmit
  Requests = {r1}
  Api = {}
  SyncMode = "full"
  LongerIds <- NoneLonger1
  MaxOutages = 0
  MaxCrashes = 0
  ClientMayFail = FALSE
  UnknownReports = FALSE
INVARIANTS CreatingHasNoIdentity
