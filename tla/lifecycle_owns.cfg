\* Owns mode: the waiting rows are asked for one by one; an outage, a kill and failing charges.
SPECIFICATION FairSpec
CONSTANTS
  j1 = j1
  j2 = j2
  r1 = r1
  r2 = r2
  Jobs = {j1}
  Kind <- OneSubmit
  Requests = {r1}
  Api = {"batch_cancel", "delete", "hold", "release", "suspend", "resume", "requeue"}
  SyncMode = "owns"
  LongerIds <- NoneLonger1
  MaxOutages = 1
  MaxCrashes = 1
  ClientMayFail = TRUE
  UnknownReports = TRUE
INVARIANTS GraceIsContinuous CompletionsCharged
PROPERTIES NoStuckWaiting CancellationResolves
