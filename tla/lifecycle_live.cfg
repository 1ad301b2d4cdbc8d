\* Full mode: everything is resolved and charged.
SPECIFICATION FairSpec
CONSTANTS
  j1 = j1
  j2 = j2
  r1 = r1
  r2 = r2
  Jobs = {j1}
  Kind <- OneSubmit
  Requests = {r1}
  Api = {"cancel"}
  SyncMode = "full"
  LongerIds <- NoneLonger1
  MaxOutages = 1
  MaxCrashes = 0
  ClientMayFail = FALSE
  UnknownReports = FALSE
PROPERTIES NoStuckWaiting CancellationResolves VisibleCompletionsCharged
