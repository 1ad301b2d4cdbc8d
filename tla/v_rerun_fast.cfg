\* A rerun job that ends before its handler asks for it is not charged.
SPECIFICATION Spec
CONSTANTS
  j1 = j1
  j2 = j2
  r1 = r1
  r2 = r2
  Jobs = {j1}
  Kind <- OneRerun
  Requests = {r1}
  Api = {}
  SyncMode = "full"
  LongerIds <- NoneLonger1
  MaxOutages = 0
  MaxCrashes = 0
  ClientMayFail = FALSE
  UnknownReports = FALSE
INVARIANTS FastCompletionCharged
