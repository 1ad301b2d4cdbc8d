\* A console job and a rerun one in the same rounds; a batch cancel of the first reaches the second.
SPECIFICATION Spec
CONSTANTS
  j1 = j1
  j2 = j2
  r1 = r1
  r2 = r2
  Jobs = {j1, j2}
  Kind <- ConsoleRerun
  Requests = {r1}
  Api = {"batch_cancel"}
  SyncMode = "full"
  LongerIds <- SecondLonger
  MaxOutages = 0
  MaxCrashes = 0
  ClientMayFail = TRUE
  UnknownReports = FALSE
INVARIANTS CompletionsCharged
