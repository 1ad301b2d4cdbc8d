\* Two API workers delete, cancel and comment one job, with the roll-back of a refused cancel.
SPECIFICATION Spec
CONSTANTS
  j1 = j1
  j2 = j2
  r1 = r1
  r2 = r2
  Jobs = {j1}
  Kind <- OneSubmit
  Requests = {r1, r2}
  Api = {"delete", "cancel", "comment"}
  SyncMode = "full"
  LongerIds <- NoneLonger1
  MaxOutages = 0
  MaxCrashes = 0
  ClientMayFail = FALSE
  UnknownReports = FALSE
INVARIANTS TypeOK DeletesStick
PROPERTIES SyncKeepsCancel
