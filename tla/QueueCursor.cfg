SPECIFICATION Spec
CONSTANTS
  EventLogs = {TRUE}
  MaxIntents = 3
  CommandKinds = {"message"}
  Steering = FALSE
  MaxEvents = 1
  MaxChats = 0
  MaxEpochs = 1
  MaxFacts = 0
  MaxDeaths = 0
  MaxFailedStarts = 0
  MaxRevision = 0
INVARIANTS CursorBehindLedger
CHECK_DEADLOCK FALSE
