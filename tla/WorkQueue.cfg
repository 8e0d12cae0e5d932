SPECIFICATION Spec
CONSTANTS
  EventLogs = {TRUE, FALSE}
  MaxIntents = 5
  CommandKinds = {"message", "quit"}
  Steering = TRUE
  MaxEvents = 1
  MaxChats = 1
  MaxEpochs = 2
  MaxFacts = 2
  MaxDeaths = 2
  MaxFailedStarts = 1
  MaxRevision = 3
CONSTRAINT OneTrouble
INVARIANTS OrphansReported RetiredByReconciliation ToldOnce EnteredOnce
PROPERTIES SettledIsFinal
CHECK_DEADLOCK FALSE
