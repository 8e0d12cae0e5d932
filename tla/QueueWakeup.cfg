SPECIFICATION FairSpec
CONSTANTS
  EventLogs = {TRUE}
  MaxIntents = 3
  CommandKinds = {"message"}
  Steering = FALSE
  MaxEvents = 0
  MaxChats = 1
  MaxEpochs = 1
  MaxFacts = 0
  MaxDeaths = 0
  MaxFailedStarts = 0
  MaxRevision = 0
PROPERTIES QueuedIsTaken
CHECK_DEADLOCK FALSE
