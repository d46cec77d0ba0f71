CONSTANTS
  Ids = {1, 2, 3}
  Calls = {worker, check}
  None = None
  Edits <- MCEdits
  Cones <- MCCones
  Decay = 1
  Retain = 1
  Percent = 25
  LastEdit = 1
  MaxObservations = 3
  MaxTime = 3
SPECIFICATION FairSpec
INVARIANT AlertsAreExact
INVARIANT OwnAlertsFirst
PROPERTY IdleSessionsExpire
CHECK_DEADLOCK FALSE
