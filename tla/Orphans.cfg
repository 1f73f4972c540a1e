SPECIFICATION FairSpec
CONSTANTS
  Tasks = {1}
  Workers = {w1}
  Workspaces = {dir}
  WorkspaceOf <- MCShared
  NoWorker = NoWorker
  Gone = Gone
  FailureLimit = 2
  EnvLimit = 1
  Daemons = {w1}
  NoTask = NoTask
  KillOnClose = TRUE
  LeaseMayLapseMidTick = TRUE
  MaxDisturbances = 1
PROPERTY OrphansAreSwept
