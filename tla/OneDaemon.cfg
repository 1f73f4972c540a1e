SPECIFICATION FairSpec
CONSTANTS
  Tasks = {1, 2}
  Workers = {w1}
  Workspaces = {dir1}
  WorkspaceOf <- MCShared
  NoWorker = NoWorker
  Gone = Gone
  FailureLimit = 2
  EnvLimit = 1
  Daemons = {w1}
  NoTask = NoTask
  KillOnClose = FALSE
  LeaseMayLapseMidTick = TRUE
  MaxDisturbances = 1
INVARIANTS
  TypeOK
  RunStartsSound
PROPERTIES
  OpenWorkCloses
  EveryTaskSettles
