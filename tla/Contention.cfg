SPECIFICATION Spec
CONSTANTS
  Tasks = {1}
  Workers = {w1, w2, w3}
  Workspaces = {dir1}
  WorkspaceOf <- MCShared
  NoWorker = NoWorker
  Gone = Gone
  FailureLimit = 2
  EnvLimit = 1
  Daemons = {w1, w2, w3}
  NoTask = NoTask
  KillOnClose = FALSE
  LeaseMayLapseMidTick = FALSE
  MaxDisturbances = 2
SYMMETRY MCSymmetry
INVARIANT OneAgentPerTask
