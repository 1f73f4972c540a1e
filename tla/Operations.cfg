SPECIFICATION MCSpec
CONSTANTS
  Children <- MCBoth
  MaxRestarts = 2
  Window = 7
  Healthy = 2
  Base = 1
  MaxDelay = 2
  MaxFaults = 1
  Supervisors = {v1, v2, v3}
  Nobody = Nobody
  MayDie = TRUE
  Jobs = {1, 2, 3}
  InTree = {3}
  s1 = s1
  Sources = {s1}
  SourceOf <- MCSourceOf
  Beside = Beside
  Nil = Nil
  Dead = Dead
  Evidence <- MCEvidence
  Override = 0
  TryLimit = 1
  MaxMishaps = 1
  Lines = 2
  MaxNights = 3
  MaxEdits = 1
  MaxBoardRows = 3
  Walk = 2
  Reach = 2
  Never = Never
  StaleAfter = 2
  MaxTime = 6
  MaxLost = 1
  fast = fast
  steady = steady
  big = big
  small = small
  paid = paid
  free = free
  local = local
  Registries <- MCRegistries
  RouteNames = {fast, steady}
  Models = {big, small}
  Unrouted = Unrouted
  Unknown = Unknown
  Lanes = {paid, free, local}
  Tier <- MCTier
  Permitted = {paid, free, local}
  Declared = paid
  Floor = local
  MinSamples = 1
  MaxHours = 2
  MaxRows = 3
  Windows = TRUE
  Offspring = {k1, k2}
CHECK_DEADLOCK FALSE
INVARIANTS
  OperationsTypeOK
  FleetEndsCleanly
  FileNamesDaemons
  FleetIsKnown
  ApartInWaves
  AgentIsInPlace
  WorkKeepsClaim
  VerifiedWasAdmitted
  RunsContained
  ProvenGone
PROPERTIES
  LinesAreKept
  ChoiceIsSound
  MCFleetMoves
  MCWorkComesBack
