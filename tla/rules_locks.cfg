SPECIFICATION Spec
CONSTANTS
  n1 = n1
  n2 = n2
  n3 = n3
  j1 = j1
  j2 = j2
  j3 = j3
  act = act
  wait = wait
  chg = chg
  None = None
  Nodes = {n1}
  Jobs = {j1, j2, j3}
  Projects = {1}
  Rules = {act, wait, chg}
  ExclusiveRules = {wait}
  ChangeRules = {chg}
  Modes = {0, 1}
  Home <- OneHome
  Limit <- ActLimit
  Matrix <- OneMatrix
  ProjectsN = 0
  SkipFailed = TRUE
  QueriesN = 2
  DatabaseLag = TRUE
  LagCoversInFlight = TRUE
SYMMETRY JobSymmetry
INVARIANTS
  TypeOK
  NoDeleteWhileQueried
  ExclusiveScenarioAlone
  LimitRespected
  CounterExact
  NoSecondDelete
PROPERTIES
  ModeStableWhileQueried
  DeletionSparesFailing
  AccessSpec
