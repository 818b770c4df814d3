SPECIFICATION Spec
CONSTANTS
  n1 = n1
  n2 = n2
  n3 = n3
  j1 = j1
  j2 = j2
  j3 = j3
  act = act
  wait = wait
  chg = chg
  None = None
  Nodes = {n1}
  Jobs = {j1}
  Projects = {1}
  Rules = {act}
  ExclusiveRules = {}
  ChangeRules = {}
  Modes = {0}
  Home <- OneHome
  Limit <- ActLimit
  Matrix <- OneMatrix
  ProjectsN = 0
  SkipFailed = FALSE
  QueriesN = 1
  DatabaseLag = FALSE
  LagCoversInFlight = TRUE
INVARIANTS
  NoQueryAfterDelete
