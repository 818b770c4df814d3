SPECIFICATION FairSpec
CONSTANTS
  n1 = n1
  n2 = n2
  c1 = c1
  c2 = c2
  None = None
  Nodes = {n1, n2}
  Creators = {c1}
  Home <- OneHome
  Projects = {1, 2}
  Timeouts = {0, 1}
  Default = 0
  OneEndpoint = {1}
  MaxSeq = 2
CHECK_DEADLOCK FALSE
INVARIANTS
  TypeOK
  LiveIsBacked
  DropLeavesTrace
  EveryProjectRecorded
  NamesUnique
  TimeoutTruthful
PROPERTIES
  LifecycleSpec
  CreationSpaced
  CreatorsReturn
