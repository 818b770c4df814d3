SPECIFICATION Spec
CONSTANTS
  n1 = n1
  n2 = n2
  c1 = c1
  c2 = c2
  None = None
  Nodes = {n1}
  Creators = {c1, c2}
  Home <- OneHome
  Projects = {1, 2}
  Timeouts = {0}
  Default = 0
  OneEndpoint = {1, 2}
  MaxSeq = 2
CHECK_DEADLOCK FALSE
PROPERTIES
  CreationSpaced
