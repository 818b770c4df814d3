SPECIFICATION Spec
CONSTANTS
  n1 = n1
  n2 = n2
  j1 = j1
  j2 = j2
  None = None
  Nodes = {n1, n2}
  Jobs = {j1}
  SuspendTimeoutSeconds = 8
  DefaultTimeout = 5
  Margin = 2
  Late = 1
  Grace = 1
PROPERTIES
  RoundEveryQuarter
