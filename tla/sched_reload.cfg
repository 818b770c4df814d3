SPECIFICATION Spec
CONSTANTS
  j1 = j1
  j2 = j2
  j3 = j3
  None = None
  Descs = {1, 2}
  Broken = {}
  Background = {1}
  Endless = {1}
  Deaf = {}
  Limit <- OneAtATime
  MinInterval <- Spaced
  Timeout <- JobsTimeOut
  MainTimeout = 0
  UpdateInterval = 1
  Jobs = {j1}
  MaxGen = 2
CHECK_DEADLOCK FALSE
PROPERTIES
  RunsSpacedOverReloads
