SPECIFICATION FairSpec
CONSTANTS
  j1 = j1
  j2 = j2
  j3 = j3
  None = None
  Descs = {1, 2, 3}
  Broken = {3}
  Background = {1, 2}
  Endless = {1}
  Deaf = {2}
  Limit <- Unlimited
  MinInterval <- Unspaced
  Timeout <- NoTimeout
  MainTimeout = 0
  UpdateInterval = 1
  Jobs = {j1}
  MaxGen = 2
CHECK_DEADLOCK FALSE
PROPERTIES
  OldJobsEnd
  TableFollowed
  RuleServed
  ShutdownCompletes
