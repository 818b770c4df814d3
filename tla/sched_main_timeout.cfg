SPECIFICATION FairSpec
CONSTANTS
  j1 = j1
  j2 = j2
  j3 = j3
  None = None
  Descs = {1}
  Broken = {}
  Background = {1}
  Endless = {1}
  Deaf = {}
  Limit <- Unlimited
  MinInterval <- Unspaced
  Timeout <- NoTimeout
  MainTimeout = 1
  UpdateInterval = 1
  Jobs = {j1}
  MaxGen = 1
CHECK_DEADLOCK FALSE
PROPERTIES
  RuleServed
