SPECIFICATION Spec
CONSTANTS
  Main = main
  Threads = {main, t1}
  K0 = k0
  KThreads = {k0}
  NoThread = NoThread
  NoKThread = NoKThread
  Policies = {"ULONLY"}
  Cores = 4
  HyperThreads = 2
  PopenFails = FALSE
  CloneFails = FALSE
  DepInit = {NoThread}
  Calls <- JoinAndYield
CHECK_DEADLOCK FALSE
PROPERTIES EnqueueReaches
