SPECIFICATION FairSpec
CONSTANTS
  Main = main
  Threads = {main, t1, t2, t3}
  K0 = k0
  KThreads = {k0}
  NoThread = NoThread
  NoKThread = NoKThread
  Policies = {"ULONLY"}
  Cores = 4
  HyperThreads = 2
  PopenFails = FALSE
  CloneFails = FALSE
  DepInit <- AnyDep
  Calls <- ForkJoin
CHECK_DEADLOCK FALSE
INVARIANTS NoThreadLost
PROPERTIES JoinWaitsForExit JoinersReleased
