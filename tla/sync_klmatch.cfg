SPECIFICATION SyncSpec
CONSTANTS
  Main = main
  Threads = {main, t1, t2}
  K0 = k0
  KThreads = {k0, k1}
  NoThread = NoThread
  NoKThread = NoKThread
  Policies = {"KLMATCHCORES"}
  Cores = 2
  HyperThreads = 1
  PopenFails = FALSE
  CloneFails = FALSE
  DepInit = {NoThread}
  Calls <- Mixed
  Mutexes = {m1}
  Conds = {c1}
  NoCond = NoCond
CHECK_DEADLOCK FALSE
SYMMETRY Symmetry
INVARIANTS SyncTypeOK BlockedOnHeldMutex BlockedIsListed WaitBeforeNotify
PROPERTIES ImplementsMutex
