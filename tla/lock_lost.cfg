SPECIFICATION SyncSpec
CONSTANTS
  Main = main
  Threads = {main, t1}
  K0 = k0
  KThreads = {k0}
  NoThread = NoThread
  NoKThread = NoKThread
  Policies = {"ULONLY"}
  Cores = 2
  HyperThreads = 1
  PopenFails = FALSE
  CloneFails = FALSE
  DepInit = {NoThread}
  Calls <- Contention
  Mutexes = {m1}
  Conds = {c1}
  NoCond = NoCond
CHECK_DEADLOCK FALSE
INVARIANTS HolderGoesOn
