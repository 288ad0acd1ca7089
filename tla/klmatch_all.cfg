SPECIFICATION Spec
CONSTANTS
  Main = main
  Threads = {main, t1, t2, t3}
  K0 = k0
  KThreads = {k0, k1, k2}
  NoThread = NoThread
  NoKThread = NoKThread
  Policies = {"KLMATCHHYPER", "KLALWAYS"}
  Cores = 1
  HyperThreads = 3
  PopenFails = TRUE
  CloneFails = TRUE
  DepInit = {NoThread}
  Calls <- RacingCreates
CHECK_DEADLOCK FALSE
SYMMETRY Symmetry
INVARIANTS TypeOK OneCarrier CountMatches KthreadBound
