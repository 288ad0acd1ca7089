SPECIFICATION FairSpec
CONSTANTS
  Builds = {"ulonly", "mypthread", "pthread"}
  Workers = {w1, w2}
  Clients = {main, c1}
  Main = main
  Tasks = {t1, t2, t3}
  NoTask = NoTask
  Nobody = Nobody
CHECK_DEADLOCK FALSE
INVARIANTS PoolTypeOK
PROPERTIES ImplementsPool QueuedRuns
