SPECIFICATION Spec
CONSTANTS
  Threads = {t1, t2, t3, t4}
  MainThread = main
  Nodes = {n1, n2, n3, n4}
  NULL = NULL
  Junk = Junk
  Programs = {"library", "queue"}
  Policies = {0, 1, 2, 3}
  CpuCores = {2, NoLine, NoFile}
  NoLine = NoLine
  NoFile = NoFile
  NumCpus = 4
  MaxCount = 5
CHECK_DEADLOCK FALSE
INVARIANTS Hw1TypeOK RingIntact
PROPERTIES QueueIsFifo
