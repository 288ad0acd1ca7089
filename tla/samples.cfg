SPECIFICATION Spec
CONSTANTS
  MainThread = main
  Nobody = Nobody
  Checker = checker
  Size = 4
  Policies = {"ULONLY", "KLALWAYS", "pthread"}
  Raw = Raw
  Destroyed = Destroyed
  Threads = {t1, t2, t3}
  First = t1
  Second = t2
  CountHalt1 = 3
  CountHalt2 = 6
  CountDone = 10
  Rounds = 5
INVARIANTS
     HaltsBetween  TurnsAlternate
PROPERTIES SortEnds BothCountersEnd BothPlayersLeave
