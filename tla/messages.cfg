SPECIFICATION Spec
CONSTANTS
  Sockets = {s1, s2}
  NoSocket = NoSocket
  Chars = {"a", "b"}
  NUL = "NUL"
  Messages <- ShortMessages
  MaxRead = 3
  MaxSends = 4
  MaxReconnects = 1
CHECK_DEADLOCK FALSE
SYMMETRY Symmetry
INVARIANTS SmTypeOK NothingLost IncompleteIsLast CompleteIsEnded
