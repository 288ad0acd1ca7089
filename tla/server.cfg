SPECIFICATION FairSpec
CONSTANTS
  Clients = {c1, c2}
  Workers = {w1, w2}
  MaxConns = 2
  Fds = {3, 4}
  BadFd = BadFd
  NoConn = NoConn
  Bytes = 3
  NumLoops = 1
  Backlog = 1
  Programs = {"server", "server_io"}
CHECK_DEADLOCK FALSE
INVARIANTS ServerTypeOK AnswerIsOwn WorkerHasConnection DoneIsClosed
PROPERTIES ClientGoesOn
