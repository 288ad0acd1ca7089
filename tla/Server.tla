------------------------------- MODULE Server -------------------------------
(***************************************************************************)
(* server/server.c (or server_io.c) with its pool of workers, its clients  *)
(* (client.c), and the connections between them.  The pool is the one that *)
(* AbstractPool promises and Threadpool implements; a task is a            *)
(* connection's descriptor.                                                *)
(*                                                                         *)
(* request_client reads its descriptor from an uninitialised variable: the *)
(* worker takes any number.  lucky says that every worker so far happened  *)
(* to find the number it was given.                                        *)
(***************************************************************************)
EXTENDS SocketLib, FiniteSets, SequencesExt

CONSTANTS
  Clients, Workers,
  MaxConns,     \* bound: connections the clients open
  Fds,          \* the server's descriptor numbers, in the order of accept
  BadFd,        \* any other number
  NoConn,
  Bytes,        \* REQUEST_SIZE and RESPONSE_SIZE
  NumLoops,
  Backlog,      \* of listen
  Programs      \* a subset of {"server", "server_io"}

Conns == Clients \X (1 .. MaxConns)

ASSUME ServerAssumption ==
  /\ IsFiniteSet(Clients) /\ IsFiniteSet(Workers) /\ Fds \subseteq Nat
  /\ BadFd \notin Fds /\ NoConn \notin Conns
  /\ {MaxConns, Bytes, Backlog} \subseteq Nat \ {0} /\ NumLoops \in Nat
  /\ Programs \subseteq {"server", "server_io"}

VARIABLES
  prog, spc,        \* the server's program; where its main thread is
  backlog, file,    \* connections not yet accepted; what a descriptor is
  queue, running, done,      \* the pool
  arg,              \* the descriptor dispatched with a connection
  wpc, task, fd, buf, pos,   \* each worker: request or response, bytes written
  cpc, n, got, sockets,      \* each client: its n-th connection, the answer so
                             \* far, and how many sockets it has open
  up, down,         \* each connection's bytes on their way, by direction
  cEnd, sEnd,       \* whether the client's and the server's end is open
  lucky             \* ghost: no worker has taken another number than its own

pool == <<queue, running, done>>
worker == <<wpc, task, fd, buf, pos>>
client == <<cpc, n, got, sockets>>
wire == <<up, down>>
conns == <<cEnd, sEnd>>
mainThread == <<prog, spc, backlog, arg>>
vars == <<mainThread, file, pool, worker, client, wire, conns, lucky>>

Pool == INSTANCE AbstractPool WITH Tasks <- Conns

Alive == spc # "dead"
Take(s, k) == SubSeq(s, 1, k)
Drop(s, k) == SubSeq(s, k + 1, Len(s))

\* The request a client sends on a connection.
Request(k) == [b \in 1 .. Bytes |-> <<k, b>>]

\* A byte of memory that belongs to nothing.
Junk == <<NoConn, 0>>

\* Each loop of process_request brings the first byte through all places and
\* back to the first: the others move up by one.
Munged(r) ==
  [b \in 1 .. Bytes |->
     IF b = 1 THEN r[1] ELSE r[2 + ((b - 2 + NumLoops) % (Bytes - 1))]]

Everywhere(S, value) == [x \in S |-> value]

Init ==
  /\ prog \in Programs /\ spc = "setup" /\ backlog = <<>>
  /\ file = Everywhere(Fds, NoConn) /\ arg = Everywhere(Conns, BadFd)
  /\ Pool!Init
  /\ wpc = Everywhere(Workers, "idle") /\ task = Everywhere(Workers, NoConn)
  /\ fd = Everywhere(Workers, BadFd) /\ pos = Everywhere(Workers, 0)
  /\ buf = Everywhere(Workers, <<>>)
  /\ cpc = Everywhere(Clients, "connect") /\ n = Everywhere(Clients, 0)
  /\ got = Everywhere(Clients, <<>>) /\ sockets = Everywhere(Clients, 0)
  /\ up = Everywhere(Conns, <<>>) /\ down = Everywhere(Conns, <<>>)
  /\ cEnd = Everywhere(Conns, FALSE) /\ sEnd = Everywhere(Conns, FALSE)
  /\ lucky = TRUE

\* The process ends and its memory is gone; the system closes its ends of all
\* connections.
ServerDies ==
  /\ spc' = "dead" /\ backlog' = <<>>
  /\ file' = Everywhere(Fds, NoConn) /\ arg' = Everywhere(Conns, BadFd)
  /\ queue' = <<>> /\ running' = {} /\ done' = {}
  /\ wpc' = Everywhere(Workers, "idle") /\ task' = Everywhere(Workers, NoConn)
  /\ fd' = Everywhere(Workers, BadFd) /\ pos' = Everywhere(Workers, 0)
  /\ buf' = Everywhere(Workers, <<>>)
  /\ sEnd' = Everywhere(Conns, FALSE)
  /\ UNCHANGED <<prog, client, wire, cEnd, lucky>>

----------------------------------------------------------------------------
\* The server's main thread

SetupListen ==
  /\ spc = "setup"
  /\ \E o \in slisten("digits") : spc' = IF o.ok THEN "accept" ELSE "dead"
  /\ UNCHANGED <<prog, backlog, arg, file, pool, worker, client, wire, conns, lucky>>

\* (Bug) main closes the descriptor it has handed over.
AcceptAndClose ==
  /\ spc = "accept" /\ backlog # <<>>
  /\ \E o \in saccept, f \in Fds :
       /\ o.ok /\ file[f] = NoConn /\ \A g \in Fds : g < f => file[g] # NoConn
       /\ arg' = [arg EXCEPT ![Head(backlog)] = f]
  /\ backlog' = Tail(backlog)
  /\ Pool!Submit(Head(backlog))
  /\ sEnd' = [sEnd EXCEPT ![Head(backlog)] = FALSE]
  /\ UNCHANGED <<prog, spc, file, worker, client, wire, cEnd, lucky>>

\* The lowest free descriptor becomes the connection, and is dispatched.
Accept ==
  /\ spc = "accept" /\ backlog # <<>>
  /\ \E o \in saccept, f \in Fds :
       /\ o.ok /\ file[f] = NoConn /\ \A g \in Fds : g < f => file[g] # NoConn
       /\ file' = [file EXCEPT ![f] = Head(backlog)]
       /\ arg' = [arg EXCEPT ![Head(backlog)] = f]
  /\ backlog' = Tail(backlog)
  /\ Pool!Submit(Head(backlog))
  /\ UNCHANGED <<prog, spc, worker, client, wire, conns, lucky>>

\* An error of accept, for one that no descriptor is free, ends the server.
AcceptFails ==
  /\ spc = "accept"
  /\ \E o \in saccept : ~o.ok
  /\ ServerDies

----------------------------------------------------------------------------
\* request_client

\* What most steps of a worker leave alone.
elsewhere == <<mainThread, client, cEnd, lucky>>

In(w, label) == Alive /\ wpc[w] = label
To(w, label) == wpc' = [wpc EXCEPT ![w] = label]

\* The connection a worker's descriptor stands for at this moment.
Conn(w) == IF fd[w] \in Fds THEN file[fd[w]] ELSE NoConn

\* A worker takes the first task; its descriptor is what the stack holds.
StartTask(w) ==
  /\ In(w, "idle") /\ Pool!Start
  /\ task' = [task EXCEPT ![w] = Head(queue)]
  /\ To(w, "read")
  /\ \E f \in Fds \cup {BadFd} :
       /\ fd' = [fd EXCEPT ![w] = f]
       /\ lucky' = (lucky /\ f = arg[Head(queue)])
  /\ UNCHANGED <<mainThread, client, file, buf, pos, wire, conns>>

\* One read of correct_read, of a part of what is there.
ReadSome(w) ==
  LET k == Conn(w) IN
  /\ In(w, "read") /\ k # NoConn
  /\ \E m \in 1 .. Len(up[k]) :
       /\ Len(buf[w]) + m <= Bytes
       /\ buf' = [buf EXCEPT ![w] = @ \o Take(up[k], m)]
       /\ up' = [up EXCEPT ![k] = Drop(@, m)]
  /\ To(w, IF Len(buf'[w]) = Bytes THEN "process" ELSE "read")
  /\ UNCHANGED <<elsewhere, file, pool, task, fd, pos, down, sEnd>>

ReadGivesUp(w) ==
  /\ In(w, "read")
  /\ To(w, "close")
  /\ buf' = [buf EXCEPT ![w] = <<>>]
  /\ UNCHANGED <<elsewhere, file, pool, task, fd, pos, wire, sEnd>>

\* A bad descriptor, or the end of file.
ReadEnds(w) ==
  /\ IF Conn(w) = NoConn THEN TRUE ELSE up[Conn(w)] = <<>> /\ ~cEnd[Conn(w)]
  /\ ReadGivesUp(w)

\* server.c: the response is made of the request.
Process(w) ==
  /\ In(w, "process") /\ prog = "server"
  /\ To(w, "write")
  /\ buf' = [buf EXCEPT ![w] = Munged(@)]
  /\ UNCHANGED <<elsewhere, file, pool, task, fd, pos, wire, sEnd>>

\* server_io.c returns the address of a local buffer, which compilers make null,
\* or not, and leaves the length unset: what it happens to be, one byte more
\* than a client reads standing for all that is longer.
ProcessFile(w) ==
  /\ In(w, "process") /\ prog = "server_io"
  /\ \E m \in 0 .. Bytes + 1 : buf' = [buf EXCEPT ![w] = [b \in 1 .. m |-> Junk]]
  /\ To(w, IF buf'[w] = <<>> THEN "close" ELSE "write")
  /\ UNCHANGED <<elsewhere, file, pool, task, fd, pos, wire, sEnd>>

\* Its file may be missing: fscanf reads from a null pointer.
FileMissing(w) == In(w, "process") /\ prog = "server_io" /\ ServerDies

\* (Bug) Each write starts at the first byte again.
Unwritten0(w) == buf[w]

\* data + sofar, up to len
Unwritten(w) == Drop(buf[w], pos[w])

\* One write of correct_write.  What goes to a closed end is lost.
WriteSome(w) ==
  LET k == Conn(w) IN
  /\ In(w, "write") /\ k # NoConn
  /\ \E m \in 1 .. Len(Unwritten(w)) :
       /\ pos' = [pos EXCEPT ![w] = @ + m]
       /\ down' = IF cEnd[k] THEN [down EXCEPT ![k] = @ \o Take(Unwritten(w), m)] ELSE down
  /\ To(w, IF pos'[w] = Len(buf[w]) THEN "close" ELSE "write")
  /\ UNCHANGED <<elsewhere, file, pool, task, fd, buf, up, sEnd>>

\* Or, to a client that has read its fill and closed, it raises SIGPIPE, which
\* the server does not handle.
WriteKills(w) ==
  /\ In(w, "write")
  /\ IF Conn(w) = NoConn THEN FALSE ELSE ~cEnd[Conn(w)]
  /\ ServerDies

\* A bad descriptor, or an error other than EAGAIN and EINTR.
WriteGivesUp(w) ==
  /\ In(w, "write")
  /\ To(w, "close")
  /\ UNCHANGED <<elsewhere, file, pool, task, fd, buf, pos, wire, sEnd>>

\* (Bug) A worker without a response does not close.
CloseAnswered(w) ==
  IF Conn(w) = NoConn \/ buf[w] = <<>>
  THEN UNCHANGED <<file, sEnd>>
  ELSE /\ file' = [file EXCEPT ![fd[w]] = NoConn]
       /\ sEnd' = [sEnd EXCEPT ![Conn(w)] = FALSE]

Close(w) ==
  IF Conn(w) = NoConn
  THEN UNCHANGED <<file, sEnd>>
  ELSE /\ file' = [file EXCEPT ![fd[w]] = NoConn]
       /\ sEnd' = [sEnd EXCEPT ![Conn(w)] = FALSE]

\* close, then the frees
EndTask(w) ==
  /\ In(w, "close")
  /\ prog = "server" \/ buf[w] = <<>>
  /\ Close(w)
  /\ Pool!Finish(task[w])
  /\ To(w, "idle")
  /\ task' = [task EXCEPT ![w] = NoConn]
  /\ fd' = [fd EXCEPT ![w] = BadFd]
  /\ buf' = [buf EXCEPT ![w] = <<>>]
  /\ pos' = [pos EXCEPT ![w] = 0]
  /\ UNCHANGED <<elsewhere, wire>>

\* server_io frees its local buffer, which ends the process.
FreesLocal(w) == In(w, "close") /\ prog = "server_io" /\ buf[w] # <<>> /\ ServerDies

\* Without the errors of reads and writes, which need not happen.
WorkerGoesOn(w) ==
  \/ StartTask(w) \/ ReadSome(w) \/ ReadEnds(w)
  \/ Process(w) \/ ProcessFile(w) \/ FileMissing(w)
  \/ WriteSome(w) \/ WriteKills(w) \/ EndTask(w) \/ FreesLocal(w)
  \/ (Conn(w) = NoConn /\ WriteGivesUp(w))

WorkerStep(w) == WorkerGoesOn(w) \/ ReadGivesUp(w) \/ WriteGivesUp(w)

----------------------------------------------------------------------------
\* client.c

Mine(c) == <<c, n[c]>>

CTo(c, label) == cpc' = [cpc EXCEPT ![c] = label]
apart == <<mainThread, file, pool, worker, lucky>>

\* A client that cannot connect exits; sconnect may leave its socket open.
ConnectFails(c) ==
  /\ cpc[c] = "connect"
  /\ \E o \in sconnect("word", "digits") :
       /\ ~o.ok
       /\ sockets' = [sockets EXCEPT ![c] = @ + IF o.opened THEN 1 ELSE 0]
  /\ CTo(c, "exited")
  /\ UNCHANGED <<apart, n, got, wire, conns>>

\* The connections that clients have opened so far.
Opened == {k \in Conns : k[2] <= n[k[1]]}

Connect(c) ==
  LET k == <<c, n[c] + 1>> IN
  /\ cpc[c] = "connect" /\ Cardinality(Opened) < MaxConns
  /\ spc = "accept" /\ Len(backlog) <= Backlog
  /\ \E o \in sconnect("word", "digits") : o.ok
  /\ n' = [n EXCEPT ![c] = @ + 1]
  /\ sockets' = [sockets EXCEPT ![c] = @ + 1]
  /\ got' = [got EXCEPT ![c] = <<>>]
  /\ backlog' = Append(backlog, k)
  /\ cEnd' = [cEnd EXCEPT ![k] = TRUE]
  /\ sEnd' = [sEnd EXCEPT ![k] = TRUE]
  /\ CTo(c, "write")
  /\ UNCHANGED <<prog, spc, arg, file, pool, worker, wire, lucky>>

\* correct_write: the whole request (short enough for one write), or an error.
SendRequest(c) ==
  /\ cpc[c] = "write"
  /\ \/ CTo(c, "read") /\ up' = [up EXCEPT ![Mine(c)] = Request(Mine(c))]
     \/ CTo(c, "close") /\ UNCHANGED up
  /\ UNCHANGED <<apart, n, got, sockets, down, conns>>

\* correct_read: until all is there, or the end of file (or a reset connection,
\* which drops what is on its way).
ReadAnswer(c) ==
  LET k == Mine(c) IN
  /\ cpc[c] = "read"
  /\ \/ /\ \E m \in 1 .. Len(down[k]) :
             /\ Len(got[c]) + m <= Bytes
             /\ got' = [got EXCEPT ![c] = @ \o Take(down[k], m)]
             /\ down' = [down EXCEPT ![k] = Drop(@, m)]
        /\ CTo(c, IF Len(got'[c]) = Bytes THEN "close" ELSE "read")
     \/ /\ ~sEnd[k]
        /\ CTo(c, "close")
        /\ UNCHANGED <<got, down>>
  /\ UNCHANGED <<apart, n, sockets, up, conns>>

CloseSocket(c) ==
  /\ cpc[c] = "close"
  /\ cEnd' = [cEnd EXCEPT ![Mine(c)] = FALSE]
  /\ sockets' = [sockets EXCEPT ![c] = @ - 1]
  /\ CTo(c, "connect")
  /\ UNCHANGED <<apart, n, got, wire, sEnd>>

ClientStep(c) ==
  ConnectFails(c) \/ Connect(c) \/ SendRequest(c) \/ ReadAnswer(c) \/ CloseSocket(c)

----------------------------------------------------------------------------
Next ==
  \/ SetupListen \/ Accept \/ AcceptFails
  \/ \E w \in Workers : WorkerStep(w)
  \/ \E c \in Clients : ClientStep(c)

Spec == Init /\ [][Next]_vars

\* accept returns when a connection is there, and threads and clients run.
FairSpec ==
  /\ Spec
  /\ WF_vars(Accept \/ (backlog # <<>> /\ AcceptFails))
  /\ \A w \in Workers : WF_vars(WorkerGoesOn(w))
  /\ \A c \in Clients : WF_vars(ClientStep(c))

----------------------------------------------------------------------------
(***************************************************************************)
(* Properties                                                              *)
(***************************************************************************)

\* Every variable has its type.  A client that goes on has no socket but the one
\* it talks on: those that a failed sconnect leaves open end with the process.
ServerTypeOK ==
  /\ spc \in {"setup", "accept", "dead"} /\ lucky \in BOOLEAN
  /\ file \in [Fds -> Conns \cup {NoConn}] /\ arg \in [Conns -> Fds \cup {BadFd}]
  /\ wpc \in [Workers -> {"idle", "read", "process", "write", "close"}]
  /\ task \in [Workers -> Conns \cup {NoConn}] /\ fd \in [Workers -> Fds \cup {BadFd}]
  /\ \A w \in Workers : Len(buf[w]) <= Bytes + 1 /\ pos[w] \in 0 .. Len(buf[w])
  /\ cpc \in [Clients -> {"connect", "write", "read", "close", "exited"}]
  /\ n \in [Clients -> 0 .. MaxConns]
  /\ \A c \in Clients :
       /\ Len(got[c]) <= Bytes
       /\ sockets[c] = (IF cpc[c] \in {"write", "read", "close"} THEN 1 ELSE 0) \/ cpc[c] = "exited"
  /\ cEnd \in [Conns -> BOOLEAN] /\ sEnd \in [Conns -> BOOLEAN]

\* What a client has read is the start of the answer to its own request, byte
\* by byte, however the reads and writes were cut up and whichever numbers
\* were given again to other connections; while the workers are lucky.
AnswerIsOwn ==
  \A c \in Clients :
    lucky /\ prog = "server" /\ n[c] > 0 => IsPrefix(got[c], Munged(Request(Mine(c))))

\* From the dispatch to its close, a connection keeps its number: nobody
\* closes it or gets it under the worker that uses it.
WorkerHasConnection ==
  \A w \in Workers :
    lucky /\ Alive /\ wpc[w] # "idle" => Conn(w) = task[w]

\* Step 5 of server.c:96, "Close the data socket associated with the
\* connection": the server's end is closed once the task is done.  That holds
\* on every path of request_client; while the workers are lucky.
DoneIsClosed == lucky => \A k \in done : ~sEnd[k]

\* A client that has sent its request is not left waiting: it is answered, or
\* finds the connection closed; while the workers are lucky.
ClientGoesOn == \A c \in Clients : cpc[c] = "read" ~> (cpc[c] # "read" \/ ~lucky)

=============================================================================
