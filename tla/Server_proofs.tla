---------------------------- MODULE Server_proofs ----------------------------
(***************************************************************************)
(* What server.c and client.c keep for all numbers of clients, workers,    *)
(* connections and descriptors, and all sizes of a request.                *)
(*                                                                         *)
(* Places says that a connection the server has is in one place: waiting   *)
(* for accept, in the pool's queue, with one worker, or done.  From that   *)
(* follows Files: no two live connections have one descriptor, as long as  *)
(* the workers are lucky.  From that Requests and Answers: what is in a    *)
(* buffer and what is on its way are consecutive pieces of one message.    *)
(***************************************************************************)
EXTENDS Server, SequenceTheorems, FiniteSetTheorems, TLAPS

Distinct(q) == \A i, j \in DOMAIN q : q[i] = q[j] => i = j

LEMMA TailContains ==
  ASSUME NEW S, NEW q \in Seq(S), q # <<>>
  PROVE  /\ Head(q) \in S /\ Contains(q, Head(q)) /\ Tail(q) \in Seq(S)
         /\ \A u : Contains(Tail(q), u) => Contains(q, u)
         /\ Distinct(q) => Distinct(Tail(q)) /\ ~Contains(Tail(q), Head(q))
<1>1. /\ Len(q) \in Nat \ {0} /\ Head(q) = q[1] /\ Tail(q) \in Seq(S) /\ Len(Tail(q)) = Len(q) - 1
      /\ \A i \in 1..(Len(q) - 1) : Tail(q)[i] = q[i + 1]
      /\ DOMAIN q = 1..Len(q) /\ DOMAIN Tail(q) = 1..(Len(q) - 1)
  OBVIOUS
<1>2. \A i \in 1..(Len(q) - 1) : i + 1 \in 1..Len(q) /\ i + 1 # 1 /\ 1 \in 1..Len(q)
  BY <1>1
<1>3. Head(q) \in S /\ Contains(q, Head(q))
  BY <1>1 DEF Contains
<1>4. \A u : Contains(Tail(q), u) => Contains(q, u)
  BY <1>1, <1>2 DEF Contains
<1>5. ASSUME Distinct(q)
      PROVE  Distinct(Tail(q)) /\ ~Contains(Tail(q), Head(q))
  <2>1. \A i, j \in 1..Len(q) : q[i] = q[j] => i = j
    BY <1>1, <1>5 DEF Distinct
  <2>2. \A i, j \in 1..(Len(q) - 1) : Tail(q)[i] = Tail(q)[j] => i = j
    <3> SUFFICES ASSUME NEW i \in 1..(Len(q) - 1), NEW j \in 1..(Len(q) - 1), Tail(q)[i] = Tail(q)[j]
                 PROVE  i = j
      OBVIOUS
    <3>1. i + 1 = j + 1
      BY <1>1, <1>2, <2>1
    <3> QED
      BY <3>1
  <2>3. ~Contains(Tail(q), Head(q))
    BY <1>1, <1>2, <2>1 DEF Contains
  <2> QED
    BY <1>1, <2>2, <2>3 DEF Distinct
<1> QED
  BY <1>1, <1>3, <1>4, <1>5

LEMMA AppendContains ==
  ASSUME NEW S, NEW q \in Seq(S), NEW t \in S
  PROVE  /\ Append(q, t) \in Seq(S)
         /\ \A u : Contains(Append(q, t), u) <=> Contains(q, u) \/ u = t
         /\ Distinct(q) /\ ~Contains(q, t) => Distinct(Append(q, t))
<1>1. /\ Append(q, t) \in Seq(S) /\ Len(Append(q, t)) = Len(q) + 1 /\ Len(q) \in Nat
      /\ \A i \in 1..Len(q) : Append(q, t)[i] = q[i]
      /\ Append(q, t)[Len(q) + 1] = t
      /\ DOMAIN q = 1..Len(q) /\ DOMAIN Append(q, t) = 1..(Len(q) + 1)
  OBVIOUS
<1>2. \A i \in 1..(Len(q) + 1) : i \in 1..Len(q) \/ i = Len(q) + 1
  BY <1>1
<1>3. \A i \in 1..Len(q) : i \in 1..(Len(q) + 1) /\ i # Len(q) + 1
  BY <1>1
<1>4. Len(q) + 1 \in 1..(Len(q) + 1)
  BY <1>1
<1>5. \A u : Contains(Append(q, t), u) <=> Contains(q, u) \/ u = t
  BY <1>1, <1>2, <1>3, <1>4 DEF Contains
<1>6. Distinct(q) /\ ~Contains(q, t) => Distinct(Append(q, t))
  BY <1>1, <1>2, <1>3 DEF Distinct, Contains
<1> QED
  BY <1>1, <1>5, <1>6

LEMMA NoneContained == \A u : ~Contains(<<>>, u)
BY DEF Contains

\* Cutting a sequence in two.
LEMMA TakeDrop ==
  ASSUME NEW S, NEW s \in Seq(S), NEW m \in 0..Len(s)
  PROVE  /\ Take(s, m) \in Seq(S) /\ Len(Take(s, m)) = m
         /\ \A i \in 1..m : Take(s, m)[i] = s[i]
         /\ Drop(s, m) \in Seq(S) /\ Len(Drop(s, m)) = Len(s) - m
         /\ \A i \in 1..(Len(s) - m) : Drop(s, m)[i] = s[m + i]
<1>1. Len(s) \in Nat /\ m \in Int /\ m + 1 \in Int /\ Len(s) \in Int
      /\ (\A i \in 1..m : s[i] \in S) /\ \A i \in (m + 1)..Len(s) : s[i] \in S
  OBVIOUS
<1>2. /\ Take(s, m) \in Seq(S) /\ Len(Take(s, m)) = IF 1 <= m THEN m - 1 + 1 ELSE 0
      /\ \A i \in 1..(m - 1 + 1) : Take(s, m)[i] = s[1 + i - 1]
  BY <1>1, SubSeqProperties DEF Take
<1>3. /\ Drop(s, m) \in Seq(S) /\ Len(Drop(s, m)) = IF m + 1 <= Len(s) THEN Len(s) - (m + 1) + 1 ELSE 0
      /\ \A i \in 1..(Len(s) - (m + 1) + 1) : Drop(s, m)[i] = s[(m + 1) + i - 1]
  BY <1>1, SubSeqProperties DEF Drop
<1>4. m - 1 + 1 = m /\ Len(s) - (m + 1) + 1 = Len(s) - m
      /\ \A i \in Int : 1 + i - 1 = i /\ (m + 1) + i - 1 = m + i
  BY <1>1
<1>5. \A i \in 1..m : Take(s, m)[i] = s[i]
  BY <1>2, <1>4
<1>6. ASSUME NEW i \in 1..(Len(s) - m)
      PROVE  Drop(s, m)[i] = s[m + i]
  <2>1. i \in 1..(Len(s) - (m + 1) + 1) /\ (m + 1) + i - 1 = m + i
    BY <1>1
  <2>2. Drop(s, m)[i] = s[(m + 1) + i - 1]
    BY <1>3, <2>1
  <2> QED
    BY <2>1, <2>2
<1> QED
  BY <1>1, <1>2, <1>3, <1>5, <1>6

\* s is what r holds after its first from bytes, as far as s goes.
Piece(s, from, r) ==
  from + Len(s) <= Len(r) /\ \A j \in 1..Len(s) : s[j] = r[from + j]

\* Bytes that are read leave the rest on its way.
LEMMA PieceDrop ==
  ASSUME NEW S, NEW s \in Seq(S), NEW m \in 0..Len(s), NEW from \in Nat, NEW r \in Seq(S),
         Piece(s, from, r)
  PROVE  Piece(Drop(s, m), from + m, r)
<1>1. /\ Len(Drop(s, m)) = Len(s) - m
      /\ \A i \in 1..(Len(s) - m) : Drop(s, m)[i] = s[m + i]
  BY TakeDrop
<1>2. ASSUME NEW j \in 1..(Len(s) - m)
      PROVE  Drop(s, m)[j] = r[(from + m) + j]
  <2>1. m + j \in 1..Len(s) /\ from + (m + j) = (from + m) + j
    OBVIOUS
  <2> QED
    BY <1>1, <2>1 DEF Piece
<1>3. (from + m) + (Len(s) - m) <= Len(r)
  BY DEF Piece
<1> QED
  BY <1>1, <1>2, <1>3 DEF Piece

\* Bytes of the next piece make the piece before it longer.
LEMMA PieceAdd ==
  ASSUME NEW S, NEW s \in Seq(S), NEW t \in Seq(S), NEW m \in 0..Len(t), NEW from \in Nat,
         NEW r \in Seq(S), Piece(s, from, r), Piece(t, from + Len(s), r)
  PROVE  /\ s \o Take(t, m) \in Seq(S) /\ Len(s \o Take(t, m)) = Len(s) + m
         /\ Piece(s \o Take(t, m), from, r)
<1> DEFINE a == Take(t, m)
<1>1. a \in Seq(S) /\ Len(a) = m /\ \A i \in 1..m : a[i] = t[i]
  BY TakeDrop
<1> HIDE DEF a
<1>2. /\ s \o a \in Seq(S) /\ Len(s \o a) = Len(s) + m
      /\ \A i \in 1..(Len(s) + m) : (s \o a)[i] = IF i <= Len(s) THEN s[i] ELSE a[i - Len(s)]
  BY <1>1, ConcatProperties
<1>3. ASSUME NEW j \in 1..(Len(s) + m)
      PROVE  (s \o a)[j] = r[from + j]
  <2>1. CASE j <= Len(s)
    BY <1>2, <2>1 DEF Piece
  <2>2. CASE ~(j <= Len(s))
    <3>1. /\ j - Len(s) \in 1..m /\ j - Len(s) \in 1..Len(t)
          /\ (from + Len(s)) + (j - Len(s)) = from + j
      BY <2>2
    <3>2. (s \o a)[j] = a[j - Len(s)] /\ a[j - Len(s)] = t[j - Len(s)]
      BY <1>1, <1>2, <2>2, <3>1
    <3>3. t[j - Len(s)] = r[(from + Len(s)) + (j - Len(s))]
      BY <3>1 DEF Piece
    <3> QED
      BY <3>1, <3>2, <3>3
  <2> QED
    BY <2>1, <2>2
<1>4. from + (Len(s) + m) <= Len(r)
  BY DEF Piece
<1> QED
  BY <1>2, <1>3, <1>4 DEF Piece, a

\* Whatever is put together of pieces is a sequence of bytes.
LEMMA ConcatTake ==
  ASSUME NEW S, NEW s \in Seq(S), NEW t \in Seq(S), NEW m \in 0..Len(t)
  PROVE  s \o Take(t, m) \in Seq(S) /\ Len(s \o Take(t, m)) = Len(s) + m
<1>1. Take(t, m) \in Seq(S) /\ Len(Take(t, m)) = m
  BY TakeDrop
<1> QED
  BY <1>1, ConcatProperties

Byte == (Conns \X (1 .. Bytes)) \cup {Junk}

LEMMA RequestIsBytes ==
  ASSUME NEW k \in Conns
  PROVE  Request(k) \in Seq(Byte) /\ Len(Request(k)) = Bytes
BY ServerAssumption DEF Request, Byte

LEMMA MungedIsBytes ==
  ASSUME NEW r \in Seq(Byte), Len(r) = Bytes
  PROVE  Munged(r) \in Seq(Byte) /\ Len(Munged(r)) = Bytes
<1>1. Bytes \in Nat \ {0} /\ NumLoops \in Nat
  BY ServerAssumption
<1>2. ASSUME NEW b \in 1..Bytes, b # 1
      PROVE  2 + ((b - 2 + NumLoops) % (Bytes - 1)) \in 1..Bytes
  <2>1. Bytes - 1 \in Nat \ {0} /\ b - 2 + NumLoops \in Int
    BY <1>1, <1>2
  <2> DEFINE d == Bytes - 1
             x == (b - 2 + NumLoops) % d
  <2>2. x \in 0..(d - 1)
    <3> DEFINE i == b - 2 + NumLoops
    <3>1. i \in Int /\ d \in Nat \ {0}
      BY <2>1
    <3> HIDE DEF i, d
    <3>2. i % d \in 0..(d - 1)
      BY <3>1
    <3> QED
      BY <3>2 DEF i
  <2> HIDE DEF x
  <2>3. 2 + x \in 1..Bytes
    BY <1>1, <2>1, <2>2
  <2> QED
    BY <2>3 DEF x
<1>3. \A b \in 1..Bytes : Munged(r)[b] \in Byte
  BY <1>1, <1>2 DEF Munged
<1>4. Munged(r) = [b \in 1..Bytes |-> Munged(r)[b]]
  BY DEF Munged
<1> QED
  BY <1>1, <1>3, <1>4

----------------------------------------------------------------------------
\* The inductive invariant.

Types ==
  /\ spc \in {"setup", "accept", "dead"} /\ lucky \in BOOLEAN
  /\ backlog \in Seq(Conns) /\ queue \in Seq(Conns)
  /\ running \subseteq Conns /\ done \subseteq Conns
  /\ file \in [Fds -> Conns \cup {NoConn}] /\ arg \in [Conns -> Fds \cup {BadFd}]
  /\ wpc \in [Workers -> {"idle", "read", "process", "write", "close"}]
  /\ task \in [Workers -> Conns \cup {NoConn}] /\ fd \in [Workers -> Fds \cup {BadFd}]
  /\ buf \in [Workers -> Seq(Byte)] /\ pos \in [Workers -> Nat]
  /\ cpc \in [Clients -> {"connect", "write", "read", "close", "exited"}]
  /\ n \in [Clients -> 0 .. MaxConns]
  /\ got \in [Clients -> Seq(Byte)] /\ sockets \in [Clients -> Int]
  /\ up \in [Conns -> Seq(Byte)] /\ down \in [Conns -> Seq(Byte)]
  /\ cEnd \in [Conns -> BOOLEAN] /\ sEnd \in [Conns -> BOOLEAN]

\* How much is in the buffers, by where their owners are.
Bounds ==
  /\ \A w \in Workers :
       /\ pos[w] <= Len(buf[w]) /\ Len(buf[w]) <= Bytes + 1
       /\ wpc[w] \in {"idle", "read", "process"} => pos[w] = 0
       /\ wpc[w] = "idle" => buf[w] = <<>>
       /\ wpc[w] = "read" => Len(buf[w]) <= Bytes
       /\ wpc[w] = "process" => Len(buf[w]) = Bytes
  /\ \A c \in Clients :
       /\ Len(got[c]) <= Bytes
       /\ cpc[c] \in {"write", "read", "close"} => n[c] > 0
       /\ sockets[c] = (IF cpc[c] \in {"write", "read", "close"} THEN 1 ELSE 0) \/ cpc[c] = "exited"

\* A connection the server has is in one place; only opened ones are.
Busy(w) == wpc[w] # "idle"
Has(k) == Contains(queue, k) \/ k \in running
Places ==
  /\ Distinct(backlog) /\ Distinct(queue)
  /\ \A k \in Conns : Contains(backlog, k) => k \in Opened /\ ~Has(k) /\ k \notin done
  /\ \A k \in Conns : Contains(queue, k) => k \in Opened /\ k \notin running /\ k \notin done
  /\ \A k \in running : k \in Opened /\ k \notin done
  /\ done \subseteq Opened
  /\ \A w \in Workers : Busy(w) => task[w] \in running
  /\ \A v, w \in Workers : Busy(v) /\ Busy(w) /\ task[v] = task[w] => v = w

\* A descriptor stands for the connection it was accepted for until its worker
\* closes it.
Files == lucky =>
  /\ \A k \in Conns : Has(k) => arg[k] \in Fds /\ file[arg[k]] = k
  /\ \A w \in Workers : Busy(w) => fd[w] = arg[task[w]]
  /\ \A k \in done : ~sEnd[k]

\* What a worker has read and what is still on its way make one request.
Requests == lucky =>
  /\ \A k \in Conns \ Opened : up[k] = <<>> /\ down[k] = <<>>
  /\ \A c \in Clients : cpc[c] = "write" => up[Mine(c)] = <<>>
  /\ \A c \in Clients, w \in Workers :
       cpc[c] = "write" /\ task[w] = Mine(c) /\ wpc[w] = "read" => buf[w] = <<>>
  /\ \A k \in Conns : Contains(backlog, k) \/ Contains(queue, k) => Piece(up[k], 0, Request(k))
  /\ \A w \in Workers :
       /\ wpc[w] = "read" => Piece(buf[w], 0, Request(task[w]))
       /\ wpc[w] = "read" => Piece(up[task[w]], Len(buf[w]), Request(task[w]))
       /\ wpc[w] = "process" => buf[w] = Request(task[w])
       /\ wpc[w] = "write" /\ prog = "server" => buf[w] = Munged(Request(task[w]))

\* What a client has read and what is still on its way make one answer, and the
\* worker that writes goes on where they end.
Answer(k) == Munged(Request(k))
Answers == lucky /\ prog = "server" =>
  \A c \in Clients : n[c] > 0 =>
    /\ Piece(got[c], 0, Answer(Mine(c))) /\ Piece(down[Mine(c)], Len(got[c]), Answer(Mine(c)))
    /\ Contains(backlog, Mine(c)) \/ Contains(queue, Mine(c)) => got[c] = <<>> /\ down[Mine(c)] = <<>>
    /\ \A w \in Workers : task[w] = Mine(c) =>
         /\ wpc[w] \in {"read", "process"} => got[c] = <<>> /\ down[Mine(c)] = <<>>
         /\ wpc[w] = "write" /\ cEnd[Mine(c)] => pos[w] = Len(got[c]) + Len(down[Mine(c)])

ServerIInv == Types /\ Bounds /\ Places /\ Files /\ Requests /\ Answers

LEMMA MineIsConn ==
  ASSUME Types, NEW c \in Clients, n[c] > 0
  PROVE  Mine(c) \in Conns /\ Mine(c) \in Opened
BY DEF Types, Mine, Conns, Opened

LEMMA ServerInitIInv == Init => ServerIInv
<1> SUFFICES ASSUME Init
             PROVE  ServerIInv
  OBVIOUS
<1>1. queue = <<>> /\ running = {} /\ done = {}
  BY DEF Init, Pool!Init
<1>2. Types
  BY <1>1, ServerAssumption DEF Init, Everywhere, Types
<1>3. Opened = {}
  BY DEF Init, Everywhere, Opened, Conns
<1>4. Bounds
  BY ServerAssumption DEF Init, Everywhere, Bounds
<1>5. Places /\ Files
  BY <1>1, NoneContained DEF Init, Everywhere, Places, Files, Busy, Has, Distinct
<1>6. Requests /\ Answers
  BY <1>1, NoneContained DEF Init, Everywhere, Requests, Answers
<1> QED
  BY <1>2, <1>4, <1>5, <1>6 DEF ServerIInv

\* The end of the process leaves it nothing, and no worker at work.
LEMMA DeathKeeps ==
  ASSUME ServerIInv, ServerDies
  PROVE  ServerIInv'
<1>1. Types /\ Bounds /\ Requests /\ Answers /\ \A u : ~Contains(<<>>, u)
  BY NoneContained DEF ServerIInv
<1>2. Types'
  BY <1>1, ServerAssumption DEF ServerDies, Types, Everywhere, client, wire
<1>3. Opened' = Opened
  BY DEF ServerDies, Opened, client
<1>4. Bounds'
  BY <1>1, ServerAssumption DEF ServerDies, Bounds, Everywhere, client
<1>5. Places' /\ Files'
  BY <1>1, <1>3 DEF ServerDies, Everywhere, Places, Files, Busy, Has, Distinct
<1>6. \A c : Mine(c)' = Mine(c)
  BY DEF ServerDies, Mine, client
<1>7. Requests'
  BY <1>1, <1>3, <1>6 DEF ServerDies, Requests, Everywhere, client, wire
<1>8. Answers'
  BY <1>1, <1>6 DEF ServerDies, Answers, Everywhere, client, wire
<1> QED
  BY <1>2, <1>4, <1>5, <1>7, <1>8 DEF ServerIInv

----------------------------------------------------------------------------
\* The steps of a worker.

LEMMA PlacesFrame ==
  ASSUME Places, UNCHANGED <<backlog, queue, running, done, n, task>>,
         \A w \in Workers : Busy(w)' => Busy(w)
  PROVE  Places'
<1>1. Opened' = Opened
  BY DEF Opened
<1> QED
  BY <1>1 DEF Places, Has

LEMMA FilesFrame ==
  ASSUME Files, UNCHANGED <<lucky, queue, running, done, arg, file, fd, task, sEnd>>,
         \A w \in Workers : Busy(w)' => Busy(w)
  PROVE  Files'
BY DEF Files, Has

\* A worker that goes on with its task, or gives it up, and leaves the bytes alone.
LEMMA AnswersFrame ==
  ASSUME Answers, UNCHANGED <<lucky, prog, n, got, down, cEnd, backlog, queue>>,
         \A w \in Workers :
           /\ wpc'[w] \in {"read", "process"} => wpc[w] \in {"read", "process"} /\ task'[w] = task[w]
           /\ wpc'[w] = "write" => /\ task'[w] = task[w]
                                  /\ \/ wpc[w] = "write" /\ pos'[w] = pos[w]
                                     \/ wpc[w] = "process" /\ pos'[w] = 0
  PROVE  Answers'
<1>1. \A c : Mine(c)' = Mine(c)
  BY DEF Mine
<1>2. ASSUME lucky, prog = "server", NEW c \in Clients, n[c] > 0, NEW w \in Workers, task'[w] = Mine(c)
      PROVE  /\ wpc'[w] \in {"read", "process"} => got[c] = <<>> /\ down[Mine(c)] = <<>>
             /\ wpc'[w] = "write" /\ cEnd[Mine(c)] => pos'[w] = Len(got[c]) + Len(down[Mine(c)])
  <2>1. task[w] = Mine(c) =>
          /\ wpc[w] \in {"read", "process"} => got[c] = <<>> /\ down[Mine(c)] = <<>>
          /\ wpc[w] = "write" /\ cEnd[Mine(c)] => pos[w] = Len(got[c]) + Len(down[Mine(c)])
    BY <1>2 DEF Answers
  <2>2. CASE wpc'[w] \in {"read", "process"}
    BY <1>2, <2>1, <2>2
  <2>3. CASE wpc'[w] = "write" /\ wpc[w] = "write"
    BY <1>2, <2>1, <2>3
  <2>4. CASE wpc'[w] = "write" /\ wpc[w] = "process"
    <3>1. got[c] = <<>> /\ down[Mine(c)] = <<>> /\ pos'[w] = 0
      BY <1>2, <2>1, <2>4
    <3> QED
      BY <2>4, <3>1
  <2> QED
    BY <2>2, <2>3, <2>4
<1> QED
  BY <1>1, <1>2 DEF Answers

LEMMA RequestsFrame ==
  ASSUME Requests, UNCHANGED <<lucky, prog, n, cpc, up, backlog, queue>>,
         lucky => \A k \in Conns \ Opened : down'[k] = down[k],
         \A w \in Workers :
           wpc'[w] \in {"read", "process", "write"} =>
             wpc'[w] = wpc[w] /\ task'[w] = task[w] /\ buf'[w] = buf[w]
  PROVE  Requests'
<1>1. Opened' = Opened /\ \A c : Mine(c)' = Mine(c)
  BY DEF Opened, Mine
<1> QED
  BY <1>1 DEF Requests

LEMMA PieceWhole ==
  ASSUME NEW S, NEW s \in Seq(S), NEW r \in Seq(S), Piece(s, 0, r), Len(s) = Len(r)
  PROVE  s = r
<1>1. \A i \in 1..Len(s) : s[i] = r[i]
  <2> TAKE i \in 1..Len(s)
  <2>1. 0 + i = i
    OBVIOUS
  <2> QED
    BY <2>1 DEF Piece
<1> QED
  BY <1>1

\* A worker at work has its connection.
LEMMA BusyHas ==
  ASSUME ServerIInv, NEW w \in Workers, Busy(w)
  PROVE  /\ task[w] \in running /\ task[w] \in Conns /\ task[w] \in Opened
         /\ ~Contains(backlog, task[w]) /\ ~Contains(queue, task[w]) /\ task[w] \notin done
         /\ \A v \in Workers : Busy(v) /\ task[v] = task[w] => v = w
         /\ lucky => fd[w] \in Fds /\ file[fd[w]] = task[w] /\ Conn(w) = task[w]
BY DEF ServerIInv, Types, Places, Files, Has, Conn

LEMMA ConnIsConn ==
  ASSUME Types, NEW w \in Workers, Conn(w) # NoConn
  PROVE  Conn(w) \in Conns /\ fd[w] \in Fds
BY DEF Types, Conn

LEMMA ReadSomeKeeps ==
  ASSUME ServerIInv, NEW w \in Workers, ReadSome(w)
  PROVE  ServerIInv'
<1> DEFINE k == Conn(w)
<1>0. Types /\ Bounds /\ Places /\ Files /\ Requests /\ Answers
  BY DEF ServerIInv
<1>1. PICK m \in 1..Len(up[k]) :
        /\ Len(buf[w]) + m <= Bytes
        /\ buf' = [buf EXCEPT ![w] = @ \o Take(up[k], m)]
        /\ up' = [up EXCEPT ![k] = Drop(@, m)]
  BY DEF ReadSome
<1>2. /\ wpc[w] = "read" /\ k # NoConn
      /\ wpc' = [wpc EXCEPT ![w] = IF Len(buf'[w]) = Bytes THEN "process" ELSE "read"]
      /\ UNCHANGED <<prog, spc, backlog, arg, cpc, n, got, sockets, cEnd, lucky, file, queue,
                     running, done, task, fd, pos, down, sEnd>>
  BY DEF ReadSome, In, To, elsewhere, mainThread, client, pool
<1>3. k \in Conns /\ up[k] \in Seq(Byte) /\ buf[w] \in Seq(Byte) /\ m \in 0..Len(up[k])
      /\ Len(up[k]) \in Nat
  BY <1>0, <1>2, ConnIsConn DEF Types
<1> HIDE DEF k
<1>4. /\ buf[w] \o Take(up[k], m) \in Seq(Byte)
      /\ Len(buf[w] \o Take(up[k], m)) = Len(buf[w]) + m
      /\ Drop(up[k], m) \in Seq(Byte) /\ Len(buf[w]) \in Nat
  <2> DEFINE a == buf[w]
             b == up[k]
  <2>1. a \in Seq(Byte) /\ b \in Seq(Byte) /\ m \in 0..Len(b)
    BY <1>3
  <2> HIDE DEF a, b
  <2>2. a \o Take(b, m) \in Seq(Byte) /\ Len(a \o Take(b, m)) = Len(a) + m
    BY <2>1, ConcatTake
  <2>3. Drop(b, m) \in Seq(Byte) /\ Len(a) \in Nat
    BY <2>1, TakeDrop
  <2> QED
    BY <2>2, <2>3 DEF a, b
<1>5. /\ buf'[w] = buf[w] \o Take(up[k], m) /\ up'[k] = Drop(up[k], m)
      /\ \A v \in Workers \ {w} : buf'[v] = buf[v] /\ wpc'[v] = wpc[v]
      /\ \A j \in Conns \ {k} : up'[j] = up[j]
      /\ wpc'[w] \in {"read", "process"} /\ (wpc'[w] = "process" <=> Len(buf[w]) + m = Bytes)
  BY <1>0, <1>1, <1>2, <1>3, <1>4 DEF Types
<1>6. Types'
  BY <1>0, <1>1, <1>2, <1>3, <1>4, <1>5 DEF Types
<1>7. Bounds'
  <2>1. Len(buf[w]) \in Nat /\ Bytes \in Nat /\ pos[w] = 0
    BY <1>0, <1>2, <1>3, ServerAssumption DEF Bounds
  <2>2. /\ pos'[w] <= Len(buf'[w]) /\ Len(buf'[w]) <= Bytes + 1 /\ pos'[w] = 0
        /\ Len(buf'[w]) <= Bytes /\ wpc'[w] # "idle"
        /\ wpc'[w] = "process" => Len(buf'[w]) = Bytes
    <3>1. Len(buf'[w]) = Len(buf[w]) + m /\ m \in Nat /\ Len(buf[w]) + m <= Bytes
      <4>1. Len(buf'[w]) = Len(buf[w]) + m
        BY <1>4, <1>5
      <4>2. m \in Nat
        BY <1>3
      <4>3. Len(buf[w]) + m <= Bytes
        BY <1>1
      <4> QED
        BY <4>1, <4>2, <4>3
    <3>2. wpc'[w] \in {"read", "process"} /\ (wpc'[w] = "process" <=> Len(buf[w]) + m = Bytes)
      BY <1>5
    <3>3. pos'[w] = 0
      BY <1>2, <2>1
    <3>4. Len(buf[w]) \in Nat /\ Bytes \in Nat
      BY <2>1
    <3> HIDE DEF k
    <3> QED
      BY <3>1, <3>2, <3>3, <3>4
  <2> QED
    BY <1>0, <1>2, <1>5, <2>2 DEF Bounds
<1>8. \A v \in Workers : Busy(v)' => Busy(v)
  BY <1>2, <1>5 DEF Busy
<1>9. Places' /\ Files'
  BY <1>0, <1>2, <1>8, PlacesFrame, FilesFrame
<1>10. Opened' = Opened /\ \A c : Mine(c)' = Mine(c)
  BY <1>2 DEF Opened, Mine
<1>11. Requests'
  <2> SUFFICES ASSUME lucky
               PROVE  Requests'
    BY <1>2 DEF Requests
  <2>1. /\ task[w] = k /\ k \in Opened /\ ~Contains(backlog, k) /\ ~Contains(queue, k)
        /\ \A v \in Workers : Busy(v) /\ task[v] = k => v = w
    BY <1>2, BusyHas DEF Busy, k
  <2>2. up[k] # <<>>
    BY <1>1
  <2>3. /\ Piece(buf[w], 0, Request(k)) /\ Piece(up[k], Len(buf[w]), Request(k))
        /\ Request(k) \in Seq(Byte) /\ Len(Request(k)) = Bytes
    BY <1>0, <1>2, <1>3, <2>1, RequestIsBytes DEF Requests
  <2>4. Piece(buf'[w], 0, Request(k))
    <3>1. 0 + Len(buf[w]) = Len(buf[w]) /\ 0 \in Nat
      BY <1>3
    <3> QED
      BY <1>3, <1>5, <2>3, <3>1, PieceAdd
  <2>5. Piece(up'[k], Len(buf'[w]), Request(k))
    <3>1. Piece(Drop(up[k], m), Len(buf[w]) + m, Request(k))
      BY <1>3, <1>4, <2>3, PieceDrop
    <3> QED
      BY <1>4, <1>5, <3>1
  <2>6. wpc'[w] = "process" => buf'[w] = Request(k)
    BY <1>4, <1>5, <2>3, <2>4, PieceWhole
  <2>7. \A j \in Conns \ Opened : up'[j] = <<>> /\ down'[j] = <<>>
    BY <1>0, <1>2, <1>5, <2>1 DEF Requests
  <2>8. \A c \in Clients : cpc[c] = "write" => Mine(c) # k /\ Mine(c) \in Conns
    BY <1>0, <2>2, MineIsConn DEF Requests, Bounds
  <2>9. \A c \in Clients : cpc[c] = "write" => up'[Mine(c)] = <<>>
    BY <1>0, <1>5, <2>8 DEF Requests
  <2>10. \A c \in Clients, v \in Workers :
           cpc[c] = "write" /\ task[v] = Mine(c) /\ wpc'[v] = "read" => buf'[v] = <<>>
    BY <1>0, <1>5, <2>1, <2>8 DEF Requests
  <2>11. \A j \in Conns : Contains(backlog, j) \/ Contains(queue, j) => Piece(up'[j], 0, Request(j))
    BY <1>0, <1>5, <2>1 DEF Requests
  <2>12. \A v \in Workers \ {w} :
           /\ wpc'[v] = "read" => Piece(buf'[v], 0, Request(task[v]))
           /\ wpc'[v] = "read" => Piece(up'[task[v]], Len(buf'[v]), Request(task[v]))
           /\ wpc'[v] = "process" => buf'[v] = Request(task[v])
           /\ wpc'[v] = "write" /\ prog = "server" => buf'[v] = Munged(Request(task[v]))
    <3> TAKE v \in Workers \ {w}
    <3>1. wpc[v] = "read" => task[v] # k /\ task[v] \in Conns
      BY <2>1, BusyHas DEF Busy
    <3> QED
      BY <1>0, <1>5, <3>1 DEF Requests
  <2> QED
    BY <1>2, <1>5, <1>10, <2>1, <2>4, <2>5, <2>6, <2>7, <2>9, <2>10, <2>11, <2>12 DEF Requests
<1>12. Answers'
  BY <1>0, <1>2, <1>5, AnswersFrame
<1> QED
  BY <1>6, <1>7, <1>9, <1>11, <1>12 DEF ServerIInv

LEMMA ReadGivesUpKeeps ==
  ASSUME ServerIInv, NEW w \in Workers, ReadGivesUp(w)
  PROVE  ServerIInv'
<1>0. Types /\ Bounds /\ Places /\ Files /\ Requests /\ Answers
  BY DEF ServerIInv
<1>1. /\ wpc[w] = "read" /\ wpc' = [wpc EXCEPT ![w] = "close"] /\ buf' = [buf EXCEPT ![w] = <<>>]
      /\ UNCHANGED <<prog, spc, backlog, arg, cpc, n, got, sockets, cEnd, lucky, file, queue,
                     running, done, task, fd, pos, up, down, sEnd>>
  BY DEF ReadGivesUp, In, To, elsewhere, mainThread, client, pool, wire
<1>2. /\ wpc'[w] = "close" /\ buf'[w] = <<>>
      /\ \A v \in Workers \ {w} : buf'[v] = buf[v] /\ wpc'[v] = wpc[v]
  BY <1>0, <1>1 DEF Types
<1>3. Types'
  BY <1>0, <1>1 DEF Types
<1>4. Bounds'
  BY <1>0, <1>1, <1>2, ServerAssumption DEF Bounds
<1>5. Places' /\ Files'
  BY <1>0, <1>1, <1>2, PlacesFrame, FilesFrame DEF Busy
<1>6. Requests'
  BY <1>0, <1>1, <1>2, RequestsFrame
<1>7. Answers'
  BY <1>0, <1>1, <1>2, AnswersFrame
<1> QED
  BY <1>3, <1>4, <1>5, <1>6, <1>7 DEF ServerIInv

LEMMA WriteGivesUpKeeps ==
  ASSUME ServerIInv, NEW w \in Workers, WriteGivesUp(w)
  PROVE  ServerIInv'
<1>0. Types /\ Bounds /\ Places /\ Files /\ Requests /\ Answers
  BY DEF ServerIInv
<1>1. /\ wpc[w] = "write" /\ wpc' = [wpc EXCEPT ![w] = "close"]
      /\ UNCHANGED <<prog, spc, backlog, arg, cpc, n, got, sockets, cEnd, lucky, file, queue,
                     running, done, task, fd, buf, pos, up, down, sEnd>>
  BY DEF WriteGivesUp, In, To, elsewhere, mainThread, client, pool, wire
<1>2. /\ wpc'[w] = "close" /\ \A v \in Workers \ {w} : wpc'[v] = wpc[v]
  BY <1>0, <1>1 DEF Types
<1>3. Types'
  BY <1>0, <1>1 DEF Types
<1>4. Bounds'
  BY <1>0, <1>1, <1>2 DEF Bounds
<1>5. Places' /\ Files'
  BY <1>0, <1>1, <1>2, PlacesFrame, FilesFrame DEF Busy
<1>6. Requests'
  BY <1>0, <1>1, <1>2, RequestsFrame
<1>7. Answers'
  BY <1>0, <1>1, <1>2, AnswersFrame
<1> QED
  BY <1>3, <1>4, <1>5, <1>6, <1>7 DEF ServerIInv

LEMMA ProcessKeeps ==
  ASSUME ServerIInv, NEW w \in Workers, Process(w) \/ ProcessFile(w)
  PROVE  ServerIInv'
<1>0. Types /\ Bounds /\ Places /\ Files /\ Requests /\ Answers
  BY DEF ServerIInv
<1>1. PICK r \in Seq(Byte) :
        /\ buf' = [buf EXCEPT ![w] = r] /\ Len(r) <= Bytes + 1
        /\ prog = "server" => r = Munged(buf[w])
  <2>1. CASE Process(w)
    <3>1. Munged(buf[w]) \in Seq(Byte) /\ Len(Munged(buf[w])) = Bytes /\ Bytes \in Nat
      BY <1>0, <2>1, MungedIsBytes, ServerAssumption DEF Process, In, Types, Bounds
    <3>2. buf' = [buf EXCEPT ![w] = Munged(buf[w])]
      BY <2>1 DEF Process
    <3> DEFINE r == Munged(buf[w])
    <3>3. r \in Seq(Byte) /\ Len(r) <= Bytes + 1 /\ buf' = [buf EXCEPT ![w] = r] /\ r = Munged(buf[w])
      BY <3>1, <3>2
    <3> HIDE DEF r
    <3> QED
      BY <3>3
  <2>2. CASE ProcessFile(w)
    <3>1. PICK m \in 0 .. Bytes + 1 : buf' = [buf EXCEPT ![w] = [b \in 1 .. m |-> Junk]]
      BY <2>2 DEF ProcessFile
    <3>2. prog # "server"
      BY <2>2 DEF ProcessFile
    <3>3. [b \in 1 .. m |-> Junk] \in Seq(Byte) /\ Len([b \in 1 .. m |-> Junk]) = m /\ m <= Bytes + 1
      BY ServerAssumption DEF Byte
    <3> QED
      BY <3>1, <3>2, <3>3
  <2> QED
    BY <2>1, <2>2
<1>2. PICK a \in {"write", "close"} : wpc' = [wpc EXCEPT ![w] = a]
  BY DEF Process, ProcessFile, To
<1>3. /\ wpc[w] = "process"
      /\ UNCHANGED <<prog, spc, backlog, arg, cpc, n, got, sockets, cEnd, lucky, file, queue,
                     running, done, task, fd, pos, up, down, sEnd>>
  BY DEF Process, ProcessFile, In, To, elsewhere, mainThread, client, pool, wire
<1>4. /\ wpc'[w] = a /\ buf'[w] = r
      /\ \A v \in Workers \ {w} : buf'[v] = buf[v] /\ wpc'[v] = wpc[v]
  BY <1>0, <1>1, <1>2 DEF Types
<1>5. Types'
  BY <1>0, <1>1, <1>2, <1>3 DEF Types
<1>6. pos[w] = 0 /\ Len(r) \in Nat
  BY <1>0, <1>3 DEF Bounds
<1>7. Bounds'
  BY <1>0, <1>1, <1>3, <1>4, <1>6 DEF Bounds
<1>8. Places' /\ Files'
  BY <1>0, <1>3, <1>4, PlacesFrame, FilesFrame DEF Busy
<1>9. Opened' = Opened /\ \A c : Mine(c)' = Mine(c)
  BY <1>3 DEF Opened, Mine
<1>10. Requests'
  BY <1>0, <1>1, <1>3, <1>4, <1>9 DEF Requests
<1>11. Answers'
  BY <1>0, <1>3, <1>4, <1>6, AnswersFrame
<1> QED
  BY <1>5, <1>7, <1>8, <1>10, <1>11 DEF ServerIInv

LEMMA WriteSomeKeeps ==
  ASSUME ServerIInv, NEW w \in Workers, WriteSome(w)
  PROVE  ServerIInv'
<1> DEFINE k == Conn(w)
           rest == Unwritten(w)
<1>0. Types /\ Bounds /\ Places /\ Files /\ Requests /\ Answers
  BY DEF ServerIInv
<1>1. PICK m \in 1..Len(rest) :
        /\ pos' = [pos EXCEPT ![w] = @ + m]
        /\ down' = IF cEnd[k] THEN [down EXCEPT ![k] = @ \o Take(rest, m)] ELSE down
  BY DEF WriteSome
<1>2. /\ wpc[w] = "write" /\ k # NoConn
      /\ wpc' = [wpc EXCEPT ![w] = IF pos'[w] = Len(buf[w]) THEN "close" ELSE "write"]
      /\ UNCHANGED <<prog, spc, backlog, arg, cpc, n, got, sockets, cEnd, lucky, file, queue,
                     running, done, task, fd, buf, up, sEnd>>
  BY DEF WriteSome, In, To, elsewhere, mainThread, client, pool
<1>3. /\ k \in Conns /\ down[k] \in Seq(Byte) /\ buf[w] \in Seq(Byte) /\ pos[w] \in 0..Len(buf[w])
      /\ Len(buf[w]) \in Nat
  BY <1>0, <1>2, ConnIsConn DEF Types, Bounds
<1>4. rest \in Seq(Byte) /\ Len(rest) = Len(buf[w]) - pos[w]
  BY <1>3, TakeDrop DEF Unwritten
<1> HIDE DEF k, rest
<1>5. /\ m \in Nat \ {0} /\ m \in 0..Len(rest) /\ pos[w] + m <= Len(buf[w])
      /\ Len(down[k]) \in Nat
      /\ down[k] \o Take(rest, m) \in Seq(Byte) /\ Len(down[k] \o Take(rest, m)) = Len(down[k]) + m
  <2> DEFINE a == down[k]
  <2>1. a \in Seq(Byte) /\ rest \in Seq(Byte) /\ Len(rest) \in Nat /\ m \in 0..Len(rest)
    BY <1>3, <1>4
  <2> HIDE DEF a
  <2>2. a \o Take(rest, m) \in Seq(Byte) /\ Len(a \o Take(rest, m)) = Len(a) + m /\ Len(a) \in Nat
    BY <2>1, ConcatTake
  <2>3. m \in Nat \ {0} /\ pos[w] + m <= Len(buf[w])
    BY <1>3, <1>4
  <2> QED
    BY <2>1, <2>2, <2>3 DEF a
<1>6. /\ pos'[w] = pos[w] + m /\ wpc'[w] \in {"write", "close"}
      /\ \A v \in Workers \ {w} : pos'[v] = pos[v] /\ wpc'[v] = wpc[v]
      /\ down'[k] = IF cEnd[k] THEN down[k] \o Take(rest, m) ELSE down[k]
      /\ \A j \in Conns \ {k} : down'[j] = down[j]
  BY <1>0, <1>1, <1>2, <1>3 DEF Types
<1>7. Types'
  <2>1. down' \in [Conns -> Seq(Byte)]
    BY <1>0, <1>1, <1>3, <1>5 DEF Types
  <2>2. pos' \in [Workers -> Nat]
    BY <1>0, <1>1, <1>3, <1>5 DEF Types
  <2> QED
    BY <1>0, <1>2, <2>1, <2>2 DEF Types
<1>8. Bounds'
  BY <1>0, <1>2, <1>3, <1>5, <1>6 DEF Bounds
<1>9. Places' /\ Files'
  BY <1>0, <1>2, <1>6, PlacesFrame, FilesFrame DEF Busy
<1>10. ASSUME lucky
       PROVE  /\ task[w] = k /\ k \in Opened /\ ~Contains(backlog, k) /\ ~Contains(queue, k)
              /\ \A v \in Workers : Busy(v) /\ task[v] = k => v = w
  BY <1>2, <1>10, BusyHas DEF Busy, k
<1>11. Requests'
  BY <1>0, <1>2, <1>6, <1>10, RequestsFrame
<1>12. Answers'
  <2> SUFFICES ASSUME lucky, prog = "server", NEW c \in Clients, n[c] > 0
               PROVE  /\ Piece(got[c], 0, Answer(Mine(c))) /\ Piece(down'[Mine(c)], Len(got[c]), Answer(Mine(c)))
                      /\ Contains(backlog, Mine(c)) \/ Contains(queue, Mine(c)) => got[c] = <<>> /\ down'[Mine(c)] = <<>>
                      /\ \A v \in Workers : task[v] = Mine(c) =>
                           /\ wpc'[v] \in {"read", "process"} => got[c] = <<>> /\ down'[Mine(c)] = <<>>
                           /\ wpc'[v] = "write" /\ cEnd[Mine(c)] => pos'[v] = Len(got[c]) + Len(down'[Mine(c)])
    <3>1. \A c : Mine(c)' = Mine(c)
      BY <1>2 DEF Mine
    <3> QED
      BY <1>2, <3>1 DEF Answers
  <2>0. lucky /\ prog = "server" /\ n[c] > 0
    OBVIOUS
  <2>1. Mine(c) \in Conns
    BY <1>0, MineIsConn
  <2>2. CASE Mine(c) # k \/ ~cEnd[k]
    <3>1. down'[Mine(c)] = down[Mine(c)]
      BY <1>6, <2>1, <2>2
    <3>2. \A v \in Workers : task[v] = Mine(c) /\ cEnd[Mine(c)] => v # w
      BY <1>10, <2>2
    <3>3. \A v \in Workers : wpc'[v] \in {"read", "process"} => wpc[v] \in {"read", "process"}
      BY <1>6
    <3>4. /\ Piece(got[c], 0, Answer(Mine(c))) /\ Piece(down[Mine(c)], Len(got[c]), Answer(Mine(c)))
          /\ Contains(backlog, Mine(c)) \/ Contains(queue, Mine(c)) => got[c] = <<>> /\ down[Mine(c)] = <<>>
          /\ \A v \in Workers : task[v] = Mine(c) =>
               /\ wpc[v] \in {"read", "process"} => got[c] = <<>> /\ down[Mine(c)] = <<>>
               /\ wpc[v] = "write" /\ cEnd[Mine(c)] => pos[v] = Len(got[c]) + Len(down[Mine(c)])
      BY <1>0, <2>0 DEF Answers
    <3>5. ASSUME NEW v \in Workers, task[v] = Mine(c), wpc'[v] = "write", cEnd[Mine(c)]
          PROVE  pos'[v] = Len(got[c]) + Len(down[Mine(c)])
      BY <1>6, <3>2, <3>4, <3>5
    <3> QED
      BY <3>1, <3>3, <3>4, <3>5
  <2>3. CASE Mine(c) = k /\ cEnd[k]
    <3>1. /\ buf[w] = Answer(k) /\ pos[w] = Len(got[c]) + Len(down[k])
          /\ Piece(got[c], 0, Answer(k)) /\ Piece(down[k], Len(got[c]), Answer(k))
      BY <1>0, <1>2, <1>10, <2>3 DEF Requests, Answers, Answer
    <3>2. got[c] \in Seq(Byte) /\ Len(got[c]) \in Nat
      BY <1>0 DEF Types
    <3>3. Piece(rest, pos[w], buf[w])
      <4>1. /\ Len(Drop(buf[w], pos[w])) = Len(buf[w]) - pos[w]
            /\ \A i \in 1..(Len(buf[w]) - pos[w]) : Drop(buf[w], pos[w])[i] = buf[w][pos[w] + i]
        BY <1>3, TakeDrop
      <4>2. pos[w] + (Len(buf[w]) - pos[w]) <= Len(buf[w])
        BY <1>3
      <4> QED
        BY <4>1, <4>2 DEF Piece, rest, Unwritten
    <3>4. Piece(down[k] \o Take(rest, m), Len(got[c]), Answer(k))
      BY ZenonT(40), <1>3, <1>4, <1>5, <3>1, <3>2, <3>3, PieceAdd
    <3>5. down'[k] = down[k] \o Take(rest, m) /\ pos'[w] = Len(got[c]) + Len(down'[k])
      <4>1. down'[k] = down[k] \o Take(rest, m) /\ pos'[w] = pos[w] + m
        BY <1>6, <2>3
      <4>2. Len(down'[k]) = Len(down[k]) + m
        BY <1>5, <4>1
      <4>3. m \in Nat /\ Len(down[k]) \in Nat
        BY <1>5
      <4>4. pos'[w] = (Len(got[c]) + Len(down[k])) + m
        BY <3>1, <4>1
      <4>5. pos'[w] = Len(got[c]) + (Len(down[k]) + m)
        <5> DEFINE x == Len(got[c])
                   y == Len(down[k])
        <5>1. x \in Nat /\ y \in Nat /\ m \in Nat /\ pos'[w] = (x + y) + m
          BY <3>2, <4>3, <4>4
        <5> HIDE DEF x, y
        <5>2. pos'[w] = x + (y + m)
          BY <5>1
        <5> QED
          BY <5>2 DEF x, y
      <4> QED
        BY <4>1, <4>2, <4>5
    <3>6. \A v \in Workers : task[v] = k /\ wpc'[v] # "idle" => v = w
      BY <1>6, <1>10 DEF Busy
    <3> QED
      BY <1>6, <1>10, <2>3, <3>1, <3>4, <3>5, <3>6
  <2> QED
    BY <2>2, <2>3
<1> QED
  BY <1>7, <1>8, <1>9, <1>11, <1>12 DEF ServerIInv

LEMMA StartTaskKeeps ==
  ASSUME ServerIInv, NEW w \in Workers, StartTask(w)
  PROVE  ServerIInv'
<1> DEFINE k == Head(queue)
<1>0. Types /\ Bounds /\ Places /\ Files /\ Requests /\ Answers
  BY DEF ServerIInv
<1>1. queue # <<>> /\ queue' = Tail(queue) /\ running' = running \cup {k} /\ done' = done
  BY DEF StartTask, Pool!Start
<1>2. PICK f \in Fds \cup {BadFd} : fd' = [fd EXCEPT ![w] = f] /\ lucky' = (lucky /\ f = arg[k])
  BY DEF StartTask
<1>3. /\ wpc[w] = "idle" /\ wpc' = [wpc EXCEPT ![w] = "read"] /\ task' = [task EXCEPT ![w] = k]
      /\ UNCHANGED <<prog, spc, backlog, arg, cpc, n, got, sockets, cEnd, file, buf, pos,
                     up, down, sEnd>>
  BY DEF StartTask, In, To, mainThread, client, wire, conns
<1>4. /\ k \in Conns /\ Contains(queue, k) /\ Tail(queue) \in Seq(Conns)
      /\ \A u : Contains(queue', u) => Contains(queue, u)
      /\ Distinct(queue') /\ ~Contains(queue', k)
  BY <1>0, <1>1, TailContains DEF Types, Places
<1> HIDE DEF k
<1>5. /\ k \in Opened /\ k \notin running /\ k \notin done /\ ~Contains(backlog, k)
  BY <1>0, <1>4 DEF Places, Has
<1>6. /\ wpc'[w] = "read" /\ task'[w] = k /\ fd'[w] = f
      /\ \A v \in Workers \ {w} : wpc'[v] = wpc[v] /\ task'[v] = task[v] /\ fd'[v] = fd[v]
  BY <1>0, <1>2, <1>3 DEF Types
<1>7. Types'
  BY <1>0, <1>1, <1>2, <1>3, <1>4 DEF Types
<1>8. buf[w] = <<>> /\ pos[w] = 0 /\ Len(<<>>) = 0
  BY <1>0, <1>3 DEF Bounds
<1>9. Bounds'
  BY <1>0, <1>3, <1>6, <1>8, ServerAssumption DEF Bounds
<1>10. Opened' = Opened /\ \A c : Mine(c)' = Mine(c)
  BY <1>3 DEF Opened, Mine
<1>11. \A v \in Workers \ {w} : Busy(v)' => Busy(v) /\ task[v] # k /\ task[v] \in running
  BY <1>0, <1>5, <1>6 DEF Busy, Places
<1>12. Places'
  <2>1. \A j \in Conns : Has(j)' => Has(j)
    BY <1>1, <1>4 DEF Has
  <2>2. \A v \in Workers : Busy(v)' => task'[v] \in running'
    BY <1>1, <1>6, <1>11
  <2>3. \A v, u \in Workers : Busy(v)' /\ Busy(u)' /\ task'[v] = task'[u] => v = u
    BY <1>0, <1>6, <1>11 DEF Places
  <2> QED
    BY <1>0, <1>1, <1>3, <1>4, <1>5, <1>10, <2>1, <2>2, <2>3 DEF Places
<1>13. Files'
  <2> SUFFICES ASSUME lucky'
               PROVE  Files'
    BY DEF Files
  <2>1. lucky /\ f = arg[k]
    BY <1>2
  <2>2. \A j \in Conns : Has(j)' => Has(j)
    BY <1>1, <1>4 DEF Has
  <2>3. \A v \in Workers : Busy(v)' => fd'[v] = arg[task'[v]]
    BY <1>0, <1>6, <1>11, <2>1 DEF Files
  <2> QED
    BY <1>0, <1>1, <1>3, <2>1, <2>2, <2>3 DEF Files
<1>14. Requests'
  <2> SUFFICES ASSUME lucky
               PROVE  Requests'
    BY <1>2 DEF Requests
  <2>1. Piece(up[k], 0, Request(k)) /\ Request(k) \in Seq(Byte)
    BY <1>0, <1>4, RequestIsBytes DEF Requests
  <2>2. Piece(buf[w], 0, Request(k)) /\ Len(buf[w]) = 0
    BY <1>8, <2>1, RequestIsBytes DEF Piece
  <2>3. \A v \in Workers \ {w} : wpc'[v] = wpc[v] /\ task'[v] = task[v] /\ buf'[v] = buf[v]
    BY <1>3, <1>6
  <2>4. \A c \in Clients, v \in Workers :
          cpc[c] = "write" /\ task'[v] = Mine(c) /\ wpc'[v] = "read" => buf[v] = <<>>
    BY <1>0, <1>8, <2>3 DEF Requests
  <2>5. \A v \in Workers :
       /\ wpc'[v] = "read" => Piece(buf[v], 0, Request(task'[v]))
       /\ wpc'[v] = "read" => Piece(up[task'[v]], Len(buf[v]), Request(task'[v]))
       /\ wpc'[v] = "process" => buf[v] = Request(task'[v])
       /\ wpc'[v] = "write" /\ prog = "server" => buf[v] = Munged(Request(task'[v]))
    <3> TAKE v \in Workers
    <3>1. CASE v = w
      BY <1>6, <2>1, <2>2, <3>1
    <3>2. CASE v # w
      BY <1>0, <2>3, <3>2 DEF Requests
    <3> QED
      BY <3>1, <3>2
  <2>6. \A j \in Conns : Contains(backlog, j) \/ Contains(queue', j) => Piece(up[j], 0, Request(j))
    BY <1>0, <1>4 DEF Requests
  <2>7. /\ \A j \in Conns \ Opened : up[j] = <<>> /\ down[j] = <<>>
        /\ \A c \in Clients : cpc[c] = "write" => up[Mine(c)] = <<>>
    BY <1>0 DEF Requests
  <2> QED
    BY <1>3, <1>10, <2>4, <2>5, <2>6, <2>7 DEF Requests
<1>15. Answers'
  <2> SUFFICES ASSUME lucky, prog = "server", NEW c \in Clients, n[c] > 0
               PROVE  /\ Piece(got[c], 0, Answer(Mine(c))) /\ Piece(down[Mine(c)], Len(got[c]), Answer(Mine(c)))
                      /\ Contains(backlog, Mine(c)) \/ Contains(queue', Mine(c)) => got[c] = <<>> /\ down[Mine(c)] = <<>>
                      /\ \A v \in Workers : task'[v] = Mine(c) =>
                           /\ wpc'[v] \in {"read", "process"} => got[c] = <<>> /\ down[Mine(c)] = <<>>
                           /\ wpc'[v] = "write" /\ cEnd[Mine(c)] => pos[v] = Len(got[c]) + Len(down[Mine(c)])
    BY <1>2, <1>3, <1>10 DEF Answers
  <2>1. /\ Piece(got[c], 0, Answer(Mine(c))) /\ Piece(down[Mine(c)], Len(got[c]), Answer(Mine(c)))
        /\ Contains(backlog, Mine(c)) \/ Contains(queue, Mine(c)) => got[c] = <<>> /\ down[Mine(c)] = <<>>
        /\ \A v \in Workers : task[v] = Mine(c) =>
             /\ wpc[v] \in {"read", "process"} => got[c] = <<>> /\ down[Mine(c)] = <<>>
             /\ wpc[v] = "write" /\ cEnd[Mine(c)] => pos[v] = Len(got[c]) + Len(down[Mine(c)])
    BY <1>0 DEF Answers
  <2>2. ASSUME NEW v \in Workers, task'[v] = Mine(c)
        PROVE  /\ wpc'[v] \in {"read", "process"} => got[c] = <<>> /\ down[Mine(c)] = <<>>
               /\ wpc'[v] = "write" /\ cEnd[Mine(c)] => pos[v] = Len(got[c]) + Len(down[Mine(c)])
    <3>1. CASE v = w
      BY <1>4, <1>6, <2>1, <2>2, <3>1
    <3>2. CASE v # w
      BY <1>6, <2>1, <2>2, <3>2
    <3> QED
      BY <3>1, <3>2
  <2> QED
    BY <1>4, <2>1, <2>2
<1> QED
  BY <1>7, <1>9, <1>12, <1>13, <1>14, <1>15 DEF ServerIInv

LEMMA EndTaskKeeps ==
  ASSUME ServerIInv, NEW w \in Workers, EndTask(w)
  PROVE  ServerIInv'
<1>0. Types /\ Bounds /\ Places /\ Files /\ Requests /\ Answers
  BY DEF ServerIInv
<1>1. /\ wpc[w] = "close" /\ wpc' = [wpc EXCEPT ![w] = "idle"]
      /\ task' = [task EXCEPT ![w] = NoConn] /\ fd' = [fd EXCEPT ![w] = BadFd]
      /\ buf' = [buf EXCEPT ![w] = <<>>] /\ pos' = [pos EXCEPT ![w] = 0]
      /\ UNCHANGED <<prog, spc, backlog, arg, cpc, n, got, sockets, cEnd, lucky, up, down, queue>>
      /\ running' = running \ {task[w]} /\ done' = done \cup {task[w]}
  BY DEF EndTask, In, To, elsewhere, mainThread, client, wire, Pool!Finish
<1>2. /\ wpc'[w] = "idle" /\ buf'[w] = <<>> /\ pos'[w] = 0
      /\ \A v \in Workers \ {w} :
           /\ wpc'[v] = wpc[v] /\ task'[v] = task[v] /\ fd'[v] = fd[v]
           /\ buf'[v] = buf[v] /\ pos'[v] = pos[v]
  BY <1>0, <1>1 DEF Types
<1>3. /\ task[w] \in running /\ task[w] \in Conns /\ task[w] \in Opened
      /\ ~Contains(backlog, task[w]) /\ ~Contains(queue, task[w]) /\ task[w] \notin done
      /\ \A v \in Workers : Busy(v) /\ task[v] = task[w] => v = w
      /\ lucky => fd[w] \in Fds /\ file[fd[w]] = task[w] /\ Conn(w) = task[w]
  BY <1>1, BusyHas DEF Busy
<1>4. IF Conn(w) = NoConn THEN UNCHANGED <<file, sEnd>>
      ELSE /\ file' = [file EXCEPT ![fd[w]] = NoConn]
           /\ sEnd' = [sEnd EXCEPT ![Conn(w)] = FALSE]
  BY DEF EndTask, Close
<1>5. Types'
  <2>1. file' \in [Fds -> Conns \cup {NoConn}] /\ sEnd' \in [Conns -> BOOLEAN]
    BY <1>0, <1>4 DEF Types
  <2>2. /\ wpc' \in [Workers -> {"idle", "read", "process", "write", "close"}]
        /\ task' \in [Workers -> Conns \cup {NoConn}] /\ fd' \in [Workers -> Fds \cup {BadFd}]
    BY <1>0, <1>1 DEF Types
  <2>3. buf' \in [Workers -> Seq(Byte)] /\ pos' \in [Workers -> Nat]
    BY <1>0, <1>1 DEF Types
  <2>4. running' \subseteq Conns /\ done' \subseteq Conns
    BY <1>0, <1>1, <1>3 DEF Types
  <2> QED
    BY <1>0, <1>1, <2>1, <2>2, <2>3, <2>4 DEF Types
<1>6. Bounds'
  BY <1>0, <1>1, <1>2, ServerAssumption DEF Bounds
<1>7. Opened' = Opened
  BY <1>1 DEF Opened
<1>8. \A v \in Workers : Busy(v)' => v # w /\ Busy(v) /\ task'[v] = task[v] /\ task[v] # task[w]
  BY <1>2, <1>3 DEF Busy
<1>9. Places'
  BY <1>0, <1>1, <1>3, <1>7, <1>8 DEF Places, Has
<1>10. Files'
  <2> SUFFICES ASSUME lucky
               PROVE  Files'
    BY <1>1 DEF Files
  <2>1. /\ file' = [file EXCEPT ![fd[w]] = NoConn] /\ sEnd' = [sEnd EXCEPT ![task[w]] = FALSE]
        /\ fd[w] \in Fds /\ file[fd[w]] = task[w]
    BY <1>3, <1>4, ServerAssumption
  <2>2. \A j \in Conns : Has(j)' => Has(j) /\ j # task[w]
    BY <1>1, <1>3 DEF Has
  <2>3. \A j \in Conns : Has(j)' => arg[j] \in Fds /\ file[arg[j]] = j /\ arg[j] # fd[w]
    BY <1>0, <2>1, <2>2 DEF Files
  <2>4. \A j \in Conns : Has(j)' => arg[j] \in Fds /\ file'[arg[j]] = j
    BY <1>0, <2>1, <2>3 DEF Types
  <2>5. \A v \in Workers : Busy(v)' => fd'[v] = arg[task'[v]]
    BY <1>0, <1>2, <1>8 DEF Files
  <2>6. \A j \in done' : ~sEnd'[j]
    BY <1>0, <1>1, <1>3, <2>1 DEF Files, Types
  <2> QED
    BY <1>1, <2>4, <2>5, <2>6 DEF Files
<1>11. Requests'
  BY <1>0, <1>1, <1>2, RequestsFrame
<1>12. Answers'
  BY <1>0, <1>1, <1>2, AnswersFrame
<1> QED
  BY <1>5, <1>6, <1>9, <1>10, <1>11, <1>12 DEF ServerIInv

LEMMA AcceptKeeps ==
  ASSUME ServerIInv, Accept
  PROVE  ServerIInv'
<1> DEFINE k == Head(backlog)
<1>0. Types /\ Bounds /\ Places /\ Files /\ Requests /\ Answers
  BY DEF ServerIInv
<1>1. PICK f \in Fds : /\ file[f] = NoConn
                       /\ file' = [file EXCEPT ![f] = k] /\ arg' = [arg EXCEPT ![k] = f]
  BY DEF Accept
<1>2. /\ backlog # <<>> /\ backlog' = Tail(backlog) /\ queue' = Append(queue, k)
      /\ k \notin running \cup done
      /\ UNCHANGED <<prog, spc, running, done, wpc, task, fd, buf, pos, cpc, n, got, sockets,
                     up, down, cEnd, sEnd, lucky>>
  BY DEF Accept, Pool!Submit, worker, client, wire, conns
<1>3. /\ k \in Conns /\ Contains(backlog, k) /\ Tail(backlog) \in Seq(Conns)
      /\ \A u : Contains(backlog', u) => Contains(backlog, u) /\ u # k
      /\ Distinct(backlog')
  BY <1>0, <1>2, TailContains DEF Types, Places
<1> HIDE DEF k
<1>4. k \in Opened /\ ~Contains(queue, k) /\ k \notin running /\ k \notin done
  BY <1>0, <1>3 DEF Places, Has
<1>5. /\ Append(queue, k) \in Seq(Conns) /\ Distinct(queue')
      /\ \A u : Contains(queue', u) <=> Contains(queue, u) \/ u = k
  BY <1>0, <1>2, <1>3, <1>4, AppendContains DEF Types, Places
<1>6. Types'
  BY <1>0, <1>1, <1>2, <1>3, <1>5 DEF Types
<1>7. Bounds'
  BY <1>0, <1>2 DEF Bounds
<1>8. Opened' = Opened /\ \A c : Mine(c)' = Mine(c)
  BY <1>2 DEF Opened, Mine
<1>9. Places'
  BY <1>0, <1>2, <1>3, <1>4, <1>5, <1>8 DEF Places, Has, Busy
<1>10. Files'
  <2> SUFFICES ASSUME lucky
               PROVE  Files'
    BY <1>2 DEF Files
  <2>1. \A j \in Conns : Has(j)' <=> Has(j) \/ j = k
    BY <1>2, <1>5 DEF Has
  <2>2. ~Has(k)
    BY <1>4 DEF Has
  <2>3. arg'[k] = f /\ file'[f] = k /\ \A j \in Conns \ {k} : arg'[j] = arg[j]
    BY <1>0, <1>1, <1>3 DEF Types
  <2>4. \A j \in Conns : Has(j) => arg[j] \in Fds /\ file[arg[j]] = j /\ j # NoConn /\ arg[j] # f
    BY <1>0, <1>1, ServerAssumption DEF Files
  <2>5. \A j \in Conns : Has(j)' => arg'[j] \in Fds /\ file'[arg'[j]] = j
    BY <1>0, <1>1, <2>1, <2>2, <2>3, <2>4 DEF Types
  <2>6. \A v \in Workers : Busy(v)' => fd'[v] = arg'[task'[v]]
    <3>1. \A v \in Workers : Busy(v) => task[v] \in Conns /\ task[v] # k
      BY <1>4, BusyHas
    <3> QED
      BY <1>0, <1>2, <2>3, <3>1 DEF Files, Busy
  <2> QED
    BY <1>0, <1>2, <2>5, <2>6 DEF Files
<1>11. Requests'
  BY <1>0, <1>2, <1>3, <1>5, <1>8 DEF Requests
<1>12. Answers'
  BY <1>0, <1>2, <1>3, <1>5, <1>8 DEF Answers
<1> QED
  BY <1>6, <1>7, <1>9, <1>10, <1>11, <1>12 DEF ServerIInv

----------------------------------------------------------------------------
\* The steps of a client.

LEMMA OpenedBound ==
  ASSUME Types, NEW c \in Clients, Cardinality(Opened) < MaxConns
  PROVE  n[c] < MaxConns
<1>1. IsFiniteSet(Clients) /\ MaxConns \in Nat /\ n[c] \in 0..MaxConns
  BY ServerAssumption DEF Types
<1>2. IsFiniteSet(Conns)
  <2>1. IsFiniteSet(1..MaxConns)
    BY <1>1, FS_Interval
  <2> QED
    BY <1>1, <2>1, FS_Product DEF Conns
<1>3. IsFiniteSet(Opened) /\ Cardinality(Opened) \in Nat
  BY <1>2, FS_Subset, FS_CardinalityType DEF Opened
<1> DEFINE f == [i \in 1..n[c] |-> <<c, i>>]
<1>4. \A i \in 1..n[c] : <<c, i>> \in Opened
  BY <1>1 DEF Opened, Conns
<1>5. f \in Injection(1..n[c], Opened)
  BY <1>4 DEF Injection, IsInjective
<1>6. Cardinality(1..n[c]) = n[c]
  BY <1>1, FS_Interval
<1>7. Cardinality(1..n[c]) <= Cardinality(Opened)
  BY <1>3, <1>5, FS_Injection
<1> QED
  BY <1>1, <1>3, <1>6, <1>7

\* Two clients' connections are different.
LEMMA MineDiffers ==
  ASSUME NEW c, NEW d, c # d
  PROVE  Mine(c) # Mine(d)
BY DEF Mine

LEMMA ConnectFailsKeeps ==
  ASSUME ServerIInv, NEW c \in Clients, ConnectFails(c)
  PROVE  ServerIInv'
<1>0. Types /\ Bounds /\ Places /\ Files /\ Requests /\ Answers
  BY DEF ServerIInv
<1>1. /\ cpc[c] = "connect" /\ cpc' = [cpc EXCEPT ![c] = "exited"]
      /\ UNCHANGED <<prog, spc, backlog, arg, file, queue, running, done, wpc, task, fd, buf, pos,
                     n, got, up, down, cEnd, sEnd, lucky>>
  BY DEF ConnectFails, CTo, apart, mainThread, pool, worker, wire, conns
<1>2. cpc'[c] = "exited" /\ \A d \in Clients \ {c} : cpc'[d] = cpc[d] /\ sockets'[d] = sockets[d]
  <2>1. PICK o : sockets' = [sockets EXCEPT ![c] = @ + IF o.opened THEN 1 ELSE 0]
    BY DEF ConnectFails
  <2> QED
    BY <1>0, <1>1, <2>1 DEF Types
<1>3. sockets' \in [Clients -> Int]
  <2>1. PICK o : sockets' = [sockets EXCEPT ![c] = @ + IF o.opened THEN 1 ELSE 0]
    BY DEF ConnectFails
  <2>2. (IF o.opened THEN 1 ELSE 0) \in Int /\ sockets[c] \in Int
    BY <1>0 DEF Types
  <2> DEFINE x == IF o.opened THEN 1 ELSE 0
  <2> HIDE DEF x
  <2>3. sockets' = [sockets EXCEPT ![c] = sockets[c] + x] /\ sockets[c] + x \in Int
    BY <2>1, <2>2 DEF x
  <2> QED
    BY <1>0, <2>3 DEF Types
<1>4. Types'
  BY <1>0, <1>1, <1>3 DEF Types
<1>5. Bounds'
  BY <1>0, <1>1, <1>2 DEF Bounds
<1>6. Places' /\ Files'
  BY <1>0, <1>1, PlacesFrame, FilesFrame DEF Busy
<1>7. Opened' = Opened /\ \A d : Mine(d)' = Mine(d)
  BY <1>1 DEF Opened, Mine
<1>8. Requests'
  BY <1>0, <1>1, <1>2, <1>7 DEF Requests
<1>9. Answers'
  BY <1>0, <1>1, AnswersFrame
<1> QED
  BY <1>4, <1>5, <1>6, <1>8, <1>9 DEF ServerIInv

LEMMA ConnectKeeps ==
  ASSUME ServerIInv, NEW c \in Clients, Connect(c)
  PROVE  ServerIInv'
<1> DEFINE k == <<c, n[c] + 1>>
<1>0. Types /\ Bounds /\ Places /\ Files /\ Requests /\ Answers
  BY DEF ServerIInv
<1>1. /\ cpc[c] = "connect" /\ cpc' = [cpc EXCEPT ![c] = "write"] /\ Cardinality(Opened) < MaxConns
      /\ n' = [n EXCEPT ![c] = @ + 1] /\ sockets' = [sockets EXCEPT ![c] = @ + 1]
      /\ got' = [got EXCEPT ![c] = <<>>] /\ backlog' = Append(backlog, k)
      /\ cEnd' = [cEnd EXCEPT ![k] = TRUE] /\ sEnd' = [sEnd EXCEPT ![k] = TRUE]
      /\ UNCHANGED <<prog, spc, arg, file, queue, running, done, wpc, task, fd, buf, pos,
                     up, down, lucky>>
  BY DEF Connect, CTo, pool, worker, wire
<1>2. n[c] \in Nat /\ n[c] < MaxConns /\ MaxConns \in Nat
  BY SMTT(30), <1>0, <1>1, OpenedBound, ServerAssumption DEF Types
<1>3. k \in Conns /\ k \notin Opened
  BY <1>2 DEF Conns, Opened
<1>4. /\ cpc'[c] = "write" /\ n'[c] = n[c] + 1 /\ sockets'[c] = sockets[c] + 1 /\ got'[c] = <<>>
      /\ \A d \in Clients \ {c} : cpc'[d] = cpc[d] /\ n'[d] = n[d] /\ sockets'[d] = sockets[d]
                                  /\ got'[d] = got[d]
      /\ cEnd'[k] /\ sEnd'[k]
      /\ \A j \in Conns \ {k} : cEnd'[j] = cEnd[j] /\ sEnd'[j] = sEnd[j]
  BY <1>0, <1>1, <1>3 DEF Types
<1>5. /\ Mine(c)' = k /\ \A d \in Clients \ {c} : Mine(d)' = Mine(d) /\ Mine(d) # k
  BY <1>4 DEF Mine
<1>6. Opened' = Opened \cup {k}
  <2>1. ASSUME NEW j \in Conns
        PROVE  j \in Opened' <=> j \in Opened \/ j = k
    <3>1. PICK d \in Clients, i \in 1..MaxConns : j = <<d, i>>
      BY DEF Conns
    <3>2. j[1] = d /\ j[2] = i /\ i \in Nat
      BY <1>2, <3>1
    <3>3. (j \in Opened' <=> i <= n'[d]) /\ (j \in Opened <=> i <= n[d])
      BY <3>2 DEF Opened
    <3>4. CASE d = c
      BY <1>2, <1>4, <3>1, <3>3, <3>4
    <3>5. CASE d # c
      BY <1>4, <3>1, <3>3, <3>5
    <3> QED
      BY <3>4, <3>5
  <2> QED
    BY <1>3, <2>1 DEF Opened
<1> HIDE DEF k
<1>7. /\ ~Contains(backlog, k) /\ ~Contains(queue, k) /\ k \notin running /\ k \notin done
      /\ \A w \in Workers : Busy(w) => task[w] # k
  BY <1>0, <1>3 DEF Places
<1>8. /\ Append(backlog, k) \in Seq(Conns) /\ Distinct(backlog')
      /\ \A u : Contains(backlog', u) <=> Contains(backlog, u) \/ u = k
  BY <1>0, <1>1, <1>3, <1>7, AppendContains DEF Types, Places
<1>9. Types'
  <2>1. n' \in [Clients -> 0 .. MaxConns] /\ sockets' \in [Clients -> Int]
    BY <1>0, <1>1, <1>2 DEF Types
  <2>2. got' \in [Clients -> Seq(Byte)] /\ cpc' \in [Clients -> {"connect", "write", "read", "close", "exited"}]
    BY <1>0, <1>1 DEF Types
  <2>3. cEnd' \in [Conns -> BOOLEAN] /\ sEnd' \in [Conns -> BOOLEAN]
    BY <1>0, <1>1 DEF Types
  <2>4. backlog' \in Seq(Conns)
    BY <1>1, <1>8
  <2> QED
    BY <1>0, <1>1, <2>1, <2>2, <2>3, <2>4 DEF Types
<1>10. Bounds'
  <2>1. sockets[c] = 0
    BY <1>0, <1>1 DEF Bounds
  <2>2. Len(<<>>) = 0 /\ Bytes \in Nat
    BY ServerAssumption
  <2> QED
    BY <1>0, <1>1, <1>2, <1>4, <2>1, <2>2 DEF Bounds
<1>11. Places'
  BY <1>0, <1>1, <1>6, <1>7, <1>8 DEF Places, Has, Busy
<1>12. Files'
  BY <1>0, <1>1, <1>4, <1>7 DEF Files, Has, Busy, Types
<1>13. Requests'
  <2> SUFFICES ASSUME lucky
               PROVE  Requests'
    BY <1>1 DEF Requests
  <2>1. up[k] = <<>> /\ down[k] = <<>>
    BY <1>0, <1>3 DEF Requests
  <2>2. Piece(up[k], 0, Request(k))
    BY <1>3, <2>1, RequestIsBytes, ServerAssumption DEF Piece
  <2>3. /\ \A j \in Conns \ Opened' : up[j] = <<>> /\ down[j] = <<>>
        /\ \A j \in Conns : Contains(backlog', j) \/ Contains(queue, j) => Piece(up[j], 0, Request(j))
    BY <1>0, <1>6, <1>8, <2>2 DEF Requests
  <2>4. \A d \in Clients : cpc'[d] = "write" => up[Mine(d)'] = <<>>
    BY <1>0, <1>4, <1>5, <2>1 DEF Requests
  <2>5. \A d \in Clients, w \in Workers :
          cpc'[d] = "write" /\ task[w] = Mine(d)' /\ wpc[w] = "read" => buf[w] = <<>>
    BY <1>0, <1>4, <1>5, <1>7 DEF Requests, Busy
  <2> QED
    BY <1>0, <1>1, <2>3, <2>4, <2>5 DEF Requests
<1>14. Answers'
  <2> SUFFICES ASSUME lucky, prog = "server", NEW d \in Clients, n'[d] > 0
               PROVE  /\ Piece(got'[d], 0, Answer(Mine(d)')) /\ Piece(down[Mine(d)'], Len(got'[d]), Answer(Mine(d)'))
                      /\ Contains(backlog', Mine(d)') \/ Contains(queue, Mine(d)') => got'[d] = <<>> /\ down[Mine(d)'] = <<>>
                      /\ \A v \in Workers : task[v] = Mine(d)' =>
                           /\ wpc[v] \in {"read", "process"} => got'[d] = <<>> /\ down[Mine(d)'] = <<>>
                           /\ wpc[v] = "write" /\ cEnd'[Mine(d)'] => pos[v] = Len(got'[d]) + Len(down[Mine(d)'])
    BY ZenonT(40), <1>1 DEF Answers
  <2>1. CASE d = c
    <3>1. got'[d] = <<>> /\ down[k] = <<>> /\ Mine(d)' = k
      BY <1>0, <1>3, <1>4, <1>5, <2>1 DEF Requests
    <3>2. Answer(k) \in Seq(Byte) /\ Len(Answer(k)) = Bytes /\ Bytes \in Nat
      BY <1>3, RequestIsBytes, MungedIsBytes, ServerAssumption DEF Answer
    <3>3. Piece(<<>>, 0, Answer(k)) /\ Piece(<<>>, Len(<<>>), Answer(k))
      BY <3>2 DEF Piece
    <3> QED
      BY <1>7, <3>1, <3>3 DEF Busy
  <2>2. CASE d # c
    <3>1. Mine(d)' = Mine(d) /\ Mine(d) # k /\ got'[d] = got[d] /\ n[d] > 0
      BY <1>4, <1>5, <2>2
    <3>2. Mine(d) \in Conns
      BY <1>0, <3>1, MineIsConn
    <3>3. cEnd'[Mine(d)] = cEnd[Mine(d)]
      BY <1>4, <3>1, <3>2
    <3>4. Contains(backlog', Mine(d)) <=> Contains(backlog, Mine(d))
      BY <1>8, <3>1
    <3>5. /\ Piece(got[d], 0, Answer(Mine(d))) /\ Piece(down[Mine(d)], Len(got[d]), Answer(Mine(d)))
          /\ Contains(backlog, Mine(d)) \/ Contains(queue, Mine(d)) => got[d] = <<>> /\ down[Mine(d)] = <<>>
          /\ \A v \in Workers : task[v] = Mine(d) =>
               /\ wpc[v] \in {"read", "process"} => got[d] = <<>> /\ down[Mine(d)] = <<>>
               /\ wpc[v] = "write" /\ cEnd[Mine(d)] => pos[v] = Len(got[d]) + Len(down[Mine(d)])
      BY <1>0, <3>1 DEF Answers
    <3> QED
      BY <3>1, <3>3, <3>4, <3>5
  <2> QED
    BY <2>1, <2>2
<1> QED
  BY <1>9, <1>10, <1>11, <1>12, <1>13, <1>14 DEF ServerIInv

LEMMA SendRequestKeeps ==
  ASSUME ServerIInv, NEW c \in Clients, SendRequest(c)
  PROVE  ServerIInv'
<1> DEFINE k == Mine(c)
<1>0. Types /\ Bounds /\ Places /\ Files /\ Requests /\ Answers
  BY DEF ServerIInv
<1>1. /\ cpc[c] = "write"
      /\ UNCHANGED <<prog, spc, backlog, arg, file, queue, running, done, wpc, task, fd, buf, pos,
                     n, got, sockets, down, cEnd, sEnd, lucky>>
  BY DEF SendRequest, apart, mainThread, pool, worker, conns
<1>2. PICK a \in {"read", "close"} : cpc' = [cpc EXCEPT ![c] = a]
  BY DEF SendRequest, CTo
<1>3. up' = [up EXCEPT ![k] = Request(k)] \/ up' = up
  BY DEF SendRequest
<1>4. k \in Conns /\ k \in Opened /\ Request(k) \in Seq(Byte) /\ Len(Request(k)) = Bytes
  BY <1>0, <1>1, MineIsConn, RequestIsBytes DEF Bounds
<1> HIDE DEF k
<1>5. /\ cpc'[c] = a /\ \A d \in Clients \ {c} : cpc'[d] = cpc[d]
      /\ up'[k] \in {up[k], Request(k)} /\ \A j \in Conns \ {k} : up'[j] = up[j]
  BY <1>0, <1>2, <1>3, <1>4 DEF Types
<1>6. Types'
  BY <1>0, <1>1, <1>2, <1>3, <1>4 DEF Types
<1>7. Bounds'
  BY <1>0, <1>1, <1>5 DEF Bounds
<1>8. Places' /\ Files'
  BY <1>0, <1>1, PlacesFrame, FilesFrame DEF Busy
<1>9. Opened' = Opened /\ \A d : Mine(d)' = Mine(d)
  BY <1>1 DEF Opened, Mine
<1>10. Requests'
  <2> SUFFICES ASSUME lucky
               PROVE  Requests'
    BY <1>1 DEF Requests
  <2>1. Piece(up'[k], 0, Request(k))
    <3>1. up[k] = <<>>
      BY <1>0, <1>1 DEF Requests, k
    <3>2. 0 + Len(Request(k)) <= Len(Request(k)) /\ \A j \in 1..Len(Request(k)) : 0 + j = j
      BY <1>4, ServerAssumption
    <3>3. 0 + Len(<<>>) <= Bytes
      BY ServerAssumption
    <3> QED
      BY <1>4, <1>5, <3>1, <3>2, <3>3 DEF Piece
  <2>2. \A w \in Workers : task[w] = k /\ wpc[w] = "read" => buf[w] = <<>> /\ Len(buf[w]) = 0
    BY <1>0, <1>1 DEF Requests, k
  <2>3. \A d \in Clients : cpc'[d] = "write" => d # c /\ cpc[d] = "write" /\ Mine(d) # k /\ Mine(d) \in Conns
    <3>1. \A d \in Clients : cpc'[d] = "write" => d # c /\ cpc[d] = "write"
      BY <1>5
    <3> QED
      BY <1>0, <3>1, MineDiffers, MineIsConn DEF Bounds, k
  <2>4. \A j \in Conns \ Opened : up'[j] = <<>> /\ down[j] = <<>>
    BY <1>0, <1>4, <1>5 DEF Requests
  <2>5. /\ \A d \in Clients : cpc'[d] = "write" => up'[Mine(d)] = <<>>
        /\ \A d \in Clients, w \in Workers :
             cpc'[d] = "write" /\ task[w] = Mine(d) /\ wpc[w] = "read" => buf[w] = <<>>
    BY <1>0, <1>5, <2>3 DEF Requests
  <2>6. \A j \in Conns : Contains(backlog, j) \/ Contains(queue, j) => Piece(up'[j], 0, Request(j))
    BY <1>0, <1>5, <2>1 DEF Requests
  <2>7. ASSUME NEW w \in Workers
        PROVE  /\ wpc[w] = "read" => Piece(buf[w], 0, Request(task[w]))
               /\ wpc[w] = "read" => Piece(up'[task[w]], Len(buf[w]), Request(task[w]))
               /\ wpc[w] = "process" => buf[w] = Request(task[w])
               /\ wpc[w] = "write" /\ prog = "server" => buf[w] = Munged(Request(task[w]))
    <3>1. /\ wpc[w] = "read" => Piece(buf[w], 0, Request(task[w]))
          /\ wpc[w] = "read" => Piece(up[task[w]], Len(buf[w]), Request(task[w]))
          /\ wpc[w] = "process" => buf[w] = Request(task[w])
          /\ wpc[w] = "write" /\ prog = "server" => buf[w] = Munged(Request(task[w]))
      BY <1>0 DEF Requests
    <3>2. wpc[w] = "read" => task[w] \in Conns
      BY BusyHas DEF Busy
    <3>3. CASE wpc[w] = "read" /\ task[w] = k
      BY <2>1, <2>2, <3>1, <3>3
    <3>4. CASE wpc[w] = "read" /\ task[w] # k
      BY <1>5, <3>1, <3>2, <3>4
    <3>5. CASE wpc[w] # "read"
      BY <3>1, <3>5
    <3> QED
      BY <3>3, <3>4, <3>5
  <2> QED
    BY <1>1, <1>9, <2>4, <2>5, <2>6, <2>7 DEF Requests
<1>11. Answers'
  BY <1>0, <1>1, AnswersFrame
<1> QED
  BY <1>6, <1>7, <1>8, <1>10, <1>11 DEF ServerIInv

LEMMA ReadAnswerKeeps ==
  ASSUME ServerIInv, NEW c \in Clients, ReadAnswer(c)
  PROVE  ServerIInv'
<1> DEFINE k == Mine(c)
<1>0. Types /\ Bounds /\ Places /\ Files /\ Requests /\ Answers
  BY DEF ServerIInv
<1>1. /\ cpc[c] = "read"
      /\ UNCHANGED <<prog, spc, backlog, arg, file, queue, running, done, wpc, task, fd, buf, pos,
                     n, sockets, up, cEnd, sEnd, lucky>>
  BY DEF ReadAnswer, apart, mainThread, pool, worker, conns
<1>2. PICK a \in {"read", "close"} : cpc' = [cpc EXCEPT ![c] = a]
  BY DEF ReadAnswer, CTo
<1>3. PICK m \in 0..Len(down[k]) :
        /\ \/ m # 0 /\ Len(got[c]) + m <= Bytes
              /\ got' = [got EXCEPT ![c] = got[c] \o Take(down[k], m)]
              /\ down' = [down EXCEPT ![k] = Drop(down[k], m)]
           \/ m = 0 /\ UNCHANGED <<got, down>>
  <2>1. k \in Conns /\ Len(down[k]) \in Nat
    BY <1>0, <1>1, MineIsConn DEF Bounds, Types
  <2> HIDE DEF k
  <2>2. CASE UNCHANGED <<got, down>>
    <3>1. 0 \in 0..Len(down[k])
      BY <2>1
    <3> QED
      BY <2>2, <3>1
  <2>3. CASE \E m \in 1 .. Len(down[k]) :
               /\ Len(got[c]) + m <= Bytes
               /\ got' = [got EXCEPT ![c] = @ \o Take(down[k], m)]
               /\ down' = [down EXCEPT ![k] = Drop(@, m)]
    <3>1. PICK m \in 1 .. Len(down[k]) :
               /\ Len(got[c]) + m <= Bytes
               /\ got' = [got EXCEPT ![c] = got[c] \o Take(down[k], m)]
               /\ down' = [down EXCEPT ![k] = Drop(down[k], m)]
      BY <2>3
    <3>2. m \in 0 .. Len(down[k]) /\ m # 0
      BY <2>1
    <3> QED
      BY <3>1, <3>2
  <2> QED
    BY <2>2, <2>3 DEF ReadAnswer, k
<1>4. k \in Conns /\ k \in Opened /\ got[c] \in Seq(Byte) /\ down[k] \in Seq(Byte)
      /\ Len(got[c]) \in Nat /\ Len(down[k]) \in Nat /\ n[c] > 0
  BY <1>0, <1>1, MineIsConn DEF Bounds, Types
<1> HIDE DEF k
<1>5. /\ got[c] \o Take(down[k], m) \in Seq(Byte)
      /\ Len(got[c] \o Take(down[k], m)) = Len(got[c]) + m
      /\ Drop(down[k], m) \in Seq(Byte) /\ Len(Drop(down[k], m)) = Len(down[k]) - m
  <2> DEFINE x == got[c]
             y == down[k]
  <2>1. x \in Seq(Byte) /\ y \in Seq(Byte) /\ m \in 0..Len(y)
    BY <1>4
  <2> HIDE DEF x, y
  <2>2. x \o Take(y, m) \in Seq(Byte) /\ Len(x \o Take(y, m)) = Len(x) + m
    BY <2>1, ConcatTake
  <2>3. Drop(y, m) \in Seq(Byte) /\ Len(Drop(y, m)) = Len(y) - m
    BY <2>1, TakeDrop
  <2> QED
    BY <2>2, <2>3 DEF x, y
<1>6. /\ cpc'[c] = a /\ \A d \in Clients \ {c} : cpc'[d] = cpc[d] /\ got'[d] = got[d]
      /\ \A j \in Conns \ {k} : down'[j] = down[j]
  BY <1>0, <1>2, <1>3, <1>4 DEF Types
<1>7. \/ /\ m # 0 /\ Len(got[c]) + m <= Bytes
         /\ got'[c] = got[c] \o Take(down[k], m) /\ down'[k] = Drop(down[k], m)
      \/ m = 0 /\ got'[c] = got[c] /\ down'[k] = down[k]
  BY <1>0, <1>3, <1>4 DEF Types
<1>8. Types'
  <2>1. got' \in [Clients -> Seq(Byte)] /\ down' \in [Conns -> Seq(Byte)]
    <3>1. CASE UNCHANGED <<got, down>>
      BY <1>0, <3>1 DEF Types
    <3>2. CASE /\ got' = [got EXCEPT ![c] = got[c] \o Take(down[k], m)]
               /\ down' = [down EXCEPT ![k] = Drop(down[k], m)]
      <4> DEFINE x == got[c] \o Take(down[k], m)
                 y == Drop(down[k], m)
      <4>1. /\ got' = [got EXCEPT ![c] = x] /\ down' = [down EXCEPT ![k] = y]
            /\ x \in Seq(Byte) /\ y \in Seq(Byte)
        BY <1>5, <3>2
      <4> HIDE DEF x, y
      <4> QED
        BY <1>0, <4>1 DEF Types
    <3> QED
      BY <1>3, <3>1, <3>2
  <2> QED
    BY <1>0, <1>1, <1>2, <2>1 DEF Types
<1>9. Bounds'
  <2>1. Len(got'[c]) <= Bytes
    <3>1. CASE m # 0
      BY <1>5, <1>7, <3>1
    <3>2. CASE m = 0
      BY <1>0, <1>7, <3>2 DEF Bounds
    <3> QED
      BY <3>1, <3>2
  <2> QED
    BY <1>0, <1>1, <1>6, <2>1 DEF Bounds
<1>10. Places' /\ Files'
  BY <1>0, <1>1, PlacesFrame, FilesFrame DEF Busy
<1>11. Opened' = Opened /\ \A d : Mine(d)' = Mine(d)
  BY <1>1 DEF Opened, Mine
<1>12. Requests'
  <2>1. \A j \in Conns \ Opened : down'[j] = down[j]
    BY <1>4, <1>6
  <2>2. \A d \in Clients : cpc'[d] = "write" => cpc[d] = "write"
    BY <1>6
  <2> QED
    BY <1>0, <1>1, <1>11, <2>1, <2>2 DEF Requests
<1>13. Answers'
  <2> SUFFICES ASSUME lucky, prog = "server", NEW d \in Clients, n[d] > 0
               PROVE  /\ Piece(got'[d], 0, Answer(Mine(d))) /\ Piece(down'[Mine(d)], Len(got'[d]), Answer(Mine(d)))
                      /\ Contains(backlog, Mine(d)) \/ Contains(queue, Mine(d)) => got'[d] = <<>> /\ down'[Mine(d)] = <<>>
                      /\ \A v \in Workers : task[v] = Mine(d) =>
                           /\ wpc[v] \in {"read", "process"} => got'[d] = <<>> /\ down'[Mine(d)] = <<>>
                           /\ wpc[v] = "write" /\ cEnd[Mine(d)] => pos[v] = Len(got'[d]) + Len(down'[Mine(d)])
    BY <1>1, <1>11 DEF Answers
  <2>1. /\ Piece(got[d], 0, Answer(Mine(d))) /\ Piece(down[Mine(d)], Len(got[d]), Answer(Mine(d)))
        /\ Contains(backlog, Mine(d)) \/ Contains(queue, Mine(d)) => got[d] = <<>> /\ down[Mine(d)] = <<>>
        /\ \A v \in Workers : task[v] = Mine(d) =>
             /\ wpc[v] \in {"read", "process"} => got[d] = <<>> /\ down[Mine(d)] = <<>>
             /\ wpc[v] = "write" /\ cEnd[Mine(d)] => pos[v] = Len(got[d]) + Len(down[Mine(d)])
    BY <1>0 DEF Answers
  <2>2. CASE d # c \/ m = 0
    <3>1. got'[d] = got[d] /\ down'[Mine(d)] = down[Mine(d)]
      <4>1. CASE m = 0
        BY <1>3, <4>1
      <4>2. CASE d # c
        <5>1. Mine(d) # k /\ Mine(d) \in Conns
          BY <1>0, <4>2, MineDiffers, MineIsConn DEF k
        <5> QED
          BY <1>6, <4>2, <5>1
      <4> QED
        BY <2>2, <4>1, <4>2
    <3> QED
      BY <2>1, <3>1
  <2>3. CASE d = c /\ m # 0
    <3>1. Mine(d) = k /\ Answer(k) \in Seq(Byte)
      BY <1>4, <2>3, RequestIsBytes, MungedIsBytes DEF k, Answer
    <3>2. down[k] # <<>>
      <4>1. Len(down[k]) # 0
        BY <1>4, <2>3
      <4> QED
        BY <4>1
    <3>3. Piece(got'[c], 0, Answer(k))
      <4>1. 0 + Len(got[c]) = Len(got[c]) /\ 0 \in Nat
        BY <1>4
      <4>2. Piece(got[c] \o Take(down[k], m), 0, Answer(k))
        BY <1>4, <2>1, <2>3, <3>1, <4>1, PieceAdd
      <4> QED
        BY <1>7, <2>3, <4>2
    <3>4. Piece(down'[k], Len(got'[c]), Answer(k))
      <4>1. Piece(Drop(down[k], m), Len(got[c]) + m, Answer(k))
        BY <1>4, <2>1, <2>3, <3>1, PieceDrop
      <4> QED
        BY <1>5, <1>7, <2>3, <4>1
    <3>5. Len(got'[c]) + Len(down'[k]) = Len(got[c]) + Len(down[k])
      <4> DEFINE x == Len(got[c])
                 y == Len(down[k])
      <4>1. Len(got'[c]) = x + m /\ Len(down'[k]) = y - m /\ x \in Nat /\ y \in Nat /\ m \in Nat
        <5>1. x \in Nat /\ y \in Nat /\ m \in Nat
          BY <1>4
        <5>2. got'[c] = got[c] \o Take(down[k], m) /\ down'[k] = Drop(down[k], m)
          BY <1>7, <2>3
        <5> QED
          BY <1>5, <5>1, <5>2
      <4> HIDE DEF x, y
      <4>2. Len(got'[c]) + Len(down'[k]) = x + y
        BY <4>1
      <4> QED
        BY <4>2 DEF x, y
    <3> QED
      BY <2>1, <2>3, <3>1, <3>2, <3>3, <3>4, <3>5
  <2> QED
    BY <2>2, <2>3
<1> QED
  BY <1>8, <1>9, <1>10, <1>12, <1>13 DEF ServerIInv

LEMMA CloseSocketKeeps ==
  ASSUME ServerIInv, NEW c \in Clients, CloseSocket(c)
  PROVE  ServerIInv'
<1>0. Types /\ Bounds /\ Places /\ Files /\ Requests /\ Answers
  BY DEF ServerIInv
<1>1. /\ cpc[c] = "close" /\ cpc' = [cpc EXCEPT ![c] = "connect"]
      /\ cEnd' = [cEnd EXCEPT ![Mine(c)] = FALSE] /\ sockets' = [sockets EXCEPT ![c] = @ - 1]
      /\ UNCHANGED <<prog, spc, backlog, arg, file, queue, running, done, wpc, task, fd, buf, pos,
                     n, got, up, down, sEnd, lucky>>
  BY DEF CloseSocket, CTo, apart, mainThread, pool, worker, wire
<1>2. /\ cpc'[c] = "connect" /\ sockets'[c] = sockets[c] - 1
      /\ \A d \in Clients \ {c} : cpc'[d] = cpc[d] /\ sockets'[d] = sockets[d]
      /\ \A j \in Conns : cEnd'[j] => cEnd[j]
  BY <1>0, <1>1 DEF Types
<1>3. Types'
  <2>1. sockets' \in [Clients -> Int]
    BY <1>0, <1>1 DEF Types
  <2> QED
    BY <1>0, <1>1, <2>1 DEF Types
<1>4. Bounds'
  BY <1>0, <1>1, <1>2 DEF Bounds
<1>5. Places' /\ Files'
  BY <1>0, <1>1, PlacesFrame, FilesFrame DEF Busy
<1>6. Opened' = Opened /\ \A d : Mine(d)' = Mine(d)
  BY <1>1 DEF Opened, Mine
<1>7. Requests'
  BY <1>0, <1>1, <1>2, <1>6 DEF Requests
<1>8. Answers'
  <2>1. \A d \in Clients : n[d] > 0 => Mine(d) \in Conns
    BY <1>0, MineIsConn
  <2> QED
    BY <1>0, <1>1, <1>2, <1>6, <2>1 DEF Answers
<1> QED
  BY <1>3, <1>4, <1>5, <1>7, <1>8 DEF ServerIInv

LEMMA SetupListenKeeps ==
  ASSUME ServerIInv, SetupListen
  PROVE  ServerIInv'
<1>0. Types /\ Bounds /\ Places /\ Files /\ Requests /\ Answers
  BY DEF ServerIInv
<1>1. spc' \in {"accept", "dead"}
      /\ UNCHANGED <<prog, backlog, arg, file, queue, running, done, wpc, task, fd, buf, pos,
                     cpc, n, got, sockets, up, down, cEnd, sEnd, lucky>>
  BY DEF SetupListen, pool, worker, client, wire, conns
<1>2. Types' /\ Bounds'
  BY <1>0, <1>1 DEF Types, Bounds
<1>3. Places' /\ Files'
  BY <1>0, <1>1, PlacesFrame, FilesFrame DEF Busy
<1>4. Requests' /\ Answers'
  BY <1>0, <1>1, RequestsFrame, AnswersFrame
<1> QED
  BY <1>2, <1>3, <1>4 DEF ServerIInv

LEMMA ServerInvariance == Spec => []ServerIInv
<1>1. ASSUME ServerIInv, Next
      PROVE  ServerIInv'
  <2>1. CASE SetupListen
    BY <1>1, <2>1, SetupListenKeeps
  <2>2. CASE Accept
    BY <1>1, <2>2, AcceptKeeps
  <2>3. CASE AcceptFails
    BY <1>1, <2>3, DeathKeeps DEF AcceptFails
  <2>4. ASSUME NEW w \in Workers, WorkerStep(w)
        PROVE  ServerIInv'
    <3>1. CASE StartTask(w) \/ ReadSome(w) \/ ReadGivesUp(w)
      BY <1>1, <3>1, StartTaskKeeps, ReadSomeKeeps, ReadGivesUpKeeps
    <3>2. CASE Process(w) \/ ProcessFile(w)
      BY <1>1, <3>2, ProcessKeeps
    <3>3. CASE WriteSome(w) \/ WriteGivesUp(w) \/ EndTask(w)
      BY <1>1, <3>3, WriteSomeKeeps, WriteGivesUpKeeps, EndTaskKeeps
    <3>4. CASE FileMissing(w) \/ WriteKills(w) \/ FreesLocal(w)
      BY <1>1, <3>4, DeathKeeps DEF FileMissing, WriteKills, FreesLocal
    <3> QED
      BY <2>4, <3>1, <3>2, <3>3, <3>4 DEF WorkerStep, WorkerGoesOn, ReadEnds
  <2>5. ASSUME NEW c \in Clients, ClientStep(c)
        PROVE  ServerIInv'
    BY <1>1, <2>5, ConnectFailsKeeps, ConnectKeeps, SendRequestKeeps, ReadAnswerKeeps,
       CloseSocketKeeps DEF ClientStep
  <2> QED
    BY <1>1, <2>1, <2>2, <2>3, <2>4, <2>5 DEF Next
<1>2. ASSUME ServerIInv, UNCHANGED vars
      PROVE  ServerIInv'
  <2>1. UNCHANGED <<prog, spc, backlog, arg, file, queue, running, done, wpc, task, fd, buf, pos,
                    cpc, n, got, sockets, up, down, cEnd, sEnd, lucky>>
    BY <1>2 DEF vars, mainThread, pool, worker, client, wire, conns
  <2>2. Opened' = Opened /\ \A c : Mine(c)' = Mine(c)
    BY <2>1 DEF Opened, Mine
  <2>3. Types' /\ Bounds' /\ Places'
    BY <1>2, <2>1, <2>2 DEF ServerIInv, Types, Bounds, Places, Busy, Has
  <2>4. Files' /\ Requests' /\ Answers'
    BY <1>2, <2>1, FilesFrame, RequestsFrame, AnswersFrame DEF ServerIInv, Busy
  <2> QED
    BY <2>3, <2>4 DEF ServerIInv
<1> QED
  BY <1>1, <1>2, ServerInitIInv, PTL DEF Spec

----------------------------------------------------------------------------
(***************************************************************************)
(* The theorems.                                                           *)
(***************************************************************************)

\* Each variable keeps its type: no buffer of request_client overflows, and no
\* client that goes on has two sockets open (server.c, client.c).
THEOREM ServerTypeCorrect == Spec => []ServerTypeOK
<1>1. ServerIInv => ServerTypeOK
  <2> SUFFICES ASSUME ServerIInv
               PROVE  ServerTypeOK
    OBVIOUS
  <2>1. \A w \in Workers : Len(buf[w]) <= Bytes + 1 /\ pos[w] \in 0 .. Len(buf[w])
    BY DEF ServerIInv, Types, Bounds
  <2>2. \A c \in Clients :
          /\ Len(got[c]) <= Bytes
          /\ sockets[c] = (IF cpc[c] \in {"write", "read", "close"} THEN 1 ELSE 0) \/ cpc[c] = "exited"
    BY DEF ServerIInv, Bounds
  <2> QED
    BY <2>1, <2>2 DEF ServerTypeOK, ServerIInv, Types
<1> QED
  BY <1>1, ServerInvariance, PTL

\* The descriptor of a worker stands for its connection from the dispatch to its
\* close, whatever other connections are accepted and closed meanwhile.
THEOREM ConnectionKept == Spec => []WorkerHasConnection
<1>1. ServerIInv => WorkerHasConnection
  BY BusyHas DEF WorkerHasConnection, Busy
<1> QED
  BY <1>1, ServerInvariance, PTL

\* Every path through request_client closes the server's end.
THEOREM DoneClosed == Spec => []DoneIsClosed
<1>1. ServerIInv => DoneIsClosed
  BY DEF DoneIsClosed, ServerIInv, Files
<1> QED
  BY <1>1, ServerInvariance, PTL

\* However reads and writes are cut up (correct_read, correct_write), a client
\* reads its own answer, byte by byte, or the start of it.
THEOREM OwnAnswer == Spec => []AnswerIsOwn
<1>1. ASSUME ServerIInv
      PROVE  AnswerIsOwn
  <2> SUFFICES ASSUME NEW c \in Clients, lucky, prog = "server", n[c] > 0
               PROVE  IsPrefix(got[c], Answer(Mine(c)))
    BY DEF AnswerIsOwn, Answer
  <2> DEFINE s == got[c]
             r == Answer(Mine(c))
  <2>1. s \in Seq(Byte) /\ r \in Seq(Byte) /\ Piece(s, 0, r)
    BY <1>1, MineIsConn, RequestIsBytes, MungedIsBytes DEF ServerIInv, Types, Answers, Answer
  <2> HIDE DEF s, r
  <2>2. Len(s) <= Len(r) /\ Len(s) \in 0..Len(s) /\ Len(s) \in 0..Len(r)
    BY <2>1 DEF Piece
  <2>3. \A j \in 1..Len(s) : s[j] = r[j]
    <3> TAKE j \in 1..Len(s)
    <3>1. 0 + j = j
      OBVIOUS
    <3> QED
      BY <2>1, <3>1 DEF Piece
  <2>4. Take(s, Len(s)) = Take(r, Len(s))
    <3>1. /\ Take(s, Len(s)) \in Seq(Byte) /\ Len(Take(s, Len(s))) = Len(s)
          /\ \A i \in 1..Len(s) : Take(s, Len(s))[i] = s[i]
      BY <2>1, <2>2, TakeDrop
    <3>2. /\ Take(r, Len(s)) \in Seq(Byte) /\ Len(Take(r, Len(s))) = Len(s)
          /\ \A i \in 1..Len(s) : Take(r, Len(s))[i] = r[i]
      BY <2>1, <2>2, TakeDrop
    <3> QED
      BY <2>3, <3>1, <3>2
  <2> QED
    BY <2>2, <2>4 DEF IsPrefix, Take, s, r
<1> QED
  BY <1>1, ServerInvariance, PTL

=============================================================================
