------------------------------ MODULE Smessages ------------------------------
(***************************************************************************)
(* The message layer of server/SocketLibrary/smessages.c: what is read     *)
(* from stream sockets is cut at its null bytes, and the messages, the     *)
(* incomplete ones too, are kept in one list for all sockets.              *)
(*                                                                         *)
(* A socket is here the program's end of a connection; its number is used  *)
(* again after a close.  The peer sends with send_a_message.  The program  *)
(* has one thread; bytes go on arriving while it reads.                    *)
(*                                                                         *)
(* A character is a member of a set; a message is shorter than MAXBUFF.    *)
(* Left out: the errors that end the program (malloc, read, write), and a  *)
(* write that returns 0, which it does not for a stream.                   *)
(***************************************************************************)
EXTENDS Naturals, Sequences, SequencesExt, FiniteSetsExt

CONSTANTS
  Sockets, NoSocket,
  Chars, NUL,    \* the bytes of messages, and '\0'
  Messages,      \* the strings the peers send
  MaxRead,       \* MAXBUFF - 1, what one read can return
  MaxSends,      \* bound: messages sent in one behavior
  MaxReconnects  \* bound: sockets opened again

ASSUME SmAssumption ==
  /\ NoSocket \notin Sockets
  /\ NUL \notin Chars
  /\ Messages \subseteq Seq(Chars)
  /\ MaxRead \in Nat \ {0} /\ MaxSends \in Nat /\ MaxReconnects \in Nat

VARIABLES
  the_list,  \* the elements [s, message, complete]
  wire,      \* the bytes sent to each socket and not yet read
  conn,      \* "open"; "closed" by the peer; "gone": the program knows it
  reading,   \* the socket incoming_messages reads, or NoSocket
  call,      \* the call that made it read
  undefined, \* a dangling or uninitialised pointer was used: all stops
  sends, reconnects,  \* how much of the bounds is used
  stream, given, left \* ghosts: all that was sent on this connection, the
                      \* elements the program took off the list, and those of
                      \* the number's former connections still in it

bounds == <<sends, reconnects>>
peerVars == <<wire, conn>>
ghosts == <<stream, given, left>>
vars == <<the_list, peerVars, reading, call, undefined, bounds, ghosts>>

Init ==
  /\ the_list = <<>>
  /\ wire = [s \in Sockets |-> <<>>]
  /\ conn = [s \in Sockets |-> "open"]
  /\ reading = NoSocket /\ call = "none" /\ undefined = FALSE
  /\ sends = 0 /\ reconnects = 0
  /\ stream = [s \in Sockets |-> <<>>]
  /\ given = [s \in Sockets |-> <<>>]
  /\ left = [s \in Sockets |-> <<>>]

----------------------------------------------------------------------------
\* The peer

\* send_a_message: the string and its null byte, or what one write takes of
\* them; the rest is never sent.
PeerSend(s, c) ==
  /\ conn[s] = "open" /\ sends < MaxSends
  /\ \E n \in 1..(Len(c) + 1) :
       LET bytes == SubSeq(Append(c, NUL), 1, n)
       IN  /\ wire' = [wire EXCEPT ![s] = @ \o bytes]
           /\ stream' = [stream EXCEPT ![s] = @ \o bytes]
  /\ sends' = sends + 1
  /\ UNCHANGED <<the_list, conn, reading, call, undefined, reconnects, given, left>>

PeerClose(s) ==
  /\ conn[s] = "open"
  /\ conn' = [conn EXCEPT ![s] = "closed"]
  /\ UNCHANGED <<the_list, wire, reading, call, undefined, bounds, ghosts>>

----------------------------------------------------------------------------
\* The list

\* What a list holds at some of its positions, in order.
At(q, positions) ==
  LET at[n \in 0..Len(q)] ==
        IF n = 0 THEN <<>>
        ELSE IF n \in positions THEN Append(at[n - 1], q[n])
        ELSE at[n - 1]
  IN  at[Len(q)]

Of(s, list) == At(list, {i \in DOMAIN list : list[i].s = s})
Texts(list) == FlattenSeq([i \in DOMAIN list |-> list[i].message])

Incomplete(s, list) == {i \in DOMAIN list : list[i].s = s /\ ~list[i].complete}
Complete(s, list) == {i \in DOMAIN list : list[i].s = s /\ list[i].complete}

Element(s, text, whole) == [s |-> s, message |-> text, complete |-> whole]

\* (Bugs) strcpy instead of strcat; the incomplete element is not looked for.
HandleOverwrites(list, s, text, whole) ==
  IF Incomplete(s, list) = {}
  THEN Append(list, Element(s, text, whole))
  ELSE [list EXCEPT ![Min(Incomplete(s, list))] = Element(s, text, whole)]
HandleAlwaysAdds(list, s, text, whole) == Append(list, Element(s, text, whole))

\* handle, with add_incomplete: a piece of text goes to the end of s's
\* incomplete message, or of the list.
Handle(list, s, text, whole) ==
  IF Incomplete(s, list) = {}
  THEN Append(list, Element(s, text, whole))
  ELSE LET i == Min(Incomplete(s, list))
       IN  [list EXCEPT ![i] = Element(s, @.message \o text, whole)]

\* (Bug) >= for >: the null byte put behind what was read counts as read.
EndedEarly(bytes, n) == n <= Len(bytes) + 1

\* message + strlen(message) <= end_of_transmission: its null byte was read too.
Ended(bytes, n) == n <= Len(bytes)

\* (Bug) tmpprev = tmp: the next piece begins with the null byte.
NextPieceSame(n) == n

NextPiece(n) == n + 1

\* tmp walks over the bytes and the null byte put behind them; tmpprev is where
\* the piece it is in begins.  A piece goes to handle, unless it is empty.
Split(list, s, bytes) ==
  LET walk[n \in 0..(Len(bytes) + 1)] ==
        IF n = 0 THEN [the_list |-> list, tmpprev |-> 1]
        ELSE IF n <= Len(bytes) /\ bytes[n] # NUL THEN walk[n - 1]
        ELSE [the_list |->
                IF walk[n - 1].tmpprev = n
                THEN walk[n - 1].the_list
                ELSE Handle(walk[n - 1].the_list, s,
                            SubSeq(bytes, walk[n - 1].tmpprev, n - 1), Ended(bytes, n)),
              tmpprev |-> NextPiece(n)]
  IN  walk[Len(bytes) + 1].the_list

\* clean_list drops s's elements from the head on; further on, the element
\* behind one it dropped is stepped over unseen.
CleanList(list, s) ==
  LET others == {i \in DOMAIN list : list[i].s # s}
      first  == IF others = {} THEN Len(list) + 1 ELSE Min(others)
      dropped[i \in 0..Len(list)] ==
        IF i = 0 THEN {}
        ELSE IF list[i].s = s /\ (i < first \/ (i > first /\ i - 1 \notin dropped[i - 1]))
        THEN dropped[i - 1] \cup {i}
        ELSE dropped[i - 1]
  IN  At(list, DOMAIN list \ dropped[Len(list)])

----------------------------------------------------------------------------
\* incoming_messages(s), called by the program, by get_next_message and by
\* empty_incoming_messages

Call(s, op) ==
  /\ ~undefined /\ reading = NoSocket /\ conn[s] # "gone"
  /\ reading' = s /\ call' = op
  /\ UNCHANGED <<the_list, peerVars, undefined, bounds, ghosts>>

Return == reading' = NoSocket /\ call' = "none"

\* A read returns as many bytes as have arrived.
ReadBytes(s) ==
  /\ reading = s
  /\ \E n \in 1..MaxRead :
       /\ n <= Len(wire[s])
       /\ the_list' = Split(the_list, s, SubSeq(wire[s], 1, n))
       /\ wire' = [wire EXCEPT ![s] = SubSeq(@, n + 1, Len(@))]
  /\ UNCHANGED <<conn, reading, call, undefined, bounds, ghosts>>

\* A read returns 0.
ReadEOF(s) ==
  /\ reading = s
  /\ conn[s] = "closed" /\ wire[s] = <<>>
  /\ the_list' = CleanList(the_list, s)
  /\ conn' = [conn EXCEPT ![s] = "gone"]
  /\ Return
  /\ UNCHANGED <<wire, undefined, bounds, ghosts>>

\* Nothing (more) is ready: the count of complete messages is returned.
Counted(s) ==
  /\ reading = s /\ call = "count"
  /\ Return
  /\ UNCHANGED <<the_list, peerVars, undefined, bounds, ghosts>>

\* get_next_message: the first complete message of s, if there is one.
GetNext(s) ==
  /\ reading = s /\ call = "get"
  /\ IF Complete(s, the_list) = {}
     THEN UNCHANGED <<the_list, given>>
     ELSE LET i == Min(Complete(s, the_list))
          IN  /\ the_list' = RemoveAt(the_list, i)
              /\ given' = [given EXCEPT ![s] = Append(@, the_list[i])]
  /\ Return
  /\ UNCHANGED <<peerVars, undefined, bounds, stream, left>>

\* empty_incoming_messages: s's elements at the head are dropped, incomplete
\* ones too; if others are left, a pointer nobody set, or to an element just
\* freed, is followed.
EmptyIncoming(s) ==
  /\ reading = s /\ call = "empty"
  /\ IF Complete(s, the_list) = {}
     THEN UNCHANGED <<the_list, undefined, given>>
     ELSE LET others == {i \in DOMAIN the_list : the_list[i].s # s}
              heads  == IF others = {} THEN Len(the_list) ELSE Min(others) - 1
          IN  /\ the_list' = SubSeq(the_list, heads + 1, Len(the_list))
              /\ given' = [given EXCEPT ![s] = @ \o SubSeq(the_list, 1, heads)]
              /\ undefined' = (others # {})
  /\ Return
  /\ UNCHANGED <<peerVars, bounds, stream, left>>

\* The program closes the socket, and a new connection gets its number.
Reconnect(s) ==
  /\ ~undefined /\ reading = NoSocket
  /\ conn[s] = "gone" /\ reconnects < MaxReconnects
  /\ conn' = [conn EXCEPT ![s] = "open"]
  /\ reconnects' = reconnects + 1
  /\ stream' = [stream EXCEPT ![s] = <<>>]
  /\ given' = [given EXCEPT ![s] = <<>>]
  /\ left' = [left EXCEPT ![s] = Of(s, the_list)]
  /\ UNCHANGED <<the_list, wire, reading, call, undefined, sends>>

----------------------------------------------------------------------------
Next ==
  \E s \in Sockets :
    \/ \E c \in Messages : PeerSend(s, c)
    \/ PeerClose(s)
    \/ \E op \in {"count", "get", "empty"} : Call(s, op)
    \/ ReadBytes(s) \/ ReadEOF(s)
    \/ Counted(s) \/ GetNext(s) \/ EmptyIncoming(s)
    \/ Reconnect(s)

Spec == Init /\ [][Next]_vars

----------------------------------------------------------------------------
(***************************************************************************)
(* Properties                                                              *)
(***************************************************************************)

\* Every variable has its type; no null byte is stored, nor an empty message.
SmTypeOK ==
  /\ \A i \in DOMAIN the_list :
       /\ the_list[i].s \in Sockets /\ the_list[i].complete \in BOOLEAN
       /\ the_list[i].message \in Seq(Chars) \ {<<>>}
  /\ wire \in [Sockets -> Seq(Chars \cup {NUL})]
  /\ conn \in [Sockets -> {"open", "closed", "gone"}]
  /\ reading \in Sockets \cup {NoSocket}
  /\ call \in {"none", "count", "get", "empty"} /\ (call = "none") = (reading = NoSocket)
  /\ undefined \in BOOLEAN

Text(bytes) == At(bytes, {i \in DOMAIN bytes : bytes[i] # NUL})

\* What was read of the connection, and what became of it (left included).
ReadSoFar(s) == SubSeq(stream[s], 1, Len(stream[s]) - Len(wire[s]))
Out(s) == given[s] \o Of(s, the_list)

\* Whatever the pieces in which it arrives, however the sockets interleave in
\* the one list: each byte read is in one message, of its socket, in order,
\* behind what clean_list forgot to drop.
NothingLost ==
  \A s \in Sockets : conn[s] # "gone" =>
    Texts(Out(s)) = Texts(left[s]) \o Text(ReadSoFar(s))

\* handle joins a piece to the first incomplete element it meets, and the
\* count stops there: there is one at most, behind s's complete ones.
IncompleteIsLast ==
  \A i, j \in DOMAIN the_list :
    the_list[i].s = the_list[j].s /\ ~the_list[i].complete => j <= i

\* A complete message, given or in the list, ends where the peer ended one:
\* none is given out half.
CompleteIsEnded ==
  \A s \in Sockets : \A i \in DOMAIN Out(s) :
    LET before == Len(Texts(left[s]))
        len    == Len(Texts(SubSeq(Out(s), 1, i)))
    IN  conn[s] # "gone" /\ Out(s)[i].complete /\ len > before =>
          \E p \in DOMAIN ReadSoFar(s) :
            /\ stream[s][p] = NUL
            /\ len - before = Len(Text(SubSeq(stream[s], 1, p)))

=============================================================================
