----------------------------- MODULE SocketLib -----------------------------
(***************************************************************************)
(* The calls of server/SocketLibrary that open sockets, by their outcomes. *)
(* Each goes through library and system calls of which any that can fail   *)
(* may be the last: it returns -1 then, without closing the socket it may  *)
(* have opened.  (serrno and sename say which call it was; no program here *)
(* reads them, so they are left out.)  A name is "none" for a null         *)
(* pointer, "digits" (127.0.0.1, 4342) or a "word" to look up.             *)
(***************************************************************************)
EXTENDS Naturals, Sequences

\* Whether each step can fail.  The steps of make_inetaddr look words up.
make_inetaddr(hostname, servicename) == <<hostname = "word", servicename = "word">>
protonumber == <<TRUE>>
systemCall == <<TRUE>>

\* The outcomes of steps of which the one at place open opens the socket.
Outcomes(steps, open) ==
  {[ok |-> TRUE, opened |-> TRUE]}
  \cup {[ok |-> FALSE, opened |-> j > open] : j \in {i \in DOMAIN steps : steps[i]}}

\* socket; then the local address, bind and connect
sconnect(hostname, servicename) ==
  Outcomes(make_inetaddr(hostname, servicename) \o protonumber \o systemCall
             \o make_inetaddr("none", "none") \o systemCall \o systemCall, 4)

\* socket; then the address, bind and listen
slisten(servicename) ==
  Outcomes(protonumber \o systemCall \o make_inetaddr("none", servicename)
             \o systemCall \o systemCall, 2)

saccept == Outcomes(systemCall, 1)

=============================================================================
