---------------------------- MODULE MCSmessages ----------------------------
(***************************************************************************)
(* An instance of Smessages for TLC: the strings the peers send.           *)
(***************************************************************************)
EXTENDS Smessages, TLC

\* The empty one too, which is its null byte only.
ShortMessages == {<<>>, <<"a", "b">>}

Symmetry == Permutations(Sockets)

=============================================================================
