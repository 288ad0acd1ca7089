---------------------------- MODULE MCMypthread ----------------------------
(***************************************************************************)
(* Instances of Mypthread for TLC: which calls the client makes.           *)
(***************************************************************************)
EXTENDS Mypthread

Workers == Threads \ {Main}

ClientCalls(main, workers) ==
  [t \in Threads |-> IF t = Main THEN main ELSE workers]

\* Only main creates and joins, as in the samples; workers run to their exit.
ForkJoin == ClientCalls({"init", "create", "join", "exit"}, {"exit"})

\* Nobody joins: every thread creates, yields and exits.
YieldOnly == ClientCalls({"init", "create", "yield", "self", "exit"},
                         {"create", "yield", "self", "exit"})

\* Main joins workers that yield.
JoinAndYield == ClientCalls({"create", "join", "exit"}, {"yield", "exit"})

\* Every thread creates, so that creates of two kernel threads race for the
\* last place; main also yields and joins.
RacingCreates == ClientCalls({"init", "create", "join", "yield", "exit"}, {"create", "exit"})

AnyDep == Workers \cup {NoThread}

\* Sound for the runs that check no liveness.
Symmetry == Permutations(Workers) \cup Permutations(KThreads \ {K0})

=============================================================================
