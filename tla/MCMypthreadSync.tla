-------------------------- MODULE MCMypthreadSync --------------------------
(***************************************************************************)
(* Instances of MypthreadSync for TLC: which calls the client makes.       *)
(***************************************************************************)
EXTENDS MypthreadSync

ClientCalls(main, workers) ==
  [t \in Threads |-> IF t = Main THEN main ELSE workers]

\* Locks held across yields: threads block.
Contention ==
  ClientCalls({"create", "lock", "unlock", "yield"}, {"lock", "unlock", "yield", "exit"})

\* A monitor: whoever holds the mutex waits or notifies before it unlocks.
Monitor ==
  ClientCalls({"init", "create", "lock", "unlock", "wait", "signal", "exit", "destroy"},
              {"lock", "unlock", "wait", "signal", "broadcast", "exit"})

\* Every call: a workers' trylock may fail and keep mutex_sem.
Mixed ==
  ClientCalls({"init", "create", "lock", "unlock", "wait", "signal", "yield", "join", "exit"},
              {"lock", "trylock", "unlock", "wait", "broadcast", "yield", "exit"})

Symmetry == Permutations(Threads \ {Main}) \cup Permutations(KThreads \ {K0})

=============================================================================
