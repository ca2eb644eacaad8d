------------------------------- MODULE MCRmq -------------------------------
(***************************************************************************)
(* Rmq for application goroutines, client objects and producer/consumer  *)
(* handles given as sets of model values in the .cfg files.               *)
(***************************************************************************)
EXTENDS Rmq, TLC

\* Services, goroutines, client objects and handles are each
\* interchangeable
MCSymmetry == Permutations(Services) \cup Permutations(Callers)
                \cup Permutations(Clients) \cup Permutations(Handles)
=============================================================================
