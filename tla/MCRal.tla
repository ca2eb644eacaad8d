------------------------------- MODULE MCRal -------------------------------
(***************************************************************************)
(* Instantiates Ral for TLC.  The cfg files give two endpoints, two        *)
(* request goroutines and six instance objects: two naming instances, two  *)
(* subs, and the two a worker may still hold after they were removed.     *)
(***************************************************************************)
EXTENDS Ral, TLC

\* Workers are interchangeable goroutines: nothing in the model tells two
\* of them apart, so states that differ by a permutation are one state.
MCSymmetry == Permutations(Workers)
=============================================================================
