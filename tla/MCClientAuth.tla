---------------------------- MODULE MCClientAuth ----------------------------
(* ClientAuth for TLC: the goroutines are interchangeable, and so are the processes. *)
EXTENDS ClientAuth, TLC

Symmetry == Permutations(Processes) \cup Permutations(Goroutines)
=============================================================================
