---------------------------- MODULE MCWebdavTree ----------------------------
(* WebdavTree with requests, and files of the directory, that are interchangeable, which is sound
   for invariants. *)
EXTENDS WebdavTree, TLC

Symmetry == Permutations(Requests) \cup Permutations(InDir)
===============================================================================
