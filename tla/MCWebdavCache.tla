--------------------------- MODULE MCWebdavCache ---------------------------
(* WebdavCache with readers that are interchangeable, which is sound for invariants. *)
EXTENDS WebdavCache, TLC

Symmetry == Permutations(Readers)
===============================================================================
