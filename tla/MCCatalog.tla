------------------------------ MODULE MCCatalog ------------------------------
(* Catalog for TLC: the clients are interchangeable, and so are the claims. *)
EXTENDS Catalog, TLC

Symmetry == Permutations(Clients) \cup Permutations(Claims)
=============================================================================
