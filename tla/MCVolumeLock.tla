----------------------------- MODULE MCVolumeLock -----------------------------
(***************************************************************************)
(* VolumeLock on a small instance.  Handlers and ids are interchangeable.   *)
(***************************************************************************)
EXTENDS VolumeLock, TLC

MCSymmetry == Permutations(Handler) \cup Permutations(LockId)
===============================================================================
