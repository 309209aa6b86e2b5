---------------------------- MODULE MCVolumeServe ----------------------------
(***************************************************************************)
(* VolumeServe on small instances.  Handlers and ids are interchangeable,   *)
(* and so are machines when all of them have a lock id file.                *)
(***************************************************************************)
EXTENDS VolumeServe, TLC

MCSymmetry == Permutations(Handler) \cup Permutations(LockId)
===============================================================================
