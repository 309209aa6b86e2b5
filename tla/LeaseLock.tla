------------------------------ MODULE LeaseLock ------------------------------
(***************************************************************************)
(* What the volume lock promises, without requests, transactions or         *)
(* clients: a lease that has at most one holder.  The holder's stamp only   *)
(* moves forward, nobody replaces a holder before its stamp is more than    *)
(* LockTimeout old, and an id that was replaced never holds the lease again.*)
(* VolumeLock implements this module (VolumeLock!LeaseSpec).                *)
(***************************************************************************)
EXTENDS Integers

CONSTANTS LockId,       \* the ids a lease can be held under
          NoLock,       \* "lock_id is NULL"
          LockTimeout   \* seconds without a refresh before a lease may be taken over

VARIABLES now,      \* the clock, in seconds
          holder,   \* the id that holds the lease, or NoLock
          since,    \* the last stamp the holder put on the lease
          past      \* the ids that were replaced

leaseVars == <<now, holder, since, past>>

LeaseInit == now = 0 /\ holder = NoLock /\ since = 0 /\ past = {}

\* The first lock of a volume.
Acquire == /\ holder = NoLock
           /\ holder' \in LockId
           /\ since' \in 0 .. now
           /\ UNCHANGED <<now, past>>

\* The stamp may be a little old when it is written, but never older than the one before.
Refresh == /\ holder # NoLock
           /\ since' \in since .. now
           /\ UNCHANGED <<now, holder, past>>

TakeOver == /\ holder # NoLock
            /\ since' \in (since + LockTimeout + 1) .. now
            /\ past' = past \cup {holder}
            /\ holder' \in LockId \ past'
            /\ UNCHANGED now

Pass == now' = now + 1 /\ UNCHANGED <<holder, since, past>>

LeaseNext == Acquire \/ Refresh \/ TakeOver \/ Pass

LeaseSpec == LeaseInit /\ [][LeaseNext]_leaseVars
==============================================================================
