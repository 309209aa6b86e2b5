------------------------------ MODULE BackupLog ------------------------------
(***************************************************************************)
(* What backups promise the owner of a volume, without snapshots, mounts,   *)
(* commands and failures: the volume changes; a run begins; and a backup    *)
(* that succeeds is the volume as it was at one moment between the          *)
(* beginning of the run and now.  So no backup goes back behind the one     *)
(* before.  Backup implements this module (Backup!LogSpec).                 *)
(***************************************************************************)
EXTENDS Integers

VARIABLES live,     \* the version of the volume
          started,  \* the version when the last run began
          saved     \* the version in the last backup

logVars == <<live, started, saved>>

LogInit == live = 0 /\ started = 0 /\ saved = 0

Change == live' = live + 1 /\ UNCHANGED <<started, saved>>

Begin == started' = live /\ UNCHANGED <<live, saved>>

Save == saved' \in started .. live /\ saved' >= saved /\ UNCHANGED <<live, started>>

LogNext == Change \/ Begin \/ Save

LogSpec == LogInit /\ [][LogNext]_logVars
==============================================================================
