--------------------------- MODULE LocalVolumeProofs ---------------------------
(***************************************************************************)
(* Proofs about LocalVolume, for any number of failures and crashes.        *)
(*                                                                          *)
(* A mounted file system keeps its volumes active, and active volumes keep  *)
(* the loop device: losetup -d only marks it.  What Create does it does     *)
(* while nothing is mounted: it begins with nothing attached, and its       *)
(* deferred vgchange is called before Mount is reached (VolumeInv).  Where  *)
(* it begins with an image all the same, os.Stat has failed (VolumeInv).    *)
(*                                                                          *)
(* The last part is about what a process may stop for: Create always finds  *)
(* the image at the stage its next command needs (CreateIsNotStuck), and    *)
(* left-overs of earlier processes do not end a later one                   *)
(* (LeftOversStopNoServing).                                                *)
(***************************************************************************)
EXTENDS LocalVolume, SequenceTheorems, TLAPS

E0 == <<>>
E1 == <<"Detach">>
E2 == <<"Detach", "Deactivate">>

VolumeInv ==
  /\ written => image = "fs"
  /\ mounted => active /\ image = "fs"
  /\ active => loop # "none"
  /\ pc = "file" => loop = "none"
  /\ pc = "stat" /\ image # "absent" => blind = 1
  /\ pc = "file" /\ image # "absent" => blind = 2
  /\ pc \in {"pvcreate", "vgcreate", "tpcreate", "lvcreate", "mkfs"} => loop # "none"
  /\ pc = "mkfs" => image # "fs"
  /\ pc \in {"down", "stat", "file", "attach", "getloop", "mount", "serving"} => defers = E0
  /\ defers = E2 => ~mounted
  /\ pc = "serving" => mounted
  /\ loop = "attached" /\ ~leaky => defers # E0

\* TypeOK, with the stages and the deferred calls spelled out.
TypeInv ==
  /\ image \in {"absent", "blank", "pv", "vg", "pool", "lv", "fs"} /\ written \in BOOLEAN
  /\ loop \in {"none", "attached", "autoclear"}
  /\ active \in BOOLEAN /\ mounted \in BOOLEAN /\ leaky \in BOOLEAN
  /\ pc \in {"down", "unwind", "mount", "serving", "stat", "file", "attach", "pvcreate", "vgcreate",
             "tpcreate", "lvcreate", "mkfs", "getloop", "find"}
  /\ defers \in {E0, E1, E2}
  /\ after \in {"getloop", "mount", "down"}
  /\ blind \in 0 .. 2
  /\ faults \in 0 .. MaxFaults /\ crashes \in 0 .. MaxCrashes

LocalInv == TypeInv /\ VolumeInv

-------------------------------------------------------------------------------
\* The deferred calls as sequences.
LEMMA Tuples ==
  /\ E0 # E1 /\ E0 # E2 /\ E1 # E2
  /\ E1[Len(E1)] = "Detach" /\ SubSeq(E1, 1, Len(E1) - 1) = E0
  /\ E2[Len(E2)] = "Deactivate" /\ SubSeq(E2, 1, Len(E2) - 1) = E1
  /\ "Detach" \in {E1[i] : i \in DOMAIN E1} /\ "Detach" \in {E2[i] : i \in DOMAIN E2}
<1>1. Len(E0) = 0 /\ Len(E1) = 1 /\ Len(E2) = 2
  BY DEF E0, E1, E2
<1>2. E0 # E1 /\ E0 # E2 /\ E1 # E2
  BY <1>1
<1>3. E1[1] = "Detach" /\ E2[1] = "Detach" /\ E2[2] = "Deactivate"
  BY DEF E1, E2
<1>4. SubSeq(E1, 1, Len(E1) - 1) = E0
  BY DEF E0, E1
<1>5. SubSeq(E2, 1, Len(E2) - 1) = E1
  <2> DEFINE Calls == {"Detach", "Deactivate"}
  <2>1. E1 \in Seq(Calls)
    BY DEF E1
  <2>2. /\ SubSeq(E2, 1, 1) \in Seq(Calls) /\ Len(SubSeq(E2, 1, 1)) = 1
        /\ SubSeq(E2, 1, 1)[1] = E2[1]
    <3>1. \A i \in 1 .. 1 : E2[i] \in Calls
      BY <1>3
    <3>2. SubSeq(E2, 1, 1) \in Seq(Calls)
      BY <3>1, SubSeqProperties
    <3>3. Len(SubSeq(E2, 1, 1)) = (IF 1 <= 1 THEN 1 - 1 + 1 ELSE 0)
      BY <3>1, SubSeqProperties
    <3>4. \A i \in 1 .. 1 - 1 + 1 : SubSeq(E2, 1, 1)[i] = E2[1 + i - 1]
      BY <3>1, SubSeqProperties
    <3> QED
      BY <3>2, <3>3, <3>4
  <2>3. SubSeq(E2, 1, 1) = E1
    BY <1>1, <1>3, <2>1, <2>2, SeqEqual
  <2> QED
    BY <1>1, <2>3
<1>6. 1 \in DOMAIN E1 /\ 1 \in DOMAIN E2
  BY DEF E1, E2
<1> QED
  BY <1>1, <1>2, <1>3, <1>4, <1>5, <1>6

\* So they differ.
LEMMA Differ == E0 # E1 /\ E0 # E2 /\ E1 # E2
BY Tuples

\* The two say the same.
LEMMA TypesSpelledOut == TypeInv => TypeOK
<1>1. {Stage[i] : i \in DOMAIN Stage} = {"absent", "blank", "pv", "vg", "pool", "lv", "fs"}
  BY DEF Stage
<1>2. {E0, E1, E2} = {<<>>, <<"Detach">>, <<"Detach", "Deactivate">>}
  BY DEF E0, E1, E2
<1>3. {"down", "unwind", "mount", "serving", "stat", "file", "attach", "pvcreate", "vgcreate",
       "tpcreate", "lvcreate", "mkfs", "getloop", "find"}
        \subseteq {"down", "unwind", "mount", "serving"} \cup CreateStep \cup OpenStep
  BY DEF CreateStep, OpenStep
<1> QED
  BY <1>1, <1>2, <1>3 DEF TypeInv, TypeOK

\* The initial state satisfies the invariant.
LEMMA LocalInitInv == Init => LocalInv
<1> SUFFICES ASSUME Init PROVE LocalInv
  OBVIOUS
<1>1. defers = E0
  BY DEF Init, E0
<1>2. TypeInv
  <2>1. faults \in 0 .. MaxFaults /\ crashes \in 0 .. MaxCrashes /\ blind \in 0 .. 2
    BY BoundsAssumption DEF Init
  <2> QED
    BY <1>1, <2>1 DEF Init, TypeInv
<1>3. VolumeInv
  BY <1>1, Differ DEF Init, VolumeInv
<1> QED
  BY <1>2, <1>3 DEF LocalInv

-------------------------------------------------------------------------------
\* The commands of the process, and what happens around it.
LEMMA CommandStep ==
  ASSUME LocalInv,
         \/ StartServe \/ CheckNoImage \/ CreateFile \/ AttachNew \/ PVCreate \/ VGCreate
         \/ TPCreate100 \/ TLVCreate \/ Mkfs \/ GetOrAttach \/ FindVolumes \/ Mount \/ CommandFails
         \/ AutoActivate \/ UserWrites \/ RemoveHalfImage
  PROVE  LocalInv'
<1> USE Differ DEF LocalInv, TypeInv, VolumeInv
<1>1. CASE StartServe
  <2>1. pc = "down" /\ after' = after /\ UNCHANGED <<image, written, loop, active, mounted, defers, leaky, crashes>>
    BY <1>1 DEF StartServe, StatFails, Goto, disk, kernel
  <2>2. CASE image # "absent" /\ pc' = "getloop" /\ blind' = 0 /\ UNCHANGED faults
    BY <2>1, <2>2
  <2>3. CASE StatFails(1) /\ pc' = "stat"
    <3>1. faults' \in 0 .. MaxFaults /\ blind' \in 0 .. 2 /\ (image # "absent" => blind' = 1)
      BY <2>3, BoundsAssumption DEF StatFails, ImageExists, Failing
    <3> QED
      BY <2>1, <2>3, <3>1
  <2> QED
    BY <1>1, <2>2, <2>3 DEF StartServe, ImageExists, Goto
<1>2. CASE CheckNoImage
  <2>1. pc = "stat" /\ UNCHANGED <<image, written, loop, active, mounted, defers, leaky, crashes>>
    BY <1>2 DEF CheckNoImage, disk, kernel
  <2>2. CASE ReturnTo("down") /\ UNCHANGED <<blind, faults>>
    BY <2>1, <2>2 DEF ReturnTo
  <2>3. CASE StatFails(2) /\ IF loop # "none" THEN ReturnTo("down") ELSE Goto("file")
    <3>1. faults' \in 0 .. MaxFaults /\ blind' \in 0 .. 2 /\ (image # "absent" => blind' = 2)
      BY <2>3, BoundsAssumption DEF StatFails, ImageExists, Failing
    <3> QED
      BY <2>1, <2>3, <3>1 DEF ReturnTo, Goto
  <2> QED
    BY <1>2, <2>2, <2>3 DEF CheckNoImage
<1>3. CASE CreateFile
  BY <1>3 DEF CreateFile, Goto, disk, kernel, history, bounds
<1>4. CASE AttachNew
  BY <1>4 DEF AttachNew, E1, Goto, disk, kernel, history, bounds
<1>5. CASE PVCreate
  BY <1>5 DEF PVCreate, Format, Goto, disk, kernel, history, bounds
<1>6. CASE VGCreate
  BY <1>6 DEF VGCreate, Format, E2, Goto, disk, kernel, history, bounds
<1>7. CASE TPCreate100
  BY <1>7 DEF TPCreate100, Format, Goto, disk, kernel, history, bounds
<1>8. CASE TLVCreate
  BY <1>8 DEF TLVCreate, Format, Goto, disk, kernel, history, bounds
<1>9. CASE Mkfs
  BY <1>9 DEF Mkfs, ReturnTo, Goto, disk, kernel, history, bounds
<1>10. CASE GetOrAttach
  BY <1>10 DEF GetOrAttach, E1, Goto, disk, kernel, history, bounds
<1>11. CASE FindVolumes
  BY <1>11 DEF FindVolumes, ReturnTo, Goto, disk, kernel, history, bounds
<1>12. CASE Mount
  BY <1>12 DEF Mount, ReturnTo, Goto, disk, kernel, history, bounds
<1>13. CASE CommandFails
  <2>1. faults' \in 0 .. MaxFaults
    BY <1>13, BoundsAssumption DEF CommandFails, Failing
  <2>2. /\ pc \in CreateStep \cup OpenStep \cup {"mount"} /\ pc' = "unwind" /\ after' = "down"
        /\ UNCHANGED <<image, written, loop, active, mounted, defers, leaky, blind, crashes>>
    BY <1>13 DEF CommandFails, ReturnTo, disk, kernel, history
  <2>3. TypeInv'
    BY <2>1, <2>2
  <2>4. VolumeInv'
    BY <2>2
  <2> QED
    BY <2>3, <2>4
<1>14. CASE AutoActivate
  BY <1>14 DEF AutoActivate, disk, kernel, history, bounds
<1>15. CASE UserWrites
  BY <1>15 DEF UserWrites, disk, kernel, history, bounds
<1>16. CASE RemoveHalfImage
  BY <1>16 DEF RemoveHalfImage, disk, kernel, history, bounds
<1> QED
  BY <1>1, <1>2, <1>3, <1>4, <1>5, <1>6, <1>7, <1>8, <1>9, <1>10, <1>11, <1>12, <1>13, <1>14, <1>15, <1>16

\* Create's and Open's deferred calls, in the reverse order: what is mounted needs none of them.
LEMMA DeferredStep ==
  ASSUME LocalInv, CallDeferred \/ Returned
  PROVE  LocalInv'
<1> USE Differ DEF LocalInv
<1>1. CASE Returned
  <2>1. /\ defers = E0 /\ pc = "unwind" /\ pc' = after
        /\ UNCHANGED <<image, written, loop, active, mounted, defers, leaky, blind, faults, crashes>>
    BY <1>1 DEF Returned, E0, Goto, disk, kernel, history, bounds
  <2>2. after' = after
    BY <1>1 DEF Returned, Goto
  <2> QED
    BY <2>1, <2>2 DEF TypeInv, VolumeInv
<1>2. CASE CallDeferred
  <2>1. pc = "unwind" /\ defers \in {E1, E2}
    BY <1>2 DEF CallDeferred, TypeInv, E0
  <2>2. UNCHANGED <<image, written, mounted, pc, after, blind, crashes>>
    BY <1>2 DEF CallDeferred, disk
  <2>3. CASE defers = E1
    <3>1. defers' = E0 /\ defers[Len(defers)] = "Detach"
      BY <1>2, <2>3, Tuples DEF CallDeferred
    <3>2. CASE Detach /\ UNCHANGED <<leaky, faults>>
      BY <2>1, <2>2, <2>3, <3>1, <3>2 DEF Detach, TypeInv, VolumeInv
    <3>3. CASE Failing /\ leaky' = TRUE /\ UNCHANGED <<loop, active>>
      <4>1. faults' \in 0 .. MaxFaults
        BY <3>3, BoundsAssumption DEF Failing, TypeInv
      <4> QED
        BY <2>1, <2>2, <2>3, <3>1, <3>3, <4>1 DEF TypeInv, VolumeInv
    <3> QED
      BY <1>2, <3>1, <3>2, <3>3 DEF CallDeferred
  <2>4. CASE defers = E2
    <3>1. defers' = E1 /\ defers[Len(defers)] = "Deactivate"
      BY <1>2, <2>4, Tuples DEF CallDeferred
    <3>2. CASE VGDeactivate /\ UNCHANGED <<leaky, faults>>
      BY <2>1, <2>2, <2>4, <3>1, <3>2 DEF VGDeactivate, TypeInv, VolumeInv
    <3>3. CASE Failing /\ leaky' = leaky /\ UNCHANGED <<loop, active>>
      <4>1. faults' \in 0 .. MaxFaults
        BY <3>3, BoundsAssumption DEF Failing, TypeInv
      <4> QED
        BY <2>1, <2>2, <2>4, <3>1, <3>3, <4>1 DEF TypeInv, VolumeInv
    <3>4. "Deactivate" # "Detach"
      OBVIOUS
    <3> QED
      BY <1>2, <3>1, <3>2, <3>3, <3>4 DEF CallDeferred, TypeInv
  <2> QED
    BY <2>1, <2>3, <2>4
<1> QED
  BY <1>1, <1>2

\* The process dies, or the machine reboots.
LEMMA StopStep ==
  ASSUME LocalInv, Crash \/ Reboot
  PROVE  LocalInv'
<1> USE Differ DEF LocalInv
<1>1. pc' = "down" /\ defers' = E0 /\ after' = "down" /\ blind' = 0 /\ UNCHANGED <<image, written, faults>>
  BY DEF Crash, Reboot, Stop, E0, disk
<1>2. crashes' \in 0 .. MaxCrashes
  BY BoundsAssumption DEF Crash, Reboot, Stop, TypeInv
<1>3. CASE Crash
  <2>1. leaky' = (leaky \/ defers # E0) /\ UNCHANGED <<loop, active, mounted>>
    BY <1>3 DEF Crash, E0, kernel
  <2>2. TypeInv'
    BY <1>1, <1>2, <2>1 DEF TypeInv
  <2>3. VolumeInv'
    BY <1>1, <2>1 DEF VolumeInv
  <2> QED
    BY <2>2, <2>3
<1>4. CASE Reboot
  <2>1. loop' = "none" /\ active' = FALSE /\ mounted' = FALSE /\ leaky' = FALSE
    BY <1>4 DEF Reboot
  <2>2. TypeInv'
    <3>1. blind' \in 0 .. 2
      BY <1>1
    <3> QED
      BY <1>1, <1>2, <2>1, <3>1 DEF TypeInv
  <2>3. VolumeInv'
    BY <1>1, <2>1 DEF VolumeInv
  <2> QED
    BY <2>2, <2>3
<1> QED
  BY <1>3, <1>4

\* Every step keeps the invariant.
LEMMA LocalStep == LocalInv /\ [Next]_vars => LocalInv'
<1> SUFFICES ASSUME LocalInv, [Next]_vars PROVE LocalInv'
  OBVIOUS
<1>1. CASE UNCHANGED vars
  BY <1>1 DEF vars, LocalInv, TypeInv, VolumeInv
<1>2. CASE Next
  BY <1>2, CommandStep, DeferredStep, StopStep DEF Next, ProcessStep
<1> QED
  BY <1>1, <1>2

\* Every reachable state satisfies the invariant.
LEMMA LocalInvariant == Spec => []LocalInv
BY LocalInitInv, LocalStep, PTL DEF Spec

-------------------------------------------------------------------------------
\* The image, the kernel's state and the process have the types of TypeOK.
THEOREM LocalTypeCorrect == Spec => []TypeOK
<1>1. LocalInv => TypeOK
  BY TypesSpelledOut DEF LocalInv
<1> QED
  BY <1>1, LocalInvariant, PTL

\* Serving is serving the image's file system, whose loop device stays although Open has detached
\* it (volume.Open, Volume.Mount).
THEOREM ServesTheImage == Spec => []ServedFromImage
<1>1. LocalInv => ServedFromImage
  BY DEF LocalInv, VolumeInv, ServedFromImage
<1> QED
  BY <1>1, LocalInvariant, PTL

\* A loop device that stays attached has a deferred call that detaches it, or is what a failure or a
\* crash left.
THEOREM LoopIsReleased == Spec => []LoopReleased
<1>1. LocalInv => LoopReleased
  <2> SUFFICES ASSUME LocalInv, loop = "attached", ~leaky
               PROVE  "Detach" \in {defers[i] : i \in DOMAIN defers}
    BY DEF LoopReleased
  <2>1. defers = E1 \/ defers = E2
    BY DEF LocalInv, TypeInv, VolumeInv
  <2> QED
    BY <2>1, Tuples
<1> QED
  BY <1>1, LocalInvariant, PTL

\* What the user wrote is never formatted but where os.Stat failed twice: otherwise Create runs without
\* an image, and each of its commands finds a stage before the file system (VolumeServe.Start,
\* volume.Create).
THEOREM UserDataSurvives == Spec => DataSurvives
<1> DEFINE Overwritten == pc = "file" /\ blind = 2 /\ loop = "none"
<1>1. LocalInv /\ LocalInv' /\ [Next]_vars => [written => (written' /\ image' = "fs") \/ Overwritten]_vars
  <2> SUFFICES ASSUME LocalInv, LocalInv', Next, written, ~Overwritten PROVE written' /\ image' = "fs"
    OBVIOUS
  <2>1. image = "fs"
    BY DEF LocalInv, VolumeInv
  <2>2. written'
    <3>1. CASE CreateFile
      BY <2>1, <3>1 DEF CreateFile, LocalInv, VolumeInv
    <3>2. CASE ~CreateFile
      BY <3>2 DEF Next, ProcessStep, StartServe, CheckNoImage, AttachNew, PVCreate, VGCreate, TPCreate100,
         TLVCreate, Format, Mkfs, GetOrAttach, FindVolumes, Mount, CommandFails, CallDeferred, Returned,
         AutoActivate, UserWrites, Crash, Reboot, Stop, RemoveHalfImage, disk
    <3> QED
      BY <3>1, <3>2
  <2> QED
    BY <2>2 DEF LocalInv, VolumeInv
<1> QED
  BY <1>1, LocalInvariant, PTL DEF Spec, DataSurvives

-------------------------------------------------------------------------------
\* Why WholeImageServed holds, as far as it is a matter of safety.  Each command of Create finds
\* the image at the stage where the command before left it, though processes die and images are
\* removed: none is tried on an image that has got less far, or further, and waits for ever.
CreateGoesOn ==
  /\ pc \in {"attach", "pvcreate"} => image = "blank"
  /\ pc = "vgcreate" => image = "pv"
  /\ pc = "tpcreate" => image = "vg"
  /\ pc = "lvcreate" => image = "pool"
  /\ pc = "mkfs" => image = "lv" /\ active

\* Without an image there is no loop device, and no process that looks for the volumes of one.
AbsentInv ==
  image = "absent" => /\ loop = "none"
                      /\ pc \in {"down", "stat", "file", "unwind"}
                      /\ pc = "unwind" => after = "down"

\* Every step keeps both.
LEMMA GoesOnStep == LocalInv /\ CreateGoesOn /\ AbsentInv /\ [Next]_vars => CreateGoesOn' /\ AbsentInv'
<1> SUFFICES ASSUME LocalInv, CreateGoesOn, AbsentInv, [Next]_vars PROVE CreateGoesOn' /\ AbsentInv'
  OBVIOUS
<1> USE DEF LocalInv, TypeInv, CreateGoesOn, AbsentInv, Goto, ReturnTo, disk, kernel, history, bounds
<1>1. CASE StartServe \/ CheckNoImage \/ CreateFile \/ AttachNew
  BY <1>1 DEF StartServe, StatFails, ImageExists, CheckNoImage, CreateFile, AttachNew
<1>2. CASE PVCreate \/ VGCreate \/ TPCreate100 \/ TLVCreate \/ Mkfs
  BY <1>2 DEF PVCreate, VGCreate, TPCreate100, TLVCreate, Mkfs, Format
<1>3. CASE GetOrAttach \/ FindVolumes \/ Mount \/ CommandFails
  BY <1>3 DEF GetOrAttach, FindVolumes, Mount, CommandFails
<1>4. CASE CallDeferred
  <2>1. pc = "unwind" /\ UNCHANGED <<image, pc, after>> /\ (loop = "none" => loop' = "none")
    BY <1>4 DEF CallDeferred, Detach, VGDeactivate
  <2> QED
    BY <2>1
<1>5. CASE Returned
  BY <1>5 DEF Returned
<1>6. CASE AutoActivate \/ UserWrites \/ RemoveHalfImage
  BY <1>6 DEF AutoActivate, UserWrites, RemoveHalfImage
<1>7. CASE Crash \/ Reboot
  BY <1>7 DEF Crash, Reboot, Stop
<1>8. CASE UNCHANGED vars
  BY <1>8 DEF vars
<1> QED
  BY <1>1, <1>2, <1>3, <1>4, <1>5, <1>6, <1>7, <1>8 DEF Next, ProcessStep

\* Both hold in every state.
LEMMA GoesOnInvariant == Spec => [](CreateGoesOn /\ AbsentInv)
<1>1. Init => CreateGoesOn /\ AbsentInv
  BY DEF Init, CreateGoesOn, AbsentInv
<1> QED
  BY <1>1, GoesOnStep, LocalInvariant, PTL DEF Spec

\* Create is never left without a command to try (volume.Create).
THEOREM CreateIsNotStuck == Spec => []CreateGoesOn
  BY GoesOnInvariant, PTL

\* A process that was to serve an image with a file system ends only for a command or an os.Stat that
\* fails, or because udev has not activated the volumes again before they are mounted: not for what an
\* earlier process left attached, active or mounted.
OnlyFaultsStopServing ==
  [][image = "fs" /\ pc \notin {"down", "unwind", "serving"} /\ pc' = "unwind" /\ after' = "down"
       => \/ faults' = faults + 1
          \/ pc = "stat" /\ blind = 1
          \/ pc = "mount" /\ ~mounted /\ ~active]_vars

\* So it does, for any number of failures, crashes and reboots (volume.Open, Volume.Mount).
THEOREM LeftOversStopNoServing == Spec => OnlyFaultsStopServing
<1> DEFINE Ends == image = "fs" /\ pc \notin {"down", "unwind", "serving"} /\ pc' = "unwind" /\ after' = "down"
           Excused == faults' = faults + 1 \/ (pc = "stat" /\ blind = 1) \/ (pc = "mount" /\ ~mounted /\ ~active)
<1>1. LocalInv /\ CreateGoesOn /\ [Next]_vars => [Ends => Excused]_vars
  <2> SUFFICES ASSUME LocalInv, CreateGoesOn, Next, Ends PROVE Excused
    OBVIOUS
  <2>1. CASE CommandFails
    BY <2>1 DEF CommandFails, Failing
  <2>5. CASE CheckNoImage
    BY <2>5 DEF CheckNoImage, LocalInv, VolumeInv
  <2>2. CASE StartServe \/ CreateFile \/ AttachNew \/ PVCreate \/ VGCreate
             \/ TPCreate100 \/ TLVCreate \/ Mkfs \/ GetOrAttach
    BY <2>2 DEF StartServe, CreateFile, AttachNew, PVCreate, VGCreate, TPCreate100,
                TLVCreate, Mkfs, GetOrAttach, Format, Goto, ReturnTo, CreateGoesOn
  <2>3. CASE FindVolumes \/ Mount
    BY <2>3 DEF FindVolumes, Mount, Goto, ReturnTo
  <2>4. CASE CallDeferred \/ Returned \/ AutoActivate \/ UserWrites \/ Crash \/ Reboot \/ RemoveHalfImage
    BY <2>4 DEF CallDeferred, Returned, AutoActivate, UserWrites, Crash, Reboot, Stop, RemoveHalfImage, Goto
  <2> QED
    BY <2>1, <2>2, <2>3, <2>4, <2>5 DEF Next, ProcessStep
<1> QED
  BY <1>1, LocalInvariant, GoesOnInvariant, PTL DEF Spec, OnlyFaultsStopServing
===============================================================================
