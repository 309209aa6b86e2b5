---------------------------- MODULE LocalVolume ----------------------------
(***************************************************************************)
(* What VolumeServe.Start does with the local image once it has the lock:   *)
(* volume.Create when there is no image (a file, a loop device, a physical  *)
(* volume, a volume group, a thin pool, a thin volume, a file system, and   *)
(* then the deferred calls), volume.Open and Volume.Mount.                  *)
(*                                                                          *)
(* Every command may fail without effect, the process may die between two   *)
(* commands, and the machine may reboot; a supervisor starts the process    *)
(* again.  An os.Stat that fails for any reason is taken for an image that  *)
(* is not there, in Start and again in Create.                              *)
(*                                                                          *)
(* The kernel and LVM are outside of the repository: losetup -d of a device *)
(* in use only marks it to be detached when it is free (autoclear), udev    *)
(* activates the logical volumes of an attached device at a time of its     *)
(* own, and the device node to mount is there only while they are active.   *)
(***************************************************************************)
EXTENDS Naturals, Sequences

CONSTANTS MaxFaults,   \* bound of the commands that fail
          MaxCrashes   \* bound of the crashes and reboots

ASSUME BoundsAssumption == MaxFaults \in Nat /\ MaxCrashes \in Nat

VARIABLES image,    \* how far the image has got
          written,  \* the user has put data on the file system
          loop,     \* the image's loop device: "none", "attached", or "autoclear" when it is to go
          active,   \* the logical volumes are active
          mounted,  \* the file system is mounted
          pc,       \* where the process is
          defers,   \* the deferred calls, last one first to be called
          after,    \* where the process goes once they are called
          leaky,    \* history: the deferred detaching failed or never came, since the last reboot
          blind,    \* history: the os.Stat of this start that failed although the image is there
          faults,   \* the commands that failed
          crashes   \* the crashes and reboots

vars == <<image, written, loop, active, mounted, pc, defers, after, leaky, blind, faults, crashes>>

disk == <<image, written>>
kernel == <<loop, active, mounted>>
history == <<leaky, blind>>
bounds == <<faults, crashes>>

Stage == <<"absent", "blank", "pv", "vg", "pool", "lv", "fs">>
HasVolumes == image \in {"pool", "lv", "fs"}

\* The commands of Create, each of them tried when the image has got where the one before left it.
CreateStep == {"stat", "file", "attach", "pvcreate", "vgcreate", "tpcreate", "lvcreate", "mkfs"}
OpenStep == {"getloop", "find"}

TypeOK ==
  /\ image \in {Stage[i] : i \in DOMAIN Stage} /\ written \in BOOLEAN
  /\ loop \in {"none", "attached", "autoclear"}
  /\ active \in BOOLEAN /\ mounted \in BOOLEAN /\ leaky \in BOOLEAN
  /\ pc \in {"down", "unwind", "mount", "serving"} \cup CreateStep \cup OpenStep
  /\ defers \in {<<>>, <<"Detach">>, <<"Detach", "Deactivate">>}
  /\ after \in {"getloop", "mount", "down"}
  /\ blind \in 0 .. 2
  /\ faults \in 0 .. MaxFaults /\ crashes \in 0 .. MaxCrashes

Init ==
  /\ image = "absent" /\ written = FALSE
  /\ loop = "none" /\ active = FALSE /\ mounted = FALSE
  /\ pc = "down" /\ defers = <<>> /\ after = "down"
  /\ leaky = FALSE /\ blind = 0 /\ faults = 0 /\ crashes = 0

-------------------------------------------------------------------------------
Goto(step) == pc' = step /\ UNCHANGED after

\* The function returns: its deferred calls first.
ReturnTo(step) == pc' = "unwind" /\ after' = step

Failing == faults < MaxFaults /\ faults' = faults + 1

ImageExists == image # "absent"

\* os.Stat returns an error: there is no image, or stat itself fails, which nobody tells apart.
StatFails(blinded) ==
  IF ImageExists THEN Failing /\ blind' = blinded ELSE blind' = 0 /\ UNCHANGED faults

\* Start finds the image and opens it, or does not and creates it.
StartServe ==
  /\ pc = "down"
  /\ \/ ImageExists /\ Goto("getloop") /\ blind' = 0 /\ UNCHANGED faults
     \/ StatFails(1) /\ Goto("stat")
  /\ UNCHANGED <<disk, kernel, defers, leaky, crashes>>

\* Mutant: Create trusts its caller that there is no image.
CheckOnlyDevices ==
  /\ pc = "stat"
  /\ IF loop # "none" THEN ReturnTo("down") ELSE Goto("file")
  /\ UNCHANGED <<disk, kernel, defers, history, bounds>>

\* Create refuses an image that it finds, and a file that a loop device is attached to.
CheckNoImage ==
  /\ pc = "stat"
  /\ \/ ImageExists /\ ReturnTo("down") /\ UNCHANGED <<blind, faults>>
     \/ StatFails(2) /\ IF loop # "none" THEN ReturnTo("down") ELSE Goto("file")
  /\ UNCHANGED <<disk, kernel, defers, leaky, crashes>>

\* os.Create, which truncates.  (Where fallocate fails, losetup might as well have failed.)
CreateFile ==
  /\ pc = "file"
  /\ image' = "blank" /\ written' = FALSE
  /\ Goto("attach")
  /\ UNCHANGED <<kernel, defers, history, bounds>>

\* losetup -f --show; Create defers the detaching.
AttachNew ==
  /\ pc = "attach"
  /\ loop' = "attached"
  /\ defers' = <<"Detach">>
  /\ Goto("pvcreate")
  /\ UNCHANGED <<disk, active, mounted, history, bounds>>

\* A command that takes the image from one stage to the next.
Format(step, from, to, next) ==
  /\ pc = step /\ image = from
  /\ image' = to
  /\ Goto(next)
  /\ UNCHANGED <<written, loop, mounted, history, bounds>>

PVCreate == Format("pvcreate", "blank", "pv", "vgcreate") /\ UNCHANGED <<active, defers>>

\* vgcreate; Create defers vgchange -an.
VGCreate ==
  /\ Format("vgcreate", "pv", "vg", "tpcreate")
  /\ defers' = <<"Detach", "Deactivate">>
  /\ UNCHANGED active

\* lvcreate activates what it creates.
TPCreate100 == Format("tpcreate", "vg", "pool", "lvcreate") /\ active' = TRUE /\ UNCHANGED defers
TLVCreate == Format("lvcreate", "pool", "lv", "mkfs") /\ active' = TRUE /\ UNCHANGED defers

\* mkfs, and Create returns.
Mkfs ==
  /\ pc = "mkfs" /\ active
  /\ image' = "fs"
  /\ ReturnTo("getloop")
  /\ UNCHANGED <<written, kernel, defers, history, bounds>>

\* Mutant: Open attaches the image and never detaches it.
GetOrAttachKeeping ==
  /\ pc = "getloop"
  /\ IF loop # "none"
       THEN UNCHANGED <<loop, defers>>
       ELSE loop' = "attached" /\ UNCHANGED defers
  /\ Goto("find")
  /\ UNCHANGED <<disk, active, mounted, history, bounds>>

\* Open: the loop device the image has, or a new one to detach when Open returns.
GetOrAttach ==
  /\ pc = "getloop"
  /\ IF loop # "none"
       THEN UNCHANGED <<loop, defers>>
       ELSE loop' = "attached" /\ defers' = <<"Detach">>
  /\ Goto("find")
  /\ UNCHANGED <<disk, active, mounted, history, bounds>>

\* Open: FindPVLVs, and the volumes with the tags "fs" and "tp".
FindVolumes ==
  /\ pc = "find"
  /\ ReturnTo(IF image \in {"lv", "fs"} THEN "mount" ELSE "down")
  /\ UNCHANGED <<disk, kernel, defers, history, bounds>>

\* Mutant: mount is tried even where the file system is mounted already, and refuses.
MountAgain ==
  /\ pc = "mount"
  /\ IF ~mounted /\ active /\ image = "fs"
       THEN mounted' = TRUE /\ Goto("serving")
       ELSE UNCHANGED mounted /\ ReturnTo("down")
  /\ UNCHANGED <<disk, loop, active, defers, history, bounds>>

\* Mutant: the error of mount is not looked at.
MountIgnoringError ==
  /\ pc = "mount"
  /\ mounted' = (mounted \/ (active /\ image = "fs"))
  /\ Goto("serving")
  /\ UNCHANGED <<disk, loop, active, defers, history, bounds>>

\* Volume.Mount, which is content with a file system that is mounted already.
Mount ==
  /\ pc = "mount"
  /\ IF mounted \/ (active /\ image = "fs")
       THEN mounted' = TRUE /\ Goto("serving")
       ELSE UNCHANGED mounted /\ ReturnTo("down")
  /\ UNCHANGED <<disk, loop, active, defers, history, bounds>>

\* Any command of Create, Open and Mount fails, and so does the function that called it.
CommandFails ==
  /\ pc \in CreateStep \cup OpenStep \cup {"mount"}
  /\ Failing
  /\ ReturnTo("down")
  /\ UNCHANGED <<disk, kernel, defers, history, crashes>>

\* losetup -d
Detach ==
  /\ loop' = IF loop = "none" THEN "none" ELSE IF active THEN "autoclear" ELSE "none"
  /\ UNCHANGED active

\* vgchange -an, which frees the loop device.  The file system is not mounted while it is created.
VGDeactivate == active' = FALSE /\ loop' = IF loop = "autoclear" THEN "none" ELSE loop

\* One deferred call; its failure is ignored.
CallDeferred ==
  /\ pc = "unwind" /\ defers # <<>>
  /\ \/ /\ IF defers[Len(defers)] = "Detach" THEN Detach ELSE VGDeactivate
        /\ UNCHANGED <<leaky, faults>>
     \/ /\ Failing
        /\ leaky' = (leaky \/ defers[Len(defers)] = "Detach")
        /\ UNCHANGED <<loop, active>>
  /\ defers' = SubSeq(defers, 1, Len(defers) - 1)
  /\ UNCHANGED <<disk, mounted, pc, after, blind, crashes>>

Returned ==
  /\ pc = "unwind" /\ defers = <<>>
  /\ Goto(after)
  /\ UNCHANGED <<disk, kernel, defers, history, bounds>>

-------------------------------------------------------------------------------
\* udev and LVM activate the volumes of an attached device.
AutoActivate ==
  /\ loop # "none" /\ HasVolumes /\ ~active
  /\ active' = TRUE
  /\ UNCHANGED <<disk, loop, mounted, pc, defers, after, history, bounds>>

UserWrites ==
  /\ mounted /\ ~written
  /\ written' = TRUE
  /\ UNCHANGED <<image, kernel, pc, defers, after, history, bounds>>

Stop ==
  /\ crashes < MaxCrashes
  /\ crashes' = crashes + 1
  /\ pc' = "down" /\ defers' = <<>> /\ after' = "down"
  /\ blind' = 0
  /\ UNCHANGED <<disk, faults>>

\* The process dies.  What it had attached and mounted stays.
Crash ==
  /\ Stop
  /\ leaky' = (leaky \/ defers # <<>>)
  /\ UNCHANGED kernel

Reboot ==
  /\ Stop
  /\ loop' = "none" /\ active' = FALSE /\ mounted' = FALSE /\ leaky' = FALSE

\* Somebody removes what is left of an image that was not finished.
RemoveHalfImage ==
  /\ pc = "down" /\ image \notin {"absent", "fs"}
  /\ image' = "absent"
  /\ loop' = "none" /\ active' = FALSE /\ leaky' = FALSE
  /\ UNCHANGED <<written, mounted, pc, defers, after, blind, bounds>>

ProcessStep == \/ StartServe \/ CheckNoImage \/ CreateFile \/ AttachNew \/ PVCreate \/ VGCreate
               \/ TPCreate100 \/ TLVCreate \/ Mkfs \/ GetOrAttach \/ FindVolumes \/ Mount
               \/ CommandFails \/ CallDeferred \/ Returned

Next == ProcessStep \/ AutoActivate \/ UserWrites \/ Crash \/ Reboot \/ RemoveHalfImage

Spec == Init /\ [][Next]_vars

\* A process that ended is started again and its commands end; and udev does not lose the race with
\* the deferred losetup -d of Open for ever.
FairSpec == Spec /\ WF_vars(ProcessStep) /\ SF_vars(AutoActivate)

-------------------------------------------------------------------------------
\* What the user wrote is not formatted again, whatever is attached or mounted when the process
\* starts: an image that is there is opened.  But not while the image is not attached and os.Stat fails
\* twice, in Start and in Create: then it is truncated, though Create "won't overwrite it".
DataSurvives ==
  [][written => (written' /\ image' = "fs") \/ (pc = "file" /\ blind = 2 /\ loop = "none")]_vars

\* Serving is serving the image's file system, not the bare mount point: the device was there when
\* it was mounted, though Open detaches the loop device it attached, and it stays.
ServedFromImage == pc = "serving" => mounted /\ active /\ loop # "none" /\ image = "fs"

\* A loop device that is not to go by itself is one that a deferred call is about to detach, or
\* one that a failure or a crash left behind.
LoopReleased == loop = "attached" /\ ~leaky => "Detach" \in {defers[i] : i \in DOMAIN defers}

\* An image with a file system ends up served, though failures, crashes and reboots come between, or
\* it is truncated as DataSurvives has it.
WholeImageServed == image = "fs" ~> pc = "serving" \/ image # "fs"
===============================================================================
