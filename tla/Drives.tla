------------------------------- MODULE Drives -------------------------------
(***************************************************************************)
(* A drive of the floppy, hard disk or CD-ROM driver (sony.cpp, disk.cpp,  *)
(* cdrom.cpp) and the disc in it (sys_windows.cpp).  The CPU thread runs   *)
(* the driver and the 1Hz interrupt; the window thread mounts what Windows *)
(* says has arrived, or what the user asks it to look for, in the same     *)
(* variables and without a lock.                                           *)
(*                                                                         *)
(* A disc is a number, and has one partition the Mac can mount.  The drive *)
(* of the floppy driver is a floppy drive, that of the hard disk driver a  *)
(* physical disk, that of the CD-ROM driver a CD-ROM drive.  The host is   *)
(* Windows NT, the preference pollmedia is set, and no Mac program has     *)
(* asked not to be told of discs without such a partition.                 *)
(***************************************************************************)
EXTENDS Naturals, FiniteSets

CONSTANTS MaxInserts, MaxKeys, MaxEjects, MaxRestarts

ASSUME BoundsAreNat == {MaxInserts, MaxKeys, MaxEjects, MaxRestarts} \subseteq Nat

\* Disc 1 may be there when the Mac boots; one that is put in is a new one.
Discs == 1 .. MaxInserts + 1
Threads == {"cpu", "main"}

VARIABLES
  driver,               \* "sony", "disk" or "cdrom"
  medium,               \* the disc in the drive, 0 for none
  h,                    \* the handle of the drive is open
  locked,               \* it keeps the disc from being taken out
  refused,              \* history: the drive did not eject, and has not been locked since
  is_media_present,
  opened,               \* the driver's Open has given the drive a status record
  dsDiskInPlace, to_be_mounted, acc_run_called,
  toc, start_byte,
  pc,                   \* where the two threads are
  seen,                 \* what a thread has found out about the drive
  checking,             \* the CPU thread is in mount_mountable_volumes
  arrived,              \* a message for the window thread
  event,                \* a disk event waits for the Mac
  told,                 \* the disc the Mac has mounted
  allowed,              \* history: a Mac program allowed the user to take the disc
  inserts, keys, ejects, restarts    \* history: counts of what is bounded

driveVars == <<medium, h, locked, refused>>
infoVars == <<opened, dsDiskInPlace, to_be_mounted, toc, start_byte>>
macVars == <<event, told, allowed>>
counters == <<inserts, keys, ejects, restarts>>
vars == <<driver, driveVars, is_media_present, infoVars, acc_run_called, pc, seen, checking,
          arrived, macVars, counters>>

removable == driver # "disk"

\* The Mac boots; the window thread is already there.
Init ==
  /\ driver \in {"sony", "disk", "cdrom"}
  /\ medium \in IF driver = "disk" THEN {1} ELSE {0, 1}
  /\ h = TRUE /\ locked = FALSE /\ refused = FALSE
  /\ is_media_present = (medium # 0)
  /\ opened = FALSE /\ dsDiskInPlace = 0 /\ to_be_mounted = FALSE
  /\ acc_run_called = FALSE
  /\ toc = 0 /\ start_byte = 0
  /\ pc = [t \in Threads |-> "run"]
  /\ seen = [t \in Threads |-> FALSE]
  /\ checking = FALSE
  /\ arrived = FALSE
  /\ event = FALSE /\ told = 0 /\ allowed = FALSE
  /\ inserts = 0 /\ keys = 0 /\ ejects = 0 /\ restarts = 0

Goto(t, l) == pc' = [pc EXCEPT ![t] = l]

-----------------------------------------------------------------------------
(* sys_windows.cpp, on Windows NT.                                         *)

\* is_floppy_readable(), is_cdrom_readable()
Readable == h /\ medium # 0

\* SysIsDiskInserted() asks the drive and believes what it has found out; a hard
\* disk is always there.
AskDrive(t, from, asked) ==
  /\ pc[t] = from /\ removable
  /\ seen' = [seen EXCEPT ![t] = Readable]
  /\ Goto(t, asked)
  /\ UNCHANGED is_media_present

Answer(t, asked, yes, no) ==
  /\ pc[t] = asked
  /\ is_media_present' = seen[t]
  /\ Goto(t, IF seen[t] THEN yes ELSE no)
  /\ UNCHANGED seen

FixedDisk(t, from, yes) ==
  /\ pc[t] = from /\ ~ removable
  /\ Goto(t, yes)
  /\ UNCHANGED <<seen, is_media_present>>

\* Sys_read() that fails looks whether the disc is still there.
ReadFails == is_media_present' = (IF removable THEN Readable ELSE is_media_present)

-----------------------------------------------------------------------------
(* Mounting, on either thread.                                             *)

\* Where MountVolume goes back to.
Back(t) == IF t = "cpu" /\ checking THEN "flagged" ELSE "run"

mountUnchanged == UNCHANGED <<driver, acc_run_called, checking, arrived, macVars, counters>>

SysIsDiskInserted(t) ==
  /\ \/ AskDrive(t, "inserted", "looked")
     \/ Answer(t, "looked", "lock", Back(t))
     \/ FixedDisk(t, "inserted", "lock")
  /\ UNCHANGED <<driveVars, infoVars>>
  /\ mountUnchanged

\* A disc that is in place is not locked again.
MutLock(t) ==
  /\ pc[t] = "lock"
  /\ locked' = (locked \/ (driver = "cdrom" /\ h /\ dsDiskInPlace = 0))
  /\ refused' = (refused /\ ~ locked')
  /\ Goto(t, "place")
  /\ UNCHANGED <<medium, h, is_media_present, infoVars, seen>>
  /\ mountUnchanged

\* SysPreventRemoval(), which only a CD-ROM drive has.
Lock(t) ==
  /\ pc[t] = "lock"
  /\ locked' = (locked \/ (driver = "cdrom" /\ h))
  /\ refused' = (refused /\ ~ locked')
  /\ Goto(t, "place")
  /\ UNCHANGED <<medium, h, is_media_present, infoVars, seen>>
  /\ mountUnchanged

\* What is known of a disc that was in place is kept.
MutPlace(t) ==
  /\ pc[t] = "place"
  /\ dsDiskInPlace' = IF opened THEN 1 ELSE dsDiskInPlace
  /\ IF driver = "cdrom" /\ dsDiskInPlace = 0
     THEN /\ toc' = IF Readable THEN medium ELSE 0
          /\ start_byte' = 0
          /\ Goto(t, "search")
     ELSE Goto(t, "flag") /\ UNCHANGED <<toc, start_byte>>
  /\ UNCHANGED <<driveVars, is_media_present, opened, to_be_mounted, seen>>
  /\ mountUnchanged

\* The disc is in place for the Mac, as far as there is a status record; then
\* read_toc(), and find_hfs_partition() begins.
Place(t) ==
  /\ pc[t] = "place"
  /\ dsDiskInPlace' = IF opened THEN 1 ELSE dsDiskInPlace
  /\ IF driver = "cdrom"
     THEN /\ toc' = IF Readable THEN medium ELSE 0
          /\ start_byte' = 0
          /\ Goto(t, "search")
     ELSE Goto(t, "flag") /\ UNCHANGED <<toc, start_byte>>
  /\ UNCHANGED <<driveVars, is_media_present, opened, to_be_mounted, seen>>
  /\ mountUnchanged

\* find_hfs_partition() leaves the 0 when it cannot read.
find_hfs_partition(t) ==
  /\ pc[t] = "search"
  /\ IF Readable
     THEN start_byte' = medium /\ UNCHANGED is_media_present
     ELSE UNCHANGED start_byte /\ ReadFails
  /\ Goto(t, "flag")
  /\ UNCHANGED <<driveVars, opened, dsDiskInPlace, to_be_mounted, toc, seen>>
  /\ mountUnchanged

Flag(t) ==
  /\ pc[t] = "flag"
  /\ to_be_mounted' = TRUE
  /\ Goto(t, Back(t))
  /\ UNCHANGED <<driveVars, is_media_present, opened, dsDiskInPlace, toc, start_byte, seen>>
  /\ mountUnchanged

\* SonyMountVolume(), DiskMountVolume() and CDROMMountVolume().
MountVolume(t) ==
  \/ SysIsDiskInserted(t) \/ Lock(t) \/ Place(t) \/ find_hfs_partition(t) \/ Flag(t)

-----------------------------------------------------------------------------
(* The drivers, on the CPU thread.                                         *)

cpuUnchanged == UNCHANGED <<driver, arrived, inserts, keys>>

Open ==
  /\ pc["cpu"] = "run" /\ ~ opened
  /\ to_be_mounted' = FALSE /\ acc_run_called' = FALSE
  /\ Goto("cpu", "install")
  /\ UNCHANGED <<driveVars, is_media_present, opened, dsDiskInPlace, toc, start_byte,
                 seen, checking, macVars, ejects, restarts>>
  /\ cpuUnchanged

\* A new status record; a physical disk is fixed, else Open looks for a disc.
Install ==
  /\ pc["cpu"] = "install"
  /\ opened' = TRUE
  /\ IF driver = "disk"
     THEN /\ dsDiskInPlace' = 8 /\ to_be_mounted' = TRUE
          /\ Goto("cpu", "run")
     ELSE /\ dsDiskInPlace' = 0 /\ UNCHANGED to_be_mounted
          /\ Goto("cpu", "inserted")
  /\ UNCHANGED <<driveVars, is_media_present, acc_run_called, toc, start_byte, seen, checking,
                 macVars, ejects, restarts>>
  /\ cpuUnchanged

\* No driver looks for discs.
MutStartCheck ==
  /\ pc["cpu"] = "run" /\ opened
  /\ checking' = TRUE
  /\ Goto("cpu", "flagged")
  /\ UNCHANGED <<driveVars, is_media_present, infoVars, acc_run_called, seen, macVars, ejects,
                 restarts>>
  /\ cpuUnchanged

\* accRun, once after Open, and the 1Hz interrupt from then on.
StartCheck ==
  /\ pc["cpu"] = "run" /\ opened
  /\ checking' = TRUE
  /\ Goto("cpu", IF driver # "sony" /\ dsDiskInPlace = 0 THEN "check" ELSE "flagged")
  /\ UNCHANGED <<driveVars, is_media_present, infoVars, acc_run_called, seen, macVars, ejects,
                 restarts>>
  /\ cpuUnchanged

\* Only a driver that looks for itself asks whether a disc has been inserted.
Check ==
  /\ \/ AskDrive("cpu", "check", "checked")
     \/ Answer("cpu", "checked", "inserted", "flagged")
     \/ FixedDisk("cpu", "check", "inserted")
  /\ UNCHANGED <<driveVars, infoVars, acc_run_called, checking, macVars, ejects, restarts>>
  /\ cpuUnchanged

PostEvent ==
  /\ pc["cpu"] = "flagged" /\ to_be_mounted
  /\ event' = TRUE
  /\ Goto("cpu", "posted")
  /\ UNCHANGED <<driveVars, is_media_present, infoVars, acc_run_called, seen, checking, told,
                 allowed, ejects, restarts>>
  /\ cpuUnchanged

EndCheck ==
  /\ \/ pc["cpu"] = "flagged" /\ ~ to_be_mounted
     \/ pc["cpu"] = "posted"
  /\ to_be_mounted' = FALSE
  /\ acc_run_called' = TRUE /\ checking' = FALSE
  /\ Goto("cpu", "run")
  /\ UNCHANGED <<driveVars, is_media_present, opened, dsDiskInPlace, toc, start_byte, seen,
                 macVars, ejects, restarts>>
  /\ cpuUnchanged

mount_mountable_volumes == StartCheck \/ Check \/ PostEvent \/ EndCheck

\* A disc whose partition is not where the driver looks has nothing the Mac knows.
Mountable == Readable /\ (driver = "cdrom" => start_byte = medium)

\* The Mac takes the event and reads what is in the drive (Prime): it mounts the
\* volume, finds none, or gets an error.
Prime ==
  /\ pc["cpu"] = "run" /\ event
  /\ event' = FALSE
  /\ IF opened /\ dsDiskInPlace # 0
     THEN /\ dsDiskInPlace' = IF driver = "sony" THEN 2 ELSE dsDiskInPlace
          /\ told' = IF Mountable THEN medium ELSE told
          /\ IF Readable THEN UNCHANGED is_media_present ELSE ReadFails
     ELSE UNCHANGED <<dsDiskInPlace, told, is_media_present>>
  /\ UNCHANGED <<driveVars, opened, to_be_mounted, toc,
                 start_byte, acc_run_called, pc, seen, checking, allowed, ejects, restarts>>
  /\ cpuUnchanged

ejectUnchanged == UNCHANGED <<toc, start_byte, opened, acc_run_called, checking,
                              seen, restarts>>

\* Control(7), after the Mac has taken the volume off its desktop: a fixed disk
\* is inserted again, and of another the lock is taken back.
Eject ==
  /\ pc["cpu"] = "run" /\ opened /\ ejects < MaxEjects
  /\ dsDiskInPlace > 0
  /\ ejects' = ejects + 1
  /\ told' = 0 /\ allowed' = FALSE
  /\ IF driver = "disk" /\ dsDiskInPlace = 8
     THEN event' = TRUE /\ UNCHANGED <<pc, locked>>
     ELSE /\ Goto("cpu", "eject")
          /\ locked' = (locked /\ driver # "cdrom")
          /\ UNCHANGED event
  /\ UNCHANGED <<medium, h, refused, is_media_present, dsDiskInPlace, to_be_mounted>>
  /\ ejectUnchanged /\ cpuUnchanged

\* SysEject() forgets the disc, and takes back the locks again ...
SysEject ==
  /\ pc["cpu"] = "eject"
  /\ is_media_present' = (is_media_present /\ ~ removable)
  /\ locked' = (locked /\ driver # "cdrom")
  /\ Goto("cpu", IF driver = "cdrom" \/ (driver = "sony" /\ is_media_present)
                 THEN "ejecting" ELSE "ejected")
  /\ UNCHANGED <<medium, h, refused, dsDiskInPlace, to_be_mounted, macVars, ejects>>
  /\ ejectUnchanged /\ cpuUnchanged

\* ... and has the drive let go of it, which may fail - in a floppy drive, locked
\* again or without a handle it does - and no one asks whether it has.
LetGo ==
  /\ pc["cpu"] = "ejecting"
  /\ (h /\ medium' = 0) \/ UNCHANGED medium
  /\ refused' = (medium' # 0 /\ h /\ ~ locked)
  /\ Goto("cpu", "ejected")
  /\ UNCHANGED <<h, locked, is_media_present, dsDiskInPlace, to_be_mounted, macVars, ejects>>
  /\ ejectUnchanged /\ cpuUnchanged

Ejected ==
  /\ pc["cpu"] = "ejected"
  /\ dsDiskInPlace' = 0
  /\ Goto("cpu", "run")
  /\ UNCHANGED <<driveVars, is_media_present, to_be_mounted, macVars, ejects>>
  /\ ejectUnchanged /\ cpuUnchanged

\* Control(80), SetUserEject: the eject button of the drive works, or not.
SetUserEject ==
  /\ pc["cpu"] = "run" /\ opened /\ driver = "cdrom" /\ dsDiskInPlace > 0
  /\ allowed' \in BOOLEAN
  /\ locked' = (~ allowed' /\ (h \/ locked))
  /\ refused' = (refused /\ ~ locked')
  /\ UNCHANGED <<medium, h, is_media_present, infoVars, acc_run_called, pc, seen, checking, event,
                 told, ejects, restarts>>
  /\ cpuUnchanged

\* The Mac restarts: what it knew is gone, the driver's variables are not.
Restart ==
  /\ pc["cpu"] = "run" /\ opened /\ restarts < MaxRestarts
  /\ restarts' = restarts + 1
  /\ opened' = FALSE /\ dsDiskInPlace' = 0
  /\ event' = FALSE /\ told' = 0 /\ allowed' = FALSE
  /\ UNCHANGED <<driveVars, is_media_present, to_be_mounted, toc, start_byte,
                 acc_run_called, pc, seen, checking, ejects>>
  /\ cpuUnchanged

-----------------------------------------------------------------------------
(* The window thread and the user.                                         *)

mainUnchanged == UNCHANGED <<driver, infoVars, acc_run_called, checking, macVars, inserts, ejects,
                             restarts>>

\* mount_removable_media(), for a message or for the user: any volume that has
\* arrived will do, in whatever drive.
StartMount ==
  /\ pc["main"] = "run"
  /\ \/ removable /\ arrived /\ arrived' = FALSE /\ UNCHANGED keys
     \/ keys < MaxKeys /\ keys' = keys + 1 /\ UNCHANGED arrived
  /\ IF removable
     THEN /\ h' = FALSE /\ locked' = FALSE
          /\ Goto("main", "reopen")
     ELSE Goto("main", "inserted") /\ UNCHANGED <<h, locked>>
  /\ UNCHANGED <<medium, refused, is_media_present, seen>>
  /\ mainUnchanged

\* The drive may not be opened again: there is no handle then, nothing is mounted,
\* and what the Mac believes stays.
Reopen ==
  /\ pc["main"] = "reopen"
  /\ \/ /\ h' = TRUE
        /\ seen' = [seen EXCEPT !["main"] = (medium # 0)]
        /\ Goto("main", "probed")
        /\ UNCHANGED is_media_present
     \/ /\ is_media_present' = FALSE
        /\ Goto("main", "run")
        /\ UNCHANGED <<h, seen>>
  /\ UNCHANGED <<medium, locked, refused, arrived, keys>>
  /\ mainUnchanged

Probed ==
  /\ pc["main"] = "probed"
  /\ is_media_present' = seen["main"]
  /\ Goto("main", IF seen["main"] THEN "inserted" ELSE "run")
  /\ UNCHANGED <<driveVars, seen, arrived, keys>>
  /\ mainUnchanged

mount_removable_media == StartMount \/ Reopen \/ Probed

userUnchanged == UNCHANGED <<driver, h, locked, refused, is_media_present, infoVars, acc_run_called, pc, seen,
                             checking, macVars, keys, ejects, restarts>>

\* Windows tells the program of a disc that has come, and of one that has gone.
Insert ==
  /\ removable /\ medium = 0 /\ inserts < MaxInserts
  /\ inserts' = inserts + 1
  /\ medium' = inserts' + 1
  /\ arrived' = TRUE
  /\ userUnchanged

TakeOut ==
  /\ removable /\ medium # 0 /\ ~ locked
  /\ medium' = 0
  /\ UNCHANGED <<arrived, inserts>>
  /\ userUnchanged

CpuMount == MountVolume("cpu")
MainMount == MountVolume("main")

Next ==
  \/ Open \/ Install \/ mount_mountable_volumes \/ CpuMount
  \/ Prime \/ Eject \/ SysEject \/ LetGo \/ Ejected
  \/ SetUserEject \/ Restart
  \/ mount_removable_media \/ MainMount
  \/ Insert \/ TakeOut

Spec == Init /\ [][Next]_vars

\* The Mac boots, handles its events and gets its interrupts, whatever its
\* programs do in between; the window thread handles its messages.
FairSpec ==
  /\ Spec
  /\ WF_vars(Open) /\ WF_vars(Install)
  /\ WF_vars(StartCheck) /\ WF_vars(Check \/ PostEvent \/ EndCheck \/ CpuMount)
  /\ WF_vars(SysEject \/ LetGo \/ Ejected)
  /\ SF_vars(Prime)
  /\ WF_vars(StartMount /\ arrived) /\ WF_vars(Reopen \/ Probed \/ MainMount)

-----------------------------------------------------------------------------
(* Properties.                                                             *)

\* The type invariant.
TypeOK ==
  /\ driver \in {"sony", "disk", "cdrom"}
  /\ medium \in {0} \union Discs /\ h \in BOOLEAN
  /\ {locked, refused, is_media_present, opened, to_be_mounted, acc_run_called,
      checking, arrived, event, allowed} \subseteq BOOLEAN
  /\ dsDiskInPlace \in {0, 1, 2, 8}
  /\ {toc, start_byte, told} \subseteq {0} \union Discs
  /\ pc \in [Threads -> {"run", "install", "check", "checked", "inserted", "looked", "lock", "place",
                         "search", "flag", "flagged", "posted", "eject", "ejecting",
                         "ejected", "reopen", "probed"}]
  /\ seen \in [Threads -> BOOLEAN]
  /\ inserts \in 0 .. MaxInserts /\ keys \in 0 .. MaxKeys /\ ejects \in 0 .. MaxEjects
  /\ restarts \in 0 .. MaxRestarts

\* CreateFile has failed; only another media message or the user's key tries again.
HandleLost == ~ h /\ pc["main"] = "run"

AtRest == /\ \A t \in Threads : pc[t] = "run"
          /\ ~ arrived /\ opened

\* While a disc is in place for the Mac, and nothing is under way, the user cannot
\* take it out of a CD-ROM drive, unless a Mac program has allowed it, although
\* looking for media closes the handle that holds the lock (SysPreventRemoval,
\* mount_removable_media).  Two cases are excepted: the drive could not be opened
\* again, and it refused an eject that a mounting overtook.
TrayIsLocked ==
  AtRest /\ driver = "cdrom" /\ dsDiskInPlace # 0 /\ medium # 0 /\ ~ allowed
    => locked \/ HandleLost \/ refused

\* What the CD-ROM driver knows of the disc is about the disc in the drive, even
\* when both threads have looked at once (CDROMMountVolume); a drive that could not
\* be opened again is excepted, and one that could be later is not.
DiscIsKnown ==
  AtRest /\ driver = "cdrom" /\ dsDiskInPlace # 0 /\ medium # 0
    => (toc = medium /\ start_byte = medium) \/ HandleLost

\* A disc that stays in a drive that is looked at is mounted by the Mac, whatever
\* an eject, which the drive may refuse, or the clearing of to_be_mounted on the
\* other thread has overwritten; a drive without a handle is looked at in vain, and
\* the floppy driver does not look (DISK_INSERT_CHECK).
DiscIsMounted ==
  \A d \in Discs :
    (medium = d /\ driver # "sony") ~> (told = d \/ medium # d \/ HandleLost)
=============================================================================
