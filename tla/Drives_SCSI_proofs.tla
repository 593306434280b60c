------------------------- MODULE Drives_SCSI_proofs -------------------------
(***************************************************************************)
(* Proofs about Drives and SCSI, the ways to the discs of the host.        *)
(*                                                                         *)
(* Drives, for any number of discs, requests, ejects and restarts: what    *)
(* the CD-ROM driver knows is of the disc in the drive, and the user       *)
(* cannot take it out, whichever way the two threads that mount a disc get *)
(* into each other's way.  SCSI, for every disk, memory, TIB and table     *)
(* size: a transaction moves what the Mac asked for.                       *)
(***************************************************************************)
EXTENDS Drives, SCSI, SequenceTheorems, WellFoundedInduction, TLAPS

-----------------------------------------------------------------------------
(* Drives.                                                                 *)

USE BoundsAreNat

Labels ==
  {"run", "install", "check", "checked", "inserted", "looked", "lock", "place", "search", "flag",
   "flagged", "posted", "eject", "ejecting", "ejected", "reopen", "probed"}

-----------------------------------------------------------------------------
(* The inductive invariant.                                                *)

\* The handle is closed while the window thread is about to open it, and open while
\* it mounts; that of a physical disk is never closed.
Handle == /\ pc["main"] = "reopen" => ~ h
          /\ pc["main"] \notin {"reopen", "run"} => h
          /\ driver = "disk" => h

\* When the window thread finds no disc, and there is one, then it came later.
MainSees ==
  pc["main"] \in {"looked", "probed"} /\ ~ seen["main"] /\ medium # 0 => arrived

\* What a thread has still to do.
MainWillLock == pc["main"] \in {"reopen", "probed", "inserted", "looked", "lock"}
MainWillPlace == MainWillLock \/ pc["main"] = "place"
CpuWillLock == pc["cpu"] \in {"inserted", "lock"} \/ (pc["cpu"] = "looked" /\ seen["cpu"])
Unlocking == pc["cpu"] \in {"eject", "ejecting"}
Searching == "search" \in {pc["main"], pc["cpu"]}
Placing == "place" \in {pc["main"], pc["cpu"]}

\* A disc whose arrival the window thread has heard of, in a drive it has opened.
Stays == driver = "cdrom" /\ medium # 0 /\ ~ arrived /\ ~ HandleLost

\* Whoever spoils what is known of the disc leaves somebody who finds it out.
Known ==
  Stays /\ dsDiskInPlace # 0 =>
    /\ toc = medium \/ MainWillPlace
    /\ start_byte = medium \/ MainWillPlace \/ Searching

\* Whoever takes back the lock leaves somebody who locks the drive again, or
\* takes away the disc, as far as the drive does not refuse.
Locking ==
  Stays /\ ~ allowed /\ (dsDiskInPlace # 0 \/ Placing) =>
    locked \/ refused \/ MainWillLock \/ CpuWillLock \/ Unlocking \/ ~ opened

IInv == TypeOK /\ Handle /\ MainSees /\ Known /\ Locking

-----------------------------------------------------------------------------
(* One thread goes on, the other stays where it is.                        *)

LEMMA GotoValues ==
  ASSUME TypeOK, NEW t \in Threads, NEW l \in Labels, Goto(t, l)
  PROVE  /\ pc' \in [Threads -> Labels]
         /\ pc'["main"] = IF t = "main" THEN l ELSE pc["main"]
         /\ pc'["cpu"] = IF t = "cpu" THEN l ELSE pc["cpu"]
BY DEF TypeOK, Threads, Labels, Goto

LEMMA SeenValues ==
  ASSUME TypeOK, NEW t \in Threads, NEW b \in BOOLEAN, seen' = [seen EXCEPT ![t] = b]
  PROVE  /\ seen' \in [Threads -> BOOLEAN]
         /\ seen'["main"] = IF t = "main" THEN b ELSE seen["main"]
         /\ seen'["cpu"] = IF t = "cpu" THEN b ELSE seen["cpu"]
BY DEF TypeOK, Threads

LEMMA AskValues ==
  ASSUME TypeOK, NEW t \in Threads, NEW from, NEW asked \in Labels, AskDrive(t, from, asked)
  PROVE  /\ pc[t] = from /\ is_media_present' = is_media_present
         /\ seen' \in [Threads -> BOOLEAN] /\ pc' \in [Threads -> Labels]
         /\ pc'["main"] = IF t = "main" THEN asked ELSE pc["main"]
         /\ pc'["cpu"] = IF t = "cpu" THEN asked ELSE pc["cpu"]
         /\ seen'["main"] = IF t = "main" THEN Readable ELSE seen["main"]
         /\ seen'["cpu"] = IF t = "cpu" THEN Readable ELSE seen["cpu"]
<1>1. Readable \in BOOLEAN
  BY DEF Readable
<1>2. /\ pc[t] = from /\ is_media_present' = is_media_present
      /\ seen' = [seen EXCEPT ![t] = Readable] /\ Goto(t, asked)
  BY DEF AskDrive
<1>3. /\ pc' \in [Threads -> Labels]
      /\ pc'["main"] = IF t = "main" THEN asked ELSE pc["main"]
      /\ pc'["cpu"] = IF t = "cpu" THEN asked ELSE pc["cpu"]
  BY <1>2, GotoValues
<1>4. /\ seen' \in [Threads -> BOOLEAN]
      /\ seen'["main"] = IF t = "main" THEN Readable ELSE seen["main"]
      /\ seen'["cpu"] = IF t = "cpu" THEN Readable ELSE seen["cpu"]
  BY <1>1, <1>2, SeenValues
<1>5. QED
  BY <1>2, <1>3, <1>4

LEMMA AnswerValues ==
  ASSUME TypeOK, NEW t \in Threads, NEW asked, NEW yes \in Labels, NEW no \in Labels,
         Answer(t, asked, yes, no)
  PROVE  /\ pc[t] = asked /\ seen[t] \in BOOLEAN /\ is_media_present' = seen[t] /\ seen' = seen
         /\ pc' \in [Threads -> Labels]
         /\ pc'["main"] = IF t = "main" THEN (IF seen[t] THEN yes ELSE no) ELSE pc["main"]
         /\ pc'["cpu"] = IF t = "cpu" THEN (IF seen[t] THEN yes ELSE no) ELSE pc["cpu"]
<1>1. /\ pc[t] = asked /\ seen[t] \in BOOLEAN /\ is_media_present' = seen[t] /\ seen' = seen
      /\ Goto(t, IF seen[t] THEN yes ELSE no) /\ (IF seen[t] THEN yes ELSE no) \in Labels
  BY DEF Answer, TypeOK
<1>2. QED
  BY <1>1, GotoValues

LEMMA InitInv == Init => IInv
<1> SUFFICES ASSUME Init
             PROVE  IInv
  OBVIOUS
<1>1. pc["main"] = "run" /\ pc["cpu"] = "run" /\ ~ seen["main"]
  BY DEF Init, Threads
<1>2. TypeOK
  <2>1. 1 \in Discs /\ {MaxInserts, MaxKeys, MaxEjects, MaxRestarts} \subseteq Nat
    BY DEF Discs
  <2>2. medium \in {0} \union Discs /\ driver \in {"sony", "disk", "cdrom"}
    BY <2>1 DEF Init
  <2>3. {locked, refused, is_media_present, opened, to_be_mounted, acc_run_called, checking, arrived, event,
         allowed} \subseteq BOOLEAN /\ h \in BOOLEAN
    BY DEF Init
  <2>4. pc \in [Threads -> Labels] /\ seen \in [Threads -> BOOLEAN]
    BY DEF Init, Labels
  <2>5. /\ inserts \in 0 .. MaxInserts /\ keys \in 0 .. MaxKeys /\ ejects \in 0 .. MaxEjects
        /\ restarts \in 0 .. MaxRestarts
    BY DEF Init
  <2>6. {toc, start_byte, told} \subseteq {0} \union Discs /\ dsDiskInPlace \in {0, 1, 2, 8}
    BY DEF Init
  <2>7. QED
    BY <2>2, <2>3, <2>4, <2>5, <2>6 DEF TypeOK, Labels
<1>3. QED
  BY <1>1, <1>2 DEF Init, IInv, Handle, MainSees, Known, Locking, Stays, HandleLost, Placing

-----------------------------------------------------------------------------
(* Mounting.                                                               *)

LEMMA InsertedStep ==
  ASSUME IInv, NEW t \in Threads, SysIsDiskInserted(t)
  PROVE  IInv'
<1> USE DEF SysIsDiskInserted, mountUnchanged, driveVars, infoVars, macVars, counters
<1>1. Back(t) \in {"flagged", "run"}
  BY DEF Back
<1>2. TypeOK /\ Handle /\ MainSees /\ Known /\ Locking
  BY DEF IInv
<1>3. CASE AskDrive(t, "inserted", "looked")
  <2>2. /\ pc[t] = "inserted" /\ is_media_present' = is_media_present
        /\ seen' \in [Threads -> BOOLEAN] /\ pc' \in [Threads -> Labels]
        /\ pc'["main"] = IF t = "main" THEN "looked" ELSE pc["main"]
        /\ pc'["cpu"] = IF t = "cpu" THEN "looked" ELSE pc["cpu"]
        /\ seen'["main"] = IF t = "main" THEN Readable ELSE seen["main"]
        /\ seen'["cpu"] = IF t = "cpu" THEN Readable ELSE seen["cpu"]
    <3>1. "looked" \in Labels
      BY DEF Labels
    <3>2. QED
      BY <1>2, <1>3, <3>1, AskValues
  <2>3. TypeOK'
    BY <1>2, <2>2 DEF TypeOK, Labels
  <2>4. Handle' /\ MainSees'
    BY <1>2, <2>2 DEF Handle, MainSees, Readable, Threads
  <2>5. Known'
    BY <1>2, <2>2
       DEF Known, Stays, HandleLost, MainWillPlace, MainWillLock, Searching, Threads
  <2>6. Locking'
    BY <1>2, <2>2
       DEF Locking, Stays, HandleLost, Placing, MainWillLock, CpuWillLock, Unlocking, Threads, Handle, Readable
  <2>7. QED
    BY <2>3, <2>4, <2>5, <2>6 DEF IInv
<1>4. CASE Answer(t, "looked", "lock", Back(t))
  <2>1. /\ pc[t] = "looked" /\ seen[t] \in BOOLEAN /\ is_media_present' = seen[t] /\ seen' = seen
        /\ pc' \in [Threads -> Labels]
        /\ pc'["main"] = IF t = "main" THEN (IF seen[t] THEN "lock" ELSE Back(t)) ELSE pc["main"]
        /\ pc'["cpu"] = IF t = "cpu" THEN (IF seen[t] THEN "lock" ELSE Back(t)) ELSE pc["cpu"]
    <3>1. "lock" \in Labels /\ Back(t) \in Labels
      BY <1>1 DEF Labels
    <3>2. QED
      BY <1>2, <1>4, <3>1, AnswerValues
  <2>2. TypeOK'
    BY <1>2, <2>1 DEF TypeOK, Labels
  <2>3. Handle' /\ MainSees'
    BY <1>1, <1>2, <2>1 DEF Handle, MainSees, Threads
  <2>4. Known'
    BY <1>1, <1>2, <2>1
       DEF Known, Stays, HandleLost, MainSees, MainWillPlace, MainWillLock, Searching, Threads
  <2>5. Locking'
    BY <1>1, <1>2, <2>1
       DEF Locking, Stays, HandleLost, MainSees, Placing, MainWillLock, CpuWillLock, Unlocking, Threads
  <2>6. QED
    BY <2>2, <2>3, <2>4, <2>5 DEF IInv
<1>5. CASE FixedDisk(t, "inserted", "lock")
  <2>1. /\ driver # "cdrom" /\ seen' = seen /\ is_media_present' = is_media_present
        /\ pc[t] = "inserted" /\ pc' \in [Threads -> Labels]
        /\ pc'["main"] = IF t = "main" THEN "lock" ELSE pc["main"]
    BY <1>2, <1>5, GotoValues DEF FixedDisk, Labels, TypeOK, removable
  <2>2. TypeOK'
    BY <1>2, <2>1 DEF TypeOK, Labels
  <2>3. Handle' /\ MainSees' /\ Known' /\ Locking'
    BY <1>2, <2>1 DEF Handle, MainSees, Known, Locking, Stays, HandleLost, Threads
  <2>4. QED
    BY <2>2, <2>3 DEF IInv
<1>6. QED
  BY <1>3, <1>4, <1>5

LEMMA LockStep ==
  ASSUME IInv, NEW t \in Threads, Lock(t)
  PROVE  IInv'
<1> USE DEF mountUnchanged, infoVars, macVars, counters
<1>1. TypeOK /\ Handle /\ MainSees /\ Known /\ Locking
  BY DEF IInv
<1>2. /\ pc[t] = "lock" /\ pc' \in [Threads -> Labels]
      /\ pc'["main"] = IF t = "main" THEN "place" ELSE pc["main"]
      /\ pc'["cpu"] = IF t = "cpu" THEN "place" ELSE pc["cpu"]
  BY <1>1, GotoValues DEF Lock, Labels
<1>3. /\ locked' \in BOOLEAN /\ (driver = "cdrom" => locked' = (locked \/ h))
      /\ refused' \in BOOLEAN /\ (~ locked' => refused' = refused)
      /\ UNCHANGED <<medium, h, is_media_present, infoVars, seen>>
      /\ mountUnchanged
  BY <1>1 DEF Lock, TypeOK
<1>4. TypeOK'
  BY <1>1, <1>2, <1>3 DEF TypeOK, Labels
<1>5. Handle' /\ MainSees'
  BY <1>1, <1>2, <1>3 DEF Handle, MainSees, Threads
<1>6. Known'
  BY <1>1, <1>2, <1>3 DEF Known, Stays, HandleLost, MainWillPlace, MainWillLock, Searching, Threads
<1>7. Locking'
  BY <1>1, <1>2, <1>3
     DEF Locking, Stays, HandleLost, Handle, Placing, MainWillLock, CpuWillLock, Unlocking, Threads
<1>8. QED
  BY <1>4, <1>5, <1>6, <1>7 DEF IInv

LEMMA PlaceStep ==
  ASSUME IInv, NEW t \in Threads, Place(t)
  PROVE  IInv'
<1> USE DEF mountUnchanged, driveVars, macVars, counters
<1>1. TypeOK /\ Handle /\ MainSees /\ Known /\ Locking
  BY DEF IInv
<1> DEFINE next == IF driver = "cdrom" THEN "search" ELSE "flag"
<1>2. /\ pc[t] = "place" /\ pc' \in [Threads -> Labels]
      /\ pc'["main"] = IF t = "main" THEN next ELSE pc["main"]
      /\ pc'["cpu"] = IF t = "cpu" THEN next ELSE pc["cpu"]
  <2>1. pc[t] = "place" /\ Goto(t, next) /\ next \in Labels
    BY DEF Place, Labels
  <2> HIDE DEF next
  <2>2. QED
    BY <1>1, <2>1, GotoValues
<1>3. /\ dsDiskInPlace' = IF opened THEN 1 ELSE dsDiskInPlace
      /\ driver = "cdrom" => toc' = (IF Readable THEN medium ELSE 0) /\ start_byte' = 0
      /\ driver # "cdrom" => UNCHANGED <<toc, start_byte>>
      /\ UNCHANGED <<medium, h, locked, refused, is_media_present, opened, to_be_mounted, seen>>
      /\ mountUnchanged
  BY DEF Place
<1>4. TypeOK'
  BY <1>1, <1>2, <1>3 DEF TypeOK, Labels
<1>5. Handle' /\ MainSees'
  BY <1>1, <1>2, <1>3 DEF Handle, MainSees, Threads
<1>6. Known'
  BY <1>1, <1>2, <1>3
     DEF Known, Stays, HandleLost, Handle, Readable, MainWillPlace, MainWillLock, Searching, Threads
<1>7. Locking'
  BY <1>1, <1>2, <1>3
     DEF Locking, Stays, HandleLost, Placing, MainWillLock, CpuWillLock, Unlocking, Threads
<1>8. QED
  BY <1>4, <1>5, <1>6, <1>7 DEF IInv

LEMMA SearchStep ==
  ASSUME IInv, NEW t \in Threads, find_hfs_partition(t)
  PROVE  IInv'
<1> USE DEF mountUnchanged, driveVars, macVars, counters
<1>1. TypeOK /\ Handle /\ MainSees /\ Known /\ Locking
  BY DEF IInv
<1>2. /\ pc[t] = "search" /\ pc' \in [Threads -> Labels]
      /\ pc'["main"] = IF t = "main" THEN "flag" ELSE pc["main"]
      /\ pc'["cpu"] = IF t = "cpu" THEN "flag" ELSE pc["cpu"]
  BY <1>1, GotoValues DEF find_hfs_partition, Labels
<1>3. /\ start_byte' = (IF Readable THEN medium ELSE start_byte)
      /\ is_media_present' \in BOOLEAN
      /\ UNCHANGED <<medium, h, locked, refused, opened, dsDiskInPlace, to_be_mounted, toc, seen>>
      /\ mountUnchanged
  BY <1>1 DEF find_hfs_partition, ReadFails, Readable, TypeOK
<1>4. TypeOK'
  BY <1>1, <1>2, <1>3 DEF TypeOK, Labels
<1>5. Handle' /\ MainSees'
  BY <1>1, <1>2, <1>3 DEF Handle, MainSees, Threads
<1>6. Known'
  BY <1>1, <1>2, <1>3
     DEF Known, Stays, HandleLost, Handle, Readable, MainWillPlace, MainWillLock, Searching, Threads
<1>7. Locking'
  BY <1>1, <1>2, <1>3
     DEF Locking, Stays, HandleLost, Placing, MainWillLock, CpuWillLock, Unlocking, Threads
<1>8. QED
  BY <1>4, <1>5, <1>6, <1>7 DEF IInv

LEMMA FlagStep ==
  ASSUME IInv, NEW t \in Threads, Flag(t)
  PROVE  IInv'
<1> USE DEF mountUnchanged, driveVars, macVars, counters
<1>1. TypeOK /\ Handle /\ MainSees /\ Known /\ Locking
  BY DEF IInv
<1>2. Back(t) \in {"flagged", "run"}
  BY DEF Back
<1>3. /\ pc[t] = "flag" /\ pc' \in [Threads -> Labels]
      /\ pc'["main"] = IF t = "main" THEN Back(t) ELSE pc["main"]
      /\ pc'["cpu"] = IF t = "cpu" THEN Back(t) ELSE pc["cpu"]
  BY <1>1, <1>2, GotoValues DEF Flag, Labels
<1>4. /\ to_be_mounted' = TRUE
      /\ UNCHANGED <<medium, h, locked, refused, is_media_present, opened, dsDiskInPlace, toc,
                     start_byte, seen>>
      /\ mountUnchanged
  BY DEF Flag
<1>5. TypeOK'
  BY <1>1, <1>3, <1>4 DEF TypeOK, Labels
<1>6. Handle' /\ MainSees'
  BY <1>1, <1>2, <1>3, <1>4 DEF Handle, MainSees, Threads
<1>7. Known'
  BY <1>1, <1>2, <1>3, <1>4
     DEF Known, Stays, HandleLost, MainWillPlace, MainWillLock, Searching, Threads
<1>8. Locking'
  BY <1>1, <1>2, <1>3, <1>4
     DEF Locking, Stays, HandleLost, Placing, MainWillLock, CpuWillLock, Unlocking, Threads
<1>9. QED
  BY <1>5, <1>6, <1>7, <1>8 DEF IInv

-----------------------------------------------------------------------------
(* The drivers.                                                            *)

LEMMA OpenStep ==
  ASSUME IInv, Open
  PROVE  IInv'
<1> USE DEF cpuUnchanged, driveVars, infoVars, macVars, counters
<1>1. TypeOK /\ Handle /\ MainSees /\ Known /\ Locking
  BY DEF IInv
<1>2. /\ pc["cpu"] = "run" /\ pc' \in [Threads -> Labels]
      /\ pc'["cpu"] = "install" /\ pc'["main"] = pc["main"]
  BY <1>1, GotoValues DEF Open, Labels, Threads
<1>3. /\ to_be_mounted' = FALSE /\ acc_run_called' = FALSE
      /\ UNCHANGED <<driveVars, is_media_present, opened, dsDiskInPlace, toc, start_byte, seen,
                     checking, macVars, ejects, restarts>>
      /\ cpuUnchanged
  BY DEF Open
<1>4. TypeOK'
  BY <1>1, <1>2, <1>3 DEF TypeOK, Labels, Threads
<1>5. Handle' /\ MainSees'
  BY <1>1, <1>2, <1>3 DEF Handle, MainSees, Threads
<1>6. Known'
  BY <1>1, <1>2, <1>3
     DEF Known, Stays, HandleLost, Handle, MainWillPlace, MainWillLock, Searching, Threads
<1>7. Locking'
  BY <1>1, <1>2, <1>3
     DEF Locking, Stays, HandleLost, Handle, Placing, MainWillLock, CpuWillLock, Unlocking, Threads
<1>8. QED
  BY <1>4, <1>5, <1>6, <1>7 DEF IInv

LEMMA InstallStep ==
  ASSUME IInv, Install
  PROVE  IInv'
<1> USE DEF cpuUnchanged, driveVars, macVars, counters
<1>1. TypeOK /\ Handle /\ MainSees /\ Known /\ Locking
  BY DEF IInv
<1>2. /\ pc' \in [Threads -> Labels] /\ pc'["main"] = pc["main"]
      /\ driver = "cdrom" => pc'["cpu"] = "inserted"
  <2>1. Goto("cpu", IF driver = "disk" THEN "run" ELSE "inserted")
    BY DEF Install
  <2>2. (IF driver = "disk" THEN "run" ELSE "inserted") \in Labels
    BY DEF Labels
  <2>3. QED
    BY <1>1, <2>1, <2>2, GotoValues DEF Threads
<1>3. /\ opened' = TRUE /\ dsDiskInPlace' = (IF driver = "disk" THEN 8 ELSE 0)
      /\ to_be_mounted' \in BOOLEAN
      /\ UNCHANGED <<driveVars, is_media_present, acc_run_called, toc, start_byte, seen, checking,
                     macVars, ejects, restarts>>
      /\ cpuUnchanged
  BY <1>1 DEF Install, TypeOK
<1>4. TypeOK'
  BY <1>1, <1>2, <1>3 DEF TypeOK, Labels
<1>5. Handle' /\ MainSees'
  BY <1>1, <1>2, <1>3 DEF Handle, MainSees
<1>6. Known' /\ Locking'
  BY <1>2, <1>3 DEF Known, Locking, Stays, HandleLost, CpuWillLock
<1>7. QED
  BY <1>4, <1>5, <1>6 DEF IInv

LEMMA StartCheckStep ==
  ASSUME IInv, StartCheck
  PROVE  IInv'
<1> USE DEF cpuUnchanged, driveVars, infoVars, macVars, counters
<1>1. TypeOK /\ Handle /\ MainSees /\ Known /\ Locking
  BY DEF IInv
<1>2. /\ pc["cpu"] = "run" /\ pc' \in [Threads -> Labels]
      /\ pc'["cpu"] \in {"check", "flagged"} /\ pc'["main"] = pc["main"]
  BY <1>1 DEF StartCheck, Goto, TypeOK, Labels, Threads
<1>3. /\ checking' = TRUE
      /\ UNCHANGED <<driveVars, is_media_present, infoVars, acc_run_called, seen, macVars, ejects,
                     restarts>>
      /\ cpuUnchanged
  BY DEF StartCheck
<1>4. TypeOK'
  BY <1>1, <1>2, <1>3 DEF TypeOK, Labels, Threads
<1>5. Handle' /\ MainSees'
  BY <1>1, <1>2, <1>3 DEF Handle, MainSees, Threads
<1>6. Known'
  BY <1>1, <1>2, <1>3
     DEF Known, Stays, HandleLost, Handle, MainWillPlace, MainWillLock, Searching, Threads
<1>7. Locking'
  BY <1>1, <1>2, <1>3
     DEF Locking, Stays, HandleLost, Handle, Placing, MainWillLock, CpuWillLock, Unlocking, Threads
<1>8. QED
  BY <1>4, <1>5, <1>6, <1>7 DEF IInv

LEMMA CheckStep ==
  ASSUME IInv, Check
  PROVE  IInv'
<1> USE DEF cpuUnchanged, driveVars, infoVars, macVars, counters
<1>1. TypeOK /\ Handle /\ MainSees /\ Known /\ Locking
  BY DEF IInv
<1>2. UNCHANGED <<driveVars, infoVars, acc_run_called, checking, macVars, ejects, restarts>>
      /\ cpuUnchanged
  BY DEF Check
<1>3. /\ pc' \in [Threads -> Labels] /\ pc'["main"] = pc["main"]
      /\ pc["cpu"] \in {"check", "checked"} /\ pc'["cpu"] \in {"checked", "inserted", "flagged"}
      /\ seen' \in [Threads -> BOOLEAN] /\ seen'["main"] = seen["main"]
      /\ is_media_present' \in BOOLEAN
  <2>1. CASE AskDrive("cpu", "check", "checked")
    <3>1. "cpu" \in Threads /\ "main" \in Threads /\ "checked" \in Labels
      BY DEF Threads, Labels
    <3>2. /\ pc["cpu"] = "check" /\ is_media_present' = is_media_present
          /\ seen' \in [Threads -> BOOLEAN] /\ pc' \in [Threads -> Labels]
          /\ pc'["main"] = pc["main"] /\ pc'["cpu"] = "checked" /\ seen'["main"] = seen["main"]
      BY <1>1, <2>1, <3>1, AskValues
    <3>3. is_media_present \in BOOLEAN
      BY <1>1 DEF TypeOK
    <3>4. QED
      BY <3>2, <3>3
  <2>2. CASE Answer("cpu", "checked", "inserted", "flagged")
    <3>1. "cpu" \in Threads /\ "inserted" \in Labels /\ "flagged" \in Labels
      BY DEF Threads, Labels
    <3>2. /\ pc["cpu"] = "checked" /\ seen["cpu"] \in BOOLEAN
          /\ is_media_present' = seen["cpu"] /\ seen' = seen /\ pc' \in [Threads -> Labels]
          /\ pc'["main"] = pc["main"]
          /\ pc'["cpu"] = IF seen["cpu"] THEN "inserted" ELSE "flagged"
      BY <1>1, <2>2, <3>1, AnswerValues
    <3>3. seen \in [Threads -> BOOLEAN]
      BY <1>1 DEF TypeOK
    <3>4. QED
      BY <3>2, <3>3
  <2>3. CASE FixedDisk("cpu", "check", "inserted")
    BY <1>1, <2>3, GotoValues DEF FixedDisk, Labels, Threads, TypeOK
  <2>4. QED
    BY <2>1, <2>2, <2>3 DEF Check
<1>4. TypeOK'
  BY <1>1, <1>2, <1>3 DEF TypeOK, Labels
<1>5. Handle' /\ MainSees'
  BY <1>1, <1>2, <1>3 DEF Handle, MainSees
<1>6. Known'
  BY <1>1, <1>2, <1>3 DEF Known, Stays, HandleLost, MainWillPlace, MainWillLock, Searching
<1>7. Locking'
  BY <1>1, <1>2, <1>3
     DEF Locking, Stays, HandleLost, Placing, MainWillLock, CpuWillLock, Unlocking
<1>8. QED
  BY <1>4, <1>5, <1>6, <1>7 DEF IInv

LEMMA PostEventStep ==
  ASSUME IInv, PostEvent
  PROVE  IInv'
<1> USE DEF cpuUnchanged, driveVars, infoVars, macVars, counters
<1>1. TypeOK /\ Handle /\ MainSees /\ Known /\ Locking
  BY DEF IInv
<1>2. /\ pc["cpu"] = "flagged" /\ pc' \in [Threads -> Labels]
      /\ pc'["cpu"] = "posted" /\ pc'["main"] = pc["main"]
  BY <1>1, GotoValues DEF PostEvent, Labels, Threads
<1>3. /\ event' = TRUE
      /\ UNCHANGED <<driveVars, is_media_present, infoVars, acc_run_called, seen, checking, told,
                     allowed, ejects, restarts>>
      /\ cpuUnchanged
  BY DEF PostEvent
<1>4. TypeOK'
  BY <1>1, <1>2, <1>3 DEF TypeOK, Labels, Threads
<1>5. Handle' /\ MainSees'
  BY <1>1, <1>2, <1>3 DEF Handle, MainSees, Threads
<1>6. Known'
  BY <1>1, <1>2, <1>3
     DEF Known, Stays, HandleLost, Handle, MainWillPlace, MainWillLock, Searching, Threads
<1>7. Locking'
  BY <1>1, <1>2, <1>3
     DEF Locking, Stays, HandleLost, Handle, Placing, MainWillLock, CpuWillLock, Unlocking, Threads
<1>8. QED
  BY <1>4, <1>5, <1>6, <1>7 DEF IInv

LEMMA EndCheckStep ==
  ASSUME IInv, EndCheck
  PROVE  IInv'
<1> USE DEF cpuUnchanged, driveVars, infoVars, macVars, counters
<1>1. TypeOK /\ Handle /\ MainSees /\ Known /\ Locking
  BY DEF IInv
<1>2. /\ pc["cpu"] \in {"flagged", "posted"} /\ pc' \in [Threads -> Labels]
      /\ pc'["cpu"] = "run" /\ pc'["main"] = pc["main"]
  BY <1>1, GotoValues DEF EndCheck, Labels, Threads
<1>3. /\ to_be_mounted' = FALSE /\ acc_run_called' = TRUE /\ checking' = FALSE
      /\ UNCHANGED <<driveVars, is_media_present, opened, dsDiskInPlace, toc, start_byte, seen,
                     macVars, ejects, restarts>>
      /\ cpuUnchanged
  BY DEF EndCheck
<1>4. TypeOK'
  BY <1>1, <1>2, <1>3 DEF TypeOK, Labels, Threads
<1>5. Handle' /\ MainSees'
  BY <1>1, <1>2, <1>3 DEF Handle, MainSees, Threads
<1>6. Known'
  BY <1>1, <1>2, <1>3
     DEF Known, Stays, HandleLost, Handle, MainWillPlace, MainWillLock, Searching, Threads
<1>7. Locking'
  BY <1>1, <1>2, <1>3
     DEF Locking, Stays, HandleLost, Handle, Placing, MainWillLock, CpuWillLock, Unlocking, Threads
<1>8. QED
  BY <1>4, <1>5, <1>6, <1>7 DEF IInv

LEMMA PrimeStep ==
  ASSUME IInv, Prime
  PROVE  IInv'
<1> USE DEF cpuUnchanged, driveVars, infoVars, macVars, counters
<1>1. TypeOK /\ Handle /\ MainSees /\ Known /\ Locking
  BY DEF IInv
<1>2. pc' = pc /\ pc["cpu"] = "run"
  BY DEF Prime
<1>3. /\ event' = FALSE /\ dsDiskInPlace' \in {dsDiskInPlace, 2}
      /\ driver # "sony" => dsDiskInPlace' = dsDiskInPlace
      /\ told' \in {medium, told} /\ is_media_present' \in BOOLEAN
      /\ UNCHANGED <<driveVars, opened, to_be_mounted, toc,
                     start_byte, acc_run_called, seen, checking, allowed, ejects, restarts>>
      /\ cpuUnchanged
  BY <1>1 DEF Prime, ReadFails, Readable, TypeOK
<1>4. TypeOK'
  BY <1>1, <1>2, <1>3 DEF TypeOK, Labels, Threads
<1>5. Handle' /\ MainSees'
  BY <1>1, <1>2, <1>3 DEF Handle, MainSees, Threads
<1>6. Known'
  BY <1>1, <1>2, <1>3
     DEF Known, Stays, HandleLost, Handle, MainWillPlace, MainWillLock, Searching, Threads
<1>7. Locking'
  BY <1>1, <1>2, <1>3
     DEF Locking, Stays, HandleLost, Handle, Placing, MainWillLock, CpuWillLock, Unlocking, Threads
<1>8. QED
  BY <1>4, <1>5, <1>6, <1>7 DEF IInv

LEMMA EjectStep ==
  ASSUME IInv, Eject
  PROVE  IInv'
<1> USE DEF cpuUnchanged, driveVars, infoVars, macVars, counters
<1>1. TypeOK /\ Handle /\ MainSees /\ Known /\ Locking
  BY DEF IInv
<1>2. /\ pc["cpu"] = "run" /\ pc' \in [Threads -> Labels] /\ pc'["main"] = pc["main"]
      /\ driver = "cdrom" => pc'["cpu"] = "eject"
  BY <1>1, GotoValues DEF Eject, Labels, Threads, TypeOK
<1>3. /\ ejects' \in 0 .. MaxEjects /\ told' = 0 /\ allowed' = FALSE /\ event' \in BOOLEAN
      /\ locked' \in BOOLEAN
      /\ UNCHANGED <<medium, h, refused, is_media_present, dsDiskInPlace, to_be_mounted>>
      /\ UNCHANGED <<toc, start_byte, opened, acc_run_called, checking, seen, restarts>>
      /\ cpuUnchanged
  <2>1. /\ locked \in BOOLEAN /\ event \in BOOLEAN /\ ejects \in 0 .. MaxEjects
    BY <1>1 DEF TypeOK
  <2>2. ejects < MaxEjects /\ ejects' = ejects + 1
    BY DEF Eject
  <2>3. ejects' \in 0 .. MaxEjects
    BY <2>1, <2>2
  <2>4. locked' \in BOOLEAN /\ event' \in BOOLEAN
    BY <2>1 DEF Eject
  <2>5. QED
    BY <2>3, <2>4 DEF Eject, ejectUnchanged
<1>4. TypeOK'
  BY <1>1, <1>2, <1>3 DEF TypeOK, Labels, Threads
<1>5. Handle' /\ MainSees'
  BY <1>1, <1>2, <1>3 DEF Handle, MainSees, Threads
<1>6. Known'
  BY <1>1, <1>2, <1>3
     DEF Known, Stays, HandleLost, Handle, MainWillPlace, MainWillLock, Searching, Threads
<1>7. Locking'
  BY <1>1, <1>2, <1>3
     DEF Locking, Stays, HandleLost, Handle, Placing, MainWillLock, CpuWillLock, Unlocking, Threads
<1>8. QED
  BY <1>4, <1>5, <1>6, <1>7 DEF IInv

LEMMA SysEjectStep ==
  ASSUME IInv, SysEject
  PROVE  IInv'
<1> USE DEF cpuUnchanged, driveVars, infoVars, macVars, counters
<1>1. TypeOK /\ Handle /\ MainSees /\ Known /\ Locking
  BY DEF IInv
<1>2. /\ pc["cpu"] = "eject" /\ pc' \in [Threads -> Labels] /\ pc'["main"] = pc["main"]
      /\ driver = "cdrom" => pc'["cpu"] = "ejecting"
  BY <1>1 DEF SysEject, Goto, Labels, Threads, TypeOK
<1>3. /\ is_media_present' \in BOOLEAN /\ locked' \in BOOLEAN
      /\ UNCHANGED <<medium, h, refused, dsDiskInPlace, to_be_mounted, macVars, ejects>>
      /\ UNCHANGED <<toc, start_byte, opened, acc_run_called, checking, seen, restarts>>
      /\ cpuUnchanged
  BY <1>1 DEF SysEject, ejectUnchanged, TypeOK
<1>4. TypeOK'
  BY <1>1, <1>2, <1>3 DEF TypeOK, Labels, Threads
<1>5. Handle' /\ MainSees'
  BY <1>1, <1>2, <1>3 DEF Handle, MainSees, Threads
<1>6. Known'
  BY <1>1, <1>2, <1>3
     DEF Known, Stays, HandleLost, Handle, MainWillPlace, MainWillLock, Searching, Threads
<1>7. Locking'
  BY <1>1, <1>2, <1>3
     DEF Locking, Stays, HandleLost, Handle, Placing, MainWillLock, CpuWillLock, Unlocking, Threads
<1>8. QED
  BY <1>4, <1>5, <1>6, <1>7 DEF IInv

LEMMA LetGoStep ==
  ASSUME IInv, LetGo
  PROVE  IInv'
<1> USE DEF cpuUnchanged, driveVars, infoVars, macVars, counters
<1>1. TypeOK /\ Handle /\ MainSees /\ Known /\ Locking
  BY DEF IInv
<1>2. /\ pc["cpu"] = "ejecting" /\ pc' \in [Threads -> Labels]
      /\ pc'["cpu"] = "ejected" /\ pc'["main"] = pc["main"]
  BY <1>1, GotoValues DEF LetGo, Labels, Threads
<1>3. /\ refused' = (medium' # 0 /\ h /\ ~ locked)
      /\ medium' = 0 \/ medium' = medium
      /\ UNCHANGED <<h, locked, is_media_present, dsDiskInPlace, to_be_mounted, macVars, ejects>>
      /\ UNCHANGED <<toc, start_byte, opened, acc_run_called, checking, seen, restarts>>
      /\ cpuUnchanged
  BY DEF LetGo, ejectUnchanged
<1>4. TypeOK'
  BY <1>1, <1>2, <1>3 DEF TypeOK, Labels, Threads
<1>5. Handle' /\ MainSees'
  BY <1>1, <1>2, <1>3 DEF Handle, MainSees, Threads
<1>6. Known'
  BY <1>1, <1>2, <1>3
     DEF Known, Stays, HandleLost, Handle, MainWillPlace, MainWillLock, Searching, Threads
<1>7. Locking'
  BY <1>1, <1>2, <1>3
     DEF Locking, Stays, HandleLost, Handle, Placing, MainWillLock, CpuWillLock, Unlocking, Threads
<1>8. QED
  BY <1>4, <1>5, <1>6, <1>7 DEF IInv

LEMMA EjectedStep ==
  ASSUME IInv, Ejected
  PROVE  IInv'
<1> USE DEF cpuUnchanged, driveVars, infoVars, macVars, counters
<1>1. TypeOK /\ Handle /\ MainSees /\ Known /\ Locking
  BY DEF IInv
<1>2. /\ pc["cpu"] = "ejected" /\ pc' \in [Threads -> Labels]
      /\ pc'["cpu"] = "run" /\ pc'["main"] = pc["main"]
  BY <1>1, GotoValues DEF Ejected, Labels, Threads
<1>3. /\ dsDiskInPlace' = 0
      /\ UNCHANGED <<driveVars, is_media_present, to_be_mounted, macVars, ejects>>
      /\ UNCHANGED <<toc, start_byte, opened, acc_run_called, checking, seen, restarts>>
      /\ cpuUnchanged
  BY DEF Ejected, ejectUnchanged
<1>4. TypeOK'
  BY <1>1, <1>2, <1>3 DEF TypeOK, Labels, Threads
<1>5. Handle' /\ MainSees'
  BY <1>1, <1>2, <1>3 DEF Handle, MainSees, Threads
<1>6. Known'
  BY <1>1, <1>2, <1>3
     DEF Known, Stays, HandleLost, Handle, MainWillPlace, MainWillLock, Searching, Threads
<1>7. Locking'
  BY <1>1, <1>2, <1>3
     DEF Locking, Stays, HandleLost, Handle, Placing, MainWillLock, CpuWillLock, Unlocking, Threads
<1>8. QED
  BY <1>4, <1>5, <1>6, <1>7 DEF IInv

LEMMA SetUserEjectStep ==
  ASSUME IInv, SetUserEject
  PROVE  IInv'
<1> USE DEF cpuUnchanged, driveVars, infoVars, macVars, counters
<1>1. TypeOK /\ Handle /\ MainSees /\ Known /\ Locking
  BY DEF IInv
<1>2. pc' = pc /\ pc["cpu"] = "run"
  BY DEF SetUserEject
<1>3. /\ allowed' \in BOOLEAN /\ locked' \in BOOLEAN
      /\ allowed' \/ locked' \/ ~ h
      /\ refused' \in BOOLEAN /\ (~ locked' => refused' = refused)
      /\ UNCHANGED <<medium, h, is_media_present, infoVars, acc_run_called, seen, checking, event,
                     told, ejects, restarts>>
      /\ cpuUnchanged
  BY <1>1 DEF SetUserEject, TypeOK
<1>4. TypeOK'
  BY <1>1, <1>2, <1>3 DEF TypeOK, Labels, Threads
<1>5. Handle' /\ MainSees'
  BY <1>1, <1>2, <1>3 DEF Handle, MainSees, Threads
<1>6. Known'
  BY <1>1, <1>2, <1>3
     DEF Known, Stays, HandleLost, Handle, MainWillPlace, MainWillLock, Searching, Threads
<1>7. Locking'
  BY <1>1, <1>2, <1>3
     DEF Locking, Stays, HandleLost, Handle, Placing, MainWillLock, CpuWillLock, Unlocking, Threads
<1>8. QED
  BY <1>4, <1>5, <1>6, <1>7 DEF IInv

LEMMA RestartStep ==
  ASSUME IInv, Restart
  PROVE  IInv'
<1> USE DEF cpuUnchanged, driveVars, infoVars, macVars, counters
<1>1. TypeOK /\ Handle /\ MainSees /\ Known /\ Locking
  BY DEF IInv
<1>2. pc' = pc /\ pc["cpu"] = "run"
  BY DEF Restart
<1>3. /\ restarts' \in 0 .. MaxRestarts /\ opened' = FALSE /\ dsDiskInPlace' = 0
      /\ event' = FALSE /\ told' = 0 /\ allowed' = FALSE
      /\ UNCHANGED <<driveVars, is_media_present, to_be_mounted, toc, start_byte, acc_run_called,
                     seen, checking, ejects>>
      /\ cpuUnchanged
  BY <1>1 DEF Restart, TypeOK
<1>4. TypeOK'
  BY <1>1, <1>2, <1>3 DEF TypeOK, Labels, Threads
<1>5. Handle' /\ MainSees'
  BY <1>1, <1>2, <1>3 DEF Handle, MainSees, Threads
<1>6. Known'
  BY <1>1, <1>2, <1>3
     DEF Known, Stays, HandleLost, Handle, MainWillPlace, MainWillLock, Searching, Threads
<1>7. Locking'
  BY <1>1, <1>2, <1>3
     DEF Locking, Stays, HandleLost, Handle, Placing, MainWillLock, CpuWillLock, Unlocking, Threads
<1>8. QED
  BY <1>4, <1>5, <1>6, <1>7 DEF IInv

-----------------------------------------------------------------------------
(* The window thread and the user.                                         *)

LEMMA StartMountStep ==
  ASSUME IInv, StartMount
  PROVE  IInv'
<1> USE DEF mainUnchanged, driveVars, infoVars, macVars, counters
<1>1. TypeOK /\ Handle /\ MainSees /\ Known /\ Locking
  BY DEF IInv
<1>2. /\ pc["main"] = "run" /\ pc' \in [Threads -> Labels] /\ pc'["cpu"] = pc["cpu"]
      /\ pc'["main"] = IF removable THEN "reopen" ELSE "inserted"
  BY <1>1 DEF StartMount, Goto, Labels, Threads, TypeOK
<1>3. /\ h' = (h /\ ~ removable) /\ locked' = (locked /\ ~ removable)
      /\ arrived' \in BOOLEAN /\ keys' \in 0 .. MaxKeys
      /\ removable \/ arrived' = arrived
      /\ UNCHANGED <<medium, refused, is_media_present, seen>>
      /\ mainUnchanged
  <2>1. h \in BOOLEAN /\ locked \in BOOLEAN /\ arrived \in BOOLEAN /\ keys \in 0 .. MaxKeys
    BY <1>1 DEF TypeOK
  <2>2. h' = (h /\ ~ removable) /\ locked' = (locked /\ ~ removable)
    BY <2>1 DEF StartMount, removable
  <2>3. arrived' \in BOOLEAN /\ (removable \/ arrived' = arrived)
    BY <2>1 DEF StartMount
  <2>4. keys' = keys \/ (keys < MaxKeys /\ keys' = keys + 1)
    BY DEF StartMount
  <2>5. keys' \in 0 .. MaxKeys
    BY <2>1, <2>4
  <2>6. QED
    BY <2>2, <2>3, <2>5 DEF StartMount
<1>4. TypeOK'
  BY <1>1, <1>2, <1>3 DEF TypeOK, Labels, Threads
<1>5. Handle' /\ MainSees'
  BY <1>1, <1>2, <1>3 DEF Handle, MainSees, removable, Threads
<1>6. Known'
  BY <1>1, <1>2, <1>3
     DEF Known, Stays, HandleLost, Handle, MainWillPlace, MainWillLock, Searching, Threads
<1>7. Locking'
  BY <1>1, <1>2, <1>3
     DEF Locking, Stays, HandleLost, Handle, Placing, MainWillLock, CpuWillLock, Unlocking, Threads
<1>8. QED
  BY <1>4, <1>5, <1>6, <1>7 DEF IInv

LEMMA ReopenStep ==
  ASSUME IInv, Reopen
  PROVE  IInv'
<1> USE DEF mainUnchanged, driveVars, infoVars, macVars, counters
<1>1. TypeOK /\ Handle /\ MainSees /\ Known /\ Locking
  BY DEF IInv
<1>2. /\ pc["main"] = "reopen" /\ pc' \in [Threads -> Labels] /\ pc'["cpu"] = pc["cpu"]
      /\ pc'["main"] = IF h' THEN "probed" ELSE "run"
  <2>1. pc["main"] = "reopen" /\ ~ h
    BY <1>1 DEF Reopen, Handle
  <2>2. \/ h' = TRUE /\ Goto("main", "probed")
        \/ h' = FALSE /\ Goto("main", "run")
    BY <1>1, <2>1 DEF Reopen, TypeOK
  <2>3. "probed" \in Labels /\ "run" \in Labels /\ "main" \in Threads /\ "cpu" \in Threads
    BY DEF Labels, Threads
  <2>4. QED
    BY <1>1, <2>1, <2>2, <2>3, GotoValues
<1>3. /\ seen' \in [Threads -> BOOLEAN] /\ seen'["cpu"] = seen["cpu"]
      /\ h' => seen'["main"] = (medium # 0)
  <2>1. ~ h
    BY <1>1 DEF Reopen, Handle
  <2>2. QED
    BY <1>1, <2>1 DEF Reopen, TypeOK, Threads
<1>4. /\ h' \in BOOLEAN /\ is_media_present' \in BOOLEAN
      /\ UNCHANGED <<medium, locked, refused, arrived, keys>>
      /\ mainUnchanged
  BY <1>1 DEF Reopen, TypeOK
<1>5. TypeOK'
  BY <1>1, <1>2, <1>3, <1>4 DEF TypeOK, Labels, Threads
<1>6. Handle' /\ MainSees'
  BY <1>1, <1>2, <1>3, <1>4 DEF Handle, MainSees, Threads
<1>7. Known'
  BY <1>1, <1>2, <1>3, <1>4
     DEF Known, Stays, HandleLost, Handle, MainWillPlace, MainWillLock, Searching, Threads
<1>8. Locking'
  BY <1>1, <1>2, <1>3, <1>4
     DEF Locking, Stays, HandleLost, Handle, Placing, MainWillLock, CpuWillLock, Unlocking, Threads
<1>9. QED
  BY <1>5, <1>6, <1>7, <1>8 DEF IInv

LEMMA ProbedStep ==
  ASSUME IInv, Probed
  PROVE  IInv'
<1> USE DEF mainUnchanged, driveVars, infoVars, macVars, counters
<1>1. TypeOK /\ Handle /\ MainSees /\ Known /\ Locking
  BY DEF IInv
<1>2. /\ pc["main"] = "probed" /\ pc' \in [Threads -> Labels] /\ pc'["cpu"] = pc["cpu"]
      /\ pc'["main"] = IF seen["main"] THEN "inserted" ELSE "run"
  BY <1>1 DEF Probed, Goto, Labels, Threads, TypeOK
<1>3. /\ is_media_present' \in BOOLEAN
      /\ UNCHANGED <<driveVars, seen, arrived, keys>>
      /\ mainUnchanged
  BY <1>1 DEF Probed, TypeOK, Threads
<1>4. TypeOK'
  BY <1>1, <1>2, <1>3 DEF TypeOK, Labels, Threads
<1>5. Handle' /\ MainSees'
  BY <1>1, <1>2, <1>3 DEF Handle, MainSees, Threads
<1>6. Known'
  BY <1>1, <1>2, <1>3
     DEF Known, Stays, HandleLost, MainSees, MainWillPlace, MainWillLock, Searching, Threads
<1>7. Locking'
  BY <1>1, <1>2, <1>3
     DEF Locking, Stays, HandleLost, MainSees, Placing, MainWillLock, CpuWillLock, Unlocking, Threads
<1>8. QED
  BY <1>4, <1>5, <1>6, <1>7 DEF IInv

LEMMA InsertStep ==
  ASSUME IInv, Insert
  PROVE  IInv'
<1> USE DEF userUnchanged, infoVars, macVars
<1>1. TypeOK /\ Handle /\ MainSees /\ Known /\ Locking
  BY DEF IInv
<1>2. medium' \in Discs /\ inserts' \in 0 .. MaxInserts /\ arrived' = TRUE
  BY <1>1 DEF Insert, TypeOK, Discs
<1>3. pc' = pc /\ userUnchanged
  BY DEF Insert
<1>4. TypeOK'
  BY <1>1, <1>2, <1>3 DEF TypeOK, Labels, Threads
<1>5. Handle' /\ MainSees'
  BY <1>1, <1>2, <1>3 DEF Handle, MainSees, Threads
<1>6. Known' /\ Locking'
  BY <1>2 DEF Known, Locking, Stays, HandleLost
<1>7. QED
  BY <1>4, <1>5, <1>6 DEF IInv

LEMMA TakeOutStep ==
  ASSUME IInv, TakeOut
  PROVE  IInv'
<1> USE DEF userUnchanged, infoVars, macVars
<1>1. TypeOK /\ Handle /\ MainSees /\ Known /\ Locking
  BY DEF IInv
<1>2. medium' = 0 /\ pc' = pc /\ userUnchanged /\ UNCHANGED <<arrived, inserts>>
  BY DEF TakeOut
<1>3. TypeOK'
  BY <1>1, <1>2 DEF TypeOK, Labels, Threads
<1>4. Handle' /\ MainSees'
  BY <1>1, <1>2 DEF Handle, MainSees, Threads
<1>5. Known'
  BY <1>1, <1>2
     DEF Known, Stays, HandleLost, Handle, MainWillPlace, MainWillLock, Searching, Threads
<1>6. Locking'
  BY <1>1, <1>2
     DEF Locking, Stays, HandleLost, Handle, Placing, MainWillLock, CpuWillLock, Unlocking, Threads
<1>7. QED
  BY <1>3, <1>4, <1>5, <1>6 DEF IInv

-----------------------------------------------------------------------------
(* The theorems.                                                           *)

LEMMA MountStep ==
  ASSUME IInv, NEW t \in Threads, MountVolume(t)
  PROVE  IInv'
BY InsertedStep, LockStep, PlaceStep, SearchStep, FlagStep DEF MountVolume

LEMMA NextInv == IInv /\ [Next]_vars => IInv'
<1> SUFFICES ASSUME IInv, [Next]_vars
             PROVE  IInv'
  OBVIOUS
<1>1. CASE CpuMount
  BY <1>1, MountStep DEF CpuMount, Threads
<1>2. CASE MainMount
  BY <1>2, MountStep DEF MainMount, Threads
<1>3. CASE mount_mountable_volumes
  BY <1>3, StartCheckStep, CheckStep, PostEventStep, EndCheckStep DEF mount_mountable_volumes
<1>4. CASE mount_removable_media
  BY <1>4, StartMountStep, ReopenStep, ProbedStep DEF mount_removable_media
<1>5. CASE UNCHANGED vars
  <2>1. TypeOK'
    BY <1>5 DEF IInv, TypeOK, vars, driveVars, infoVars, macVars, counters
  <2>2. Handle' /\ MainSees' /\ Known'
    BY <1>5 DEF IInv, Handle, MainSees, Known, Stays, HandleLost, MainWillPlace, MainWillLock, Searching,
                vars, driveVars, infoVars, macVars, counters
  <2>3. Locking'
    BY <1>5 DEF IInv, Locking, Stays, HandleLost, Placing, MainWillLock, CpuWillLock, Unlocking,
                vars, driveVars, infoVars, macVars, counters
  <2>4. QED
    BY <2>1, <2>2, <2>3 DEF IInv
<1>6. QED
  BY <1>1, <1>2, <1>3, <1>4, <1>5, OpenStep, InstallStep, PrimeStep, EjectStep, SysEjectStep,
     LetGoStep, EjectedStep, SetUserEjectStep, RestartStep, InsertStep, TakeOutStep DEF Next

\* The inductive invariant of the drive and of the two threads that mount.
THEOREM Invariance == Spec => []IInv
  BY InitInv, NextInv, PTL DEF Spec

\* The variables of the drive and the places of the two threads keep their types.
THEOREM TypeCorrect == Spec => []TypeOK
<1>1. IInv => TypeOK
  BY DEF IInv
<1>2. QED
  BY <1>1, Invariance, PTL

\* The user cannot take a disc that the Mac uses out of a CD-ROM drive, although
\* mount_removable_media closes the handle that holds the lock.
THEOREM TrayIsLockedHolds == Spec => []TrayIsLocked
<1>1. IInv => TrayIsLocked
  BY DEF IInv, Locking, Stays, HandleLost, MainWillLock, CpuWillLock, Unlocking, TrayIsLocked, AtRest, Threads
<1>2. QED
  BY <1>1, Invariance, PTL

\* When nothing is under way, table of contents and partition are of the disc in
\* the drive, although CDROMMountVolume may run on both threads at once.
THEOREM DiscIsKnownHolds == Spec => []DiscIsKnown
<1>1. IInv => DiscIsKnown
  BY DEF IInv, Known, Stays, HandleLost, MainWillPlace, MainWillLock, Searching, DiscIsKnown, AtRest, Threads
<1>2. QED
  BY <1>1, Invariance, PTL

HIDE BoundsAreNat

-----------------------------------------------------------------------------
(* SCSI.                                                                   *)

USE SizesArePositive, TibsAreWellFormed

-----------------------------------------------------------------------------
(* The inductive invariant.                                                *)

Entries == [ptr : Int, len : Nat]

\* The fields of a transaction have their types.
Fields ==
  /\ phase \in Phases
  /\ stage \in {"mac", "tib", "full", "exec", "done", "complete", "crashed"}
  /\ result \in {"none", "noErr", "scCommErr"}
  /\ reading \in BOOLEAN /\ retried \in {"no", "first", "late"}
  /\ sg \in Seq(Entries) /\ sg_total_length \in Nat
  /\ DOMAIN command = {"op", "wide", "lba", "count"} /\ command.wide \in BOOLEAN
  /\ DOMAIN split = {"todo", "done", "lba", "unit", "multi"}
  /\ request.cells \in Seq(Int)
  /\ DOMAIN request = {"op", "lba", "n", "cells", "disk", "mem"}
  /\ device.max_transfer \in Pieces /\ device.sector_size \in SectorSizes
  /\ disk = [l \in Sector |-> disk[l]]

\* Where the calls of the Mac have come to.
Calls ==
  /\ phase \in {"arbitrated", "selected"} =>
       stage = "mac" /\ ~ reading /\ sg_total_length = 0
  /\ phase = "transfer" => /\ request.op \in {"read", "write"}
                           /\ request.n \in Counts /\ request.lba \in Lbas
                           /\ reading => request.op = "read"
  /\ stage \in {"exec", "done"} => phase = "transfer"
  /\ stage \in {"tib", "full"} => phase = "transfer" /\ reading = (request.op = "read")
  /\ phase = "transfer" /\ sg_total_length # 0 => reading = (request.op = "read")
  /\ stage = "tib" => WellFormed(tib) /\ ip \in DOMAIN tib
  /\ stage = "complete" => phase = "free"

\* The table stands for the cells.
Table ==
  phase # "free" => Expanded = request.cells /\ sg_total_length = Len(request.cells)

\* Nothing has gone to the device yet.
Untouched ==
  phase # "free" /\ stage \in {"mac", "tib", "full"} =>
    /\ disk = request.disk /\ mem = request.mem /\ retried = "no"
    /\ phase = "transfer" =>
         /\ command.op = request.op /\ command.lba = request.lba
         /\ command.count = IF command.wide \/ request.n < Wide THEN request.n ELSE 0

\* The first split.done units have been transferred.
Halfway ==
  /\ split.unit = SectorBytes /\ split.done \in Nat /\ split.todo \in Nat
  /\ split.todo + split.done = request.n
  /\ split.lba = request.lba + split.done
  /\ split.multi = (request.n > device.max_transfer)
  /\ command.op = request.op
  /\ stage = "exec" => split.todo > 0
  /\ stage = "done" => split.todo = 0
  /\ stage = "exec" /\ ~ split.multi =>
       split.done = 0 /\ command.lba = request.lba /\ Blocks(command) = request.n
  /\ mem = request.mem

Read ==
  /\ disk = request.disk
  /\ DOMAIN buffer = 1 .. request.n
  /\ \A i \in 1 .. split.done : buffer[i] = request.disk[request.lba + i - 1]

Written ==
  /\ buffer = [i \in 1 .. request.n |-> request.mem[request.cells[i]]]
  /\ \A l \in Sector : disk[l] = IF l \in request.lba .. request.lba + split.done - 1
                                 THEN buffer[l - request.lba + 1]
                                 ELSE request.disk[l]

\* The TIBs and the pieces fit the command.
Fits == sg_total_length = request.n /\ ~ Spoilt

Transfer ==
  stage \in {"exec", "done"} =>
    /\ retried # "no" => command.wide
    /\ Fits => Halfway /\ (IF reading THEN Read ELSE Written)

ScsiInv ==
  Fields /\ Calls /\ Table /\ Untouched /\ Transfer /\ TransferIsRight

-----------------------------------------------------------------------------
(* Concatenation, by induction over the natural numbers: the least one for  *)
(* which a statement does not hold.                                         *)

\* g concatenates the first n of the sequences ss, one after the other.
Joins(g, ss, n) ==
  /\ DOMAIN g = 1 .. n
  /\ g = [i \in 1 .. n |-> IF i = 1 THEN ss[i] ELSE g[i - 1] \o ss[i]]

\* A set of natural numbers has a least element.
LEMMA Smallest ==
  ASSUME NEW S \in SUBSET Nat, S # {}
  PROVE  \E n \in S : \A m \in S : n <= m
<1>1. PICK n \in S : \A m \in S : ~ (<<m, n>> \in OpToRel(<, Nat))
  BY NatLessThanWellFounded, WFMin
<1>2. \A m \in S : m < n => <<m, n>> \in OpToRel(<, Nat)
  BY DEF OpToRel
<1>3. \A m \in S : m \in Nat
  OBVIOUS
<1>4. \A m \in S : n <= m
  <2> TAKE m \in S
  <2>1. ~ m < n
    BY <1>1, <1>2
  <2>2. QED
    BY <1>3, <2>1
<1>5. QED
  BY <1>4

\* Sequences can be joined one after the other.
LEMMA JoinsExist ==
  ASSUME NEW ss, NEW m \in Nat
  PROVE  \E g : Joins(g, ss, m)
<1> DEFINE Bad == {n \in Nat : ~ \E g : Joins(g, ss, n)}
<1> SUFFICES Bad = {}
  OBVIOUS
<1> SUFFICES ASSUME Bad # {} PROVE FALSE
  OBVIOUS
<1>1. PICK n \in Bad : \A k \in Bad : n <= k
  BY Smallest
<1>2. n # 0
  <2> SUFFICES ASSUME n = 0 PROVE FALSE
    OBVIOUS
  <2> DEFINE e == [i \in 1 .. 0 |-> 0]
  <2>1. e = [i \in 1 .. 0 |-> IF i = 1 THEN ss[i] ELSE e[i - 1] \o ss[i]]
    OBVIOUS
  <2>2. Joins(e, ss, 0)
    BY <2>1 DEF Joins
  <2>3. QED
    BY <1>1, <2>2
<1>3. PICK g : Joins(g, ss, n - 1)
  BY <1>1, <1>2
<1> DEFINE w == [i \in 1 .. n |-> IF i = n THEN IF n = 1 THEN ss[n] ELSE g[n - 1] \o ss[n] ELSE g[i]]
<1>4. \A i \in 1 .. n - 1 : g[i] = IF i = 1 THEN ss[i] ELSE g[i - 1] \o ss[i]
  BY <1>3 DEF Joins
<1>5. \A i \in 1 .. n : w[i] = IF i = 1 THEN ss[i] ELSE w[i - 1] \o ss[i]
  BY <1>4, <1>1, <1>2
<1>6. w = [i \in 1 .. n |-> IF i = 1 THEN ss[i] ELSE w[i - 1] \o ss[i]]
  BY <1>5
<1>7. Joins(w, ss, n)
  BY <1>6 DEF Joins
<1>8. QED
  BY <1>7, <1>1

\* What the first n sequences make does not depend on the others.
LEMMA JoinsAgree ==
  ASSUME NEW r, NEW s, NEW g, NEW w, NEW m \in Nat, NEW n \in Nat, m <= n,
         Joins(g, r, m), Joins(w, s, n), \A i \in 1 .. m : r[i] = s[i]
  PROVE  \A i \in 1 .. m : g[i] = w[i]
<1> DEFINE Bad == {i \in 1 .. m : g[i] # w[i]}
<1> SUFFICES ASSUME Bad # {} PROVE FALSE
  OBVIOUS
<1>1. Bad \in SUBSET Nat
  OBVIOUS
<1>2. PICK i \in Bad : \A k \in Bad : i <= k
  BY <1>1, Smallest
<1>3. i \in 1 .. m /\ i \in 1 .. n
  BY <1>2
<1>4. g[i] = IF i = 1 THEN r[i] ELSE g[i - 1] \o r[i]
  BY <1>3 DEF Joins
<1>5. w[i] = IF i = 1 THEN s[i] ELSE w[i - 1] \o s[i]
  BY <1>3 DEF Joins
<1>6. i # 1 => g[i - 1] = w[i - 1]
  BY <1>2, <1>3
<1>7. g[i] = w[i]
  BY <1>3, <1>4, <1>5, <1>6
<1>8. QED
  BY <1>2, <1>7

\* FlattenSeq joins them all.
LEMMA FlattenJoins ==
  ASSUME NEW ss, Len(ss) \in Nat, Len(ss) # 0
  PROVE  \E g : Joins(g, ss, Len(ss)) /\ FlattenSeq(ss) = g[Len(ss)]
<1> DEFINE P(g) == g = [i \in 1 .. Len(ss) |-> IF i = 1 THEN ss[i] ELSE g[i - 1] \o ss[i]]
<1>1. FlattenSeq(ss) = (CHOOSE g : P(g))[Len(ss)]
  BY DEF FlattenSeq
<1>2. \E g : P(g)
  <2>1. PICK g : Joins(g, ss, Len(ss))
    BY JoinsExist
  <2>2. P(g)
    BY <2>1 DEF Joins
  <2>3. QED
    BY <2>2
<1>3. P(CHOOSE g : P(g))
  BY <1>2
<1>4. Joins(CHOOSE g : P(g), ss, Len(ss))
  BY <1>3 DEF Joins
<1>5. QED
  BY <1>1, <1>4

\* Flattening one sequence, and one more.
LEMMA FlattenOne ==
  ASSUME NEW ss, Len(ss) = 1
  PROVE  FlattenSeq(ss) = ss[1]
<1>1. PICK g : Joins(g, ss, 1) /\ FlattenSeq(ss) = g[1]
  <2>1. Len(ss) \in Nat /\ Len(ss) # 0
    OBVIOUS
  <2>2. QED
    BY <2>1, FlattenJoins
<1>2. g = [i \in 1 .. 1 |-> IF i = 1 THEN ss[i] ELSE g[i - 1] \o ss[i]]
  BY <1>1 DEF Joins
<1>3. g[1] = ss[1]
  BY <1>2
<1>4. QED
  BY <1>1, <1>3

LEMMA FlattenLast ==
  ASSUME NEW r, NEW s, NEW n \in Nat \ {0}, Len(r) = n, Len(s) = n + 1,
         \A i \in 1 .. n : s[i] = r[i]
  PROVE  FlattenSeq(s) = FlattenSeq(r) \o s[n + 1]
<1>1. PICK g : Joins(g, r, n) /\ FlattenSeq(r) = g[n]
  BY FlattenJoins
<1>2. PICK w : Joins(w, s, n + 1) /\ FlattenSeq(s) = w[n + 1]
  BY FlattenJoins
<1>3. g[n] = w[n]
  BY <1>1, <1>2, JoinsAgree
<1>4. w[n + 1] = w[n] \o s[n + 1]
  <2>1. w = [i \in 1 .. n + 1 |-> IF i = 1 THEN s[i] ELSE w[i - 1] \o s[i]]
    BY <1>2 DEF Joins
  <2>2. n + 1 \in 1 .. n + 1 /\ n + 1 # 1 /\ (n + 1) - 1 = n
    OBVIOUS
  <2>3. QED
    BY <2>1, <2>2
<1>5. QED
  BY <1>1, <1>2, <1>3, <1>4

\* Flattening sequences over S gives one over S.
LEMMA FlattenType ==
  ASSUME NEW S, NEW ss, Len(ss) \in Nat, \A i \in 1 .. Len(ss) : ss[i] \in Seq(S), Len(ss) # 0
  PROVE  FlattenSeq(ss) \in Seq(S)
<1>1. PICK g : Joins(g, ss, Len(ss)) /\ FlattenSeq(ss) = g[Len(ss)]
  BY FlattenJoins
<1> DEFINE Bad == {i \in 1 .. Len(ss) : g[i] \notin Seq(S)}
<1>2. Bad = {}
  <2> SUFFICES ASSUME Bad # {} PROVE FALSE
    OBVIOUS
  <2>1. Bad \in SUBSET Nat
    OBVIOUS
  <2>2. PICK i \in Bad : \A k \in Bad : i <= k
    BY <2>1, Smallest
  <2>3. i \in 1 .. Len(ss) /\ ss[i] \in Seq(S)
    BY <2>2
  <2>4. g[i] = IF i = 1 THEN ss[i] ELSE g[i - 1] \o ss[i]
    BY <1>1, <2>3 DEF Joins
  <2>5. i # 1 => g[i - 1] \in Seq(S)
    BY <2>2, <2>3
  <2>6. i # 1 => g[i - 1] \o ss[i] \in Seq(S)
    BY <2>3, <2>5, ConcatProperties
  <2>7. g[i] \in Seq(S)
    BY <2>3, <2>4, <2>6
  <2>8. QED
    BY <2>2, <2>7
<1>3. QED
  BY <1>1, <1>2

-----------------------------------------------------------------------------
(* The table.                                                              *)

Spans(t) == [i \in DOMAIN t |-> Span(t[i].ptr, t[i].len)]

\* Joining lists of cells is associative.
LEMMA CellsAssociate == \A a, b, c \in Seq(Int) : (a \o b) \o c = a \o (b \o c)
BY ConcatAssociative, SMTT(60)

\* The cells the table stands for.
LEMMA ExpandedIs == Expanded = FlattenSeq(Spans(sg))
BY DEF Expanded, Spans

\* The cells of an entry.
LEMMA SpanType ==
  ASSUME NEW p \in Int, NEW l \in Nat
  PROVE  /\ Span(p, l) \in Seq(Int) /\ Len(Span(p, l)) = l
         /\ \A i \in 1 .. l : Span(p, l)[i] = p + i - 1
BY DEF Span

\* A longer entry stands for its cells and those behind them.
LEMMA SpanSum ==
  ASSUME NEW p \in Int, NEW l \in Nat, NEW m \in Nat
  PROVE  Span(p, l + m) = Span(p, l) \o Span(p + l, m)
<1> DEFINE a == Span(p, l)
           b == Span(p + l, m)
           c == Span(p, l + m)
<1>1. a \in Seq(Int) /\ Len(a) = l /\ \A i \in 1 .. l : a[i] = p + i - 1
  BY SpanType
<1>2. b \in Seq(Int) /\ Len(b) = m /\ \A i \in 1 .. m : b[i] = p + l + i - 1
  BY SpanType
<1>3. c \in Seq(Int) /\ Len(c) = l + m /\ \A i \in 1 .. l + m : c[i] = p + i - 1
  BY SpanType
<1> HIDE DEF a, b, c
<1>4. /\ a \o b \in Seq(Int) /\ Len(a \o b) = l + m
      /\ \A i \in 1 .. l + m : (a \o b)[i] = IF i <= l THEN a[i] ELSE b[i - l]
  <2>1. a \in Seq(Int) /\ b \in Seq(Int) /\ Len(a) = l /\ Len(b) = m
    BY <1>1, <1>2
  <2>2. QED
    BY <2>1, ConcatProperties
<1>5. ASSUME NEW i \in 1 .. l + m
      PROVE  (a \o b)[i] = c[i]
  <2>1. c[i] = p + i - 1
    BY <1>3
  <2>2. CASE i <= l
    <3>1. i \in 1 .. l
      BY <2>2
    <3>2. a[i] = p + i - 1
      BY <1>1, <3>1
    <3>3. QED
      BY <1>4, <2>1, <2>2, <3>2
  <2>3. CASE ~ i <= l
    <3>1. i - l \in 1 .. m /\ p + l + (i - l) - 1 = p + i - 1
      BY <2>3
    <3>2. b[i - l] = p + l + (i - l) - 1
      BY <1>2, <3>1
    <3>3. QED
      BY <1>4, <2>1, <2>3, <3>1, <3>2
  <2>4. QED
    BY <2>2, <2>3
<1>6. c = a \o b
  <2>1. \A s, t \in Seq(Int) : Len(s) = Len(t) /\ (\A i \in 1 .. Len(s) : s[i] = t[i]) => s = t
    BY SeqEqual, Zenon
  <2>2. c \in Seq(Int) /\ a \o b \in Seq(Int) /\ Len(c) = Len(a \o b)
    BY <1>3, <1>4
  <2>3. \A i \in 1 .. Len(c) : c[i] = (a \o b)[i]
    BY <1>3, <1>5
  <2>4. QED
    BY <2>1, <2>2, <2>3, Zenon
<1>7. QED
  BY <1>6 DEF a, b, c

\* The cells of every entry.
LEMMA SpansType ==
  ASSUME NEW t \in Seq(Entries)
  PROVE  /\ Len(Spans(t)) = Len(t) /\ Len(t) \in Nat
         /\ \A i \in 1 .. Len(t) : /\ t[i].ptr \in Int /\ t[i].len \in Nat
                                   /\ Spans(t)[i] = Span(t[i].ptr, t[i].len)
                                   /\ Spans(t)[i] \in Seq(Int)
<1>1. \A i \in 1 .. Len(t) : t[i].ptr \in Int /\ t[i].len \in Nat
  <2>1. \A i \in 1 .. Len(t) : t[i] \in Entries
    OBVIOUS
  <2>2. QED
    BY <2>1 DEF Entries
<1>2. DOMAIN t = 1 .. Len(t) /\ Len(t) \in Nat
  OBVIOUS
<1>3. \A i \in 1 .. Len(t) : Spans(t)[i] = Span(t[i].ptr, t[i].len)
  BY <1>2 DEF Spans
<1>4. \A i \in 1 .. Len(t) : Span(t[i].ptr, t[i].len) \in Seq(Int)
  BY <1>1, SpanType
<1>5. Len(Spans(t)) = Len(t)
  BY <1>2 DEF Spans
<1>6. QED
  BY <1>1, <1>2, <1>3, <1>4, <1>5

\* The cells of a table are addresses.
LEMMA FlattenSpans ==
  ASSUME NEW t \in Seq(Entries)
  PROVE  FlattenSeq(Spans(t)) \in Seq(Int)
<1>1. CASE t = << >>
  <2>1. Len(Spans(t)) = 0 /\ Spans(t) = << >>
    BY <1>1, SpansType DEF Spans
  <2>2. QED
    BY <2>1 DEF FlattenSeq
<1>2. CASE t # << >>
  <2>1. Len(t) # 0
    BY <1>2
  <2>2. QED
    BY <2>1, SpansType, FlattenType
<1>3. QED
  BY <1>1, <1>2

\* A new entry.
LEMMA FlattenAppended ==
  ASSUME NEW t \in Seq(Entries), NEW p \in Int, NEW l \in Nat
  PROVE  LET u == Append(t, [ptr |-> p, len |-> l])
         IN  /\ u \in Seq(Entries)
             /\ FlattenSeq(Spans(u)) = FlattenSeq(Spans(t)) \o Span(p, l)
<1> DEFINE u == Append(t, [ptr |-> p, len |-> l])
<1>1. [ptr |-> p, len |-> l] \in Entries
  BY DEF Entries
<1>2. /\ u \in Seq(Entries) /\ Len(u) = Len(t) + 1 /\ Len(t) \in Nat
      /\ \A i \in 1 .. Len(t) : u[i] = t[i]
      /\ u[Len(t) + 1] = [ptr |-> p, len |-> l]
  BY <1>1, AppendProperties
<1> HIDE DEF u
<1>3. Spans(u)[Len(t) + 1] = Span(p, l)
  BY <1>2, SpansType
<1>4. CASE t = << >>
  <2>1. Len(t) = 0 /\ Len(Spans(u)) = 1
    BY <1>2, <1>4, SpansType
  <2>2. FlattenSeq(Spans(u)) = Span(p, l)
    BY <1>3, <2>1, FlattenOne
  <2>3. FlattenSeq(Spans(t)) = << >>
    BY <1>4 DEF FlattenSeq, Spans
  <2>4. << >> \o Span(p, l) = Span(p, l)
    BY SpanType, ConcatEmptySeq
  <2>5. QED
    BY <1>2, <2>2, <2>3, <2>4 DEF u
<1>5. CASE t # << >>
  <2>1. Len(t) \in Nat \ {0}
    BY <1>5
  <2>2. \A i \in 1 .. Len(t) : Spans(u)[i] = Spans(t)[i]
    <3>1. \A i \in 1 .. Len(t) : Spans(t)[i] = Span(t[i].ptr, t[i].len)
      BY SpansType
    <3>2. \A i \in 1 .. Len(u) : Spans(u)[i] = Span(u[i].ptr, u[i].len)
      BY <1>2, SpansType
    <3>3. QED
      BY <1>2, <3>1, <3>2
  <2>3. Len(Spans(t)) = Len(t) /\ Len(Spans(u)) = Len(t) + 1
    BY <1>2, SpansType
  <2>4. FlattenSeq(Spans(u)) = FlattenSeq(Spans(t)) \o Span(p, l)
    <3>1. \A n \in Nat \ {0} :
            Len(Spans(t)) = n /\ Len(Spans(u)) = n + 1 /\ (\A i \in 1 .. n : Spans(u)[i] = Spans(t)[i])
              => FlattenSeq(Spans(u)) = FlattenSeq(Spans(t)) \o Spans(u)[n + 1]
      BY FlattenLast
    <3>2. QED
      BY <1>3, <2>1, <2>2, <2>3, <3>1
  <2>5. QED
    BY <1>2, <2>4 DEF u
<1>6. QED
  BY <1>4, <1>5

\* The last entry, longer.
LEMMA FlattenLengthened ==
  ASSUME NEW t \in Seq(Entries), t # << >>, NEW m \in Nat
  PROVE  LET u == [t EXCEPT ![Len(t)].len = @ + m]
         IN  /\ u \in Seq(Entries)
             /\ FlattenSeq(Spans(u)) = FlattenSeq(Spans(t)) \o Span(t[Len(t)].ptr + t[Len(t)].len, m)
<1> DEFINE n == Len(t)
           p == t[n].ptr
           l == t[n].len
           u == [t EXCEPT ![n].len = @ + m]
<1>1. n \in Nat \ {0} /\ t[n] \in Entries /\ p \in Int /\ l \in Nat
  <2>1. n \in Nat \ {0}
    OBVIOUS
  <2>2. t[n] \in Entries
    BY <2>1
  <2>3. QED
    BY <2>1, <2>2 DEF Entries
<1>2. [t[n] EXCEPT !.len = @ + m] = [ptr |-> p, len |-> l + m]
  <2>1. t[n] = [ptr |-> p, len |-> l]
    BY <1>1 DEF Entries
  <2>2. QED
    BY <2>1
<1>3. [ptr |-> p, len |-> l + m] \in Entries
  BY <1>1 DEF Entries
<1>4. u = [t EXCEPT ![n] = [ptr |-> p, len |-> l + m]]
  BY <1>1, <1>2
<1>5. /\ u \in Seq(Entries) /\ Len(u) = n
      /\ u[n] = [ptr |-> p, len |-> l + m] /\ \A i \in 1 .. n - 1 : u[i] = t[i]
  BY <1>1, <1>3, <1>4, ExceptSeq
<1> HIDE DEF u
<1>6. Spans(u)[n] = Span(p, l + m) /\ Spans(t)[n] = Span(p, l)
  BY <1>1, <1>5, SpansType
<1>7. Span(p, l + m) = Span(p, l) \o Span(p + l, m)
  BY <1>1, SpanSum
<1>8. Len(Spans(t)) = n /\ Len(Spans(u)) = n
  BY <1>5, SpansType
<1>9. FlattenSeq(Spans(u)) = FlattenSeq(Spans(t)) \o Span(p + l, m)
  <2>1. CASE n = 1
    BY <1>6, <1>7, <1>8, <2>1, FlattenOne
  <2>2. CASE n # 1
    <3> DEFINE r == SubSeq(t, 1, n - 1)
    <3>1. /\ r \in Seq(Entries) /\ Len(r) = n - 1 /\ n - 1 \in Nat \ {0}
          /\ \A i \in 1 .. n - 1 : r[i] = t[i]
      <4>1. n - 1 \in Nat \ {0} /\ n - 1 <= Len(t)
        BY <1>1, <2>2
      <4>2. \A i \in 1 .. n - 1 : t[i] \in Entries
        BY <4>1
      <4>3. /\ SubSeq(t, 1, n - 1) \in Seq(Entries)
            /\ Len(SubSeq(t, 1, n - 1)) = IF 1 <= n - 1 THEN (n - 1) - 1 + 1 ELSE 0
            /\ \A i \in 1 .. (n - 1) - 1 + 1 : SubSeq(t, 1, n - 1)[i] = t[1 + i - 1]
        <5>1. 1 \in Int /\ n - 1 \in Int
          BY <4>1
        <5>2. QED
          BY <4>2, <5>1, SubSeqProperties
      <4> HIDE DEF r, n
      <4>4. Len(r) = n - 1 /\ r \in Seq(Entries)
        BY <4>1, <4>3 DEF r
      <4>5. \A i \in 1 .. n - 1 : r[i] = t[i]
        <5>1. \A i \in 1 .. (n - 1) - 1 + 1 : r[i] = t[1 + i - 1]
          BY <4>3 DEF r
        <5>2. (n - 1) - 1 + 1 = n - 1 /\ \A i \in 1 .. n - 1 : 1 + i - 1 = i
          BY <4>1
        <5>3. QED
          BY <5>1, <5>2
      <4>6. QED
        BY <4>1, <4>4, <4>5
    <3> HIDE DEF r, n, p, l
    <3>2. \A i \in 1 .. n - 1 : Spans(t)[i] = Spans(r)[i] /\ Spans(u)[i] = Spans(r)[i]
      <4>1. \A i \in 1 .. n - 1 : Spans(r)[i] = Span(t[i].ptr, t[i].len)
        BY <3>1, SpansType
      <4>2. \A i \in 1 .. n : Spans(t)[i] = Span(t[i].ptr, t[i].len)
        BY SpansType DEF n
      <4>3. \A i \in 1 .. n : Spans(u)[i] = Span(u[i].ptr, u[i].len)
        BY <1>5, SpansType
      <4>4. QED
        BY <1>1, <1>5, <4>1, <4>2, <4>3
    <3>3. Len(Spans(r)) = n - 1
      BY <3>1, SpansType
    <3> DEFINE f == FlattenSeq(Spans(r))
    <3>4. f \in Seq(Int)
      BY <3>1, FlattenSpans
    <3>5. (n - 1) + 1 = n
      BY <1>1
    <3>6. FlattenSeq(Spans(t)) = f \o Spans(t)[n]
      <4>1. \A k \in Nat \ {0} :
              Len(Spans(r)) = k /\ Len(Spans(t)) = k + 1 /\ (\A i \in 1 .. k : Spans(t)[i] = Spans(r)[i])
                => FlattenSeq(Spans(t)) = FlattenSeq(Spans(r)) \o Spans(t)[k + 1]
        BY FlattenLast
      <4>2. QED
        BY <1>8, <3>1, <3>2, <3>3, <3>5, <4>1
    <3>7. FlattenSeq(Spans(u)) = f \o Spans(u)[n]
      <4>1. \A k \in Nat \ {0} :
              Len(Spans(r)) = k /\ Len(Spans(u)) = k + 1 /\ (\A i \in 1 .. k : Spans(u)[i] = Spans(r)[i])
                => FlattenSeq(Spans(u)) = FlattenSeq(Spans(r)) \o Spans(u)[k + 1]
        BY FlattenLast
      <4>2. QED
        BY <1>8, <3>1, <3>2, <3>3, <3>5, <4>1
    <3>8. f \o (Span(p, l) \o Span(p + l, m)) = (f \o Span(p, l)) \o Span(p + l, m)
      <4>1. Span(p, l) \in Seq(Int) /\ Span(p + l, m) \in Seq(Int)
        <5>1. p + l \in Int /\ p \in Int /\ l \in Nat
          BY <1>1
        <5>2. QED
          BY <5>1, SpanType
      <4>2. QED
        BY <3>4, <4>1, CellsAssociate, Zenon
    <3>9. QED
      BY <1>6, <1>7, <3>6, <3>7, <3>8
  <2>3. QED
    BY <2>1, <2>2
<1>10. QED
  BY <1>5, <1>9 DEF u

-----------------------------------------------------------------------------
(* A TIB stays well-formed when it changes itself.                         *)

Instructions == [cmd : STRING, ptr : Int, len : Int]

\* The fields of an instruction.
LEMMA InstructionType ==
  ASSUME NEW p, WellFormed(p)
  PROVE  /\ p \in Seq(Instructions) /\ Len(p) \in Nat \ {0} /\ DOMAIN p = 1 .. Len(p)
         /\ \A i \in DOMAIN p : p[i] \in Instructions /\ p[i].ptr \in Int /\ p[i].len \in Int
<1>1. p \in Seq(Instructions) /\ p # << >>
  BY DEF WellFormed, Instructions
<1>2. Len(p) \in Nat \ {0} /\ DOMAIN p = 1 .. Len(p)
  BY <1>1
<1>3. \A i \in DOMAIN p : p[i] \in Instructions
  BY <1>1, <1>2
<1>4. QED
  BY <1>1, <1>2, <1>3 DEF Instructions

\* A program whose move has another pointer is well-formed.
LEMMA PointerMoved ==
  ASSUME NEW p, WellFormed(p), NEW j \in Moves(p), NEW x \in Int
  PROVE  LET q == [p EXCEPT ![j].ptr = x]
         IN  WellFormed(q) /\ DOMAIN q = DOMAIN p
<1> DEFINE e == [p[j] EXCEPT !.ptr = x]
           q == [p EXCEPT ![j] = e]
<1>1. j \in DOMAIN p /\ p[j].cmd \in {"scInc", "scNoInc"}
  BY DEF Moves
<1>2. e \in Instructions /\ e.cmd = p[j].cmd /\ e.len = p[j].len
  BY <1>1, InstructionType DEF Instructions
<1>3. /\ q \in Seq(Instructions) /\ Len(q) = Len(p)
      /\ \A i \in 1 .. Len(p) : q[i] = IF i = j THEN e ELSE p[i]
  BY <1>1, <1>2, InstructionType, ExceptSeq
<1> HIDE DEF e, q
<1>4. DOMAIN q = DOMAIN p /\ DOMAIN p = 1 .. Len(p) /\ Len(p) \in DOMAIN p
  BY <1>3, InstructionType
<1>5. \A i \in DOMAIN p : /\ q[i].cmd = p[i].cmd /\ q[i].len = p[i].len
                          /\ i # j => q[i].ptr = p[i].ptr
  BY <1>2, <1>3, <1>4
<1>6. Moves(q) = Moves(p)
  BY <1>4, <1>5 DEF Moves
<1>7. q # << >> /\ q[Len(q)].cmd \in {"scStop", "scComp"}
  BY <1>3, <1>4, <1>5, InstructionType DEF WellFormed
<1>8. \A i \in DOMAIN q :
        /\ i \in Moves(q) => q[i].len \in Nat
        /\ q[i].cmd = "scAdd" => q[i].ptr \in Moves(q)
        /\ q[i].cmd = "scMove" => q[i].ptr \in DOMAIN q /\ q[i].len \in Moves(q)
        /\ q[i].cmd = "scLoop" => i + q[i].ptr \in DOMAIN q
  BY <1>1, <1>4, <1>5, <1>6 DEF WellFormed
<1>9. WellFormed(q)
  BY <1>3, <1>7, <1>8 DEF WellFormed, Instructions
<1>10. QED
  BY <1>4, <1>9 DEF q, e

\* A program whose loop has counted is well-formed.
LEMMA LoopCounted ==
  ASSUME NEW p, WellFormed(p), NEW j \in DOMAIN p, p[j].cmd = "scLoop"
  PROVE  LET q == [p EXCEPT ![j].len = @ - 1]
         IN  WellFormed(q) /\ DOMAIN q = DOMAIN p
<1> DEFINE e == [p[j] EXCEPT !.len = @ - 1]
           q == [p EXCEPT ![j] = e]
<1>1. p[j] \in Instructions /\ j \in 1 .. Len(p)
  BY InstructionType
<1>2. e \in Instructions /\ e.cmd = p[j].cmd /\ e.ptr = p[j].ptr
  BY <1>1 DEF Instructions
<1>3. /\ q \in Seq(Instructions) /\ Len(q) = Len(p)
      /\ \A i \in 1 .. Len(p) : q[i] = IF i = j THEN e ELSE p[i]
  BY <1>1, <1>2, InstructionType, ExceptSeq
<1> HIDE DEF e, q
<1>4. DOMAIN q = DOMAIN p /\ DOMAIN p = 1 .. Len(p) /\ Len(p) \in DOMAIN p
  BY <1>3, InstructionType
<1>5. \A i \in DOMAIN p : /\ q[i].cmd = p[i].cmd /\ q[i].ptr = p[i].ptr
                          /\ i # j => q[i].len = p[i].len
  BY <1>2, <1>3, <1>4
<1>6. Moves(q) = Moves(p) /\ j \notin Moves(p)
  BY <1>4, <1>5 DEF Moves
<1>7. q # << >> /\ q[Len(q)].cmd \in {"scStop", "scComp"}
  BY <1>3, <1>4, <1>5, InstructionType DEF WellFormed
<1>8. \A i \in DOMAIN q :
        /\ i \in Moves(q) => q[i].len \in Nat
        /\ q[i].cmd = "scAdd" => q[i].ptr \in Moves(q)
        /\ q[i].cmd = "scMove" => q[i].ptr \in DOMAIN q /\ q[i].len \in Moves(q)
        /\ q[i].cmd = "scLoop" => i + q[i].ptr \in DOMAIN q
  BY <1>4, <1>5, <1>6 DEF WellFormed
<1>9. WellFormed(q)
  BY <1>3, <1>7, <1>8 DEF WellFormed, Instructions
<1>10. QED
  BY <1>4, <1>9 DEF q, e

\* An instruction that does not stop the TIB is not its last.
LEMMA NextInstruction ==
  ASSUME NEW p, WellFormed(p), NEW i \in DOMAIN p, p[i].cmd \notin {"scStop", "scComp"}
  PROVE  i + 1 \in DOMAIN p
<1>1. DOMAIN p = 1 .. Len(p) /\ Len(p) \in Nat
  BY InstructionType
<1>2. i # Len(p)
  BY DEF WellFormed
<1>3. QED
  BY <1>1, <1>2

\* After scInc or scNoInc, scAdd or scMove, and scLoop the program is still
\* well-formed, and its next instruction is one of its own.
LEMMA MoveRuns ==
  ASSUME WellFormed(tib), ip \in DOMAIN tib, tib[ip].cmd \in {"scInc", "scNoInc"},
         tib' = IF tib[ip].cmd = "scInc" THEN [tib EXCEPT ![ip].ptr = tib[ip].ptr + tib[ip].len] ELSE tib
  PROVE  /\ WellFormed(tib') /\ DOMAIN tib' = DOMAIN tib /\ ip + 1 \in DOMAIN tib
         /\ tib[ip].ptr \in Int /\ tib[ip].len \in Nat
<1>1. ip \in Moves(tib)
  BY DEF Moves
<1>2. tib[ip].ptr \in Int /\ tib[ip].len \in Nat
  BY <1>1, InstructionType DEF WellFormed
<1>3. tib[ip].ptr + tib[ip].len \in Int
  BY <1>2
<1>4. WellFormed(tib') /\ DOMAIN tib' = DOMAIN tib
  BY <1>1, <1>3, PointerMoved
<1>5. QED
  BY <1>2, <1>4, NextInstruction

LEMMA ModifyRuns ==
  ASSUME WellFormed(tib), ip \in DOMAIN tib, Modify
  PROVE  WellFormed(tib') /\ DOMAIN tib' = DOMAIN tib /\ ip + 1 \in DOMAIN tib
<1>1. CASE tib[ip].cmd = "scAdd"
  <2> DEFINE j == tib[ip].ptr
  <2>1. j \in Moves(tib) /\ tib[ip].len \in Int
    BY <1>1, InstructionType DEF WellFormed
  <2>2. j \in DOMAIN tib
    BY <2>1 DEF Moves
  <2>3. tib[j].ptr + tib[ip].len \in Int
    BY <2>1, <2>2, InstructionType
  <2>4. tib' = [tib EXCEPT ![j].ptr = tib[j].ptr + tib[ip].len]
    BY <1>1, <2>2 DEF Modify
  <2>5. WellFormed(tib') /\ DOMAIN tib' = DOMAIN tib
    BY <2>1, <2>3, <2>4, PointerMoved
  <2>6. QED
    BY <1>1, <2>5, NextInstruction
<1>2. CASE tib[ip].cmd = "scMove"
  <2>1. tib[ip].len \in Moves(tib) /\ tib[ip].ptr \in DOMAIN tib
    BY <1>2 DEF WellFormed
  <2>2. tib[tib[ip].ptr].ptr \in Int
    BY <2>1, InstructionType
  <2>3. tib' = [tib EXCEPT ![tib[ip].len].ptr = tib[tib[ip].ptr].ptr]
    BY <1>2 DEF Modify
  <2>4. WellFormed(tib') /\ DOMAIN tib' = DOMAIN tib
    BY <2>1, <2>2, <2>3, PointerMoved
  <2>5. QED
    BY <1>2, <2>4, NextInstruction
<1>3. QED
  BY <1>1, <1>2 DEF Modify

LEMMA LoopRuns ==
  ASSUME WellFormed(tib), ip \in DOMAIN tib, Loop
  PROVE  WellFormed(tib') /\ DOMAIN tib' = DOMAIN tib /\ ip' \in DOMAIN tib
<1>1. tib[ip].cmd = "scLoop" /\ tib' = [tib EXCEPT ![ip].len = @ - 1]
  BY DEF Loop
<1>2. WellFormed(tib') /\ DOMAIN tib' = DOMAIN tib
  BY <1>1, LoopCounted
<1>3. ip + tib[ip].ptr \in DOMAIN tib
  BY <1>1 DEF WellFormed
<1>4. ip + 1 \in DOMAIN tib
  BY <1>1, NextInstruction
<1>5. QED
  BY <1>2, <1>3, <1>4 DEF Loop

-----------------------------------------------------------------------------
(* The invariant, action by action.                                        *)

\* Every call keeps the invariant: first the ones that choose a unit.
LEMMA ResetKeeps ==
  ASSUME ScsiInv, SCSIReset
  PROVE  ScsiInv'
<1>1. Fields'
  BY EmptySeq DEF ScsiInv, Fields, SCSIReset, NoCommand, NoRequest, tibVars, ioVars, Phases
<1>2. Calls' /\ Table' /\ Untouched' /\ Transfer' /\ TransferIsRight'
  BY DEF SCSIReset, Calls, Table, Untouched, Transfer, TransferIsRight
<1>3. QED
  BY <1>1, <1>2 DEF ScsiInv

LEMMA GetKeeps ==
  ASSUME ScsiInv, SCSIGet
  PROVE  ScsiInv'
<1>1. /\ stage = "mac" /\ stage' = "mac" /\ phase' = "arbitrated" /\ reading' = FALSE
      /\ sg' = << >> /\ sg_total_length' = 0 /\ retried' = "no"
      /\ request' = [NoRequest EXCEPT !.disk = disk, !.mem = mem]
      /\ UNCHANGED <<command, split, disk, mem, device, result>>
  BY DEF SCSIGet, ioVars
<1>2. /\ DOMAIN request' = {"op", "lba", "n", "cells", "disk", "mem"} /\ request'.cells = << >>
      /\ request'.disk = disk /\ request'.mem = mem
  BY <1>1 DEF NoRequest
<1>3. Fields'
  <2>1. sg' \in Seq(Entries) /\ request'.cells \in Seq(Int) /\ sg_total_length' \in Nat
    BY <1>1, <1>2, EmptySeq
  <2>2. QED
    BY <1>1, <1>2, <2>1 DEF ScsiInv, Fields, Phases
<1>4. Expanded' = << >>
  <2>1. [i \in DOMAIN sg' |-> Span(sg'[i].ptr, sg'[i].len)] = << >>
    BY <1>1
  <2>2. QED
    BY <2>1 DEF Expanded, FlattenSeq
<1>5. Table'
  BY <1>1, <1>2, <1>4 DEF Table
<1>6. Calls' /\ Untouched' /\ Transfer' /\ TransferIsRight'
  BY <1>1, <1>2 DEF Calls, Untouched, Transfer, TransferIsRight
<1>7. QED
  BY <1>3, <1>5, <1>6 DEF ScsiInv

\* The table stands for the same cells while it is not changed.
LEMMA ExpandedKept ==
  ASSUME sg' = sg
  PROVE  Expanded' = Expanded
BY DEF Expanded

LEMMA SelectKeeps ==
  ASSUME ScsiInv, SCSISelect
  PROVE  ScsiInv'
<1>1. /\ stage = "mac" /\ stage' = "mac" /\ phase = "arbitrated" /\ phase' \in {"selected", "free"}
      /\ UNCHANGED <<reading, sg, sg_total_length, command, split, disk, mem, device, result,
                     request, retried>>
  BY DEF SCSISelect, sgVars, ioVars, histVars
<1>2. Fields'
  BY <1>1 DEF ScsiInv, Fields, Phases
<1>3. Table'
  BY <1>1, ExpandedKept DEF ScsiInv, Table
<1>4. Calls' /\ Untouched' /\ Transfer' /\ TransferIsRight'
  BY <1>1 DEF ScsiInv, Calls, Untouched, Transfer, TransferIsRight
<1>5. QED
  BY <1>2, <1>3, <1>4 DEF ScsiInv

LEMMA CmdKeeps ==
  ASSUME ScsiInv, SCSICmd
  PROVE  ScsiInv'
<1>1. PICK op \in {"read", "write"}, wide \in BOOLEAN, lba \in Lbas, n \in Counts :
        /\ command' = [op |-> op, wide |-> wide, lba |-> lba,
                       count |-> IF wide \/ n < Wide THEN n ELSE 0]
        /\ request' = [request EXCEPT !.op = op, !.lba = lba, !.n = n]
  BY DEF SCSICmd
<1>2. /\ stage = "mac" /\ stage' = "mac" /\ phase = "selected" /\ phase' \in {"transfer", "free"}
      /\ UNCHANGED <<reading, sg, sg_total_length, split, disk, mem, device, result, retried>>
  BY DEF SCSICmd, sgVars, ioVars
<1>3. /\ DOMAIN request' = DOMAIN request /\ request'.op = op /\ request'.lba = lba
      /\ request'.n = n /\ request'.cells = request.cells /\ request'.disk = request.disk
      /\ request'.mem = request.mem
  BY <1>1 DEF ScsiInv, Fields
<1>4. /\ DOMAIN command' = {"op", "wide", "lba", "count"} /\ command'.wide = wide
      /\ command'.op = op /\ command'.lba = lba
      /\ command'.count = IF wide \/ n < Wide THEN n ELSE 0
  BY <1>1
<1>5. Fields'
  BY <1>2, <1>3, <1>4 DEF ScsiInv, Fields, Phases
<1>6. Table'
  BY <1>2, <1>3, ExpandedKept DEF ScsiInv, Table
<1>7. Calls'
  BY <1>2, <1>3 DEF ScsiInv, Calls
<1>8. Untouched'
  BY <1>2, <1>3, <1>4 DEF ScsiInv, Untouched
<1>9. Transfer' /\ TransferIsRight'
  BY <1>2 DEF Transfer, TransferIsRight
<1>10. QED
  BY <1>5, <1>6, <1>7, <1>8, <1>9 DEF ScsiInv

\* SCSIRead and SCSIWrite, and the instructions of their TIB.
LEMMA BeginsKeeps ==
  ASSUME ScsiInv, SCSIRead \/ SCSIWrite
  PROVE  ScsiInv'
<1>1. /\ stage = "mac" /\ stage' = "tib" /\ phase = "transfer" /\ phase' = "transfer"
      /\ tib' \in Tibs /\ ip' = 1
      /\ UNCHANGED <<sg, sg_total_length, command, split, disk, mem, device, result,
                     request, retried>>
  BY DEF SCSIRead, SCSIWrite, Begins, busVars, ioVars, histVars
<1>2. reading' = (request.op = "read")
  BY <1>1 DEF SCSIRead, SCSIWrite, Begins, ScsiInv, Fields, Calls
<1>3. WellFormed(tib') /\ ip' \in DOMAIN tib'
  BY <1>1, InstructionType, TibsAreWellFormed DEF TibsAreWellFormed
<1>4. Fields'
  BY <1>1, <1>2 DEF ScsiInv, Fields
<1>5. Table'
  BY <1>1, ExpandedKept DEF ScsiInv, Table
<1>6. Calls'
  BY <1>1, <1>2, <1>3 DEF ScsiInv, Calls
<1>7. Untouched' /\ Transfer' /\ TransferIsRight'
  BY <1>1 DEF ScsiInv, Untouched, Transfer, TransferIsRight
<1>8. QED
  BY <1>4, <1>5, <1>6, <1>7 DEF ScsiInv

LEMMA MoveKeeps ==
  ASSUME ScsiInv, Move
  PROVE  ScsiInv'
<1> DEFINE ptr == tib[ip].ptr
           len == tib[ip].len
<1>1. /\ stage = "tib" /\ phase = "transfer" /\ WellFormed(tib) /\ ip \in DOMAIN tib
      /\ reading = (request.op = "read")
  BY DEF ScsiInv, Calls, Move
<1>2. UNCHANGED <<phase, reading, command, split, disk, mem, device, result, retried>>
  BY DEF Move, tibUnchanged, busVars, ioVars
<1>3. tib[ip].cmd \in {"scInc", "scNoInc"}
      /\ tib' = IF tib[ip].cmd = "scInc" THEN [tib EXCEPT ![ip].ptr = ptr + len] ELSE tib
  BY DEF Move
<1>4. /\ WellFormed(tib') /\ DOMAIN tib' = DOMAIN tib /\ ip + 1 \in DOMAIN tib
      /\ ptr \in Int /\ len \in Nat
  BY <1>1, <1>3, MoveRuns
<1>5. CASE Follows(ptr) \/ Len(sg) < SG_TABLE_SIZE
  <2>1. /\ sg' = Added(ptr, len) /\ sg_total_length' = sg_total_length + len
        /\ request' = [request EXCEPT !.cells = request.cells \o Span(ptr, len)]
        /\ ip' = ip + 1 /\ stage' = stage
    BY <1>5 DEF Move
  <2>2. sg \in Seq(Entries)
    BY DEF ScsiInv, Fields
  <2>3. sg' \in Seq(Entries) /\ FlattenSeq(Spans(sg')) = FlattenSeq(Spans(sg)) \o Span(ptr, len)
    <3>1. CASE Follows(ptr)
      <4>1. sg # << >> /\ ptr = sg[Len(sg)].ptr + sg[Len(sg)].len
        BY <3>1 DEF Follows, Last
      <4>2. sg' = [sg EXCEPT ![Len(sg)].len = @ + len]
        BY <2>1, <3>1 DEF Added
      <4> HIDE DEF ptr, len
      <4>3. QED
        BY <1>4, <2>2, <4>1, <4>2, FlattenLengthened
    <3>2. CASE ~ Follows(ptr)
      <4>1. sg' = Append(sg, [ptr |-> ptr, len |-> len])
        BY <2>1, <3>2 DEF Added
      <4> HIDE DEF ptr, len
      <4>2. QED
        BY <1>4, <2>2, <4>1, FlattenAppended
    <3>3. QED
      BY <3>1, <3>2
  <2> HIDE DEF ptr, len
  <2>4. /\ DOMAIN request' = DOMAIN request /\ request'.op = request.op
        /\ request'.lba = request.lba /\ request'.n = request.n
        /\ request'.disk = request.disk /\ request'.mem = request.mem
        /\ request'.cells = request.cells \o Span(ptr, len)
    BY <2>1 DEF ScsiInv, Fields
  <2>5. /\ request'.cells \in Seq(Int)
        /\ Len(request'.cells) = Len(request.cells) + len
    <3>1. request.cells \in Seq(Int) /\ Span(ptr, len) \in Seq(Int) /\ Len(Span(ptr, len)) = len
      BY <1>4, SpanType DEF ScsiInv, Fields
    <3>2. /\ request.cells \o Span(ptr, len) \in Seq(Int)
          /\ Len(request.cells \o Span(ptr, len)) = Len(request.cells) + Len(Span(ptr, len))
      BY <3>1, ConcatProperties
    <3>3. QED
      BY <2>4, <3>1, <3>2
  <2>6. sg_total_length' \in Nat
    BY <1>4, <2>1 DEF ScsiInv, Fields
  <2>7. Fields'
    BY <1>2, <2>1, <2>3, <2>4, <2>5, <2>6 DEF ScsiInv, Fields
  <2>8. Expanded' = Expanded \o Span(ptr, len)
    <3>1. Expanded' = FlattenSeq(Spans(sg'))
      BY DEF Expanded, Spans
    <3>2. QED
      BY <2>3, <3>1, ExpandedIs
  <2>9. Table'
    BY <1>1, <2>1, <2>4, <2>5, <2>8 DEF ScsiInv, Table
  <2>10. Calls'
    BY <1>1, <1>2, <1>4, <2>1, <2>4 DEF ScsiInv, Calls
  <2>11. Untouched' /\ Transfer' /\ TransferIsRight'
    BY <1>1, <1>2, <2>1, <2>4 DEF ScsiInv, Untouched, Transfer, TransferIsRight
  <2>12. QED
    BY <2>7, <2>9, <2>10, <2>11 DEF ScsiInv
<1>6. CASE ~ (Follows(ptr) \/ Len(sg) < SG_TABLE_SIZE)
  <2>1. stage' = "full" /\ UNCHANGED <<sg, sg_total_length, request, ip>>
    BY <1>6 DEF Move
  <2>2. Fields'
    BY <1>2, <2>1 DEF ScsiInv, Fields
  <2>3. Table'
    BY <1>1, <1>2, <2>1, ExpandedKept DEF ScsiInv, Table
  <2>4. Calls' /\ Untouched' /\ Transfer' /\ TransferIsRight'
    BY <1>1, <1>2, <2>1 DEF ScsiInv, Calls, Untouched, Transfer, TransferIsRight
  <2>5. QED
    BY <2>2, <2>3, <2>4 DEF ScsiInv
<1>7. QED
  BY <1>5, <1>6

LEMMA TibKeeps ==
  ASSUME ScsiInv, Modify \/ Loop \/ Stop
  PROVE  ScsiInv'
<1>1. /\ UNCHANGED <<phase, reading, command, split, disk, mem, device, result, retried>>
      /\ UNCHANGED <<sg, sg_total_length, request>>
  BY DEF Modify, Loop, Stop, tibUnchanged, busVars, ioVars
<1>2. stage \in {"tib", "full"} /\ stage' \in {"tib", "mac"}
  BY DEF Modify, Loop, Stop
<1>3. phase = "transfer" /\ reading = (request.op = "read")
  BY <1>2 DEF ScsiInv, Calls
<1>4. stage' = "tib" => WellFormed(tib') /\ ip' \in DOMAIN tib'
  <2>1. CASE Modify
    BY <2>1, ModifyRuns DEF Modify, ScsiInv, Calls
  <2>2. CASE Loop
    BY <2>2, LoopRuns DEF Loop, ScsiInv, Calls
  <2>3. CASE Stop
    BY <2>3 DEF Stop
  <2>4. QED
    BY <2>1, <2>2, <2>3
<1>5. Fields'
  BY <1>1, <1>2 DEF ScsiInv, Fields
<1>6. Table'
  BY <1>1, ExpandedKept DEF ScsiInv, Table
<1>7. Calls'
  BY <1>1, <1>2, <1>3, <1>4 DEF ScsiInv, Calls
<1>8. Untouched' /\ Transfer' /\ TransferIsRight'
  BY <1>1, <1>2 DEF ScsiInv, Untouched, Transfer, TransferIsRight
<1>9. QED
  BY <1>5, <1>6, <1>7, <1>8 DEF ScsiInv

-----------------------------------------------------------------------------
(* The transfer.                                                           *)

\* The smaller of two numbers.
LEMMA MinOfTwo ==
  ASSUME NEW a \in Int, NEW b \in Int
  PROVE  Min({a, b}) = IF a <= b THEN a ELSE b
<1> DEFINE m == IF a <= b THEN a ELSE b
<1>1. m \in {a, b} /\ \A y \in {a, b} : m <= y
  OBVIOUS
<1>2. \A x \in {a, b} : (\A y \in {a, b} : x <= y) => x = m
  OBVIOUS
<1>3. QED
  BY <1>1, <1>2 DEF Min

\* The largest number of a set is in it.
LEMMA MaxIn ==
  ASSUME NEW n \in Nat, NEW S \in SUBSET (1 .. n), S # {}
  PROVE  Max(S) \in S
<1> DEFINE T == {n - x : x \in S}
<1>1. T \in SUBSET Nat /\ T # {}
  <2>1. \A x \in S : x \in 1 .. n
    OBVIOUS
  <2>2. \A x \in S : n - x \in Nat
    BY <2>1
  <2>3. \E x \in S : TRUE
    OBVIOUS
  <2>4. QED
    BY <2>2, <2>3
<1>2. PICK m \in T : \A y \in T : m <= y
  BY <1>1, Smallest
<1>3. PICK x \in S : m = n - x
  BY <1>2
<1>4. \A y \in S : n - x <= n - y
  BY <1>2, <1>3
<1>5. \A y \in S : x >= y
  BY <1>4
<1>6. \E z \in S : \A y \in S : z >= y
  BY <1>5
<1>7. QED
  BY <1>6 DEF Max

\* Writing the block address leaves the other fields of a command.
LEMMA PatchedFields ==
  ASSUME Fields
  PROVE  /\ DOMAIN Patched = {"op", "wide", "lba", "count"}
         /\ Patched.wide = command.wide /\ Patched.op = command.op
BY DEF Fields, Patched

\* What the Mac asks for.
LEMMA Asked ==
  ASSUME ScsiInv, phase = "transfer"
  PROVE  /\ request.n \in 1 .. Wide /\ request.lba \in Nat /\ request.op \in {"read", "write"}
         /\ device.max_transfer \in Nat \ {0} /\ Wide \in Nat \ {0}
BY SizesArePositive DEF SizesArePositive, ScsiInv, Fields, Calls

\* So many sectors in blocks of one sector are as many.
LEMMA WholeBlocks ==
  ASSUME NEW n \in Nat, NEW b \in Nat \ {0}
  PROVE  (n * b) \div b = n
<1> DEFINE q == (n * b) \div b
<1>1. n * b \in Nat
  OBVIOUS
<1>2. q \in Int /\ b * q <= n * b /\ n * b < b * q + b
  <2>1. \A x \in Nat : x \div b \in Int /\ b * (x \div b) <= x /\ x < b * (x \div b) + b
    OBVIOUS
  <2>2. QED
    BY <1>1, <2>1
<1> HIDE DEF q
<1>3. ~ q >= n + 1
  <2> SUFFICES ASSUME q >= n + 1 PROVE FALSE
    OBVIOUS
  <2>1. b * q >= b * (n + 1)
    BY <1>2
  <2>2. QED
    BY <1>2, <2>1
<1>4. ~ q + 1 <= n
  <2> SUFFICES ASSUME q + 1 <= n PROVE FALSE
    OBVIOUS
  <2>1. b * (q + 1) <= b * n
    BY <1>2
  <2>2. QED
    BY <1>2, <2>1
<1>5. q = n
  BY <1>2, <1>3, <1>4
<1>6. QED
  BY <1>5 DEF q

\* Rounding up leaves nothing out.
LEMMA AlignedIs ==
  ASSUME Fields, NEW n \in Nat
  PROVE  Aligned(n) \in Nat /\ n <= Aligned(n)
<1> DEFINE k == device.sector_size \div SectorBytes
<1>1. k \in Int
  <2>1. device.sector_size \in Nat /\ SectorBytes \in Nat \ {0}
    BY SizesArePositive DEF SizesArePositive, Fields
  <2>2. \A x \in Nat : x \div SectorBytes \in Int
    BY <2>1
  <2>3. QED
    BY <2>1, <2>2
<1>2. k > 1 => (- n) % k \in Nat
  <2>1. k > 1 => \A x \in Int : x % k \in Nat
    BY <1>1
  <2>2. - n \in Int
    OBVIOUS
  <2>3. QED
    BY <2>1, <2>2, Zenon
<1>3. QED
  BY <1>1, <1>2 DEF Aligned

\* The command of the next piece, as long as everything fits.
LEMMA PieceIs ==
  ASSUME ScsiInv, stage = "exec", Fits
  PROVE  /\ bytes \in 1 .. split.todo /\ InBlocks = bytes
         /\ Patched.lba = request.lba + split.done /\ Blocks(Patched) = bytes
         /\ ~ split.multi => bytes = split.todo
         /\ split.multi => Patched.count = bytes
<1>1. phase = "transfer" /\ Halfway
  BY DEF ScsiInv, Calls, Transfer
<1>2. /\ request.n \in 1 .. Wide /\ request.lba \in Nat
      /\ device.max_transfer \in Nat \ {0} /\ Wide \in Nat \ {0}
  BY <1>1, Asked
<1>3. split.todo \in Nat /\ split.todo > 0 /\ split.done \in Nat /\ split.todo + split.done = request.n
      /\ split.unit = SectorBytes /\ split.lba = request.lba + split.done
      /\ split.multi = (request.n > device.max_transfer)
  BY <1>1 DEF Halfway
<1>4. bytes = IF device.max_transfer <= split.todo THEN device.max_transfer ELSE split.todo
  BY <1>2, <1>3, MinOfTwo DEF bytes
<1>5. bytes \in 1 .. split.todo /\ bytes <= device.max_transfer
  BY <1>2, <1>3, <1>4
<1>9. InBlocks = bytes
  <2>1. bytes \in Nat /\ SectorBytes \in Nat \ {0}
    BY <1>3, <1>5, SizesArePositive DEF SizesArePositive
  <2>2. (bytes * SectorBytes) \div SectorBytes = bytes
    BY <2>1, WholeBlocks
  <2>3. QED
    BY <1>3, <2>2 DEF InBlocks
<1>6. CASE split.multi
  <2>1. bytes < Wide
    <3>1. bytes \in Int
      BY <1>5
    <3>2. request.n > device.max_transfer
      BY <1>3, <1>6
    <3>3. QED
      BY <1>2, <1>5, <3>1, <3>2
  <2>2. Patched = [command EXCEPT !.lba = split.lba, !.count = bytes]
    <3>1. ~ (bytes >= Wide)
      BY <1>2, <1>5, <2>1
    <3>2. QED
      BY <1>6, <1>9, <3>1 DEF Patched
  <2>3. Patched.lba = split.lba /\ Patched.count = bytes /\ bytes # 0
    BY <1>5, <2>2 DEF ScsiInv, Fields
  <2>4. QED
    BY <1>3, <1>5, <1>6, <1>9, <2>3 DEF Blocks
<1>7. CASE ~ split.multi
  <2>1. split.done = 0 /\ command.lba = request.lba /\ Blocks(command) = request.n
    BY <1>1, <1>7 DEF Halfway
  <2>2. Patched = command
    BY <1>7 DEF Patched
  <2>3. split.todo = request.n /\ bytes = split.todo
    <3>1. ~ (request.n > device.max_transfer)
      BY <1>3, <1>7
    <3>2. split.todo = request.n
      BY <1>2, <1>3, <2>1
    <3>3. QED
      BY <1>2, <1>4, <3>1, <3>2
  <2>4. QED
    BY <1>2, <1>5, <1>7, <1>9, <2>1, <2>2, <2>3
<1>8. QED
  BY <1>5, <1>6, <1>7, <1>9 DEF ScsiInv, Fields

\* The split that sync_exec_split() begins with.
LEMMA SetIs ==
  ASSUME NEW cmd, NEW n \in Nat \ {0}, device.max_transfer \in Nat,
         n > device.max_transfer =>
           device.sector_size = SectorBytes \/ (device.sector_size = 0 /\ Blocks(cmd) = n)
  PROVE  Set(cmd, n) = [todo |-> n, done |-> 0, lba |-> cmd.lba,
                        multi |-> n > device.max_transfer, unit |-> SectorBytes]
<1>1. SectorBytes \in Nat \ {0}
  BY SizesArePositive DEF SizesArePositive
<1>2. (n * SectorBytes) \div n = SectorBytes
  <2>1. n * SectorBytes = SectorBytes * n
    BY <1>1
  <2>2. QED
    BY <1>1, <2>1, WholeBlocks
<1>3. n > device.max_transfer => Unit(cmd, n) = SectorBytes
  BY <1>1, <1>2 DEF Unit
<1>4. QED
  BY <1>3 DEF Set

\* A command without a divisor ends Basilisk.
LEMMA SetsOutKeeps ==
  ASSUME ScsiInv, NEW cmd, SetsOut(cmd), stage' = "crashed", stage \in {"mac", "exec"},
         Fields, phase = "transfer", DOMAIN command' = {"op", "wide", "lba", "count"},
         command'.wide \in BOOLEAN, retried' \in {"no", "first", "late"},
         UNCHANGED <<phase, reading, sg, sg_total_length, disk, mem, device, result, request>>
  PROVE  ScsiInv'
<1>1. split' = NoSplit
  BY DEF SetsOut
<1>2. Fields'
  BY <1>1 DEF Fields, NoSplit
<1>3. Table'
  BY ExpandedKept DEF ScsiInv, Table
<1>4. Calls' /\ Untouched' /\ Transfer' /\ TransferIsRight'
  BY DEF ScsiInv, Calls, Untouched, Transfer, TransferIsRight
<1>5. QED
  BY <1>2, <1>3, <1>4 DEF ScsiInv

\* SCSIComplete begins: nothing has been transferred.
LEMMA CompleteKeeps ==
  ASSUME ScsiInv, SCSIComplete
  PROVE  ScsiInv'
<1>1. /\ stage = "mac" /\ phase = "transfer" /\ SetsOut(command)
      /\ buffer' = IF reading THEN [i \in 1 .. sg_total_length |-> Junk] ELSE Gathered
      /\ UNCHANGED <<phase, reading, sg, sg_total_length, command, disk, mem, device, result,
                     request, retried>>
  BY DEF SCSIComplete, busVars, sgVars, histVars
<1>2. /\ request.n \in 1 .. Wide /\ request.lba \in Nat /\ request.op \in {"read", "write"}
      /\ device.max_transfer \in Nat \ {0} /\ Wide \in Nat \ {0}
  BY <1>1, Asked
<1>3. /\ disk = request.disk /\ mem = request.mem /\ retried = "no"
      /\ command.op = request.op /\ command.lba = request.lba
      /\ command.count = IF command.wide \/ request.n < Wide THEN request.n ELSE 0
  BY <1>1 DEF ScsiInv, Untouched
<1>4. Blocks(command) = request.n
  BY <1>2, <1>3 DEF Blocks
<1>5. CASE stage' = "crashed"
  BY <1>1, <1>5, SetsOutKeeps DEF ScsiInv, Fields
<1>6. CASE stage' = "exec"
  <2>1. split' = Set(command, sg_total_length)
    BY <1>1, <1>6 DEF SetsOut
  <2>2. DOMAIN split' = {"todo", "done", "lba", "unit", "multi"}
    BY <2>1 DEF Set
  <2>3. Fields'
    BY <1>1, <1>6, <2>2 DEF ScsiInv, Fields
  <2>4. Table' /\ Untouched' /\ TransferIsRight'
    BY <1>1, <1>6, ExpandedKept DEF ScsiInv, Table, Untouched, TransferIsRight
  <2>5. Calls'
    BY <1>1, <1>6 DEF ScsiInv, Calls
  <2>6. ASSUME Fits'
        PROVE  Halfway' /\ (IF reading' THEN Read' ELSE Written')
    <3>1. /\ sg_total_length = request.n
          /\ request.n > device.max_transfer => device.sector_size \in {0, SectorBytes}
      BY <1>1, <2>6 DEF Fits, Spoilt
    <3>2. split' = [todo |-> request.n, done |-> 0, lba |-> request.lba,
                    multi |-> request.n > device.max_transfer, unit |-> SectorBytes]
      BY <1>2, <1>3, <1>4, <2>1, <3>1, SetIs
    <3>3. /\ split'.todo = request.n /\ split'.done = 0 /\ split'.lba = request.lba
          /\ split'.multi = (request.n > device.max_transfer) /\ split'.unit = SectorBytes
      BY <3>2
    <3>4. reading = (request.op = "read")
      BY <1>1, <1>2, <3>1 DEF ScsiInv, Calls
    <3>5. Blocks(command') = request.n
      BY <1>1, <1>4
    <3>6. Halfway'
      BY <1>1, <1>2, <1>3, <1>6, <3>3, <3>5 DEF Halfway
    <3>7. CASE reading
      <4>1. buffer' = [i \in 1 .. request.n |-> Junk] /\ DOMAIN buffer' = 1 .. request.n
        BY <1>1, <3>1, <3>7
      <4>2. QED
        BY <1>1, <1>3, <3>3, <3>6, <3>7, <4>1 DEF Read
    <3>8. CASE ~ reading
      <4>1. Expanded = request.cells /\ DOMAIN request.cells = 1 .. request.n
        BY <1>1, <3>1 DEF ScsiInv, Table, Fields
      <4>2. buffer' = [i \in 1 .. request.n |-> request.mem[request.cells[i]]]
        BY <1>1, <1>3, <3>8, <4>1 DEF Gathered
      <4>3. \A l \in Sector : l \notin request.lba .. request.lba + 0 - 1
        BY <1>2
      <4>4. QED
        BY <1>1, <1>3, <3>3, <3>6, <3>8, <4>2, <4>3 DEF Written
    <3>9. QED
      BY <3>7, <3>8
  <2>7. Transfer'
    BY <1>1, <1>3, <2>6 DEF Transfer
  <2>8. QED
    BY <2>3, <2>4, <2>5, <2>7 DEF ScsiInv
<1>7. QED
  BY <1>1, <1>5, <1>6 DEF SetsOut

\* A piece more has been transferred.
LEMMA PieceKeeps ==
  ASSUME ScsiInv, Piece
  PROVE  ScsiInv'
<1>1. /\ stage = "exec" /\ command' = Patched
      /\ IF reading THEN buffer' = Into(command') /\ UNCHANGED disk
                    ELSE disk' = Onto(command') /\ UNCHANGED buffer
      /\ split' = [split EXCEPT !.todo = split.todo - bytes, !.done = split.done + bytes,
                                !.lba = split.lba + InBlocks]
      /\ stage' = IF split'.todo = 0 THEN "done" ELSE "exec"
      /\ UNCHANGED <<phase, reading, sg, sg_total_length, mem, device, result, request, retried>>
  BY DEF Piece, busVars, sgVars, histVars
<1>2. /\ DOMAIN command' = {"op", "wide", "lba", "count"}
      /\ command'.wide = command.wide /\ command'.op = command.op
  BY <1>1, PatchedFields DEF ScsiInv
<1>3. /\ DOMAIN split' = DOMAIN split /\ split'.todo = split.todo - bytes
      /\ split'.done = split.done + bytes /\ split'.lba = split.lba + InBlocks
      /\ split'.unit = split.unit /\ split'.multi = split.multi
  BY <1>1 DEF ScsiInv, Fields
<1>4. disk' = [l \in Sector |-> disk'[l]]
  BY <1>1 DEF ScsiInv, Fields, Onto
<1>5. phase = "transfer" /\ stage' \in {"exec", "done"}
  BY <1>1 DEF ScsiInv, Calls
<1>6. Fields'
  BY <1>1, <1>2, <1>3, <1>4, <1>5 DEF ScsiInv, Fields
<1>7. Table'
  BY <1>1, ExpandedKept DEF ScsiInv, Table
<1>8. Calls' /\ Untouched' /\ TransferIsRight'
  BY <1>1, <1>5 DEF ScsiInv, Calls, Untouched, TransferIsRight
<1>9. retried' # "no" => command'.wide
  BY <1>1, <1>2 DEF ScsiInv, Transfer
<1>10. ASSUME Fits'
       PROVE  Halfway' /\ (IF reading' THEN Read' ELSE Written')
  <2>1. Fits
    BY <1>1, <1>10 DEF Fits, Spoilt
  <2>2. Halfway /\ (IF reading THEN Read ELSE Written)
    BY <1>1, <2>1 DEF ScsiInv, Transfer
  <2>3. /\ bytes \in 1 .. split.todo /\ InBlocks = bytes
        /\ command'.lba = request.lba + split.done /\ Blocks(command') = bytes
        /\ ~ split.multi => bytes = split.todo
    BY <1>1, <2>1, PieceIs
  <2>4. /\ split.todo \in Nat /\ split.done \in Nat /\ split.todo + split.done = request.n
        /\ split.unit = SectorBytes /\ split.lba = request.lba + split.done
        /\ split.multi = (request.n > device.max_transfer)
        /\ command.op = request.op /\ mem = request.mem
    BY <2>2 DEF Halfway
  <2>5. request.n \in 1 .. Wide /\ request.lba \in Nat
    BY <1>5, Asked
  <2>6. Aligned(bytes) \in Nat /\ bytes <= Aligned(bytes)
    BY <2>3, <2>4, AlignedIs DEF ScsiInv
  <2>7. /\ split'.todo \in Nat /\ split'.done \in Nat /\ split'.todo + split'.done = request.n
        /\ split'.lba = request.lba + split'.done
    BY <1>3, <2>3, <2>4, <2>5
  <2>8. /\ stage' = "exec" => split'.todo > 0 /\ split'.multi
        /\ stage' = "done" => split'.todo = 0
    BY <1>1, <1>3, <2>3, <2>4, <2>7
  <2>9. Halfway'
    BY <1>1, <1>2, <1>3, <2>4, <2>7, <2>8 DEF Halfway
  <2>10. CASE reading
    <3>1. Read
      BY <2>2, <2>10
    <3>2. buffer' = Into(command') /\ disk' = disk
      BY <1>1, <2>10
    <3>3. DOMAIN buffer' = 1 .. request.n
      BY <3>1, <3>2 DEF Read, Into
    <3>4. ASSUME NEW i \in 1 .. split'.done
          PROVE  buffer'[i] = request.disk[request.lba + i - 1]
      <4>1. i \in 1 .. request.n /\ i \in DOMAIN buffer
        BY <2>5, <2>7, <3>1 DEF Read
      <4>2. CASE i \in split.done + 1 .. split.done + Aligned(bytes)
        <5>1. buffer'[i] = IF i - split.done - 1 < Blocks(command')
                           THEN disk[command'.lba + (i - split.done - 1)] ELSE Junk
          BY <3>2, <4>1, <4>2 DEF Into
        <5>2. /\ i - split.done - 1 < bytes
              /\ command'.lba + (i - split.done - 1) = request.lba + i - 1
          BY <1>3, <2>3, <2>4, <2>5, <4>2
        <5>3. QED
          BY <2>3, <3>1, <5>1, <5>2 DEF Read
      <4>3. CASE i \notin split.done + 1 .. split.done + Aligned(bytes)
        <5>1. buffer'[i] = buffer[i]
          BY <3>2, <4>1, <4>3 DEF Into
        <5>2. i \in 1 .. split.done
          BY <1>3, <2>3, <2>4, <2>6, <4>1, <4>3
        <5>3. QED
          BY <3>1, <5>1, <5>2 DEF Read
      <4>4. QED
        BY <4>2, <4>3
    <3>5. Read'
      BY <1>1, <3>1, <3>2, <3>3, <3>4 DEF Read
    <3>6. QED
      BY <1>1, <2>9, <2>10, <3>5
  <2>11. CASE ~ reading
    <3>1. Written
      BY <2>2, <2>11
    <3>2. disk' = Onto(command') /\ buffer' = buffer
      BY <1>1, <2>11
    <3>3. Min({Blocks(command'), Aligned(bytes)}) = bytes
      BY <2>3, <2>4, <2>6, MinOfTwo
    <3>4. ASSUME NEW l \in Sector
          PROVE  disk'[l] = IF l \in request.lba .. request.lba + split'.done - 1
                            THEN buffer[l - request.lba + 1]
                            ELSE request.disk[l]
      <4>1. disk'[l] = IF l \in command'.lba .. command'.lba + bytes - 1
                       THEN buffer[split.done + l - command'.lba + 1]
                       ELSE disk[l]
        <5>1. disk'[l] = IF l \in command'.lba .. command'.lba + bytes - 1
                         THEN IF l < command'.lba + bytes
                              THEN buffer[split.done + l - command'.lba + 1] ELSE Junk
                         ELSE disk[l]
          BY <3>2, <3>3 DEF Onto
        <5>2. l \in command'.lba .. command'.lba + bytes - 1 => l < command'.lba + bytes
          BY <2>3, <2>4, <2>5
        <5>3. QED
          BY <5>1, <5>2
      <4>2. l \in Int
        BY SizesArePositive DEF Sector, SizesArePositive
      <4>3. CASE l \in command'.lba .. command'.lba + bytes - 1
        <5>1. /\ split.done + l - command'.lba + 1 = l - request.lba + 1
              /\ l \in request.lba .. request.lba + split'.done - 1
          BY <1>3, <2>3, <2>4, <2>5, <4>2, <4>3
        <5>2. QED
          BY <4>1, <4>3, <5>1
      <4>4. CASE l \notin command'.lba .. command'.lba + bytes - 1
        <5>1. l \in request.lba .. request.lba + split'.done - 1
                <=> l \in request.lba .. request.lba + split.done - 1
          BY <1>3, <2>3, <2>4, <2>5, <4>2, <4>4
        <5>2. QED
          BY <3>1, <4>1, <4>4, <5>1 DEF Written
      <4>5. QED
        BY <4>3, <4>4
    <3>5. Written'
      BY <1>1, <3>1, <3>2, <3>4 DEF Written
    <3>6. QED
      BY <1>1, <2>9, <2>11, <3>5
  <2>12. QED
    BY <2>10, <2>11
<1>11. Transfer'
  BY <1>9, <1>10 DEF Transfer
<1>12. QED
  BY <1>6, <1>7, <1>8, <1>11 DEF ScsiInv

\* The device refuses a piece.
LEMMA FailsKeeps ==
  ASSUME ScsiInv, Refused, Patched.wide
  PROVE  ScsiInv'
<1>1. /\ stage = "exec" /\ stage' = "complete" /\ phase' = "free" /\ result' = "scCommErr"
      /\ split' = NoSplit /\ command' = NoCommand
      /\ UNCHANGED <<reading, sg, sg_total_length, disk, device, request, retried>>
  BY DEF Refused, Free, sgVars
<1>2. Fields'
  BY <1>1 DEF ScsiInv, Fields, NoSplit, NoCommand, Phases
<1>3. Calls' /\ Table' /\ Untouched' /\ Transfer' /\ TransferIsRight'
  BY <1>1 DEF Calls, Table, Untouched, Transfer, TransferIsRight
<1>4. QED
  BY <1>2, <1>3 DEF ScsiInv

\* The refused command is sent again with ten bytes.
LEMMA RetryKeeps ==
  ASSUME ScsiInv, Refused, ~ Patched.wide
  PROVE  ScsiInv'
<1>1. /\ stage = "exec" /\ retried' = IF split.done = 0 THEN "first" ELSE "late"
      /\ command' = [Patched EXCEPT !.wide = TRUE]
      /\ SetsOut(command')
      /\ UNCHANGED <<phase, result, buffer, reading, sg, sg_total_length, disk, mem, device,
                     request>>
  BY DEF Refused, busVars, sgVars
<1>2. /\ DOMAIN command' = {"op", "wide", "lba", "count"} /\ command'.wide = TRUE
      /\ command'.op = command.op /\ command'.lba = Patched.lba
      /\ command'.count = Patched.count /\ ~ command.wide
  BY <1>1, PatchedFields DEF ScsiInv
<1>14. phase = "transfer"
  BY <1>1 DEF ScsiInv, Calls
<1>13. CASE stage' = "crashed"
  BY <1>1, <1>2, <1>13, <1>14, SetsOutKeeps DEF ScsiInv
<1> SUFFICES ASSUME stage' = "exec" PROVE ScsiInv'
  BY <1>1, <1>13 DEF SetsOut
<1>15. split' = Set(command', sg_total_length)
  BY <1>1 DEF SetsOut
<1>3. DOMAIN split' = {"todo", "done", "lba", "unit", "multi"}
  BY <1>15 DEF Set
<1>4. Fields'
  BY <1>1, <1>2, <1>3 DEF ScsiInv, Fields
<1>5. Table'
  BY <1>1, ExpandedKept DEF ScsiInv, Table
<1>6. Calls' /\ Untouched' /\ TransferIsRight'
  BY <1>1 DEF ScsiInv, Calls, Untouched, TransferIsRight
<1>7. retried = "no"
  BY <1>1, <1>2 DEF ScsiInv, Transfer
<1>10. ASSUME Fits'
       PROVE  Halfway' /\ (IF reading' THEN Read' ELSE Written')
  <2>10. sg_total_length = request.n /\ Fits
    BY <1>1, <1>7, <1>10 DEF Fits, Spoilt
  <2>11. Halfway /\ (IF reading THEN Read ELSE Written)
    BY <1>1, <2>10 DEF ScsiInv, Transfer
  <2>1. /\ split.done = 0
        /\ IF request.n > device.max_transfer THEN device.sector_size = SectorBytes
                                              ELSE request.n # Wide
    BY <1>1, <1>10 DEF Fits, Spoilt
  <2>2. /\ request.n \in 1 .. Wide /\ request.lba \in Nat
        /\ device.max_transfer \in Nat \ {0}
    BY <1>14, Asked
  <2>3. split' = [todo |-> request.n, done |-> 0, lba |-> command'.lba,
                  multi |-> request.n > device.max_transfer, unit |-> SectorBytes]
    <3>1. split' = Set(command', request.n)
      BY <1>15, <2>10
    <3>2. request.n \in Nat \ {0} /\ device'.max_transfer \in Nat /\ device' = device
      BY <1>1, <2>2
    <3>3. request.n > device.max_transfer => device.sector_size = SectorBytes
      BY <2>1
    <3>4. QED
      BY <2>2, <3>1, <3>2, <3>3, SetIs
  <2>4. command'.lba = request.lba
    BY <1>1, <1>2, <2>10, <2>1, <2>2, PieceIs
  <2>5. ASSUME ~ split'.multi
        PROVE  Blocks(command') = request.n
    <3>1. ~ (request.n > device.max_transfer)
      BY <2>3, <2>5
    <3>2. ~ split.multi
      BY <2>11, <3>1 DEF Halfway
    <3>3. Patched = command /\ Blocks(command) = request.n
      BY <1>1, <2>11, <3>2 DEF Patched, Halfway
    <3>4. command.count = request.n
      BY <1>2, <2>1, <3>1, <3>3 DEF Blocks
    <3>5. QED
      BY <1>2, <3>3, <3>4 DEF Blocks
  <2>6. Halfway'
    BY <1>1, <1>2, <2>11, <2>2, <2>3, <2>4, <2>5 DEF Halfway
  <2>7. CASE reading
    BY <1>1, <2>11, <2>1, <2>3, <2>6, <2>7 DEF Read
  <2>8. CASE ~ reading
    BY <1>1, <2>11, <2>1, <2>3, <2>6, <2>8 DEF Written
  <2>9. QED
    BY <2>7, <2>8
<1>11. Transfer'
  BY <1>2, <1>10 DEF Transfer
<1>12. QED
  BY <1>4, <1>5, <1>6, <1>11 DEF ScsiInv

\* The last piece has been transferred, and the data are in place.
LEMMA DoneKeeps ==
  ASSUME ScsiInv, Done
  PROVE  ScsiInv'
<1>1. /\ stage = "done" /\ mem' = IF reading THEN Scattered ELSE mem
      /\ phase' = "free" /\ stage' = "complete" /\ result' = "noErr"
      /\ split' = NoSplit /\ command' = NoCommand
      /\ UNCHANGED <<reading, sg, sg_total_length, disk, device, request, retried>>
  BY DEF Done, Free, sgVars, histVars
<1>2. Fields'
  BY <1>1 DEF ScsiInv, Fields, NoSplit, NoCommand, Phases
<1>3. Calls' /\ Table' /\ Untouched' /\ Transfer'
  BY <1>1 DEF Calls, Table, Untouched, Transfer
<1>4. ASSUME Fits'
      PROVE  IF request'.op = "read" THEN ReadIsRight' ELSE WriteIsRight'
  <2>1. Fits /\ sg_total_length = request.n
    BY <1>1, <1>4 DEF Fits, Spoilt
  <2>9. phase = "transfer" /\ Halfway /\ (IF reading THEN Read ELSE Written)
    BY <1>1, <2>1 DEF ScsiInv, Transfer, Calls
  <2>3. /\ request.n \in 1 .. Wide /\ request.lba \in Nat
    BY <2>9, Asked
  <2>2. /\ Halfway /\ (IF reading THEN Read ELSE Written)
        /\ phase = "transfer" /\ reading = (request.op = "read")
    BY <2>1, <2>3, <2>9 DEF ScsiInv, Calls
  <2>4. split.done = request.n /\ mem = request.mem
    BY <1>1, <2>2, <2>3 DEF Halfway
  <2>5. Expanded = request.cells /\ DOMAIN request.cells = 1 .. request.n
    BY <2>1, <2>2 DEF ScsiInv, Table, Fields
  <2>6. CASE reading
    <3>1. Read
      BY <2>2, <2>6
    <3>2. ASSUME NEW a \in Cell
          PROVE  LET at == {i \in DOMAIN request.cells : request.cells[i] = a}
                 IN at # {} => buffer[Max(at)] = request.disk[request.lba + Max(at) - 1]
      <4> DEFINE at == {i \in DOMAIN request.cells : request.cells[i] = a}
      <4> SUFFICES ASSUME at # {}
                   PROVE  buffer[Max(at)] = request.disk[request.lba + Max(at) - 1]
        OBVIOUS
      <4>1. at \in SUBSET (1 .. request.n)
        BY <2>5
      <4> HIDE DEF at
      <4>2. Max(at) \in at
        <5>1. request.n \in Nat
          BY <2>3
        <5>2. at # {}
          OBVIOUS
        <5>3. QED
          BY <4>1, <5>1, <5>2, MaxIn
      <4>3. Max(at) \in 1 .. split.done
        BY <2>4, <4>1, <4>2
      <4>4. QED
        BY <3>1, <4>3 DEF Read
    <3>3. mem' = [a \in Cell |->
                    LET at == {i \in DOMAIN request.cells : request.cells[i] = a}
                    IN IF at = {} THEN request.mem[a]
                       ELSE request.disk[request.lba + Max(at) - 1]]
      <4>1. mem' = [a \in Cell |->
                      LET at == {i \in DOMAIN request.cells : request.cells[i] = a}
                      IN IF at = {} THEN request.mem[a] ELSE buffer[Max(at)]]
        BY <1>1, <2>4, <2>5, <2>6 DEF Scattered
      <4>2. QED
        BY <3>2, <4>1
    <3>4. QED
      <4>1. disk' = request'.disk /\ request'.op = "read"
        BY <1>1, <2>2, <2>6, <3>1 DEF Read
      <4>2. request' = request
        BY <1>1
      <4>3. ReadIsRight'
        BY <3>3, <4>1, <4>2 DEF ReadIsRight
      <4>4. QED
        BY <4>1, <4>3
  <2>7. CASE ~ reading
    <3>1. Written
      BY <2>2, <2>7
    <3>2. ASSUME NEW l \in Sector
          PROVE  disk[l] = IF l \in request.lba .. request.lba + request.n - 1
                           THEN request.mem[request.cells[l - request.lba + 1]]
                           ELSE request.disk[l]
      <4>1. disk[l] = IF l \in request.lba .. request.lba + request.n - 1
                      THEN buffer[l - request.lba + 1] ELSE request.disk[l]
        BY <2>4, <3>1 DEF Written
      <4>2. CASE l \in request.lba .. request.lba + request.n - 1
        <5>1. l - request.lba + 1 \in 1 .. request.n
          BY <2>3, <4>2
        <5>2. QED
          BY <3>1, <4>1, <4>2, <5>1 DEF Written
      <4>3. QED
        BY <4>1, <4>2
    <3>3. disk = [l \in Sector |-> disk[l]]
      BY DEF ScsiInv, Fields
    <3>4. disk = [l \in Sector |-> IF l \in request.lba .. request.lba + request.n - 1
                                   THEN request.mem[request.cells[l - request.lba + 1]]
                                   ELSE request.disk[l]]
      BY <3>2, <3>3
    <3>5. QED
      BY <1>1, <2>2, <2>4, <2>7, <3>4 DEF WriteIsRight
  <2>8. QED
    BY <2>6, <2>7
<1>5. TransferIsRight'
  BY <1>4 DEF TransferIsRight, Fits
<1>6. QED
  BY <1>2, <1>3, <1>5 DEF ScsiInv

\* The call returns.
LEMMA CompletedKeeps ==
  ASSUME ScsiInv, Completed
  PROVE  ScsiInv'
<1>1. /\ stage = "complete" /\ stage' = "mac" /\ result' = "none" /\ phase = "free"
      /\ UNCHANGED <<phase, reading, sg, sg_total_length, command, split, disk, device,
                     request, retried>>
  BY DEF Completed, ScsiInv, Calls, busVars, sgVars, ioVars, histVars
<1>2. Fields'
  BY <1>1 DEF ScsiInv, Fields
<1>3. Calls' /\ Table' /\ Untouched' /\ Transfer' /\ TransferIsRight'
  BY <1>1 DEF Calls, Table, Untouched, Transfer, TransferIsRight
<1>4. QED
  BY <1>2, <1>3 DEF ScsiInv

\* Every step keeps the invariant.
LEMMA ScsiStep ==
  ASSUME ScsiInv, [ScsiNext]_scsiVars
  PROVE  ScsiInv'
<1>1. CASE UNCHANGED scsiVars
  <2>1. UNCHANGED <<phase, stage, result, reading, sg, sg_total_length, command, request, retried,
                    split, buffer, disk, mem, device, tib, ip>>
    BY <1>1 DEF scsiVars, busVars, sgVars, tibVars, ioVars, histVars
  <2>2. Fields' /\ Calls' /\ Untouched'
    BY <2>1 DEF ScsiInv, Fields, Calls, Untouched
  <2>3. Table'
    BY <2>1, ExpandedKept DEF ScsiInv, Table
  <2>4. Transfer'
    BY <2>1 DEF ScsiInv, Transfer, Fits, Spoilt, Halfway, Read, Written
  <2>5. TransferIsRight'
    BY <2>1 DEF ScsiInv, TransferIsRight, Spoilt, ReadIsRight, WriteIsRight
  <2>6. QED
    BY <2>2, <2>3, <2>4, <2>5 DEF ScsiInv
<1>2. QED
  BY <1>1, ResetKeeps, GetKeeps, SelectKeeps, CmdKeeps, BeginsKeeps, MoveKeeps, TibKeeps,
     CompleteKeeps, PieceKeeps, FailsKeeps, RetryKeeps, DoneKeeps, CompletedKeeps DEF ScsiNext

\* The invariant holds at first.
LEMMA ScsiEstablished ==
  ASSUME ScsiInit
  PROVE  ScsiInv
<1>1. Fields
  <2>1. << >> \in Seq(Entries) /\ << >> \in Seq(Int)
    BY EmptySeq
  <2>2. disk = [l \in Sector |-> disk[l]]
    BY DEF ScsiInit, Sectors
  <2>3. device.max_transfer \in Pieces /\ device.sector_size \in SectorSizes
    BY DEF ScsiInit
  <2>4. QED
    BY <2>1, <2>2, <2>3 DEF ScsiInit, Fields, Phases, NoCommand, NoSplit, NoRequest
<1>2. Calls /\ Table /\ Untouched /\ Transfer /\ TransferIsRight
  BY DEF ScsiInit, Calls, Table, Untouched, Transfer, TransferIsRight
<1>3. QED
  BY <1>1, <1>2 DEF ScsiInv

-----------------------------------------------------------------------------
(* The theorems.                                                           *)

\* The inductive invariant holds in every state: up to SCSIComplete nothing has gone
\* to the device and the table stands for the cells the TIB has named; after that,
\* the pieces that have been sent have moved the first sectors of the request.
THEOREM ScsiInvariance == ScsiSpec => []ScsiInv
<1>1. ScsiInit => ScsiInv
  BY ScsiEstablished
<1>2. ScsiInv /\ [ScsiNext]_scsiVars => ScsiInv'
  BY ScsiStep
<1>3. QED
  BY <1>1, <1>2, PTL DEF ScsiSpec

\* What SCSIComplete begins with is the whole transaction and nothing else: the
\* direction, as many sectors as the TIB has moved, and the cells in the order in
\* which it named them, whatever TIBs and calls came before.
THEOREM TransactionIsExactHolds == ScsiSpec => []TransactionIsExact
<1>1. ScsiInv => TransactionIsExact
  BY DEF ScsiInv, Table, Calls, TransactionIsExact
<1>2. QED
  BY <1>1, ScsiInvariance, PTL

\* A transaction that ends well has moved each sector between the cell and the block
\* that the Mac named, and nothing else, however it was split into pieces, if the TIBs
\* moved as many as the command says and but for the four cases of Spoilt.
THEOREM TransferIsRightHolds == ScsiSpec => []TransferIsRight
<1>1. ScsiInv => TransferIsRight
  BY DEF ScsiInv
<1>2. QED
  BY <1>1, ScsiInvariance, PTL
=============================================================================
