------------------------------- MODULE Volume -------------------------------
(***************************************************************************)
(* What a hard disk image mounted "undoable" promises (undo_buffer.cpp,    *)
(* undo_windows.cpp and the file part of sys_windows.cpp implement it):    *)
(* the Mac reads and writes a disk, "view"; the image file stays as it was *)
(* until somebody asks to save, is then made equal to the view, and when   *)
(* it is closed without saving it is the file that was opened.  A save     *)
(* that the host system refuses half-way, or that the end of the program   *)
(* interrupts, leaves a torn file.                                         *)
(***************************************************************************)
EXTENDS Naturals

CONSTANTS Block,    \* the 512-byte blocks of the image
          Data      \* what a block can hold

VARIABLES file,     \* the image file
          view,     \* the disk as the Mac sees it
          phase,    \* "overlay", "saving", "direct" or "closed"
          torn      \* a save was cut short

vars == <<file, view, phase, torn>>

Init == /\ file \in [Block -> Data]
        /\ view = file
        /\ phase \in {"overlay", "direct"}
        /\ torn = FALSE

\* The Mac writes some blocks; only a directly mounted file changes with them.
Write == /\ phase \in {"overlay", "direct"}
         /\ \E from, to \in Block, d \in Data :
               view' = [b \in Block |-> IF b \in from .. to THEN d ELSE view[b]]
         /\ file' = IF phase = "direct" THEN view' ELSE file
         /\ UNCHANGED <<phase, torn>>

\* Saving copies blocks of the view to the file, in any order.
Copied == \E done \in SUBSET Block :
            file' = [b \in Block |-> IF b \in done THEN view[b] ELSE file[b]]

Save == /\ phase \in {"overlay", "saving"}
        /\ phase' = "saving"
        /\ Copied
        /\ UNCHANGED <<view, torn>>

\* It succeeds only when nothing is left to copy.
Saved == /\ phase \in {"overlay", "saving"}
         /\ file = view
         /\ phase' = "direct"
         /\ UNCHANGED <<file, view, torn>>

SaveFailed == /\ phase = "saving"
              /\ phase' = "direct"
              /\ Copied
              /\ view' = file'
              /\ torn' = TRUE

\* Closing: an overlay that was not saved is dropped, a save under way is lost.
Close == /\ phase # "closed"
         /\ phase' = "closed"
         /\ view' = file
         /\ torn' = (torn \/ phase = "saving")
         /\ UNCHANGED file

Next == Write \/ Save \/ Saved \/ SaveFailed \/ Close

Spec == Init /\ [][Next]_vars
=============================================================================
