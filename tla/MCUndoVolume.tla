---------------------------- MODULE MCUndoVolume ----------------------------
(***************************************************************************)
(* UndoVolume for TLC: five blocks in two lists of runs of two, so that a  *)
(* list holds two runs (blocks 0, 1 and 4), and two writes.                *)
(***************************************************************************)
EXTENDS UndoVolume
=============================================================================
