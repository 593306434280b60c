------------------------------ MODULE MCDrives ------------------------------
(* A small instance of Drives for TLC.                                     *)
EXTENDS Drives
=============================================================================
