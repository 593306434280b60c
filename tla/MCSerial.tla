------------------------------ MODULE MCSerial ------------------------------
(* Small instances of Serial for TLC.                                      *)
EXTENDS Serial

MCBoth == {"in", "out"}
MCInput == {"in"}
=============================================================================
