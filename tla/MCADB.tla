-------------------------------- MODULE MCADB --------------------------------
(* Small instances of ADB for TLC.                                         *)
EXTENDS ADB

MCCodes == {0, 1}
MCButtons == {0, 1}
MCPoints == {0, 2}
=============================================================================
