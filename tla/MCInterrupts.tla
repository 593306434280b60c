---------------------------- MODULE MCInterrupts ----------------------------
(* Small instances of Interrupts for TLC.                                  *)
EXTENDS Interrupts

MCSources == <<"60HZ", "SERIAL">>
MCSMPSources == {"60HZ"}
=============================================================================
