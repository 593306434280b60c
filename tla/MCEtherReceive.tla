--------------------------- MODULE MCEtherReceive ---------------------------
(* Small instances of EtherReceive for TLC.                                *)
EXTENDS EtherReceive

CONSTANTS atalk, ip

MCTypes == {atalk, ip}
=============================================================================
