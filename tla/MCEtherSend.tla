---------------------------- MODULE MCEtherSend ----------------------------
(* Small instances of EtherSend for TLC: the second packet is routed.      *)
EXTENDS EtherSend

MCRouted == {2}
=============================================================================
