---------------------------- MODULE MCRouterTCP ----------------------------
(* Small instances of RouterTCP for TLC.                                   *)
EXTENDS RouterTCP
=============================================================================
