--------------------------- MODULE MCAudioStream ---------------------------
(* Small instances of AudioStream for TLC.                                 *)
EXTENDS AudioStream
=============================================================================
