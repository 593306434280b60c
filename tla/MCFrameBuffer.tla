--------------------------- MODULE MCFrameBuffer ---------------------------
(* FrameBuffer for TLC.                                                    *)
EXTENDS FrameBuffer
=============================================================================
