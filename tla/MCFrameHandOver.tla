--------------------------- MODULE MCFrameHandOver ---------------------------
(* FrameHandOver for TLC: its state is finite once the time-outs are.      *)
EXTENDS FrameHandOver
=============================================================================
