-------------------------- MODULE MCFrameRateChange --------------------------
(* FrameRateChange for TLC: nothing tells one linker from another.          *)
EXTENDS FrameRateChange, TLC

LinkerSymmetry == Permutations(Linker)
=============================================================================
