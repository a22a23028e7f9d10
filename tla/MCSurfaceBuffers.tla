-------------------------- MODULE MCSurfaceBuffers --------------------------
(* SurfaceBuffers for TLC.                                                 *)
EXTENDS SurfaceBuffers, TLC

BufferSymmetry == Permutations(Buffer)
=============================================================================
