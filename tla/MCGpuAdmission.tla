--------------------------- MODULE MCGpuAdmission ---------------------------
(* Bounds of the TLC runs of GpuAdmission. *)
EXTENDS GpuAdmission, TLC

Interchangeable == Permutations(Threads)

=============================================================================
