--------------------------- MODULE MCStreamState ---------------------------
(* Bounds of the TLC runs of StreamState. *)
EXTENDS StreamState

TwoLives == <<2, 1>>
=============================================================================
