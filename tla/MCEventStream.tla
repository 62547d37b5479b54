--------------------------- MODULE MCEventStream ---------------------------
(* Bounds of the TLC runs of EventStream. *)
EXTENDS EventStream

OneLife == <<20>>

=============================================================================
