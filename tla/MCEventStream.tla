--------------------------- MODULE MCEventStream ---------------------------
(* The event stream with small capacities, for TLC. *)
EXTENDS EventStream
=============================================================================
