------------------------- MODULE MCCapturePipeline -------------------------
(* CapturePipeline for TLC: the bounds are in the .cfg files. *)
EXTENDS CapturePipeline
=============================================================================
