---------------------------- MODULE MCRenderLoop ----------------------------
(* A frame of two or three ticks, against a gate of one and a clock long   *)
(* enough for stalls of more than four frames.                             *)
EXTENDS RenderLoop
=============================================================================
