---------------------------- MODULE MCBeginFrames ----------------------------
(* Enough begin frames to fill the largest cap, leak and be reset; one cap *)
(* below, one above and the zero that stands for the default.              *)
EXTENDS BeginFrames
=============================================================================
