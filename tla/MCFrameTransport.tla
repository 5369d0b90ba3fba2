-------------------------- MODULE MCFrameTransport --------------------------
(* The three slots of the host and enough view paints to reuse one.        *)
EXTENDS FrameTransport
=============================================================================
