--------------------------- MODULE MCHostThreads ---------------------------
(* HostThreads on a small instance.                                        *)
EXTENDS HostThreads
=============================================================================
