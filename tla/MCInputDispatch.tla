-------------------------- MODULE MCInputDispatch --------------------------
(* Two buttons that the flags must keep apart, over the threads of         *)
(* HostThreads.                                                            *)
EXTENDS InputDispatch
=============================================================================
