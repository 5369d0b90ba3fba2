---------------------------- MODULE MCConsoleRing ----------------------------
(* A ring of two slots and enough logs to overwrite each of them twice.    *)
EXTENDS ConsoleRing
=============================================================================
