----------------------------- MODULE MCSpscRing -----------------------------
(* A three-slot ring whose indices wrap after two laps, so that every slot *)
(* is reused on both sides of the wrap.                                    *)
EXTENDS SpscRing
=============================================================================
