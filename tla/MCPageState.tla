----------------------------- MODULE MCPageState -----------------------------
(***************************************************************************)
(* Two places for a popup, of different widths: one is wider than the      *)
(* narrower view, the other lies outside of it.  The cursors are           *)
(* interchangeable: nothing but equality is asked of them.                 *)
(***************************************************************************)
EXTENDS PageState, TLC

MCRects == {[x |-> 0, w |-> 2], [x |-> 1, w |-> 1]}
MCCursorSymmetry == Permutations(Cursors)
=============================================================================
