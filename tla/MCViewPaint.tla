---------------------------- MODULE MCViewPaint ----------------------------
(* Sizes of two dimensions, so that a Resize or a GetViewRect can be seen  *)
(* half-way, and two resizes, so that the page can come back to the size   *)
(* its textures were made in.                                              *)
EXTENDS ViewPaint

Small == [w |-> 1, h |-> 1]
Both == {Small, [w |-> 2, h |-> 2]}
=============================================================================
