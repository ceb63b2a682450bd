---------------------------- MODULE MCLibdecor ------------------------------
(* Values for the constants of Libdecor in the model-checking runs. *)
EXTENDS Libdecor, TLC

CONSTANTS s1, s2, p1, p2, a1

Hands == Permutations(Seats) \cup Permutations(Pointers)

NoSets == {}
SomeSizes == {<<200, 100>>}
(* Six pixels of padding, then the buttons: at x = 180 the rightmost one of a
   200 wide titlebar, the second one of a 224 wide titlebar. *)
TwoSizes == {<<200, 100>>, <<224, 100>>}
(* The bare titlebar, and a button. *)
TwoSpots == {<<60, 16>>, <<180, 16>>}
OneSpot == {<<60, 16>>}
=============================================================================
