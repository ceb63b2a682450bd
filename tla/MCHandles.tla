----------------------------- MODULE MCHandles ------------------------------
(* Titles and addresses for the model-checking runs of Handles. *)
EXTENDS Handles, TLC

CONSTANTS t1, t2, m1, m2, m3, m4

Interchangeable == Permutations(Titles) \cup Permutations(Addresses)
=============================================================================
