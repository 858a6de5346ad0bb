--------------------------- MODULE MCRestListener ---------------------------
(* RestListener for TLC. *)
EXTENDS RestListener, TLC

Symmetry == Permutations(Request)
=============================================================================
