--------------------------- MODULE MCDenialWindow ---------------------------
(***************************************************************************)
(* Instances of DenialWindow: interchangeable calls, a threshold of three. *)
(***************************************************************************)
EXTENDS DenialWindow, TLC

CONSTANTS c1, c2, c3, c4

Symmetry == Permutations(Calls)
=============================================================================
