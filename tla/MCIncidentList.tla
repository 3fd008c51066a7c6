--------------------------- MODULE MCIncidentList ---------------------------
(* Two incidents that may start at one time, pages of one, two loads. *)
EXTENDS IncidentList, TLC

Symmetry == Permutations(Loads)
=============================================================================
