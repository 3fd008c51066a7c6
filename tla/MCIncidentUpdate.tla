-------------------------- MODULE MCIncidentUpdate --------------------------
(* Instances of IncidentUpdate for TLC.                                    *)
EXTENDS IncidentUpdate, TLC

Symmetry == Permutations(Handlers) \cup Permutations(Severities)
=============================================================================
