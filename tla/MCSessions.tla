----------------------------- MODULE MCSessions -----------------------------
(* Two tasks, one of them ahead of the other; no symmetry, for liveness. *)
EXTENDS Sessions
=============================================================================
