--------------------------- MODULE MCIncidentPage ---------------------------
(* One tenant with one project; no symmetry, for liveness. *)
EXTENDS IncidentPage, TLC

CONSTANTS org1, project1

MCOrgs == {org1}
MCProjects == {project1}
MCProjectOrg == project1 :> org1
=============================================================================
