-------------------------- MODULE MCIncidentCache --------------------------
(* Instances of IncidentCache for TLC: one tenant has a project, the other *)
(* only asks for its incidents.                                            *)
EXTENDS IncidentCache, TLC

CONSTANTS org1, org2, project1

MCOrgs == {org1, org2}
MCProjects == {project1}
MCProjectOrg == project1 :> org1
Symmetry == Permutations(Handlers)
=============================================================================
