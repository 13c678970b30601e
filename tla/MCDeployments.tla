---------------------------- MODULE MCDeployments ----------------------------
(***************************************************************************)
(* Three commands at a time, two tenants, one of them with a project.      *)
(***************************************************************************)
EXTENDS Deployments

CONSTANTS a1, a2, a3, t1, t2, p1, v1, v2

MCSlots == {a1, a2, a3}

MCTenants == {t1, t2}

MCProjects == {p1}

MCTenantOf == [p \in MCProjects |-> t1]

MCVersions == {v1, v2}
=============================================================================
