-------------------------- MODULE MCTenantRequests --------------------------
(***************************************************************************)
(* Three processes; one seat, two clients for free and then one and a half *)
(* per billable client, a quote at one; one device that is probed.         *)
(***************************************************************************)
EXTENDS TenantRequests, TLC

CONSTANTS p1, p2, p3, d1

MCProcs == {p1, p2, p3}
MCFeatures == [max_users |-> 1, client_cap_min |-> 2, client_cap_ratio |-> 20,
               max_clients |-> 4]
MCOverrides == [client_cap_ratio |-> 15, max_clients |-> -1]

MCNames == [d \in {d1} |-> "core_connectivity_check_ssh"]

Sym == Permutations(MCProcs)
=============================================================================
