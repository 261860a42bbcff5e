------------------------------ MODULE Security ------------------------------
(***************************************************************************)
(* The packet filter and the accounts of security/firewall/firewall.c side *)
(* by side: they share a file and no state.                                *)
(***************************************************************************)
EXTENDS Firewall, Auth

vars == <<firewall_vars, auth_vars>>

Init == firewall_init /\ auth_init

Next ==
    \/ FirewallNext /\ UNCHANGED auth_vars
    \/ AuthNext /\ UNCHANGED firewall_vars

Spec == Init /\ [][Next]_vars

TypeOK == FirewallTypeOK /\ AuthTypeOK
=============================================================================
