--------------------------- MODULE Virtualization ---------------------------
(***************************************************************************)
(* Containers and virtual machines side by side, as the virtualization     *)
(* layer of the system keeps them: two managers that share the shape of    *)
(* their tables and no state.                                              *)
(***************************************************************************)
EXTENDS Containers, Vms

vars == <<container_vars, vm_vars>>

Init == container_init /\ vm_init

\* Nothing has been stored behind an array yet.
Intact == ~container_overrun /\ ~vm_overrun

Managers ==
    \/ ContainerNext /\ UNCHANGED vm_vars
    \/ VmNext /\ UNCHANGED container_vars

\* The model ends here.
overwritten == ~Intact /\ UNCHANGED vars

Next == (Intact /\ Managers) \/ overwritten

Spec == Init /\ [][Next]_vars

-----------------------------------------------------------------------------
TypeOK == ContainerTypeOK /\ VmTypeOK

\* docs/FAQ.md lines 76 and 80: the limits on containers and on machines can be
\* changed in the settings.  A limit the managers accept is one they can serve.
LimitsAdjustable == Intact
=============================================================================
