----------------------------- MODULE MCManagers -----------------------------
(* Tables of three entries, limits that move below and above them, backups    *)
(* that are due every day, and one configuration without them.  Of a          *)
(* behaviour one manager moves: they share no variable, and moving more would *)
(* only multiply the states.  Machines move in two ways: through all their    *)
(* operations while few have been made, and by creation and deletion alone    *)
(* over more than a cycle of ids.                                             *)
EXTENDS Virtualization, Backup

CONSTANT FewVms     \* ids of the machines that do more than come and go

MCContainerLimits == {1, 3, 4}
MCVmLimits == {1, 3, 4}

Config(on, max) ==
    [enabled |-> on, retention_days |-> 2, max_backups |-> max,
     schedule_interval |-> 1]

MCDefaultConfig == Config(TRUE, 3)
MCConfigs == {Config(TRUE, 0), Config(TRUE, 1), Config(FALSE, 2), Config(TRUE, 4)}

VARIABLE moves      \* the manager that moves

MCInit ==
    /\ Init
    /\ backup_init
    /\ moves \in {"containers", "machines", "addresses", "backups"}

ComeAndGo ==
    \/ vm_create
    \/ \E id \in 1 .. VmCreations : vm_delete(id)
    \/ \E max \in {1, 3} : vm_set_max(max)

MCNext ==
    /\ UNCHANGED moves
    /\ \/ /\ moves # "backups"
          /\ Next
          /\ \/ moves = "containers" /\ UNCHANGED vm_vars
             \/ moves = "machines" /\ UNCHANGED container_vars /\ next_vm_id' <= FewVms + 1
             \/ moves = "addresses" /\ ComeAndGo /\ UNCHANGED container_vars
          /\ UNCHANGED backup_vars
       \/ moves = "backups" /\ BackupNext /\ UNCHANGED vars

MCSpec == MCInit /\ [][MCNext]_<<vars, backup_vars, moves>>
=============================================================================
