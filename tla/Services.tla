------------------------------ MODULE Services ------------------------------
(***************************************************************************)
(* The services of system/init/init.c, and the monitor that reads what     *)
(* they keep: the table with a flag to start each, the network's           *)
(* connections (Network), how much memory and disk is in use, and the      *)
(* monitor (Monitor).  The routes of the API server (Api) and the terminal *)
(* (Console) stand beside them and share nothing with them.                *)
(*                                                                         *)
(* init_system may run again at any time, as nothing in it prevents that,  *)
(* and empties what the services it starts keep.                           *)
(***************************************************************************)
EXTENDS Network, Monitor, Api, Console

CONSTANTS
    Table,              \* the services: their names, and what they keep
    AskedNames,         \* the names enable_service and disable_service get
    MemorySizes,        \* what memory_init may be told, in frames
    DiskSize            \* MAX_BLOCKS

ASSUME ServicesAssumption ==
    /\ \A i \in DOMAIN Table : Table[i].keeps \in Resources \cup {"connections", "other"}
    /\ MemorySizes \subseteq Nat /\ DiskSize \in Nat

VARIABLES
    enabled,            \* services that init_system starts, by their places
    initialized,        \* services it has started
    capacity,           \* frames of memory and blocks of the disk
    used                \* how many of them are in use

service_vars == <<enabled, initialized>>
kept_vars == <<connections, service_vars, capacity, used>>
system_vars == <<kept_vars, monitor_vars>>
vars == <<system_vars, api_vars, console_vars>>

TypeOK ==
    /\ ConnectionsTypeOK
    /\ MonitorTypeOK
    /\ enabled \subseteq DOMAIN Table
    /\ initialized \subseteq DOMAIN Table
    /\ capacity \in [Resources -> Nat]
    /\ used \in [Resources -> Nat] /\ \A r \in Resources : used[r] <= capacity[r]
    /\ ApiTypeOK
    /\ ConsoleTypeOK

\* Static storage is zero: every slot is CLOSED before network_init too, and there
\* is neither memory nor disk before memory_init and fs_init.
Init ==
    /\ connections = AllClosed
    /\ MonitorInit
    /\ enabled = DOMAIN Table
    /\ initialized = {}
    /\ capacity = [r \in Resources |-> 0]
    /\ used = [r \in Resources |-> 0]
    /\ ApiInit
    /\ ConsoleInit

-----------------------------------------------------------------------------
\* What the enabled services keep.
Restarted == {Table[i].keeps : i \in enabled}

\* What a service that keeps r makes of its size: memory_init is called without the
\* argument that says it, and reads whatever is there.
Sizes(r) == IF r = "memory" THEN MemorySizes ELSE {DiskSize}

init_system ==
    /\ initialized' = initialized \cup enabled
    /\ connections' = IF "connections" \in Restarted THEN AllClosed ELSE connections
    /\ \E size \in [Resources -> MemorySizes \cup {DiskSize}] :
          /\ \A r \in Resources : size[r] \in Sizes(r)
          /\ capacity' = [r \in Resources |-> IF r \in Restarted THEN size[r] ELSE capacity[r]]
    /\ used' = [r \in Resources |-> IF r \in Restarted THEN 0 ELSE used[r]]
    /\ UNCHANGED <<monitor_vars, enabled>>

\* Two names are compared up to the end of the shorter one, and the first service
\* that matches is meant.
Meant(name) ==
    LET matching == {i \in DOMAIN Table : IsPrefix(name, Table[i].name) \/
                                          IsPrefix(Table[i].name, name)}
    IN  {i \in matching : \A j \in matching : i <= j}

enable_service(name) ==
    /\ enabled' = enabled \cup Meant(name)
    /\ UNCHANGED <<connections, monitor_vars, initialized, capacity, used>>

\* A service that runs goes on running.
disable_service(name) ==
    /\ enabled' = enabled \ Meant(name)
    /\ UNCHANGED <<connections, monitor_vars, initialized, capacity, used>>

Network ==
    /\ NetworkNext
    /\ UNCHANGED <<monitor_vars, service_vars, capacity, used>>

\* A frame or a block is taken, or given back.
Use(r) ==
    /\ \E n \in 0 .. capacity[r] :
          n - used[r] \in {-1, 1} /\ used' = [used EXCEPT ![r] = n]
    /\ UNCHANGED <<connections, monitor_vars, service_vars, capacity>>

Free == [r \in Resources |-> capacity[r] - used[r]]

\* The calls of the monitor, by what they are about.
Logging ==
    /\ (\E level \in Levels : log_message(level)) \/ check_alerts(Free)
    /\ UNCHANGED kept_vars

Recording ==
    /\ \E name \in Names, value \in Values : record_metric(name, value)
    /\ UNCHANGED kept_vars

Refreshing ==
    /\ update_system_stats(used, get_active_connections) \/ monitoring_init
    /\ UNCHANGED kept_vars

Services ==
    \/ init_system
    \/ \E name \in AskedNames : enable_service(name) \/ disable_service(name)
    \/ Network
    \/ \E r \in Resources : Use(r)

System == Services \/ Logging \/ Recording \/ Refreshing

Next ==
    \/ System /\ UNCHANGED <<api_vars, console_vars>>
    \/ ApiNext /\ UNCHANGED <<system_vars, console_vars>>
    \/ ConsoleNext /\ UNCHANGED <<system_vars, api_vars>>

Spec == Init /\ [][Next]_vars

=============================================================================
