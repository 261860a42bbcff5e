----------------------------- MODULE Containers -----------------------------
(***************************************************************************)
(* The container manager of virtualization/containers/container.c.         *)
(*                                                                         *)
(* An entry keeps what the control depends on: id, state, pid and the      *)
(* number of exposed ports; and how often its usage has been updated, of   *)
(* which its figures are functions.  Names, images, resource limits and    *)
(* time stamps decide nothing and are left out.  STARTING and STOPPING are *)
(* set and overwritten within one call.  A call that finds no container or *)
(* refuses the operation returns -1 and is not a step.  Once an entry      *)
(* behind the array has been written, nothing more is said.                *)
(***************************************************************************)
EXTENDS IdTable

CONSTANTS
    MAX_CONTAINERS,       \* length of the array
    ContainerLimits,      \* values passed to container_set_max
    DefaultMaxContainers, \* initial max_containers
    ExposedPorts,         \* length of exposed_ports (16)
    PidCycle,             \* pids are numbers below this one (2^32)
    UpdateCycle,          \* updates that bring network_rx and _tx back to 0 (2^23)
    ContainerCreations    \* bound: container_create succeeds at most this often

\* So many creations are considered that the product that makes a pid does not
\* come back to 0.
ASSUME ContainerAssumption ==
    /\ MAX_CONTAINERS \in Nat
    /\ ContainerLimits \cup {DefaultMaxContainers} \subseteq Int
    /\ ExposedPorts \in Nat
    /\ UpdateCycle \in Nat \ {0}
    /\ ContainerCreations \in Nat
    /\ PidCycle \in Nat
    /\ (ContainerCreations + 1) * 1000 < PidCycle

VARIABLES
    containers,           \* containers[0] .. containers[container_count - 1]
    next_container_id,
    max_containers,
    container_overrun     \* an entry behind the array has been written

container_vars ==
    <<containers, next_container_id, max_containers, container_overrun>>

\* Mutant: the pid outlives the process.
StoppedWithPid(c) == [c EXCEPT !.state = "STOPPED"]

Stopped(c) == [c EXCEPT !.state = "STOPPED", !.pid = 0]

Container ==
    [id : 1 .. ContainerCreations,
     state : {"STOPPED", "RUNNING", "PAUSED"},
     pid : Nat,
     port_count : 0 .. ExposedPorts,
     updates : 0 .. UpdateCycle - 1]

ContainerTypeOK ==
    /\ containers \in Seq(Container)
    /\ next_container_id \in 1 .. ContainerCreations + 1
    /\ max_containers \in Int
    /\ container_overrun \in BOOLEAN

container_init ==
    /\ containers = << >>
    /\ next_container_id = 1
    /\ max_containers = DefaultMaxContainers
    /\ container_overrun = FALSE

-----------------------------------------------------------------------------
ContainerRoom(count) == count < max_containers

\* Mutant: ids are counted from the entries in use.
CountAsId == Len(containers) + 1

NewContainerId == next_container_id

container_create ==
    /\ ContainerRoom(Len(containers))
    /\ Len(containers) < MAX_CONTAINERS
    /\ next_container_id <= ContainerCreations
    /\ containers' = Append(containers,
          [id |-> NewContainerId, state |-> "STOPPED", pid |-> 0,
           port_count |-> 0, updates |-> 0])
    /\ next_container_id' = next_container_id + 1
    /\ UNCHANGED <<max_containers, container_overrun>>

\* The same where the limit lets the count pass the end of the array: whatever
\* lies there is overwritten.
container_create_past_end ==
    /\ ContainerRoom(Len(containers))
    /\ Len(containers) >= MAX_CONTAINERS
    /\ container_overrun' = TRUE
    /\ UNCHANGED <<containers, next_container_id, max_containers>>

\* The operations that change the entry found and nothing else.
ContainerChange(i, entry) ==
    /\ containers' = [containers EXCEPT ![i] = entry]
    /\ UNCHANGED <<next_container_id, max_containers, container_overrun>>

\* The pid is made from the id the next container will get.
container_start(id) ==
    \E i \in Found(containers, id) :
        /\ containers[i].state = "STOPPED"
        /\ ContainerChange(i, [containers[i] EXCEPT
                                  !.state = "RUNNING",
                                  !.pid = (next_container_id * 1000) % PidCycle])

container_stop(id) ==
    \E i \in Found(containers, id) :
        /\ containers[i].state = "RUNNING"
        /\ ContainerChange(i, Stopped(containers[i]))

container_pause(id) ==
    \E i \in Found(containers, id) :
        /\ containers[i].state = "RUNNING"
        /\ ContainerChange(i, [containers[i] EXCEPT !.state = "PAUSED"])

container_resume(id) ==
    \E i \in Found(containers, id) :
        /\ containers[i].state = "PAUSED"
        /\ ContainerChange(i, [containers[i] EXCEPT !.state = "RUNNING"])

\* A running container is stopped first; its entry then goes in any state.
container_delete(id) ==
    \E i \in Found(containers, id) :
        /\ containers' = ShiftOut(containers, i)
        /\ UNCHANGED <<next_container_id, max_containers, container_overrun>>

\* Mutant: one port too many.
PortRoomTooLate(c) == c.port_count <= ExposedPorts

PortRoom(c) == c.port_count < ExposedPorts

container_expose_port(id) ==
    \E i \in Found(containers, id) :
        /\ PortRoom(containers[i])
        /\ ContainerChange(i, [containers[i] EXCEPT !.port_count = @ + 1])

\* Both traffic figures grow by a constant, modulo 2^32, while the container runs.
container_update_stats(id) ==
    \E i \in Found(containers, id) :
        /\ containers[i].state = "RUNNING"
        /\ ContainerChange(i, [containers[i] EXCEPT !.updates = (@ + 1) % UpdateCycle])

\* Any number is taken, also one above MAX_CONTAINERS.
container_set_max(max) ==
    /\ max_containers' = max
    /\ UNCHANGED <<containers, next_container_id, container_overrun>>

\* The operations that concern one container.
ContainerOperation(id) ==
    \/ container_start(id)
    \/ container_stop(id)
    \/ container_pause(id)
    \/ container_resume(id)
    \/ container_delete(id)
    \/ container_expose_port(id)
    \/ container_update_stats(id)

ContainerNext ==
    \/ container_create
    \/ container_create_past_end
    \/ \E id \in 1 .. ContainerCreations : ContainerOperation(id)
    \/ \E max \in ContainerLimits : container_set_max(max)

-----------------------------------------------------------------------------
\* The table is ordered by id, and no id is given twice: a search finds the
\* container that was asked for, after any number of deletions have moved the
\* entries.
ContainerIdsAscending ==
    /\ Ascending(containers)
    /\ \A id \in Ids(containers) : id < next_container_id

\* A container has a process exactly while it runs or is paused, by whatever
\* way it got there.
ContainerPidWhileActive ==
    \A i \in 1 .. Len(containers) :
        containers[i].pid # 0 <=> containers[i].state \in {"RUNNING", "PAUSED"}

\* An operation on one container leaves every other one in the table as it was,
\* pid, ports and usage included, although a deletion moves their entries.
OthersUntouched(id) ==
    \A x \in Ids(containers) \ {id} :
        x \in Ids(containers') /\ Entry(containers', x) = Entry(containers, x)

OneContainerAtATime ==
    [][\A id \in 1 .. ContainerCreations :
          ContainerOperation(id) => OthersUntouched(id)]_container_vars

\* The table implements the promise of Lifecycle.
ContainerTransitions ==
    {<<"STOPPED", "RUNNING">>, <<"RUNNING", "STOPPED">>,
     <<"RUNNING", "PAUSED">>, <<"PAUSED", "RUNNING">>}

ContainerLifecycle == INSTANCE Lifecycle WITH
    Initial <- "STOPPED",
    Transitions <- ContainerTransitions,
    machines <- [id \in Ids(containers) |-> Entry(containers, id).state],
    issued <- next_container_id - 1

ContainersImplementLifecycle == ContainerLifecycle!Spec
=============================================================================
