--------------------------------- MODULE Vms ---------------------------------
(***************************************************************************)
(* The virtual machine manager of virtualization/vms/vm.c.                 *)
(*                                                                         *)
(* An entry keeps id, state, MAC address, the number of disks and how long *)
(* the machine has been up, in calls of vm_update_stats.  Names, firmware, *)
(* CPU and memory sizes, bridge and time stamps decide nothing and are     *)
(* left out.  As in Containers, a call that returns -1 is not a step.      *)
(***************************************************************************)
EXTENDS IdTable

CONSTANTS
    MAX_VMS,            \* length of the array
    VmLimits,           \* values passed to vm_set_max
    DefaultMaxVms,      \* initial max_vms
    Disks,              \* length of disks (8)
    MacBase,            \* the base of the three digits taken from the id (10)
    UptimeCycle,        \* updates that bring uptime back to 0 (2^32)
    VmCreations         \* bound: vm_create succeeds at most this often

ASSUME VmAssumption ==
    /\ MAX_VMS \in Nat
    /\ VmLimits \cup {DefaultMaxVms} \subseteq Int
    /\ Disks \in Nat
    /\ MacBase \in Nat \ {0}
    /\ UptimeCycle \in Nat \ {0}
    /\ VmCreations \in Nat

VARIABLES
    vms,                \* vms[0] .. vms[vm_count - 1]
    next_vm_id,
    max_vms,
    vm_overrun          \* an entry behind the array has been written

vm_vars == <<vms, next_vm_id, max_vms, vm_overrun>>

\* Mutant: the middle digit is taken from the wrong place.
MacAddressTwoDigits(id) ==
    <<(id \div (MacBase * MacBase)) % MacBase,
      id % MacBase,
      id % MacBase>>

\* The digits of the MAC address that depend on the id; the others are fixed.
MacAddress(id) ==
    <<(id \div (MacBase * MacBase)) % MacBase,
      (id \div MacBase) % MacBase,
      id % MacBase>>

Digit == 0 .. MacBase - 1

Vm ==
    [id : 1 .. VmCreations,
     state : {"STOPPED", "RUNNING", "PAUSED", "SUSPENDED"},
     mac_address : Digit \X Digit \X Digit,
     disk_count : 0 .. Disks,
     uptime : 0 .. UptimeCycle - 1]

VmTypeOK ==
    /\ vms \in Seq(Vm)
    /\ next_vm_id \in 1 .. VmCreations + 1
    /\ max_vms \in Int
    /\ vm_overrun \in BOOLEAN

vm_init ==
    /\ vms = << >>
    /\ next_vm_id = 1
    /\ max_vms = DefaultMaxVms
    /\ vm_overrun = FALSE

-----------------------------------------------------------------------------
vm_create ==
    /\ Len(vms) < max_vms
    /\ Len(vms) < MAX_VMS
    /\ next_vm_id <= VmCreations
    /\ vms' = Append(vms,
          [id |-> next_vm_id, state |-> "STOPPED",
           mac_address |-> MacAddress(next_vm_id), disk_count |-> 0, uptime |-> 0])
    /\ next_vm_id' = next_vm_id + 1
    /\ UNCHANGED <<max_vms, vm_overrun>>

\* The same where the limit lets the count pass the end of the array.
vm_create_past_end ==
    /\ Len(vms) < max_vms
    /\ Len(vms) >= MAX_VMS
    /\ vm_overrun' = TRUE
    /\ UNCHANGED <<vms, next_vm_id, max_vms>>

VmChange(i, entry) ==
    /\ vms' = [vms EXCEPT ![i] = entry]
    /\ UNCHANGED <<next_vm_id, max_vms, vm_overrun>>

\* A machine in one of the states of From, found by its id, goes to state to.
VmMove(id, From, to) ==
    \E i \in Found(vms, id) :
        /\ vms[i].state \in From
        /\ VmChange(i, [vms[i] EXCEPT !.state = to])

\* vm_add_disk looks at no state: disks are added to running machines too.
vm_add_disk(id) ==
    \E i \in Found(vms, id) :
        /\ vms[i].disk_count < Disks
        /\ VmChange(i, [vms[i] EXCEPT !.disk_count = @ + 1])

\* Mutant: vm_stop does not look at the state.
vm_stop_any(id) ==
    VmMove(id, {"RUNNING", "PAUSED", "SUSPENDED", "STOPPED"}, "STOPPED")

\* A suspended machine is started, not resumed, and is up anew.
vm_start(id) ==
    \E i \in Found(vms, id) :
        /\ vms[i].state \in {"STOPPED", "SUSPENDED"}
        /\ VmChange(i, [vms[i] EXCEPT !.state = "RUNNING", !.uptime = 0])

vm_stop(id) == VmMove(id, {"RUNNING", "PAUSED"}, "STOPPED")
vm_pause(id) == VmMove(id, {"RUNNING"}, "PAUSED")
vm_resume(id) == VmMove(id, {"PAUSED"}, "RUNNING")
vm_suspend(id) == VmMove(id, {"RUNNING"}, "SUSPENDED")

\* A running machine is stopped first; its entry then goes in any state.
vm_delete(id) ==
    \E i \in Found(vms, id) :
        /\ vms' = ShiftOut(vms, i)
        /\ UNCHANGED <<next_vm_id, max_vms, vm_overrun>>

vm_update_stats(id) ==
    \E i \in Found(vms, id) :
        /\ vms[i].state = "RUNNING"
        /\ VmChange(i, [vms[i] EXCEPT !.uptime = (@ + 1) % UptimeCycle])

\* Any number is taken, also one above MAX_VMS.
vm_set_max(max) ==
    /\ max_vms' = max
    /\ UNCHANGED <<vms, next_vm_id, vm_overrun>>

VmNext ==
    \/ vm_create
    \/ vm_create_past_end
    \/ \E id \in 1 .. VmCreations :
          \/ vm_start(id)
          \/ vm_stop(id)
          \/ vm_pause(id)
          \/ vm_resume(id)
          \/ vm_suspend(id)
          \/ vm_delete(id)
          \/ vm_add_disk(id)
          \/ vm_update_stats(id)
    \/ \E max \in VmLimits : vm_set_max(max)

-----------------------------------------------------------------------------
\* Two machines in the table share a MAC address exactly when their ids are a
\* whole number of cycles, MacBase^3 creations, apart (vm_create makes the address
\* from three digits of the id): no sooner, and from then on without fail.
MacsRepeatByCycle ==
    \A i, j \in 1 .. Len(vms) :
        i < j =>
           (vms[i].mac_address = vms[j].mac_address
               <=> (vms[j].id - vms[i].id) % (MacBase * MacBase * MacBase) = 0)

\* The table implements the promise of Lifecycle.
VmTransitions ==
    ({"STOPPED", "SUSPENDED"} \X {"RUNNING"})
        \cup ({"RUNNING", "PAUSED"} \X {"STOPPED"})
        \cup {<<"RUNNING", "PAUSED">>, <<"PAUSED", "RUNNING">>,
              <<"RUNNING", "SUSPENDED">>}

VmLifecycle == INSTANCE Lifecycle WITH
    Initial <- "STOPPED",
    Transitions <- VmTransitions,
    machines <- [id \in Ids(vms) |-> Entry(vms, id).state],
    issued <- next_vm_id - 1

VmsImplementLifecycle == VmLifecycle!Spec
=============================================================================
