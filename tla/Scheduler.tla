------------------------------ MODULE Scheduler ------------------------------
(***************************************************************************)
(* The round-robin scheduler of kernel/scheduler/scheduler.c.  It is       *)
(* cooperative: nothing but a call of scheduler_yield moves the processor  *)
(* from one task to the next, and no timer counts time_slice down.         *)
(*                                                                         *)
(* A task is its id.  Its registers, stack and name play no part in any    *)
(* decision; its time_slice and its priority are stored and never read.    *)
(***************************************************************************)
EXTENDS Integers, Sequences, FiniteSets

CONSTANTS
    Creations     \* bound: task_create succeeds at most this often

ASSUME TasksAssumption == Creations \in Nat

VARIABLES
    task_list,     \* the list from its head, task_list, to its tail
    current_task,
    next_task_id,
    state,
    passed         \* observer: the tasks put on the processor since this one
                   \* last became ready to run and began to wait

vars == <<task_list, current_task, next_task_id, state, passed>>

Tasks == 1 .. Creations
NoTask == 0

READY == "READY"
RUNNING == "RUNNING"
TERMINATED == "TERMINATED"
UNUSED == "UNUSED"              \* the id is not given yet

TypeOK ==
    /\ task_list \in Seq(Tasks)
    /\ current_task \in Tasks \cup {NoTask}
    /\ next_task_id \in 1 .. Creations + 1
    /\ state \in [Tasks -> {READY, RUNNING, TERMINATED, UNUSED}]
    /\ passed \in [Tasks -> SUBSET Tasks]

scheduler_init ==
    /\ task_list = << >>
    /\ current_task = NoTask
    /\ next_task_id = 1
    /\ state = [t \in Tasks |-> UNUSED]
    /\ passed = [t \in Tasks |-> {}]

-----------------------------------------------------------------------------
\* task_create puts the new task at the head of the list.
Insert(list, t) == <<t>> \o list

\* task_create, once kmalloc has returned memory for the task.
task_create ==
    /\ next_task_id \in Tasks
    /\ task_list' = Insert(task_list, next_task_id)
    /\ state' = [state EXCEPT ![next_task_id] = READY]
    /\ passed' = [passed EXCEPT ![next_task_id] = {}]
    /\ next_task_id' = next_task_id + 1
    /\ UNCHANGED current_task

\* Any task may be terminated, the current one included.  The task stays in
\* the list, and on the processor if it was there.
task_terminate(t) ==
    /\ state[t] # UNUSED
    /\ state' = [state EXCEPT ![t] = TERMINATED]
    /\ UNCHANGED <<task_list, current_task, next_task_id, passed>>

\* The places in the list of the READY tasks behind the current one, and of
\* those in front of it.
ReadyBehind ==
    {i \in DOMAIN task_list :
        /\ state[task_list[i]] = READY
        /\ \E j \in 1 .. i - 1 : task_list[j] = current_task}

ReadyBefore ==
    {i \in DOMAIN task_list :
        /\ state[task_list[i]] = READY
        /\ \A j \in 1 .. i : task_list[j] # current_task}

\* Mutant: the walk keeps the last READY task it meets.
LastOf(places) == {i \in places : \A j \in places : j <= i}

FirstOf(places) == {i \in places : \A j \in places : i <= j}

\* Mutant: every search starts at the head of the list.
NextFromHead == FirstOf(ReadyBefore \cup ReadyBehind)

\* scheduler_next with a current task: the first READY task behind it, else the
\* first READY one from the head up to it; none when the result is the current
\* task itself.
NextPlace == FirstOf(IF ReadyBehind # {} THEN ReadyBehind ELSE ReadyBefore)

\* Mutant: the switch leaves the RUNNING mark where it is.
StillMarked(s) == s

\* Mutant: the test for RUNNING is missing.
AlwaysReady(s) == READY

\* Mutant: the task that yields is marked BLOCKED.
Blocked(s) == IF s = RUNNING THEN "BLOCKED" ELSE s

\* The current task goes back to READY unless it has been terminated.
Preempted(s) == IF s = RUNNING THEN READY ELSE s

Switched(from, to) ==
    [state EXCEPT ![from] = Preempted(@), ![to] = RUNNING]

\* Task t gets the processor: every other task that waits sees it pass.
Observe(t) ==
    passed' = [u \in Tasks |-> IF u = t THEN {}
                               ELSE IF u = current_task THEN {t}
                               ELSE passed[u] \cup {t}]

\* The first call of scheduler_next, with no current task, makes the head of
\* the list current, whatever its state, and does not mark it RUNNING.
scheduler_next ==
    /\ current_task = NoTask
    /\ task_list # << >>
    /\ current_task' = Head(task_list)
    /\ Observe(Head(task_list))
    /\ UNCHANGED <<task_list, next_task_id, state>>

\* scheduler_switch, with the result of scheduler_next at place i.
scheduler_switch(i) ==
    LET next == task_list[i] IN
    /\ current_task # NoTask
    /\ i \in NextPlace
    /\ state' = Switched(current_task, next)
    /\ current_task' = next
    /\ Observe(next)
    /\ UNCHANGED <<task_list, next_task_id>>

\* The current task gives up the processor.
scheduler_yield == \E i \in 1 .. Len(task_list) : scheduler_switch(i)

Next ==
    \/ task_create
    \/ \E t \in Tasks : task_terminate(t)
    \/ scheduler_yield
    \/ scheduler_next

Spec == scheduler_init /\ [][Next]_vars

\* The kernel calls scheduler_next once tasks exist, and whichever task has the
\* processor gives it up sooner or later: cooperative scheduling rests on both.
FairSpec == Spec /\ WF_vars(scheduler_next) /\ WF_vars(scheduler_yield)

-----------------------------------------------------------------------------
\* Only the task on the processor is marked RUNNING: the switch takes the mark
\* from the task it leaves, also after a task was terminated or the first task
\* was never marked.
RunningIsCurrent ==
    \A t \in Tasks : state[t] = RUNNING => current_task = t

\* A terminated task is never brought back by a switch, not even the switch
\* that takes it off the processor.
TerminatedIsFinal ==
    [][\A t \in Tasks : state[t] = TERMINATED => state'[t] = TERMINATED]_vars

\* Bounded bypass, the heart of round robin: no task gets the processor twice
\* while another one waits in state READY, however tasks are created and
\* terminated in between.
NoSecondTurn ==
    [][\A t, u \in Tasks :
          /\ current_task' = u
          /\ current_task # u
          /\ t # u
          /\ t # current_task
          /\ state[t] = READY
          => u \notin passed[t]]_vars

\* Every READY task gets the processor or is terminated.
NoStarvation ==
    \A t \in Tasks :
        state[t] = READY ~> (current_task = t \/ state[t] = TERMINATED)
=============================================================================
