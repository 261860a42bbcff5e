------------------------------ MODULE MCKernel ------------------------------
(* The allocator on a machine of a few frames, with two-bit bitmap words,    *)
(* and the scheduler with a few tasks.  What they do together is the subject *)
(* of KernelTasks: of a behaviour here, one of them moves.                   *)
EXTENDS Memory, Scheduler

MCBitmapFrames == {3}

VARIABLE part       \* what moves

MCInit == memory_init /\ scheduler_init /\ part \in {"memory", "tasks"}

MemoryMoves == part = "memory" /\ MemoryNext /\ UNCHANGED vars

\* The bound of the model is reached and nobody owns a frame to give back.
MemoryDone ==
    part = "memory" /\ used_frames >= MaxUsed /\ UNCHANGED <<memory_vars, vars>>

TasksMove == part = "tasks" /\ Next /\ UNCHANGED memory_vars

MCNext == (MemoryMoves \/ MemoryDone \/ TasksMove) /\ UNCHANGED part

MCSpec ==
    /\ MCInit /\ [][MCNext]_<<memory_vars, vars, part>>
    /\ WF_vars(scheduler_next) /\ WF_vars(scheduler_yield)
=============================================================================
