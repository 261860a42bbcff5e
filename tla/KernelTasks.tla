----------------------------- MODULE KernelTasks -----------------------------
(***************************************************************************)
(* The scheduler on top of the frame allocator: task_create is the only    *)
(* caller of kmalloc in the kernel, nothing calls kfree.  A task_t carries *)
(* its stack of 4096 words, so it spans TaskPages frames from the one      *)
(* kmalloc returned, and kmalloc reserves that one only.                   *)
(*                                                                         *)
(* Of these frames task_create itself writes the first, with id to regs,   *)
(* and the last, with next.  No code loads the registers of a task, so the *)
(* stack in between is never used.  The model ends where the bitmap is     *)
(* overwritten: any task may then be given the memory of another.          *)
(***************************************************************************)
EXTENDS Integers, FiniteSets

CONSTANTS
    TotalFrames, WordBits, BitmapFrames, MaxUsed,   \* of Memory
    Creations,                                      \* of Scheduler
    TaskPages,                                      \* pages of a task_t
    MAX_TASKS                                       \* no code reads it

ASSUME KernelAssumption ==
    /\ TotalFrames \in Nat
    /\ WordBits \in Nat \ {0}
    /\ BitmapFrames \subseteq Nat \ {0}
    /\ MaxUsed \in Nat
    /\ Creations \in Nat
    /\ TaskPages \in Nat \ {0}
    /\ MAX_TASKS \in Nat

VARIABLES
    memory_bitmap, used_frames, live, null_marks, peak, clobbered,
    task_list, current_task, next_task_id, state, passed,
    base     \* the frame at which the task_t of each task starts

Mem == INSTANCE Memory
Sched == INSTANCE Scheduler

mem_vars == <<memory_bitmap, used_frames, live, null_marks, peak, clobbered>>
sched_vars == <<task_list, current_task, next_task_id, state, passed>>
vars == <<mem_vars, sched_vars, base>>

Created == 1 .. next_task_id - 1

\* Where task_create stores when kmalloc has returned frame f: the ends of
\* sizeof(task_t) bytes.
Written(f) == {f, f + TaskPages - 1}

Init ==
    /\ Mem!memory_init
    /\ Sched!scheduler_init
    /\ base = [t \in Sched!Tasks |-> 0]

-----------------------------------------------------------------------------
task_create ==
    /\ ~clobbered
    /\ Sched!task_create
    /\ \E f \in Mem!Frames :
          /\ Written(f) \cap BitmapFrames = {}
          /\ Mem!kmalloc(f)
          /\ base' = [base EXCEPT ![next_task_id] = f]

\* The same where the task_t reaches the frames of the bitmap: the frame is
\* marked, and then the bitmap is what task_create stored.
task_create_over_bitmap ==
    /\ ~clobbered
    /\ Sched!task_create
    /\ used_frames < MaxUsed
    /\ \E f \in Mem!FirstFree(memory_bitmap) \ {Mem!NULL} :
          /\ Written(f) \cap BitmapFrames # {}
          /\ live' = [live EXCEPT ![f] = @ + 1]
          /\ base' = [base EXCEPT ![next_task_id] = f]
    /\ memory_bitmap' \in SUBSET Mem!Managed
    /\ clobbered' = TRUE
    /\ used_frames' = used_frames + 1
    /\ peak' = Mem!Larger(peak, used_frames + 1)
    /\ UNCHANGED null_marks

\* The first call gets frame 0, which is NULL to task_create.  (When memory is
\* exhausted, task_create returns NULL and nothing changes.)
task_create_null ==
    /\ ~clobbered
    /\ Mem!kmalloc_frame_zero
    /\ UNCHANGED <<sched_vars, base>>

\* Mutant: task_terminate frees the task's memory and leaves it in the list.
schedule_freeing ==
    \/ /\ ~clobbered
       /\ \E t \in Sched!Tasks : Sched!task_terminate(t) /\ Mem!kfree(base[t])
       /\ UNCHANGED base
    \/ /\ ~clobbered
       /\ Sched!scheduler_next \/ Sched!scheduler_yield
       /\ UNCHANGED <<mem_vars, base>>

\* task_terminate, scheduler_next and scheduler_yield: no memory changes hands.
schedule ==
    /\ ~clobbered
    /\ \/ \E t \in Sched!Tasks : Sched!task_terminate(t)
       \/ Sched!scheduler_next
       \/ Sched!scheduler_yield
    /\ UNCHANGED <<mem_vars, base>>

\* The model ends here.
overwritten == clobbered /\ UNCHANGED vars

Next ==
    \/ task_create
    \/ task_create_over_bitmap
    \/ task_create_null
    \/ schedule
    \/ overwritten

Spec == Init /\ [][Next]_vars

-----------------------------------------------------------------------------
\* The scheduler never looks at freed memory: every task in the list, a
\* terminated one too, still owns the frame it starts in, and no two tasks
\* start in the same frame, while the bitmap is intact.
ListedTasksKeepTheirFrame ==
    ~clobbered =>
        \A t \in Created :
            /\ base[t] \in memory_bitmap
            /\ \A u \in Created : base[t] = base[u] => t = u

\* A task_t is longer than the frame reserved for it, so tasks reach the bitmap
\* before kmalloc hands its frame out: but not before as many were created as
\* fit whole below it.
BitmapOutOfReach ==
    (\A f \in BitmapFrames : next_task_id - 1 + TaskPages <= f) => ~clobbered

\* Termination gives nothing back: frames in use are those of all tasks ever
\* created, whatever their state, and frame 0.
TerminatedKeepMemory ==
    ~clobbered => used_frames = Cardinality(Created) + null_marks

-----------------------------------------------------------------------------
\* docs/technical.md line 64: up to MAX_TASKS tasks are supported.  That many
\* tasks already reach the frames the allocator's bitmap lives in.
DocumentedTasksFit ==
    next_task_id - 1 <= MAX_TASKS => ~clobbered
=============================================================================
