-------------------------- MODULE KernelTasksProofs --------------------------
(***************************************************************************)
(* Proofs about the scheduler on top of the allocator, for every machine   *)
(* and every size of a task_t.                                             *)
(***************************************************************************)
EXTENDS KernelTasks, FiniteSetTheorems, TLAPS

\* No kfree is called, so first fit hands the frames out in order: 0, which
\* comes back as NULL, then frame t to task t.
FramesInOrder ==
    ~clobbered =>
        /\ memory_bitmap = IF null_marks = 0 THEN {} ELSE 0 .. next_task_id - 1
        /\ null_marks = 0 => next_task_id = 1
        /\ \A t \in Created : base[t] = t

\* Every task created has cost one frame, and so has the frame 0 that was lost.
OneFrameEach == ~clobbered => used_frames = next_task_id - 1 + null_marks

\* The bitmap is stored over by a task_t that reaches it.
ClobberedByReach ==
    clobbered => \E f \in BitmapFrames : f < next_task_id - 1 + TaskPages

TypeInv ==
    /\ next_task_id \in Nat \ {0}
    /\ next_task_id <= Creations + 1
    /\ null_marks \in Nat
    /\ base \in [Sched!Tasks -> Int]

IInv == TypeInv /\ FramesInOrder /\ OneFrameEach /\ ClobberedByReach

LEMMA ManagedFacts ==
    /\ Mem!Managed \subseteq Nat
    /\ \A f \in Mem!Managed : 0 .. f \subseteq Mem!Managed
<1>1. TotalFrames \div WordBits \in Int
  BY KernelAssumption
<1>2. Mem!WordFrames(TotalFrames, WordBits) \in Int
  BY <1>1, KernelAssumption DEF Mem!WordFrames
<1> QED BY <1>2 DEF Mem!Managed

LEMMA InitIInv == Init => IInv
<1> SUFFICES ASSUME Init PROVE IInv
  OBVIOUS
<1>1. /\ next_task_id = 1 /\ null_marks = 0 /\ clobbered = FALSE
      /\ used_frames = 0
      /\ memory_bitmap = {}
      /\ base = [t \in Sched!Tasks |-> 0]
  BY DEF Init, Mem!memory_init, Sched!scheduler_init
<1>2. TypeInv
  <2>1. base \in [Sched!Tasks -> Int]
    BY <1>1
  <2> QED BY <1>1, <2>1, KernelAssumption DEF TypeInv
<1>3. FramesInOrder /\ OneFrameEach /\ ClobberedByReach
  BY <1>1 DEF FramesInOrder, OneFrameEach, ClobberedByReach, Created
<1> QED BY <1>2, <1>3 DEF IInv

LEMMA CreateStep == ASSUME IInv, task_create PROVE IInv'
<1> DEFINE n == next_task_id
<1>1. PICK f \in Mem!Frames :
        /\ Mem!kmalloc(f)
        /\ base' = [base EXCEPT ![next_task_id] = f]
  BY DEF task_create
<1>2. /\ n \in Sched!Tasks
      /\ n' = n + 1
      /\ memory_bitmap' = memory_bitmap \cup {f}
      /\ used_frames' = used_frames + 1
      /\ UNCHANGED <<null_marks, clobbered>>
      /\ f \in Mem!Managed \ memory_bitmap /\ f # 0
      /\ \A g \in Mem!Managed \ memory_bitmap : f <= g
  BY <1>1 DEF task_create, Sched!task_create, Mem!kmalloc, Mem!set_frame,
              Mem!Set, Mem!FirstFree, Mem!NULL
<1>3. f \in Nat /\ n \in Nat /\ n >= 1 /\ n <= Creations
  BY <1>2, ManagedFacts, KernelAssumption DEF Sched!Tasks, IInv, TypeInv
<1>4. TypeInv'
  BY <1>1, <1>2, <1>3, KernelAssumption DEF IInv, TypeInv
<1>5. FramesInOrder'
  <2> SUFFICES ASSUME ~clobbered
               PROVE  /\ memory_bitmap' = IF null_marks = 0 THEN {} ELSE 0 .. n
                      /\ null_marks # 0
                      /\ \A t \in 1 .. n : base'[t] = t
    BY <1>2, <1>3 DEF FramesInOrder, Created
  <2>1. 0 \in Mem!Managed
    BY <1>2, <1>3, ManagedFacts
  <2>2. null_marks # 0
    BY <1>2, <1>3, <2>1 DEF IInv, FramesInOrder
  <2>3. memory_bitmap = 0 .. n - 1 /\ \A t \in 1 .. n - 1 : base[t] = t
    BY <2>2 DEF IInv, FramesInOrder, Created
  <2>4. f = n
    <3>1. f >= n
      BY <1>2, <1>3, <2>3
    <3>2. n \in Mem!Managed
      BY <1>2, <1>3, <3>1, ManagedFacts
    <3> QED BY <1>2, <1>3, <2>3, <3>1, <3>2
  <2>5. memory_bitmap' = 0 .. n
    BY <1>2, <1>3, <2>3, <2>4
  <2>6. \A t \in 1 .. n : base'[t] = t
    BY <1>1, <1>2, <1>3, <2>3, <2>4 DEF IInv, TypeInv, Sched!Tasks
  <2> QED BY <2>2, <2>5, <2>6
<1>6. OneFrameEach'
  BY <1>2, <1>3 DEF OneFrameEach, IInv, TypeInv
<1>7. ClobberedByReach'
  <2> SUFFICES ASSUME clobbered'
               PROVE  \E g \in BitmapFrames : g < next_task_id' - 1 + TaskPages
    BY DEF ClobberedByReach
  <2>1. PICK g \in BitmapFrames : g < n - 1 + TaskPages
    BY <1>2 DEF IInv, ClobberedByReach
  <2>2. g \in Nat
    BY KernelAssumption
  <2>3. g < next_task_id' - 1 + TaskPages
    BY <1>2, <1>3, <2>1, <2>2, KernelAssumption
  <2> QED BY <2>3
<1> QED BY <1>4, <1>5, <1>6, <1>7 DEF IInv

LEMMA NullStep == ASSUME IInv, task_create_null PROVE IInv'
<1>1. UNCHANGED <<next_task_id, base, clobbered>>
  BY DEF task_create_null, sched_vars, Mem!kmalloc_frame_zero, Mem!set_frame
<1>2. /\ 0 \notin memory_bitmap
      /\ memory_bitmap' = memory_bitmap \cup {0}
      /\ null_marks' = null_marks + 1
      /\ used_frames' = used_frames + 1
  BY DEF task_create_null, Mem!kmalloc_frame_zero, Mem!set_frame, Mem!Set,
         Mem!FirstFree, Mem!NULL
<1>3. TypeInv'
  BY <1>1, <1>2 DEF IInv, TypeInv
<1>4. FramesInOrder'
  <2> SUFFICES ASSUME ~clobbered
               PROVE  /\ memory_bitmap' = 0 .. next_task_id - 1
                      /\ \A t \in Created : base[t] = t
    BY <1>1, <1>2 DEF FramesInOrder, IInv, TypeInv, Created
  <2>1. null_marks = 0
    BY <1>2 DEF IInv, TypeInv, FramesInOrder
  <2> QED BY <1>2, <2>1 DEF IInv, FramesInOrder
<1>5. OneFrameEach'
  BY <1>1, <1>2 DEF OneFrameEach, IInv, TypeInv
<1> QED BY <1>1, <1>3, <1>4, <1>5 DEF IInv, ClobberedByReach

LEMMA ScheduleStep == ASSUME IInv, schedule PROVE IInv'
<1>1. /\ UNCHANGED <<next_task_id, base, memory_bitmap, null_marks, clobbered>>
      /\ UNCHANGED used_frames
  BY DEF schedule, mem_vars, Sched!task_terminate, Sched!scheduler_next,
         Sched!scheduler_yield, Sched!scheduler_switch
<1> QED BY <1>1 DEF IInv, TypeInv, FramesInOrder, OneFrameEach, ClobberedByReach,
                    Created

LEMMA OverwriteStep == ASSUME IInv, task_create_over_bitmap PROVE IInv'
<1> DEFINE n == next_task_id
<1>1. PICK f \in Mem!FirstFree(memory_bitmap) \ {Mem!NULL} :
        /\ Written(f) \cap BitmapFrames # {}
        /\ base' = [base EXCEPT ![next_task_id] = f]
  BY DEF task_create_over_bitmap
<1>2. /\ n \in Sched!Tasks
      /\ n' = n + 1
      /\ UNCHANGED null_marks
      /\ ~clobbered /\ clobbered' = TRUE
      /\ f \in Mem!Managed \ memory_bitmap /\ f # 0
      /\ \A g \in Mem!Managed \ memory_bitmap : f <= g
  BY <1>1 DEF task_create_over_bitmap, Sched!task_create, Mem!FirstFree, Mem!NULL
<1>3. f \in Nat /\ n \in Nat /\ n >= 1 /\ n <= Creations
  BY <1>2, ManagedFacts, KernelAssumption DEF Sched!Tasks, IInv, TypeInv
<1>4. TypeInv'
  BY <1>1, <1>2, <1>3, KernelAssumption DEF IInv, TypeInv
<1>5. FramesInOrder'
  BY <1>2 DEF FramesInOrder
<1>6. f <= n
  <2>1. 0 \in Mem!Managed
    BY <1>2, <1>3, ManagedFacts
  <2>2. null_marks # 0
    BY <1>2, <1>3, <2>1 DEF IInv, FramesInOrder
  <2>3. memory_bitmap = 0 .. n - 1
    BY <1>2, <2>2 DEF IInv, FramesInOrder
  <2>4. CASE f > n
    <3>1. n \in Mem!Managed
      BY <1>2, <1>3, <2>4, ManagedFacts
    <3> QED BY <1>2, <1>3, <2>3, <2>4, <3>1
  <2> QED BY <1>3, <2>4
<1>7. \E g \in BitmapFrames : g < next_task_id' - 1 + TaskPages
  <2>1. PICK g \in BitmapFrames : g \in Written(f)
    BY <1>1
  <2>2. g <= f + TaskPages - 1
    BY <1>3, <2>1, KernelAssumption DEF Written
  <2>3. g \in Nat
    BY KernelAssumption
  <2> QED BY <1>2, <1>3, <1>6, <2>2, <2>3, KernelAssumption
<1> QED BY <1>2, <1>4, <1>5, <1>7 DEF IInv, OneFrameEach, ClobberedByReach

LEMMA NextIInv == IInv /\ [Next]_vars => IInv'
<1>1. ASSUME IInv, UNCHANGED vars PROVE IInv'
  BY <1>1 DEF vars, mem_vars, sched_vars, IInv, TypeInv, FramesInOrder,
              OneFrameEach, ClobberedByReach, Created
<1>2. ASSUME IInv, overwritten PROVE IInv'
  BY <1>1, <1>2 DEF overwritten
<1> QED
  BY <1>1, <1>2, CreateStep, OverwriteStep, NullStep, ScheduleStep DEF Next

LEMMA SpecIInv == Spec => []IInv
<1> QED BY InitIInv, NextIInv, PTL DEF Spec

-----------------------------------------------------------------------------
\* The bitmap is safe for as long as the tasks created fit whole below it: with
\* the bitmap in frame 256 and five pages to a task, for the first 251 tasks.
THEOREM BitmapSafeFromTasks == Spec => []BitmapOutOfReach
<1>1. IInv => BitmapOutOfReach
  <2> SUFFICES ASSUME IInv, clobbered,
                      \A f \in BitmapFrames : next_task_id - 1 + TaskPages <= f
               PROVE  FALSE
    BY DEF BitmapOutOfReach, IInv
  <2>1. PICK f \in BitmapFrames : f < next_task_id - 1 + TaskPages
    BY DEF IInv, ClobberedByReach
  <2> QED BY <2>1, KernelAssumption DEF IInv, TypeInv
<1> QED BY <1>1, SpecIInv, PTL

\* The scheduler's list never names freed or shared memory while the bitmap is
\* intact.
THEOREM TasksKeepTheirFrames == Spec => []ListedTasksKeepTheirFrame
<1>1. IInv => ListedTasksKeepTheirFrame
  <2> SUFFICES ASSUME IInv, ~clobbered, NEW t \in Created
               PROVE  /\ base[t] \in memory_bitmap
                      /\ \A u \in Created : base[t] = base[u] => t = u
    BY DEF ListedTasksKeepTheirFrame
  <2>1. \A u \in Created : base[u] = u
    BY DEF IInv, FramesInOrder
  <2>2. next_task_id # 1 /\ t \in 0 .. next_task_id - 1
    BY DEF Created, IInv, TypeInv
  <2>3. memory_bitmap = 0 .. next_task_id - 1
    BY <2>2 DEF IInv, FramesInOrder
  <2> QED BY <2>1, <2>2, <2>3
<1> QED BY <1>1, SpecIInv, PTL

\* Termination gives no memory back: as many frames are in use as tasks were ever
\* created, and the lost frame 0.
THEOREM MemoryOfTheDead == Spec => []TerminatedKeepMemory
<1>1. IInv => TerminatedKeepMemory
  <2> SUFFICES ASSUME IInv, ~clobbered
               PROVE  used_frames = Cardinality(Created) + null_marks
    BY DEF TerminatedKeepMemory
  <2>1. Cardinality(1 .. next_task_id - 1) = next_task_id - 1
    <3>1. CASE next_task_id = 1
      BY <3>1, FS_Interval
    <3>2. CASE next_task_id > 1
      <4>1. Cardinality(1 .. next_task_id - 1) = next_task_id - 1 - 1 + 1
        BY <3>2, FS_Interval DEF IInv, TypeInv
      <4> QED BY <4>1 DEF IInv, TypeInv
    <3> QED BY <3>1, <3>2 DEF IInv, TypeInv
  <2> QED BY <2>1 DEF IInv, OneFrameEach, Created
<1> QED BY <1>1, SpecIInv, PTL
=============================================================================
