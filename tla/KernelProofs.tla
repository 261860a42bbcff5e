---------------------------- MODULE KernelProofs ----------------------------
(***************************************************************************)
(* Proofs about the frame allocator and about the task scheduler, each by  *)
(* itself: for every machine and for every number of tasks.                *)
(***************************************************************************)
EXTENDS Memory, Scheduler, FiniteSetTheorems, TLAPS

-----------------------------------------------------------------------------
\* The frame allocator.

\* The managed frames are an initial segment of the naturals, hence finite.
LEMMA ManagedFinite ==
    /\ WordFrames(TotalFrames, WordBits) \in Int
    /\ Managed \subseteq Nat
    /\ IsFiniteSet(Managed)
<1>1. TotalFrames \div WordBits \in Int
  BY FramesAssumption
<1>2. WordFrames(TotalFrames, WordBits) \in Int
  BY <1>1, FramesAssumption DEF WordFrames
<1>3. Managed \subseteq Nat
  BY <1>2 DEF Managed
<1>4. IsFiniteSet(Managed)
  BY <1>2, FS_Interval DEF Managed
<1> QED BY <1>2, <1>3, <1>4

\* What first_free_frame returns is a clear bit, and all frames below it are
\* set, so that it is at most the number of set bits.
LEMMA FirstFreeBelowCount ==
    ASSUME NEW b \in SUBSET Managed, NEW f \in FirstFree(b)
    PROVE  /\ f \in Managed \ b
           /\ f <= Cardinality(b)
<1>1. f \in Managed \ b /\ f \in Nat
  BY ManagedFinite DEF FirstFree
<1>2. 0 .. f - 1 \subseteq b
  <2> SUFFICES ASSUME NEW g \in 0 .. f - 1
               PROVE  g \in b
    OBVIOUS
  <2>1. g \in Managed
    BY <1>1, ManagedFinite DEF Managed
  <2>2. g \notin Managed \ b
    BY <1>1 DEF FirstFree
  <2> QED BY <2>1, <2>2
<1>3. IsFiniteSet(b)
  BY ManagedFinite, FS_Subset
<1>4. Cardinality(0 .. f - 1) <= Cardinality(b)
  BY <1>2, <1>3, FS_Subset
<1>5. Cardinality(0 .. f - 1) = f
  <2>1. CASE f = 0
    BY <2>1, FS_Interval
  <2>2. CASE f > 0
    <3>1. Cardinality(0 .. f - 1) = f - 1 - 0 + 1
      BY <1>1, <2>2, FS_Interval
    <3> QED BY <3>1, <1>1
  <2> QED BY <2>1, <2>2, <1>1
<1> QED BY <1>1, <1>4, <1>5

-----------------------------------------------------------------------------
\* The bitmap can only have been overwritten by the owner of one of its frames,
\* and first fit hands such a frame out only once more frames are in use than
\* lie below it.
ClobberedOnlyAbove ==
    clobbered => \E f \in BitmapFrames : f < peak

\* The inductive invariant.  The three conditional parts need one another: the
\* count of set bits bounds the frame first fit returns, the owners justify the
\* count across kfree.
MemoryInv ==
    /\ MemoryTypeOK
    /\ BitmapTracksOwners
    /\ UsedFramesCountsBits
    /\ FirstFitPacks
    /\ ClobberedOnlyAbove

LEMMA InitMemoryInv == memory_init => MemoryInv
<1> SUFFICES ASSUME memory_init PROVE MemoryInv
  OBVIOUS
<1>1. MemoryTypeOK
  <2>1. live \in [Managed -> Nat]
    BY DEF memory_init
  <2>2. memory_bitmap \in SUBSET Managed /\ clobbered \in BOOLEAN
    BY DEF memory_init
  <2> QED BY <2>1, <2>2 DEF memory_init, MemoryTypeOK
<1>2. BitmapTracksOwners
  BY DEF memory_init, BitmapTracksOwners
<1>3. UsedFramesCountsBits
  BY FS_EmptySet DEF memory_init, UsedFramesCountsBits
<1>4. FirstFitPacks /\ ClobberedOnlyAbove
  BY DEF memory_init, FirstFitPacks, ClobberedOnlyAbove
<1> QED BY <1>1, <1>2, <1>3, <1>4 DEF MemoryInv

\* set_frame, as both forms of a successful kmalloc use it.
LEMMA SetFrameKeepsCount ==
    ASSUME MemoryInv, NEW f \in FirstFree(memory_bitmap), set_frame(f)
    PROVE  /\ memory_bitmap' \in SUBSET Managed
           /\ used_frames' \in Int
           /\ peak' \in Nat /\ peak' >= peak
           /\ f \in Managed \ memory_bitmap
           /\ UsedFramesCountsBits'
           /\ FirstFitPacks'
<1>1. f \in Managed \ memory_bitmap /\ f <= Cardinality(memory_bitmap)
  BY FirstFreeBelowCount DEF MemoryInv, MemoryTypeOK
<1>2. memory_bitmap' \in SUBSET Managed
  BY <1>1 DEF set_frame, Set, MemoryInv, MemoryTypeOK
<1>3. used_frames' \in Int /\ peak' \in Nat /\ peak' >= peak
      /\ peak' >= used_frames + 1
  BY DEF set_frame, Larger, MemoryInv, MemoryTypeOK
<1>4. UsedFramesCountsBits'
  <2>1. IsFiniteSet(memory_bitmap)
    BY ManagedFinite, FS_Subset DEF MemoryInv, MemoryTypeOK
  <2>2. Cardinality(memory_bitmap') = Cardinality(memory_bitmap) + 1
    BY <1>1, <2>1, FS_AddElement DEF set_frame, Set
  <2> QED BY <2>2 DEF set_frame, MemoryInv, UsedFramesCountsBits
<1>5. FirstFitPacks'
  <2> SUFFICES ASSUME ~clobbered, NEW g \in memory_bitmap'
               PROVE  g < peak'
    BY DEF set_frame, FirstFitPacks
  <2>1. CASE g = f
    <3>1. f < used_frames + 1
      BY <1>1, ManagedFinite DEF MemoryInv, UsedFramesCountsBits, MemoryTypeOK
    <3> QED BY <2>1, <3>1, <1>1, <1>3, ManagedFinite DEF MemoryInv, MemoryTypeOK
  <2>2. CASE g \in memory_bitmap
    <3>1. g < peak /\ g \in Nat
      BY <2>2, ManagedFinite DEF MemoryInv, FirstFitPacks, MemoryTypeOK
    <3> QED BY <3>1, <1>3 DEF MemoryInv, MemoryTypeOK
  <2> QED BY <2>1, <2>2 DEF set_frame, Set
<1> QED BY <1>1, <1>2, <1>3, <1>4, <1>5

LEMMA NextMemoryInv == MemoryInv /\ [MemoryNext]_memory_vars => MemoryInv'
<1> SUFFICES ASSUME MemoryInv, [MemoryNext]_memory_vars PROVE MemoryInv'
  OBVIOUS
<1> USE DEF MemoryInv
<1>1. ASSUME NEW f \in Frames, kmalloc(f) PROVE MemoryInv'
  <2>1. f \in FirstFree(memory_bitmap) /\ f # NULL /\ set_frame(f)
        /\ live' = [live EXCEPT ![f] = @ + 1]
        /\ UNCHANGED <<null_marks, clobbered>>
    BY <1>1 DEF kmalloc, set_frame
  <2>2. f \in Managed \ memory_bitmap /\ peak' \in Nat /\ peak' >= peak
        /\ UsedFramesCountsBits' /\ FirstFitPacks'
    BY <2>1, SetFrameKeepsCount
  <2>3. MemoryTypeOK'
    BY <2>1, <2>2, SetFrameKeepsCount DEF MemoryTypeOK
  <2>4. BitmapTracksOwners'
    BY <2>1, <2>2 DEF BitmapTracksOwners, MemoryTypeOK, set_frame, Set
  <2>5. ClobberedOnlyAbove'
    BY <2>1, <2>2, BitmapAssumption DEF ClobberedOnlyAbove, MemoryTypeOK
  <2> QED BY <2>2, <2>3, <2>4, <2>5
<1>2. ASSUME kmalloc_frame_zero PROVE MemoryInv'
  <2>1. NULL \in FirstFree(memory_bitmap) /\ set_frame(NULL)
        /\ null_marks' = null_marks + 1
        /\ UNCHANGED <<live, clobbered>>
    BY <1>2 DEF kmalloc_frame_zero, set_frame
  <2>2. peak' \in Nat /\ peak' >= peak
        /\ UsedFramesCountsBits' /\ FirstFitPacks'
    BY <2>1, SetFrameKeepsCount
  <2>3. MemoryTypeOK'
    BY <2>1, SetFrameKeepsCount DEF MemoryTypeOK
  <2>4. BitmapTracksOwners'
    BY <2>1 DEF BitmapTracksOwners, set_frame, Set
  <2>5. ClobberedOnlyAbove'
    BY <2>1, <2>2, BitmapAssumption DEF ClobberedOnlyAbove, MemoryTypeOK
  <2> QED BY <2>2, <2>3, <2>4, <2>5
<1>3. ASSUME kmalloc_exhausted PROVE MemoryInv'
  BY <1>3 DEF kmalloc_exhausted, memory_vars, MemoryTypeOK, BitmapTracksOwners,
              UsedFramesCountsBits, FirstFitPacks, ClobberedOnlyAbove
<1>4. ASSUME NEW f \in Managed, kfree(f) PROVE MemoryInv'
  <2>1. MemoryTypeOK'
    BY <1>4 DEF kfree, Clear, MemoryTypeOK
  <2>2. BitmapTracksOwners'
    BY <1>4 DEF kfree, Clear, BitmapTracksOwners, MemoryTypeOK
  <2>3. UsedFramesCountsBits'
    <3> SUFFICES ASSUME ~clobbered PROVE used_frames' = Cardinality(memory_bitmap')
      BY <1>4 DEF kfree, UsedFramesCountsBits
    <3>1. f \in memory_bitmap
      BY <1>4 DEF kfree, BitmapTracksOwners
    <3>2. IsFiniteSet(memory_bitmap)
      BY ManagedFinite, FS_Subset DEF MemoryTypeOK
    <3>3. Cardinality(memory_bitmap \ {f}) = Cardinality(memory_bitmap) - 1
      BY <3>1, <3>2, FS_RemoveElement
    <3> QED BY <1>4, <3>3 DEF kfree, Clear, UsedFramesCountsBits
  <2>4. FirstFitPacks' /\ ClobberedOnlyAbove'
    BY <1>4 DEF kfree, Clear, FirstFitPacks, ClobberedOnlyAbove
  <2> QED BY <2>1, <2>2, <2>3, <2>4
<1>5. ASSUME owner_stores PROVE MemoryInv'
  <2>1. PICK f \in BitmapFrames \cap Managed : live[f] > 0
    BY <1>5 DEF owner_stores
  <2>2. f < peak \/ clobbered
    <3> SUFFICES ASSUME ~clobbered PROVE f < peak
      OBVIOUS
    <3>1. f # NULL
      BY BitmapAssumption DEF NULL
    <3>2. f \in memory_bitmap
      BY <2>1, <3>1 DEF BitmapTracksOwners
    <3> QED BY <3>2 DEF FirstFitPacks
  <2>3. ClobberedOnlyAbove'
    BY <1>5, <2>2 DEF owner_stores, ClobberedOnlyAbove
  <2> QED
    BY <1>5, <2>3 DEF owner_stores, MemoryTypeOK, BitmapTracksOwners,
                      UsedFramesCountsBits, FirstFitPacks
<1>6. ASSUME UNCHANGED memory_vars PROVE MemoryInv'
  BY <1>6 DEF memory_vars, MemoryTypeOK, BitmapTracksOwners, UsedFramesCountsBits,
              FirstFitPacks, ClobberedOnlyAbove
<1> QED BY <1>1, <1>2, <1>3, <1>4, <1>5, <1>6 DEF MemoryNext

LEMMA SpecMemoryInv == MemorySpec => []MemoryInv
<1> QED BY InitMemoryInv, NextMemoryInv, PTL DEF MemorySpec

\* What the invariant says of the frames of the bitmap.
LEMMA InvBitmapSafe == MemoryInv => BitmapSafeBelowItsFrames
<1> SUFFICES ASSUME MemoryInv, \A f \in BitmapFrames : peak <= f
             PROVE  /\ ~clobbered
                    /\ \A f \in BitmapFrames \cap Managed : live[f] = 0
  BY DEF BitmapSafeBelowItsFrames
<1>1. ~clobbered
  BY BitmapAssumption DEF MemoryInv, MemoryTypeOK, ClobberedOnlyAbove
<1>2. ASSUME NEW f \in BitmapFrames \cap Managed PROVE live[f] = 0
  <2>1. f # NULL /\ f \in Nat
    BY BitmapAssumption DEF NULL
  <2>2. f \notin memory_bitmap
    BY <1>1, <2>1 DEF MemoryInv, MemoryTypeOK, FirstFitPacks
  <2> QED BY <1>1, <2>1, <2>2 DEF MemoryInv, BitmapTracksOwners
<1> QED BY <1>1, <1>2

-----------------------------------------------------------------------------
\* Every variable of the allocator keeps its type: the bitmap marks managed
\* frames only, whoever stores over it.
THEOREM MemoryTypes == MemorySpec => []MemoryTypeOK
<1> QED BY SpecMemoryInv, PTL DEF MemoryInv

\* kmalloc and kfree keep the bitmap in step with the owners of frames for as
\* long as no owner has stored over it.
THEOREM AllocatorExact == MemorySpec => []BitmapTracksOwners
<1> QED BY SpecMemoryInv, PTL DEF MemoryInv

\* They keep the counter of used frames in step with the bitmap, too.
THEOREM UsageExact == MemorySpec => []UsedFramesCountsBits
<1> QED BY SpecMemoryInv, PTL DEF MemoryInv

\* First fit: a marked frame lies below the largest number of frames that were
\* ever in use at once.
THEOREM Packed == MemorySpec => []FirstFitPacks
<1> QED BY SpecMemoryInv, PTL DEF MemoryInv

\* The bitmap at 1 MB cannot be handed out, and so cannot be overwritten by a
\* caller, before more frames have been in use at once than lie below it: with
\* the bitmap at frame 256, before the 257th.
THEOREM BitmapSafe == MemorySpec => []BitmapSafeBelowItsFrames
<1> QED BY SpecMemoryInv, InvBitmapSafe, PTL

-----------------------------------------------------------------------------
\* The task scheduler.

\* Tasks are prepended and never removed, and ids are given in order: the list
\* holds every task, newest first.
NewestFirst ==
    /\ Len(task_list) = next_task_id - 1
    /\ \A i \in 1 .. Len(task_list) : task_list[i] = next_task_id - i

IdsInOrder ==
    /\ current_task < next_task_id
    /\ \A t \in Tasks : state[t] # UNUSED => t < next_task_id

\* Going round the list from the current task, that is to smaller ids and then
\* from the newest id down, a waiting task comes before every task that has
\* passed it.
PassedAreBehind ==
    \A t \in Tasks : \A u \in passed[t] :
        state[t] = READY /\ t # current_task =>
            /\ current_task # NoTask
            /\ t < current_task => u < t \/ current_task <= u
            /\ current_task < t => current_task <= u /\ u < t

\* The inductive invariant: NewestFirst turns places in the list into an order
\* on ids, in which PassedAreBehind is stated.
SchedulerInv ==
    /\ TypeOK
    /\ NewestFirst
    /\ IdsInOrder
    /\ RunningIsCurrent
    /\ PassedAreBehind

LEMMA InitSchedulerInv == scheduler_init => SchedulerInv
<1> SUFFICES ASSUME scheduler_init PROVE SchedulerInv
  OBVIOUS
<1>1. TypeOK
  <2>1. /\ state \in [Tasks -> {READY, RUNNING, TERMINATED, UNUSED}]
        /\ passed \in [Tasks -> SUBSET Tasks]
    BY DEF scheduler_init
  <2>2. /\ task_list \in Seq(Tasks)
        /\ current_task \in Tasks \cup {NoTask}
        /\ next_task_id \in 1 .. Creations + 1
    BY TasksAssumption DEF scheduler_init
  <2> QED BY <2>1, <2>2 DEF TypeOK
<1>2. NewestFirst
  BY DEF scheduler_init, NewestFirst
<1>3. IdsInOrder
  BY DEF scheduler_init, IdsInOrder, NoTask
<1>4. RunningIsCurrent
  BY DEF scheduler_init, RunningIsCurrent, RUNNING, UNUSED
<1>5. PassedAreBehind
  BY DEF scheduler_init, PassedAreBehind
<1> QED BY <1>1, <1>2, <1>3, <1>4, <1>5 DEF SchedulerInv

\* What scheduler_next returns, in terms of ids: a READY task other than the
\* current one, which no other READY task precedes on the way round.
LEMMA NextInIds ==
    ASSUME SchedulerInv, current_task # NoTask, NEW i \in NextPlace
    PROVE  LET next == task_list[i] IN
           /\ i \in 1 .. Len(task_list)
           /\ next \in Tasks /\ next < next_task_id
           /\ state[next] = READY
           /\ next # current_task
           /\ \A t \in Tasks :
                 state[t] = READY /\ t # current_task =>
                    /\ t < current_task => t <= next /\ next < current_task
                    /\ current_task < t => next < current_task \/ t <= next
<1> DEFINE n == next_task_id
           c == current_task
           next == task_list[i]
<1>1. /\ n \in 1 .. Creations + 1 /\ Creations \in Nat
      /\ c \in 1 .. n - 1
      /\ Len(task_list) = n - 1
      /\ DOMAIN task_list = 1 .. n - 1
      /\ \A j \in 1 .. n - 1 : task_list[j] = n - j
  BY TasksAssumption DEF SchedulerInv, TypeOK, NewestFirst, IdsInOrder, Tasks, NoTask
<1>2. \A j \in 1 .. n - 1 :
         /\ j \in ReadyBehind <=> state[n - j] = READY /\ n - j < c
         /\ j \in ReadyBefore <=> state[n - j] = READY /\ c < n - j
  <2> TAKE j \in 1 .. n - 1
  <2>1. (\E k \in 1 .. j - 1 : task_list[k] = c) <=> n - j < c
    <3>1. ASSUME n - j < c PROVE \E k \in 1 .. j - 1 : task_list[k] = c
      <4>1. n - c \in 1 .. j - 1 /\ n - c \in 1 .. n - 1
        BY <1>1, <3>1
      <4>2. task_list[n - c] = c
        BY <1>1, <4>1
      <4> QED BY <4>1, <4>2
    <3>2. ASSUME NEW k \in 1 .. j - 1, task_list[k] = c PROVE n - j < c
      BY <1>1, <3>2
    <3> QED BY <3>1, <3>2
  <2>2. (\A k \in 1 .. j : task_list[k] # c) <=> c < n - j
    <3>1. ASSUME ~(c < n - j) PROVE \E k \in 1 .. j : task_list[k] = c
      <4>1. n - c \in 1 .. j /\ n - c \in 1 .. n - 1
        BY <1>1, <3>1
      <4>2. task_list[n - c] = c
        BY <1>1, <4>1
      <4> QED BY <4>1, <4>2
    <3>2. ASSUME NEW k \in 1 .. j, task_list[k] = c PROVE ~(c < n - j)
      BY <1>1, <3>2
    <3> QED BY <3>1, <3>2
  <2>3. j \in DOMAIN task_list /\ task_list[j] = n - j
    BY <1>1
  <2> QED BY <2>1, <2>2, <2>3 DEF ReadyBehind, ReadyBefore
<1>3. i \in 1 .. n - 1 /\ next = n - i
  BY <1>1 DEF NextPlace, FirstOf, ReadyBehind, ReadyBefore
<1>4. next \in Tasks /\ next < n
  BY <1>1, <1>3 DEF Tasks
<1>5. CASE ReadyBehind # {}
  <2>1. i \in ReadyBehind /\ \A j \in ReadyBehind : i <= j
    BY <1>5 DEF NextPlace, FirstOf
  <2>2. state[next] = READY /\ next < c
    BY <1>2, <1>3, <2>1
  <2>3. ASSUME NEW t \in Tasks, state[t] = READY, t < c PROVE t <= next
    <3>1. n - t \in 1 .. n - 1 /\ n - (n - t) = t
      BY <1>1, <2>3 DEF Tasks
    <3>2. n - t \in ReadyBehind
      BY <1>2, <2>3, <3>1
    <3> QED BY <1>1, <1>3, <2>1, <3>1, <3>2 DEF Tasks
  <2> QED BY <1>1, <1>3, <1>4, <2>2, <2>3 DEF Tasks
<1>6. CASE ReadyBehind = {}
  <2>1. i \in ReadyBefore /\ \A j \in ReadyBefore : i <= j
    BY <1>6 DEF NextPlace, FirstOf
  <2>2. state[next] = READY /\ c < next
    BY <1>2, <1>3, <2>1
  <2>3. ASSUME NEW t \in Tasks, state[t] = READY PROVE t < n
    BY <2>3 DEF SchedulerInv, IdsInOrder, READY, UNUSED
  <2>4. ASSUME NEW t \in Tasks, state[t] = READY, t < c PROVE FALSE
    <3>1. n - t \in 1 .. n - 1 /\ n - (n - t) = t
      BY <1>1, <2>4 DEF Tasks
    <3> QED BY <1>2, <1>6, <2>4, <3>1
  <2>5. ASSUME NEW t \in Tasks, state[t] = READY, c < t PROVE t <= next
    <3>1. n - t \in 1 .. n - 1 /\ n - (n - t) = t
      BY <1>1, <2>3, <2>5 DEF Tasks
    <3>2. n - t \in ReadyBefore
      BY <1>2, <2>5, <3>1
    <3> QED BY <1>1, <1>3, <2>1, <3>1, <3>2 DEF Tasks
  <2> QED BY <1>1, <1>3, <1>4, <2>2, <2>4, <2>5 DEF Tasks
<1> QED BY <1>5, <1>6

LEMMA NextSchedulerInv == SchedulerInv /\ [Next]_vars => SchedulerInv'
<1> SUFFICES ASSUME SchedulerInv, [Next]_vars PROVE SchedulerInv'
  OBVIOUS
<1>1. ASSUME task_create PROVE SchedulerInv'
  <2> DEFINE n == next_task_id
  <2>1. n \in Tasks /\ n \in Nat /\ n' = n + 1 /\ n' \in 1 .. Creations + 1
    BY <1>1, TasksAssumption DEF task_create, SchedulerInv, TypeOK, Tasks
  <2>2. /\ task_list' \in Seq(Tasks)
        /\ Len(task_list') = Len(task_list) + 1
        /\ task_list'[1] = n
        /\ \A i \in 2 .. Len(task_list) + 1 : task_list'[i] = task_list[i - 1]
    BY <1>1, <2>1 DEF task_create, Insert, SchedulerInv, TypeOK
  <2>3. TypeOK'
    BY <1>1, <2>1, <2>2 DEF task_create, SchedulerInv, TypeOK, READY
  <2>4. NewestFirst'
    <3>1. Len(task_list) = n - 1
          /\ \A i \in 1 .. n - 1 : task_list[i] = n - i
      BY DEF SchedulerInv, NewestFirst
    <3>2. Len(task_list') = n' - 1
      BY <2>1, <2>2, <3>1
    <3>3. ASSUME NEW i \in 1 .. n PROVE task_list'[i] = n' - i
      <4>1. CASE i = 1
        BY <2>1, <2>2, <4>1
      <4>2. CASE i # 1
        <5>1. i - 1 \in 1 .. n - 1 /\ i \in 2 .. n
          BY <2>1, <4>2
        <5>2. task_list'[i] = n - (i - 1)
          BY <2>1, <2>2, <3>1, <5>1
        <5> QED BY <2>1, <5>1, <5>2
      <4> QED BY <4>1, <4>2
    <3> QED BY <2>1, <3>2, <3>3 DEF NewestFirst
  <2>5. IdsInOrder'
    BY <1>1, <2>1 DEF task_create, SchedulerInv, TypeOK, IdsInOrder, Tasks, NoTask
  <2>6. RunningIsCurrent'
    BY <1>1 DEF task_create, SchedulerInv, TypeOK, RunningIsCurrent, READY, RUNNING
  <2>7. PassedAreBehind'
    <3> SUFFICES ASSUME NEW t \in Tasks, NEW u \in passed'[t],
                        state'[t] = READY, t # current_task'
                 PROVE  /\ current_task # NoTask
                        /\ t < current_task => u < t \/ current_task <= u
                        /\ current_task < t => current_task <= u /\ u < t
      BY <1>1 DEF task_create, PassedAreBehind
    <3>1. t # n
      BY <1>1, <2>1 DEF task_create, SchedulerInv, TypeOK
    <3>2. state[t] = READY /\ u \in passed[t] /\ t # current_task
      BY <1>1, <3>1 DEF task_create, SchedulerInv, TypeOK
    <3> QED BY <3>2 DEF SchedulerInv, PassedAreBehind
  <2> QED BY <2>3, <2>4, <2>5, <2>6, <2>7 DEF SchedulerInv
<1>2. ASSUME NEW t \in Tasks, task_terminate(t) PROVE SchedulerInv'
  <2>1. TypeOK'
    BY <1>2 DEF task_terminate, SchedulerInv, TypeOK, TERMINATED
  <2>2. NewestFirst' /\ IdsInOrder'
    BY <1>2 DEF task_terminate, SchedulerInv, TypeOK, NewestFirst, IdsInOrder
  <2>3. RunningIsCurrent' /\ PassedAreBehind'
    BY <1>2 DEF task_terminate, SchedulerInv, TypeOK, RunningIsCurrent,
                PassedAreBehind, READY, RUNNING, TERMINATED
  <2> QED BY <2>1, <2>2, <2>3 DEF SchedulerInv
<1>3. ASSUME NEW i \in 1 .. Len(task_list), scheduler_switch(i) PROVE SchedulerInv'
  <2> DEFINE next == task_list[i]
             c == current_task
  <2>1. /\ c \in Tasks /\ c # NoTask /\ c' = next
        /\ i \in NextPlace
        /\ state' = Switched(c, next)
        /\ Observe(next)
        /\ UNCHANGED <<task_list, next_task_id>>
    BY <1>3 DEF scheduler_switch, SchedulerInv, TypeOK
  <2>2. /\ next \in Tasks /\ next < next_task_id
        /\ state[next] = READY /\ next # c
        /\ \A t \in Tasks :
              state[t] = READY /\ t # c =>
                 /\ t < c => t <= next /\ next < c
                 /\ c < t => next < c \/ t <= next
    BY <2>1, NextInIds
  <2>3. /\ state'[next] = RUNNING
        /\ state'[c] = Preempted(state[c])
        /\ \A t \in Tasks \ {c, next} : state'[t] = state[t]
        /\ state' \in [Tasks -> {READY, RUNNING, TERMINATED, UNUSED}]
    BY <2>1, <2>2 DEF Switched, Preempted, SchedulerInv, TypeOK, READY, RUNNING
  <2>4. /\ passed'[next] = {}
        /\ passed'[c] = {next}
        /\ \A t \in Tasks \ {c, next} : passed'[t] = passed[t] \cup {next}
        /\ passed' \in [Tasks -> SUBSET Tasks]
    BY <2>1, <2>2 DEF Observe, SchedulerInv, TypeOK
  <2>5. TypeOK'
    BY <2>1, <2>2, <2>3, <2>4 DEF SchedulerInv, TypeOK
  <2>6. NewestFirst'
    BY <2>1 DEF SchedulerInv, NewestFirst
  <2>7. IdsInOrder'
    BY <2>1, <2>2, <2>3 DEF SchedulerInv, IdsInOrder, Preempted, READY, RUNNING, UNUSED
  <2>8. RunningIsCurrent'
    BY <2>1, <2>2, <2>3 DEF SchedulerInv, RunningIsCurrent, Preempted, READY, RUNNING
  <2>9. PassedAreBehind'
    <3> SUFFICES ASSUME NEW t \in Tasks, NEW u \in passed'[t],
                        state'[t] = READY, t # next
                 PROVE  /\ next # NoTask
                        /\ t < next => u < t \/ next <= u
                        /\ next < t => next <= u /\ u < t
      BY <2>1 DEF PassedAreBehind
    <3>1. next # NoTask /\ next \in Int /\ t \in Int /\ c \in Int
      BY <2>1, <2>2 DEF Tasks, NoTask
    <3>2. CASE t = c
      BY <2>4, <3>1, <3>2
    <3>3. CASE t # c
      <4>1. state[t] = READY
        BY <2>3, <3>3
      <4>2. u \in passed[t] \/ u = next
        BY <2>4, <3>3
      <4>3. u \in Int
        BY <2>4 DEF Tasks
      <4>4. CASE u = next
        BY <3>1, <4>4
      <4>5. CASE u \in passed[t]
        <5>1. /\ t < c => u < t \/ c <= u
              /\ c < t => c <= u /\ u < t
          BY <3>3, <4>1, <4>5 DEF SchedulerInv, PassedAreBehind
        <5>2. /\ t < c => t <= next /\ next < c
              /\ c < t => next < c \/ t <= next
          BY <2>2, <3>3, <4>1
        <5> QED BY <3>1, <3>3, <4>3, <5>1, <5>2
      <4> QED BY <4>2, <4>4, <4>5
    <3> QED BY <3>2, <3>3
  <2> QED BY <2>5, <2>6, <2>7, <2>8, <2>9 DEF SchedulerInv
<1>4. ASSUME scheduler_next PROVE SchedulerInv'
  <2> DEFINE h == Head(task_list)
  <2>1. /\ current_task = NoTask /\ current_task' = h /\ Observe(h)
        /\ UNCHANGED <<task_list, next_task_id, state>>
    BY <1>4 DEF scheduler_next
  <2>2. h \in Tasks /\ h < next_task_id
    <3>1. Len(task_list) >= 1 /\ h = task_list[1] /\ h \in Tasks
      BY <1>4 DEF scheduler_next, SchedulerInv, TypeOK
    <3> QED BY <3>1, TasksAssumption DEF SchedulerInv, TypeOK, NewestFirst
  <2>3. /\ passed'[h] = {}
        /\ \A t \in Tasks \ {h} : passed'[t] = passed[t] \cup {h}
        /\ passed' \in [Tasks -> SUBSET Tasks]
    BY <2>1, <2>2 DEF Observe, SchedulerInv, TypeOK, Tasks, NoTask
  <2>4. TypeOK'
    BY <2>1, <2>2, <2>3 DEF SchedulerInv, TypeOK
  <2>5. NewestFirst' /\ IdsInOrder'
    BY <2>1, <2>2 DEF SchedulerInv, NewestFirst, IdsInOrder
  <2>6. RunningIsCurrent'
    BY <2>1 DEF SchedulerInv, RunningIsCurrent, Tasks, NoTask
  <2>7. PassedAreBehind'
    <3> SUFFICES ASSUME NEW t \in Tasks, NEW u \in passed'[t],
                        state'[t] = READY, t # h
                 PROVE  /\ h # NoTask
                        /\ t < h => u < t \/ h <= u
                        /\ h < t => h <= u /\ u < t
      BY <2>1 DEF PassedAreBehind
    <3>1. state[t] = READY /\ t # current_task
      BY <2>1 DEF Tasks, NoTask
    <3>2. u = h
      BY <2>1, <2>3, <3>1 DEF SchedulerInv, PassedAreBehind
    <3> QED BY <2>2, <3>2 DEF Tasks, NoTask
  <2> QED BY <2>4, <2>5, <2>6, <2>7 DEF SchedulerInv
<1>5. ASSUME UNCHANGED vars PROVE SchedulerInv'
  BY <1>5 DEF vars, SchedulerInv, TypeOK, NewestFirst, IdsInOrder, RunningIsCurrent,
              PassedAreBehind
<1> QED BY <1>1, <1>2, <1>3, <1>4, <1>5 DEF Next, scheduler_yield

LEMMA SpecSchedulerInv == Spec => []SchedulerInv
<1> QED BY InitSchedulerInv, NextSchedulerInv, PTL DEF Spec

-----------------------------------------------------------------------------
\* Every variable of the scheduler keeps its type; in particular current_task
\* is always a task that was created, or none.
THEOREM SchedulerTypes == Spec => []TypeOK
<1> QED BY SpecSchedulerInv, PTL DEF SchedulerInv

\* scheduler_switch leaves at most one task RUNNING, the one on the processor.
THEOREM OneRunning == Spec => []RunningIsCurrent
<1> QED BY SpecSchedulerInv, PTL DEF SchedulerInv

\* task_terminate is final: no switch brings a terminated task back.
THEOREM Termination == Spec => TerminatedIsFinal
<1> DEFINE Final == \A t \in Tasks : state[t] = TERMINATED => state'[t] = TERMINATED
<1>1. SchedulerInv /\ [Next]_vars => [Final]_vars
  <2> SUFFICES ASSUME SchedulerInv, Next PROVE Final
    BY DEF vars
  <2>1. ASSUME task_create PROVE Final
    <3>1. state[next_task_id] # TERMINATED
      BY <2>1, TasksAssumption DEF task_create, SchedulerInv, TypeOK, IdsInOrder, Tasks, UNUSED, TERMINATED
    <3> QED BY <2>1, <3>1 DEF task_create, SchedulerInv, TypeOK
  <2>2. ASSUME NEW t \in Tasks, task_terminate(t) PROVE Final
    BY <2>2 DEF task_terminate, SchedulerInv, TypeOK
  <2>3. ASSUME NEW i \in 1 .. Len(task_list), scheduler_switch(i) PROVE Final
    <3>1. task_list[i] \in Tasks /\ state[task_list[i]] = READY
      BY <2>3, NextInIds DEF scheduler_switch
    <3> QED BY <2>3, <3>1 DEF scheduler_switch, Switched, Preempted, SchedulerInv,
                              TypeOK, READY, RUNNING, TERMINATED
  <2>4. ASSUME scheduler_next PROVE Final
    BY <2>4 DEF scheduler_next
  <2> QED BY <2>1, <2>2, <2>3, <2>4 DEF Next, scheduler_yield
<1>2. TerminatedIsFinal <=> [][Final]_vars
  BY DEF TerminatedIsFinal
<1> QED BY <1>1, <1>2, SpecSchedulerInv, PTL DEF Spec

\* Round robin: no task gets the processor twice while another one waits.
THEOREM BoundedBypass == Spec => NoSecondTurn
<1> DEFINE Turn == \A t, u \in Tasks :
                      /\ current_task' = u
                      /\ current_task # u
                      /\ t # u
                      /\ t # current_task
                      /\ state[t] = READY
                      => u \notin passed[t]
<1>1. SchedulerInv /\ [Next]_vars => [Turn]_vars
  <2> SUFFICES ASSUME SchedulerInv, Next, NEW t \in Tasks, NEW u \in Tasks,
                      current_task' = u, current_task # u, t # u,
                      t # current_task, state[t] = READY, u \in passed[t]
               PROVE  FALSE
    BY DEF vars
  <2>1. /\ current_task # NoTask
        /\ t < current_task => u < t \/ current_task <= u
        /\ current_task < t => current_task <= u /\ u < t
    BY DEF SchedulerInv, PassedAreBehind
  <2>2. PICK i \in 1 .. Len(task_list) : scheduler_switch(i)
    BY <2>1 DEF Next, scheduler_yield, scheduler_next, task_create,
                task_terminate
  <2>3. /\ t < current_task => t <= u /\ u < current_task
        /\ current_task < t => u < current_task \/ t <= u
    BY <2>2, NextInIds DEF scheduler_switch
  <2>4. t \in Int /\ u \in Int /\ current_task \in Int
    BY DEF SchedulerInv, TypeOK, Tasks, NoTask
  <2> QED BY <2>1, <2>3, <2>4
<1>2. NoSecondTurn <=> [][Turn]_vars
  BY DEF NoSecondTurn
<1> QED BY <1>1, <1>2, SpecSchedulerInv, PTL DEF Spec
=============================================================================
