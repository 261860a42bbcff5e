--------------------------- MODULE StorageProofs ---------------------------
(***************************************************************************)
(* Proofs about the file system, for every number of blocks and inodes and *)
(* every length of an inode's block list, and about the disk driver, for   *)
(* all disks, sizes of them and widths of the registers.                   *)
(***************************************************************************)
EXTENDS FileSystem, Ata, FiniteSetTheorems, FunctionTheorems, TLAPS

\* An injective list of k entries has k different values.
LEMMA InjectiveRange ==
    ASSUME NEW k \in Nat, NEW F, NEW a \in [0 .. k - 1 -> F],
           \A x, y \in 0 .. k - 1 : a[x] = a[y] => x = y
    PROVE  /\ Range(a) \subseteq F
           /\ IsFiniteSet(Range(a))
           /\ Cardinality(Range(a)) = k
<1> DEFINE S == 0 .. k - 1
<1>1. IsFiniteSet(S) /\ Cardinality(S) = k
  <2>1. IsFiniteSet(S) /\ Cardinality(S) = IF 0 > k - 1 THEN 0 ELSE k - 1 - 0 + 1
    BY FS_Interval
  <2> QED BY <2>1
<1>2. Range(a) \subseteq F /\ a \in Surjection(S, Range(a))
  BY Fun_RangeProperties
<1>3. a \in [S -> Range(a)]
  BY <1>2, Fun_SurjectionProperties
<1>4. a \in Injection(S, Range(a))
  BY <1>3, Fun_IsInj
<1> QED BY <1>1, <1>2, <1>4, FS_Surjection

LEMMA AllocationsRange ==
    ASSUME NEW k \in Nat, NEW F \in SUBSET Blocks, NEW a \in Allocations(F, k)
    PROVE  /\ a \in [0 .. k - 1 -> F]
           /\ DOMAIN a = 0 .. k - 1
           /\ \A x, y \in 0 .. k - 1 : a[x] = a[y] => x = y
           /\ Range(a) = {a[e] : e \in 0 .. k - 1}
           /\ Range(a) \subseteq F
           /\ IsFiniteSet(Range(a))
           /\ Cardinality(Range(a)) = k
<1>1. /\ a \in [0 .. k - 1 -> F]
      /\ \A x, y \in 0 .. k - 1 : x < y => a[x] < a[y]
  BY DEF Allocations
<1>2. \A x \in 0 .. k - 1 : a[x] \in Int
  <2>1. Blocks \subseteq Int
    BY SizesAssumption DEF Blocks
  <2> QED BY <1>1, <2>1
<1>3. \A x, y \in 0 .. k - 1 : a[x] = a[y] => x = y
  <2> TAKE x, y \in 0 .. k - 1
  <2> QED BY <1>1, <1>2
<1>4. Range(a) = {a[e] : e \in 0 .. k - 1}
  BY <1>1 DEF Range
<1> QED BY <1>1, <1>3, <1>4, InjectiveRange

LEMMA BlocksFinite ==
    /\ IsFiniteSet(Blocks)
    /\ \A S \in SUBSET Blocks : IsFiniteSet(S) /\ Cardinality(S) \in Nat
<1>1. IsFiniteSet(Blocks)
  BY SizesAssumption, FS_Interval DEF Blocks
<1> QED BY <1>1, FS_Subset, FS_CardinalityType

LEMMA InodesFinite ==
    \A S \in SUBSET Inodes : IsFiniteSet(S) /\ Cardinality(S) \in Nat
<1>1. IsFiniteSet(Inodes)
  BY SizesAssumption, FS_Interval DEF Inodes
<1> QED BY <1>1, FS_Subset, FS_CardinalityType

-----------------------------------------------------------------------------
\* What the properties say of a file system whose inodes were written and deleted
\* only in use.
Apart ==
    \A i, j \in inode_bitmap : \A e \in Used(i), f \in Used(j) :
        blocks[i][e] = blocks[j][f] => i = j /\ e = f

Accounted ==
    /\ block_bitmap = lost \cup UNION {Owned(i) : i \in inode_bitmap}
    /\ \A i \in inode_bitmap : Owned(i) \cap lost = {}

Exact ==
    /\ free_blocks = MAX_BLOCKS - Cardinality(block_bitmap)
    /\ free_inodes = MAX_FILES - Cardinality(inode_bitmap)

\* That no block is shared makes the block counter exact across fs_delete, and that
\* every owned block has its bit set makes fresh blocks different from the owned ones.
Good == TypeOK /\ Apart /\ Accounted /\ Exact

\* What holds whatever is written and deleted.
NeverLow ==
    /\ free_blocks >= MAX_BLOCKS - Cardinality(block_bitmap)
    /\ free_inodes >= MAX_FILES - Cardinality(inode_bitmap)

IInv ==
    /\ TypeOK
    /\ NeverLow
    /\ orderly => Good

LEMMA OwnedFacts ==
    ASSUME Good, NEW i \in inode_bitmap
    PROVE  /\ i \in Inodes
           /\ Used(i) \subseteq Entries
           /\ Owned(i) \subseteq block_bitmap
           /\ Owned(i) \subseteq Blocks
           /\ Cardinality(Owned(i)) = block_count[i]
<1>1. i \in Inodes /\ block_count[i] \in 0 .. InodeBlocks
      /\ blocks[i] \in [Entries -> Blocks]
  BY DEF Good, TypeOK
<1>2. block_count[i] \in Nat /\ Used(i) \subseteq Entries
  BY <1>1, SizesAssumption DEF Used, Entries
<1>3. Owned(i) \subseteq Blocks
  BY <1>1, <1>2 DEF Owned
<1>4. Owned(i) \subseteq block_bitmap
  BY DEF Good, Accounted
<1>5. Cardinality(Owned(i)) = block_count[i]
  <2> DEFINE n == block_count[i]
             a == [e \in 0 .. n - 1 |-> blocks[i][e]]
  <2>1. a \in [0 .. n - 1 -> Blocks]
    BY <1>1, <1>2 DEF Used
  <2>2. \A x, y \in 0 .. n - 1 : a[x] = a[y] => x = y
    BY DEF Good, Apart, Used
  <2>3. Range(a) = Owned(i)
    BY DEF Range, Owned, Used
  <2> HIDE DEF a
  <2> QED BY <1>2, <2>1, <2>2, <2>3, InjectiveRange
<1> QED BY <1>1, <1>2, <1>3, <1>4, <1>5

\* A list of n entries names no more than n blocks.
LEMMA OwnedAtMost ==
    ASSUME TypeOK, NEW i \in Inodes
    PROVE  /\ block_count[i] \in Nat
           /\ Owned(i) \subseteq Blocks /\ IsFiniteSet(Owned(i))
           /\ Cardinality(Owned(i)) \in Nat
           /\ Cardinality(Owned(i)) <= block_count[i]
<1> DEFINE n == block_count[i]
           a == [e \in 0 .. n - 1 |-> blocks[i][e]]
<1>1. n \in 0 .. InodeBlocks /\ blocks[i] \in [Entries -> Blocks]
  BY DEF TypeOK
<1>2. n \in Nat /\ 0 .. n - 1 \subseteq Entries
  BY <1>1, SizesAssumption DEF Entries
<1>3. Range(a) = Owned(i) /\ a \in [0 .. n - 1 -> Blocks]
  BY <1>1, <1>2 DEF Range, Owned, Used
<1> HIDE DEF a
<1>4. IsFiniteSet(0 .. n - 1) /\ Cardinality(0 .. n - 1) = n
  <2>1. 0 \in Int /\ n - 1 \in Int
    BY <1>2
  <2> HIDE DEF n
  <2>2. /\ IsFiniteSet(0 .. n - 1)
        /\ Cardinality(0 .. n - 1) = IF 0 > n - 1 THEN 0 ELSE n - 1 - 0 + 1
    BY <2>1, FS_Interval
  <2> QED BY <1>2, <2>2
<1>5. a \in Surjection(0 .. n - 1, Range(a)) /\ Range(a) \subseteq Blocks
  BY <1>3, Fun_RangeProperties
<1>6. IsFiniteSet(Owned(i)) /\ Cardinality(Owned(i)) <= n
  BY <1>3, <1>4, <1>5, FS_Surjection
<1> QED BY <1>2, <1>3, <1>5, <1>6, FS_CardinalityType

LEMMA InitIInv == fs_init => IInv
<1> SUFFICES ASSUME fs_init PROVE IInv
  OBVIOUS
<1>1. TypeOK
  <2>1. /\ blocks \in [Inodes -> [Entries -> Blocks]]
        /\ block_count \in [Inodes -> 0 .. InodeBlocks]
    BY SizesAssumption DEF fs_init, Blocks
  <2>2. inode_bitmap \in SUBSET Inodes
    BY SizesAssumption DEF fs_init, Inodes, root_inode
  <2>3. free_blocks \in Int /\ free_inodes \in Int
    BY SizesAssumption DEF fs_init
  <2>4. /\ block_bitmap \in SUBSET Blocks /\ lost \in SUBSET Blocks
        /\ orderly \in BOOLEAN
    BY DEF fs_init
  <2> QED BY <2>1, <2>2, <2>3, <2>4 DEF TypeOK
<1>2. root_inode \in Inodes
  BY SizesAssumption DEF Inodes, root_inode
<1>3. Used(root_inode) = {} /\ Owned(root_inode) = {}
  BY <1>2 DEF fs_init, Used, Owned
<1>4. Apart /\ Accounted
  BY <1>3 DEF fs_init, Apart, Accounted
<1>5. Exact /\ NeverLow
  <2>1. Cardinality(block_bitmap) = 0
    BY FS_EmptySet DEF fs_init
  <2>2. Cardinality(inode_bitmap) = 1
    BY FS_Singleton DEF fs_init
  <2> QED BY <2>1, <2>2, SizesAssumption DEF fs_init, Exact, NeverLow
<1> QED BY <1>1, <1>4, <1>5 DEF IInv, Good

\* Entering k freshly allocated blocks in the list of an inode, in use or not.
LEMMA AllocateFacts ==
    ASSUME TypeOK, NEW i \in Inodes, NEW k \in Nat, k <= InodeBlocks,
           NEW a \in Allocations(FreeBlocks, k), AllocateInto(i, a, k)
    PROVE  /\ block_bitmap' = block_bitmap \cup Range(a)
           /\ block_bitmap' \in SUBSET Blocks
           /\ free_blocks' \in Int /\ free_blocks' = free_blocks - k
           /\ Cardinality(block_bitmap) \in Nat
           /\ Cardinality(block_bitmap') = Cardinality(block_bitmap) + k
           /\ blocks' \in [Inodes -> [Entries -> Blocks]]
           /\ \A j \in Inodes \ {i} : blocks'[j] = blocks[j]
           /\ \A e \in Entries :
                 blocks'[i][e] = IF e \in 0 .. k - 1 THEN a[e] ELSE blocks[i][e]
<1>0. FreeBlocks \in SUBSET Blocks
  BY DEF FreeBlocks
<1>1. /\ a \in [0 .. k - 1 -> FreeBlocks]
      /\ DOMAIN a = 0 .. k - 1
      /\ Range(a) \subseteq FreeBlocks
      /\ IsFiniteSet(Range(a)) /\ Cardinality(Range(a)) = k
  BY <1>0, AllocationsRange
<1>2. block_bitmap' = block_bitmap \cup Range(a) /\ block_bitmap' \in SUBSET Blocks
  BY <1>0, <1>1 DEF AllocateInto, TypeOK
<1>3. /\ Cardinality(block_bitmap) \in Nat
      /\ Cardinality(block_bitmap') = Cardinality(block_bitmap) + k
  <2>1. block_bitmap \cap Range(a) = {}
    BY <1>1 DEF FreeBlocks
  <2>2. IsFiniteSet(block_bitmap) /\ Cardinality(block_bitmap) \in Nat
    BY BlocksFinite DEF TypeOK
  <2>3. Cardinality(block_bitmap \cup Range(a))
          = Cardinality(block_bitmap) + Cardinality(Range(a))
              - Cardinality(block_bitmap \cap Range(a))
    BY <1>1, <2>2, FS_Union
  <2>4. Cardinality(block_bitmap \cap Range(a)) = 0
    BY <2>1, FS_EmptySet
  <2> QED BY <1>1, <1>2, <2>2, <2>3, <2>4
<1>4. free_blocks' \in Int /\ free_blocks' = free_blocks - k
  BY DEF AllocateInto, TypeOK
<1>5. blocks \in [Inodes -> [Entries -> Blocks]]
  BY DEF TypeOK
<1>6. blocks' = [blocks EXCEPT ![i] =
                   [e \in Entries |-> IF e \in 0 .. k - 1 THEN a[e] ELSE blocks[i][e]]]
  BY <1>1, <1>5 DEF AllocateInto, Entered
<1>7. [e \in Entries |-> IF e \in 0 .. k - 1 THEN a[e] ELSE blocks[i][e]]
        \in [Entries -> Blocks]
  BY <1>0, <1>1, <1>5
<1> QED BY <1>2, <1>3, <1>4, <1>5, <1>6, <1>7

-----------------------------------------------------------------------------
LEMMA CreateStep ==
    ASSUME TypeOK, NEW i \in Inodes, fs_create(i)
    PROVE  /\ TypeOK'
           /\ NeverLow => NeverLow'
           /\ Good => Good'
<1>1. /\ i \in Inodes \ inode_bitmap
      /\ inode_bitmap' = inode_bitmap \cup {i}
      /\ free_inodes' = free_inodes - 1
      /\ block_count' = [block_count EXCEPT ![i] = 0]
      /\ UNCHANGED <<block_bitmap, free_blocks, blocks, lost, orderly>>
  BY DEF fs_create, allocate_inode, FreeInodes
<1>2. TypeOK'
  BY <1>1, SizesAssumption DEF TypeOK
<1>3. /\ \A j \in inode_bitmap : Used(j)' = Used(j) /\ Owned(j)' = Owned(j)
      /\ Used(i)' = {} /\ Owned(i)' = {}
  BY <1>1 DEF TypeOK, Used, Owned
<1>4. Good => Apart'
  BY <1>1, <1>3 DEF Good, Apart
<1>5. Good => Accounted'
  <2>1. UNION {Owned(j)' : j \in inode_bitmap'} = UNION {Owned(j) : j \in inode_bitmap}
    BY <1>1, <1>3
  <2> QED BY <1>1, <1>3, <2>1 DEF Good, Accounted
<1>6. (Good => Exact') /\ (NeverLow => NeverLow')
  <2>1. IsFiniteSet(inode_bitmap) /\ Cardinality(inode_bitmap) \in Nat
    BY InodesFinite DEF TypeOK
  <2>2. Cardinality(inode_bitmap') = Cardinality(inode_bitmap) + 1
    BY <1>1, <2>1, FS_AddElement
  <2>3. Cardinality(block_bitmap) \in Nat /\ free_inodes \in Int
    BY BlocksFinite DEF TypeOK
  <2> QED BY <1>1, <2>1, <2>2, <2>3, SizesAssumption DEF Good, Exact, NeverLow
<1> QED BY <1>2, <1>4, <1>5, <1>6 DEF Good

\* What an observer may say of a step on inode i.
LEMMA Observed ==
    ASSUME NEW i, NEW all_lost, Observe(i, all_lost), orderly'
    PROVE  orderly /\ i \in inode_bitmap /\ lost' = all_lost
BY DEF Observe

LEMMA ObservedTypes ==
    ASSUME TypeOK, NEW i, NEW all_lost \in SUBSET Blocks, Observe(i, all_lost)
    PROVE  orderly' \in BOOLEAN /\ lost' \in SUBSET Blocks
<1>1. orderly' \in BOOLEAN
  BY DEF Observe
<1>2. lost' \in SUBSET Blocks
  BY DEF Observe
<1> QED BY <1>1, <1>2

\* A file in use is written.
LEMMA WriteGood ==
    ASSUME Good, TypeOK', NEW i \in inode_bitmap, NEW n \in 0 .. InodeBlocks,
           fs_write(i, n), lost' = lost \cup Owned(i)
    PROVE  Good'
<1>0. i \in Inodes /\ n \in Nat /\ n <= InodeBlocks /\ TypeOK
  BY SizesAssumption DEF Good, TypeOK
<1>1. PICK a \in Allocations(FreeBlocks, n) : AllocateInto(i, a, n)
  BY DEF fs_write
<1>2. /\ block_bitmap' = block_bitmap \cup Range(a)
      /\ block_bitmap' \in SUBSET Blocks
      /\ free_blocks' = free_blocks - n
      /\ Cardinality(block_bitmap) \in Nat
      /\ Cardinality(block_bitmap') = Cardinality(block_bitmap) + n
      /\ blocks' \in [Inodes -> [Entries -> Blocks]]
      /\ \A j \in Inodes \ {i} : blocks'[j] = blocks[j]
      /\ \A e \in Entries :
            blocks'[i][e] = IF e \in 0 .. n - 1 THEN a[e] ELSE blocks[i][e]
  BY <1>0, <1>1, AllocateFacts
<1>3. /\ block_count' = [block_count EXCEPT ![i] = n]
      /\ lost' = lost \cup Owned(i)
      /\ UNCHANGED <<inode_bitmap, free_inodes>>
  BY DEF fs_write
<1>4. /\ \A x, y \in 0 .. n - 1 : a[x] = a[y] => x = y
      /\ Range(a) = {a[e] : e \in 0 .. n - 1}
      /\ Range(a) \cap block_bitmap = {}
  <2>1. FreeBlocks \in SUBSET Blocks
    BY DEF FreeBlocks
  <2>2. /\ \A x, y \in 0 .. n - 1 : a[x] = a[y] => x = y
        /\ Range(a) = {a[e] : e \in 0 .. n - 1}
        /\ Range(a) \subseteq FreeBlocks
    BY <1>0, <1>1, <2>1, AllocationsRange
  <2> QED BY <2>2 DEF FreeBlocks
<1>5. inode_bitmap \subseteq Inodes
  BY DEF Good, TypeOK
<1>6. \A j \in inode_bitmap \ {i} : Used(j)' = Used(j) /\ Owned(j)' = Owned(j)
  BY <1>2, <1>3, <1>5 DEF Good, TypeOK, Used, Owned
<1>7. /\ Used(i)' = 0 .. n - 1
      /\ \A e \in 0 .. n - 1 : blocks'[i][e] = a[e]
      /\ Owned(i)' = Range(a)
  <2>1. Used(i)' = 0 .. n - 1
    BY <1>3 DEF Good, TypeOK, Used
  <2>2. 0 .. n - 1 \subseteq Entries
    BY <1>0, SizesAssumption DEF Entries
  <2>3. \A e \in 0 .. n - 1 : blocks'[i][e] = a[e]
    BY <1>2, <2>2
  <2>4. Owned(i)' = {blocks'[i][e] : e \in 0 .. n - 1}
    BY <2>1 DEF Owned
  <2>5. Owned(i)' = {a[e] : e \in 0 .. n - 1}
    BY <2>3, <2>4
  <2> QED BY <1>4, <2>1, <2>3, <2>5
<1>8. \A j \in inode_bitmap : Owned(j) \subseteq block_bitmap
  BY OwnedFacts
<1>9. Apart'
  <2> SUFFICES ASSUME NEW j \in inode_bitmap, NEW k \in inode_bitmap,
                      NEW e \in Used(j)', NEW f \in Used(k)',
                      blocks'[j][e] = blocks'[k][f]
               PROVE  j = k /\ e = f
    BY <1>3 DEF Apart
  <2>1. ASSUME NEW j1 \in inode_bitmap \ {i}, NEW e1 \in Used(j1)'
        PROVE  /\ e1 \in Used(j1) /\ blocks'[j1][e1] = blocks[j1][e1]
               /\ blocks'[j1][e1] \in block_bitmap
    BY <1>2, <1>5, <1>6, <1>8, <2>1 DEF Owned
  <2>2. ASSUME NEW e1 \in Used(i)'
        PROVE  blocks'[i][e1] = a[e1] /\ blocks'[i][e1] \in Range(a)
    BY <1>4, <1>7, <2>2
  <2>3. CASE j # i /\ k # i
    BY <2>1, <2>3 DEF Good, Apart
  <2>4. CASE j = i /\ k = i
    BY <1>4, <1>7, <2>4
  <2>5. CASE j = i /\ k # i
    BY <1>4, <2>1, <2>2, <2>5
  <2>6. CASE j # i /\ k = i
    BY <1>4, <2>1, <2>2, <2>6
  <2> QED BY <2>3, <2>4, <2>5, <2>6
<1>10. Accounted'
  <2>1. block_bitmap = lost \cup UNION {Owned(j) : j \in inode_bitmap}
        /\ \A j \in inode_bitmap : Owned(j) \cap lost = {}
    BY DEF Good, Accounted
  <2>2. \A j \in inode_bitmap \ {i} : Owned(j) \cap Owned(i) = {}
    BY <1>0 DEF Good, Apart, Owned
  <2>3. UNION {Owned(j)' : j \in inode_bitmap}
          = Range(a) \cup UNION {Owned(j) : j \in inode_bitmap \ {i}}
    BY <1>0, <1>6, <1>7
  <2>4. UNION {Owned(j) : j \in inode_bitmap}
          = Owned(i) \cup UNION {Owned(j) : j \in inode_bitmap \ {i}}
    BY <1>0
  <2>5. block_bitmap' = lost' \cup UNION {Owned(j)' : j \in inode_bitmap'}
    BY <1>2, <1>3, <2>1, <2>3, <2>4
  <2>6. ASSUME NEW j \in inode_bitmap PROVE Owned(j)' \cap lost' = {}
    BY <1>3, <1>4, <1>6, <1>7, <1>8, <1>0, <2>1, <2>2
  <2> QED BY <1>3, <2>5, <2>6 DEF Accounted
<1>11. Exact'
  BY <1>0, <1>2, <1>3, SizesAssumption DEF Good, Exact
<1> QED BY <1>9, <1>10, <1>11 DEF Good

LEMMA WriteStep ==
    ASSUME IInv, NEW i \in Inodes, NEW n \in 0 .. InodeBlocks, fs_write(i, n)
    PROVE  IInv'
<1>1. PICK a \in Allocations(FreeBlocks, n) : AllocateInto(i, a, n)
  BY DEF fs_write
<1>2. /\ block_count' = [block_count EXCEPT ![i] = n]
      /\ Observe(i, lost \cup Owned(i))
      /\ UNCHANGED <<inode_bitmap, free_inodes>>
  BY DEF fs_write
<1>3. TypeOK /\ NeverLow /\ n \in Nat /\ n <= InodeBlocks
  BY SizesAssumption DEF IInv
<1>4. /\ block_bitmap' \in SUBSET Blocks
      /\ free_blocks' \in Int /\ free_blocks' = free_blocks - n
      /\ Cardinality(block_bitmap) \in Nat
      /\ Cardinality(block_bitmap') = Cardinality(block_bitmap) + n
      /\ blocks' \in [Inodes -> [Entries -> Blocks]]
  BY <1>1, <1>3, AllocateFacts
<1>5. lost \cup Owned(i) \in SUBSET Blocks
  BY <1>3, OwnedAtMost DEF TypeOK
<1>6. orderly' \in BOOLEAN /\ lost' \in SUBSET Blocks
  BY <1>2, <1>3, <1>5, ObservedTypes
<1>7. TypeOK'
  BY <1>2, <1>3, <1>4, <1>6 DEF TypeOK
<1>8. NeverLow'
  BY <1>2, <1>3, <1>4, SizesAssumption DEF NeverLow, TypeOK
<1>9. orderly' => Good'
  BY <1>2, <1>7, Observed, WriteGood DEF IInv
<1> QED BY <1>7, <1>8, <1>9 DEF IInv

\* A write that runs out of space exchanges some of the listed blocks for fresh
\* ones and leaves the count alone.
LEMMA NoSpaceGood ==
    ASSUME Good, TypeOK', NEW i \in inode_bitmap, NEW n \in 0 .. InodeBlocks,
           fs_write_no_space(i, n), orderly
    PROVE  Good'
<1> DEFINE k == Cardinality(FreeBlocks)
<1>0. i \in Inodes /\ TypeOK /\ k \in Nat /\ k <= InodeBlocks
  <2>1. k \in Nat
    BY BlocksFinite DEF FreeBlocks
  <2>2. i \in Inodes /\ TypeOK
    BY DEF Good, TypeOK
  <2> QED BY <2>1, <2>2, SizesAssumption DEF fs_write_no_space
<1>1. PICK a \in Allocations(FreeBlocks, k) :
        /\ AllocateInto(i, a, k)
        /\ lost' = lost \cup {blocks[i][e] : e \in Used(i) \cap DOMAIN a}
                        \cup {a[e] : e \in DOMAIN a \ Used(i)}
  BY DEF fs_write_no_space, Observe
<1> HIDE DEF k
<1>2. /\ block_bitmap' = block_bitmap \cup Range(a)
      /\ block_bitmap' \in SUBSET Blocks
      /\ free_blocks' = free_blocks - k
      /\ Cardinality(block_bitmap) \in Nat
      /\ Cardinality(block_bitmap') = Cardinality(block_bitmap) + k
      /\ blocks' \in [Inodes -> [Entries -> Blocks]]
      /\ \A j \in Inodes \ {i} : blocks'[j] = blocks[j]
      /\ \A e \in Entries :
            blocks'[i][e] = IF e \in 0 .. k - 1 THEN a[e] ELSE blocks[i][e]
  BY <1>0, <1>1, AllocateFacts
<1>3. UNCHANGED <<inode_bitmap, free_inodes, block_count>>
  BY DEF fs_write_no_space
<1>4. /\ DOMAIN a = 0 .. k - 1
      /\ \A x, y \in 0 .. k - 1 : a[x] = a[y] => x = y
      /\ Range(a) = {a[e] : e \in 0 .. k - 1}
      /\ Range(a) \cap block_bitmap = {}
      /\ Range(a) \subseteq Blocks
  <2>1. FreeBlocks \in SUBSET Blocks
    BY DEF FreeBlocks
  <2>2. /\ DOMAIN a = 0 .. k - 1
        /\ \A x, y \in 0 .. k - 1 : a[x] = a[y] => x = y
        /\ Range(a) = {a[e] : e \in 0 .. k - 1}
        /\ Range(a) \subseteq FreeBlocks
    BY <1>0, <1>1, <2>1, AllocationsRange
  <2> QED BY <2>1, <2>2 DEF FreeBlocks
<1> DEFINE Fresh == 0 .. k - 1
           Old == {blocks[i][e] : e \in Used(i) \cap Fresh}
           Extra == {a[e] : e \in Fresh \ Used(i)}
<1>5. lost' = lost \cup Old \cup Extra
  BY <1>1, <1>4
<1>6. inode_bitmap \subseteq Inodes /\ Used(i) \subseteq Entries
  BY <1>0, OwnedFacts DEF Good, TypeOK
<1>7. \A j \in inode_bitmap : Owned(j) \subseteq block_bitmap
  BY OwnedFacts
<1>8. Old \subseteq Owned(i) /\ Old \subseteq block_bitmap /\ Extra \subseteq Range(a)
  BY <1>0, <1>4, <1>7 DEF Owned
<1>9. \A j \in inode_bitmap \ {i} : Used(j)' = Used(j) /\ Owned(j)' = Owned(j)
  BY <1>2, <1>3, <1>6 DEF Used, Owned
<1>10. /\ Used(i)' = Used(i)
       /\ \A e \in Used(i) :
             blocks'[i][e] = IF e \in Fresh THEN a[e] ELSE blocks[i][e]
  BY <1>2, <1>3, <1>6 DEF Used
<1>11. Apart'
  <2> SUFFICES ASSUME NEW j \in inode_bitmap, NEW l \in inode_bitmap,
                      NEW e \in Used(j)', NEW f \in Used(l)',
                      blocks'[j][e] = blocks'[l][f]
               PROVE  j = l /\ e = f
    BY <1>3 DEF Apart
  <2>1. ASSUME NEW j1 \in inode_bitmap, NEW e1 \in Used(j1)'
        PROVE  /\ e1 \in Used(j1)
               /\ IF j1 = i /\ e1 \in Fresh
                    THEN blocks'[j1][e1] = a[e1] /\ a[e1] \in Range(a)
                    ELSE /\ blocks'[j1][e1] = blocks[j1][e1]
                         /\ blocks[j1][e1] \in block_bitmap
    BY <1>2, <1>4, <1>6, <1>7, <1>9, <1>10, <2>1 DEF Owned
  <2>2. CASE (j = i /\ e \in Fresh) /\ (l = i /\ f \in Fresh)
    BY <1>4, <2>1, <2>2
  <2>3. CASE ~(j = i /\ e \in Fresh) /\ ~(l = i /\ f \in Fresh)
    <3>1. blocks[j][e] = blocks[l][f] /\ e \in Used(j) /\ f \in Used(l)
      BY <2>1, <2>3
    <3> QED BY <3>1 DEF Good, Apart
  <2>4. CASE (j = i /\ e \in Fresh) /\ ~(l = i /\ f \in Fresh)
    BY <1>4, <2>1, <2>4
  <2>5. CASE ~(j = i /\ e \in Fresh) /\ (l = i /\ f \in Fresh)
    BY <1>4, <2>1, <2>5
  <2> QED BY <2>2, <2>3, <2>4, <2>5
<1>12. Accounted'
  <2> DEFINE Rest == UNION {Owned(j) : j \in inode_bitmap \ {i}}
             Kept == {blocks[i][e] : e \in Used(i) \ Fresh}
             New == {a[e] : e \in Used(i) \cap Fresh}
  <2>1. block_bitmap = lost \cup UNION {Owned(j) : j \in inode_bitmap}
        /\ \A j \in inode_bitmap : Owned(j) \cap lost = {}
    BY DEF Good, Accounted
  <2>2. \A j \in inode_bitmap \ {i} : Owned(j) \cap Owned(i) = {}
    BY <1>0 DEF Good, Apart, Owned
  <2>3. Owned(i) = Old \cup Kept /\ Old \cap Kept = {}
    BY <1>0 DEF Good, Apart, Owned
  <2>4. Range(a) = New \cup Extra /\ New \cap Extra = {}
    BY <1>4
  <2>5. Owned(i)' = New \cup Kept
    <3>1. Owned(i)' = {blocks'[i][e] : e \in Used(i)}
      BY <1>10 DEF Owned
    <3> QED BY <1>10, <3>1
  <2>6. UNION {Owned(j)' : j \in inode_bitmap} = New \cup Kept \cup Rest
    BY <1>0, <1>9, <2>5
  <2>7. UNION {Owned(j) : j \in inode_bitmap} = Owned(i) \cup Rest
    BY <1>0
  <2>8. block_bitmap' = lost' \cup UNION {Owned(j)' : j \in inode_bitmap'}
    <3> HIDE DEF Rest, Kept, New, Old, Extra
    <3>1. block_bitmap' = lost \cup Old \cup Kept \cup Rest \cup New \cup Extra
      BY <1>2, <2>1, <2>3, <2>4, <2>7
    <3> QED BY <1>3, <1>5, <2>6, <3>1
  <2>9. ASSUME NEW j \in inode_bitmap PROVE Owned(j)' \cap lost' = {}
    <3> HIDE DEF Kept, New, Old, Extra
    <3>1. CASE j = i
      <4>1. (New \cup Kept) \cap lost = {}
        BY <1>0, <1>4, <2>1, <2>3, <2>4
      <4>2. (New \cup Kept) \cap (Old \cup Extra) = {}
        BY <1>0, <1>4, <1>7, <1>8, <2>3, <2>4
      <4> QED BY <1>5, <2>5, <3>1, <4>1, <4>2
    <3>2. CASE j # i
      BY <1>4, <1>5, <1>7, <1>8, <1>9, <2>1, <2>2, <3>2
    <3> QED BY <3>1, <3>2
  <2> QED BY <1>3, <2>8, <2>9 DEF Accounted
<1>13. Exact'
  BY <1>0, <1>2, <1>3, SizesAssumption DEF Good, Exact
<1> QED BY <1>11, <1>12, <1>13 DEF Good

LEMMA NoSpaceStep ==
    ASSUME IInv, NEW i \in Inodes, NEW n \in 0 .. InodeBlocks,
           fs_write_no_space(i, n)
    PROVE  IInv'
<1> DEFINE k == Cardinality(FreeBlocks)
           written(a) == lost \cup {blocks[i][e] : e \in Used(i) \cap DOMAIN a}
                              \cup {a[e] : e \in DOMAIN a \ Used(i)}
<1>1. PICK a \in Allocations(FreeBlocks, k) :
         AllocateInto(i, a, k) /\ Observe(i, written(a))
  BY DEF fs_write_no_space
<1>2. UNCHANGED <<inode_bitmap, free_inodes, block_count>> /\ k < n
  BY DEF fs_write_no_space
<1>3. TypeOK /\ NeverLow /\ k \in Nat /\ k <= InodeBlocks
  <2>1. k \in Nat
    BY BlocksFinite DEF FreeBlocks
  <2> QED BY <1>2, <2>1, SizesAssumption DEF IInv
<1> HIDE DEF k
<1>4. /\ block_bitmap' \in SUBSET Blocks
      /\ free_blocks' \in Int /\ free_blocks' = free_blocks - k
      /\ Cardinality(block_bitmap) \in Nat
      /\ Cardinality(block_bitmap') = Cardinality(block_bitmap) + k
      /\ blocks' \in [Inodes -> [Entries -> Blocks]]
  BY <1>1, <1>3, AllocateFacts
<1>5. written(a) \in SUBSET Blocks
  <2>1. a \in [0 .. k - 1 -> FreeBlocks] /\ FreeBlocks \subseteq Blocks
    BY DEF Allocations, FreeBlocks
  <2>2. Owned(i) \subseteq Blocks /\ lost \subseteq Blocks
    BY <1>3, OwnedAtMost DEF TypeOK
  <2>3. {blocks[i][e] : e \in Used(i) \cap DOMAIN a} \subseteq Owned(i)
    BY DEF Owned
  <2>4. {a[e] : e \in DOMAIN a \ Used(i)} \subseteq Blocks
    BY <2>1
  <2> QED BY <2>2, <2>3, <2>4
<1> HIDE DEF written
<1>6. orderly' \in BOOLEAN /\ lost' \in SUBSET Blocks
  BY <1>1, <1>3, <1>5, ObservedTypes
<1>7. TypeOK'
  BY <1>2, <1>3, <1>4, <1>6 DEF TypeOK
<1>8. NeverLow'
  BY <1>2, <1>3, <1>4, SizesAssumption DEF NeverLow, TypeOK
<1>9. orderly' => Good'
  BY <1>1, <1>7, Observed, NoSpaceGood DEF IInv
<1> QED BY <1>7, <1>8, <1>9 DEF IInv

LEMMA DeleteGood ==
    ASSUME Good, TypeOK', NEW i \in inode_bitmap, fs_delete(i), lost' = lost
    PROVE  Good'
<1>1. /\ block_bitmap' = block_bitmap \ Owned(i)
      /\ free_blocks' = free_blocks + block_count[i]
      /\ inode_bitmap' = inode_bitmap \ {i}
      /\ free_inodes' = free_inodes + 1
      /\ UNCHANGED <<blocks, block_count>>
  BY DEF fs_delete, FreeAll, free_inode
<1>2. /\ Owned(i) \subseteq block_bitmap
      /\ Cardinality(Owned(i)) = block_count[i]
      /\ block_count[i] \in Int
  BY OwnedFacts, SizesAssumption DEF Good, TypeOK
<1>3. \A j \in inode_bitmap : Used(j)' = Used(j) /\ Owned(j)' = Owned(j)
  BY <1>1 DEF Used, Owned
<1>4. Apart'
  BY <1>1, <1>3 DEF Good, Apart
<1>5. Accounted'
  <2> DEFINE Rest == UNION {Owned(j) : j \in inode_bitmap \ {i}}
  <2>1. block_bitmap = lost \cup UNION {Owned(j) : j \in inode_bitmap}
        /\ \A j \in inode_bitmap : Owned(j) \cap lost = {}
    BY DEF Good, Accounted
  <2>2. \A j \in inode_bitmap \ {i} : Owned(j) \cap Owned(i) = {}
    BY <1>1 DEF Good, Apart, Owned
  <2>3. UNION {Owned(j)' : j \in inode_bitmap'} = Rest
    BY <1>1, <1>3
  <2>4. UNION {Owned(j) : j \in inode_bitmap} = Owned(i) \cup Rest
    BY <1>1
  <2>5. Rest \cap Owned(i) = {}
    BY <2>2
  <2>6. block_bitmap' = lost' \cup UNION {Owned(j)' : j \in inode_bitmap'}
    <3> HIDE DEF Rest
    <3> QED BY <1>1, <2>1, <2>3, <2>4, <2>5
  <2> QED BY <1>1, <1>3, <2>1, <2>6 DEF Accounted
<1>6. Exact'
  <2>1. IsFiniteSet(block_bitmap) /\ Cardinality(block_bitmap) \in Nat
    BY BlocksFinite DEF Good, TypeOK
  <2>2. Cardinality(block_bitmap \ Owned(i))
          = Cardinality(block_bitmap) - Cardinality(block_bitmap \cap Owned(i))
    BY <2>1, FS_Difference
  <2>3. block_bitmap \cap Owned(i) = Owned(i)
    BY <1>2
  <2>4. IsFiniteSet(inode_bitmap) /\ Cardinality(inode_bitmap) \in Nat
    BY InodesFinite DEF Good, TypeOK
  <2>5. Cardinality(inode_bitmap') = Cardinality(inode_bitmap) - 1
    BY <1>1, <2>4, FS_RemoveElement
  <2>6. free_blocks' = MAX_BLOCKS - Cardinality(block_bitmap')
    <3>1. Cardinality(block_bitmap') = Cardinality(block_bitmap) - block_count[i]
      BY <1>1, <1>2, <2>2, <2>3
    <3>2. free_blocks = MAX_BLOCKS - Cardinality(block_bitmap)
      BY DEF Good, Exact
    <3> QED BY <1>1, <1>2, <2>1, <3>1, <3>2, SizesAssumption
  <2>7. free_inodes' = MAX_FILES - Cardinality(inode_bitmap')
    BY <1>1, <2>4, <2>5, SizesAssumption DEF Good, Exact
  <2> QED BY <2>6, <2>7 DEF Exact
<1> QED BY <1>4, <1>5, <1>6 DEF Good

\* Deleting an inode clears no more bits than the counter goes up by, whoever has
\* the blocks and whether their bits were set or not.
LEMMA DeleteStep ==
    ASSUME IInv, NEW i \in Inodes, fs_delete(i) PROVE IInv'
<1>1. /\ block_bitmap' = block_bitmap \ Owned(i)
      /\ free_blocks' = free_blocks + block_count[i]
      /\ inode_bitmap' = inode_bitmap \ {i}
      /\ free_inodes' = free_inodes + 1
      /\ Observe(i, lost)
      /\ UNCHANGED <<blocks, block_count>>
  BY DEF fs_delete, FreeAll, free_inode
<1>2. TypeOK /\ NeverLow /\ block_count[i] \in Nat
      /\ IsFiniteSet(Owned(i)) /\ Cardinality(Owned(i)) \in Nat
      /\ Cardinality(Owned(i)) <= block_count[i]
  BY OwnedAtMost DEF IInv
<1>3. orderly' \in BOOLEAN /\ lost' \in SUBSET Blocks
  BY <1>1, <1>2, ObservedTypes DEF TypeOK
<1>4. TypeOK'
  BY <1>1, <1>2, <1>3 DEF TypeOK
<1>5. NeverLow'
  <2>1. IsFiniteSet(block_bitmap) /\ Cardinality(block_bitmap) \in Nat
    BY <1>2, BlocksFinite DEF TypeOK
  <2>2. /\ Cardinality(block_bitmap \ Owned(i))
             = Cardinality(block_bitmap) - Cardinality(block_bitmap \cap Owned(i))
        /\ Cardinality(block_bitmap \cap Owned(i)) \in Nat
        /\ Cardinality(block_bitmap \cap Owned(i)) <= Cardinality(Owned(i))
    <3>1. block_bitmap \cap Owned(i) \in SUBSET Owned(i)
      OBVIOUS
    <3> QED BY <1>2, <2>1, <3>1, FS_Difference, FS_Subset, FS_CardinalityType
  <2>3. free_blocks' >= MAX_BLOCKS - Cardinality(block_bitmap')
    BY <1>1, <1>2, <2>1, <2>2, SizesAssumption DEF NeverLow, TypeOK
  <2>4. IsFiniteSet(inode_bitmap) /\ Cardinality(inode_bitmap) \in Nat
    BY <1>2, InodesFinite DEF TypeOK
  <2>5. Cardinality(inode_bitmap') =
           IF i \in inode_bitmap THEN Cardinality(inode_bitmap) - 1
           ELSE Cardinality(inode_bitmap)
    BY <1>1, <2>4, FS_RemoveElement
  <2>6. free_inodes' >= MAX_FILES - Cardinality(inode_bitmap')
    BY <1>1, <1>2, <2>4, <2>5, SizesAssumption DEF NeverLow, TypeOK
  <2> QED BY <2>3, <2>6 DEF NeverLow
<1>6. orderly' => Good'
  BY <1>1, <1>4, Observed, DeleteGood DEF IInv
<1> QED BY <1>4, <1>5, <1>6 DEF IInv

LEMMA NextIInv == IInv /\ [Next]_vars => IInv'
<1>1. ASSUME IInv, UNCHANGED vars PROVE IInv'
  BY <1>1 DEF vars, IInv, Good, TypeOK, Apart, Accounted, Exact, NeverLow, Used, Owned
<1>2. ASSUME IInv, NEW i \in Inodes, fs_create(i) PROVE IInv'
  <2>1. orderly' = orderly
    BY <1>2 DEF fs_create
  <2> QED BY <1>2, <2>1, CreateStep DEF IInv
<1> QED BY <1>1, <1>2, WriteStep, NoSpaceStep, DeleteStep DEF Next

LEMMA SpecIInv == Spec => []IInv
<1> QED BY InitIInv, NextIInv, PTL DEF Spec

-----------------------------------------------------------------------------
\* Every variable of the file system keeps its type: block lists name blocks of
\* the device, counts stay within the list.
THEOREM TypeCorrect == Spec => []TypeOK
<1> QED BY SpecIInv, PTL DEF IInv

\* No sequence of creations, writes, failed writes and deletions of inodes in use
\* makes two files, or two places of one file, use the same block.
THEOREM BlocksNotShared == Spec => []NoSharedBlock
<1>1. IInv => NoSharedBlock
  BY DEF IInv, Good, Apart, NoSharedBlock
<1> QED BY SpecIInv, <1>1, PTL

\* The bits set in the block bitmap are exactly the blocks of files and those
\* that rewriting and failed writes have lost.
THEOREM EveryBlockAccounted == Spec => []BlocksAccounted
<1>1. IInv => BlocksAccounted
  BY DEF IInv, Good, Accounted, BlocksAccounted
<1> QED BY SpecIInv, <1>1, PTL

\* The free-space counters of the superblock are those of the bitmaps, and never
\* below them whatever is written and deleted.
THEOREM CountersExact == Spec => []CountersAgree
<1>1. IInv => CountersAgree
  BY DEF IInv, Good, Exact, NeverLow, CountersAgree
<1> QED BY SpecIInv, <1>1, PTL

-----------------------------------------------------------------------------
\* The disk driver: the devices on their positions.
LEMMA PositionPair ==
    ASSUME NEW p \in Positions
    PROVE  p[1] \in Channels /\ p[2] \in {0, 1} /\ p = <<p[1], p[2]>>
<1> QED BY DEF Positions, Channels

LEMMA ProbedPositions ==
    /\ Len(Probed) = 4
    /\ \A k \in 1 .. 4 : Probed[k] \in Positions
<1>1. \A k \in 1 .. 4 : k \in {1, 2, 3, 4}
  OBVIOUS
<1>2. Len(Probed) = 4
  BY DEF Probed
<1>3. /\ Probed[1] = <<"primary", 0>> /\ Probed[2] = <<"primary", 1>>
      /\ Probed[3] = <<"secondary", 0>> /\ Probed[4] = <<"secondary", 1>>
  BY DEF Probed
<1>4. \A k \in {1, 2, 3, 4} : Probed[k] \in Positions
  BY <1>3 DEF Positions, Channels
<1> QED BY <1>1, <1>2, <1>4

\* The recursive function There exists: four steps make it.
LEMMA ThereSteps ==
    /\ There[0] = << >>
    /\ \A k \in 1 .. 4 : There[k] = IF Probed[k] \in Disks
                                    THEN Append(There[k - 1], Probed[k]) ELSE There[k - 1]
<1> DEFINE F(g) == [k \in 0 .. 4 |->
                      IF k = 0 THEN << >>
                      ELSE IF Probed[k] \in Disks THEN Append(g[k - 1], Probed[k])
                      ELSE g[k - 1]]
           One(s, k) == IF Probed[k] \in Disks THEN Append(s, Probed[k]) ELSE s
           a == One(<< >>, 1)
           b == One(a, 2)
           c == One(b, 3)
           d == One(c, 4)
           g == [k \in 0 .. 4 |-> IF k = 0 THEN << >> ELSE IF k = 1 THEN a
                                  ELSE IF k = 2 THEN b ELSE IF k = 3 THEN c ELSE d]
<1>1. g = F(g)
  <2> HIDE DEF d
  <2>1. g[0] = << >> /\ g[1] = a /\ g[2] = b /\ g[3] = c /\ g[4] = d
    OBVIOUS
  <2>2. a = One(<< >>, 1) /\ b = One(a, 2) /\ c = One(b, 3) /\ d = One(c, 4)
    BY DEF d
  <2> HIDE DEF a, b, c
  <2>3. g[1] = One(g[0], 1) /\ g[2] = One(g[1], 2) /\ g[3] = One(g[2], 3)
        /\ g[4] = One(g[3], 4)
    BY <2>1, <2>2
  <2>4. \A k \in 0 .. 4 : k \in {0, 1, 2, 3, 4}
    OBVIOUS
  <2>5. \A k \in 0 .. 4 : g[k] = F(g)[k]
    <3> HIDE DEF g
    <3>1. \A k \in 1 .. 4 : g[k] = One(g[k - 1], k)
      <4>1. \A k \in 1 .. 4 : k \in {1, 2, 3, 4}
        OBVIOUS
      <4> HIDE DEF One
      <4>2. 1 - 1 = 0 /\ 2 - 1 = 1 /\ 3 - 1 = 2 /\ 4 - 1 = 3
        OBVIOUS
      <4> QED BY <2>3, <4>1, <4>2
    <3>2. F(g)[0] = << >>
      OBVIOUS
    <3>3. \A k \in 1 .. 4 : F(g)[k] = One(g[k - 1], k)
      OBVIOUS
    <3>4. \A k \in 0 .. 4 : k = 0 \/ k \in 1 .. 4
      OBVIOUS
    <3> HIDE DEF F, One
    <3> QED BY <2>1, <3>1, <3>2, <3>3, <3>4
  <2>6. DOMAIN g = 0 .. 4 /\ g = [k \in 0 .. 4 |-> g[k]]
    OBVIOUS
  <2>7. F(g) = [k \in 0 .. 4 |-> F(g)[k]]
    OBVIOUS
  <2> HIDE DEF g, F
  <2> QED BY <2>5, <2>6, <2>7
<1>2. There = F(There)
  <2>1. There = CHOOSE h : h = F(h)
    BY DEF There
  <2> HIDE DEF F
  <2> QED BY <1>1, <2>1
<1>3. \A k \in 0 .. 4 : There[k] = F(There)[k]
  BY <1>2
<1>4. \A k \in 1 .. 4 : k \in 0 .. 4 /\ k # 0
  OBVIOUS
<1> QED BY <1>3, <1>4

LEMMA ThereDisks == \A k \in 0 .. 4 : There[k] \in Seq(Disks)
<1> DEFINE P(k) == There[k] \in Seq(Disks)
<1>1. P(0)
  BY ThereSteps
<1>2. ASSUME NEW k \in 1 .. 4, P(k - 1) PROVE P(k)
  <2>1. There[k] = IF Probed[k] \in Disks
                   THEN Append(There[k - 1], Probed[k]) ELSE There[k - 1]
    BY ThereSteps
  <2>2. There[k - 1] \in Seq(Disks)
    BY <1>2
  <2> QED BY <2>1, <2>2
<1>3. P(1) /\ P(2) /\ P(3) /\ P(4)
  <2>1. P(1)
    BY <1>1, <1>2
  <2>2. P(2)
    BY <1>2, <2>1
  <2>3. P(3)
    BY <1>2, <2>2
  <2> QED BY <1>2, <2>1, <2>2, <2>3
<1>4. \A k \in 0 .. 4 : k \in {0, 1, 2, 3, 4}
  OBVIOUS
<1> QED BY <1>1, <1>3, <1>4

LEMMA ProgrammedCount ==
    ASSUME NEW n \in Nat
    PROVE  /\ Programmed(n) \in 1 .. COUNT_SPACE
           /\ n \in 1 .. COUNT_SPACE => Programmed(n) = n
<1>1. COUNT_SPACE \in Nat \ {0}
  BY AtaAssumption
<1>2. n % COUNT_SPACE \in 0 .. COUNT_SPACE - 1
  BY <1>1
<1>3. n < COUNT_SPACE => n % COUNT_SPACE = n
  BY <1>1
<1>4. COUNT_SPACE % COUNT_SPACE = 0
  BY <1>1
<1>5. CASE n % COUNT_SPACE = 0
  <2>1. n \in 1 .. COUNT_SPACE => n = COUNT_SPACE
    BY <1>1, <1>3, <1>5
  <2> QED BY <1>1, <1>5, <2>1 DEF Programmed
<1>6. CASE n % COUNT_SPACE # 0
  <2>1. n \in 1 .. COUNT_SPACE => n < COUNT_SPACE
    BY <1>1, <1>4, <1>6
  <2> QED BY <1>1, <1>2, <1>3, <1>6, <2>1 DEF Programmed
<1> QED BY <1>5, <1>6

-----------------------------------------------------------------------------
\* The inductive invariant of the driver.

\* The position the call goes to.
Target == devices[call.device]

AtaTypes ==
    /\ devices \in Seq(Positions)
    /\ pc \in {"idle", "probe", "identify", "transfer"}
    /\ probe \in 1 .. 4
    /\ Len(devices) <= 4 /\ (pc \in {"probe", "identify"} => Len(devices) < probe)
    /\ pc \in {"idle", "transfer"} => probe = 1
    /\ call \in [op : {"none", "read", "write"}, device : 0 .. 4, lba : Starts \cup {0},
                 count : Counts \cup {0}, buffer : {call.buffer}, done : 0 .. call.count]
    /\ call.buffer \in [1 .. call.count -> IF call.op = "write" THEN Words ELSE Transferred]
    /\ disk \in [Disks -> [Lbas -> Contents]]
    /\ in_order \in BOOLEAN
    /\ ideal \in [Disks -> [Lbas -> Contents]]
    /\ settled \in BOOLEAN
    /\ trusted \in BOOLEAN /\ (trusted => settled)

\* What is in the registers of a channel.  A device at work is there, and offers a
\* sector only while some are left and it is a disk's own.
RegistersInOrder(c, r) ==
    /\ r \in Registers
    /\ r.lba + r.left < LBA_SPACE + COUNT_SPACE
    /\ r.status \in {"BUSY", "DRQ"} => <<c, r.drive>> \in Disks \cup PacketDevices
    /\ r.status = "DRQ" =>
          /\ <<c, r.drive>> \in Disks
          /\ r.left > 0
          /\ r.command \in {"read", "write"} => r.lba \in Lbas

ChannelsInOrder ==
    /\ channel \in [Channels -> Registers]
    /\ \A c \in Channels : RegistersInOrder(c, channel[c])

\* A call that is under way has a device, and sectors left.
CallUnderWay ==
    pc = "transfer" =>
        /\ call.op \in {"read", "write"}
        /\ call.device \in 1 .. Len(devices)
        /\ call.done < call.count

\* As long as no device gets a command too early, a device at work during a call works
\* for that call, on the next of its sectors.
WorksForCall ==
    settled /\ pc = "transfer" /\ call.lba < LBA_SPACE =>
        LET r == channel[Target[1]] IN
        r.status \in {"BUSY", "DRQ"} =>
            /\ r.command = call.op
            /\ r.drive = Target[2]
            /\ r.lba = call.lba + call.done

\* By the rules storage_init finds the disks in order, and a device that answers it
\* with a description is a disk.
FindsDisks ==
    /\ pc \in {"probe", "identify"} => devices = There[probe - 1]
    /\ pc \in {"idle", "transfer"} => devices \in {<< >>, There[4]}
    /\ pc = "identify" =>
          LET p == Probed[probe]
              r == channel[p[1]]
          IN  /\ p \in Disks \cup PacketDevices
              /\ \/ /\ r.status \in {"BUSY", "DRQ"} /\ r.drive = p[2]
                    /\ r.command = "identify" /\ r.left = 1
                 \/ r.status = "ERR" /\ p \in PacketDevices

\* By the rules the device has as many sectors left as the call.
LeftAsCalled ==
    pc = "transfer" =>
        LET r == channel[Target[1]] IN
        /\ r.status \in {"BUSY", "DRQ"}
        /\ r.left = call.count - call.done
        /\ WithinRegisters(call.lba, call.count)

\* What is not yet written of a call is all that the disks differ in from the ideal.
Unsent(p, l) ==
    /\ pc = "transfer" /\ call.op = "write" /\ p = Target
    /\ l \in call.lba + call.done .. call.lba + call.count - 1

DisksButUnsent ==
    \A p \in Disks, l \in Lbas :
        ideal[p][l] = IF Unsent(p, l) THEN call.buffer[l - call.lba + 1] ELSE disk[p][l]

\* What is read so far is what the disk holds.
ReadSoFar ==
    call.op = "read" =>
        /\ pc # "transfer" => call.done = call.count
        /\ \A p \in Disks, i \in 1 .. call.done :
              Names(call.device, p) =>
                  call.buffer[i] = Received(ideal[p][call.lba + i - 1])

AtaInv ==
    /\ AtaTypes
    /\ ChannelsInOrder
    /\ CallUnderWay
    /\ WorksForCall
    /\ trusted => FindsDisks /\ LeftAsCalled /\ DisksButUnsent /\ ReadSoFar

-----------------------------------------------------------------------------
\* A call is taken up by the device, or, where that is still at work, maybe dropped.
LEMMA OneChannel ==
    ASSUME ChannelsInOrder, NEW c \in Channels, NEW r, RegistersInOrder(c, r),
           channel' = [channel EXCEPT ![c] = r]
    PROVE  ChannelsInOrder' /\ channel'[c] = r /\ \A b \in Channels \ {c} : channel'[b] = channel[b]
<1>1. channel' \in [Channels -> Registers]
  BY DEF ChannelsInOrder, RegistersInOrder
<1>2. channel'[c] = r /\ \A b \in Channels \ {c} : channel'[b] = channel[b]
  BY DEF ChannelsInOrder
<1>3. \A b \in Channels : RegistersInOrder(b, channel'[b])
  BY <1>2 DEF ChannelsInOrder
<1> QED BY <1>1, <1>2, <1>3 DEF ChannelsInOrder, RegistersInOrder

\* The registers after the outb sequence.
Issued(p, command, lba, count) ==
    [status |-> IF p \in Disks \cup PacketDevices THEN "BUSY" ELSE "NONE",
     command |-> command, drive |-> p[2], lba |-> lba, left |-> count]

LEMMA IssueStep ==
    ASSUME ChannelsInOrder, NEW p \in Positions,
           NEW command \in {"identify", "read", "write"},
           NEW lba \in 0 .. LBA_SPACE - 1, NEW count \in 1 .. COUNT_SPACE,
           Issue(p, command, lba, count)
    PROVE  /\ ChannelsInOrder'
           /\ \/ /\ channel' = [channel EXCEPT ![p[1]] = Issued(p, command, lba, count)]
                 /\ channel'[p[1]] = Issued(p, command, lba, count)
              \/ ~Settled(p[1]) /\ UNCHANGED channel
<1>1. p[1] \in Channels /\ p[2] \in {0, 1} /\ p = <<p[1], p[2]>>
  BY PositionPair
<1> DEFINE r == Issued(p, command, lba, count)
<1>2. \/ channel' = [channel EXCEPT ![p[1]] = r]
      \/ ~Settled(p[1]) /\ UNCHANGED channel
  BY <1>1 DEF Issue, DriveOf, Issued
<1>3. RegistersInOrder(p[1], r)
  <2>1. /\ r.status = IF p \in Disks \cup PacketDevices THEN "BUSY" ELSE "NONE"
        /\ r.command = command /\ r.drive = p[2] /\ r.lba = lba /\ r.left = count
        /\ r = [status |-> r.status, command |-> r.command, drive |-> r.drive,
                lba |-> r.lba, left |-> r.left]
    BY DEF Issued
  <2> HIDE DEF r
  <2>2. /\ lba \in 0 .. LBA_SPACE + COUNT_SPACE /\ count \in 0 .. COUNT_SPACE
        /\ lba + count < LBA_SPACE + COUNT_SPACE
    BY AtaAssumption
  <2>3. r \in Registers
    BY <1>1, <2>1, <2>2 DEF Registers
  <2> QED BY <1>1, <2>1, <2>2, <2>3 DEF RegistersInOrder
<1>4. CASE channel' = [channel EXCEPT ![p[1]] = r]
  <2> HIDE DEF r
  <2>1. ChannelsInOrder' /\ channel'[p[1]] = r
    BY <1>1, <1>3, <1>4, OneChannel
  <2> QED BY <1>4, <2>1 DEF r
<1>5. CASE ~Settled(p[1]) /\ UNCHANGED channel
  BY <1>5 DEF ChannelsInOrder, RegistersInOrder
<1> QED BY <1>2, <1>4, <1>5

LEMMA QuietInOrder ==
    ASSUME NEW c \in Channels, NEW status \in {"IDLE", "ERR"}
    PROVE  RegistersInOrder(c, Quiet(status)) /\ Quiet(status).status = status
<1>1. LBA_SPACE \in Nat /\ LBA_SPACE > 0 /\ COUNT_SPACE \in Nat \ {0}
  BY AtaAssumption
<1> QED BY <1>1 DEF RegistersInOrder, Registers, Quiet

\* Between two calls nothing changes of what calls have done.
LEMMA BetweenCalls ==
    ASSUME AtaInv, pc # "transfer", pc' # "transfer",
           UNCHANGED <<call, disk, in_order, ideal>>
    PROVE  /\ CallUnderWay' /\ WorksForCall'
           /\ trusted => LeftAsCalled' /\ DisksButUnsent' /\ ReadSoFar'
<1>1. CallUnderWay' /\ WorksForCall' /\ LeftAsCalled'
  BY DEF CallUnderWay, WorksForCall, LeftAsCalled
<1>2. ASSUME trusted PROVE DisksButUnsent'
  BY <1>2 DEF AtaInv, DisksButUnsent, Unsent
<1>3. ASSUME trusted PROVE ReadSoFar'
  BY <1>3 DEF AtaInv, ReadSoFar, Received, Names
<1> QED BY <1>1, <1>2, <1>3

LEMMA InitAtaInv == AtaInit => AtaInv
<1> SUFFICES ASSUME AtaInit PROVE AtaInv
  OBVIOUS
<1>1. Blanks \in [Disks -> [Lbas -> Contents]]
  BY DEF Blanks, Contents
<1>2. call.buffer \in [1 .. call.count -> IF call.op = "write" THEN Words ELSE Transferred]
  BY DEF AtaInit
<1>3. AtaTypes
  BY <1>1, <1>2 DEF AtaInit, AtaTypes
<1>4. ChannelsInOrder
  <2>1. \A c \in Channels : channel[c] = Quiet("IDLE")
    BY DEF AtaInit
  <2>2. \A c \in Channels : RegistersInOrder(c, channel[c])
    BY <2>1, QuietInOrder
  <2>3. channel \in [Channels -> Registers]
    BY <2>1, <2>2 DEF AtaInit, RegistersInOrder
  <2> QED BY <2>2, <2>3 DEF ChannelsInOrder
<1>5. CallUnderWay /\ WorksForCall /\ LeftAsCalled /\ FindsDisks /\ ReadSoFar
  BY DEF AtaInit, CallUnderWay, WorksForCall, LeftAsCalled, FindsDisks, ReadSoFar
<1>6. DisksButUnsent
  BY DEF AtaInit, DisksButUnsent, Unsent
<1> QED BY <1>3, <1>4, <1>5, <1>6 DEF AtaInv

LEMMA StorageInitStep == ASSUME AtaInv, storage_init PROVE AtaInv'
<1>1. /\ pc = "idle" /\ pc' = "probe" /\ devices' = << >> /\ probe = 1 /\ probe' = 1
      /\ UNCHANGED <<call, channel, disk, in_order, ideal, settled, trusted>>
  BY DEF storage_init, Forgotten, device_vars, AtaInv, AtaTypes
<1>2. AtaTypes'
  BY <1>1 DEF AtaInv, AtaTypes
<1>3. ChannelsInOrder'
  BY <1>1 DEF AtaInv, ChannelsInOrder, RegistersInOrder
<1>4. /\ CallUnderWay' /\ WorksForCall'
      /\ trusted => LeftAsCalled' /\ DisksButUnsent' /\ ReadSoFar'
  BY <1>1, BetweenCalls
<1>5. FindsDisks'
  BY <1>1, ThereSteps DEF FindsDisks
<1> QED BY <1>1, <1>2, <1>3, <1>4, <1>5 DEF AtaInv

\* The next position, with one device more or as many as before.
LEMMA ProbeTypes ==
    ASSUME AtaTypes, pc \in {"probe", "identify"},
           NEW found, found \in {devices, Append(devices, Probed[probe])},
           ProbeNext(found), UNCHANGED <<call, disk, in_order, ideal>>,
           settled' \in BOOLEAN, trusted' \in BOOLEAN, trusted' => settled'
    PROVE  AtaTypes' /\ pc' \in {"probe", "idle"}
<1>1. /\ devices' = found
      /\ pc' = IF probe = 4 THEN "idle" ELSE "probe"
      /\ probe' = IF probe = 4 THEN 1 ELSE probe + 1
  BY ProbedPositions DEF ProbeNext
<1>2. devices \in Seq(Positions) /\ Len(devices) < probe /\ probe \in 1 .. 4
  BY DEF AtaTypes
<1>3. found \in Seq(Positions) /\ Len(found) <= probe
  <2>1. Probed[probe] \in Positions
    BY <1>2, ProbedPositions
  <2> QED BY <1>2, <2>1
<1> QED BY <1>1, <1>2, <1>3 DEF AtaTypes

\* And with the disks among the positions up to this one.
LEMMA ProbeFinds ==
    ASSUME AtaInv, trusted, pc \in {"probe", "identify"},
           NEW found, ProbeNext(found),
           found = IF Probed[probe] \in Disks THEN Append(devices, Probed[probe])
                   ELSE devices
    PROVE  FindsDisks'
<1>1. /\ devices' = found
      /\ pc' = IF probe = 4 THEN "idle" ELSE "probe"
      /\ probe' = IF probe = 4 THEN 1 ELSE probe + 1
      /\ probe \in 1 .. 4 /\ devices = There[probe - 1]
  BY ProbedPositions DEF ProbeNext, AtaInv, AtaTypes, FindsDisks
<1>2. found = There[probe]
  BY <1>1, ThereSteps
<1>3. CASE probe = 4
  BY <1>1, <1>2, <1>3 DEF FindsDisks
<1>4. CASE probe # 4
  <2>1. probe' - 1 = probe
    BY <1>1, <1>4
  <2> QED BY <1>1, <1>2, <1>4, <2>1 DEF FindsDisks
<1> QED BY <1>3, <1>4

LEMMA IdentifyStep == ASSUME AtaInv, ata_identify PROVE AtaInv'
<1> DEFINE p == Probed[probe]
           c == p[1]
<1>1. /\ pc = "probe"
      /\ Issue(p, "identify", 0, 1)
      /\ \/ channel'[c].status = "NONE" /\ ProbeNext(devices)
         \/ /\ channel'[c].status # "NONE"
            /\ pc' = "identify"
            /\ UNCHANGED <<devices, probe>>
      /\ settled' = (settled /\ Settled(c))
      /\ trusted' = (trusted /\ Settled(c))
      /\ UNCHANGED <<call, disk, in_order, ideal>>
  BY DEF ata_identify
<1>2. AtaTypes /\ ChannelsInOrder
  BY DEF AtaInv
<1>3. /\ p \in Positions /\ probe \in 1 .. 4
      /\ 0 \in 0 .. LBA_SPACE - 1 /\ 1 \in 1 .. COUNT_SPACE
  BY <1>2, ProbedPositions, AtaAssumption DEF AtaTypes
<1> HIDE DEF p
<1>4. /\ ChannelsInOrder'
      /\ \/ channel'[c] = Issued(p, "identify", 0, 1)
         \/ ~Settled(c) /\ UNCHANGED channel
  BY <1>1, <1>2, <1>3, IssueStep
<1>5. settled' \in BOOLEAN /\ trusted' \in BOOLEAN /\ (trusted' => settled')
  BY <1>1, <1>2 DEF AtaTypes
<1>6. CASE channel'[c].status = "NONE" /\ ProbeNext(devices)
  <2>1. AtaTypes' /\ pc' \in {"probe", "idle"}
    BY <1>1, <1>2, <1>5, <1>6, ProbeTypes
  <2>2. /\ CallUnderWay' /\ WorksForCall'
        /\ trusted => LeftAsCalled' /\ DisksButUnsent' /\ ReadSoFar'
    BY <1>1, <2>1, BetweenCalls
  <2>3. ASSUME trusted' PROVE FindsDisks'
    <3>1. p \notin Disks
      <4>1. channel'[c] = Issued(p, "identify", 0, 1)
        BY <1>1, <1>4, <2>3
      <4>2. Issued(p, "identify", 0, 1).status =
              IF p \in Disks \cup PacketDevices THEN "BUSY" ELSE "NONE"
        BY DEF Issued
      <4> QED BY <1>6, <4>1, <4>2
    <3> QED BY <1>1, <1>6, <2>3, <3>1, ProbeFinds DEF p
  <2> QED BY <1>1, <1>4, <2>1, <2>2, <2>3 DEF AtaInv
<1>7. CASE /\ channel'[c].status # "NONE"
           /\ pc' = "identify"
           /\ UNCHANGED <<devices, probe>>
  <2>1. AtaTypes'
    BY <1>1, <1>2, <1>5, <1>7 DEF AtaTypes
  <2>2. /\ CallUnderWay' /\ WorksForCall'
        /\ trusted => LeftAsCalled' /\ DisksButUnsent' /\ ReadSoFar'
    BY <1>1, <1>7, BetweenCalls
  <2>3. ASSUME trusted' PROVE FindsDisks'
    <3>1. channel'[c] = Issued(p, "identify", 0, 1)
      BY <1>1, <1>4, <2>3
    <3>2. /\ channel'[c].status = "BUSY" /\ p \in Disks \cup PacketDevices
          /\ channel'[c].drive = p[2] /\ channel'[c].command = "identify"
          /\ channel'[c].left = 1
      BY <1>7, <3>1 DEF Issued
    <3>3. devices = There[probe - 1]
      BY <1>1, <2>3 DEF AtaInv, FindsDisks
    <3> QED BY <1>7, <3>2, <3>3 DEF FindsDisks, p
  <2> QED BY <1>1, <1>4, <2>1, <2>2, <2>3 DEF AtaInv
<1> QED BY <1>1, <1>6, <1>7

LEMMA IdentifiedStep == ASSUME AtaInv, ata_identified PROVE AtaInv'
<1> DEFINE p == Probed[probe]
           c == p[1]
<1>1. /\ pc = "identify"
      /\ channel[c].status # "BUSY"
      /\ \/ channel[c].status = "ERR" /\ ProbeNext(devices) /\ UNCHANGED channel
         \/ /\ channel[c].status # "ERR"
            /\ ProbeNext(Append(devices, p))
            /\ channel' = [channel EXCEPT ![c] = Quiet("IDLE")]
      /\ UNCHANGED <<call, disk, in_order, ideal, settled, trusted>>
  BY DEF ata_identified, Ready
<1>2. AtaTypes /\ ChannelsInOrder
  BY DEF AtaInv
<1>3. p \in Positions /\ probe \in 1 .. 4 /\ c \in Channels /\ p = <<c, p[2]>>
  BY <1>2, ProbedPositions, PositionPair DEF AtaTypes
<1>4. PICK found \in {devices, Append(devices, p)} :
         /\ ProbeNext(found)
         /\ found = IF channel[c].status = "ERR" THEN devices ELSE Append(devices, p)
  BY <1>1
<1>5. AtaTypes' /\ pc' \in {"probe", "idle"}
  <2>1. settled' \in BOOLEAN /\ trusted' \in BOOLEAN /\ (trusted' => settled')
    BY <1>1, <1>2 DEF AtaTypes
  <2> QED BY <1>1, <1>2, <1>4, <2>1, ProbeTypes
<1>6. ChannelsInOrder'
  <2>1. CASE UNCHANGED channel
    BY <1>2, <2>1 DEF ChannelsInOrder, RegistersInOrder
  <2>2. CASE channel' = [channel EXCEPT ![c] = Quiet("IDLE")]
    BY <1>2, <1>3, <2>2, QuietInOrder, OneChannel
  <2> QED BY <1>1, <2>1, <2>2
<1>7. /\ CallUnderWay' /\ WorksForCall'
      /\ trusted => LeftAsCalled' /\ DisksButUnsent' /\ ReadSoFar'
  BY <1>1, <1>5, BetweenCalls
<1>8. ASSUME trusted PROVE FindsDisks'
  <2>1. \/ /\ channel[c].status \in {"BUSY", "DRQ"} /\ channel[c].drive = p[2]
        \/ channel[c].status = "ERR" /\ p \in PacketDevices
    BY <1>1, <1>8 DEF AtaInv, FindsDisks
  <2>2. channel[c].status = "DRQ" => <<c, channel[c].drive>> \in Disks
    BY <1>2, <1>3 DEF ChannelsInOrder, RegistersInOrder
  <2>3. channel[c].status = "ERR" <=> p \notin Disks
    BY <1>1, <1>3, <2>1, <2>2, AtaAssumption
  <2> HIDE DEF c
  <2>4. found = IF p \in Disks THEN Append(devices, p) ELSE devices
    BY <1>4, <2>3
  <2> QED BY <1>1, <1>4, <1>8, <2>4, ProbeFinds
<1> QED BY <1>1, <1>5, <1>6, <1>7, <1>8 DEF AtaInv

\* By the rules the device of a call is a disk, the one that its number names, and the
\* registers of its channel are those of the next sector.
LEMMA TrustedCall ==
    ASSUME AtaInv, trusted, pc = "transfer"
    PROVE  /\ devices = There[4] /\ Target \in Disks /\ Target \in Positions
           /\ \A p : Names(call.device, p) <=> p = Target
           /\ LET r == channel[Target[1]] IN
              /\ r.status \in {"BUSY", "DRQ"}
              /\ r.command = call.op /\ <<Target[1], r.drive>> = Target
              /\ r.lba = call.lba + call.done
              /\ r.left = call.count - call.done
<1>1. /\ call.device \in 1 .. Len(devices) /\ devices \in {<< >>, There[4]}
      /\ devices \in Seq(Positions) /\ settled
  BY DEF AtaInv, CallUnderWay, FindsDisks, AtaTypes
<1>2. devices = There[4] /\ There[4] \in Seq(Disks)
  BY <1>1, ThereDisks
<1>3. Target \in Disks /\ Target \in Positions
  BY <1>1, <1>2 DEF Target
<1>4. \A p : Names(call.device, p) <=> p = Target
  BY <1>1, <1>2 DEF Names, Target
<1>5. Target = <<Target[1], Target[2]>>
  BY <1>3, PositionPair
<1>6. call.lba < LBA_SPACE
  <2>1. WithinRegisters(call.lba, call.count)
    BY DEF AtaInv, LeftAsCalled
  <2>2. call.lba \in Nat /\ call.count \in Nat
    BY AtaAssumption DEF AtaInv, AtaTypes
  <2> QED BY <2>1, <2>2, AtaAssumption DEF WithinRegisters
<1> QED BY <1>1, <1>2, <1>3, <1>4, <1>5, <1>6 DEF AtaInv, LeftAsCalled, WorksForCall

LEMMA RequestStep ==
    ASSUME AtaInv, NEW op \in {"read", "write"}, NEW d \in 1 .. 4,
           NEW lba \in Starts, NEW n \in Counts,
           NEW buffer \in [1 .. n -> IF op = "write" THEN Words ELSE Transferred],
           Request(op, d, lba, n, buffer)
    PROVE  AtaInv'
<1> DEFINE T == devices[d]
<1>1. /\ pc = "idle" /\ d \in 1 .. Len(devices)
      /\ Issue(T, op, lba % LBA_SPACE, Programmed(n))
      /\ call' = [op |-> op, device |-> d, lba |-> lba, count |-> n,
                  buffer |-> buffer, done |-> 0]
      /\ pc' = IF n = 0 THEN "idle" ELSE "transfer"
      /\ settled' = (settled /\ Settled(T[1]))
      /\ trusted' = (trusted /\ settled' /\ WithinRegisters(lba, n))
      /\ ideal' = IF ~trusted' THEN Blanks
                  ELSE [p \in Disks |-> [l \in Lbas |->
                          IF op = "write" /\ Names(d, p) /\ l \in lba .. lba + n - 1
                          THEN buffer[l - lba + 1] ELSE ideal[p][l]]]
      /\ UNCHANGED <<devices, probe, disk, in_order>>
  BY DEF Request
<1>2. AtaTypes /\ ChannelsInOrder
  BY DEF AtaInv
<1>3. /\ lba \in Nat /\ n \in Nat /\ LBA_SPACE \in Nat /\ LBA_SPACE > 0
      /\ lba % LBA_SPACE \in 0 .. LBA_SPACE - 1
      /\ lba < LBA_SPACE => lba % LBA_SPACE = lba
      /\ Programmed(n) \in 1 .. COUNT_SPACE
      /\ n \in 1 .. COUNT_SPACE => Programmed(n) = n
  <2>1. lba \in Nat /\ n \in Nat /\ LBA_SPACE \in Nat /\ LBA_SPACE > 0
    BY AtaAssumption
  <2> QED BY <2>1, ProgrammedCount
<1>4. T \in Positions /\ devices \in Seq(Positions)
  BY <1>1, <1>2 DEF AtaTypes
<1> HIDE DEF T
<1>5. /\ call'.op = op /\ call'.device = d /\ call'.lba = lba /\ call'.count = n
      /\ call'.buffer = buffer /\ call'.done = 0
  BY <1>1
<1>6. Target' = T
  BY <1>1, <1>5 DEF Target, T
<1>7. /\ ChannelsInOrder'
      /\ \/ channel'[T[1]] = Issued(T, op, lba % LBA_SPACE, Programmed(n))
         \/ ~Settled(T[1]) /\ UNCHANGED channel
  BY <1>1, <1>2, <1>3, <1>4, IssueStep
<1>8. ideal' \in [Disks -> [Lbas -> Contents]]
  <2>1. CASE ~trusted'
    BY <1>1, <2>1 DEF Blanks, Contents
  <2>2. CASE trusted'
    <3>1. ASSUME NEW p \in Disks, NEW l \in Lbas
          PROVE  (IF op = "write" /\ Names(d, p) /\ l \in lba .. lba + n - 1
                  THEN buffer[l - lba + 1] ELSE ideal[p][l]) \in Contents
      <4>1. ideal[p][l] \in Contents
        BY <1>2 DEF AtaTypes
      <4>2. ASSUME op = "write", l \in lba .. lba + n - 1
            PROVE  buffer[l - lba + 1] \in Contents
        <5>1. l - lba + 1 \in 1 .. n
          BY <1>3, <4>2
        <5> QED BY <4>2, <5>1 DEF Contents
      <4> QED BY <4>1, <4>2
    <3> QED BY <1>1, <2>2, <3>1
  <2> QED BY <2>1, <2>2
<1>9. AtaTypes'
  <2>1. settled' \in BOOLEAN /\ trusted' \in BOOLEAN /\ (trusted' => settled')
    BY <1>1, <1>2 DEF AtaTypes
  <2>2. call' \in [op : {"none", "read", "write"}, device : 0 .. 4, lba : Starts \cup {0},
                   count : Counts \cup {0}, buffer : {call'.buffer}, done : 0 .. call'.count]
    <3>1. 0 \in 0 .. n
      BY <1>3
    <3> QED BY <1>1, <1>5, <3>1
  <2>3. call'.buffer \in
          [1 .. call'.count -> IF call'.op = "write" THEN Words ELSE Transferred]
    BY <1>5
  <2>4. pc' \in {"idle", "transfer"} /\ UNCHANGED <<devices, probe, disk, in_order>>
    BY <1>1
  <2> QED BY <1>1, <1>2, <1>8, <2>1, <2>2, <2>3, <2>4 DEF AtaTypes
<1>10. CallUnderWay'
  <2>1. n # 0 => 0 < n
    BY <1>3
  <2> QED BY <1>1, <1>5, <2>1 DEF CallUnderWay
<1>11. ASSUME settled' PROVE channel'[T[1]] = Issued(T, op, lba % LBA_SPACE, Programmed(n))
  BY <1>1, <1>7, <1>11
<1>12. WorksForCall'
  <2> SUFFICES ASSUME settled', call'.lba < LBA_SPACE
               PROVE  LET r == channel'[T[1]] IN
                      /\ r.command = call'.op
                      /\ r.drive = T[2]
                      /\ r.lba = call'.lba + call'.done
    BY <1>6 DEF WorksForCall
  <2>1. lba % LBA_SPACE = lba + 0
    BY <1>3, <1>5
  <2> QED BY <1>5, <1>11, <2>1 DEF Issued
<1>13. ASSUME trusted'
       PROVE  FindsDisks' /\ LeftAsCalled' /\ DisksButUnsent' /\ ReadSoFar'
  <2>1. /\ trusted /\ settled' /\ WithinRegisters(lba, n)
        /\ ideal' = [p \in Disks |-> [l \in Lbas |->
                       IF op = "write" /\ Names(d, p) /\ l \in lba .. lba + n - 1
                       THEN buffer[l - lba + 1] ELSE ideal[p][l]]]
    BY <1>1, <1>13
  <2>2. n \in 1 .. COUNT_SPACE /\ pc' = "transfer"
    BY <1>1, <1>3, <2>1, AtaAssumption DEF WithinRegisters
  <2>3. devices = There[4] /\ There[4] \in Seq(Disks)
    <3>1. devices \in {<< >>, There[4]}
      BY <1>1, <2>1 DEF AtaInv, FindsDisks
    <3>2. devices # << >>
      BY <1>1, <1>4
    <3> QED BY <3>1, <3>2, ThereDisks
  <2>4. T \in Disks /\ \A p : Names(d, p) <=> p = T
    BY <1>1, <2>3 DEF T, Names
  <2>5. FindsDisks'
    BY <1>1, <2>2, <2>3 DEF FindsDisks
  <2>6. LeftAsCalled'
    <3>1. channel'[T[1]].status = "BUSY" /\ channel'[T[1]].left = n - 0
      BY <1>3, <1>11, <2>1, <2>2, <2>4 DEF Issued
    <3>2. WithinRegisters(lba, n)'
      BY <2>1
    <3> QED BY <1>5, <1>6, <2>1, <3>1 DEF LeftAsCalled, WithinRegisters
  <2>7. \A p \in Disks, l \in Lbas : ideal[p][l] = disk[p][l]
    BY <1>1, <2>1 DEF AtaInv, DisksButUnsent, Unsent
  <2>8. DisksButUnsent'
    <3> SUFFICES ASSUME NEW p \in Disks, NEW l \in Lbas
                 PROVE  ideal'[p][l] = IF Unsent(p, l)' THEN call'.buffer[l - call'.lba + 1]
                                       ELSE disk'[p][l]
      BY DEF DisksButUnsent
    <3>1. Unsent(p, l)' <=> op = "write" /\ Names(d, p) /\ l \in lba .. lba + n - 1
      <4>1. lba + 0 = lba
        BY <1>3
      <4> QED BY <1>5, <1>6, <2>2, <2>4, <4>1 DEF Unsent
    <3>2. ideal'[p][l] = IF op = "write" /\ Names(d, p) /\ l \in lba .. lba + n - 1
                         THEN buffer[l - lba + 1] ELSE ideal[p][l]
      BY <2>1
    <3> QED BY <1>1, <1>5, <2>7, <3>1, <3>2
  <2>9. ReadSoFar'
    BY <1>5, <2>2 DEF ReadSoFar
  <2> QED BY <2>5, <2>6, <2>8, <2>9
<1> QED BY <1>7, <1>9, <1>10, <1>12, <1>13 DEF AtaInv

LEMMA DeviceStep == ASSUME AtaInv, NEW b \in Channels, device(b) PROVE AtaInv'
<1> DEFINE r == channel[b]
<1>1. PICK status \in Answers(b) :
        /\ channel' = [channel EXCEPT ![b] =
              IF status = "DRQ" THEN [@ EXCEPT !.status = "DRQ"] ELSE Quiet(status)]
        /\ trusted' = (trusted /\ (status = "ERR" => <<b, r.drive>> \in PacketDevices))
        /\ ideal' = IF trusted' THEN ideal ELSE Blanks
  BY DEF device
<1>2. r.status = "BUSY" /\ UNCHANGED <<devices, pc, probe, call, disk, in_order, settled>>
  BY DEF device, driver_vars
<1>3. AtaTypes /\ ChannelsInOrder
  BY DEF AtaInv
<1>4. /\ status \in {"IDLE", "DRQ", "ERR"}
      /\ status = "IDLE" <=> r.left = 0
      /\ status = "DRQ" =>
            /\ <<b, r.drive>> \notin PacketDevices
            /\ r.command # "identify" => r.lba \in Lbas
  BY DEF Answers
<1>5. RegistersInOrder(b, r) /\ r \in Registers
  BY <1>3 DEF ChannelsInOrder, RegistersInOrder
<1> DEFINE new == IF status = "DRQ" THEN [r EXCEPT !.status = "DRQ"] ELSE Quiet(status)
<1>6. channel' = [channel EXCEPT ![b] = new]
  BY <1>1, <1>3 DEF ChannelsInOrder
<1>7. /\ RegistersInOrder(b, new) /\ new.status = status
      /\ status = "DRQ" => /\ new.command = r.command /\ new.drive = r.drive
                           /\ new.lba = r.lba /\ new.left = r.left
  <2>1. CASE status = "DRQ"
    <3>1. /\ new.status = "DRQ" /\ new.command = r.command /\ new.drive = r.drive
          /\ new.lba = r.lba /\ new.left = r.left /\ new \in Registers
      BY <1>5, <2>1 DEF Registers
    <3>2. r.left \in Nat /\ r.left # 0
      BY <1>4, <1>5, <2>1 DEF Registers
    <3>3. <<b, r.drive>> \in Disks
      BY <1>2, <1>4, <1>5, <2>1 DEF RegistersInOrder
    <3> HIDE DEF new
    <3>4. RegistersInOrder(b, new)
      BY <1>4, <1>5, <2>1, <3>1, <3>2, <3>3 DEF RegistersInOrder
    <3> QED BY <2>1, <3>1, <3>4
  <2>2. CASE status # "DRQ"
    BY <1>4, <2>2, QuietInOrder
  <2> QED BY <2>1, <2>2
<1> HIDE DEF new
<1>8. ChannelsInOrder' /\ channel'[b] = new /\ \A c \in Channels \ {b} : channel'[c] = channel[c]
  BY <1>3, <1>6, <1>7, OneChannel
<1>9. ideal' \in [Disks -> [Lbas -> Contents]]
  BY <1>1, <1>3 DEF AtaTypes, Blanks, Contents
<1>10. AtaTypes'
  <2>1. trusted' \in BOOLEAN /\ (trusted' => trusted)
    BY <1>1, <1>3 DEF AtaTypes
  <2> QED BY <1>2, <1>3, <1>9, <2>1 DEF AtaTypes
<1>11. CallUnderWay'
  BY <1>2 DEF AtaInv, CallUnderWay
<1>12. pc = "transfer" => Target' = Target /\ Target[1] \in Channels
  <2>1. ASSUME pc = "transfer" PROVE Target[1] \in Channels
    <3>1. Target \in Positions
      BY <1>3, <2>1 DEF AtaInv, CallUnderWay, AtaTypes, Target
    <3> QED BY <3>1, PositionPair
  <2> QED BY <1>2, <2>1 DEF Target
<1>13. WorksForCall'
  <2> SUFFICES ASSUME settled, pc = "transfer", call.lba < LBA_SPACE,
                      channel'[Target[1]].status \in {"BUSY", "DRQ"}
               PROVE  /\ channel'[Target[1]].command = call.op
                      /\ channel'[Target[1]].drive = Target[2]
                      /\ channel'[Target[1]].lba = call.lba + call.done
    BY <1>2, <1>12 DEF WorksForCall
  <2>1. channel[Target[1]].status \in {"BUSY", "DRQ"} =>
            /\ channel[Target[1]].command = call.op
            /\ channel[Target[1]].drive = Target[2]
            /\ channel[Target[1]].lba = call.lba + call.done
    BY DEF AtaInv, WorksForCall
  <2>2. CASE Target[1] = b
    BY <1>2, <1>4, <1>7, <1>8, <2>1, <2>2
  <2>3. CASE Target[1] # b
    BY <1>8, <1>12, <2>1, <2>3
  <2> QED BY <2>2, <2>3
<1>14. ASSUME trusted'
       PROVE  FindsDisks' /\ LeftAsCalled' /\ DisksButUnsent' /\ ReadSoFar'
  <2>1. /\ trusted /\ UNCHANGED ideal
        /\ status = "ERR" => <<b, r.drive>> \in PacketDevices
    BY <1>1, <1>14
  <2>2. DisksButUnsent'
    BY <1>2, <2>1 DEF AtaInv, DisksButUnsent, Unsent, Target
  <2>3. ReadSoFar'
    BY <1>2, <2>1 DEF AtaInv, ReadSoFar, Received, Names
  <2>4. FindsDisks'
    <3> DEFINE p == Probed[probe]
    <3>1. ASSUME pc = "identify"
          PROVE  \/ /\ channel'[p[1]].status \in {"BUSY", "DRQ"}
                    /\ channel'[p[1]].drive = p[2]
                    /\ channel'[p[1]].command = "identify" /\ channel'[p[1]].left = 1
                 \/ channel'[p[1]].status = "ERR" /\ p \in PacketDevices
      <4>1. \/ /\ channel[p[1]].status \in {"BUSY", "DRQ"}
               /\ channel[p[1]].drive = p[2]
               /\ channel[p[1]].command = "identify" /\ channel[p[1]].left = 1
            \/ channel[p[1]].status = "ERR" /\ p \in PacketDevices
        BY <2>1, <3>1 DEF AtaInv, FindsDisks
      <4>2. p[1] \in Channels /\ p = <<p[1], p[2]>>
        <5>1. p \in Positions
          BY <1>3, ProbedPositions DEF AtaTypes
        <5> QED BY <5>1, PositionPair
      <4> HIDE DEF p
      <4>3. CASE p[1] = b
        <5>1. r.drive = p[2] /\ r.command = "identify" /\ r.left = 1
          BY <1>2, <4>1, <4>3
        <5>2. status # "IDLE"
          BY <1>4, <5>1
        <5>3. status = "ERR" => p \in PacketDevices
          BY <2>1, <4>2, <4>3, <5>1
        <5> QED BY <1>4, <1>7, <1>8, <4>3, <5>1, <5>2, <5>3
      <4>4. CASE p[1] # b
        BY <1>8, <4>1, <4>2, <4>4
      <4> QED BY <4>3, <4>4
    <3> QED BY <1>2, <2>1, <3>1 DEF AtaInv, FindsDisks
  <2>5. LeftAsCalled'
    <3> SUFFICES ASSUME pc = "transfer"
                 PROVE  /\ channel'[Target[1]].status \in {"BUSY", "DRQ"}
                        /\ channel'[Target[1]].left = call.count - call.done
                        /\ WithinRegisters(call.lba, call.count)
      BY <1>2, <1>12 DEF LeftAsCalled, WithinRegisters
    <3>1. /\ Target \in Disks
          /\ channel[Target[1]].status \in {"BUSY", "DRQ"}
          /\ <<Target[1], channel[Target[1]].drive>> = Target
          /\ channel[Target[1]].left = call.count - call.done
      BY <2>1, TrustedCall
    <3>2. WithinRegisters(call.lba, call.count)
      BY <2>1 DEF AtaInv, LeftAsCalled
    <3>3. CASE Target[1] = b
      <4>1. r.left # 0
        <5>1. call.count \in Nat /\ call.done \in Nat /\ call.done < call.count
          BY <1>3, AtaAssumption DEF AtaInv, AtaTypes, CallUnderWay
        <5> QED BY <3>1, <3>3, <5>1
      <4>2. status # "ERR"
        BY <2>1, <3>1, <3>3, AtaAssumption
      <4> QED BY <1>4, <1>7, <1>8, <3>1, <3>2, <3>3, <4>1, <4>2
    <3>4. CASE Target[1] # b
      BY <1>8, <1>12, <3>1, <3>2, <3>4
    <3> QED BY <3>3, <3>4
  <2> QED BY <2>2, <2>3, <2>4, <2>5
<1> QED BY <1>8, <1>10, <1>11, <1>13, <1>14 DEF AtaInv

\* What the channel does when a sector has crossed the port.
LEMMA SectorCrosses ==
    ASSUME NEW b \in Channels, NEW r, RegistersInOrder(b, r), r.status = "DRQ"
    PROVE  /\ RegistersInOrder(b, AfterSector(r))
           /\ \/ /\ AfterSector(r).status = "BUSY"
                 /\ AfterSector(r).command = r.command /\ AfterSector(r).drive = r.drive
                 /\ AfterSector(r).lba = r.lba + 1 /\ AfterSector(r).left = r.left - 1
              \/ AfterSector(r).status = "IDLE" /\ r.left = 1
<1> DEFINE next == [r EXCEPT !.lba = @ + 1, !.left = @ - 1, !.status = "BUSY"]
<1>1. /\ r \in Registers /\ r.lba + r.left < LBA_SPACE + COUNT_SPACE
      /\ <<b, r.drive>> \in Disks /\ r.left > 0
  BY DEF RegistersInOrder
<1>2. r.lba \in Nat /\ r.left \in 0 .. COUNT_SPACE /\ LBA_SPACE \in Nat /\ COUNT_SPACE \in Nat
  BY <1>1, AtaAssumption DEF Registers
<1>3. /\ next.status = "BUSY" /\ next.command = r.command /\ next.drive = r.drive
      /\ next.lba = r.lba + 1 /\ next.left = r.left - 1
  BY <1>1 DEF Registers
<1>4. next \in Registers
  <2>1. r.lba + 1 \in 0 .. LBA_SPACE + COUNT_SPACE /\ r.left - 1 \in 0 .. COUNT_SPACE
    BY <1>1, <1>2
  <2> QED BY <1>1, <2>1 DEF Registers
<1> HIDE DEF next
<1>5. RegistersInOrder(b, next)
  <2>1. next.lba + next.left < LBA_SPACE + COUNT_SPACE
    BY <1>1, <1>2, <1>3
  <2> QED BY <1>1, <1>3, <1>4, <2>1 DEF RegistersInOrder
<1>6. AfterSector(r) = IF r.left = 1 /\ r.command = "read" THEN Quiet("IDLE") ELSE next
  BY DEF AfterSector, next
<1>7. CASE r.left = 1 /\ r.command = "read"
  BY <1>6, <1>7, QuietInOrder
<1>8. CASE ~(r.left = 1 /\ r.command = "read")
  BY <1>3, <1>5, <1>6, <1>8
<1> QED BY <1>7, <1>8

LEMMA TransferStep == ASSUME AtaInv, transfer_sector PROVE AtaInv'
<1> DEFINE c == Target[1]
           r == channel[c]
           i == call.done + 1
           granted == r.status = "DRQ" /\ r.command = call.op
           at == <<c, r.drive>>
<1>1. /\ pc = "transfer" /\ r.status # "BUSY"
      /\ \/ /\ call.op = "read"
            /\ call' = [call EXCEPT !.done = i, !.buffer[i] =
                  IF granted THEN Received(disk[at][r.lba]) ELSE Garbage]
            /\ UNCHANGED disk
         \/ /\ call.op = "write"
            /\ call' = [call EXCEPT !.done = i]
            /\ disk' = IF granted THEN [disk EXCEPT ![at][r.lba] = call.buffer[i]]
                       ELSE disk
      /\ channel' = IF granted THEN [channel EXCEPT ![c] = AfterSector(r)] ELSE channel
      /\ pc' = IF i = call.count THEN "idle" ELSE "transfer"
      /\ UNCHANGED <<devices, probe, in_order, ideal, settled, trusted>>
  BY DEF transfer_sector, Ready, Target
<1>2. AtaTypes /\ ChannelsInOrder /\ CallUnderWay
  BY DEF AtaInv
<1>3. /\ call.op \in {"read", "write"} /\ call.device \in 1 .. Len(devices)
      /\ call.done \in Nat /\ call.count \in Nat /\ call.lba \in Nat
      /\ call.done < call.count /\ i \in 1 .. call.count
  <2>1. call.done \in Nat /\ call.count \in Nat /\ call.lba \in Nat
    BY <1>2, AtaAssumption DEF AtaTypes
  <2> QED BY <1>1, <1>2, <2>1 DEF CallUnderWay
<1>4. Target \in Positions /\ c \in Channels /\ Target = <<c, Target[2]>>
  <2>1. Target \in Positions
    BY <1>2, <1>3 DEF AtaTypes, Target
  <2> QED BY <2>1, PositionPair
<1>5. RegistersInOrder(c, r)
  BY <1>2, <1>4 DEF ChannelsInOrder
<1>6. granted => at \in Disks /\ r.lba \in Lbas
  BY <1>3, <1>5 DEF RegistersInOrder
<1>7. /\ call'.op = call.op /\ call'.device = call.device /\ call'.lba = call.lba
      /\ call'.count = call.count /\ call'.done = i
      /\ call' = [op |-> call.op, device |-> call.device, lba |-> call.lba,
                  count |-> call.count, buffer |-> call'.buffer, done |-> i]
      /\ call.op = "write" => call'.buffer = call.buffer
      /\ call.op = "read" =>
            call'.buffer = [call.buffer EXCEPT ![i] =
                IF granted THEN Received(disk[at][r.lba]) ELSE Garbage]
  BY <1>1, <1>2 DEF AtaTypes
<1>8. Target' = Target
  BY <1>1, <1>7 DEF Target
<1>9. disk' = IF call.op = "write" /\ granted
              THEN [disk EXCEPT ![at][r.lba] = call.buffer[i]] ELSE disk
  BY <1>1
<1> HIDE DEF c, r, i, granted, at
<1>10. AtaTypes'
  <2>1. call'.buffer \in
          [1 .. call'.count -> IF call'.op = "write" THEN Words ELSE Transferred]
    <3>1. CASE call.op = "write"
      BY <1>2, <1>7, <3>1 DEF AtaTypes
    <3>2. CASE call.op = "read"
      <4>1. (IF granted THEN Received(disk[at][r.lba]) ELSE Garbage) \in Transferred
        <5>1. CASE granted
          <6>1. disk[at][r.lba] \in Contents
            BY <1>2, <1>6, <5>1 DEF AtaTypes
          <6> QED BY <5>1, <6>1 DEF Received, Transferred
        <5>2. CASE ~granted
          BY <5>2 DEF Transferred
        <5> QED BY <5>1, <5>2
      <4>2. call.buffer \in [1 .. call.count -> Transferred]
        BY <1>2, <3>2 DEF AtaTypes
      <4> QED BY <1>3, <1>7, <3>2, <4>1, <4>2
    <3> QED BY <1>3, <3>1, <3>2
  <2>2. call' \in [op : {"none", "read", "write"}, device : 0 .. 4, lba : Starts \cup {0},
                   count : Counts \cup {0}, buffer : {call'.buffer}, done : 0 .. call'.count]
    <3>1. i \in 0 .. call.count
      BY <1>3
    <3> QED BY <1>2, <1>7, <3>1 DEF AtaTypes
  <2>3. disk' \in [Disks -> [Lbas -> Contents]]
    <3>1. CASE call.op = "write" /\ granted
      <4>1. call.buffer[i] \in Contents
        BY <1>2, <1>3, <3>1 DEF AtaTypes, Contents
      <4> QED BY <1>2, <1>6, <1>9, <3>1, <4>1 DEF AtaTypes
    <3>2. CASE ~(call.op = "write" /\ granted)
      BY <1>2, <1>9, <3>2 DEF AtaTypes
    <3> QED BY <3>1, <3>2
  <2>4. pc' \in {"idle", "transfer"}
    BY <1>1
  <2> QED BY <1>1, <1>2, <2>1, <2>2, <2>3, <2>4 DEF AtaTypes
<1>11. /\ ChannelsInOrder'
       /\ ~granted => channel'[c] = r
       /\ granted => \/ /\ channel'[c].status = "BUSY"
                        /\ channel'[c].command = r.command /\ channel'[c].drive = r.drive
                        /\ channel'[c].lba = r.lba + 1 /\ channel'[c].left = r.left - 1
                     \/ channel'[c].status = "IDLE" /\ r.left = 1
  <2>1. CASE granted
    <3>1. r.status = "DRQ"
      BY <2>1 DEF granted
    <3>2. RegistersInOrder(c, AfterSector(r)) /\ channel' = [channel EXCEPT ![c] = AfterSector(r)]
      BY <1>1, <1>4, <1>5, <2>1, <3>1, SectorCrosses
    <3>3. ChannelsInOrder' /\ channel'[c] = AfterSector(r)
      BY <1>2, <1>4, <3>2, OneChannel
    <3> QED BY <1>4, <1>5, <2>1, <3>1, <3>3, SectorCrosses
  <2>2. CASE ~granted
    BY <1>1, <1>2, <2>2 DEF ChannelsInOrder, RegistersInOrder, r
  <2> QED BY <2>1, <2>2
<1>12. CallUnderWay'
  <2>1. i # call.count => i < call.count
    BY <1>3
  <2> QED BY <1>1, <1>3, <1>7, <2>1 DEF CallUnderWay
<1>13. WorksForCall'
  <2> SUFFICES ASSUME settled, pc' = "transfer", call.lba < LBA_SPACE,
                      channel'[c].status \in {"BUSY", "DRQ"}
               PROVE  /\ channel'[c].command = call.op
                      /\ channel'[c].drive = Target[2]
                      /\ channel'[c].lba = call.lba + i
    BY <1>1, <1>7, <1>8 DEF WorksForCall, c
  <2>1. r.status \in {"BUSY", "DRQ"} =>
            r.command = call.op /\ r.drive = Target[2] /\ r.lba = call.lba + call.done
    BY <1>1 DEF AtaInv, WorksForCall, c, r
  <2>2. granted
    BY <1>1, <1>11, <2>1 DEF granted
  <2>3. call.lba + call.done + 1 = call.lba + i
    BY <1>3 DEF i
  <2> QED BY <1>11, <2>1, <2>2, <2>3 DEF granted
<1>14. ASSUME trusted
       PROVE  FindsDisks' /\ LeftAsCalled' /\ DisksButUnsent' /\ ReadSoFar'
  <2>1. /\ devices = There[4] /\ Target \in Disks
        /\ \A p : Names(call.device, p) <=> p = Target
        /\ granted /\ at = Target
        /\ r.lba = call.lba + call.done /\ r.left = call.count - call.done
    BY <1>1, <1>14, TrustedCall DEF granted, at, c, r
  <2>2. r.lba \in Lbas /\ r.lba = call.lba + i - 1
    BY <1>3, <1>6, <2>1 DEF i
  <2>3. FindsDisks'
    BY <1>1, <2>1 DEF FindsDisks
  <2>4. LeftAsCalled'
    <3> SUFFICES ASSUME pc' = "transfer"
                 PROVE  /\ channel'[c].status \in {"BUSY", "DRQ"}
                        /\ channel'[c].left = call.count - i
                        /\ WithinRegisters(call.lba, call.count)
      BY <1>7, <1>8 DEF LeftAsCalled, WithinRegisters, c
    <3>1. r.left # 1 /\ r.left - 1 = call.count - i
      BY <1>1, <1>3, <2>1 DEF i
    <3>2. WithinRegisters(call.lba, call.count)
      BY <1>1, <1>14 DEF AtaInv, LeftAsCalled
    <3> QED BY <1>11, <2>1, <3>1, <3>2
  <2>5. \A p \in Disks, l \in Lbas :
           ideal[p][l] = IF call.op = "write" /\ p = Target
                            /\ l \in call.lba + call.done .. call.lba + call.count - 1
                         THEN call.buffer[l - call.lba + 1] ELSE disk[p][l]
    BY <1>1, <1>14 DEF AtaInv, DisksButUnsent, Unsent
  <2>6. DisksButUnsent'
    <3> SUFFICES ASSUME NEW p \in Disks, NEW l \in Lbas
                 PROVE  ideal'[p][l] = IF Unsent(p, l)' THEN call'.buffer[l - call'.lba + 1]
                                       ELSE disk'[p][l]
      BY DEF DisksButUnsent
    <3>1. CASE call.op = "read"
      BY <1>1, <1>7, <1>9, <2>5, <3>1 DEF Unsent
    <3>2. CASE call.op = "write"
      <4>1. Unsent(p, l)' <=> p = Target /\ l \in call.lba + i .. call.lba + call.count - 1
        <5>1. i = call.count => call.lba + i .. call.lba + call.count - 1 = {}
          BY <1>3
        <5> QED BY <1>1, <1>7, <1>8, <3>2, <5>1 DEF Unsent
      <4>2. call'.buffer = call.buffer /\ call'.lba = call.lba /\ ideal' = ideal
        BY <1>1, <1>7, <3>2
      <4>3. disk'[p][l] = IF p = Target /\ l = r.lba THEN call.buffer[i] ELSE disk[p][l]
        BY <1>2, <1>9, <2>1, <2>2, <3>2 DEF AtaTypes
      <4>4. CASE p = Target /\ l = r.lba
        <5>1. /\ l \in call.lba + call.done .. call.lba + call.count - 1
              /\ l \notin call.lba + i .. call.lba + call.count - 1
              /\ l - call.lba + 1 = i
          BY <1>3, <2>1, <4>4 DEF i
        <5> QED BY <2>5, <3>2, <4>1, <4>2, <4>3, <4>4, <5>1
      <4>5. CASE ~(p = Target /\ l = r.lba)
        <5>1. p = Target => (l \in call.lba + call.done .. call.lba + call.count - 1 <=>
                             l \in call.lba + i .. call.lba + call.count - 1)
          <6>1. l \in Nat
            BY DEF Lbas
          <6> QED BY <1>3, <2>1, <4>5, <6>1 DEF i
        <5> QED BY <2>5, <3>2, <4>1, <4>2, <4>3, <4>5, <5>1
      <4> QED BY <4>4, <4>5
    <3> QED BY <1>3, <3>1, <3>2
  <2>7. ReadSoFar'
    <3> SUFFICES ASSUME call.op = "read"
                 PROVE  /\ pc' # "transfer" => i = call.count
                        /\ \A p \in Disks, k \in 1 .. i : Names(call.device, p) =>
                              call'.buffer[k] = Received(ideal[p][call.lba + k - 1])
      BY <1>1, <1>7 DEF ReadSoFar, Received, Names
    <3>1. pc' # "transfer" => i = call.count
      BY <1>1
    <3>2. ASSUME NEW p \in Disks, NEW k \in 1 .. i, Names(call.device, p)
          PROVE  call'.buffer[k] = Received(ideal[p][call.lba + k - 1])
      <4>1. call.buffer \in [1 .. call.count -> Transferred] /\ p = Target
        BY <1>2, <2>1, <3>2 DEF AtaTypes
      <4>2. CASE k = i
        <5>1. call'.buffer[i] = Received(disk[Target][r.lba])
          BY <1>3, <1>7, <2>1, <4>1
        <5>2. ideal[Target][r.lba] = disk[Target][r.lba]
          BY <2>1, <2>2, <2>5
        <5> QED BY <2>2, <4>1, <4>2, <5>1, <5>2
      <4>3. CASE k # i
        <5>1. k \in 1 .. call.done /\ k \in 1 .. call.count
          BY <1>3, <4>3 DEF i
        <5>2. call'.buffer[k] = call.buffer[k]
          BY <1>7, <4>1, <4>3, <5>1
        <5> QED BY <1>14, <3>2, <5>1, <5>2 DEF AtaInv, ReadSoFar
      <4> QED BY <4>2, <4>3
    <3> QED BY <3>1, <3>2
  <2> QED BY <2>3, <2>4, <2>6, <2>7
<1> QED BY <1>1, <1>10, <1>11, <1>12, <1>13, <1>14 DEF AtaInv

LEMMA NextAtaInv == AtaInv /\ [AtaNext]_ata_vars => AtaInv'
<1> SUFFICES ASSUME AtaInv, [AtaNext]_ata_vars PROVE AtaInv'
  OBVIOUS
<1>1. ASSUME NEW d \in 1 .. 4, NEW lba \in Starts, NEW n \in Counts, storage_read(d, lba, n)
      PROVE  AtaInv'
  <2>1. [i \in 1 .. n |-> Garbage] \in
          [1 .. n -> IF "read" = "write" THEN Words ELSE Transferred]
    BY DEF Transferred
  <2> QED BY <1>1, <2>1, RequestStep DEF storage_read
<1>2. ASSUME NEW d \in 1 .. 4, NEW lba \in Starts, NEW n \in Counts, storage_write(d, lba, n)
      PROVE  AtaInv'
  <2>1. PICK buffer \in [1 .. n -> Words] : Request("write", d, lba, n, buffer)
    BY <1>2 DEF storage_write
  <2> QED BY <2>1, RequestStep
<1>3. ASSUME Driver PROVE AtaInv'
  BY <1>3, IdentifyStep, IdentifiedStep, TransferStep DEF Driver
<1>4. CASE UNCHANGED ata_vars
  <2>1. UNCHANGED <<devices, pc, probe, call, channel, disk, in_order, ideal, settled, trusted>>
    BY <1>4 DEF ata_vars, driver_vars, device_vars
  <2>2. AtaTypes' /\ ChannelsInOrder' /\ CallUnderWay' /\ WorksForCall'
    BY <2>1 DEF AtaInv, AtaTypes, ChannelsInOrder, RegistersInOrder, CallUnderWay,
                WorksForCall, Target
  <2>3. ASSUME trusted PROVE FindsDisks' /\ LeftAsCalled' /\ DisksButUnsent' /\ ReadSoFar'
    BY <2>1, <2>3 DEF AtaInv, FindsDisks, LeftAsCalled, DisksButUnsent, Unsent, ReadSoFar,
                      Received, Names, WithinRegisters, Target
  <2> QED BY <2>1, <2>2, <2>3 DEF AtaInv
<1> QED BY <1>1, <1>2, <1>3, <1>4, StorageInitStep, DeviceStep DEF AtaNext

LEMMA SpecAtaInv == AtaSpec => []AtaInv
<1> QED BY InitAtaInv, NextAtaInv, PTL DEF AtaSpec

\* The types of what the driver and the devices keep, for all disks and registers: the
\* table of devices is never left, and no call goes past its buffer.
THEOREM AtaTyped == AtaSpec => []AtaTypeOK
<1>1. AtaInv => AtaTypeOK
  <2> SUFFICES ASSUME AtaInv PROVE AtaTypeOK
    OBVIOUS
  <2>1. AtaTypes /\ channel \in [Channels -> Registers]
    BY DEF AtaInv, ChannelsInOrder
  <2>2. call \in Call
    <3>1. \A n \in Counts \cup {0} : 0 .. n \subseteq Nat
      BY AtaAssumption
    <3>2. call.buffer \in [1 .. call.count -> Transferred]
      BY <2>1 DEF AtaTypes, Transferred, Contents
    <3>3. call.count \in Counts \cup {0} /\ call.done \in Nat
      BY <2>1, <3>1 DEF AtaTypes
    <3>4. call.buffer \in UNION {[1 .. n -> Transferred] : n \in Counts \cup {0}}
      BY <3>2, <3>3
    <3> QED BY <2>1, <3>3, <3>4 DEF AtaTypes, Call
  <2> QED BY <2>1, <2>2 DEF AtaTypeOK, AtaTypes, AtaInv, CallUnderWay
<1> QED BY <1>1, SpecAtaInv, PTL

\* By the rules, and for every number and size of disks, disks of one channel or not:
\* what calls leave on the disks is what they wrote, each where it was asked to.
THEOREM WritesArrive == AtaSpec => []StoresWhereAsked
<1>1. AtaInv => StoresWhereAsked
  <2> SUFFICES ASSUME AtaInv, trusted, pc = "idle" PROVE disk = ideal
    BY DEF StoresWhereAsked
  <2>1. /\ disk \in [Disks -> [Lbas -> Contents]] /\ ideal \in [Disks -> [Lbas -> Contents]]
        /\ \A p \in Disks, l \in Lbas : ideal[p][l] = disk[p][l]
    BY DEF AtaInv, AtaTypes, DisksButUnsent, Unsent
  <2>2. ASSUME NEW p \in Disks PROVE disk[p] = ideal[p]
    <3>1. /\ disk[p] \in [Lbas -> Contents] /\ ideal[p] \in [Lbas -> Contents]
          /\ \A l \in Lbas : ideal[p][l] = disk[p][l]
      BY <2>1
    <3> QED BY <3>1
  <2> QED BY <2>1, <2>2
<1> QED BY <1>1, SpecAtaInv, PTL

\* And a read returns what is there, at every sector, in the order of the bytes that
\* the compiler chose.
THEOREM ReadsArrive == AtaSpec => []ReadsWhatIsStored
<1>1. AtaInv => ReadsWhatIsStored
  BY DEF AtaInv, ReadSoFar, ReadsWhatIsStored
<1> QED BY <1>1, SpecAtaInv, PTL

\* No step of driver or device changes a sector that the call did not ask for, whatever
\* fails, for as long as no device gets a command too early.
THEOREM SparesOthers == AtaSpec => NothingElsewhere
<1> DEFINE Asked == \A p \in Disks, l \in Lbas :
              settled /\ call.lba < LBA_SPACE /\ disk'[p][l] # disk[p][l] =>
                  /\ call.op = "write" /\ p = devices[call.device]
                  /\ l \in call.lba .. call.lba + call.count - 1
<1>1. ASSUME AtaInv, [AtaNext]_ata_vars PROVE Asked
  <2>1. disk' = disk \/ transfer_sector
    <3>1. CASE storage_init
      BY <3>1 DEF storage_init, device_vars
    <3>2. ASSUME NEW d \in 1 .. 4, NEW lba \in Starts, NEW n \in Counts,
                 storage_read(d, lba, n) \/ storage_write(d, lba, n)
          PROVE  disk' = disk
      <4>1. ASSUME NEW op, NEW buffer, Request(op, d, lba, n, buffer) PROVE disk' = disk
        BY <4>1 DEF Request
      <4> QED BY <3>2, <4>1 DEF storage_read, storage_write
    <3>3. CASE ata_identify
      BY <3>3 DEF ata_identify
    <3>4. CASE ata_identified
      BY <3>4 DEF ata_identified, device_vars
    <3>5. ASSUME NEW c \in Channels, device(c) PROVE disk' = disk
      BY <3>5 DEF device
    <3>6. CASE UNCHANGED ata_vars
      BY <3>6 DEF ata_vars, device_vars
    <3> QED BY <1>1, <3>1, <3>2, <3>3, <3>4, <3>5, <3>6 DEF AtaNext, Driver
  <2> SUFFICES ASSUME NEW p \in Disks, NEW l \in Lbas,
                      settled, call.lba < LBA_SPACE, disk'[p][l] # disk[p][l]
               PROVE  /\ call.op = "write" /\ p = Target
                      /\ l \in call.lba .. call.lba + call.count - 1
    BY DEF Target
  <2> DEFINE r == channel[Target[1]]
             at == <<Target[1], r.drive>>
  <2>2. /\ pc = "transfer" /\ call.op = "write"
        /\ r.status = "DRQ" /\ r.command = call.op
        /\ disk' = [disk EXCEPT ![at][r.lba] = call.buffer[call.done + 1]]
    BY <2>1 DEF transfer_sector, Target
  <2>3. r.drive = Target[2] /\ r.lba = call.lba + call.done
    BY <1>1, <2>2 DEF AtaInv, WorksForCall
  <2>4. Target = <<Target[1], Target[2]>>
    <3>1. Target \in Positions
      BY <1>1, <2>2 DEF AtaInv, AtaTypes, CallUnderWay, Target
    <3> QED BY <3>1, PositionPair
  <2>5. p = Target /\ l = call.lba + call.done
    <3> HIDE DEF r
    <3>1. disk \in [Disks -> [Lbas -> Contents]]
      BY <1>1 DEF AtaInv, AtaTypes
    <3> QED BY <2>2, <2>3, <2>4, <3>1
  <2>6. call.done \in Nat /\ call.count \in Nat /\ call.lba \in Nat /\ call.done < call.count
    BY <1>1, <2>2, AtaAssumption DEF AtaInv, AtaTypes, CallUnderWay
  <2> QED BY <2>2, <2>5, <2>6
<1>2. AtaInv /\ [AtaNext]_ata_vars => [Asked]_ata_vars
  BY <1>1
<1> HIDE DEF Asked
<1>3. AtaSpec => [][Asked]_ata_vars
  BY <1>2, SpecAtaInv, PTL DEF AtaSpec
<1> QED BY <1>3 DEF Asked, NothingElsewhere
=============================================================================
