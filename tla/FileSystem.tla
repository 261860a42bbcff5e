------------------------------ MODULE FileSystem ------------------------------
(***************************************************************************)
(* The in-memory file system of kernel/fs/filesystem.c: a superblock with  *)
(* two counters, a bitmap of blocks, a bitmap of inodes and the block      *)
(* lists of the inodes.                                                    *)
(*                                                                         *)
(* A size is the number of blocks it needs.  The code stores no data, so   *)
(* contents are absent; names, types and permissions decide nothing.       *)
(* Writing and deleting look at no bitmap: an unused inode is written and   *)
(* deleted like any other.  A call that returns -1 before it has changed   *)
(* anything is not a step.                                                 *)
(***************************************************************************)
EXTENDS Integers, FiniteSets, Functions

CONSTANTS
    MAX_FILES,
    MAX_BLOCKS,
    InodeBlocks,     \* entries of inode_t.blocks (128)
    Excess           \* bound: no counter is ever more than this above its total

ASSUME SizesAssumption ==
    /\ MAX_FILES \in Nat \ {0}
    /\ MAX_BLOCKS \in Nat \ {0}
    /\ InodeBlocks \in Nat
    /\ Excess \in Nat

VARIABLES
    block_bitmap,    \* the blocks whose bit is set
    inode_bitmap,    \* the inodes whose bit is set
    free_blocks,     \* superblock.free_blocks
    free_inodes,     \* superblock.free_inodes
    blocks,          \* inodes[i].blocks
    block_count,     \* inodes[i].block_count
    lost,            \* observer: the blocks no inode lists any more whose bit
                     \* is still set
    orderly          \* observer: inodes were written and deleted only in use

vars == <<block_bitmap, inode_bitmap, free_blocks, free_inodes, blocks,
          block_count, lost, orderly>>

Blocks == 0 .. MAX_BLOCKS - 1
Inodes == 0 .. MAX_FILES - 1
Entries == 0 .. InodeBlocks - 1
root_inode == 0

\* Mutant: the scan of the block bitmap goes one block too far.
OneTooMany == (0 .. MAX_BLOCKS) \ block_bitmap

FreeBlocks == Blocks \ block_bitmap
FreeInodes == Inodes \ inode_bitmap

\* The entries of inode i that count: blocks[0] .. blocks[block_count - 1].
Used(i) == 0 .. block_count[i] - 1
Owned(i) == {blocks[i][e] : e \in Used(i)}

TypeOK ==
    /\ block_bitmap \in SUBSET Blocks
    /\ inode_bitmap \in SUBSET Inodes
    /\ free_blocks \in Int
    /\ free_inodes \in Int
    /\ blocks \in [Inodes -> [Entries -> Blocks]]
    /\ block_count \in [Inodes -> 0 .. InodeBlocks]
    /\ lost \in SUBSET Blocks
    /\ orderly \in BOOLEAN

\* fs_init on zeroed static data.
fs_init ==
    /\ block_bitmap = {}
    /\ inode_bitmap = {root_inode}
    /\ free_blocks = MAX_BLOCKS
    /\ free_inodes = MAX_FILES - 1
    /\ blocks = [i \in Inodes |-> [e \in Entries |-> 0]]
    /\ block_count = [i \in Inodes |-> 0]
    /\ lost = {}
    /\ orderly = TRUE

-----------------------------------------------------------------------------
\* What k calls of allocate_block in a row return: the k lowest clear bits, in
\* ascending order.
Allocations(free, k) ==
    {a \in [0 .. k - 1 -> free] :
        /\ \A x, y \in 0 .. k - 1 : x < y => a[x] < a[y]
        /\ \A b \in free \ Range(a) : \A x \in 0 .. k - 1 : a[x] < b}

\* The lowest clear bit of the inode bitmap.
allocate_inode(i) ==
    /\ i \in FreeInodes
    /\ \A j \in FreeInodes : i <= j
    /\ inode_bitmap' = inode_bitmap \cup {i}
    /\ free_inodes' = free_inodes - 1

\* The k blocks of a are allocated and entered at the front of inode i's list.
\* What stood there before keeps its bit.
Entered(i, a) ==
    [blocks EXCEPT ![i] =
        [e \in Entries |-> IF e \in DOMAIN a THEN a[e] ELSE @[e]]]

AllocateInto(i, a, k) ==
    /\ block_bitmap' = block_bitmap \cup Range(a)
    /\ free_blocks' = free_blocks - k
    /\ blocks' = Entered(i, a)

\* fs_create: a free inode with no blocks.  Its old list is left as it is.
fs_create(i) ==
    /\ allocate_inode(i)
    /\ block_count' = [block_count EXCEPT ![i] = 0]
    /\ UNCHANGED <<block_bitmap, free_blocks, blocks, lost, orderly>>

\* What was lost is followed as long as callers use only what they were given.
Observe(i, all_lost) ==
    /\ orderly' = (orderly /\ i \in inode_bitmap)
    /\ lost' = IF orderly /\ i \in inode_bitmap THEN all_lost ELSE {}

\* fs_write of n blocks, with n within the inode's list: n fresh blocks take the
\* place of the old ones, which are not freed.
fs_write(i, n) ==
    /\ \E a \in Allocations(FreeBlocks, n) : AllocateInto(i, a, n)
    /\ block_count' = [block_count EXCEPT ![i] = n]
    /\ Observe(i, lost \cup Owned(i))
    /\ UNCHANGED <<inode_bitmap, free_inodes>>

\* fs_write of more blocks than are free: the loop has entered every free block
\* when allocate_block fails, and -1 is returned with the list changed and the
\* count not.
fs_write_no_space(i, n) ==
    LET k == Cardinality(FreeBlocks) IN
    /\ k < n
    /\ \E a \in Allocations(FreeBlocks, k) :
          /\ AllocateInto(i, a, k)
          /\ Observe(i, lost \cup {blocks[i][e] : e \in Used(i) \cap DOMAIN a}
                             \cup {a[e] : e \in DOMAIN a \ Used(i)})
    /\ UNCHANGED <<inode_bitmap, free_inodes, block_count>>

\* Mutant: the whole list is freed, not only the entries that count.
FreeEntireList(i) ==
    LET all == {blocks[i][e] : e \in Entries} IN
    /\ block_bitmap' = block_bitmap \ all
    /\ free_blocks' = free_blocks + InodeBlocks

\* Mutant: the loop stops one entry early.
FreeAllButLast(i) ==
    LET freed == {blocks[i][e] : e \in 0 .. block_count[i] - 2} IN
    /\ block_bitmap' = block_bitmap \ freed
    /\ free_blocks' = free_blocks + Cardinality(freed)

\* Mutant: the counter goes up once per file.
FreeCountOnce(i) ==
    /\ block_bitmap' = block_bitmap \ Owned(i)
    /\ free_blocks' = free_blocks + 1

\* free_block for each entry that counts; the counter goes up once per call.
FreeAll(i) ==
    /\ block_bitmap' = block_bitmap \ Owned(i)
    /\ free_blocks' = free_blocks + block_count[i]

free_inode(i) ==
    /\ inode_bitmap' = inode_bitmap \ {i}
    /\ free_inodes' = free_inodes + 1

\* fs_delete: list and count of the inode are left as they are, so deleting it
\* again frees the same blocks again, whoever has them by then.
fs_delete(i) ==
    /\ free_blocks + block_count[i] <= MAX_BLOCKS + Excess
    /\ free_inodes + 1 <= MAX_FILES + Excess
    /\ FreeAll(i)
    /\ free_inode(i)
    /\ Observe(i, lost)
    /\ UNCHANGED <<blocks, block_count>>

Next ==
    \E i \in Inodes :
        \/ fs_create(i)
        \/ \E n \in 0 .. InodeBlocks : fs_write(i, n)
        \/ \E n \in 0 .. InodeBlocks : fs_write_no_space(i, n)
        \/ fs_delete(i)

Spec == fs_init /\ [][Next]_vars

-----------------------------------------------------------------------------
\* No block is shared while callers write and delete only inodes in use: two
\* entries that count, of one file or of two, never name the same block.  Lists
\* left over from deleted files and from writes that failed half-way must not
\* bring this about.
NoSharedBlock ==
    orderly =>
        \A i, j \in inode_bitmap : \A e \in Used(i), f \in Used(j) :
            blocks[i][e] = blocks[j][f] => i = j /\ e = f

\* Every set bit of the block bitmap is accounted for, on the same condition: the
\* block belongs to a file, or it was lost by rewriting a file or by a write that
\* ran out of space, and never both.
BlocksAccounted ==
    orderly =>
        /\ block_bitmap = lost \cup UNION {Owned(i) : i \in inode_bitmap}
        /\ \A i \in inode_bitmap : Owned(i) \cap lost = {}

\* The superblock's counters, which fs_get_free_space and fs_get_used_space
\* report, agree with the bitmaps on the same condition: fs_delete gives back as
\* many blocks as it clears bits.  Whatever inodes are written and deleted, they
\* never report less than there is.
CountersAgree ==
    /\ free_blocks >= MAX_BLOCKS - Cardinality(block_bitmap)
    /\ free_inodes >= MAX_FILES - Cardinality(inode_bitmap)
    /\ orderly => /\ free_blocks = MAX_BLOCKS - Cardinality(block_bitmap)
                  /\ free_inodes = MAX_FILES - Cardinality(inode_bitmap)

=============================================================================
