------------------------------- MODULE Memory -------------------------------
(***************************************************************************)
(* The physical frame allocator of kernel/memory/memory.c: a bitmap with   *)
(* one bit per 4 KB frame, kmalloc, which hands out the lowest clear bit,  *)
(* and kfree, which clears the bit of a pointer.                           *)
(*                                                                         *)
(* Pointers are frame numbers.  The size argument of kmalloc is absent     *)
(* because the code never reads it.  Callers are the environment: they     *)
(* free only what they were given and have not freed yet, and they store   *)
(* what they like in the frames they own.                                  *)
(***************************************************************************)
EXTENDS Integers, FiniteSets

CONSTANTS
    TotalFrames,   \* mem_size / PAGE_SIZE
    WordBits,      \* frames per bitmap word (32 in the code)
    BitmapFrames,  \* the frames at 0x100000 in which the bitmap itself lives
    MaxUsed        \* bound: kmalloc is not called at or above this count

ASSUME FramesAssumption ==
    /\ TotalFrames \in Nat
    /\ WordBits \in Nat \ {0}
    /\ MaxUsed \in Nat

\* The code places the bitmap at 1 MB, above frame 0.
ASSUME BitmapAssumption == BitmapFrames \subseteq Nat \ {0}

VARIABLES
    memory_bitmap,  \* the frames whose bit is set
    used_frames,
    live,           \* observer: outstanding hand-outs of each frame
    null_marks,     \* observer: calls that marked frame 0 and returned NULL
    peak,           \* observer: the largest used_frames so far
    clobbered       \* observer: an owner has stored over the bitmap

memory_vars == <<memory_bitmap, used_frames, live, null_marks, peak, clobbered>>

Frames == 0 .. TotalFrames - 1

\* first_free_frame scans whole words only: the frames of a last, partial word
\* are counted by total_frames and never found.
WordFrames(t, w) == w * (t \div w)
Managed == 0 .. WordFrames(TotalFrames, WordBits) - 1

\* kmalloc's result for frame 0 is the address 0.
NULL == 0

\* Mutant: the scan goes on into the last, partial word.
AnyFreeFrame(b) == {f \in Frames \ b : \A g \in Frames \ b : f <= g}

\* Mutant: the scan starts at the highest word and bit.
LastFreeFrame(b) == {f \in Managed \ b : \A g \in Managed \ b : g <= f}

\* The frames first_free_frame can return for bitmap b: the lowest clear bit, or
\* none.
FirstFree(b) == {f \in Managed \ b : \A g \in Managed \ b : f <= g}

\* Mutant: the mask of set_frame covers the next frame too.
SetTwo(b, f) == b \cup ({f, f + 1} \cap Managed)

Set(b, f) == b \cup {f}

\* Mutant: clear_frame leaves the bit set.
KeepBit(b, f) == b \cup {f}

Clear(b, f) == b \ {f}

Larger(m, n) == IF m < n THEN n ELSE m

MemoryTypeOK ==
    /\ memory_bitmap \in SUBSET Managed
    /\ used_frames \in Int
    /\ live \in [Managed -> Nat]
    /\ null_marks \in Nat
    /\ peak \in Nat
    /\ clobbered \in BOOLEAN

memory_init ==
    /\ memory_bitmap = {}
    /\ used_frames = 0
    /\ live = [f \in Managed |-> 0]
    /\ null_marks = 0
    /\ peak = 0
    /\ clobbered = FALSE

-----------------------------------------------------------------------------
\* set_frame: the bit and the counter.
set_frame(f) ==
    /\ memory_bitmap' = Set(memory_bitmap, f)
    /\ used_frames' = used_frames + 1
    /\ peak' = Larger(peak, used_frames + 1)
    /\ UNCHANGED clobbered

\* kmalloc hands frame f to its caller.
kmalloc(f) ==
    /\ used_frames < MaxUsed
    /\ f \in FirstFree(memory_bitmap)
    /\ f # NULL
    /\ set_frame(f)
    /\ live' = [live EXCEPT ![f] = @ + 1]
    /\ UNCHANGED null_marks

\* The lowest clear bit is frame 0: the frame is marked and its address is NULL,
\* so the caller sees a failure and will never free it.
kmalloc_frame_zero ==
    /\ used_frames < MaxUsed
    /\ NULL \in FirstFree(memory_bitmap)
    /\ set_frame(NULL)
    /\ null_marks' = null_marks + 1
    /\ UNCHANGED live

\* Every bit is set: kmalloc returns NULL and changes nothing.
kmalloc_exhausted ==
    /\ FirstFree(memory_bitmap) = {}
    /\ UNCHANGED memory_vars

\* kfree of a frame the caller owns.  (kfree(NULL) returns at once.)
kfree(f) ==
    /\ f # NULL
    /\ live[f] > 0
    /\ memory_bitmap' = Clear(memory_bitmap, f)
    /\ used_frames' = used_frames - 1
    /\ live' = [live EXCEPT ![f] = @ - 1]
    /\ UNCHANGED <<null_marks, peak, clobbered>>

\* The owner of a frame stores in it.  Where that frame holds the bitmap, the
\* allocator's state becomes whatever was stored.
owner_stores ==
    /\ \E f \in BitmapFrames \cap Managed : live[f] > 0
    /\ memory_bitmap' \in SUBSET Managed
    /\ clobbered' = TRUE
    /\ UNCHANGED <<used_frames, live, null_marks, peak>>

MemoryNext ==
    \/ \E f \in Frames : kmalloc(f)
    \/ kmalloc_frame_zero
    \/ kmalloc_exhausted
    \/ \E f \in Managed : kfree(f)
    \/ owner_stores

MemorySpec == memory_init /\ [][MemoryNext]_memory_vars

-----------------------------------------------------------------------------
\* Until an owner has stored over the bitmap, a set bit stands for exactly one
\* owner, frame 0 aside: no frame is handed out twice, none is lost, and none
\* that is owned is seen as free.  (set_frame / clear_frame with callers that
\* free what they own.)
BitmapTracksOwners ==
    ~clobbered =>
        \A f \in Managed \ {NULL} :
            live[f] = IF f \in memory_bitmap THEN 1 ELSE 0

\* The counter behind get_memory_usage and get_free_memory is the number of set
\* bits for as long as the bitmap is intact; in particular it never underflows.
UsedFramesCountsBits ==
    ~clobbered => used_frames = Cardinality(memory_bitmap)

\* First fit packs the frames: a frame is marked only below the largest number
\* of frames ever in use at once.
FirstFitPacks ==
    ~clobbered => \A f \in memory_bitmap : f < peak

\* The allocator hands out the frames its own bitmap lives in, but not before
\* more frames have been in use at once than lie below them: until then no
\* caller owns one and the bitmap cannot be overwritten.
BitmapSafeBelowItsFrames ==
    (\A f \in BitmapFrames : peak <= f) =>
        /\ ~clobbered
        /\ \A f \in BitmapFrames \cap Managed : live[f] = 0
=============================================================================
