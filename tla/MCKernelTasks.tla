---------------------------- MODULE MCKernelTasks ----------------------------
(* Tasks of two pages on a machine whose bitmap lives in frame 5: the       *)
(* proportions of the code (five pages, frame 256, 256 tasks) made small.   *)
EXTENDS KernelTasks

MCBitmapFrames == {5}
=============================================================================
