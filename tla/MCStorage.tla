------------------------------ MODULE MCStorage ------------------------------
(* The file system: two inodes of up to two blocks, the root one of them, on *)
(* a device of four blocks.  Once a caller has used an inode it was not      *)
(* given, it makes two more calls.                                           *)
(*                                                                           *)
(* The disk driver: two disks that share a channel and a packet device on    *)
(* the other; two sectors to a disk, three that the LBA can name, a count    *)
(* register of two.                                                          *)
(*                                                                           *)
(* The file system keeps its blocks in memory and calls no driver: of a      *)
(* behaviour one of them moves.                                              *)
EXTENDS FileSystem, Ata

MCDisks == {<<"primary", 0>>, <<"primary", 1>>}
MCPacketDevices == {<<"secondary", 0>>}
MCWords == {<<0, 1>>, <<2, 3>>}
MCBlank == <<0, 1>>
MCGarbage == <<4, 4>>
MCStarts == {0, 1}
MCCounts == {0, 1, 2, 3}

VARIABLES
    part,       \* what moves
    calls       \* calls since a caller used an inode it was not given

MCInit == fs_init /\ AtaInit /\ part \in {"files", "disks"} /\ calls = 0

Files ==
    /\ part = "files"
    /\ calls < 2 /\ Next
    /\ calls' = IF orderly THEN 0 ELSE calls + 1
    /\ UNCHANGED ata_vars

FilesDone == calls = 2 /\ UNCHANGED <<vars, ata_vars, calls>>

DisksMove == part = "disks" /\ AtaNext /\ UNCHANGED <<vars, calls>>

MCNext == (Files \/ FilesDone \/ DisksMove) /\ UNCHANGED part

MCSpec ==
    /\ MCInit /\ [][MCNext]_<<vars, ata_vars, part, calls>>
    /\ WF_ata_vars(Driver) /\ \A c \in Channels : WF_ata_vars(device(c))
=============================================================================
