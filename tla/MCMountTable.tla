---------------------------- MODULE MCMountTable ----------------------------
(* Constants and symmetry for the run of MountTable.                        *)
EXTENDS MountTable, TLC

CONSTANTS hda0, sda0, hdx, hd, sd

SomeNames == [d \in Devices |-> IF d = sda0 THEN sd ELSE hd]

Symmetric ==
  Permutations(DriverBlocks) \cup Permutations(BlkBlocks) \cup Permutations(EntryBlocks)
    \cup Permutations(VolumeBlocks) \cup Permutations(Fds)
=============================================================================
