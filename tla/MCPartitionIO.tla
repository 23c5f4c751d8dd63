---------------------------- MODULE MCPartitionIO ----------------------------
(* Instances of PartitionIO for TLC: four blocks, two of them inode table     *)
(* blocks, one that fails and one past the end of the medium; the cache holds *)
(* two blocks, so that evictions happen after three reads.                    *)
EXTENDS PartitionIO

MCBlock == 0 .. 3
MCInodeTable == {0, 1}
MCBad == {2}
MCShort == {3}
===============================================================================
