------------------------------- MODULE MCMount -------------------------------
(***************************************************************************)
(* Three volumes: two full groups in 1 KB blocks; three and a part in      *)
(* blocks of two inodes; a disk area that is no ext2 volume.               *)
(***************************************************************************)
EXTENDS Mount, TLC

CONSTANTS small, large, other

MCSuper ==
  small :> [blocks |-> 11, first_data_block |-> 1, blocks_per_group |-> 5,
            inodes_per_group |-> 4, inode_size |-> 2, blocksize |-> 4]
  @@ large :> [blocks |-> 18, first_data_block |-> 0, blocks_per_group |-> 5,
               inodes_per_group |-> 6, inode_size |-> 8, blocksize |-> 16]
  @@ other :> NotExt

MCInum == 0 .. 25
===============================================================================
