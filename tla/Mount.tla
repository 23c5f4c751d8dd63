-------------------------------- MODULE Mount --------------------------------
(***************************************************************************)
(* The construction of Ext2Partition objects, one after the other: mount   *)
(* reads the superblock and the group descriptors, the constructor reads   *)
(* the root inode; and how read_inode then finds the place of an inode     *)
(* (ext2fs.cpp).  What the reads do with blocks is module PartitionIO.     *)
(*                                                                         *)
(* Sizes are in units small enough to divide all of them; a block size is  *)
(* a multiple of SECT.  The superblock is in sectors 2 and 3.              *)
(***************************************************************************)
EXTENDS Integers

CONSTANTS
  Volume,   \* the partitions a scan finds, ext2/3/4 or not
  Super,    \* Super[v]: its superblock, or NotExt
  Inum,     \* the inode numbers asked for
  SECT,     \* sector size
  DESC,     \* sizeof(EXT2_GROUP_DESC)
  NotExt,   \* sectors without EXT2_SUPER_MAGIC
  Junk,     \* a group descriptor from memory that holds none
  None

Superblock == [blocks : Nat, first_data_block : {0, 1},
               blocks_per_group : Nat \ {0}, inodes_per_group : Nat \ {0},
               inode_size : Nat \ {0}, blocksize : Nat \ {0}]
ASSUME VolumeAssumption ==
  /\ Super \in [Volume -> Superblock \cup {NotExt}]
  /\ Inum \subseteq Nat
  /\ SECT \in Nat \ {0} /\ DESC \in Nat \ {0}
  /\ Junk \notin Int /\ None \notin Int \cup {Junk}

\* What mkfs makes: the inodes of a block fill it, and a block is the two sectors
\* of the superblock or at least four.
ASSUME FormatAssumption ==
  \A v \in Volume : Super[v] # NotExt =>
    /\ Super[v].blocksize % Super[v].inode_size = 0
    /\ Super[v].blocksize = 2 * SECT \/ Super[v].blocksize >= 4 * SECT

VARIABLES
  pc,      \* "idle", "super", "groups", "root": what the constructor does next
  cur,     \* the volume whose object is constructed
  sblock,  \* the local variable of mount; its memory keeps what the last call left
  sb,      \* sb[v]: the superblock that v's object was built from, None without one
  desc,    \* desc[v]: the array of group descriptors, each as the group it is of
  valid,   \* valid[v]: is_valid
  lost,    \* history: the reads that failed while v's object was constructed
  found    \* history: the last read_inode since a construction: its argument and place

vars == <<pc, cur, sblock, sb, desc, valid, lost, found>>

Init ==
  /\ pc = "idle"
  /\ cur = None
  /\ sblock = NotExt
  /\ sb = [v \in Volume |-> None]
  /\ desc = [v \in Volume |-> <<>>]
  /\ valid = [v \in Volume |-> FALSE]
  /\ lost = [v \in Volume |-> {}]
  /\ found = None

totalGroups(s) == s.blocks \div s.blocks_per_group

\* The sectors read for the group descriptors.
gSizes(s) == (DESC * totalGroups(s)) \div SECT + 1

\* The sector they are read from ...
DescriptorSector(s) ==
  LET sectors == s.blocksize \div SECT
  IN  IF sectors <= 2 THEN sectors + 2 ELSE sectors

\* ... and where they are: in the first block after the superblock.
AfterSuper(s) ==
  LET sectors == s.blocksize \div SECT IN ((4 + sectors - 1) \div sectors) * sectors

\* desc after a read: what was read of the array, each entry in its place.
Loaded(s) ==
  [g \in 0 .. totalGroups(s) - 1 |->
     IF DescriptorSector(s) = AfterSuper(s) /\ (g + 1) * DESC <= gSizes(s) * SECT
       THEN g ELSE Junk]
Unread(s) == [g \in 0 .. totalGroups(s) - 1 |-> Junk]

-----------------------------------------------------------------------------
(* read_inode                                                              *)

GroupFromZero(s, inum) == inum \div s.inodes_per_group    \* mutant: inodes count from 0
GroupOf(s, inum) == (inum - 1) \div s.inodes_per_group

RejectedIfZero(s, inum) == inum = 0                       \* mutant: no upper bound
Rejected(s, inum) == inum = 0 \/ GroupOf(s, inum) > totalGroups(s)

\* Where inode inum is looked for: the inode table, the block of the table, and
\* the offset in the block.
Place(s, d, inum) ==
  LET group == GroupOf(s, inum)
      index == ((inum - 1) % s.inodes_per_group) * s.inode_size
  IN  [table  |-> IF group \in DOMAIN d THEN d[group] ELSE Junk,
       block  |-> index \div s.blocksize,
       offset |-> index % s.blocksize]
NoPlace == [table |-> None, block |-> 0, offset |-> 0]    \* read_inode returns NULL

-----------------------------------------------------------------------------
(* The constructor                                                         *)

\* mount reads the superblock; when that fails, sblock is what the memory holds:
\* what the last call left, or something else.
ReadSuper(v) ==
  /\ pc = "idle"
  /\ pc' = "super"
  /\ cur' = v
  /\ \/ sblock' = Super[v] /\ lost' = [lost EXCEPT ![v] = {}]
     \/ sblock' \in {sblock, NotExt} /\ lost' = [lost EXCEPT ![v] = {"super"}]
  /\ sb' = [sb EXCEPT ![v] = None]
  /\ desc' = [desc EXCEPT ![v] = <<>>]
  /\ valid' = [valid EXCEPT ![v] = FALSE]
  /\ found' = None

BadMagic ==
  /\ pc = "super" /\ sblock = NotExt
  /\ pc' = "idle"
  /\ UNCHANGED <<cur, sblock, sb, desc, valid, lost, found>>

GoodMagic ==
  /\ pc = "super" /\ sblock # NotExt
  /\ sb' = [sb EXCEPT ![cur] = sblock]
  /\ pc' = "groups"
  /\ UNCHANGED <<cur, sblock, desc, valid, lost, found>>

\* The group descriptors are read, or tmpbuf stays as malloc returned it.
ReadGroups ==
  /\ pc = "groups"
  /\ \/ desc' = [desc EXCEPT ![cur] = Loaded(sblock)] /\ UNCHANGED lost
     \/ /\ desc' = [desc EXCEPT ![cur] = Unread(sblock)]
        /\ lost' = [lost EXCEPT ![cur] = @ \cup {"groups"}]
  /\ pc' = "root"
  /\ UNCHANGED <<cur, sblock, sb, valid, found>>

\* root = read_inode(EXT2_ROOT_INO), which is NULL when its block cannot be read.
ReadRoot ==
  /\ pc = "root"
  /\ \/ /\ ~Rejected(sb[cur], 2)
        /\ found' = [vol |-> cur, inum |-> 2, place |-> Place(sb[cur], desc[cur], 2)]
        /\ valid' = [valid EXCEPT ![cur] = TRUE]
     \/ UNCHANGED <<valid, found>>
  /\ pc' = "idle"
  /\ UNCHANGED <<cur, sblock, sb, desc, lost>>

\* A later call of read_inode, for an entry of a directory.
ReadInode(v, inum) ==
  /\ pc = "idle" /\ valid[v] /\ sb[v] # None
  /\ found' = [vol |-> v, inum |-> inum,
               place |-> IF Rejected(sb[v], inum) THEN NoPlace ELSE Place(sb[v], desc[v], inum)]
  /\ UNCHANGED <<pc, cur, sblock, sb, desc, valid, lost>>

Next ==
  \/ \E v \in Volume : ReadSuper(v)
  \/ BadMagic \/ GoodMagic \/ ReadGroups \/ ReadRoot
  \/ \E v \in Volume, inum \in Inum : ReadInode(v, inum)

Spec == Init /\ [][Next]_vars

-----------------------------------------------------------------------------
(* Properties *)

\* The groups of a volume, the last of which may be a part of one.
Groups(s) ==
  (s.blocks - s.first_data_block + s.blocks_per_group - 1) \div s.blocks_per_group
Exists(s, inum) == 1 <= inum /\ inum <= Groups(s) * s.inodes_per_group

\* The place is the one that the on-disk format gives to inode inum: the byte at
\* its number times the inode size, in the inode table of its group.
IsPlaceOf(s, inum, place) ==
  \E g \in 0 .. Groups(s) - 1, k \in 0 .. s.inodes_per_group - 1 :
    /\ inum = g * s.inodes_per_group + k + 1
    /\ place.table = g
    /\ place.block * s.blocksize + place.offset = k * s.inode_size
    /\ place.offset + s.inode_size <= s.blocksize

\* found is about an object whose reads did not fail.
Sound == found # None /\ lost[found.vol] = {}

\* Every inode of a full group is looked for in its own place, whatever the
\* block size, the inode size and the number of groups, and whatever was
\* mounted before.
InodesExact ==
  Sound =>
    LET s == Super[found.vol]
    IN  Exists(s, found.inum) /\ GroupOf(s, found.inum) < totalGroups(s) =>
          IsPlaceOf(s, found.inum, found.place)

\* Only the entry next to the loaded descriptors is ever taken for a descriptor:
\* the bound is "group > totalGroups" (ext2fs.cpp:285), so numbers of the group
\* totalGroups pass it and later ones do not.  For an inode of the volume that
\* happens only when the volume has a group that the code did not count; without
\* one, the numbers that pass belong to no inode.
JunkOnlyPastLoaded ==
  Sound /\ found.place.table = Junk =>
    LET s == Super[found.vol]
    IN  /\ GroupOf(s, found.inum) = totalGroups(s)
        /\ Exists(s, found.inum) => totalGroups(s) < Groups(s)

\* "View/Read ext2/ext3/ext4 partitions" (README.md:12): every inode of a volume
\* that was mounted without a failing read is found.
EveryInodeReachable ==
  Sound /\ Exists(Super[found.vol], found.inum) =>
    IsPlaceOf(Super[found.vol], found.inum, found.place)

-----------------------------------------------------------------------------
(* The inductive invariant behind the theorems of MountProofs.             *)

MountTypeOK ==
  /\ pc \in {"idle", "super", "groups", "root"}
  /\ cur \in Volume \cup {None} /\ (pc # "idle" => cur \in Volume)
  /\ sblock \in Superblock \cup {NotExt}
  /\ DOMAIN sb = Volume /\ DOMAIN desc = Volume
  /\ valid \in [Volume -> BOOLEAN]
  /\ lost \in [Volume -> SUBSET {"super", "groups"}]

\* An object under construction is not in use, and has been built so far from
\* what its own reads returned.
BuiltSoFar ==
  pc # "idle" =>
    /\ found = None /\ ~valid[cur]
    /\ "super" \notin lost[cur] => sblock = Super[cur]
    /\ pc \in {"groups", "root"} => sblock # NotExt /\ sb[cur] = sblock
    /\ pc = "root" /\ lost[cur] = {} => desc[cur] = Loaded(Super[cur])

\* A valid object has its own superblock and, with no read lost, descriptors.
BuiltFromDisk ==
  \A v \in Volume : valid[v] /\ "super" \notin lost[v] =>
    /\ Super[v] # NotExt /\ sb[v] = Super[v]
    /\ lost[v] = {} => desc[v] = Loaded(Super[v])

FoundFromDisk ==
  found # None =>
    /\ found.vol \in Volume /\ found.inum \in Nat
    /\ lost[found.vol] = {} =>
         LET s == Super[found.vol]
         IN  /\ s # NotExt
             /\ found.place = IF Rejected(s, found.inum) THEN NoPlace
                                ELSE Place(s, Loaded(s), found.inum)

MountInv == MountTypeOK /\ BuiltSoFar /\ BuiltFromDisk /\ FoundFromDisk
===============================================================================
