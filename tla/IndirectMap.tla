----------------------------- MODULE IndirectMap -----------------------------
(***************************************************************************)
(* fileblock_to_logical of Ext2Partition (ext2fs.cpp): from the number of  *)
(* a file block to the disk block that holds it, through the direct,       *)
(* indirect, double and triple indirect pointers of an ext2/ext3 inode;    *)
(* then read_data_block's test of the result.                              *)
(*                                                                         *)
(* A disk block is named by the path of pointers that leads to it: <<k>>   *)
(* is the block i_block[k] points to, Append(p, j) the block that entry j  *)
(* of the pointer block p points to.                                       *)
(***************************************************************************)
EXTENDS Integers, Sequences

CONSTANTS
  NDIR,    \* EXT2_NDIR_BLOCKS: the direct pointers of an inode
  SZ,      \* sz, the pointers in one block
  Asked,   \* the file blocks asked for
  Zero,    \* pointer 0: a hole
  Junk     \* a number from memory that is none of the file's pointers

IND  == NDIR       \* EXT2_IND_BLOCK, EXT2_DIND_BLOCK, EXT2_TIND_BLOCK
DIND == NDIR + 1
TIND == NDIR + 2

\* The number of the file block that the on-disk format puts at path p.
FileBlockAt(p) ==
  CASE Len(p) = 1 -> p[1]
    [] Len(p) = 2 -> NDIR + p[2]
    [] Len(p) = 3 -> NDIR + SZ + p[2] * SZ + p[3]
    [] Len(p) = 4 -> NDIR + SZ + SZ * SZ + (p[2] * SZ + p[3]) * SZ + p[4]

Entry == 0 .. SZ - 1
Leaves ==
  {<<k>> : k \in 0 .. NDIR - 1}
  \cup ({IND} \X Entry) \cup ({DIND} \X Entry \X Entry)
  \cup ({TIND} \X Entry \X Entry \X Entry)

FileBlocks == NDIR + SZ + SZ * SZ + SZ * SZ * SZ    \* a file of the largest size
PathOf(n) == CHOOSE p \in Leaves : FileBlockAt(p) = n

\* The disk blocks on the way to p, p included.
Prefixes(p) == {SubSeq(p, 1, n) : n \in 1 .. Len(p)}
Paths == UNION {Prefixes(p) : p \in Leaves}
OnTheWay(n) == Prefixes(PathOf(n)) \ {PathOf(n)}    \* the pointer blocks above n
PointerBlocks == UNION {Prefixes(p) \ {p} : p \in Leaves}

VARIABLES
  lbn,       \* the argument
  hole,      \* the block of the file that is not allocated, or Zero
  bad,       \* the pointer block of the file that cannot be read, or Zero
  pc,        \* "start", "walk", "check", "done"
  block,     \* the local variable block: the pointer followed so far
  todo,      \* the indices still to be looked up, in this order
  result     \* read_data_block: the block it reads, or Zero for -1

vars == <<lbn, hole, bad, pc, block, todo, result>>

Init ==
  /\ lbn \in Asked
  /\ hole \in {Zero} \cup Paths
  /\ bad \in {Zero} \cup PointerBlocks
  /\ pc = "start"
  /\ block = Junk
  /\ todo = <<>>
  /\ result = Junk

Pointer(p) == IF p = hole THEN Zero ELSE p

indlast  == SZ + NDIR
dindlastShort == SZ * SZ    \* mutant: counted from 0
dindlast == SZ * SZ + indlast

\* The lookup starts at i_block[k] and goes on with the indices in path.
Follow(k, path) ==
  /\ pc = "start"
  /\ block' = Pointer(<<k>>)
  /\ todo' = path
  /\ pc' = IF path = <<>> THEN "check" ELSE "walk"
  /\ UNCHANGED <<lbn, hole, bad, result>>

Direct == lbn < NDIR /\ Follow(lbn, <<>>)

Indirect ==
  /\ NDIR <= lbn /\ lbn < indlast
  /\ Follow(IND, <<lbn - NDIR>>)

DoubleIndirect ==
  LET tmpblk == lbn - indlast
  IN  /\ indlast <= lbn /\ lbn < dindlast
      /\ Follow(DIND, <<tmpblk \div SZ, tmpblk % SZ>>)

TripleIndirect ==
  LET tmpblk == lbn - dindlast
  IN  /\ dindlast <= lbn
      /\ Follow(TIND, <<tmpblk \div (SZ * SZ), tmpblk \div SZ, tmpblk % SZ>>)

\* What entry j may be of the buffer that ext2_readblock(block) was to fill.  It is
\* new memory, and stays so when the read fails; such memory may have been a pointer
\* buffer of the lookup before, so it may hold any pointer of the same file.  So may
\* what lies beyond its sz entries.  The boot block (0) and blocks of data hold what
\* they hold.
BufferEntries(j) ==
  IF block \in PointerBlocks \ {bad} /\ j \in Entry
    THEN {Pointer(Append(block, j))}
    ELSE {Zero, Junk} \cup Paths

\* One level: ext2_readblock, whose result nobody looks at, and an entry.
ReadPointers ==
  /\ pc = "walk"
  /\ block' \in BufferEntries(Head(todo))
  /\ todo' = Tail(todo)
  /\ pc' = IF todo' = <<>> THEN "check" ELSE "walk"
  /\ UNCHANGED <<lbn, hole, bad, result>>

\* read_data_block: block 0 is an error, any other block is read.
ReadDataBlock ==
  /\ pc = "check"
  /\ result' = block
  /\ pc' = "done"
  /\ UNCHANGED <<lbn, hole, bad, block, todo>>

Returned == pc = "done" /\ UNCHANGED vars

Next == Direct \/ Indirect \/ DoubleIndirect \/ TripleIndirect
        \/ ReadPointers \/ ReadDataBlock \/ Returned

Spec == Init /\ [][Next]_vars

-----------------------------------------------------------------------------
(* Properties *)

\* The part of a file that the code can look up: up to the second row of double
\* indirect blocks under the triple indirect block.  For a later block it takes
\* entry tmpblk/sz of dindbuffer, which is past the end of that array
\* (ext2fs.cpp:469-471), and what it returns may be anything.
InReach == lbn < dindlast + SZ * SZ

\* A lookup in reach, all of whose own pointer blocks are allocated and readable,
\* ends at the file block that was asked for, or at 0 for a hole: the level is
\* chosen by the right bounds and the indices are the digits of the block number.
\* What is missing or unreadable elsewhere in the file, and what new memory holds,
\* has no part in it.
FindsItsBlock ==
  pc = "done" /\ InReach /\ {hole, bad} \cap OnTheWay(lbn) = {} =>
    result = Pointer(PathOf(lbn))

-----------------------------------------------------------------------------
(* The inductive invariant behind the theorems of FileMapProofs.           *)

\* After k of the pointers on the path p: at the block the last one points to (0 for
\* a hole), or past one that is missing or was not read.
OnPath(p, k) ==
  \/ block = Pointer(SubSeq(p, 1, k))
  \/ \E m \in 1 .. k - 1 : SubSeq(p, 1, m) \in {hole, bad}

WalkInv ==
  LET p == PathOf(lbn)
  IN  /\ lbn \in 0 .. FileBlocks - 1
      /\ pc \in {"start", "walk", "check", "done"}
      /\ InReach /\ pc = "walk" =>
           \E k \in 1 .. Len(p) - 1 : todo = SubSeq(p, k + 1, Len(p)) /\ OnPath(p, k)
      /\ InReach /\ pc \in {"check", "done"} => OnPath(p, Len(p))
      /\ pc = "done" => result = block
===============================================================================
