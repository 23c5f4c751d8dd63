------------------------------- MODULE FileMap -------------------------------
(***************************************************************************)
(* read_data_block of Ext2Partition (ext2fs.cpp): the number of a file     *)
(* block becomes that of a disk block, through the extent tree when the    *)
(* inode has EXT4_EXTENTS_FL (module ExtentMap), else through its block    *)
(* pointers (module IndirectMap), and the disk block is read.              *)
(***************************************************************************)
EXTENDS Integers

CONSTANTS NDIR, SZ, Asked, Zero, Junk                   \* of IndirectMap
CONSTANTS Nodes, Extents, Trees, FileBlock, InitMax, Stale, NoHeader    \* of ExtentMap
CONSTANT None

VARIABLES
  extents,    \* INODE_HAS_EXTENT
  lbn,        \* the argument
  hole, bad, pc, block, todo, result,                   \* of IndirectMap
  tree, search, header, index, failed, found            \* of ExtentMap

pointerVars == <<hole, bad, pc, block, todo, result>>
extentVars == <<tree, search, header, index, failed, found>>
vars == <<extents, lbn, pointerVars, extentVars>>

Pointers == INSTANCE IndirectMap
Tree == INSTANCE ExtentMap WITH pc <- search, result <- found

\* A hole is no pointer to a block of the file.
ASSUME PointerAssumption ==
  /\ NDIR \in Nat \ {0} /\ SZ \in Nat \ {0}
  /\ Zero \notin Pointers!Paths
ASSUME AskedAssumption == Asked \subseteq 0 .. Pointers!FileBlocks - 1
ASSUME TreeAssumption ==
  /\ \A node \in Nodes : Tree!IsNode(node)
  /\ Trees \subseteq Nodes /\ NoHeader \notin Nodes
  /\ FileBlock \subseteq Nat /\ InitMax \in Nat

Init ==
  \/ /\ extents = TRUE
     /\ Tree!Init
     /\ hole = None /\ bad = None /\ pc = None
     /\ block = None /\ todo = None /\ result = None
  \/ /\ extents = FALSE
     /\ Pointers!Init
     /\ tree = None /\ search = None /\ header = None
     /\ index = None /\ failed = None /\ found = None

ThroughTree == extents /\ Tree!Next /\ UNCHANGED <<extents, pointerVars>>
ThroughPointers == ~extents /\ Pointers!Next /\ UNCHANGED <<extents, extentVars>>

Next == ThroughTree \/ ThroughPointers

Spec == Init /\ [][Next]_vars

-----------------------------------------------------------------------------
(* Properties *)

\* A lookup below block dindlast + sz * sz, all of whose own pointer blocks are
\* allocated and readable, ends at the file block that was asked for, or at 0 for a
\* hole: the level is chosen by the right bounds and the indices are the digits of
\* the block number.  Later blocks are left out, the code leaves its array for them
\* (IndirectMap!InReach); so are lookups past a missing or unreadable pointer block,
\* which the code does not notice (ext2fs.cpp:433).
PointersLeadToBlock == ~extents => Pointers!FindsItsBlock

\* A search whose reads succeed ends at the disk block that the tree gives to
\* lbn, and at 0 for a hole, whatever the depth of the tree, the shape of its
\* nodes and the place of the hole (before, between or after the extents), as
\* long as no unwritten extent starts at or before lbn: its length is not read
\* as the format has it.
ExtentsLeadToBlock == extents => Tree!FindsItsBlock

-----------------------------------------------------------------------------
(* The inductive invariant behind the theorems of FileMapProofs.           *)

FileMapInv ==
  /\ extents \in BOOLEAN
  /\ IF extents THEN Tree!SearchInv ELSE Pointers!WalkInv
===============================================================================
