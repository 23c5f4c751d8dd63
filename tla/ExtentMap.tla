------------------------------ MODULE ExtentMap ------------------------------
(***************************************************************************)
(* extent_to_logical and extent_binarysearch of Ext2Partition (ext2fs.cpp): *)
(* from the number of a file block to the disk block that holds it, through *)
(* the extent tree of an ext4 inode.                                       *)
(*                                                                         *)
(* A tree node is [depth, entries].  An entry of a leaf (depth 0) is an    *)
(* extent [block, len, start]; one of an index node is [block, child] with *)
(* the node on the disk block it points to as child.                       *)
(***************************************************************************)
EXTENDS Integers, Sequences, SequencesExt

CONSTANTS
  Nodes,      \* the nodes there may be,
  Extents,    \* and the extents below each, which is a part of the file
  Trees,      \* those that may be in i_block
  FileBlock,  \* the file blocks asked for
  InitMax,    \* 32768: an extent of n unwritten blocks has ee_len = InitMax + n
  Stale,      \* the nodes that new memory may happen to hold
  NoHeader    \* memory without the magic number of a header

VARIABLES
  tree,       \* the root node, in the inode
  lbn,        \* the argument
  pc,         \* "search" (a call of extent_binarysearch), "child", "done"
  header,     \* the node the current call searches
  index,      \* the index entry whose child is to be read
  failed,     \* a read of a child has failed
  result      \* the block number returned, 0 when none

vars == <<tree, lbn, pc, header, index, failed, result>>

IsUnwritten(e) == e.len > InitMax
Length(e) == IF IsUnwritten(e) THEN e.len - InitMax ELSE e.len

\* What the on-disk format says of a node: an entry of an index node covers the
\* file from its block up to that of the next one, and no file block is in two
\* extents.
Covered(x) == x.block .. x.block + Length(x) - 1
IsNode(node) ==
  LET e == node.entries
  IN  /\ Extents[node] \subseteq [block : Nat, len : Nat, start : Nat]
      /\ node.depth = 0 => e \in Seq(Extents[node]) /\ Extents[node] = Range(e)
      /\ node.depth # 0 =>
           /\ node.depth > 0 /\ e \in Seq([block : Nat, child : Nodes])
           /\ Extents[node] = UNION {Extents[e[i].child] : i \in DOMAIN e}
           /\ \A i, j \in DOMAIN e : \A x \in Extents[e[i].child] :
                /\ j <= i => e[j].block <= x.block
                /\ i < j => x.block + Length(x) <= e[j].block
      /\ \A x, y \in Extents[node] : Covered(x) \cap Covered(y) # {} => x = y

\* The disk block the on-disk format gives to file block n; 0 for a block that
\* reads as zeros: a hole, or allocated and not yet written.
OnDisk(n) ==
  LET owner == {e \in Extents[tree] : ~IsUnwritten(e) /\ n \in Covered(e)}
  IN  IF owner = {} THEN 0
      ELSE LET e == CHOOSE x \in owner : TRUE IN e.start + n - e.block

Init ==
  /\ tree \in Trees
  /\ lbn \in FileBlock
  /\ pc = "search"
  /\ header = tree
  /\ index = NoHeader
  /\ failed = FALSE
  /\ result = 0

Return(b) == pc' = "done" /\ result' = b

BadMagic ==
  /\ pc = "search" /\ header = NoHeader
  /\ Return(0)
  /\ UNCHANGED <<tree, lbn, header, index, failed>>

\* The end of an extent: one past its last file block.
EndOf(e) == e.block + e.len

Holds(e) == e.block <= lbn /\ lbn < EndOf(e)

\* depth 0: the first extent that holds lbn, or 0 when none does.
Leaf ==
  LET holding == {i \in DOMAIN header.entries : Holds(header.entries[i])}
  IN  /\ pc = "search" /\ header # NoHeader /\ header.depth = 0
      /\ IF holding = {} THEN Return(0)
         ELSE LET e == header.entries[CHOOSE i \in holding : \A j \in holding : i <= j]
              IN  Return(e.start + lbn - e.block)
      /\ UNCHANGED <<tree, lbn, header, index, failed>>

FollowsAt(i) == i = Len(header.entries) \/ lbn <= header.entries[i + 1].block  \* mutant
\* Entry i is the one to follow when the next one starts after lbn, or there
\* is no next one.
Follows(i) == i = Len(header.entries) \/ lbn < header.entries[i + 1].block

\* depth > 0: the first entry to follow; 0 when the node has no entries.
IndexNode ==
  LET following == {i \in DOMAIN header.entries : Follows(i)}
  IN  /\ pc = "search" /\ header # NoHeader /\ header.depth > 0
      /\ IF following = {} THEN Return(0) /\ UNCHANGED index
         ELSE /\ index' = header.entries[CHOOSE i \in following :
                                           \A j \in following : i <= j]
              /\ pc' = "child"
              /\ UNCHANGED result
      /\ UNCHANGED <<tree, lbn, header, failed>>

\* ext2_readblock fills the new memory for the child ...
ReadChild ==
  /\ pc = "child"
  /\ header' = index.child
  /\ pc' = "search"
  /\ UNCHANGED <<tree, lbn, index, failed, result>>

\* ... or fails (at most once here), which nobody looks at: the search goes on
\* in that memory.
ReadChildFails ==
  /\ pc = "child" /\ ~failed
  /\ header' \in Stale \cup {NoHeader}
  /\ failed' = TRUE
  /\ pc' = "search"
  /\ UNCHANGED <<tree, lbn, index, result>>

Returned == pc = "done" /\ UNCHANGED vars

Next == BadMagic \/ Leaf \/ IndexNode \/ ReadChild \/ ReadChildFails \/ Returned

Spec == Init /\ [][Next]_vars

-----------------------------------------------------------------------------
(* Properties *)

\* A search whose reads succeed ends at the disk block that the tree gives to
\* lbn, and at 0 for a hole, whatever the depth of the tree, the shape of its
\* nodes and the place of the hole (before, between or after the extents), as
\* long as no unwritten extent starts at or before lbn.
FindsItsBlock ==
  pc = "done" /\ ~failed /\ (\A e \in Extents[tree] : IsUnwritten(e) => lbn < e.block) =>
    result = OnDisk(lbn)

-----------------------------------------------------------------------------
(* The inductive invariant behind the theorem of FileMapProofs.            *)

\* No extent that covers lbn is anywhere else than below node.
LeadsOn(node) ==
  /\ node \in Nodes /\ Extents[node] \subseteq Extents[tree]
  /\ \A x \in Extents[tree] : lbn \in Covered(x) => x \in Extents[node]

SearchInv ==
  /\ tree \in Nodes /\ lbn \in FileBlock /\ pc \in {"search", "child", "done"}
  /\ ~failed => /\ pc = "search" => LeadsOn(header)
                /\ pc = "child" => LeadsOn(index.child)
  /\ FindsItsBlock
===============================================================================
