------------------------------ MODULE Explorer ------------------------------
(***************************************************************************)
(* The tree of the main window (ext2explore.cpp): the items, the Ext2File  *)
(* objects their data points to, and the Ext2Partition objects those point *)
(* to.  init_root_fs adds an item for a partition, a double click those of *)
(* a folder's entries, Rescan deletes everything and scans again.          *)
(*                                                                         *)
(* A scan is module Scan's; here it finds some set of partitions.  The     *)
(* listing of a folder is module DirStream's; here it returns the entries  *)
(* of the folder, or the first ones when a read fails.                     *)
(***************************************************************************)
EXTENDS Integers, Sequences, SequencesExt, FiniteSets, Functions

CONSTANTS
  Part,      \* the partitions, by their root folders
  File,      \* the other files, one for each entry of a folder
  Children,  \* Children[n]: the entries that read_dir returns for folder n
  Root,      \* the invisible root item
  MaxScans,  \* bound on the rescans
  None

Node == Part \cup File
Folder == DOMAIN Children

ASSUME TreeAssumption ==
  /\ IsFiniteSet(Part)
  /\ Part \cap File = {} /\ Root \notin Node /\ None \notin Node
  /\ Part \subseteq Folder /\ Folder \subseteq Node
  /\ \A n \in Folder : Children[n] \in Seq(File) /\ IsInjective(Children[n])
  /\ \A m, n \in Folder : m # n => Range(Children[m]) \cap Range(Children[n]) = {}
  /\ MaxScans \in Nat

VARIABLES
  parts,       \* app->nparts
  partOnview,  \* the partitions whose onview is set
  fileOnview,  \* the folders whose Ext2File has onview set
  rows,        \* rows[n]: the child items of n's item
  live,        \* live[n]: the Ext2File objects of n that exist, counted
  madeBy,      \* madeBy[n]: the scan whose partition n's file points to
  scans,       \* the scan whose partitions exist, counted from 0
  readable,    \* the disks answer
  opened       \* history: the last folder double-clicked, and readable then

vars == <<parts, partOnview, fileOnview, rows, live, madeBy, scans, readable, opened>>

Empty == [n \in Folder \cup {Root} |-> <<>>]
Items == UNION {Range(rows[n]) : n \in DOMAIN rows}

One(S) == [n \in Node |-> IF n \in S THEN 1 ELSE 0]

\* init_root_fs: an item for each of the partitions now that has none in tree,
\* the tree being rows or what is left of it.
WithRoots(tree, now, viewed) ==
  [tree EXCEPT ![Root] = @ \o SetToSeq(now \ viewed)]

\* The first scan, in the window's constructor.
Init ==
  /\ parts \in SUBSET Part
  /\ partOnview = parts
  /\ fileOnview = {}
  /\ rows = WithRoots(Empty, parts, {})
  /\ live = One(parts)
  /\ madeBy = [n \in Node |-> 0]
  /\ scans = 0
  /\ readable \in BOOLEAN
  /\ opened = None

\* on_actionOpen_Image_triggered: add_loopback adds the file systems of an image
\* to nparts; init_root_fs is called for one without a partition table only.
OpenImage(found, raw) ==
  /\ found # {} /\ found \cap parts = {}
  /\ raw => \E p \in found : found = {p}
  /\ parts' = parts \cup found
  /\ live' = [n \in Node |-> live[n] + One(found)[n]]
  /\ madeBy' = [n \in Node |-> IF n \in found THEN scans ELSE madeBy[n]]
  /\ IF raw THEN rows' = WithRoots(rows, parts', partOnview) /\ partOnview' = parts'
            ELSE UNCHANGED <<rows, partOnview>>
  /\ UNCHANGED <<fileOnview, scans, readable, opened>>

\* Whether a double click lists the folder, and whether it marks it.
ListsAlways(n) == TRUE                     \* mutant: onview is not looked at
Lists(n) == n \notin fileOnview
MarksAlways(listed) == TRUE                \* mutant: onview is set after the loop
Marks(listed) == listed # <<>>

\* on_action_item_dbclicked: a folder is listed unless it was before.
DoubleClick(n) ==
  /\ n \in Items \cap Folder
  /\ opened' = [folder |-> n, readable |-> readable]
  /\ IF Lists(n)
       THEN \E upto \in 0 .. Len(Children[n]) :
              LET listed == SubSeq(Children[n], 1, upto)
              IN  /\ readable => listed = Children[n]
                  /\ rows' = [rows EXCEPT ![n] = @ \o listed]
                  /\ live' = [m \in Node |-> live[m] + One(Range(listed))[m]]
                  /\ madeBy' = [m \in Node |-> IF m \in Range(listed) THEN madeBy[n] ELSE madeBy[m]]
                  /\ fileOnview' = IF Marks(listed) THEN fileOnview \cup {n} ELSE fileOnview
       ELSE UNCHANGED <<rows, live, madeBy, fileOnview>>
  /\ UNCHANGED <<parts, partOnview, scans, readable>>

\* What delete_children(root) deletes of n's objects: one for each item.
DeletedShallow(n) == One(Range(rows[Root]))[n]      \* mutant: no recursion
Deleted(n) == One(Items)[n]

\* mutant: the tree is not cleared before the scan.
RescanOnto(found) ==
  /\ scans < MaxScans
  /\ scans' = scans + 1
  /\ parts' = found /\ partOnview' = found
  /\ rows' = WithRoots(rows, found, {})
  /\ live' = [n \in Node |-> live[n] + One(found)[n]]
  /\ madeBy' = [n \in Node |-> IF n \in found THEN scans' ELSE madeBy[n]]
  /\ UNCHANGED <<fileOnview, readable, opened>>
\* on_action_Rescan_System_triggered: the items and their files go, then the
\* partitions, and what a new scan finds is shown.
Rescan(found) ==
  /\ scans < MaxScans
  /\ scans' = scans + 1
  /\ parts' = found /\ partOnview' = found
  /\ rows' = WithRoots(Empty, found, {})
  /\ fileOnview' = {}
  /\ live' = [n \in Node |-> live[n] - Deleted(n) + One(found)[n]]
  /\ madeBy' = [n \in Node |-> IF n \in found THEN scans' ELSE madeBy[n]]
  /\ opened' = None
  /\ UNCHANGED readable

\* The disk's part: it fails to answer, and answers again.
DiskTurns ==
  /\ readable' = ~readable
  /\ UNCHANGED <<parts, partOnview, fileOnview, rows, live, madeBy, scans, opened>>

Next ==
  \/ \E found \in SUBSET Part, raw \in BOOLEAN : OpenImage(found, raw)
  \/ \E n \in Folder : DoubleClick(n)
  \/ \E found \in SUBSET Part : Rescan(found)
  \/ DiskTurns

Spec == Init /\ [][Next]_vars

-----------------------------------------------------------------------------
(* Properties *)

\* However often folders are opened, images added and partitions scanned again,
\* nothing is in the tree twice, and a folder shows the first of its entries.
NothingTwice ==
  /\ IsInjective(rows[Root])
  /\ \A n \in Folder : IsPrefix(rows[n], Children[n])

\* The file an item or a partition points to exists: no Ext2File is deleted
\* twice.  That of a listed item exists once, and no listed file is left over
\* without an item (the roots of partitions never shown are: Rescan does not
\* reach them).
ItemsOwnFiles ==
  /\ \A n \in Node : live[n] >= One(Items \cup parts)[n]
  /\ \A n \in File : live[n] = One(Items)[n]

\* What is listed, copied or looked at through an item is on a partition that
\* exists: no item outlives the scan its partition is of.
NoStalePartition ==
  \A n \in Items : madeBy[n] = scans

\* A folder that could not be listed at all is listed when it is opened again.
FailureIsRetried ==
  opened # None /\ opened.readable /\ Children[opened.folder] # <<>>
    => rows[opened.folder] # <<>>

-----------------------------------------------------------------------------
(* The inductive invariant behind the theorems of ExplorerProofs.          *)

\* Every variable has its type; what is on view is there.
ExplorerTypeOK ==
  /\ parts \subseteq Part /\ partOnview \subseteq parts /\ fileOnview \subseteq Folder
  /\ rows \in [Folder \cup {Root} -> Seq(Node)]
  /\ live \in [Node -> Int]
  /\ madeBy \in [Node -> Nat] /\ scans \in Nat
  /\ readable \in BOOLEAN
  /\ opened \in {None} \cup [folder : Folder, readable : BOOLEAN]

\* The onview flags say what is in the tree.
FlagsMatchTree ==
  /\ Range(rows[Root]) = partOnview
  /\ \A n \in Folder : n \in fileOnview <=> rows[n] # <<>>

\* What exists is of the scan that is shown, also when it is not in the tree.
MadeByThisScan == \A n \in Items \cup parts : madeBy[n] = scans

ExplorerInv ==
  /\ ExplorerTypeOK /\ FlagsMatchTree /\ MadeByThisScan
  /\ NothingTwice /\ ItemsOwnFiles /\ FailureIsRetried
===============================================================================
