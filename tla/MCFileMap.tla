----------------------------- MODULE MCFileMap -----------------------------
(* Files of up to four blocks: every way to lay them out in extents, with and *)
(* without holes, every grouping of the extents into leaves and of the leaves *)
(* into index nodes, up to a tree of depth 2.  Files of block pointers up to  *)
(* the first block that the code can no longer look up.                       *)
EXTENDS FileMap, SequencesExt

MCAsked == 0 .. NDIR + SZ + 2 * SZ * SZ
MCInitMax == 8
MCFileBlock == 0 .. 4     \* one past the end of the largest file

Written(b, n) == [block |-> b, len |-> n, start |-> 10 * (b + 1)]
Unwritten(b, n) == [Written(b, n) EXCEPT !.len = MCInitMax + n]

Spans == {<<b, n>> \in (0 .. 3) \X (1 .. 4) : b + n <= 4}
Layouts ==
  {L \in SUBSET Spans :
     \A s, u \in L : s # u => s[1] + s[2] <= u[1] \/ u[1] + u[2] <= s[1]}
InOrder(exts) == SetToSortSeq(exts, LAMBDA d, e : d.block < e.block)

AllWritten == {InOrder({Written(s[1], s[2]) : s \in L}) : L \in Layouts}
SomeUnwritten ==
  UNION {{InOrder({Written(s[1], s[2]) : s \in L \ U} \cup {Unwritten(s[1], s[2]) : s \in U}) :
            U \in SUBSET L} : L \in {K \in Layouts : Cardinality(K) = 2}}

\* The ways to cut a sequence into consecutive parts: after the positions in C.
Cut(s, C) ==
  LET ends == SetToSortSeq(C \cup {Len(s)}, <)
  IN  [i \in DOMAIN ends |-> SubSeq(s, (IF i = 1 THEN 0 ELSE ends[i - 1]) + 1, ends[i])]
Cuts(s) == {Cut(s, C) : C \in SUBSET (1 .. Len(s) - 1)}

LeafOf(exts) == [depth |-> 0, entries |-> exts]
Over(d, nodes) ==
  [depth |-> d,
   entries |-> [i \in DOMAIN nodes |->
                  [block |-> nodes[i].entries[1].block, child |-> nodes[i]]]]

Depth1(exts) ==
  {Over(1, [i \in DOMAIN p |-> LeafOf(p[i])]) : p \in Cuts(exts)}
Depth2(exts) ==
  UNION {{Over(2, [i \in DOMAIN q |-> Over(1, q[i])]) :
            q \in Cuts([i \in DOMAIN p |-> LeafOf(p[i])])} : p \in Cuts(exts)}

MCTrees ==
  {LeafOf(f) : f \in AllWritten \cup SomeUnwritten}
  \cup UNION {Depth1(f) : f \in (AllWritten \cup SomeUnwritten) \ {<<>>}}
  \cup UNION {Depth2(f) : f \in AllWritten \ {<<>>}}
  \cup {[depth |-> 1, entries |-> <<>>]}

ChildrenOf(nodes) ==
  UNION {{n.entries[i].child : i \in DOMAIN n.entries} : n \in {m \in nodes : m.depth > 0}}
MCNodes == MCTrees \cup ChildrenOf(MCTrees) \cup ChildrenOf(ChildrenOf(MCTrees))

RECURSIVE Below(_)
Below(node) ==
  IF node.depth = 0 THEN Range(node.entries)
  ELSE UNION {Below(node.entries[i].child) : i \in DOMAIN node.entries}
MCExtents == [n \in MCNodes |-> Below(n)]

\* A leaf of another file, left in memory.
MCStale == {LeafOf(<<[block |-> 0, len |-> 4, start |-> 90]>>)}
===============================================================================
