----------------------------- MODULE MCDirStream -----------------------------
(* Directories of up to three blocks of three units each.  The first block    *)
(* starts with "." and "..", the second is tiled in every way with every kind *)
(* of entry, or ends with an entry of length 0; the third holds one entry.    *)
EXTENDS DirStream, TLC

MCBlockSize == 3
E(kind, len) == [kind |-> kind, len |-> len]
Dots == E("dots", 1)
Kinds == {"live", "unused", "unreadable"}

FirstBlocks ==
  {0 :> Dots @@ 1 :> Dots @@ 2 :> E(k, 1) : k \in Kinds}
  \cup {0 :> Dots @@ 1 :> E("dots", 2), 0 :> Dots @@ 1 :> E("dots", 0)}
OneEntry == {0 :> E(k, 3) : k \in Kinds}
Damaged ==
  {0 :> E(k, 0) : k \in Kinds} \cup {0 :> E(j, 2) @@ 2 :> E(k, 0) : j \in Kinds, k \in Kinds}
OtherBlocks ==
  OneEntry
  \cup {0 :> E(j, n) @@ n :> E(k, 3 - n) : j \in Kinds, k \in Kinds, n \in {1, 2}}
  \cup {0 :> E(i, 1) @@ 1 :> E(j, 1) @@ 2 :> E(k, 1) :
          i \in Kinds, j \in Kinds, k \in Kinds}
  \cup Damaged

MCDirs ==
  {<<f>> : f \in FirstBlocks}
  \cup {<<f, g>> : f \in FirstBlocks, g \in OtherBlocks}
  \cup {<<f, g, h>> : f \in FirstBlocks, g \in OtherBlocks, h \in OneEntry}
===============================================================================
