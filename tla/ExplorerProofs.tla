---------------------------- MODULE ExplorerProofs ----------------------------
(***************************************************************************)
(* Theorems about Explorer, for any partitions and folders, however deep,  *)
(* and any number of rescans.                                              *)
(***************************************************************************)
EXTENDS Explorer, SequenceTheorems, FiniteSetTheorems, TLAPS

USE TreeAssumption

\* SetToSeq lists a finite set: each of its elements, once.
LEMMA ListOfSet ==
  ASSUME NEW S, IsFiniteSet(S)
  PROVE  /\ SetToSeq(S) \in Seq(S)
         /\ Range(SetToSeq(S)) = S
         /\ IsInjective(SetToSeq(S))
<1> DEFINE n == Cardinality(S)
<1>1. n \in Nat /\ ExistsBijection(1 .. n, S)
  BY FS_CardinalityType
<1>2. \E f \in [1 .. n -> S] : IsInjective(f)
  BY <1>1 DEF ExistsBijection, Bijection, Injection
<1>3. SetToSeq(S) \in [1 .. n -> S] /\ IsInjective(SetToSeq(S))
  BY <1>2, Zenon DEF SetToSeq
<1>4. IsFiniteSet(1 .. n) /\ Cardinality(1 .. n) = n
  BY <1>1, FS_Interval
<1>5. SetToSeq(S) \in Injection(1 .. n, S)
  BY <1>3 DEF Injection
<1>6. SetToSeq(S) \in Surjection(1 .. n, S)
  BY <1>4, <1>5, FS_Injection
<1>7. Range(SetToSeq(S)) = S
  BY <1>3, <1>6 DEF Range, Surjection
<1>8. SetToSeq(S) \in Seq(S)
  BY <1>1, <1>3, IsASeq
<1>9. QED
  BY <1>3, <1>7, <1>8

\* Two lists without doubles that have nothing in common make one.
LEMMA JoinLists ==
  ASSUME NEW S, NEW s \in Seq(S), NEW t \in Seq(S), IsInjective(s), IsInjective(t),
         Range(s) \cap Range(t) = {}
  PROVE  IsInjective(s \o t)
<1> DEFINE u == s \o t
<1>1. /\ u \in Seq(S) /\ Len(u) = Len(s) + Len(t)
      /\ \A i \in 1 .. Len(s) + Len(t) : u[i] = IF i <= Len(s) THEN s[i] ELSE t[i - Len(s)]
  BY ConcatProperties
<1>2. Len(s) \in Nat /\ Len(t) \in Nat /\ DOMAIN s = 1 .. Len(s) /\ DOMAIN t = 1 .. Len(t)
      /\ DOMAIN u = 1 .. Len(s) + Len(t)
  BY <1>1, LenProperties
<1>3. SUFFICES ASSUME NEW i \in 1 .. Len(s) + Len(t), NEW j \in 1 .. Len(s) + Len(t), u[i] = u[j]
               PROVE  i = j
  BY <1>2 DEF IsInjective
<1>4. \A k \in 1 .. Len(s), l \in 1 .. Len(t) : s[k] # t[l]
  BY <1>2 DEF Range
<1>5. CASE i <= Len(s) /\ j <= Len(s)
  BY <1>1, <1>2, <1>3, <1>5 DEF IsInjective
<1>6. CASE i <= Len(s) /\ ~(j <= Len(s))
  BY <1>1, <1>2, <1>3, <1>4, <1>6
<1>7. CASE ~(i <= Len(s)) /\ j <= Len(s)
  BY <1>1, <1>2, <1>3, <1>4, <1>7
<1>8. CASE ~(i <= Len(s)) /\ ~(j <= Len(s))
  <2>1. t[i - Len(s)] = t[j - Len(s)] /\ i - Len(s) \in DOMAIN t /\ j - Len(s) \in DOMAIN t
    BY <1>1, <1>2, <1>3, <1>8
  <2>2. i - Len(s) = j - Len(s)
    BY <2>1 DEF IsInjective
  <2>3. QED
    BY <1>2, <2>2
<1>9. QED
  BY <1>5, <1>6, <1>7, <1>8

\* The first entries of a folder are a prefix of them and have no others.
LEMMA FirstEntries ==
  ASSUME NEW n \in Folder, NEW upto \in 0 .. Len(Children[n])
  PROVE  LET listed == SubSeq(Children[n], 1, upto)
         IN  /\ listed \in Seq(File)
             /\ IsPrefix(listed, Children[n])
             /\ Range(listed) \subseteq Range(Children[n])
<1> DEFINE c == Children[n]
           listed == SubSeq(c, 1, upto)
<1>1. c \in Seq(File) /\ Len(c) \in Nat /\ \A i \in 1 .. Len(c) : c[i] \in File
  BY LenProperties, ElementOfSeq
<1>2. /\ listed \in Seq(File)
      /\ Len(listed) = upto
      /\ \A i \in 1 .. upto : listed[i] = c[i]
  BY <1>1, SubSeqProperties
<1>3. SubSeq(listed, 1, Len(listed)) = listed
  BY <1>2, SubSeqFull
<1>4. IsPrefix(listed, c)
  BY <1>1, <1>2, <1>3 DEF IsPrefix
<1>5. Range(listed) \subseteq Range(c)
  BY <1>1, <1>2, LenProperties DEF Range
<1>6. QED
  BY <1>2, <1>4, <1>5

\* A folder shows files among its entries.
LEMMA PrefixRange ==
  ASSUME NEW n \in Folder, NEW s \in Seq(Node), IsPrefix(s, Children[n])
  PROVE  Range(s) \subseteq Range(Children[n])
<1> DEFINE c == Children[n]
<1>1. c \in Seq(File) /\ Len(c) \in Nat /\ Len(s) \in Nat /\ Len(s) <= Len(c)
  BY LenProperties DEF IsPrefix
<1>2. \A i \in 1 .. Len(s) : SubSeq(c, 1, Len(s))[i] = c[i] /\ SubSeq(s, 1, Len(s))[i] = s[i]
  BY <1>1, SubSeqProperties, ElementOfSeq
<1>3. \A i \in 1 .. Len(s) : s[i] = c[i]
  BY <1>2 DEF IsPrefix
<1>4. QED
  BY <1>1, <1>3, LenProperties DEF Range

\* What the tree holds: the partitions on view, and entries of the folders that
\* were listed.
LEMMA TreeFacts ==
  ASSUME ExplorerInv
  PROVE  /\ \A n \in Folder : Range(rows[n]) \subseteq Range(Children[n]) \cap File
         /\ Items = partOnview \cup UNION {Range(rows[n]) : n \in Folder}
         /\ Items \subseteq Node
         /\ \A n \in Folder \ fileOnview : Range(Children[n]) \cap Items = {}
<1> USE DEF ExplorerInv, ExplorerTypeOK, FlagsMatchTree, NothingTwice
<1>1. ASSUME NEW n \in Folder
      PROVE  Range(rows[n]) \subseteq Range(Children[n]) \cap File
  <2>1. rows[n] \in Seq(Node) /\ IsPrefix(rows[n], Children[n]) /\ Range(Children[n]) \subseteq File
    BY RangeOfSeq
  <2>2. QED
    BY <2>1, PrefixRange
<1>2. DOMAIN rows = Folder \cup {Root}
  OBVIOUS
<1>3. Items = partOnview \cup UNION {Range(rows[n]) : n \in Folder}
  BY <1>2 DEF Items
<1>4. Items \subseteq Node
  BY <1>1, <1>3 DEF Node
<1>5. ASSUME NEW n \in Folder \ fileOnview PROVE Range(Children[n]) \cap Items = {}
  <2>1. rows[n] = <<>> /\ Range(rows[n]) = {}
    BY DEF Range
  <2>2. Range(Children[n]) \cap partOnview = {}
    BY RangeOfSeq
  <2>3. \A m \in Folder : m # n => Range(Children[n]) \cap Range(rows[m]) = {}
    BY <1>1
  <2>4. SUFFICES ASSUME NEW x \in Range(Children[n]), x \in Items PROVE FALSE
    OBVIOUS
  <2>5. x \notin partOnview
    BY <2>2, <2>4
  <2>6. PICK m \in Folder : x \in Range(rows[m])
    BY <1>3, <2>4, <2>5
  <2>7. QED
    BY <2>1, <2>3, <2>4, <2>6
<1>6. QED
  BY <1>1, <1>3, <1>4, <1>5

\* A new tree of partitions only.
LEMMA RootsOnly ==
  ASSUME NEW found \in SUBSET Part
  PROVE  LET tree == WithRoots(Empty, found, {})
         IN  /\ tree \in [Folder \cup {Root} -> Seq(Node)]
             /\ Range(tree[Root]) = found /\ IsInjective(tree[Root])
             /\ \A n \in Folder : tree[n] = <<>>
<1> DEFINE list == SetToSeq(found)
<1>1. found \ {} = found /\ IsFiniteSet(found)
  BY FS_Subset
<1>2. list \in Seq(Node) /\ Range(list) = found /\ IsInjective(list)
  BY <1>1, ListOfSet, SeqMonotonic DEF Node
<1>3. <<>> \o list = list
  BY <1>2, ConcatEmptySeq
<1>4. Empty \in [Folder \cup {Root} -> Seq(Node)] /\ Empty[Root] = <<>>
  BY EmptySeq DEF Empty
<1>5. WithRoots(Empty, found, {}) = [Empty EXCEPT ![Root] = list]
  BY <1>1, <1>3, <1>4 DEF WithRoots
<1>6. Root \notin Folder
  OBVIOUS
<1>7. QED
  BY <1>2, <1>4, <1>5, <1>6 DEF Empty

\* Counting the files of a set and of others that are not in it.
LEMMA CountApart ==
  ASSUME NEW S, NEW T, NEW n \in Node
  PROVE  /\ One(S)[n] \in {0, 1}
         /\ n \in S <=> One(S)[n] = 1
         /\ S \cap T = {} => One(S \cup T)[n] = One(S)[n] + One(T)[n]
BY DEF One

-----------------------------------------------------------------------------
(* ExplorerInv step by step.                                               *)

LEMMA InitExplorerInv == Init => ExplorerInv
<1> SUFFICES ASSUME Init PROVE ExplorerInv
  OBVIOUS
<1>1. /\ parts \in SUBSET Part /\ partOnview = parts /\ fileOnview = {}
      /\ live = One(parts) /\ madeBy = [n \in Node |-> 0] /\ scans = 0
      /\ opened = None /\ readable \in BOOLEAN
  BY DEF Init
<1>2. /\ rows \in [Folder \cup {Root} -> Seq(Node)]
      /\ Range(rows[Root]) = parts /\ IsInjective(rows[Root])
      /\ \A n \in Folder : rows[n] = <<>>
  BY <1>1, RootsOnly DEF Init
<1>3. ExplorerTypeOK
  BY <1>1, <1>2 DEF ExplorerTypeOK, One
<1>4. FlagsMatchTree
  BY <1>1, <1>2 DEF FlagsMatchTree
<1>5. Items = parts
  BY <1>2 DEF Items, Range
<1>6. MadeByThisScan
  BY <1>1, <1>5 DEF MadeByThisScan, Node
<1>7. NothingTwice
  <2>1. ASSUME NEW n \in Folder PROVE IsPrefix(rows[n], Children[n])
    BY <1>2, LenProperties, SubSeqEmpty DEF IsPrefix
  <2>2. QED
    BY <1>2, <2>1 DEF NothingTwice
<1>8. ItemsOwnFiles
  BY <1>1, <1>5 DEF ItemsOwnFiles, One, Node
<1>9. FailureIsRetried
  BY <1>1 DEF FailureIsRetried
<1>10. QED
  BY <1>3, <1>4, <1>6, <1>7, <1>8, <1>9 DEF ExplorerInv

LEMMA OpenImageInv ==
  ASSUME ExplorerInv, NEW found \in SUBSET Part, NEW raw \in BOOLEAN, OpenImage(found, raw)
  PROVE  ExplorerInv'
<1> USE DEF ExplorerInv
<1>1. /\ found \cap parts = {} /\ parts' = parts \cup found
      /\ live' = [n \in Node |-> live[n] + One(found)[n]]
      /\ madeBy' = [n \in Node |-> IF n \in found THEN scans ELSE madeBy[n]]
      /\ UNCHANGED <<fileOnview, scans, readable, opened>>
  BY DEF OpenImage
<1>2. \/ rows' = WithRoots(rows, parts', partOnview) /\ partOnview' = parts'
      \/ UNCHANGED <<rows, partOnview>>
  BY DEF OpenImage
<1> DEFINE new == parts' \ partOnview
           list == SetToSeq(new)
<1>3. /\ list \in Seq(Node) /\ Range(list) = new /\ IsInjective(list)
  <2>1. new \subseteq Part /\ IsFiniteSet(new)
    BY <1>1, FS_Subset DEF ExplorerTypeOK
  <2>2. QED
    BY <2>1, ListOfSet, SeqMonotonic DEF Node
<1>4. /\ rows' \in [Folder \cup {Root} -> Seq(Node)]
      /\ Range(rows'[Root]) = partOnview' /\ IsInjective(rows'[Root])
      /\ \A n \in Folder : rows'[n] = rows[n]
      /\ partOnview \subseteq partOnview' /\ partOnview' \subseteq parts'
  <2>1. CASE UNCHANGED <<rows, partOnview>>
    BY <1>1, <2>1 DEF ExplorerTypeOK, FlagsMatchTree, NothingTwice
  <2>2. CASE rows' = WithRoots(rows, parts', partOnview) /\ partOnview' = parts'
    <3>1. rows[Root] \in Seq(Node) /\ Root \notin Folder
      BY DEF ExplorerTypeOK
    <3>2. rows' = [rows EXCEPT ![Root] = rows[Root] \o list]
      BY <2>2 DEF WithRoots
    <3>3. rows[Root] \o list \in Seq(Node)
      BY <1>3, <3>1, ConcatProperties
    <3>4. Range(rows[Root] \o list) = partOnview \cup new
      <4>1. Range(rows[Root] \o list) = Range(rows[Root]) \cup Range(list)
        BY <1>3, <3>1, RangeConcatenation
      <4>2. QED
        BY <1>3, <4>1 DEF FlagsMatchTree
    <3>5. IsInjective(rows[Root] \o list)
      BY <1>3, <3>1, JoinLists DEF FlagsMatchTree, NothingTwice
    <3>6. rows'[Root] = rows[Root] \o list /\ \A n \in Folder : rows'[n] = rows[n]
      BY <3>1, <3>2 DEF ExplorerTypeOK
    <3>7. rows' \in [Folder \cup {Root} -> Seq(Node)]
      BY <3>2, <3>3 DEF ExplorerTypeOK
    <3>8. partOnview \subseteq parts' /\ partOnview \cup new = parts'
      BY <1>1 DEF ExplorerTypeOK
    <3>9. QED
      BY <2>2, <3>4, <3>5, <3>6, <3>7, <3>8
  <2>3. QED
    BY <1>2, <2>1, <2>2
<1>5. ExplorerTypeOK'
  BY <1>1, <1>4 DEF ExplorerTypeOK, One
<1>6. FlagsMatchTree'
  BY <1>1, <1>4 DEF FlagsMatchTree
<1>7. NothingTwice'
  BY <1>4 DEF NothingTwice
<1>8. Items \subseteq Items' /\ Items' \subseteq Items \cup parts' /\ Items' \cap File = Items \cap File
  <2>1. DOMAIN rows = Folder \cup {Root} /\ DOMAIN rows' = Folder \cup {Root}
    BY <1>4 DEF ExplorerTypeOK
  <2>2. Range(rows[Root]) = partOnview
    BY DEF FlagsMatchTree
  <2>3. Items = partOnview \cup UNION {Range(rows[n]) : n \in Folder}
    BY <2>1, <2>2 DEF Items
  <2>4. Items' = partOnview' \cup UNION {Range(rows[n]) : n \in Folder}
    BY <1>4, <2>1 DEF Items
  <2>5. partOnview' \cap File = {} /\ partOnview \cap File = {}
    BY <1>4, <1>5 DEF ExplorerTypeOK
  <2>6. QED
    BY <1>4, <2>3, <2>4, <2>5
<1>9. MadeByThisScan'
  BY <1>1, <1>8, TreeFacts DEF MadeByThisScan, ExplorerTypeOK, Node
<1>10. ItemsOwnFiles'
  <2>1. ASSUME NEW n \in Node PROVE live'[n] >= One(Items' \cup parts')[n]
    <3>1. live'[n] = live[n] + One(found)[n] /\ live[n] \in Int
      BY <1>1 DEF ExplorerTypeOK
    <3>2. live[n] >= One(Items \cup parts)[n]
      BY DEF ItemsOwnFiles
    <3>3. Items' \cup parts' = (Items \cup parts) \cup found
      BY <1>1, <1>8
    <3>4. One(Items' \cup parts')[n] <= One(Items \cup parts)[n] + One(found)[n]
      BY <3>3 DEF One
    <3>5. One(Items' \cup parts')[n] \in Int /\ One(Items \cup parts)[n] \in Int /\ One(found)[n] \in Int
      BY CountApart
    <3>6. QED
      BY <3>1, <3>2, <3>4, <3>5
  <2>2. ASSUME NEW n \in File PROVE live'[n] = One(Items')[n]
    BY <1>1, <1>8, <2>2 DEF ItemsOwnFiles, One, ExplorerTypeOK, Node
  <2>3. QED
    BY <2>1, <2>2 DEF ItemsOwnFiles
<1>11. FailureIsRetried'
  BY <1>1, <1>4 DEF FailureIsRetried, ExplorerTypeOK
<1>12. QED
  BY <1>5, <1>6, <1>7, <1>9, <1>10, <1>11

LEMMA DoubleClickInv ==
  ASSUME ExplorerInv, NEW n \in Folder, DoubleClick(n)
  PROVE  ExplorerInv'
<1> USE DEF ExplorerInv
<1>1. /\ n \in Items /\ opened' = [folder |-> n, readable |-> readable]
      /\ UNCHANGED <<parts, partOnview, scans, readable>>
  BY DEF DoubleClick
<1>2. opened' \in [folder : Folder, readable : BOOLEAN] \cup {None}
  BY <1>1 DEF ExplorerTypeOK
<1>3. CASE n \in fileOnview
  <2>1. UNCHANGED <<rows, live, madeBy, fileOnview>>
    BY <1>3 DEF DoubleClick, Lists
  <2>2. rows[n] # <<>>
    BY <1>3 DEF FlagsMatchTree
  <2>3. FailureIsRetried'
    BY <1>1, <2>1, <2>2 DEF FailureIsRetried
  <2>4. ExplorerTypeOK'
    BY <1>1, <1>2, <2>1 DEF ExplorerTypeOK
  <2>5. QED
    BY <1>1, <2>1, <2>3, <2>4
       DEF FlagsMatchTree, MadeByThisScan, NothingTwice, ItemsOwnFiles, Items
<1>4. CASE n \notin fileOnview
  <2>1. PICK upto \in 0 .. Len(Children[n]) :
          LET listed == SubSeq(Children[n], 1, upto)
          IN  /\ readable => listed = Children[n]
              /\ rows' = [rows EXCEPT ![n] = @ \o listed]
              /\ live' = [m \in Node |-> live[m] + One(Range(listed))[m]]
              /\ madeBy' = [m \in Node |-> IF m \in Range(listed) THEN madeBy[n] ELSE madeBy[m]]
              /\ fileOnview' = IF Marks(listed) THEN fileOnview \cup {n} ELSE fileOnview
    BY <1>4 DEF DoubleClick, Lists
  <2> DEFINE listed == SubSeq(Children[n], 1, upto)
             new == Range(listed)
  <2>2. /\ listed \in Seq(Node) /\ listed \in Seq(File) /\ IsPrefix(listed, Children[n])
        /\ new \subseteq Range(Children[n]) /\ new \subseteq File
    BY FirstEntries, SeqMonotonic, RangeOfSeq DEF Node
  <2>3. rows[n] = <<>> /\ n # Root /\ DOMAIN rows = Folder \cup {Root}
    BY <1>4 DEF FlagsMatchTree, ExplorerTypeOK
  <2>4. rows' = [rows EXCEPT ![n] = listed]
    BY <2>1, <2>2, <2>3, ConcatEmptySeq
  <2>5. new \cap Items = {} /\ Items \subseteq Node
    BY <1>4, <2>2, TreeFacts
  <2>6. Items' = Items \cup new
    BY <2>3, <2>4 DEF Items, Range
  <2>7. fileOnview' = IF listed # <<>> THEN fileOnview \cup {n} ELSE fileOnview
    BY <2>1 DEF Marks
  <2>8. ExplorerTypeOK'
    BY <1>1, <1>2, <2>1, <2>2, <2>4, <2>7 DEF ExplorerTypeOK, One
  <2>9. FlagsMatchTree'
    BY <1>1, <1>4, <2>3, <2>4, <2>7 DEF FlagsMatchTree
  <2>10. NothingTwice'
    BY <2>2, <2>3, <2>4 DEF NothingTwice
  <2>11. MadeByThisScan'
    <3>1. SUFFICES ASSUME NEW m \in Items \cup new \cup parts PROVE madeBy'[m] = scans
      BY <1>1, <2>6 DEF MadeByThisScan
    <3>2. m \in Node
      BY <2>2, <2>5 DEF ExplorerTypeOK, Node
    <3>3. madeBy'[m] = IF m \in new THEN madeBy[n] ELSE madeBy[m]
      BY <2>1, <3>2
    <3>4. madeBy[n] = scans
      BY <1>1 DEF MadeByThisScan
    <3>5. QED
      BY <3>1, <3>3, <3>4 DEF MadeByThisScan
  <2>12. ItemsOwnFiles'
    <3>1. ASSUME NEW m \in Node PROVE live'[m] >= One(Items' \cup parts')[m]
      BY <1>1, <2>1, <2>6, <3>1 DEF ItemsOwnFiles, One, ExplorerTypeOK
    <3>2. ASSUME NEW m \in File PROVE live'[m] = One(Items')[m]
      BY <2>1, <2>5, <2>6, <3>2 DEF ItemsOwnFiles, One, ExplorerTypeOK, Node
    <3>3. QED
      BY <3>1, <3>2 DEF ItemsOwnFiles
  <2>13. FailureIsRetried'
    BY <1>1, <2>1, <2>3, <2>4 DEF FailureIsRetried
  <2>14. QED
    BY <2>8, <2>9, <2>10, <2>11, <2>12, <2>13
<1>5. QED
  BY <1>3, <1>4

LEMMA RescanInv ==
  ASSUME ExplorerInv, NEW found \in SUBSET Part, Rescan(found)
  PROVE  ExplorerInv'
<1> USE DEF ExplorerInv
<1>1. /\ parts' = found /\ partOnview' = found /\ fileOnview' = {}
      /\ live' = [n \in Node |-> live[n] - Deleted(n) + One(found)[n]]
      /\ madeBy' = [n \in Node |-> IF n \in found THEN scans' ELSE madeBy[n]]
      /\ scans' = scans + 1 /\ opened' = None /\ readable' = readable
  BY DEF Rescan
<1>2. /\ rows' \in [Folder \cup {Root} -> Seq(Node)]
      /\ Range(rows'[Root]) = found /\ IsInjective(rows'[Root])
      /\ \A n \in Folder : rows'[n] = <<>>
  BY RootsOnly DEF Rescan
<1>3. ASSUME NEW n \in Node
      PROVE  /\ live'[n] = live[n] - One(Items)[n] + One(found)[n]
             /\ live[n] \in Int /\ live[n] >= One(Items)[n]
             /\ One(Items)[n] \in Int /\ One(found)[n] \in Int
  <2>1. live'[n] = live[n] - One(Items)[n] + One(found)[n] /\ live[n] \in Int
    BY <1>1 DEF Deleted, ExplorerTypeOK
  <2>2. live[n] >= One(Items \cup parts)[n]
    BY DEF ItemsOwnFiles
  <2>3. One(Items \cup parts)[n] >= One(Items)[n]
    BY DEF One
  <2>4. One(Items \cup parts)[n] \in Int /\ One(Items)[n] \in Int /\ One(found)[n] \in Int
    BY CountApart
  <2>5. QED
    BY <2>1, <2>2, <2>3, <2>4
<1>4. ExplorerTypeOK'
  <2>1. live' \in [Node -> Int]
    BY <1>1, <1>3
  <2>2. madeBy' \in [Node -> Nat] /\ scans' \in Nat
    BY <1>1 DEF ExplorerTypeOK
  <2>3. QED
    BY <1>1, <1>2, <2>1, <2>2 DEF ExplorerTypeOK
<1>5. FlagsMatchTree'
  BY <1>1, <1>2 DEF FlagsMatchTree
<1>6. Items' = found
  BY <1>2 DEF Items, Range
<1>7. MadeByThisScan'
  BY <1>1, <1>6 DEF MadeByThisScan, Node
<1>8. NothingTwice'
  <2>1. ASSUME NEW n \in Folder PROVE IsPrefix(rows'[n], Children[n])
    BY <1>2, LenProperties, SubSeqEmpty DEF IsPrefix
  <2>2. QED
    BY <1>2, <2>1 DEF NothingTwice
<1>9. ItemsOwnFiles'
  <2>1. ASSUME NEW n \in Node PROVE live'[n] >= One(Items' \cup parts')[n]
    <3>1. Items' \cup parts' = found
      BY <1>1, <1>6
    <3>2. One(Items' \cup parts')[n] = One(found)[n]
      BY <3>1
    <3>3. live'[n] >= One(found)[n]
      BY <1>3
    <3>4. QED
      BY <3>2, <3>3
  <2>2. ASSUME NEW n \in File PROVE live'[n] = One(Items')[n]
    <3>1. live[n] = One(Items)[n] /\ n \in Node
      BY DEF ItemsOwnFiles, Node
    <3>2. QED
      BY <1>3, <1>6, <3>1
  <2>3. QED
    BY <2>1, <2>2 DEF ItemsOwnFiles
<1>10. FailureIsRetried'
  BY <1>1 DEF FailureIsRetried
<1>11. QED
  BY <1>4, <1>5, <1>7, <1>8, <1>9, <1>10

LEMMA NextExplorerInv == ExplorerInv /\ [Next]_vars => ExplorerInv'
<1> SUFFICES ASSUME ExplorerInv, [Next]_vars PROVE ExplorerInv'
  OBVIOUS
<1>1. CASE \E found \in SUBSET Part, raw \in BOOLEAN : OpenImage(found, raw)
  BY <1>1, OpenImageInv
<1>2. CASE \E n \in Folder : DoubleClick(n)
  BY <1>2, DoubleClickInv
<1>3. CASE \E found \in SUBSET Part : Rescan(found)
  BY <1>3, RescanInv
<1>4. CASE DiskTurns \/ UNCHANGED vars
  <2>1. /\ UNCHANGED <<parts, partOnview, fileOnview, rows, live, madeBy, scans, opened>>
        /\ readable' \in {readable, ~readable}
    BY <1>4 DEF DiskTurns, vars
  <2>2. Items' = Items
    BY <2>1 DEF Items
  <2>3. ExplorerTypeOK'
    BY <2>1 DEF ExplorerInv, ExplorerTypeOK
  <2>4. FlagsMatchTree' /\ NothingTwice' /\ FailureIsRetried'
    BY <2>1 DEF ExplorerInv, FlagsMatchTree, NothingTwice, FailureIsRetried
  <2>5. MadeByThisScan'
    BY <2>1, <2>2 DEF ExplorerInv, MadeByThisScan
  <2>6. ItemsOwnFiles'
    <3>1. One(Items' \cup parts') = One(Items \cup parts) /\ One(Items') = One(Items)
      BY <2>1, <2>2
    <3>2. QED
      BY <2>1, <3>1 DEF ExplorerInv, ItemsOwnFiles
  <2>7. QED
    BY <2>3, <2>4, <2>5, <2>6 DEF ExplorerInv
<1>5. QED
  BY <1>1, <1>2, <1>3, <1>4 DEF Next

-----------------------------------------------------------------------------
(* The theorems.                                                           *)

LEMMA ExplorerInvariance == Spec => []ExplorerInv
  BY InitExplorerInv, NextExplorerInv, PTL DEF Spec

\* Nothing is in the tree twice, and a folder shows the first of its entries
\* (on_action_item_dbclicked, init_root_fs).
THEOREM TreeHasNoDoubles == Spec => []NothingTwice
<1>1. ExplorerInv => NothingTwice
  BY DEF ExplorerInv
<1>2. QED
  BY <1>1, ExplorerInvariance, PTL

\* No Ext2File is deleted twice, none of a listed item is left over
\* (delete_children, on_action_Rescan_System_triggered).
THEOREM FilesGoWithItems == Spec => []ItemsOwnFiles
<1>1. ExplorerInv => ItemsOwnFiles
  BY DEF ExplorerInv
<1>2. QED
  BY <1>1, ExplorerInvariance, PTL

\* No item outlives the scan its partition is of
\* (on_action_Rescan_System_triggered, on_actionOpen_Image_triggered).
THEOREM ItemsAreOfThisScan == Spec => []NoStalePartition
<1>1. ExplorerInv => NoStalePartition
  BY DEF ExplorerInv, MadeByThisScan, NoStalePartition
<1>2. QED
  BY <1>1, ExplorerInvariance, PTL

\* A folder that could not be listed is listed when it is opened again
\* (on_action_item_dbclicked).
THEOREM FailedListingIsRetried == Spec => []FailureIsRetried
<1>1. ExplorerInv => FailureIsRetried
  BY DEF ExplorerInv
<1>2. QED
  BY <1>1, ExplorerInvariance, PTL
===============================================================================
