------------------------------ MODULE LvmProofs ------------------------------
(***************************************************************************)
(* Theorems about Lvm, for any volume group whose metadata are as the      *)
(* format has them, and any order in which its disks and images are met.   *)
(***************************************************************************)
EXTENDS Lvm, SequenceTheorems, FiniteSetTheorems, WellFoundedInduction, TLAPS

-----------------------------------------------------------------------------
(* Arithmetic and indices                                                  *)

LEMMA DivMod ==
  ASSUME NEW a \in Int, NEW b \in Nat \ {0}
  PROVE  /\ a \div b \in Int /\ a % b \in Nat
         /\ b * (a \div b) <= a /\ a < b * (a \div b) + b
         /\ a % b = a - b * (a \div b) /\ a % b < b
OBVIOUS

\* A set of indices has a first and a last.
LEMMA LeastIndex ==
  ASSUME NEW S, S \subseteq Nat, S # {}
  PROVE  \E i \in S : \A j \in S : i <= j
<1> DEFINE T == {0 .. i : i \in S}
           less == StrictSubsetOrdering(Nat)
<1>1. T \subseteq FiniteSubsetsOf(Nat) /\ T # {}
  <2>1. \A i \in S : 0 .. i \in SUBSET Nat /\ IsFiniteSet(0 .. i)
    BY FS_Interval
  <2>2. QED
    BY <2>1 DEF FiniteSubsetsOf
<1> HIDE DEF T
<1>2. \E x \in T : \A y \in T : ~(<<y, x>> \in StrictSubsetOrdering(Nat))
  BY <1>1, FS_StrictSubsetOrderingWellFounded, WFMin, Zenon
<1>3. PICK i \in S : \A j \in S : <<0 .. j, 0 .. i>> \notin less
  <2> HIDE DEF less
  <2>1. PICK x \in T : \A y \in T : <<y, x>> \notin less
    BY <1>2 DEF less
  <2>2. PICK i \in S : x = 0 .. i
    BY DEF T
  <2>3. \A j \in S : 0 .. j \in T
    BY DEF T
  <2>4. QED
    BY <2>1, <2>2, <2>3
<1>4. ASSUME NEW j \in S, j < i PROVE FALSE
  <2>1. 0 .. j \subseteq 0 .. i /\ 0 .. i # 0 .. j
    <3>1. i \in 0 .. i /\ i \notin 0 .. j
      BY <1>4
    <3>2. 0 .. j \subseteq 0 .. i
      BY <1>4
    <3>3. QED
      BY <3>1, <3>2
  <2>2. 0 .. j \in SUBSET Nat /\ 0 .. i \in SUBSET Nat
    OBVIOUS
  <2>3. <<0 .. j, 0 .. i>> \in less
    BY <2>1, <2>2 DEF StrictSubsetOrdering
  <2>4. QED
    BY <1>3, <2>3
<1>5. \A j \in S : ~(j < i) => i <= j
  OBVIOUS
<1>6. QED
  BY <1>4, <1>5

LEMMA MinIsFirst ==
  ASSUME NEW S, S \subseteq Nat, S # {}
  PROVE  Min(S) \in S /\ \A j \in S : Min(S) <= j
BY LeastIndex DEF Min

LEMMA MaxIsLast ==
  ASSUME NEW n \in Nat, NEW S, S \subseteq 1 .. n, S # {}
  PROVE  Max(S) \in S
<1> DEFINE T == {n - i : i \in S}
<1>1. T \subseteq Nat /\ T # {}
  <2>1. \A i \in S : i \in 1 .. n
    OBVIOUS
  <2>2. \A i \in 1 .. n : n - i \in Nat
    OBVIOUS
  <2>3. QED
    BY <2>1, <2>2
<1>2. PICK t \in T : \A u \in T : t <= u
  BY <1>1, LeastIndex
<1>3. PICK i \in S : t = n - i
  OBVIOUS
<1>4. \A j \in S : i >= j
  <2>1. \A j \in S : n - j \in T
    OBVIOUS
  <2>2. \A j \in S : n - i <= n - j
    BY <1>2, <1>3, <2>1
  <2>3. QED
    BY <2>2
<1>5. QED
  BY <1>3, <1>4 DEF Max

GroupSegment == [start_extent : Nat, extent_count : Nat \ {0},
                 pv : Range(meta.pvs), stripe_start_extent : Nat]
ListSegment == [start_extent : Nat, extent_count : Nat \ {0},
                stripe_start_extent : Nat, pvolume : PV \cup {None}]

LEMMA EntryOfSeq == ASSUME NEW S, NEW s \in Seq(S) PROVE \A k \in DOMAIN s : s[k] \in S
OBVIOUS

\* The first extent of a volume is in its first segment and in no other.
LEMMA SegmentsOf ==
  ASSUME meta \in Metas, NEW l \in LV
  PROVE  /\ meta.segments[l] \in Seq(GroupSegment)
         /\ 1 \in DOMAIN meta.segments[l] /\ meta.segments[l][1].start_extent = 0
         /\ \A k \in DOMAIN meta.segments[l] :
              Over(meta.segments[l][k], 0) => k = 1
<1> DEFINE segs == meta.segments[l]
           end == ExtentsOf(segs)
<1>1. /\ segs \in Seq(GroupSegment) /\ segs # <<>> /\ segs[1].start_extent = 0
      /\ \A extent \in 0 .. end - 1 :
           \E k \in DOMAIN segs : \A n \in DOMAIN segs : Over(segs[n], extent) <=> n = k
  <2>1. MetaFormat(meta)
    BY MetaAssumption
  <2>2. meta.segments \in [LV -> Seq(GroupSegment)]
    BY <2>1 DEF MetaFormat, GroupSegment
  <2>3. QED
    BY <2>1, <2>2 DEF MetaFormat
<1> HIDE DEF segs
<1>2. Len(segs) \in Nat /\ Len(segs) # 0 /\ DOMAIN segs = 1 .. Len(segs)
  BY <1>1
<1>3. 1 \in DOMAIN segs /\ Len(segs) \in DOMAIN segs
  BY <1>2
<1>4. segs[1] \in GroupSegment /\ segs[Len(segs)] \in GroupSegment
  BY <1>1, <1>3, EntryOfSeq
<1>5. end \in Nat \ {0}
  BY <1>4 DEF ExtentsOf, Last, GroupSegment
<1>6. 0 \in 0 .. end - 1
  BY <1>5
<1>7. Over(segs[1], 0)
  BY <1>1, <1>4 DEF Over, GroupSegment
<1>8. \A k \in DOMAIN segs : Over(segs[k], 0) => k = 1
  BY <1>1, <1>3, <1>6, <1>7
<1>9. QED
  BY <1>1, <1>3, <1>8 DEF segs

LEMMA GroupInitInv == ASSUME Init PROVE LvmInv
<1>1. ASSUME NEW l \in LV PROVE SegmentsListed(l) /\ mounted[l] = None
  BY EmptySeq DEF Init, SegmentsListed
<1>2. pvolumes \in Seq(PV)
  BY EmptySeq DEF Init
<1>3. QED
  BY <1>1, <1>2 DEF Init, LvmInv

\* A PV that is scanned adds its group's segments behind those there are.
LEMMA ScannedInv ==
  ASSUME LvmInv, NEW p \in PV, Scanned(p),
         UNCHANGED <<meta, phase, mounted>>
  PROVE  LvmInv'
<1>1. /\ Parses(meta.header) /\ extent_size' = ExtentSize(meta.header)
      /\ pvolumes' = IF p \in Range(pvolumes) THEN pvolumes ELSE Append(pvolumes, p)
      /\ segments' = [l \in LV |-> segments[l] \o [k \in DOMAIN meta.segments[l] |->
                                                   Parsed(meta.segments[l][k])]]
  BY DEF Scanned, AddOnce, PushBack
<1>2. /\ meta \in Metas /\ phase \in {"scan", "mount", "view"} /\ pvolumes \in Seq(PV)
      /\ pvolumes # <<>> => Parses(meta.header) /\ extent_size = ExtentSize(meta.header)
      /\ DOMAIN segments = LV /\ DOMAIN mounted = LV
      /\ phase # "view" => \A l \in LV : mounted[l] = None
      /\ \A l \in LV : SegmentsListed(l) /\ (mounted[l] # None => MountedOnFirst(l))
  BY DEF LvmInv
<1>3. pvolumes' \in Seq(PV) /\ pvolumes' # <<>> /\ (pvolumes # <<>> => Head(pvolumes') = Head(pvolumes))
  <2>1. CASE p \in Range(pvolumes)
    <3>1. pvolumes # <<>>
      BY <2>1 DEF Range
    <3>2. QED
      BY <1>1, <1>2, <2>1, <3>1
  <2>2. CASE p \notin Range(pvolumes)
    BY <1>1, <1>2, <2>2, AppendProperties
  <2>3. QED
    BY <2>1, <2>2
<1>4. ASSUME NEW l \in LV
      PROVE  SegmentsListed(l)' /\ (mounted'[l] # None => MountedOnFirst(l)')
  <2> DEFINE old == segments[l]
             ms == meta.segments[l]
             new == [k \in DOMAIN ms |-> Parsed(ms[k])]
  <2>1. ms \in Seq(GroupSegment) /\ DOMAIN ms = 1 .. Len(ms) /\ Len(ms) \in Nat
    BY <1>2, SegmentsOf
  <2>2. /\ old \in Seq(ListSegment)
        /\ IF pvolumes = <<>> THEN old = <<>> ELSE DOMAIN ms \subseteq DOMAIN old
        /\ \A k \in DOMAIN old : \E n \in DOMAIN ms : SameExtents(old[k], ms[n])
        /\ \A k \in DOMAIN old \cap DOMAIN ms : SameExtents(old[k], ms[k])
    BY <1>2 DEF SegmentsListed, ListSegment
  <2>3. segments'[l] = old \o new
    BY <1>1
  <2> HIDE DEF ms
  <2>4. ASSUME NEW k \in DOMAIN ms
        PROVE  new[k] \in ListSegment /\ SameExtents(new[k], ms[k])
    <3>1. ms[k] \in GroupSegment
      BY <2>1, EntryOfSeq
    <3>2. QED
      BY <3>1 DEF GroupSegment, ListSegment, Parsed, SameExtents
  <2>5. new \in Seq(ListSegment) /\ Len(new) = Len(ms)
    <3>1. new \in [1 .. Len(ms) -> ListSegment]
      BY <2>1, <2>4
    <3>2. QED
      BY <2>1, <3>1
  <2>6. \A k \in DOMAIN ms : new[k] \in ListSegment /\ SameExtents(new[k], ms[k])
    BY <2>4
  <2> HIDE DEF new, old
  <2> DEFINE all == old \o new
  <2>7. /\ all \in Seq(ListSegment) /\ DOMAIN all = 1 .. Len(old) + Len(ms)
        /\ DOMAIN old = 1 .. Len(old) /\ Len(old) \in Nat
        /\ \A k \in DOMAIN all : all[k] = IF k <= Len(old) THEN old[k] ELSE new[k - Len(old)]
    <3>1. /\ all \in Seq(ListSegment) /\ Len(all) = Len(old) + Len(new)
          /\ \A k \in 1 .. Len(old) + Len(new) :
               all[k] = IF k <= Len(old) THEN old[k] ELSE new[k - Len(old)]
      BY <2>2, <2>5, ConcatProperties
    <3>2. DOMAIN all = 1 .. Len(all) /\ DOMAIN old = 1 .. Len(old) /\ Len(old) \in Nat
      BY <2>2, <3>1
    <3> HIDE DEF all
    <3>3. QED
      BY <2>5, <3>1, <3>2
  <2> HIDE DEF all
  <2>8. ASSUME NEW k \in DOMAIN all PROVE \E n \in DOMAIN ms : SameExtents(all[k], ms[n])
    <3>1. CASE k <= Len(old)
      <4>1. k \in DOMAIN old
        BY <2>1, <2>7, <3>1
      <4>2. QED
        BY <2>2, <2>7, <3>1, <4>1
    <3>2. CASE ~(k <= Len(old))
      <4>1. k - Len(old) \in DOMAIN ms
        BY <2>1, <2>7, <3>2
      <4>2. all[k] = new[k - Len(old)]
        BY <2>7, <3>2
      <4>3. QED
        BY <2>6, <4>1, <4>2
    <3>3. QED
      BY <3>1, <3>2
  <2>9. ASSUME NEW k \in DOMAIN ms PROVE k \in DOMAIN all /\ SameExtents(all[k], ms[k])
    <3>1. k \in DOMAIN all
      BY <2>1, <2>7
    <3>2. CASE pvolumes = <<>>
      <4>1. Len(old) = 0
        BY <2>2, <3>2
      <4>2. all[k] = new[k]
        BY <2>1, <2>7, <3>1, <4>1
      <4>3. QED
        BY <2>6, <3>1, <4>2
    <3>3. CASE pvolumes # <<>>
      <4>1. k \in DOMAIN old
        BY <2>2, <3>3
      <4>2. k <= Len(old)
        BY <2>7, <4>1
      <4>3. QED
        BY <2>2, <2>7, <3>1, <4>1, <4>2
    <3>4. QED
      BY <3>2, <3>3
  <2>10. SegmentsListed(l)'
    <3>1. segments'[l] = all /\ meta'.segments[l] = ms
      BY <2>3 DEF all, ms
    <3>2. QED
      BY <1>3, <2>7, <2>8, <2>9, <3>1 DEF SegmentsListed, SameExtents, ListSegment
  <2>11. ASSUME mounted'[l] # None PROVE MountedOnFirst(l)'
    <3>1. /\ pvolumes # <<>>
          /\ \A k \in DOMAIN ms : old[k].pvolume = Head(pvolumes)
          /\ mounted[l] = [handle |-> Head(pvolumes),
                           start |-> Base[Head(pvolumes)]
                             + Signed(((0 + ms[1].stripe_start_extent) * extent_size) % W)]
      BY <1>2, <2>11 DEF MountedOnFirst, old, ms
    <3>2. \A k \in DOMAIN ms : all[k] = old[k]
      <4>1. \A k \in DOMAIN ms : k \in DOMAIN old
        BY <2>2, <3>1
      <4>2. \A k \in DOMAIN old : k <= Len(old) /\ k \in DOMAIN all
        BY <2>1, <2>7
      <4>3. QED
        BY <2>7, <4>1, <4>2
    <3>3. extent_size' = extent_size
      BY <1>1, <1>2, <3>1
    <3>4. segments'[l] = all /\ meta'.segments[l] = ms /\ mounted'[l] = mounted[l]
      BY <2>3 DEF all, ms
    <3>5. Head(pvolumes') = Head(pvolumes)
      BY <1>3, <3>1
    <3>6. QED
      BY <1>3, <3>1, <3>2, <3>3, <3>4, <3>5 DEF MountedOnFirst
  <2>12. QED
    BY <2>10, <2>11
<1>5. DOMAIN segments' = LV
  BY <1>1
<1>6. Parses(meta.header)' /\ ExtentSize(meta.header)' = ExtentSize(meta.header)
  <2>1. meta' = meta
    OBVIOUS
  <2>2. QED
    BY <1>1, <2>1
<1>7. QED
  BY <1>1, <1>2, <1>3, <1>4, <1>5, <1>6 DEF LvmInv

\* logical_mount starts the partition of a volume at its first segment.
LEMMA LogicalMountInv ==
  ASSUME LvmInv, LogicalMount
  PROVE  LvmInv'
<1> DEFINE first == Head(pvolumes)
           mapped(l) == [k \in DOMAIN segments[l] |-> [segments[l][k] EXCEPT !.pvolume = first]]
           zero(l) == {k \in DOMAIN mapped(l) : mapped(l)[k].start_extent = 0}
           root(l) == mapped(l)[Max(zero(l))]
<1>1. /\ phase = "mount" /\ phase' = "view"
      /\ segments' = [l \in LV |-> mapped(l)]
      /\ UNCHANGED <<meta, extent_size, pvolumes>>
  BY DEF LogicalMount, FirstPV
<1>2. mounted' = [l \in LV |-> [handle |-> root(l).pvolume, start |-> Start(root(l))]]
  BY DEF LogicalMount, FirstPV
<1>3. /\ meta \in Metas /\ pvolumes \in Seq(PV) /\ pvolumes # <<>>
      /\ Parses(meta.header) /\ extent_size = ExtentSize(meta.header)
      /\ \A l \in LV : SegmentsListed(l)
  BY <1>1 DEF LvmInv
<1>4. first \in PV
  BY <1>3
<1> HIDE DEF first
<1>5. ASSUME NEW l \in LV PROVE SegmentsListed(l)' /\ MountedOnFirst(l)'
  <2> DEFINE old == segments[l]
             ms == meta.segments[l]
             map == mapped(l)
  <2>1. /\ ms \in Seq(GroupSegment) /\ 1 \in DOMAIN ms
        /\ \A k \in DOMAIN ms : Over(ms[k], 0) => k = 1
        /\ ms[1].start_extent = 0
    BY <1>3, SegmentsOf
  <2>2. /\ old \in Seq(ListSegment) /\ DOMAIN ms \subseteq DOMAIN old
        /\ \A k \in DOMAIN old : \E n \in DOMAIN ms : SameExtents(old[k], ms[n])
        /\ \A k \in DOMAIN old \cap DOMAIN ms : SameExtents(old[k], ms[k])
    BY <1>3 DEF SegmentsListed, ListSegment
  <2>3. map = [k \in DOMAIN old |-> [old[k] EXCEPT !.pvolume = first]]
    OBVIOUS
  <2>4. zero(l) = {k \in DOMAIN map : map[k].start_extent = 0} /\ root(l) = map[Max(zero(l))]
    OBVIOUS
  <2>5. segments'[l] = map /\ mounted'[l] = [handle |-> root(l).pvolume, start |-> Start(root(l))]
    BY <1>1, <1>2
  <2> HIDE DEF ms, old, map, mapped, zero, root
  <2>6. DOMAIN old = 1 .. Len(old) /\ Len(old) \in Nat
    BY <2>2
  <2>7. ASSUME NEW k \in DOMAIN old
        PROVE  /\ map[k] \in ListSegment /\ map[k].pvolume = first
               /\ map[k].start_extent = old[k].start_extent
               /\ map[k].extent_count = old[k].extent_count
               /\ map[k].stripe_start_extent = old[k].stripe_start_extent
    <3>1. old[k] \in ListSegment
      BY <2>2, EntryOfSeq
    <3>2. map[k] = [old[k] EXCEPT !.pvolume = first]
      BY <2>3
    <3>3. QED
      BY <1>4, <3>1, <3>2 DEF ListSegment
  <2>8. map \in Seq(ListSegment) /\ DOMAIN map = DOMAIN old
    <3>1. map \in [1 .. Len(old) -> ListSegment]
      BY <2>3, <2>6, <2>7
    <3>2. QED
      BY <2>6, <3>1
  <2>9. ASSUME NEW k \in DOMAIN map PROVE \E n \in DOMAIN ms : SameExtents(map[k], ms[n])
    BY <2>2, <2>7, <2>8 DEF SameExtents
  <2>10. ASSUME NEW k \in DOMAIN ms PROVE k \in DOMAIN map /\ SameExtents(map[k], ms[k])
    BY <2>2, <2>7, <2>8 DEF SameExtents
  <2>11. SegmentsListed(l)'
    <3>1. segments'[l] = map /\ meta'.segments[l] = ms /\ pvolumes' # <<>>
      BY <1>1, <1>3, <2>5 DEF ms
    <3>2. DOMAIN ms \subseteq DOMAIN map
      BY <2>10
    <3>3. QED
      BY <3>2, <2>8, <2>9, <2>10, <3>1 DEF SegmentsListed, SameExtents, ListSegment
  <2>12. PICK k \in DOMAIN map : root(l) = map[k] /\ map[k].start_extent = 0
    <3>1. 1 \in zero(l)
      BY <2>1, <2>4, <2>10 DEF SameExtents
    <3>2. zero(l) \subseteq 1 .. Len(old)
      BY <2>4, <2>6, <2>8
    <3>3. Max(zero(l)) \in zero(l)
      BY <2>6, <3>1, <3>2, MaxIsLast
    <3>4. QED
      BY <2>4, <3>3
  <2>13. root(l).stripe_start_extent = ms[1].stripe_start_extent
    <3>1. PICK n \in DOMAIN ms : SameExtents(map[k], ms[n])
      BY <2>9
    <3>2. map[k] \in ListSegment
      BY <2>7, <2>8
    <3>3. Over(ms[n], 0)
      BY <2>12, <3>1, <3>2 DEF Over, SameExtents, ListSegment
    <3>4. n = 1
      BY <2>1, <3>3
    <3>5. QED
      BY <2>12, <3>1, <3>4 DEF SameExtents
  <2>14. mounted'[l] = [handle |-> first,
                        start |-> Base[first]
                          + Signed(((0 + ms[1].stripe_start_extent) * extent_size) % W)]
    BY <2>5, <2>7, <2>8, <2>12, <2>13 DEF Start
  <2>15. \A n \in DOMAIN ms : map[n].pvolume = first
    BY <2>2, <2>7
  <2>16. MountedOnFirst(l)'
    <3>1. segments'[l] = map /\ meta'.segments[l] = ms /\ extent_size' = extent_size
      BY <1>1, <2>5 DEF ms
    <3>2. pvolumes' # <<>> /\ Head(pvolumes') = first
      BY <1>1, <1>3 DEF first
    <3>3. QED
      BY <2>14, <2>15, <3>1, <3>2 DEF MountedOnFirst
  <2>17. QED
    BY <2>11, <2>16
<1>6. DOMAIN segments' = LV /\ DOMAIN mounted' = LV
  BY <1>1, <1>2
<1>7. Parses(meta.header)' /\ ExtentSize(meta.header)' = ExtentSize(meta.header)
  BY <1>1, <1>3
<1>8. QED
  BY <1>1, <1>3, <1>5, <1>6, <1>7 DEF LvmInv

LEMMA GroupStepInv ==
  ASSUME LvmInv, [Next]_vars
  PROVE  LvmInv'
<1>1. CASE \E p \in PV : ScanPV(p) \/ OpenImage(p)
  <2>1. PICK p \in PV : ScanPV(p) \/ OpenImage(p)
    BY <1>1
  <2>2. Scanned(p) /\ UNCHANGED <<meta, phase, mounted>>
    BY <2>1 DEF ScanPV, OpenImage
  <2>3. QED
    BY <2>2, ScannedInv
<1>2. CASE LogicalMount
  BY <1>2, LogicalMountInv
<1>3. CASE ScanDone \/ UNCHANGED vars
  <2>1. /\ UNCHANGED <<meta, extent_size, pvolumes, segments, mounted>>
        /\ \/ phase' = phase
           \/ phase = "scan" /\ phase' = IF pvolumes = <<>> THEN "view" ELSE "mount"
    BY <1>3 DEF ScanDone, vars
  <2>2. \A l \in LV : /\ SegmentsListed(l)' <=> SegmentsListed(l)
                      /\ MountedOnFirst(l)' <=> MountedOnFirst(l)
    BY <2>1 DEF SegmentsListed, MountedOnFirst, SameExtents
  <2>3. Parses(meta.header)' <=> Parses(meta.header)
    BY <2>1
  <2>4. ExtentSize(meta.header)' = ExtentSize(meta.header)
    BY <2>1
  <2>5. QED
    BY <2>1, <2>2, <2>3, <2>4 DEF LvmInv
<1>4. QED
  BY <1>1, <1>2, <1>3 DEF Next

\* However often images with LVM2 on them are opened, a group keeps its extent size,
\* the list of each volume starts with the segments of the metadata, and a mounted
\* volume is on the PV that was found first.
THEOREM LvmInvariant == Spec => []LvmInv
<1>1. Init => LvmInv
  BY GroupInitInv
<1>2. LvmInv /\ [Next]_vars => LvmInv'
  BY GroupStepInv
<1>3. QED
  BY <1>1, <1>2, PTL DEF Spec

\* For a header of any length, with numbers of any number of digits within what
\* parse_metadata reckons with: the number it takes for the extent size is that.
THEOREM ExtentSizeIsExact == Spec => []ExtentSizeExact
<1>1. ASSUME LvmInv PROVE ExtentSizeExact
  <2> DEFINE header == meta.header
             Digits == 0 .. Radix - 1
             digits == ExtentDigits(header)
  <2>1. SUFFICES ASSUME pvolumes # <<>>,
                        Len(Head(header)) < Chars, Len(Last(header)) <= Chars,
                        \A k \in 2 .. Len(header) - 1 : Len(header[k]) < Chars - 1
                 PROVE  extent_size = StatedSize
    BY DEF ExtentSizeExact
  <2>2. header \in Seq(Seq(Digits) \ {<<>>}) /\ Len(header) >= 2 /\ Len(header) \in Nat
    <3>1. MetaFormat(meta)
      BY <1>1, MetaAssumption DEF LvmInv
    <3>2. QED
      BY <3>1 DEF MetaFormat
  <2>3. Chars \in Nat \ {0, 1}
    BY MetaAssumption
  <2>4. Len(digits) >= Chars - 1 /\ extent_size = ExtentSize(header)
    BY <1>1, <2>1 DEF LvmInv, Parses
  <2> HIDE DEF header
  <2>5. \A k \in 1 .. Len(header) : header[k] \in Seq(Digits) /\ header[k] # <<>>
    BY <2>2
  <2>6. /\ header[1] \in Seq(Digits) /\ header[1] # <<>>
        /\ header[2] \in Seq(Digits) /\ header[2] # <<>>
    BY <2>2, <2>5
  <2>7. Head(header) = header[1]
    BY <2>2
  <2>8. ~(Len(header[1]) > 1)
    <3>1. SUFFICES ASSUME Len(header[1]) > 1 PROVE FALSE
      OBVIOUS
    <3>2. digits = Tail(header[1])
      BY <3>1 DEF ExtentDigits
    <3>3. Len(Tail(header[1])) = Len(header[1]) - 1 /\ Len(header[1]) \in Nat
      BY <2>6
    <3>4. QED
      BY <2>1, <2>3, <2>4, <2>7, <3>2, <3>3
  <2>9. digits = header[2]
    BY <2>8 DEF ExtentDigits
  <2>10. Len(header) = 2
    <3>1. 2 \in 2 .. Len(header) - 1 => Len(header[2]) < Chars - 1
      BY <2>1
    <3>2. Len(header[2]) \in Nat
      BY <2>6
    <3>3. ~(2 \in 2 .. Len(header) - 1)
      BY <2>3, <2>4, <2>9, <3>1, <3>2
    <3>4. \A n \in Nat : n >= 2 /\ 2 \notin 2 .. n - 1 => n = 2
      OBVIOUS
    <3>5. QED
      BY <2>2, <3>3, <3>4
  <2>11. Last(header) = digits
    BY <2>9, <2>10 DEF Last
  <2>12. SubSeq(digits, 1, IF Len(digits) < Chars THEN Len(digits) ELSE Chars) = digits
    <3>1. digits \in Seq(Digits) /\ Len(digits) \in Nat
      BY <2>6, <2>9
    <3>2. (IF Len(digits) < Chars THEN Len(digits) ELSE Chars) = Len(digits)
      BY <2>1, <2>3, <2>11, <3>1
    <3>3. QED
      BY <3>1, <3>2, SubSeqFull
  <2>13. ExtentSize(header) = Number(digits)
    BY <2>12 DEF ExtentSize
  <2>14. StatedSize = Number(digits)
    BY <2>11 DEF StatedSize, header
  <2>15. QED
    BY <2>4, <2>13, <2>14
<1>2. QED
  BY <1>1, LvmInvariant, PTL

\* The place that LVM2 gives to a volume's first sector.
LEMMA FirstSector ==
  ASSUME meta \in Metas, NEW l \in LV
  PROVE  /\ StatedSize \in Nat \ {0}
         /\ LET s == meta.segments[l][1]
            IN  /\ s = Head(meta.segments[l]) /\ s \in GroupSegment
                /\ s.pv \in PV /\ Base[s.pv] \in Nat
                /\ Linear(l, 0) =
                     <<s.pv, Base[s.pv] + (s.stripe_start_extent + 0) * StatedSize>>
<1> DEFINE ms == meta.segments[l]
           s == ms[1]
           over == {t \in Range(ms) : Over(t, 0)}
<1>1. StatedSize \in Nat \ {0}
  BY MetaAssumption DEF MetaFormat, StatedSize
<1>2. /\ ms \in Seq(GroupSegment) /\ 1 \in DOMAIN ms /\ s.start_extent = 0
      /\ \A k \in DOMAIN ms : Over(ms[k], 0) => k = 1
  BY SegmentsOf
<1>3. s \in GroupSegment /\ s = Head(ms)
  BY <1>2
<1>4. Over(s, 0)
  BY <1>2, <1>3 DEF Over, GroupSegment
<1>5. (CHOOSE t \in Range(ms) : Over(t, 0)) = s
  <2>1. s \in Range(ms)
    BY <1>2 DEF Range
  <2>2. \A t \in Range(ms) : Over(t, 0) => t = s
    BY <1>2 DEF Range
  <2> HIDE DEF s
  <2>3. QED
    BY <1>4, <2>1, <2>2
<1>6. 0 \div StatedSize = 0 /\ 0 % StatedSize = 0
  BY <1>1
<1>7. Linear(l, 0) =
        <<s.pv, Base[s.pv] + (s.stripe_start_extent + 0 - s.start_extent) * StatedSize + 0>>
  BY <1>5, <1>6 DEF Linear
<1>8. s.pv \in PV /\ Base[s.pv] \in Nat
  <2>1. MetaFormat(meta) /\ Base \in [PV -> Nat]
    BY MetaAssumption
  <2>2. meta.pvs \in Seq(PV)
    BY <2>1 DEF MetaFormat
  <2>3. s.pv \in Range(meta.pvs)
    BY <1>3 DEF GroupSegment
  <2>4. \A x \in Range(meta.pvs) : x \in PV
    BY <2>2, EntryOfSeq DEF Range
  <2> HIDE DEF s
  <2>5. QED
    BY <2>1, <2>3, <2>4
<1>9. s.stripe_start_extent \in Nat
  BY <1>3 DEF GroupSegment
<1>10. ASSUME NEW b \in Nat, NEW at \in Nat, NEW size \in Nat
       PROVE  b + (at + 0 - 0) * size + 0 = b + (at + 0) * size
  <2>1. (at + 0 - 0) * size = at * size /\ (at + 0) * size = at * size /\ at * size \in Nat
    OBVIOUS
  <2>2. QED
    BY <2>1
<1> HIDE DEF s
<1>11. Linear(l, 0) =
         <<s.pv, Base[s.pv] + (s.stripe_start_extent + 0) * StatedSize>>
  BY <1>1, <1>2, <1>7, <1>8, <1>9, <1>10
<1>12. QED
  BY <1>1, <1>3, <1>8, <1>11 DEF s

\* A product below W / 2 is what the code makes of it.
LEMMA SignedSmall ==
  ASSUME NEW n \in Nat, 2 * n < W
  PROVE  Signed(n % W) = n
<1>1. W \in Nat \ {0}
  BY MetaAssumption
<1>2. n % W = n
  BY <1>1
<1>3. QED
  BY <1>2 DEF Signed

LEMMA SuperblockPlace == ASSUME LvmInv PROVE SuperblockFound
<1>1. SUFFICES ASSUME NEW l \in LV, mounted[l] # None, extent_size = StatedSize,
                      Head(meta.segments[l]).pv = Head(pvolumes),
                      2 * (Head(meta.segments[l]).stripe_start_extent * StatedSize) < W
               PROVE  Linear(l, 0) = <<mounted[l].handle, mounted[l].start>>
  BY DEF SuperblockFound
<1> DEFINE s == meta.segments[l][1]
           at == s.stripe_start_extent
           start == Base[Head(pvolumes)] + Signed(((0 + at) * extent_size) % W)
<1>2. meta \in Metas /\ mounted[l] = [handle |-> Head(pvolumes), start |-> start]
  BY <1>1 DEF LvmInv, MountedOnFirst
<1>3. /\ s = Head(meta.segments[l]) /\ s \in GroupSegment
      /\ Linear(l, 0) = <<s.pv, Base[s.pv] + (at + 0) * StatedSize>>
  BY <1>2, FirstSector
<1>4. at \in Nat /\ 0 + at = at /\ at + 0 = at /\ StatedSize \in Nat
  BY <1>2, <1>3, FirstSector DEF GroupSegment
<1>5. 2 * (at * StatedSize) < W
  BY <1>1, <1>3
<1> HIDE DEF at, s
<1>6. at * StatedSize \in Nat
  BY <1>4
<1>7. Signed((at * StatedSize) % W) = at * StatedSize
  BY <1>5, <1>6, SignedSmall
<1>8. start = Base[s.pv] + (at + 0) * StatedSize
  BY <1>1, <1>3, <1>4, <1>7
<1> HIDE DEF start
<1>9. mounted[l].handle = s.pv /\ mounted[l].start = start
  BY <1>1, <1>2, <1>3
<1>10. QED
  BY <1>3, <1>8, <1>9

\* The superblock of a volume is looked for in its first sector, when that is less
\* than W / 2 sectors behind the first extent of the PV that was found first.
THEOREM SuperblockIsFound == Spec => []SuperblockFound
<1>1. LvmInv => SuperblockFound
  BY SuperblockPlace
<1>2. QED
  BY <1>1, LvmInvariant, PTL

\* An extent of a volume of one segment, and the sectors in it.
LEMMA ExtentOfSector ==
  ASSUME NEW size \in Nat \ {0}, NEW count \in Nat, NEW sector \in 0 .. count * size - 1
  PROVE  /\ sector \div size \in Nat /\ sector \div size < count
         /\ (sector \div size) * size \in Nat /\ (sector \div size) * size < count * size
         /\ sector % size \in Nat
<1>1. /\ sector \in Int /\ count * size \in Nat /\ sector < count * size /\ 0 <= sector
      /\ count * size = size * count
  OBVIOUS
<1>2. PICK q \in Int, r \in Nat :
        q = sector \div size /\ r = sector % size /\ size * q <= sector /\ sector < size * q + size
  BY <1>1, DivMod
<1>3. q \in Nat /\ q * size = size * q /\ size * q \in Nat
  <2>1. q < 0 => size * q + size <= 0
    OBVIOUS
  <2>2. q >= 0
    BY <1>1, <1>2, <2>1
  <2>3. QED
    BY <1>2, <2>2
<1>4. q < count
  <2>1. SUFFICES ASSUME count <= q PROVE FALSE
    BY <1>3
  <2>2. PICK c \in Nat : q = count + c
    BY <1>3, <2>1
  <2>3. size * q = size * count + size * c /\ size * c \in Nat /\ size * count \in Nat
    BY <2>2
  <2>4. QED
    BY <1>1, <1>2, <2>3
<1>5. QED
  BY <1>1, <1>2, <1>3, <1>4

\* Of the segments that an extent is in, the first counts.
LEMMA FirstOver ==
  ASSUME NEW S, S \subseteq Nat \ {0}, 1 \in S
  PROVE  Min(S) = 1
<1>1. Min(S) \in S /\ Min(S) <= 1
  BY MinIsFirst
<1>2. \A m \in Nat \ {0} : m <= 1 => m = 1
  OBVIOUS
<1>3. QED
  BY <1>1, <1>2

\* A volume of one segment at the start of the PV that was found first is read where
\* it is, whatever the sizes, as long as it is smaller than W sectors.
THEOREM SimpleVolumeIsExact == Spec => []SimpleVolumeExact
<1>1. ASSUME LvmInv PROVE SimpleVolumeExact
  <2> DEFINE size == StatedSize
             first == Head(pvolumes)
             Handle(l) == mounted[l].handle
  <2>1. SUFFICES ASSUME NEW l \in LV, mounted[l] # None, extent_size = size,
                        ExtentsOf(meta.segments[l]) * size <= W,
                        Len(meta.segments[l]) = 1, Head(meta.segments[l]).stripe_start_extent = 0,
                        Head(meta.segments[l]).pv = first
                 PROVE  /\ Linear(l, 0) = <<Handle(l), mounted[l].start>>
                        /\ \A sector \in Sectors(l) :
                             Linear(l, sector) = <<Handle(l), lvm_mapper(l, sector)>>
    BY DEF SimpleVolumeExact
  <2>2. Linear(l, 0) = <<Handle(l), mounted[l].start>>
    <3>1. StatedSize \in Nat /\ W \in Nat \ {0}
      BY <1>1, FirstSector, MetaAssumption DEF LvmInv
    <3>2. 2 * (0 * StatedSize) < W
      BY <3>1
    <3>3. QED
      BY <1>1, <2>1, <3>2, SuperblockPlace DEF SuperblockFound
  <2> DEFINE ms == meta.segments[l]
             s == ms[1]
  <2>3. /\ meta \in Metas /\ Handle(l) = first /\ pvolumes \in Seq(PV) /\ pvolumes # <<>>
        /\ \A k \in DOMAIN ms : segments[l][k].pvolume = first
        /\ SegmentsListed(l)
    BY <1>1, <2>1 DEF LvmInv, MountedOnFirst
  <2>4. /\ ms \in Seq(GroupSegment) /\ 1 \in DOMAIN ms /\ s.start_extent = 0
        /\ s = Head(ms) /\ s \in GroupSegment /\ size \in Nat \ {0}
        /\ s.pv \in PV /\ Base[s.pv] \in Nat
    BY <2>3, SegmentsOf, FirstSector
  <2>5. s.extent_count \in Nat /\ s.stripe_start_extent = 0 /\ s.pv = first
    BY <2>1, <2>4 DEF GroupSegment
  <2>6. ExtentsOf(ms) = s.extent_count
    BY <2>1, <2>4, <2>5 DEF ExtentsOf, Last
  <2>7. Range(ms) = {s}
    <3>1. DOMAIN ms = {1}
      BY <2>1, <2>4
    <3>2. QED
      BY <3>1 DEF Range
  <2>8. first # None /\ W \in Nat \ {0}
    BY <2>4, <2>5, MetaAssumption
  <2>9. /\ segments[l] \in Seq(ListSegment) /\ 1 \in DOMAIN segments[l]
        /\ SameExtents(segments[l][1], s) /\ segments[l][1].pvolume = first
    BY <2>3, <2>4 DEF SegmentsListed, ListSegment
  <2> HIDE DEF size, first, Handle, s, ms
  <2>10. ASSUME NEW sector \in Sectors(l)
         PROVE  Linear(l, sector) = <<Handle(l), lvm_mapper(l, sector)>>
    <3> DEFINE q == sector \div size
               r == sector % size
               over == {k \in DOMAIN segments[l] : Over(segments[l][k], q)}
               seg == segments[l][Min(over)]
    <3>1. sector \in 0 .. s.extent_count * size - 1
      BY <2>6 DEF Sectors, size, ms
    <3>2. q \in Nat /\ q < s.extent_count /\ q * size \in Nat /\ q * size < s.extent_count * size
          /\ r \in Nat
      BY <2>4, <2>5, <3>1, ExtentOfSector
    <3>3. s.extent_count * size <= W /\ s.extent_count * size \in Nat
      BY <2>1, <2>4, <2>5, <2>6 DEF ms
    <3> HIDE DEF q, r
    <3>4. (q * size) % W = q * size
      <4>1. PICK n \in Nat : n = q * size
        BY <3>2
      <4>2. n < W
        BY <2>8, <3>2, <3>3, <4>1
      <4>3. n % W = n
        BY <2>8, <4>2
      <4>4. QED
        BY <4>1, <4>3
    <3>5. Over(s, q)
      BY <2>4, <2>5, <3>2 DEF Over
    <3>6. Linear(l, sector) =
            <<s.pv, Base[s.pv] + (s.stripe_start_extent + q - s.start_extent) * size + r>>
      <4>1. (CHOOSE t \in Range(ms) : Over(t, q)) = s
        BY <2>7, <3>5
      <4>2. QED
        BY <4>1 DEF Linear, q, r, size, ms
    <3>7. Min(over) = 1 /\ over # {}
      <4>1. 1 \in over
        BY <2>9, <3>5 DEF Over, SameExtents
      <4>2. over \subseteq Nat \ {0}
        BY <2>9
      <4>3. QED
        BY <4>1, <4>2, FirstOver
    <3>8. seg.pvolume = first /\ seg.stripe_start_extent = s.stripe_start_extent
      BY <2>9, <3>7 DEF SameExtents
    <3>9. lvm_mapper(l, sector) =
            ((q * extent_size) % W) + r + Base[seg.pvolume] + seg.stripe_start_extent
      <4>1. q = sector \div extent_size /\ r = sector % extent_size
        BY <2>1 DEF q, r
      <4>2. seg.pvolume # None
        BY <2>8, <3>8
      <4> HIDE DEF seg
      <4>3. QED
        BY <3>7, <4>1, <4>2 DEF lvm_mapper, seg
    <3> HIDE DEF seg
    <3>10. lvm_mapper(l, sector) = q * size + r + Base[first] + 0
      BY <2>1, <2>5, <3>4, <3>8, <3>9
    <3>11. Linear(l, sector) = <<first, Base[first] + (0 + q - 0) * size + r>>
      BY <2>4, <2>5, <3>6
    <3>12. Base[first] + (0 + q - 0) * size + r = q * size + r + Base[first] + 0
      <4>1. Base[first] \in Nat
        BY <2>4, <2>5
      <4>2. 0 + q - 0 = q
        BY <3>2
      <4>3. QED
        BY <3>2, <4>1, <4>2
    <3>13. QED
      BY <2>3, <3>10, <3>11, <3>12
  <2>11. QED
    BY <2>2, <2>10
<1>2. QED
  BY <1>1, LvmInvariant, PTL

\* An image that is opened, also the copy of a disk of the group, leaves every sector
\* of every mounted volume where it was.
THEOREM MountedVolumesStay == Spec => ImagesMoveNothing
<1> DEFINE Stays == \A l \in LV : mounted[l] # None =>
                      /\ mounted'[l] = mounted[l]
                      /\ \A sector \in Sectors(l) :
                           lvm_mapper(l, sector)' = lvm_mapper(l, sector)
<1>1. ASSUME LvmInv, LvmInv', Next PROVE Stays
  <2>1. SUFFICES ASSUME NEW l \in LV, mounted[l] # None
                 PROVE  /\ mounted'[l] = mounted[l]
                        /\ \A sector \in Sectors(l) :
                             lvm_mapper(l, sector)' = lvm_mapper(l, sector)
    OBVIOUS
  <2>2. phase = "view"
    BY <1>1, <2>1 DEF LvmInv
  <2>3. PICK p \in PV : OpenImage(p)
    BY <1>1, <2>2 DEF Next, ScanPV, ScanDone, LogicalMount
  <2> DEFINE old == segments[l]
             all == segments'[l]
             ms == meta.segments[l]
             new == [k \in DOMAIN ms |-> Parsed(ms[k])]
  <2>4. /\ mounted' = mounted /\ meta' = meta
        /\ extent_size' = ExtentSize(meta.header)
        /\ segments' = [j \in LV |-> segments[j] \o [k \in DOMAIN meta.segments[j] |->
                                                     Parsed(meta.segments[j][k])]]
    BY <2>3 DEF OpenImage, Scanned, PushBack
  <2>5. all = old \o new
    BY <2>4
  <2>6. pvolumes # <<>> /\ extent_size = ExtentSize(meta.header)
    BY <1>1, <2>1 DEF LvmInv, MountedOnFirst
  <2>7. extent_size' = extent_size
    BY <2>4, <2>6
  <2>8. /\ old \in Seq(ListSegment) /\ DOMAIN ms \subseteq DOMAIN old
        /\ \A k \in DOMAIN old \cap DOMAIN ms : SameExtents(old[k], ms[k])
    BY <1>1, <2>6 DEF LvmInv, SegmentsListed, ListSegment
  <2>9. /\ all \in Seq(ListSegment)
        /\ \A k \in DOMAIN all : \E n \in DOMAIN ms : SameExtents(all[k], ms[n])
    <3>1. SegmentsListed(l)'
      BY <1>1 DEF LvmInv
    <3>2. meta'.segments[l] = ms
      BY <2>4
    <3> HIDE DEF ms
    <3>3. QED
      BY <3>1, <3>2 DEF SegmentsListed, SameExtents, ListSegment
  <2> HIDE DEF ms
  <2>10. /\ DOMAIN old = 1 .. Len(old) /\ Len(old) \in Nat /\ DOMAIN all = 1 .. Len(all)
         /\ Len(all) \in Nat
    BY <2>8, <2>9
  <2>11. DOMAIN old \subseteq DOMAIN all /\ \A k \in DOMAIN old : all[k] = old[k]
    BY <2>5, <2>8, <2>9, <2>10
  <2> HIDE DEF old, all, new
  <2>12. ASSUME NEW sector \in Sectors(l)
         PROVE  lvm_mapper(l, sector)' = lvm_mapper(l, sector)
    <3> DEFINE q == sector \div extent_size
               over == {k \in DOMAIN old : Over(old[k], q)}
               after == {k \in DOMAIN all : Over(all[k], q)}
    <3> HIDE DEF q
    <3>1. over \subseteq after /\ after \cap DOMAIN old \subseteq over
      BY <2>11
    <3>2. over = {} => after = {}
      <4>1. SUFFICES ASSUME NEW k \in after PROVE \E n \in over : TRUE
        OBVIOUS
      <4>2. PICK n \in DOMAIN ms : SameExtents(all[k], ms[n])
        BY <2>9, <4>1
      <4>3. n \in DOMAIN old /\ SameExtents(old[n], ms[n])
        BY <2>8
      <4>4. Over(old[n], q)
        BY <4>1, <4>2, <4>3 DEF Over, SameExtents
      <4>5. QED
        BY <4>3, <4>4
    <3>3. ASSUME over # {}
          PROVE  Min(after) = Min(over) /\ Min(over) \in DOMAIN old /\ after # {}
      <4>1. over \subseteq Nat /\ after \subseteq Nat /\ after # {}
        BY <2>10, <3>1, <3>3
      <4>2. Min(over) \in over /\ \A j \in over : Min(over) <= j
        BY <3>3, <4>1, MinIsFirst
      <4>3. Min(after) \in after /\ \A j \in after : Min(after) <= j
        BY <4>1, MinIsFirst
      <4>4. Min(after) <= Min(over)
        BY <3>1, <4>2, <4>3
      <4>5. Min(after) \in over
        BY <2>10, <3>1, <4>2, <4>3, <4>4
      <4>6. QED
        BY <4>1, <4>2, <4>4, <4>5
    <3>4. lvm_mapper(l, sector) =
            LET seg == old[Min(over)]
            IN  IF over = {} THEN 0
                ELSE IF seg.pvolume = None THEN None
                ELSE ((q * extent_size) % W) + (sector % extent_size)
                     + Base[seg.pvolume] + seg.stripe_start_extent
      BY DEF lvm_mapper, old, q
    <3>5. lvm_mapper(l, sector)' =
            LET seg == all[Min(after)]
            IN  IF after = {} THEN 0
                ELSE IF seg.pvolume = None THEN None
                ELSE ((q * extent_size) % W) + (sector % extent_size)
                     + Base[seg.pvolume] + seg.stripe_start_extent
      BY <2>7 DEF lvm_mapper, all, q
    <3> HIDE DEF over, after
    <3>6. CASE over = {}
      BY <3>2, <3>4, <3>5, <3>6
    <3>7. CASE over # {}
      <4>1. all[Min(after)] = old[Min(over)]
        BY <2>11, <3>3, <3>7
      <4>2. QED
        BY <3>3, <3>4, <3>5, <3>7, <4>1
    <3>8. QED
      BY <3>6, <3>7
  <2>13. QED
    BY <2>4, <2>12
<1>2. LvmInv /\ LvmInv' /\ [Next]_vars => [Stays]_vars
  BY <1>1
<1>3. QED
  BY <1>2, LvmInvariant, PTL DEF Spec, ImagesMoveNothing
===============================================================================
