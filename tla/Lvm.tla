--------------------------------- MODULE Lvm ---------------------------------
(***************************************************************************)
(* The LVM2 support (lvm.cpp): scan_pv and parse_metadata for each         *)
(* physical volume (PV) that a scan meets, logical_mount at the end of     *)
(* scan_system, and lvm_mapper, through which the partition of a logical   *)
(* volume (LV) reads its sectors.                                          *)
(*                                                                         *)
(* One volume group (VG): those with other uuids share nothing with it.    *)
(* The text of the metadata is the record meta: the numbers in its header, *)
(* digit by digit, the PVs of the group in their order and the segments of *)
(* each LV.  A PV is known by its uuid; pe_start and offset are summed up  *)
(* in Base.                                                                *)
(***************************************************************************)
EXTENDS Integers, Sequences, SequencesExt, FiniteSetsExt

CONSTANTS
  PV,          \* the physical volumes
  LV,          \* the logical volumes
  Metas,       \* the metadata to consider
  Radix,       \* 10
  Chars,       \* 5: the characters taken for extent_size
  Base,        \* Base[p]: the sector of p's disk where its extents start
  W,           \* 2^32: products with extent_size are computed in uint32_t
  MaxLoops,    \* bound on loops
  None

Number(digits) == FoldLeft(LAMBDA n, d : n * Radix + d, 0, digits)

Over(s, extent) == s.start_extent <= extent /\ extent < s.start_extent + s.extent_count
ExtentsOf(segs) == Last(segs).start_extent + Last(segs).extent_count

\* What the format says of the metadata: the extent size, the last number in the
\* header, is not 0, and each extent of an LV is in one of its segments, the first
\* in the first.
MetaFormat(m) ==
  /\ m.header \in Seq(Seq(0 .. Radix - 1) \ {<<>>}) /\ Len(m.header) >= 2
  /\ Number(Last(m.header)) \in Nat \ {0}
  /\ m.pvs \in Seq(PV)
  /\ m.segments \in [LV -> Seq([start_extent : Nat, extent_count : Nat \ {0},
                                pv : Range(m.pvs), stripe_start_extent : Nat])]
  /\ \A l \in LV :
       LET segs == m.segments[l]
       IN  /\ segs # <<>> /\ segs[1].start_extent = 0
           /\ \A extent \in 0 .. ExtentsOf(segs) - 1 :
                \E k \in DOMAIN segs : \A n \in DOMAIN segs : Over(segs[n], extent) <=> n = k

ASSUME MetaAssumption ==
  /\ Radix \in Nat \ {0, 1} /\ Chars \in Nat \ {0, 1} /\ W \in Nat \ {0} /\ Base \in [PV -> Nat]
  /\ None \notin PV
  /\ \A m \in Metas : MetaFormat(m)

VARIABLES
  meta,      \* the group's metadata, the same on each of its PVs
  phase,     \* "scan" (the disks of scan_system), "mount", "view"
  extent_size,  \* of the group, 0 as long as there is none
  pvolumes,  \* the list of the PVs found, as the PVs
  segments,  \* segments[l]: the list of l's segments
  mounted,   \* mounted[l]: the partition made for l as [handle, start], or None
  loops      \* disk images opened since, counted

vars == <<meta, phase, extent_size, pvolumes, segments, mounted, loops>>

Init ==
  /\ meta \in Metas
  /\ phase = "scan"
  /\ extent_size = 0
  /\ pvolumes = <<>>
  /\ segments = [l \in LV |-> <<>>]
  /\ mounted = [l \in LV |-> None]
  /\ loops = 0

\* parse_metadata takes seqno for one digit and looks for extent_size behind it:
\* at the next digit, wherever that is, it takes Chars characters for the number.
ExtentDigits(header) == IF Len(header[1]) > 1 THEN Tail(header[1]) ELSE header[2]

ParsesUnchecked(header) == TRUE      \* mutant: ok is not looked at
\* toInt wants nothing but digits and one white space at the end.
Parses(header) == Len(ExtentDigits(header)) >= Chars - 1
ExtentSize(header) ==
  LET digits == ExtentDigits(header)
  IN  Number(SubSeq(digits, 1, IF Len(digits) < Chars THEN Len(digits) ELSE Chars))

\* parse_metadata makes a segment: pvolumes is set when the volume is mounted,
\* and the PV that the text names is not kept.
Parsed(s) ==
  [start_extent |-> s.start_extent, extent_count |-> s.extent_count,
   stripe_start_extent |-> s.stripe_start_extent, pvolume |-> None]

AddOnce(p) == IF p \in Range(pvolumes) THEN pvolumes ELSE Append(pvolumes, p)

PushFront(list, new) == new \o list     \* mutant: push_front
PushBack(list, new) == list \o new

\* scan_pv with its parse_metadata, which gives up when it cannot read the header
\* and finds or adds the group otherwise: of the PVs in the metadata the one whose
\* label was read is added; the segments of every LV are, also when they are there.
Scanned(p) ==
  /\ p \in Range(meta.pvs) /\ Parses(meta.header)
  /\ extent_size' = ExtentSize(meta.header)
  /\ pvolumes' = AddOnce(p)
  /\ segments' =
       [l \in LV |-> PushBack(segments[l],
                              [i \in DOMAIN meta.segments[l] |-> Parsed(meta.segments[l][i])])]

\* The system scan meets p, in the order of the disks; a PV whose label or header
\* cannot be read is passed over.
ScanPV(p) ==
  /\ phase = "scan" /\ p \notin Range(pvolumes)
  /\ Scanned(p)
  /\ UNCHANGED <<meta, phase, mounted, loops>>

\* scan_system goes on to the volume groups, when there are any.
ScanDone ==
  /\ phase = "scan"
  /\ phase' = IF pvolumes = <<>> THEN "view" ELSE "mount"
  /\ UNCHANGED <<meta, extent_size, pvolumes, segments, mounted, loops>>

\* logical_mount: every segment gets the PV at index stripe_pv, which is 0; the
\* partition starts at the last segment of the list that has start_extent 0.
FirstPVLast == Last(pvolumes)           \* mutant: the list is counted from its end
FirstPV == Head(pvolumes)
\* The offset is a uint32_t product put into an int; a sum below 0 is, as the
\* unsigned start of a partition, a sector beyond every disk.
Signed(n) == IF 2 * n < W THEN n ELSE n - W
StartUnplaced(s) == Base[s.pvolume] + Signed((s.start_extent * extent_size) % W)    \* mutant
Start(s) ==
  LET off == Signed(((s.start_extent + s.stripe_start_extent) * extent_size) % W)
  IN  Base[s.pvolume] + off
LogicalMount ==
  LET mapped == [l \in LV |-> [i \in DOMAIN segments[l] |->
                                 [segments[l][i] EXCEPT !.pvolume = FirstPV]]]
  IN  /\ phase = "mount"
      /\ segments' = mapped
      /\ mounted' =
           [l \in LV |->
              LET root == mapped[l][Max({k \in DOMAIN mapped[l] : mapped[l][k].start_extent = 0})]
              IN  [handle |-> root.pvolume, start |-> Start(root)]]
      /\ phase' = "view"
      /\ UNCHANGED <<meta, extent_size, pvolumes, loops>>

\* add_loopback: an image may hold a PV, one of the group or the copy of one.
\* Nothing is mounted.
OpenImage(p) ==
  /\ phase = "view" /\ loops < MaxLoops
  /\ Scanned(p)
  /\ loops' = loops + 1
  /\ UNCHANGED <<meta, phase, mounted>>

Next ==
  \/ \E p \in PV : ScanPV(p) \/ OpenImage(p)
  \/ ScanDone \/ LogicalMount

Spec == Init /\ [][Next]_vars

-----------------------------------------------------------------------------
(* lvm_mapper                                                              *)

\* The sector of the partition's disk that is read for sector of l, by the first
\* segment that its extent is in; 0 without one, and none at all when the PV of the
\* segment is a null pointer.
lvm_mapper(l, sector) ==
  LET extent_no == sector \div extent_size
      over == {k \in DOMAIN segments[l] : Over(segments[l][k], extent_no)}
      seg == segments[l][Min(over)]
  IN  IF over = {} THEN 0
      ELSE IF seg.pvolume = None THEN None
      ELSE ((extent_no * extent_size) % W) + (sector % extent_size)
           + Base[seg.pvolume] + seg.stripe_start_extent

-----------------------------------------------------------------------------
(* Properties *)

\* The extent size that the metadata states, and the sectors of a volume.
StatedSize == Number(Last(meta.header))
Sectors(l) == 0 .. ExtentsOf(meta.segments[l]) * StatedSize - 1

\* The place LVM2 gives to a sector of a linear volume: a PV and a sector.
Linear(l, sector) ==
  LET extent == sector \div StatedSize
      s == CHOOSE t \in Range(meta.segments[l]) : Over(t, extent)
  IN  <<s.pv, Base[s.pv] + (s.stripe_start_extent + extent - s.start_extent) * StatedSize
                + (sector % StatedSize)>>

\* Opening a disk image with LVM2 on it does not move the sectors of a volume
\* that is mounted, also when the image is a copy of one of its own disks.
ImagesMoveNothing ==
  [][\A l \in LV : mounted[l] # None =>
       /\ mounted'[l] = mounted[l]
       /\ \A sector \in Sectors(l) : lvm_mapper(l, sector)' = lvm_mapper(l, sector)]_vars

\* A group that is found has the extent size its metadata states, unless seqno, a
\* number behind it or the extent size has more digits than parse_metadata reckons
\* with: a short number that stands between the two, and a seqno of 10 or more, keep
\* the group from being found, they do not give it a wrong size.
ExtentSizeExact ==
  /\ pvolumes # <<>>
  /\ Len(Head(meta.header)) < Chars /\ Len(Last(meta.header)) <= Chars
  /\ \A k \in 2 .. Len(meta.header) - 1 : Len(meta.header[k]) < Chars - 1
  => extent_size = StatedSize

\* What the mapping is right for: the volume below 2^32 sectors that starts at the
\* first extent of the PV that was found first, in one segment, in a group whose
\* extent size was understood.  Its partition starts there too.
SimpleVolumeExact ==
  \A l \in LV :
    LET s == Head(meta.segments[l])
    IN  /\ mounted[l] # None /\ extent_size = StatedSize /\ ExtentsOf(meta.segments[l]) * StatedSize <= W
        /\ Len(meta.segments[l]) = 1 /\ s.stripe_start_extent = 0 /\ s.pv = Head(pvolumes)
        => /\ Linear(l, 0) = <<mounted[l].handle, mounted[l].start>>
           /\ \A sector \in Sectors(l) :
                Linear(l, sector) = <<mounted[l].handle, lvm_mapper(l, sector)>>

\* The superblock of a volume is looked for where the volume starts, on the PV that
\* was found first and less than 2^31 sectors behind its first extent.  From there
\* on the offset does not fit its int (lvm.cpp:418) and the volume is not found.
SuperblockFound ==
  \A l \in LV :
    LET s == Head(meta.segments[l])
    IN  /\ mounted[l] # None /\ extent_size = StatedSize /\ s.pv = Head(pvolumes)
        /\ 2 * (s.stripe_start_extent * StatedSize) < W
        => Linear(l, 0) = <<mounted[l].handle, mounted[l].start>>

-----------------------------------------------------------------------------
(* The inductive invariant behind the theorems of LvmProofs.               *)

SameExtents(seg, s) ==
  /\ seg.start_extent = s.start_extent /\ seg.extent_count = s.extent_count
  /\ seg.stripe_start_extent = s.stripe_start_extent

\* The list of l starts with the segments of the metadata, and goes on with nothing
\* but copies of them.
SegmentsListed(l) ==
  /\ segments[l] \in Seq([start_extent : Nat, extent_count : Nat \ {0},
                          stripe_start_extent : Nat, pvolume : PV \cup {None}])
  /\ IF pvolumes = <<>> THEN segments[l] = <<>>
     ELSE DOMAIN meta.segments[l] \subseteq DOMAIN segments[l]
  /\ \A k \in DOMAIN segments[l] :
       \E n \in DOMAIN meta.segments[l] : SameExtents(segments[l][k], meta.segments[l][n])
  /\ \A k \in DOMAIN segments[l] \cap DOMAIN meta.segments[l] :
       SameExtents(segments[l][k], meta.segments[l][k])

\* A mounted volume is on the PV that was found first.
MountedOnFirst(l) ==
  /\ pvolumes # <<>>
  /\ \A k \in DOMAIN meta.segments[l] : segments[l][k].pvolume = Head(pvolumes)
  /\ mounted[l] = [handle |-> Head(pvolumes),
                   start |-> Base[Head(pvolumes)]
                     + Signed(((0 + meta.segments[l][1].stripe_start_extent) * extent_size) % W)]

LvmInv ==
  /\ meta \in Metas /\ phase \in {"scan", "mount", "view"}
  /\ pvolumes \in Seq(PV)
  /\ pvolumes # <<>> => Parses(meta.header) /\ extent_size = ExtentSize(meta.header)
  /\ DOMAIN segments = LV /\ DOMAIN mounted = LV
  /\ phase # "view" => \A l \in LV : mounted[l] = None
  /\ phase = "mount" => pvolumes # <<>>
  /\ \A l \in LV : SegmentsListed(l) /\ (mounted[l] # None => MountedOnFirst(l))
===============================================================================
