-------------------------------- MODULE Scan --------------------------------
(***************************************************************************)
(* How partitions are found: scan_system with scan_partitions, scan_ebr    *)
(* and scan_gpt for every disk, add_loopback for a disk image              *)
(* (ext2read.cpp), get_ndisks and get_nthdevice with its static counter    *)
(* (platform_win32.c), and what the main window shows of the result        *)
(* (init_root_fs, ext2explore.cpp).                                        *)
(*                                                                         *)
(* A disk is given by its layout; Ebr and TableSector are the sectors that *)
(* the on-disk formats make of it.  Whether an ext2 file system mounts at  *)
(* a sector is module Mount's; here it is in the set fs or it is not.      *)
(***************************************************************************)
EXTENDS Integers, Sequences, SequencesExt, FiniteSets

CONSTANTS
  Machines,  \* the disks that may be attached, by the numbers of the physical
             \* drives; None where a drive cannot be opened
  Images,    \* the files that may be opened as disk images
  Content,   \* Content[f]: the disk in image file f
  Letters,   \* 256: the number of a disk becomes a char in the names
  EPS,       \* entries_per_sector of a GUID partition table
  MaxDrives, \* drives that get_ndisks can count: 10, the number is one digit
  MaxRounds, \* bound on the EBRs read in one scan_ebr
  MaxImages, \* bound on the images opened between two scans
  None

Entry(type) == [type : type, start : Nat]
Disk == [mbr       : {"good", "unreadable", "short", "no flag"},
         table     : Seq(Entry({"none", "ext2", "lvm", "extended", "gpt", "other"})),
         logical   : Seq([ebr : Nat, type : {"ext2", "lvm", "other"}, start : Nat]),
         back      : Nat,             \* the EBR the last one leads to: 0, none
         gpt       : Seq(Entry({"none", "linux", "other"})),
         lost      : SUBSET Nat,      \* sectors that cannot be read
         fs        : SUBSET Nat]      \* sectors at which a partition mounts

\* A disk has at most one extended partition, which starts with the first EBR;
\* in front of a GUID partition table the MBR has no other entry.
Layouts ==
  {d \in Disk :
     LET Of(type) == {e \in 1 .. 4 : d.table[e].type = type}
     IN  /\ Len(d.table) = 4
         /\ \A e, f \in Of("extended") : e = f
         /\ \A e \in Of("extended") :
              /\ d.logical # <<>> /\ d.logical[1].ebr = d.table[e].start
              /\ \A j, k \in DOMAIN d.logical : d.logical[j].ebr = d.logical[k].ebr => j = k
              /\ d.back \in 0 .. Len(d.logical) /\ Len(d.logical) < MaxRounds
         /\ \A g \in Of("gpt"), n \in 1 .. 4 : n = g \/ d.table[n].type = "none"}

ASSUME DiskAssumption ==
  Machines \subseteq Seq(Layouts \cup {None}) /\ None \notin Layouts
ASSUME ImageAssumption == Content \in [Images -> Layouts] /\ None \notin Images
ASSUME LetterAssumption == Letters \in Nat \ {0} /\ MaxDrives <= Letters
ASSUME SizeAssumption ==
  EPS \in Nat \ {0} /\ MaxDrives \in Nat /\ MaxRounds \in Nat /\ MaxImages \in Nat

VARIABLES
  machine,  \* the disks that are attached
  dev,      \* the static counter of get_nthdevice
  ndisks,
  pc,       \* "disks" (the loop of scan_system), "mbr", "primary", "ebr", "gpt",
            \* "scanned" (scan_partitions has returned), "view"
  diskno,   \* the number of the disk that is scanned, which gives the names
  handle,   \* what is open: [no, disk, file], no = -1 for an image, else file = None
  ret,      \* what scan_partitions returned
  i,        \* its loop variable
  ebr,      \* scan_ebr: [base, ebr2, logical]
  entry,    \* scan_gpt: the entries of the table looked at so far (i + j)
  nparts,   \* the partitions found, as [no, start, slot, file]: slot is the number of
            \* its disk and its own on the disk; file, for an image that is not
            \* partitioned, that of the image
  volumes,  \* the LVM2 physical volumes met, as [no, start]
  shown     \* the partitions in the main window (onview)

position == <<i, ebr, entry>>
vars == <<machine, dev, ndisks, pc, diskno, handle, ret, position, nparts, volumes, shown>>

INVALID_TABLE == 3

\* The drives are opened in turn, up to the first that cannot be opened.
get_ndisks(m) ==
  Cardinality({n \in DOMAIN m : n <= MaxDrives /\ \A k \in 1 .. n : m[k] # None})

Init ==
  /\ machine \in Machines
  /\ ndisks = get_ndisks(machine)
  /\ nparts = <<>> /\ volumes = {} /\ shown = {}
  /\ pc = "disks" /\ diskno = 0
  /\ dev = 0
  /\ handle = None
  /\ ret = 0
  /\ i = 0
  /\ ebr = [base |-> 0, ebr2 |-> 0, logical |-> 4]
  /\ entry = 0

\* The constructor of Ext2Partition, then push_back when it is valid.
AddNamed(start, number, file) ==
  LET part == [no |-> handle.no, start |-> start, slot |-> <<diskno, number>>, file |-> file]
  IN  nparts' = IF start \in handle.disk.fs THEN Append(nparts, part) ELSE nparts
AddPartition(start, number) == AddNamed(start, number, None)
AddVolume(start) == volumes' = volumes \cup {[no |-> handle.no, start |-> start]}

\* One entry of a table of type MBR, at sector start, as partition number.
ScanEntry(type, start, number) ==
  /\ IF type = "ext2" THEN AddPartition(start, number) ELSE UNCHANGED nparts
  /\ IF type = "lvm" THEN AddVolume(start) ELSE UNCHANGED volumes

\* set_linux_name, the letter of the disk and the number; set_image_name, the path.
Letter(disk) == disk % Letters
linux_name(p) ==
  IF p.file = None THEN <<Letter(p.slot[1]), p.slot[2]>> ELSE <<p.file>>

-----------------------------------------------------------------------------
(* scan_system                                                             *)

CountLate(n) == IF n + 1 > ndisks THEN 0 ELSE n + 1       \* mutant: off by one
CountDevice(n) == IF n + 1 >= ndisks THEN 0 ELSE n + 1

OpenDisk ==
  /\ pc = "disks" /\ diskno < ndisks
  /\ handle' = [no |-> dev, disk |-> machine[(dev % ndisks) + 1], file |-> None]
  /\ dev' = CountDevice(dev)
  /\ pc' = "mbr"
  /\ UNCHANGED <<machine, ndisks, diskno, ret, position, nparts, volumes, shown>>

\* Every disk is scanned; the main window shows what was found.
AllScanned ==
  /\ pc = "disks" /\ diskno = ndisks
  /\ shown' = Range(nparts)
  /\ pc' = "view"
  /\ UNCHANGED <<machine, dev, ndisks, diskno, handle, ret, position, nparts, volumes>>

NextDisk ==
  /\ pc = "scanned" /\ handle.no >= 0
  /\ diskno' = diskno + 1
  /\ pc' = "disks"
  /\ UNCHANGED <<machine, dev, ndisks, handle, ret, position, nparts, volumes, shown>>

-----------------------------------------------------------------------------
(* scan_partitions                                                         *)

Return(result) == pc' = "scanned" /\ ret' = result

ReadMBR ==
  /\ pc = "mbr"
  /\ \/ handle.disk.mbr \in {"unreadable", "short"} /\ Return(-1) /\ UNCHANGED i
     \/ handle.disk.mbr = "no flag" /\ Return(-INVALID_TABLE) /\ UNCHANGED i
     \/ handle.disk.mbr = "good" /\ pc' = "primary" /\ i' = 0 /\ UNCHANGED ret
  /\ UNCHANGED <<machine, dev, ndisks, diskno, handle, ebr, entry, nparts, volumes, shown>>

Primary == handle.disk.table[i + 1]

ScanPrimary ==
  /\ pc = "primary" /\ i < 4 /\ Primary.type \notin {"extended", "gpt"}
  /\ ScanEntry(Primary.type, Primary.start, i)
  /\ i' = i + 1
  /\ UNCHANGED <<machine, dev, ndisks, pc, diskno, handle, ret, ebr, entry, shown>>

EnterExtended ==
  /\ pc = "primary" /\ i < 4 /\ Primary.type = "extended"
  /\ ebr' = [base |-> Primary.start, ebr2 |-> 0, logical |-> 4]
  /\ pc' = "ebr"
  /\ UNCHANGED <<machine, dev, ndisks, diskno, handle, ret, i, entry, nparts, volumes, shown>>

\* The header of the GUID partition table is read.
EnterGPT ==
  /\ pc = "primary" /\ i < 4 /\ Primary.type = "gpt"
  /\ entry' = 0
  /\ IF Primary.start \in handle.disk.lost
       THEN i' = i + 1 /\ UNCHANGED pc
       ELSE pc' = "gpt" /\ UNCHANGED i
  /\ UNCHANGED <<machine, dev, ndisks, diskno, handle, ret, ebr, nparts, volumes, shown>>

PrimariesDone ==
  /\ pc = "primary" /\ i = 4
  /\ Return(0)
  /\ UNCHANGED <<machine, dev, ndisks, diskno, handle, position, nparts, volumes, shown>>

\* Back from scan_ebr or scan_gpt, whatever they returned.
BackToPrimaries == pc' = "primary" /\ i' = i + 1

-----------------------------------------------------------------------------
(* scan_ebr                                                                *)

\* The EBR at a sector: its own partition, relative to itself, and the next EBR,
\* relative to the base; type "none" and 0 when it is the last one.  On a damaged
\* disk the last one may lead back.
EbrIndex(sector) == CHOOSE k \in DOMAIN handle.disk.logical : handle.disk.logical[k].ebr = sector
Ebr(sector) ==
  LET k == EbrIndex(sector)
      l == handle.disk.logical
      follow == IF k < Len(l) THEN k + 1 ELSE handle.disk.back
  IN  [type |-> l[k].type, start |-> l[k].start - sector,
       more |-> follow # 0,
       next |-> IF follow = 0 THEN 0 ELSE l[follow].ebr - ebr.base]

IsEbr(sector) ==
  /\ sector \notin handle.disk.lost
  /\ \E k \in DOMAIN handle.disk.logical : handle.disk.logical[k].ebr = sector

\* mutant: an EBR that cannot be read is tried again.
EbrLostRetry ==
  /\ pc = "ebr" /\ ~IsEbr(ebr.base + ebr.ebr2)
  /\ UNCHANGED vars
EbrLost ==
  /\ pc = "ebr" /\ ~IsEbr(ebr.base + ebr.ebr2)
  /\ BackToPrimaries
  /\ UNCHANGED <<machine, dev, ndisks, diskno, handle, ret, ebr, entry, nparts, volumes, shown>>

FromBase(e) == ebr.base + e.start                 \* mutant: the EBR's place is left out
LogicalStart(e) == ebr.base + ebr.ebr2 + e.start
IsLast(e) == ~e.more
ScanLogical ==
  LET e == Ebr(ebr.base + ebr.ebr2)
  IN  /\ pc = "ebr" /\ IsEbr(ebr.base + ebr.ebr2) /\ ebr.logical < 4 + MaxRounds
      /\ ScanEntry(e.type, LogicalStart(e), ebr.logical)
      /\ ebr' = [ebr EXCEPT !.ebr2 = e.next, !.logical = @ + 1]
      /\ IF IsLast(e) THEN BackToPrimaries ELSE UNCHANGED <<pc, i>>
      /\ UNCHANGED <<machine, dev, ndisks, diskno, handle, ret, entry, shown>>

\* Where the model stops to follow a chain of EBRs that goes round.
EbrGoesOn == pc = "ebr" /\ ebr.logical = 4 + MaxRounds /\ UNCHANGED vars

-----------------------------------------------------------------------------
(* scan_gpt                                                                *)

\* The sector of the table that has entry; the table follows its header.
SectorStarts == entry % EPS = 0
TableSector == Primary.start + 1 + entry \div EPS

GptDone ==
  /\ pc = "gpt" /\ SectorStarts
  /\ entry >= Len(handle.disk.gpt) \/ TableSector \in handle.disk.lost
  /\ BackToPrimaries
  /\ UNCHANGED <<machine, dev, ndisks, diskno, handle, ret, ebr, entry, nparts, volumes, shown>>

NumberInSector == entry % EPS      \* mutant: names count within a sector
Number == entry

\* An entry, the first of a sector after this was read.  Behind the last entry
\* of the table the sector holds unused ones.
ScanGptEntry ==
  LET e == handle.disk.gpt[entry + 1]
  IN  /\ pc = "gpt"
      /\ SectorStarts => entry < Len(handle.disk.gpt) /\ TableSector \notin handle.disk.lost
      /\ IF entry < Len(handle.disk.gpt) /\ e.type = "linux"
           THEN AddPartition(e.start, Number) ELSE UNCHANGED nparts
      /\ entry' = entry + 1
      /\ UNCHANGED <<machine, dev, ndisks, pc, diskno, handle, ret, i, ebr, volumes, shown>>

-----------------------------------------------------------------------------
(* add_loopback and on_actionOpen_Image_triggered; Rescan                  *)

OpenImage(image) ==
  /\ pc = "view" /\ ndisks < get_ndisks(machine) + MaxImages
  /\ ndisks' = ndisks + 1
  /\ diskno' = ndisks + 1
  /\ handle' = [no |-> -1, disk |-> Content[image], file |-> image]
  /\ pc' = "mbr"
  /\ UNCHANGED <<machine, dev, ret, position, nparts, volumes, shown>>

\* A file system without a partition table is added as it is, with the path for its
\* name; only then does add_loopback return 1 and the main window shows what is new.
RawImage == ret = -INVALID_TABLE /\ 0 \in handle.disk.fs
ImageScanned ==
  /\ pc = "scanned" /\ handle.no = -1
  /\ IF RawImage THEN AddNamed(0, -1, handle.file) /\ shown' = Range(nparts')
                 ELSE UNCHANGED <<nparts, shown>>
  /\ pc' = "view"
  /\ UNCHANGED <<machine, dev, ndisks, diskno, handle, ret, position, volumes>>

\* The partitions are deleted and a new Ext2Read scans; other disks may be
\* attached by now.
Rescan ==
  /\ pc = "view"
  /\ machine' \in Machines
  /\ ndisks' = get_ndisks(machine')
  /\ nparts' = <<>> /\ volumes' = {} /\ shown' = {}
  /\ pc' = "disks" /\ diskno' = 0
  /\ UNCHANGED <<dev, handle, ret, position>>

Next ==
  \/ OpenDisk \/ AllScanned \/ NextDisk
  \/ ReadMBR \/ ScanPrimary \/ EnterExtended \/ EnterGPT \/ PrimariesDone
  \/ EbrLost \/ ScanLogical \/ EbrGoesOn \/ GptDone \/ ScanGptEntry
  \/ (\E image \in Images : OpenImage(image)) \/ ImageScanned \/ Rescan

Spec == Init /\ [][Next]_vars

\* A scan runs on; the user owes nothing.
FairSpec == Spec /\ WF_vars(pc # "view" /\ Next)

-----------------------------------------------------------------------------
(* Properties *)

\* What the layout of a disk says of the partitions of one kind, as <<start,
\* number>>: logical ones count from 4, those behind a lost EBR or a lost sector
\* of the GUID partition table are out of reach.
InTable(d, type) == {<<d.table[n].start, n - 1>> : n \in {m \in 1 .. 4 : d.table[m].type = type}}
InExtended(d, type) ==
  {<<d.logical[k].start, 3 + k>> :
     k \in {j \in DOMAIN d.logical :
              /\ InTable(d, "extended") # {}
              /\ d.logical[j].type = type
              /\ \A n \in 1 .. j : d.logical[n].ebr \notin d.lost}}
InGPT(d) ==
  {<<d.gpt[k].start, k - 1>> :
     k \in {j \in DOMAIN d.gpt :
              /\ d.gpt[j].type = "linux"
              /\ \E h \in InTable(d, "gpt") :
                   \A n \in 0 .. 1 + ((j - 1) \div EPS) : h[1] + n \notin d.lost}}

\* The partitions of a disk, and its LVM2 physical volumes.
Partitions(d) ==
  IF d.mbr # "good" THEN {}
  ELSE {p \in InTable(d, "ext2") \cup InExtended(d, "ext2") \cup InGPT(d) : p[1] \in d.fs}
Volumes(d) ==
  IF d.mbr # "good" THEN {} ELSE {p[1] : p \in InTable(d, "lvm") \cup InExtended(d, "lvm")}

\* What was found on the disk that is scanned.
Found == {<<p.start, p.slot[2]>> : p \in {q \in Range(nparts) : q.slot[1] = diskno}}
FoundVolumes == {v.start : v \in {w \in volumes : w.no = handle.no}}

\* A scan of a disk or an image finds exactly the partitions of its layout and
\* gives each its number: an unreadable EBR or table sector takes only what is
\* behind it, never a primary partition, and starts are counted from the right
\* sector.
FindsTheLayout ==
  pc = "scanned" =>
    /\ Found = Partitions(handle.disk)
    /\ handle.no >= 0 => FoundVolumes = Volumes(handle.disk)

\* Two partitions have the same name, all that the main window shows of them, only
\* when they were found in different scans and either the same image file, which is
\* not partitioned, was opened twice, or the numbers of their disks, which count the
\* images, are at least Letters apart.
NamesUnique ==
  \A m, n \in DOMAIN nparts :
    LET p == nparts[m]
        q == nparts[n]
    IN  m # n /\ linux_name(p) = linux_name(q) =>
          /\ p.slot[1] # q.slot[1]
          /\ \/ p.file = q.file /\ p.file # None
             \/ p.slot[1] + Letters <= q.slot[1] \/ q.slot[1] + Letters <= p.slot[1]

\* /dev/sda is the first physical drive, and so on, in every scan, however many
\* drives there were in the one before: the counter of get_nthdevice, which
\* outlives the scan, and the loop of scan_system go together.
NameIsDevice == \A p \in Range(nparts) : p.no >= 0 => linux_name(p)[1] = p.no

\* A scan comes to its end, unless it comes to EBRs that lead back to an earlier
\* one: no other damage and no number of drives keeps it busy.
ScanEnds == pc # "view" ~> pc = "view" \/ (pc = "ebr" /\ handle.disk.back # 0)

-----------------------------------------------------------------------------
(* The inductive invariant behind the theorems of ScanProofs.              *)

Scanning == pc \notin {"disks", "view"}

Handle == [no : Int, disk : Layouts, file : Images \cup {None}]
Part == [no : Int, start : Int, slot : Int \X Int, file : Images \cup {None}]

ScanTypeOK ==
  /\ machine \in Machines
  /\ ndisks \in Nat /\ diskno \in 0 .. ndisks /\ dev \in Nat
  /\ pc \in {"disks", "mbr", "primary", "ebr", "gpt", "scanned", "view"}
  /\ Scanning => handle \in Handle
  /\ i \in 0 .. 4 /\ entry \in Nat
  /\ pc \in {"ebr", "gpt"} => i < 4
  /\ ebr \in [base : Int, ebr2 : Int, logical : Int]
  /\ nparts \in Seq(Part)
  /\ volumes \subseteq [no : Int, start : Int]

\* The loop of scan_system and the counter of get_nthdevice go together; an image
\* takes the next number.
CountersInStep ==
  /\ pc = "disks" \/ (Scanning /\ handle.no >= 0) => ndisks = get_ndisks(machine)
  /\ pc = "disks" => dev = (IF diskno < ndisks THEN diskno ELSE 0)
  /\ Scanning /\ handle.no >= 0 =>
       handle.no = diskno /\ diskno < ndisks /\ dev = (IF diskno + 1 < ndisks THEN diskno + 1 ELSE 0)
  /\ Scanning /\ handle.no < 0 => handle.no = -1 /\ diskno = ndisks /\ dev = 0
  /\ pc = "view" => diskno = ndisks /\ dev = 0

\* No two partitions of the same disk and number; the number of a disk is that of its
\* drive; an image that is not partitioned has no numbers.
SlotsUnique == \A m, n \in DOMAIN nparts : nparts[m].slot = nparts[n].slot => m = n
SlotIsDevice == \A p \in Range(nparts) : p.no >= 0 => p.slot[1] = p.no /\ p.no < MaxDrives
FilesWhole ==
  \A p \in Range(nparts) : p.slot[1] \in Nat /\ (p.file # None => p.no < 0 /\ p.slot[2] = -1)

\* What was found before has a smaller number than the disk that is scanned.
EarlierHaveSmaller ==
  /\ \A p \in Range(nparts) :
       p.slot[1] <= diskno /\ (pc \in {"disks", "mbr"} => p.slot[1] < diskno)
  /\ pc = "disks" \/ (Scanning /\ handle.no >= 0) =>
       \A v \in volumes : v.no <= diskno /\ (pc \in {"disks", "mbr"} => v.no < diskno)

\* What the first n entries of the MBR of d and the tables behind them have of a
\* type, and the first n logical partitions and entries of a GUID partition table.
Holds(d, n, type) == \E m \in 1 .. n : d.table[m].type = type
PrimariesTo(d, n, type) ==
  {<<d.table[m].start, m - 1>> : m \in {k \in 1 .. n : d.table[k].type = type}}
LogicalsTo(d, n, type) ==
  {<<d.logical[k].start, 3 + k>> : k \in {j \in 1 .. n : d.logical[j].type = type}}
LinkedTo(d, m, n, type) == PrimariesTo(d, m, type) \cup LogicalsTo(d, n, type)
EntriesTo(d, n) ==
  {<<d.gpt[k].start, k - 1>> : k \in {j \in DOMAIN d.gpt : j <= n /\ d.gpt[j].type = "linux"}}
TablesTo(d, n, type) ==
  PrimariesTo(d, n, type) \cup (IF Holds(d, n, "extended") THEN InExtended(d, type) ELSE {})
PartitionsTo(d, n) ==
  TablesTo(d, n, "ext2") \cup (IF Holds(d, n, "gpt") THEN InGPT(d) ELSE {})

Mounting(d, found) == {p \in found : p[1] \in d.fs}
Starts(found) == {p[1] : p \in found}
FoundIs(found, lvm) ==
  Found = Mounting(handle.disk, found) /\ (handle.no >= 0 => FoundVolumes = Starts(lvm))

\* A number is given once: primary partitions have those up to i, logical ones those
\* up to ebr.logical, the entries of a GUID partition table those up to entry.
NumbersTo(n) == \A p \in Found : p[2] < n
PrimaryInStep ==
  pc = "primary" =>
    /\ handle.disk.mbr = "good"
    /\ FoundIs(PartitionsTo(handle.disk, i), TablesTo(handle.disk, i, "lvm"))
    /\ Holds(handle.disk, i, "gpt") \/ \A p \in Found : p[2] < i \/ p[2] >= 4

EbrSector == ebr.base + ebr.ebr2
Read == ebr.logical - 4
\* Up to the last EBR, each was read and the next one is at hand; after that the
\* chain goes round, and all of it can be read.
EbrInStep ==
  LET l == handle.disk.logical
  IN  pc = "ebr" =>
        /\ handle.disk.mbr = "good"
        /\ Primary.type = "extended" /\ ebr.base = Primary.start
        /\ Read \in 0 .. MaxRounds
        /\ \A k \in DOMAIN l : k <= Read => l[k].ebr \notin handle.disk.lost
        /\ Read < Len(l) =>
             /\ EbrSector = l[Read + 1].ebr
             /\ FoundIs(LinkedTo(handle.disk, i, Read, "ext2"), LinkedTo(handle.disk, i, Read, "lvm"))
        /\ Read >= Len(l) => handle.disk.back # 0 /\ \E k \in DOMAIN l : EbrSector = l[k].ebr
        /\ NumbersTo(ebr.logical)

GptInStep ==
  pc = "gpt" =>
    /\ handle.disk.mbr = "good"
    /\ Primary.type = "gpt" /\ Primary.start \notin handle.disk.lost
    /\ \A m \in 0 .. entry - 1 : Primary.start + 1 + m \div EPS \notin handle.disk.lost
    /\ FoundIs(EntriesTo(handle.disk, entry), {})
    /\ NumbersTo(entry)

ScannedInStep ==
  /\ pc = "scanned" => FindsTheLayout /\ ret \in {0, -1, -INVALID_TABLE}
  /\ pc = "scanned" /\ ret # 0 => handle.disk.mbr # "good"

ScanInv ==
  /\ ScanTypeOK /\ CountersInStep /\ EarlierHaveSmaller
  /\ PrimaryInStep /\ EbrInStep /\ GptInStep /\ ScannedInStep
  /\ SlotsUnique /\ SlotIsDevice /\ FilesWhole
===============================================================================
