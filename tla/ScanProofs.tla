------------------------------ MODULE ScanProofs ------------------------------
(***************************************************************************)
(* Theorems about Scan, for any number of disks with any layouts, any      *)
(* sectors lost, and any sequence of scans and images.                     *)
(***************************************************************************)
EXTENDS Scan, FiniteSetTheorems, TLAPS

-----------------------------------------------------------------------------
(* Arithmetic                                                              *)

LEMMA DivMod ==
  ASSUME NEW a \in Nat, NEW b \in Nat \ {0}
  PROVE  a \div b \in Nat /\ b * (a \div b) <= a /\ a < b * (a \div b) + b
OBVIOUS

\* The quotient is what the multiples next to a say it is.
LEMMA Quotient ==
  ASSUME NEW a \in Nat, NEW b \in Nat \ {0}, NEW q \in Nat, b * q <= a, a < b * q + b
  PROVE  a \div b = q
OBVIOUS

LEMMA Multiples ==
  ASSUME NEW b \in Nat \ {0}, NEW p \in Nat, NEW q \in Nat
  PROVE  b * p \in Nat /\ (p <= q => b * p <= b * q) /\ (p < q => b * p + b <= b * q)
<1>1. b * p \in Nat
  OBVIOUS
<1>2. ASSUME p <= q PROVE b * p <= b * q
  <2>1. PICK c \in Nat : q = p + c
    BY <1>2
  <2>2. b * q = b * p + b * c /\ b * c \in Nat
    BY <2>1
  <2>3. QED
    BY <1>1, <2>2
<1>3. ASSUME p < q PROVE b * p + b <= b * q
  <2>1. PICK c \in Nat : q = p + 1 + c
    BY <1>3
  <2>2. b * q = b * p + b + b * c /\ b * c \in Nat
    BY <2>1
  <2>3. QED
    BY <1>1, <2>2
<1>4. QED
  BY <1>1, <1>2, <1>3

LEMMA Monotone ==
  ASSUME NEW b \in Nat \ {0}, NEW m \in Nat, NEW n \in Nat, m <= n
  PROVE  m \div b <= n \div b
<1>1. PICK p \in Nat : p = m \div b /\ b * p <= m
  BY DivMod
<1>2. PICK q \in Nat : q = n \div b /\ n < b * q + b
  BY DivMod
<1>3. q < p => b * q + b <= b * p
  BY Multiples
<1>4. b * p \in Nat /\ b * q \in Nat
  BY Multiples
<1>5. QED
  BY <1>1, <1>2, <1>3, <1>4

\* Every sector up to that of n has an entry up to n, its first.
LEMMA FirstOfSector ==
  ASSUME NEW b \in Nat \ {0}, NEW n \in Nat, NEW q \in 0 .. n \div b
  PROVE  \E m \in 0 .. n : m \div b = q
<1>1. PICK p \in Nat : p = n \div b /\ b * p <= n
  BY DivMod
<1>2. q \in Nat /\ q <= p
  BY <1>1
<1>3. b * q \in Nat /\ b * q <= b * p /\ b * p \in Nat
  BY <1>2, Multiples
<1>4. (b * q) \div b = q
  BY <1>2, <1>3, Quotient
<1>5. QED
  BY <1>1, <1>3, <1>4

LEMMA SameSector ==
  ASSUME NEW b \in Nat \ {0}, NEW n \in Nat \ {0}, n % b # 0
  PROVE  n \div b = (n - 1) \div b
<1>1. PICK p \in Nat : p = n \div b /\ b * p <= n /\ n < b * p + b
  BY DivMod
<1>2. b * p \in Nat
  BY Multiples
<1>3. b * p # n
  <2>1. n % b = n - b * (n \div b)
    OBVIOUS
  <2>2. QED
    BY <1>1, <1>2, <2>1
<1>4. n - 1 \in Nat /\ b * p <= n - 1 /\ n - 1 < b * p + b
  BY <1>1, <1>2, <1>3
<1>5. QED
  BY <1>1, <1>4, Quotient

LEMMA Division ==
  ASSUME NEW n \in Nat, NEW b \in Nat \ {0}
  PROVE  n \div b \in Nat /\ n = b * (n \div b) + (n % b) /\ n % b \in Nat
OBVIOUS

USE DiskAssumption, SizeAssumption

-----------------------------------------------------------------------------
(* Layouts                                                                 *)

LEMMA LayoutTypes ==
  ASSUME NEW d \in Layouts
  PROVE  /\ d.mbr \in {"good", "unreadable", "short", "no flag"}
         /\ \A n \in 1 .. 4 : d.table[n].start \in Nat
         /\ Len(d.logical) \in Nat /\ DOMAIN d.logical = 1 .. Len(d.logical)
         /\ \A k \in DOMAIN d.logical :
              d.logical[k].ebr \in Nat /\ d.logical[k].start \in Nat
         /\ Len(d.gpt) \in Nat /\ DOMAIN d.gpt = 1 .. Len(d.gpt)
         /\ \A k \in DOMAIN d.gpt : d.gpt[k].start \in Nat
<1>1. d \in Disk /\ Len(d.table) = 4
  BY DEF Layouts
<1>2. /\ d.mbr \in {"good", "unreadable", "short", "no flag"}
      /\ d.table \in Seq(Entry({"none", "ext2", "lvm", "extended", "gpt", "other"}))
      /\ d.logical \in Seq([ebr : Nat, type : {"ext2", "lvm", "other"}, start : Nat])
      /\ d.gpt \in Seq(Entry({"none", "linux", "other"}))
  BY <1>1 DEF Disk
<1> DEFINE T == Entry({"none", "ext2", "lvm", "extended", "gpt", "other"})
           L == [ebr : Nat, type : {"ext2", "lvm", "other"}, start : Nat]
           G == Entry({"none", "linux", "other"})
<1>3. /\ \A e \in T : e.start \in Nat
      /\ \A e \in L : e.ebr \in Nat /\ e.start \in Nat
      /\ \A e \in G : e.start \in Nat
  BY DEF Entry
<1>4. d.table \in Seq(T) /\ d.logical \in Seq(L) /\ d.gpt \in Seq(G)
  BY <1>2
<1> HIDE DEF T, L, G
<1>5. \A n \in 1 .. 4 : d.table[n] \in T
  <2>1. d.table \in [1 .. Len(d.table) -> T]
    BY <1>4
  <2>2. QED
    BY <1>1, <2>1
<1>6. /\ Len(d.logical) \in Nat /\ DOMAIN d.logical = 1 .. Len(d.logical)
      /\ \A k \in DOMAIN d.logical : d.logical[k] \in L
  BY <1>4
<1>7. /\ Len(d.gpt) \in Nat /\ DOMAIN d.gpt = 1 .. Len(d.gpt)
      /\ \A k \in DOMAIN d.gpt : d.gpt[k] \in G
  BY <1>4
<1>8. QED
  BY <1>2, <1>3, <1>5, <1>6, <1>7

\* What the tables of a disk are like in front of and behind the MBR.
LEMMA LayoutFacts ==
  ASSUME NEW d \in Layouts, NEW n \in 1 .. 4
  PROVE  /\ d.table[n].type = "extended" =>
              /\ \A m \in 1 .. 4 : d.table[m].type = "extended" => m = n
              /\ Len(d.logical) > 0 /\ d.logical[1].ebr = d.table[n].start
              /\ \A j, k \in DOMAIN d.logical : d.logical[j].ebr = d.logical[k].ebr => j = k
              /\ d.back \in 0 .. Len(d.logical) /\ Len(d.logical) < MaxRounds
         /\ d.table[n].type = "gpt" =>
              \A m \in 1 .. 4 : m = n \/ d.table[m].type = "none"
<1> DEFINE Of(type) == {e \in 1 .. 4 : d.table[e].type = type}
<1>1. /\ \A e, f \in Of("extended") : e = f
      /\ \A e \in Of("extended") :
           /\ d.logical # <<>> /\ d.logical[1].ebr = d.table[e].start
           /\ \A j, k \in DOMAIN d.logical : d.logical[j].ebr = d.logical[k].ebr => j = k
           /\ d.back \in 0 .. Len(d.logical) /\ Len(d.logical) < MaxRounds
      /\ \A g \in Of("gpt"), m \in 1 .. 4 : m = g \/ d.table[m].type = "none"
  BY DEF Layouts
<1>2. d.logical # <<>> => Len(d.logical) > 0
  <2>1. d.logical \in Seq([ebr : Nat, type : {"ext2", "lvm", "other"}, start : Nat])
    BY DEF Layouts, Disk
  <2>2. QED
    BY <2>1
<1>3. QED
  BY <1>1, <1>2

\* get_ndisks counts the drives up to the first that cannot be opened: all
\* of those are there.
LEMMA DrivesAreThere ==
  ASSUME NEW m \in Machines
  PROVE  /\ get_ndisks(m) \in Nat /\ get_ndisks(m) <= MaxDrives
         /\ \A n \in 1 .. get_ndisks(m) : m[n] \in Layouts
<1> DEFINE S == {n \in DOMAIN m : n <= MaxDrives /\ \A k \in 1 .. n : m[k] # None}
<1>1. m \in Seq(Layouts \cup {None})
  OBVIOUS
<1>2. DOMAIN m = 1 .. Len(m) /\ Len(m) \in Nat
  BY <1>1
<1>3. IsFiniteSet(S) /\ Cardinality(S) \in Nat
  <2>1. IsFiniteSet(1 .. Len(m))
    BY <1>2, FS_Interval
  <2>2. S \subseteq 1 .. Len(m)
    BY <1>2
  <2>3. QED
    BY <2>1, <2>2, FS_Subset, FS_CardinalityType
<1>4. ASSUME NEW n \in 1 .. Cardinality(S) PROVE n \in S
  <2>1. SUFFICES ASSUME n \notin S PROVE FALSE
    OBVIOUS
  <2>2. S \subseteq 1 .. n - 1
    <3>1. SUFFICES ASSUME NEW k \in S, k >= n PROVE FALSE
      BY <1>2, <1>3
    <3>2. n \in DOMAIN m /\ n <= MaxDrives
      <4>1. k \in 1 .. Len(m) /\ k <= MaxDrives /\ n \in Int /\ 1 <= n /\ n <= k
        BY <1>2, <1>3, <3>1
      <4>2. QED
        BY <1>2, <4>1
    <3>3. \A j \in 1 .. n : m[j] # None
      <4>1. (\A j \in 1 .. k : m[j] # None) /\ k \in Int /\ n \in Int /\ n <= k
        BY <1>2, <1>3, <3>1
      <4>2. QED
        BY <4>1
    <3>4. QED
      BY <2>1, <3>2, <3>3
  <2>3. IsFiniteSet(1 .. n - 1) /\ Cardinality(1 .. n - 1) = n - 1
    <3>1. n - 1 \in Int /\ 1 \in Int /\ n - 1 >= 0
      BY <1>3
    <3>2. QED
      BY <3>1, FS_Interval
  <2>4. Cardinality(S) <= n - 1
    BY <2>2, <2>3, FS_Subset
  <2>5. QED
    BY <1>3, <2>4
<1>5. \A n \in S : m[n] \in Layouts
  BY <1>1, <1>2
<1>6. QED
  BY <1>3, <1>4, <1>5 DEF get_ndisks

-----------------------------------------------------------------------------
(* What the entry of a table adds                                          *)

\* A partition at start is added under a new number, or does not mount.
LEMMA PartitionAdded ==
  ASSUME ScanTypeOK, Scanning, SlotsUnique, NEW start \in Int, NEW number \in Int,
         NEW file \in Images \cup {None}, \A p \in Found : p[2] # number,
         AddNamed(start, number, file), UNCHANGED <<diskno, handle>>
  PROVE  /\ nparts' \in Seq(Part)
         /\ SlotsUnique'
         /\ \A p \in Range(nparts') :
              \/ p \in Range(nparts)
              \/ p = [no |-> handle.no, start |-> start, slot |-> <<diskno, number>>, file |-> file]
         /\ Found' = Found \cup Mounting(handle.disk, {<<start, number>>})
<1> DEFINE q == [no |-> handle.no, start |-> start, slot |-> <<diskno, number>>, file |-> file]
<1>1. q \in Part /\ q.slot[1] = diskno /\ q.slot[2] = number /\ q.start = start
  BY DEF ScanTypeOK, Handle, Part
<1>2. nparts \in Seq(Part)
  BY DEF ScanTypeOK
<1>3. \A p \in Part : p.slot = <<p.slot[1], p.slot[2]>>
  BY DEF Part
<1>4. \A m \in DOMAIN nparts : nparts[m].slot # q.slot
  <2>1. SUFFICES ASSUME NEW m \in DOMAIN nparts, nparts[m].slot = q.slot PROVE FALSE
    OBVIOUS
  <2>2. nparts[m] \in Range(nparts) /\ nparts[m].slot[1] = diskno
    BY <1>1, <2>1 DEF Range
  <2>3. <<nparts[m].start, nparts[m].slot[2]>> \in Found
    BY <2>2 DEF Found
  <2>4. QED
    BY <1>1, <2>1, <2>3
<1> HIDE DEF q
<1>5. CASE start \in handle.disk.fs
  <2>1. nparts' = Append(nparts, q)
    BY <1>5 DEF AddNamed, q
  <2>2. /\ nparts' \in Seq(Part) /\ Len(nparts) \in Nat
        /\ DOMAIN nparts = 1 .. Len(nparts) /\ DOMAIN nparts' = 1 .. Len(nparts) + 1
        /\ \A m \in DOMAIN nparts : nparts'[m] = nparts[m]
        /\ nparts'[Len(nparts) + 1] = q
    BY <1>1, <1>2, <2>1
  <2>3. Range(nparts') = Range(nparts) \cup {q}
    <3>1. \A m \in DOMAIN nparts' : m \in DOMAIN nparts \/ m = Len(nparts) + 1
      BY <2>2
    <3>2. Len(nparts) + 1 \in DOMAIN nparts' /\ DOMAIN nparts \subseteq DOMAIN nparts'
      BY <2>2
    <3>3. QED
      BY <2>2, <3>1, <3>2 DEF Range
  <2>4. SlotsUnique'
    <3>1. SUFFICES ASSUME NEW m \in DOMAIN nparts', NEW n \in DOMAIN nparts',
                          nparts'[m].slot = nparts'[n].slot
                   PROVE  m = n
      BY DEF SlotsUnique
    <3>2. (m \in DOMAIN nparts \/ m = Len(nparts) + 1) /\ (n \in DOMAIN nparts \/ n = Len(nparts) + 1)
      BY <2>2
    <3>3. CASE m \in DOMAIN nparts /\ n \in DOMAIN nparts
      BY <2>2, <3>1, <3>3 DEF SlotsUnique
    <3>4. QED
      BY <1>4, <2>2, <3>1, <3>2, <3>3
  <2>5. Found' = Found \cup {<<start, number>>}
    BY <1>1, <2>3 DEF Found
  <2>6. Mounting(handle.disk, {<<start, number>>}) = {<<start, number>>}
    BY <1>5 DEF Mounting
  <2>7. QED
    BY <2>2, <2>3, <2>4, <2>5, <2>6 DEF q
<1>6. CASE start \notin handle.disk.fs
  <2>1. nparts' = nparts
    BY <1>6 DEF AddNamed
  <2>2. Mounting(handle.disk, {<<start, number>>}) = {}
    BY <1>6 DEF Mounting
  <2>3. QED
    BY <1>2, <2>1, <2>2 DEF Found, SlotsUnique
<1>7. QED
  BY <1>5, <1>6

\* One entry of a table of type MBR.
LEMMA EntryScanned ==
  ASSUME ScanTypeOK, Scanning, SlotsUnique, SlotIsDevice, FilesWhole, EarlierHaveSmaller, CountersInStep,
         NEW type, NEW start \in Int, NEW number \in Int, pc \notin {"disks", "mbr"},
         type = "ext2" => \A p \in Found : p[2] # number,
         ScanEntry(type, start, number), UNCHANGED <<diskno, handle, ndisks>>, pc' \notin {"disks", "mbr", "view"}
  PROVE  /\ nparts' \in Seq(Part)
         /\ volumes' \subseteq [no : Int, start : Int]
         /\ SlotsUnique' /\ SlotIsDevice' /\ FilesWhole' /\ EarlierHaveSmaller'
         /\ Found' = Found \cup Mounting(handle.disk, IF type = "ext2" THEN {<<start, number>>} ELSE {})
         /\ FoundVolumes' = FoundVolumes \cup (IF type = "lvm" THEN {start} ELSE {})
<1>1. /\ nparts' \in Seq(Part)
      /\ SlotsUnique'
      /\ \A p \in Range(nparts') :
           p \in Range(nparts) \/ (p.no = handle.no /\ p.slot[1] = diskno /\ p.file = None)
      /\ Found' = Found \cup Mounting(handle.disk, IF type = "ext2" THEN {<<start, number>>} ELSE {})
  <2>1. CASE type = "ext2"
    <3>1. AddNamed(start, number, None)
      BY <2>1 DEF ScanEntry, AddPartition
    <3>2. /\ nparts' \in Seq(Part)
          /\ SlotsUnique'
          /\ \A p \in Range(nparts') :
               \/ p \in Range(nparts)
               \/ p = [no |-> handle.no, start |-> start, slot |-> <<diskno, number>>, file |-> None]
          /\ Found' = Found \cup Mounting(handle.disk, {<<start, number>>})
      BY <2>1, <3>1, PartitionAdded
    <3>3. QED
      BY <2>1, <3>2
  <2>2. CASE type # "ext2"
    BY <2>2 DEF ScanEntry, ScanTypeOK, SlotsUnique, Found, Mounting
  <2>3. QED
    BY <2>1, <2>2
<1>2. /\ handle.no \in Int /\ diskno \in Nat
      /\ handle.no >= 0 => handle.no = diskno /\ handle.no < MaxDrives
  <2>1. machine \in Machines /\ ndisks \in Nat /\ diskno \in 0 .. ndisks /\ handle.no \in Int
    BY DEF ScanTypeOK, Handle
  <2>2. handle.no >= 0 => handle.no = diskno /\ diskno < ndisks /\ ndisks = get_ndisks(machine)
    BY DEF CountersInStep
  <2>3. QED
    BY <2>1, <2>2, DrivesAreThere
<1>3. volumes' = IF type = "lvm" THEN volumes \cup {[no |-> handle.no, start |-> start]} ELSE volumes
  BY DEF ScanEntry, AddVolume
<1>4. SlotIsDevice' /\ FilesWhole'
  BY <1>1, <1>2 DEF SlotIsDevice, FilesWhole
<1>5. EarlierHaveSmaller'
  <2>1. \A p \in Range(nparts') : p.slot[1] <= diskno
    BY <1>1, <1>2 DEF EarlierHaveSmaller
  <2>2. handle.no >= 0 => \A v \in volumes' : v.no <= diskno
    BY <1>2, <1>3 DEF EarlierHaveSmaller, Scanning
  <2>3. QED
    BY <2>1, <2>2 DEF EarlierHaveSmaller, Scanning
<1>6. volumes' \subseteq [no : Int, start : Int]
  BY <1>2, <1>3 DEF ScanTypeOK
<1>7. FoundVolumes' = FoundVolumes \cup (IF type = "lvm" THEN {start} ELSE {})
  <2>1. CASE type = "lvm"
    <3>1. volumes' = volumes \cup {[no |-> handle.no, start |-> start]}
      BY <1>3, <2>1
    <3>2. PICK v : v = [no |-> handle.no, start |-> start]
      OBVIOUS
    <3>3. handle' = handle /\ v.no = handle.no /\ v.start = start /\ volumes' = volumes \cup {v}
      BY <3>1, <3>2
    <3>4. QED
      BY <2>1, <3>3 DEF FoundVolumes
  <2>2. CASE type # "lvm"
    BY <1>3, <2>2 DEF FoundVolumes
  <2>3. QED
    BY <2>1, <2>2
<1>8. QED
  BY <1>1, <1>4, <1>5, <1>6, <1>7

-----------------------------------------------------------------------------
(* What the tables passed so far hold                                      *)

LEMMA PrimariesNext ==
  ASSUME NEW d, NEW n \in 0 .. 3, NEW type
  PROVE  /\ PrimariesTo(d, n + 1, type) =
              PrimariesTo(d, n, type) \cup
              (IF d.table[n + 1].type = type THEN {<<d.table[n + 1].start, n>>} ELSE {})
         /\ Holds(d, n + 1, type) <=> Holds(d, n, type) \/ d.table[n + 1].type = type
<1>1. 1 .. n + 1 = (1 .. n) \cup {n + 1} /\ (n + 1) - 1 = n
  OBVIOUS
<1>2. QED
  BY <1>1 DEF PrimariesTo, Holds

LEMMA LogicalsNext ==
  ASSUME NEW d, NEW n \in Nat, NEW type
  PROVE  LogicalsTo(d, n + 1, type) =
           LogicalsTo(d, n, type) \cup
           (IF d.logical[n + 1].type = type THEN {<<d.logical[n + 1].start, 4 + n>>} ELSE {})
<1>1. 1 .. n + 1 = (1 .. n) \cup {n + 1} /\ 3 + (n + 1) = 4 + n
  OBVIOUS
<1>2. QED
  BY <1>1 DEF LogicalsTo

LEMMA EntriesNext ==
  ASSUME NEW d \in Layouts, NEW n \in Nat
  PROVE  EntriesTo(d, n + 1) =
           EntriesTo(d, n) \cup
           (IF n < Len(d.gpt) /\ d.gpt[n + 1].type = "linux" THEN {<<d.gpt[n + 1].start, n>>} ELSE {})
<1>1. /\ Len(d.gpt) \in Nat /\ DOMAIN d.gpt = 1 .. Len(d.gpt)
  BY LayoutTypes
<1>2. /\ \A j \in DOMAIN d.gpt : j <= n + 1 <=> (j <= n \/ j = n + 1)
      /\ n + 1 \in DOMAIN d.gpt <=> n < Len(d.gpt)
      /\ (n + 1) - 1 = n /\ ~(n + 1 <= n)
  BY <1>1
<1>3. QED
  BY <1>2 DEF EntriesTo

\* The logical partitions of a disk are those in front of the first lost EBR.
LEMMA UpToLostEbr ==
  ASSUME NEW d \in Layouts, NEW e \in 1 .. 4, d.table[e].type = "extended",
         NEW n \in 0 .. Len(d.logical), NEW type,
         \A k \in 1 .. n : d.logical[k].ebr \notin d.lost,
         n = Len(d.logical) \/ d.logical[n + 1].ebr \in d.lost
  PROVE  InExtended(d, type) = LogicalsTo(d, n, type)
<1>1. InTable(d, "extended") # {}
  BY DEF InTable
<1>2. Len(d.logical) \in Nat /\ DOMAIN d.logical = 1 .. Len(d.logical)
  BY LayoutTypes
<1>3. ASSUME NEW j \in DOMAIN d.logical
      PROVE  (\A m \in 1 .. j : d.logical[m].ebr \notin d.lost) <=> j <= n
  <2>1. j > n => n + 1 \in 1 .. j /\ d.logical[n + 1].ebr \in d.lost
    BY <1>2
  <2>2. j <= n => \A m \in 1 .. j : m \in 1 .. n
    BY <1>2
  <2>3. j > n \/ j <= n
    BY <1>2
  <2>4. QED
    BY <2>1, <2>2, <2>3, <1>2
<1>4. \A j : j \in 1 .. n <=> j \in DOMAIN d.logical /\ j <= n
  BY <1>2
<1>5. QED
  BY <1>1, <1>3, <1>4 DEF InExtended, LogicalsTo

\* The entries of a GUID partition table are those in front of its first lost
\* sector; without the header there are none.
LEMMA UpToLostSector ==
  ASSUME NEW d \in Layouts, NEW g \in 1 .. 4, d.table[g].type = "gpt"
  PROVE  /\ d.table[g].start \in d.lost => InGPT(d) = {}
         /\ \A n \in Nat :
              /\ d.table[g].start \notin d.lost
              /\ \A m \in 0 .. n - 1 : d.table[g].start + 1 + m \div EPS \notin d.lost
              /\ n >= Len(d.gpt) \/ d.table[g].start + 1 + n \div EPS \in d.lost
              => InGPT(d) = EntriesTo(d, n)
<1> DEFINE h == d.table[g].start
           Reached(j) == \A n \in 0 .. 1 + ((j - 1) \div EPS) : h + n \notin d.lost
<1>1. h \in Nat /\ Len(d.gpt) \in Nat /\ DOMAIN d.gpt = 1 .. Len(d.gpt)
  BY LayoutTypes
<1>2. InTable(d, "gpt") = {<<h, g - 1>>}
  <2>1. \A m \in 1 .. 4 : d.table[m].type = "gpt" <=> m = g
    BY LayoutFacts
  <2>2. QED
    BY <2>1 DEF InTable
<1>3. InGPT(d) = {<<d.gpt[k].start, k - 1>> :
                    k \in {j \in DOMAIN d.gpt : d.gpt[j].type = "linux" /\ Reached(j)}}
  <2>1. PICK t : t = <<h, g - 1>>
    OBVIOUS
  <2>2. t[1] = h /\ InTable(d, "gpt") = {t}
    BY <1>2, <2>1
  <2>3. \A j : (\E u \in InTable(d, "gpt") :
                  \A n \in 0 .. 1 + ((j - 1) \div EPS) : u[1] + n \notin d.lost) <=> Reached(j)
    BY <2>2
  <2>4. QED
    BY <2>3 DEF InGPT
<1>4. ASSUME h \in d.lost PROVE InGPT(d) = {}
  <2>1. \A j \in DOMAIN d.gpt : 0 \in 0 .. 1 + ((j - 1) \div EPS)
    <3>1. \A j \in DOMAIN d.gpt : j - 1 \in Nat
      BY <1>1
    <3>2. \A j \in DOMAIN d.gpt : (j - 1) \div EPS \in Nat
      BY <3>1, DivMod
    <3>3. QED
      BY <3>2
  <2>2. h + 0 = h
    BY <1>1
  <2>3. QED
    BY <1>3, <1>4, <2>1, <2>2
<1>5. ASSUME NEW n \in Nat, h \notin d.lost,
             \A m \in 0 .. n - 1 : h + 1 + m \div EPS \notin d.lost,
             n >= Len(d.gpt) \/ h + 1 + n \div EPS \in d.lost,
             NEW j \in DOMAIN d.gpt
      PROVE  Reached(j) <=> j <= n
  <2>1. j - 1 \in Nat /\ j \in Nat /\ j <= Len(d.gpt) /\ n \in Nat
    BY <1>1
  <2>2. PICK c \in Nat : c = (j - 1) \div EPS
    BY <2>1, DivMod
  <2>3. Reached(j) <=> \A q \in 0 .. 1 + c : h + q \notin d.lost
    BY <2>2
  <2> HIDE DEF Reached
  <2>4. ASSUME j <= n, NEW q \in 0 .. 1 + c PROVE h + q \notin d.lost
    <3>1. CASE q = 0
      BY <1>1, <1>5, <3>1
    <3>2. CASE q # 0
      <4>1. q - 1 \in 0 .. c
        BY <3>2
      <4>2. PICK m \in 0 .. j - 1 : m \div EPS = q - 1
        BY <2>1, <2>2, <4>1, FirstOfSector
      <4>3. m \in 0 .. n - 1 /\ h + 1 + (q - 1) = h + q
        BY <1>1, <2>1, <2>4
      <4>4. QED
        BY <1>5, <4>2, <4>3
    <3>3. QED
      BY <3>1, <3>2
  <2>5. ASSUME j > n PROVE ~Reached(j)
    <3>1. n <= j - 1 /\ n < Len(d.gpt)
      BY <1>1, <2>1, <2>5
    <3>2. PICK q \in Nat : q = n \div EPS
      BY <2>1, DivMod
    <3>3. q <= c
      BY <2>1, <2>2, <3>1, <3>2, Monotone
    <3>4. 1 + q \in 0 .. 1 + c /\ h + 1 + q = h + (1 + q)
      BY <1>1, <3>3
    <3>5. h + 1 + q \in d.lost
      BY <1>1, <1>5, <3>1, <3>2
    <3>6. QED
      BY <2>3, <3>4, <3>5
  <2>6. j <= n \/ j > n
    BY <2>1
  <2>7. QED
    BY <2>3, <2>4, <2>5, <2>6
<1>6. QED
  BY <1>3, <1>4, <1>5 DEF EntriesTo

\* After the fourth entry of the MBR all that the disk holds was met.
LEMMA AllOfTheDisk ==
  ASSUME NEW d \in Layouts, d.mbr = "good"
  PROVE  /\ Partitions(d) = Mounting(d, PartitionsTo(d, 4))
         /\ Volumes(d) = Starts(TablesTo(d, 4, "lvm"))
<1>1. \A type : PrimariesTo(d, 4, type) = InTable(d, type)
  BY DEF PrimariesTo, InTable
<1>2. \A type : ~Holds(d, 4, "extended") => InExtended(d, type) = {}
  BY DEF Holds, InExtended, InTable
<1>3. ~Holds(d, 4, "gpt") => InGPT(d) = {}
  BY DEF Holds, InGPT, InTable
<1>4. QED
  BY <1>1, <1>2, <1>3 DEF Partitions, Volumes, PartitionsTo, TablesTo, Mounting, Starts

LEMMA MountingUnion ==
  ASSUME NEW d, NEW S, NEW T
  PROVE  /\ Mounting(d, S \cup T) = Mounting(d, S) \cup Mounting(d, T)
         /\ Starts(S \cup T) = Starts(S) \cup Starts(T)
         /\ Mounting(d, {}) = {} /\ Starts({}) = {}
BY DEF Mounting, Starts

-----------------------------------------------------------------------------
(* Steps that add nothing                                                  *)

LEMMA NothingAdded ==
  ASSUME ScanInv, Scanning, pc' \notin {"disks", "mbr", "view"},
         UNCHANGED <<machine, dev, ndisks, diskno, handle, nparts, volumes>>
  PROVE  /\ machine' \in Machines /\ ndisks' \in Nat /\ diskno' \in 0 .. ndisks' /\ dev' \in Nat
         /\ handle' \in Handle
         /\ nparts' \in Seq(Part)
         /\ volumes' \subseteq [no : Int, start : Int]
         /\ CountersInStep' /\ EarlierHaveSmaller' /\ SlotsUnique' /\ SlotIsDevice' /\ FilesWhole'
         /\ Found' = Found /\ FoundVolumes' = FoundVolumes
<1>1. /\ machine' = machine /\ dev' = dev /\ ndisks' = ndisks /\ diskno' = diskno
      /\ handle' = handle /\ nparts' = nparts /\ volumes' = volumes
  OBVIOUS
<1>2. ScanTypeOK /\ CountersInStep /\ EarlierHaveSmaller /\ SlotsUnique /\ SlotIsDevice /\ FilesWhole
  BY DEF ScanInv
<1>3. CountersInStep'
  BY <1>1, <1>2 DEF CountersInStep, Scanning
<1>4. EarlierHaveSmaller'
  BY <1>1, <1>2 DEF EarlierHaveSmaller, Scanning
<1>5. SlotsUnique' /\ SlotIsDevice' /\ FilesWhole' /\ Found' = Found /\ FoundVolumes' = FoundVolumes
  BY <1>1, <1>2 DEF SlotsUnique, SlotIsDevice, FilesWhole, Found, FoundVolumes
<1>6. QED
  BY <1>1, <1>2, <1>3, <1>4, <1>5 DEF ScanTypeOK

\* What is open is a disk with a layout.
LEMMA Opened ==
  ASSUME ScanTypeOK, Scanning
  PROVE  handle.no \in Int /\ handle.disk \in Layouts
BY DEF ScanTypeOK, Handle

LEMMA OpenedAt ==
  ASSUME ScanTypeOK, Scanning, pc \in {"ebr", "gpt"} \/ i < 4
  PROVE  handle.disk \in Layouts /\ i \in 0 .. 3 /\ i + 1 \in 1 .. 4
<1>1. i \in 0 .. 4 /\ i < 4
  BY DEF ScanTypeOK
<1>2. i \in 0 .. 3 /\ i + 1 \in 1 .. 4
  BY <1>1
<1> QED
  BY <1>2, Opened

LEMMA ReadMBRInv == ASSUME ScanInv, ReadMBR PROVE ScanInv'
<1>1. Scanning /\ pc = "mbr" /\ pc' \in {"scanned", "primary"} /\ ebr' = ebr /\ entry' = entry
  BY DEF ReadMBR, Return, Scanning
<1>2. UNCHANGED <<machine, dev, ndisks, diskno, handle, nparts, volumes>> /\ handle' = handle
  BY DEF ReadMBR
<1>3. ScanTypeOK /\ CountersInStep /\ EarlierHaveSmaller
  BY DEF ScanInv
<1>4. handle.no \in Int /\ handle.disk \in Layouts
  BY <1>1, <1>3, Opened
<1>5. Found = {} /\ (handle.no >= 0 => FoundVolumes = {})
  <2>1. \A p \in Range(nparts) : p.slot[1] # diskno
    <3>1. \A p \in Range(nparts) : p.slot[1] < diskno
      BY <1>1, <1>3 DEF EarlierHaveSmaller
    <3>2. diskno \in Int
      BY <1>3 DEF ScanTypeOK
    <3>3. QED
      BY <3>1, <3>2
  <2>2. handle.no >= 0 => \A v \in volumes : v.no # handle.no
    <3>1. handle.no >= 0 => handle.no = diskno /\ \A v \in volumes : v.no < diskno
      BY <1>1, <1>3 DEF EarlierHaveSmaller, CountersInStep
    <3>2. QED
      BY <1>4, <3>1
  <2>3. QED
    BY <2>1, <2>2 DEF Found, FoundVolumes
<1>6. i' \in 0 .. 4 /\ (pc' = "primary" => i' = 0 /\ handle.disk.mbr = "good")
  <2>1. i \in 0 .. 4
    BY <1>3 DEF ScanTypeOK
  <2>2. \/ pc' = "scanned" /\ i' = i
        \/ pc' = "primary" /\ i' = 0 /\ handle.disk.mbr = "good"
    BY DEF ReadMBR, Return
  <2>3. QED
    BY <2>1, <2>2
<1>7. pc' = "scanned" => handle.disk.mbr # "good" /\ ret' \in {-1, -INVALID_TABLE}
  BY <1>1 DEF ReadMBR, Return
<1>8. PrimaryInStep'
  <2>1. SUFFICES ASSUME pc' = "primary" PROVE PrimaryInStep'
    BY DEF PrimaryInStep
  <2>2. /\ PartitionsTo(handle.disk, 0) = {} /\ TablesTo(handle.disk, 0, "lvm") = {}
    BY DEF PartitionsTo, TablesTo, Holds, PrimariesTo
  <2>3. Mounting(handle.disk, {}) = {} /\ Starts({}) = {}
    BY MountingUnion
  <2>4. Found' = {} /\ (handle.no >= 0 => FoundVolumes' = {})
    BY <1>1, <1>2, <1>5, NothingAdded
  <2>5. QED
    BY <1>2, <1>6, <2>1, <2>2, <2>3, <2>4 DEF PrimaryInStep, FoundIs
<1>9. ScannedInStep'
  <2>1. SUFFICES ASSUME pc' = "scanned" PROVE ScannedInStep'
    BY <1>1 DEF ScannedInStep
  <2>2. Partitions(handle.disk) = {} /\ Volumes(handle.disk) = {}
    BY <1>7, <2>1 DEF Partitions, Volumes
  <2>3. Found' = {} /\ (handle.no >= 0 => FoundVolumes' = {})
    BY <1>1, <1>2, <1>5, NothingAdded
  <2>4. QED
    BY <1>2, <1>7, <2>1, <2>2, <2>3 DEF ScannedInStep, FindsTheLayout
<1>10. EbrInStep' /\ GptInStep'
  BY <1>1 DEF EbrInStep, GptInStep
<1>11. ScanTypeOK'
  BY <1>1, <1>2, <1>3, <1>6, NothingAdded DEF ScanTypeOK
<1>12. QED
  BY <1>1, <1>2, <1>8, <1>9, <1>10, <1>11, NothingAdded DEF ScanInv

LEMMA EnterExtendedInv == ASSUME ScanInv, EnterExtended PROVE ScanInv'
<1> DEFINE d == handle.disk
<1>1. /\ Scanning /\ pc = "primary" /\ pc' = "ebr" /\ i < 4 /\ i' = i /\ entry' = entry
      /\ d.table[i + 1].type = "extended" /\ handle' = handle
      /\ ebr' = [base |-> d.table[i + 1].start, ebr2 |-> 0, logical |-> 4]
  BY DEF EnterExtended, Scanning, Primary
<1>2. UNCHANGED <<machine, dev, ndisks, diskno, handle, nparts, volumes>>
  BY DEF EnterExtended
<1>3. ScanTypeOK /\ PrimaryInStep
  BY DEF ScanInv
<1>4. d \in Layouts /\ i \in 0 .. 3 /\ i + 1 \in 1 .. 4
  BY <1>1, <1>3, OpenedAt
<1>5. d.table[i + 1].start \in Nat /\ Len(d.logical) \in Nat /\ DOMAIN d.logical = 1 .. Len(d.logical)
  BY <1>4, LayoutTypes
<1>6. ~Holds(d, i, "extended") /\ ~Holds(d, i, "gpt")
  <2>1. ASSUME NEW m \in 1 .. i PROVE d.table[m].type \notin {"extended", "gpt"}
    <3>1. m \in 1 .. 4 /\ m # i + 1
      BY <1>4
    <3>2. "extended" # "none"
      OBVIOUS
    <3>3. QED
      BY <1>1, <1>4, <3>1, <3>2, LayoutFacts
  <2>2. QED
    BY <2>1 DEF Holds
<1>7. /\ LinkedTo(d, i, 0, "ext2") = PartitionsTo(d, i)
      /\ LinkedTo(d, i, 0, "lvm") = TablesTo(d, i, "lvm")
  BY <1>6 DEF LinkedTo, PartitionsTo, TablesTo, LogicalsTo
<1>8. Found = Mounting(d, PartitionsTo(d, i)) /\ (handle.no >= 0 => FoundVolumes = Starts(TablesTo(d, i, "lvm")))
  BY <1>1, <1>3 DEF PrimaryInStep, FoundIs
<1>9. \A p \in Found : p[2] < 4
  <2>1. \A p \in Found : p \in PrimariesTo(d, i, "ext2")
    BY <1>6, <1>8 DEF PartitionsTo, TablesTo, Mounting
  <2>2. \A p \in PrimariesTo(d, i, "ext2") : p[2] < 4
    BY <1>4 DEF PrimariesTo
  <2>3. QED
    BY <2>1, <2>2
<1>10. EbrInStep'
  <2>1. Read' = 0 /\ ebr'.logical = 4 /\ ebr'.base = d.table[i + 1].start
    BY <1>1 DEF Read
  <2>2. Len(d.logical) > 0 /\ EbrSector' = d.logical[0 + 1].ebr
    <3>1. Len(d.logical) > 0 /\ d.logical[1].ebr = d.table[i + 1].start
      BY <1>1, <1>4, LayoutFacts
    <3>2. EbrSector' = d.table[i + 1].start
      BY <1>1, <1>5 DEF EbrSector
    <3>3. QED
      BY <3>1, <3>2
  <2>3. FoundIs(LinkedTo(handle.disk, i, Read, "ext2"), LinkedTo(handle.disk, i, Read, "lvm"))'
    BY <1>1, <1>2, <1>7, <1>8, <2>1, NothingAdded DEF FoundIs
  <2>4. NumbersTo(ebr.logical)'
    BY <1>1, <1>2, <1>9, <2>1, NothingAdded DEF NumbersTo
  <2>5. \A k \in DOMAIN d.logical : ~(k <= 0)
    BY <1>5
  <2>6. d.mbr = "good"
    BY <1>1, <1>3 DEF PrimaryInStep
  <2>7. Primary'.type = "extended" /\ ebr'.base = Primary'.start
    BY <1>1, <2>1 DEF Primary
  <2>8. 0 \in 0 .. MaxRounds /\ ~(0 >= Len(d.logical))
    BY <2>2
  <2>9. QED
    BY <1>1, <2>1, <2>2, <2>3, <2>4, <2>5, <2>6, <2>7, <2>8 DEF EbrInStep
<1>11. ScanTypeOK'
  BY <1>1, <1>2, <1>3, <1>5, NothingAdded DEF ScanTypeOK
<1>12. PrimaryInStep' /\ GptInStep' /\ ScannedInStep'
  BY <1>1 DEF PrimaryInStep, GptInStep, ScannedInStep
<1>13. QED
  BY <1>1, <1>2, <1>10, <1>11, <1>12, NothingAdded DEF ScanInv

\* In front of the entry of a GUID partition table, and behind it, the MBR has
\* no other.
LEMMA NothingBesideGPT ==
  ASSUME NEW d \in Layouts, NEW n \in 0 .. 3, d.table[n + 1].type = "gpt"
  PROVE  /\ PartitionsTo(d, n) = {} /\ TablesTo(d, n, "lvm") = {}
         /\ PartitionsTo(d, n + 1) = InGPT(d) /\ TablesTo(d, n + 1, "lvm") = {}
         /\ Holds(d, n + 1, "gpt")
<1>1. ASSUME NEW m \in 1 .. n PROVE d.table[m].type = "none"
  <2>1. m \in 1 .. 4 /\ m # n + 1 /\ n + 1 \in 1 .. 4
    OBVIOUS
  <2>2. QED
    BY <2>1, LayoutFacts
<1>2. /\ ~Holds(d, n, "extended") /\ ~Holds(d, n, "gpt")
      /\ PrimariesTo(d, n, "ext2") = {} /\ PrimariesTo(d, n, "lvm") = {}
  BY <1>1 DEF Holds, PrimariesTo
<1>3. /\ ~Holds(d, n + 1, "extended") /\ Holds(d, n + 1, "gpt")
      /\ PrimariesTo(d, n + 1, "ext2") = {} /\ PrimariesTo(d, n + 1, "lvm") = {}
  BY <1>2, PrimariesNext
<1>4. QED
  BY <1>2, <1>3 DEF PartitionsTo, TablesTo

LEMMA EnterGPTInv == ASSUME ScanInv, EnterGPT PROVE ScanInv'
<1> DEFINE d == handle.disk
<1>1. /\ Scanning /\ pc = "primary" /\ i < 4 /\ handle' = handle /\ ebr' = ebr /\ entry' = 0
      /\ d.table[i + 1].type = "gpt"
  BY DEF EnterGPT, Scanning, Primary
<1>2. UNCHANGED <<machine, dev, ndisks, diskno, handle, nparts, volumes>>
  BY DEF EnterGPT
<1>3. ScanTypeOK /\ PrimaryInStep
  BY DEF ScanInv
<1>4. d \in Layouts /\ i \in 0 .. 3 /\ i + 1 \in 1 .. 4
  BY <1>1, <1>3, OpenedAt
<1>5. \/ d.table[i + 1].start \in d.lost /\ i' = i + 1 /\ pc' = "primary"
      \/ d.table[i + 1].start \notin d.lost /\ i' = i /\ pc' = "gpt"
  BY <1>1 DEF EnterGPT, Primary
<1>6. PartitionsTo(d, i) = {} /\ TablesTo(d, i, "lvm") = {}
  BY <1>1, <1>4, NothingBesideGPT
<1>7. Found = Mounting(d, {}) /\ (handle.no >= 0 => FoundVolumes = Starts({})) /\ d.mbr = "good"
  BY <1>1, <1>3, <1>6 DEF PrimaryInStep, FoundIs
<1>8. Found' = Mounting(d, {}) /\ (handle.no >= 0 => FoundVolumes' = Starts({}))
  BY <1>1, <1>2, <1>5, <1>7, NothingAdded
<1>9. PrimaryInStep'
  <2>1. SUFFICES ASSUME pc' = "primary" PROVE PrimaryInStep'
    BY DEF PrimaryInStep
  <2>2. i' = i + 1 /\ d.table[i + 1].start \in d.lost
    BY <1>5, <2>1
  <2>3. /\ PartitionsTo(d, i + 1) = {} /\ TablesTo(d, i + 1, "lvm") = {}
        /\ Holds(d, i + 1, "gpt")
    BY <1>1, <1>4, <2>2, NothingBesideGPT, UpToLostSector
  <2>4. FoundIs(PartitionsTo(handle.disk, i), TablesTo(handle.disk, i, "lvm"))'
    BY <1>1, <1>8, <2>2, <2>3 DEF FoundIs
  <2>5. QED
    BY <1>1, <1>7, <2>2, <2>3, <2>4 DEF PrimaryInStep
<1>10. GptInStep'
  <2>1. SUFFICES ASSUME pc' = "gpt" PROVE GptInStep'
    BY DEF GptInStep
  <2>2. i' = i /\ d.table[i + 1].start \notin d.lost
    BY <1>5, <2>1
  <2>3. EntriesTo(d, 0) = {}
    <3>1. DOMAIN d.gpt = 1 .. Len(d.gpt) /\ Len(d.gpt) \in Nat
      BY <1>4, LayoutTypes
    <3>2. \A j \in DOMAIN d.gpt : ~(j <= 0)
      BY <3>1
    <3>3. QED
      BY <3>2 DEF EntriesTo
  <2>4. FoundIs(EntriesTo(handle.disk, entry), {})'
    BY <1>1, <1>8, <2>3 DEF FoundIs
  <2>5. NumbersTo(entry)'
    BY <1>8, MountingUnion DEF NumbersTo
  <2>6. Primary' = d.table[i + 1]
    BY <1>1, <2>2 DEF Primary
  <2>7. 0 .. entry' - 1 = {}
    BY <1>1
  <2>8. QED
    BY <1>1, <1>7, <2>2, <2>4, <2>5, <2>6, <2>7 DEF GptInStep
<1>11. ScanTypeOK'
  <2>1. i' \in 0 .. 4 /\ (pc' = "gpt" => i' < 4) /\ pc' \in {"primary", "gpt"}
    BY <1>4, <1>5
  <2>2. ebr' \in [base : Int, ebr2 : Int, logical : Int] /\ entry' \in Nat
    BY <1>1, <1>3 DEF ScanTypeOK
  <2>3. QED
    BY <1>1, <1>2, <2>1, <2>2, NothingAdded DEF ScanTypeOK
<1>12. EbrInStep' /\ ScannedInStep'
  BY <1>5 DEF EbrInStep, ScannedInStep
<1>13. QED
  BY <1>1, <1>2, <1>5, <1>9, <1>10, <1>11, <1>12, NothingAdded DEF ScanInv

LEMMA PrimariesDoneInv == ASSUME ScanInv, PrimariesDone PROVE ScanInv'
<1> DEFINE d == handle.disk
<1>1. /\ Scanning /\ pc = "primary" /\ pc' = "scanned" /\ ret' = 0 /\ i = 4
      /\ handle' = handle /\ i' = i /\ ebr' = ebr /\ entry' = entry
  BY DEF PrimariesDone, Return, Scanning, position
<1>2. UNCHANGED <<machine, dev, ndisks, diskno, handle, nparts, volumes>>
  BY DEF PrimariesDone
<1>3. ScanTypeOK /\ PrimaryInStep
  BY DEF ScanInv
<1>4. d \in Layouts
  BY <1>1, <1>3, Opened
<1>5. /\ d.mbr = "good" /\ Found = Mounting(d, PartitionsTo(d, 4))
      /\ handle.no >= 0 => FoundVolumes = Starts(TablesTo(d, 4, "lvm"))
  BY <1>1, <1>3 DEF PrimaryInStep, FoundIs
<1>6. Found' = Partitions(d) /\ (handle.no >= 0 => FoundVolumes' = Volumes(d))
  BY <1>1, <1>2, <1>4, <1>5, AllOfTheDisk, NothingAdded
<1>7. ScannedInStep'
  BY <1>1, <1>6 DEF ScannedInStep, FindsTheLayout
<1>8. ScanTypeOK'
  BY <1>1, <1>2, <1>3, NothingAdded DEF ScanTypeOK
<1>9. PrimaryInStep' /\ EbrInStep' /\ GptInStep'
  BY <1>1 DEF PrimaryInStep, EbrInStep, GptInStep
<1>10. QED
  BY <1>1, <1>2, <1>7, <1>8, <1>9, NothingAdded DEF ScanInv

LEMMA PastExtended ==
  ASSUME NEW d \in Layouts, NEW n \in 0 .. 3, d.table[n + 1].type = "extended"
  PROVE  /\ Holds(d, n + 1, "extended") /\ ~Holds(d, n + 1, "gpt")
         /\ PrimariesTo(d, n + 1, "ext2") = PrimariesTo(d, n, "ext2")
         /\ PrimariesTo(d, n + 1, "lvm") = PrimariesTo(d, n, "lvm")
<1>1. Holds(d, n + 1, "extended")
  BY PrimariesNext
<1>2. PrimariesTo(d, n + 1, "ext2") = PrimariesTo(d, n, "ext2") \cup {}
  BY PrimariesNext
<1>3. PrimariesTo(d, n + 1, "lvm") = PrimariesTo(d, n, "lvm") \cup {}
  BY PrimariesNext
<1>4. ASSUME NEW m \in 1 .. n + 1, d.table[m].type = "gpt" PROVE FALSE
  <2>1. m \in 1 .. 4 /\ n + 1 \in 1 .. 4
    OBVIOUS
  <2>2. QED
    BY <1>4, <2>1, LayoutFacts
<1>5. QED
  BY <1>1, <1>2, <1>3, <1>4 DEF Holds

\* Behind the EBRs scan_partitions goes on with all that they hold.
LEMMA BackFromEbr ==
  ASSUME ScanInv, pc = "ebr", BackToPrimaries, handle' = handle,
         NEW n \in 0 .. Len(handle.disk.logical),
         \A k \in 1 .. n : handle.disk.logical[k].ebr \notin handle.disk.lost,
         n = Len(handle.disk.logical) \/ handle.disk.logical[n + 1].ebr \in handle.disk.lost,
         Found' = Mounting(handle.disk, LinkedTo(handle.disk, i, n, "ext2")),
         handle.no >= 0 => FoundVolumes' = Starts(LinkedTo(handle.disk, i, n, "lvm"))
  PROVE  PrimaryInStep'
<1> DEFINE d == handle.disk
<1>1. /\ Scanning /\ pc' = "primary" /\ i' = i + 1 /\ ScanTypeOK /\ EbrInStep
  BY DEF BackToPrimaries, Scanning, ScanInv
<1>2. d \in Layouts /\ i \in 0 .. 3 /\ i + 1 \in 1 .. 4 /\ d.mbr = "good" /\ d.table[i + 1].type = "extended"
  BY <1>1, Opened DEF ScanTypeOK, EbrInStep, Primary
<1>3. /\ Holds(d, i + 1, "extended") /\ ~Holds(d, i + 1, "gpt")
      /\ PrimariesTo(d, i + 1, "ext2") = PrimariesTo(d, i, "ext2")
      /\ PrimariesTo(d, i + 1, "lvm") = PrimariesTo(d, i, "lvm")
  BY <1>2, PastExtended
<1>5. /\ InExtended(d, "ext2") = LogicalsTo(d, n, "ext2")
      /\ InExtended(d, "lvm") = LogicalsTo(d, n, "lvm")
  BY <1>2, UpToLostEbr
<1>6. /\ PartitionsTo(d, i + 1) = LinkedTo(d, i, n, "ext2")
      /\ TablesTo(d, i + 1, "lvm") = LinkedTo(d, i, n, "lvm")
  BY <1>3, <1>5 DEF PartitionsTo, TablesTo, LinkedTo
<1>7. FoundIs(PartitionsTo(handle.disk, i), TablesTo(handle.disk, i, "lvm"))'
  BY <1>1, <1>6 DEF FoundIs
<1>8. \A p \in Found' : p[2] < i + 1 \/ p[2] >= 4
  <2>1. \A p \in PrimariesTo(d, i, "ext2") : p[2] < i + 1
    BY <1>2 DEF PrimariesTo
  <2>2. \A p \in LogicalsTo(d, n, "ext2") : p[2] >= 4
    <3>1. \A k \in 1 .. n : 3 + k >= 4
      OBVIOUS
    <3>2. QED
      BY <3>1 DEF LogicalsTo
  <2>3. \A p \in Found' : p \in PrimariesTo(d, i, "ext2") \/ p \in LogicalsTo(d, n, "ext2")
    BY DEF Mounting, LinkedTo
  <2>4. QED
    BY <2>1, <2>2, <2>3
<1>9. QED
  BY <1>1, <1>2, <1>7, <1>8 DEF PrimaryInStep

LEMMA EbrLostInv == ASSUME ScanInv, EbrLost PROVE ScanInv'
<1> DEFINE d == handle.disk
<1>1. /\ Scanning /\ pc = "ebr" /\ pc' = "primary" /\ i' = i + 1
      /\ ~IsEbr(EbrSector) /\ handle' = handle /\ ebr' = ebr /\ entry' = entry
  BY DEF EbrLost, BackToPrimaries, Scanning, EbrSector
<1>2. UNCHANGED <<machine, dev, ndisks, diskno, handle, nparts, volumes>>
  BY DEF EbrLost
<1>3. ScanTypeOK /\ EbrInStep
  BY DEF ScanInv
<1>4. d \in Layouts /\ i \in 0 .. 3
  BY <1>1, <1>3, Opened DEF ScanTypeOK
<1>5. Len(d.logical) \in Nat /\ DOMAIN d.logical = 1 .. Len(d.logical)
  BY <1>4, LayoutTypes
<1>6. Read \in 0 .. MaxRounds /\ \A k \in DOMAIN d.logical : k <= Read => d.logical[k].ebr \notin d.lost
  BY <1>1, <1>3 DEF EbrInStep
<1>7. Read < Len(d.logical)
  <2>1. SUFFICES ASSUME Read >= Len(d.logical) PROVE FALSE
    BY <1>5, <1>6
  <2>2. PICK k \in DOMAIN d.logical : EbrSector = d.logical[k].ebr
    BY <1>1, <1>3, <2>1 DEF EbrInStep
  <2>3. k <= Read
    BY <1>5, <1>6, <2>1
  <2>4. IsEbr(EbrSector)
    BY <1>6, <2>2, <2>3 DEF IsEbr
  <2>5. QED
    BY <1>1, <2>4
<1>8. Read \in 0 .. Len(d.logical) /\ Read + 1 \in DOMAIN d.logical /\ \A k \in 1 .. Read : k \in DOMAIN d.logical /\ k <= Read
  BY <1>5, <1>6, <1>7
<1>9. d.logical[Read + 1].ebr \in d.lost
  <2>1. EbrSector = d.logical[Read + 1].ebr
    BY <1>1, <1>3, <1>7 DEF EbrInStep
  <2>2. QED
    BY <1>1, <1>8, <2>1 DEF IsEbr
<1>10. /\ Found' = Mounting(d, LinkedTo(d, i, Read, "ext2"))
       /\ handle.no >= 0 => FoundVolumes' = Starts(LinkedTo(d, i, Read, "lvm"))
  <2>1. Found' = Found /\ FoundVolumes' = FoundVolumes
    BY <1>1, <1>2, NothingAdded
  <2>2. QED
    BY <1>1, <1>3, <1>7, <2>1 DEF EbrInStep, FoundIs
<1>11. BackToPrimaries
  BY DEF EbrLost
<1>12. PrimaryInStep'
  BY <1>1, <1>6, <1>8, <1>9, <1>10, <1>11, BackFromEbr
<1>13. ScanTypeOK'
  <2>1. i' \in 0 .. 4
    BY <1>1, <1>4
  <2>2. QED
    BY <1>1, <1>2, <1>3, <2>1, NothingAdded DEF ScanTypeOK
<1>14. EbrInStep' /\ GptInStep' /\ ScannedInStep'
  BY <1>1 DEF EbrInStep, GptInStep, ScannedInStep
<1>15. QED
  BY <1>1, <1>2, <1>12, <1>13, <1>14, NothingAdded DEF ScanInv

-----------------------------------------------------------------------------
(* Steps that look at an entry                                             *)

\* What every such step keeps, whatever the entry is.
LEMMA EntryKeeps ==
  ASSUME ScanInv, Scanning, pc # "mbr",
         NEW type, NEW start \in Int, NEW number \in Int,
         type = "ext2" => \A p \in Found : p[2] # number,
         ScanEntry(type, start, number), pc' \notin {"disks", "mbr", "view"},
         UNCHANGED <<machine, dev, ndisks, diskno, handle>>
  PROVE  /\ machine' \in Machines /\ ndisks' \in Nat /\ diskno' \in 0 .. ndisks' /\ dev' \in Nat
         /\ handle' \in Handle
         /\ nparts' \in Seq(Part)
         /\ volumes' \subseteq [no : Int, start : Int]
         /\ CountersInStep' /\ EarlierHaveSmaller' /\ SlotsUnique' /\ SlotIsDevice' /\ FilesWhole'
<1>1. /\ machine' = machine /\ dev' = dev /\ ndisks' = ndisks /\ diskno' = diskno
      /\ handle' = handle
  OBVIOUS
<1>2. ScanTypeOK /\ CountersInStep /\ EarlierHaveSmaller /\ SlotsUnique /\ SlotIsDevice /\ FilesWhole
  BY DEF ScanInv
<1>3. pc \notin {"disks", "mbr"}
  BY DEF Scanning
<1>4. /\ nparts' \in Seq(Part)
      /\ volumes' \subseteq [no : Int, start : Int]
      /\ SlotsUnique' /\ SlotIsDevice' /\ FilesWhole' /\ EarlierHaveSmaller'
  BY <1>1, <1>2, <1>3, EntryScanned
<1>5. CountersInStep'
  BY <1>1, <1>2 DEF CountersInStep, Scanning
<1>6. QED
  BY <1>1, <1>2, <1>4, <1>5 DEF ScanTypeOK

\* What an entry adds to what was found.
LEMMA EntryFound ==
  ASSUME ScanInv, Scanning, pc # "mbr",
         NEW type, NEW start \in Int, NEW number \in Int,
         type = "ext2" => \A p \in Found : p[2] # number,
         ScanEntry(type, start, number), pc' \notin {"disks", "mbr", "view"},
         UNCHANGED <<ndisks, diskno, handle>>,
         NEW found, NEW lvm, FoundIs(found, lvm)
  PROVE  /\ Found' = Mounting(handle.disk,
                              found \cup (IF type = "ext2" THEN {<<start, number>>} ELSE {}))
         /\ handle.no >= 0 =>
              FoundVolumes' = Starts(lvm \cup (IF type = "lvm" THEN {<<start, number>>} ELSE {}))
<1> DEFINE more == IF type = "ext2" THEN {<<start, number>>} ELSE {}
           moreLvm == IF type = "lvm" THEN {<<start, number>>} ELSE {}
<1>1. ScanTypeOK /\ CountersInStep /\ EarlierHaveSmaller /\ SlotsUnique /\ SlotIsDevice /\ FilesWhole
  BY DEF ScanInv
<1>2. pc \notin {"disks", "mbr"}
  BY DEF Scanning
<1>3. /\ Found' = Found \cup Mounting(handle.disk, more)
      /\ FoundVolumes' = FoundVolumes \cup (IF type = "lvm" THEN {start} ELSE {})
  BY <1>1, <1>2, EntryScanned
<1>4. Starts(moreLvm) = IF type = "lvm" THEN {start} ELSE {}
  <2>1. CASE type = "lvm"
    <3>1. PICK t : t = <<start, number>>
      OBVIOUS
    <3>2. t[1] = start /\ moreLvm = {t}
      BY <2>1, <3>1
    <3>3. QED
      BY <2>1, <3>2 DEF Starts
  <2>2. CASE type # "lvm"
    BY <2>2 DEF Starts
  <2>3. QED
    BY <2>1, <2>2
<1> HIDE DEF more, moreLvm
<1>5. /\ Mounting(handle.disk, found \cup more) = Mounting(handle.disk, found) \cup Mounting(handle.disk, more)
      /\ Starts(lvm \cup moreLvm) = Starts(lvm) \cup Starts(moreLvm)
  <2>1. Mounting(handle.disk, found \cup more) = Mounting(handle.disk, found) \cup Mounting(handle.disk, more)
    BY DEF Mounting
  <2>2. Starts(lvm \cup moreLvm) = Starts(lvm) \cup Starts(moreLvm)
    BY MountingUnion
  <2>3. QED
    BY <2>1, <2>2
<1>6. Found' = Mounting(handle.disk, found \cup more)
  BY <1>3, <1>5 DEF FoundIs
<1>7. handle.no >= 0 => FoundVolumes' = Starts(lvm \cup moreLvm)
  BY <1>3, <1>4, <1>5 DEF FoundIs
<1>8. QED
  BY <1>6, <1>7 DEF more, moreLvm

LEMMA FoundNumbers ==
  ASSUME ScanTypeOK
  PROVE  \A p \in Found : p[2] \in Int
<1>1. nparts \in Seq(Part)
  BY DEF ScanTypeOK
<1>2. \A q \in Part : q.slot[2] \in Int
  BY DEF Part
<1>3. \A q \in Range(nparts) : q \in Part
  BY <1>1 DEF Range
<1>4. QED
  BY <1>2, <1>3 DEF Found

LEMMA PrimaryPassed ==
  ASSUME NEW d \in Layouts, NEW n \in 0 .. 3, d.table[n + 1].type \notin {"extended", "gpt"}
  PROVE  LET type == d.table[n + 1].type
             start == d.table[n + 1].start
         IN  /\ PartitionsTo(d, n + 1) =
                  PartitionsTo(d, n) \cup (IF type = "ext2" THEN {<<start, n>>} ELSE {})
             /\ TablesTo(d, n + 1, "lvm") =
                  TablesTo(d, n, "lvm") \cup (IF type = "lvm" THEN {<<start, n>>} ELSE {})
             /\ Holds(d, n + 1, "gpt") <=> Holds(d, n, "gpt")
             /\ Holds(d, n, "gpt") => type = "none"
<1>1. /\ Holds(d, n + 1, "extended") <=> Holds(d, n, "extended")
      /\ Holds(d, n + 1, "gpt") <=> Holds(d, n, "gpt")
  BY PrimariesNext
<1>2. Holds(d, n, "gpt") => d.table[n + 1].type = "none"
  <2>1. SUFFICES ASSUME NEW m \in 1 .. n, d.table[m].type = "gpt" PROVE d.table[n + 1].type = "none"
    BY DEF Holds
  <2>2. m \in 1 .. 4 /\ n + 1 \in 1 .. 4 /\ m # n + 1
    OBVIOUS
  <2>3. QED
    BY <2>1, <2>2, LayoutFacts
<1>3. PrimariesTo(d, n + 1, "ext2") = PrimariesTo(d, n, "ext2") \cup
        (IF d.table[n + 1].type = "ext2" THEN {<<d.table[n + 1].start, n>>} ELSE {})
  BY PrimariesNext
<1>4. PrimariesTo(d, n + 1, "lvm") = PrimariesTo(d, n, "lvm") \cup
        (IF d.table[n + 1].type = "lvm" THEN {<<d.table[n + 1].start, n>>} ELSE {})
  BY PrimariesNext
<1>5. \A A, B, C, D : (A \cup B) \cup C = (A \cup C) \cup B /\ ((A \cup B) \cup C) \cup D = ((A \cup C) \cup D) \cup B
  OBVIOUS
<1>6. QED
  BY <1>1, <1>2, <1>3, <1>4, <1>5 DEF PartitionsTo, TablesTo

LEMMA ScanPrimaryInv == ASSUME ScanInv, ScanPrimary PROVE ScanInv'
<1> DEFINE d == handle.disk
           e == d.table[i + 1]
<1>1. /\ Scanning /\ pc = "primary" /\ pc' = "primary" /\ i < 4 /\ i' = i + 1
      /\ e.type \notin {"extended", "gpt"} /\ ScanEntry(e.type, e.start, i)
      /\ handle' = handle /\ ebr' = ebr /\ entry' = entry
  BY DEF ScanPrimary, Scanning, Primary
<1>2. UNCHANGED <<machine, dev, ndisks, diskno, handle>>
  BY DEF ScanPrimary
<1>3. ScanTypeOK /\ PrimaryInStep
  BY DEF ScanInv
<1>4. d \in Layouts /\ i \in 0 .. 3 /\ i + 1 \in 1 .. 4 /\ i \in Int
  BY <1>1, <1>3, OpenedAt
<1>5. e.start \in Int
  <2>1. e.start \in Nat
    BY <1>4, LayoutTypes
  <2>2. QED
    BY <2>1
<1>6. /\ PartitionsTo(d, i + 1) =
           PartitionsTo(d, i) \cup (IF e.type = "ext2" THEN {<<e.start, i>>} ELSE {})
      /\ TablesTo(d, i + 1, "lvm") =
           TablesTo(d, i, "lvm") \cup (IF e.type = "lvm" THEN {<<e.start, i>>} ELSE {})
      /\ Holds(d, i + 1, "gpt") <=> Holds(d, i, "gpt")
      /\ Holds(d, i, "gpt") => e.type = "none"
  BY <1>1, <1>4, PrimaryPassed
<1>7. /\ FoundIs(PartitionsTo(d, i), TablesTo(d, i, "lvm")) /\ d.mbr = "good"
      /\ Holds(d, i, "gpt") \/ \A p \in Found : p[2] < i \/ p[2] >= 4
  BY <1>1, <1>3 DEF PrimaryInStep
<1>8. e.type = "ext2" => \A p \in Found : p[2] # i
  <2>1. e.type = "ext2" => ~Holds(d, i, "gpt")
    BY <1>6
  <2>2. QED
    BY <1>4, <1>7, <2>1
<1> HIDE DEF d, e
<1>9. /\ Found' = Mounting(d, PartitionsTo(d, i + 1))
      /\ handle.no >= 0 => FoundVolumes' = Starts(TablesTo(d, i + 1, "lvm"))
  <2>1. ndisks' = ndisks /\ diskno' = diskno
    BY <1>2
  <2>2. /\ Found' = Mounting(handle.disk, PartitionsTo(d, i) \cup
                                  (IF e.type = "ext2" THEN {<<e.start, i>>} ELSE {}))
        /\ handle.no >= 0 =>
             FoundVolumes' = Starts(TablesTo(d, i, "lvm") \cup
                                     (IF e.type = "lvm" THEN {<<e.start, i>>} ELSE {}))
    BY <1>1, <1>4, <1>5, <1>7, <1>8, <2>1, EntryFound
  <2>3. QED
    BY <1>6, <2>2 DEF d
<1>10. Holds(d, i + 1, "gpt") \/ \A p \in Found' : p[2] < i + 1 \/ p[2] >= 4
  <2>1. SUFFICES ASSUME ~Holds(d, i, "gpt"), NEW p \in Found' PROVE p[2] < i + 1 \/ p[2] >= 4
    BY <1>6
  <2>2. p \in Found \/ (p = <<e.start, i>>)
    <3>1. p \in PartitionsTo(d, i) \/ p = <<e.start, i>>
      BY <1>6, <1>9, <2>1 DEF Mounting
    <3>2. p[1] \in d.fs
      BY <1>9, <2>1 DEF Mounting
    <3>3. Found = Mounting(d, PartitionsTo(d, i))
      BY <1>7 DEF FoundIs, d
    <3>4. QED
      BY <3>1, <3>2, <3>3 DEF Mounting
  <2>3. p = <<e.start, i>> => p[2] < i + 1
    BY <1>4
  <2>4. p \in Found => p[2] < i \/ p[2] >= 4
    BY <1>7, <2>1
  <2>5. p \in Found /\ p[2] < i => p[2] < i + 1
    BY <1>3, <1>4, FoundNumbers
  <2>6. QED
    BY <2>2, <2>3, <2>4, <2>5
<1>11. PrimaryInStep'
  <2>1. FoundIs(PartitionsTo(handle.disk, i), TablesTo(handle.disk, i, "lvm"))'
    BY <1>1, <1>9 DEF FoundIs, d
  <2>2. QED
    BY <1>1, <1>7, <1>10, <2>1 DEF PrimaryInStep, d
<1>12. ScanTypeOK'
  BY <1>1, <1>2, <1>3, <1>4, <1>5, <1>8, EntryKeeps DEF ScanTypeOK
<1>13. EbrInStep' /\ GptInStep' /\ ScannedInStep'
  BY <1>1 DEF EbrInStep, GptInStep, ScannedInStep
<1>14. QED
  BY <1>1, <1>2, <1>4, <1>5, <1>8, <1>11, <1>12, <1>13, EntryKeeps DEF ScanInv

LEMMA GptDoneInv == ASSUME ScanInv, GptDone PROVE ScanInv'
<1> DEFINE d == handle.disk
           h == d.table[i + 1].start
<1>1. /\ Scanning /\ pc = "gpt" /\ pc' = "primary" /\ i' = i + 1
      /\ entry >= Len(d.gpt) \/ h + 1 + entry \div EPS \in d.lost
      /\ handle' = handle /\ ebr' = ebr /\ entry' = entry
  BY DEF GptDone, BackToPrimaries, Scanning, TableSector, Primary
<1>2. UNCHANGED <<machine, dev, ndisks, diskno, handle, nparts, volumes>>
  BY DEF GptDone
<1>3. ScanTypeOK /\ GptInStep
  BY DEF ScanInv
<1>4. d \in Layouts /\ i \in 0 .. 3 /\ i + 1 \in 1 .. 4 /\ entry \in Nat
  BY <1>1, <1>3, Opened DEF ScanTypeOK
<1>5. /\ d.mbr = "good" /\ d.table[i + 1].type = "gpt" /\ h \notin d.lost
      /\ \A m \in 0 .. entry - 1 : h + 1 + m \div EPS \notin d.lost
      /\ FoundIs(EntriesTo(d, entry), {})
  BY <1>1, <1>3 DEF GptInStep, Primary
<1>6. InGPT(d) = EntriesTo(d, entry)
  BY <1>1, <1>4, <1>5, UpToLostSector
<1>7. /\ PartitionsTo(d, i + 1) = InGPT(d) /\ TablesTo(d, i + 1, "lvm") = {}
      /\ Holds(d, i + 1, "gpt")
  BY <1>4, <1>5, NothingBesideGPT
<1>8. Found' = Mounting(d, EntriesTo(d, entry)) /\ (handle.no >= 0 => FoundVolumes' = Starts({}))
  BY <1>1, <1>2, <1>5, NothingAdded DEF FoundIs
<1>9. PrimaryInStep'
  <2>1. FoundIs(PartitionsTo(handle.disk, i), TablesTo(handle.disk, i, "lvm"))'
    BY <1>1, <1>6, <1>7, <1>8 DEF FoundIs
  <2>2. QED
    BY <1>1, <1>5, <1>7, <2>1 DEF PrimaryInStep
<1>10. ScanTypeOK'
  <2>1. i' \in 0 .. 4
    BY <1>1, <1>4
  <2>2. QED
    BY <1>1, <1>2, <1>3, <2>1, NothingAdded DEF ScanTypeOK
<1>11. EbrInStep' /\ GptInStep' /\ ScannedInStep'
  BY <1>1 DEF EbrInStep, GptInStep, ScannedInStep
<1>12. QED
  BY <1>1, <1>2, <1>9, <1>10, <1>11, NothingAdded DEF ScanInv

LEMMA ScanGptEntryInv == ASSUME ScanInv, ScanGptEntry PROVE ScanInv'
<1> DEFINE d == handle.disk
           h == d.table[i + 1].start
           linux == entry < Len(d.gpt) /\ d.gpt[entry + 1].type = "linux"
           type == IF linux THEN "ext2" ELSE "none"
           start == IF linux THEN d.gpt[entry + 1].start ELSE 0
<1>1. /\ Scanning /\ pc = "gpt" /\ pc' = "gpt" /\ i' = i /\ entry' = entry + 1
      /\ SectorStarts => h + 1 + entry \div EPS \notin d.lost
      /\ handle' = handle /\ ebr' = ebr /\ ndisks' = ndisks /\ diskno' = diskno
  BY DEF ScanGptEntry, Scanning, TableSector, Primary
<1>2. ScanEntry(type, start, entry)
  <2>1. volumes' = volumes
    BY DEF ScanGptEntry
  <2>2. IF linux THEN AddPartition(start, entry) ELSE UNCHANGED nparts
    BY DEF ScanGptEntry, Number
  <2>3. type = "ext2" <=> linux
    OBVIOUS
  <2>4. type # "lvm"
    OBVIOUS
  <2> HIDE DEF type, linux
  <2>5. QED
    BY <2>1, <2>2, <2>3, <2>4 DEF ScanEntry
<1>3. UNCHANGED <<machine, dev, ndisks, diskno, handle>>
  BY DEF ScanGptEntry
<1>4. ScanTypeOK /\ GptInStep
  BY DEF ScanInv
<1>5. d \in Layouts /\ i \in 0 .. 3 /\ entry \in Nat /\ entry \in Int /\ entry + 1 \in Nat
  BY <1>1, <1>4, Opened DEF ScanTypeOK
<1>6. start \in Int
  <2>1. Len(d.gpt) \in Nat /\ DOMAIN d.gpt = 1 .. Len(d.gpt)
    BY <1>5, LayoutTypes
  <2>2. linux => entry + 1 \in DOMAIN d.gpt
    BY <1>5, <2>1
  <2>3. linux => d.gpt[entry + 1].start \in Nat
    BY <1>5, <2>2, LayoutTypes
  <2>4. QED
    BY <2>3
<1>7. /\ d.mbr = "good" /\ d.table[i + 1].type = "gpt" /\ h \notin d.lost
      /\ \A m \in 0 .. entry - 1 : h + 1 + m \div EPS \notin d.lost
      /\ FoundIs(EntriesTo(d, entry), {})
      /\ \A p \in Found : p[2] < entry
  BY <1>1, <1>4 DEF GptInStep, Primary, NumbersTo
<1>8. \A p \in Found : p[2] # entry
  BY <1>5, <1>7
<1>9. EntriesTo(d, entry + 1) = EntriesTo(d, entry) \cup (IF type = "ext2" THEN {<<start, entry>>} ELSE {})
  <2>1. EntriesTo(d, entry + 1) = EntriesTo(d, entry) \cup
          (IF entry < Len(d.gpt) /\ d.gpt[entry + 1].type = "linux"
             THEN {<<d.gpt[entry + 1].start, entry>>} ELSE {})
    BY <1>5, EntriesNext
  <2>2. CASE linux
    BY <2>1, <2>2
  <2>3. CASE ~linux
    BY <2>1, <2>3
  <2>4. QED
    BY <2>2, <2>3
<1>10. {} \cup (IF type = "lvm" THEN {<<start, entry>>} ELSE {}) = {}
  OBVIOUS
<1> HIDE DEF type, start, linux, d, h
<1>11. Found' = Mounting(d, EntriesTo(d, entry + 1)) /\ (handle.no >= 0 => FoundVolumes' = Starts({}))
  <2>1. /\ Found' = Mounting(handle.disk, EntriesTo(d, entry) \cup
                                  (IF type = "ext2" THEN {<<start, entry>>} ELSE {}))
        /\ handle.no >= 0 =>
             FoundVolumes' = Starts({} \cup (IF type = "lvm" THEN {<<start, entry>>} ELSE {}))
    BY <1>1, <1>2, <1>5, <1>6, <1>7, <1>8, EntryFound
  <2>2. QED
    BY <1>9, <1>10, <2>1 DEF d
<1>12. \A p \in Found' : p[2] < entry + 1
  <2>1. \A p \in EntriesTo(d, entry + 1) : p[2] < entry + 1
    <3>1. DOMAIN d.gpt = 1 .. Len(d.gpt) /\ Len(d.gpt) \in Nat
      BY <1>5, LayoutTypes
    <3>2. \A k \in DOMAIN d.gpt : k <= entry + 1 => k - 1 < entry + 1
      BY <1>5, <3>1
    <3>3. QED
      BY <3>2 DEF EntriesTo
  <2>2. QED
    BY <1>11, <2>1 DEF Mounting
<1>13. \A m \in 0 .. (entry + 1) - 1 : h + 1 + m \div EPS \notin d.lost
  <2>1. SUFFICES ASSUME NEW m \in Nat, m = entry PROVE h + 1 + m \div EPS \notin d.lost
    <3>1. \A m \in 0 .. (entry + 1) - 1 : m \in 0 .. entry - 1 \/ (m \in Nat /\ m = entry)
      BY <1>5
    <3>2. QED
      BY <1>7, <3>1
  <2>2. CASE SectorStarts
    BY <1>1, <2>1, <2>2
  <2>3. CASE ~SectorStarts
    <3>1. entry % EPS # 0 /\ entry \in Nat \ {0}
      <4>1. entry % EPS # 0
        BY <2>3 DEF SectorStarts
      <4>2. 0 % EPS = 0
        OBVIOUS
      <4>3. QED
        BY <1>5, <4>1, <4>2
    <3>2. entry \div EPS = (entry - 1) \div EPS
      BY <3>1, SameSector
    <3>3. entry - 1 \in 0 .. entry - 1
      BY <3>1
    <3>4. QED
      BY <1>7, <2>1, <3>2, <3>3
  <2>4. QED
    BY <2>2, <2>3
<1>14. GptInStep'
  <2>1. FoundIs(EntriesTo(handle.disk, entry), {})'
    BY <1>1, <1>11 DEF FoundIs, d
  <2>2. NumbersTo(entry)'
    BY <1>1, <1>12 DEF NumbersTo
  <2>3. Primary' = d.table[i + 1]
    BY <1>1 DEF Primary, d
  <2>4. QED
    BY <1>1, <1>7, <1>13, <2>1, <2>2, <2>3 DEF GptInStep, d, h
<1>15. ScanTypeOK'
  <2>1. i' \in 0 .. 4 /\ i' < 4 /\ entry' \in Nat
    BY <1>1, <1>5
  <2>2. type = "ext2" => \A p \in Found : p[2] # entry
    BY <1>8
  <2>3. QED
    BY <1>1, <1>2, <1>3, <1>4, <1>5, <1>6, <2>1, <2>2, EntryKeeps DEF ScanTypeOK
<1>16. PrimaryInStep' /\ EbrInStep' /\ ScannedInStep'
  BY <1>1 DEF PrimaryInStep, EbrInStep, ScannedInStep
<1>17. QED
  BY <1>1, <1>2, <1>3, <1>5, <1>6, <1>8, <1>14, <1>15, <1>16, EntryKeeps DEF ScanInv

LEMMA NextEbr ==
  ASSUME NEW r \in [base : Int, ebr2 : Int, logical : Int], NEW n \in Int
  PROVE  [r EXCEPT !.ebr2 = n, !.logical = @ + 1] \in [base : Int, ebr2 : Int, logical : Int]
<1>1. PICK s : s = [r EXCEPT !.ebr2 = n]
  OBVIOUS
<1>2. s \in [base : Int, ebr2 : Int, logical : Int]
  BY <1>1
<1>3. PICK m \in Int : m = r.logical + 1
  OBVIOUS
<1>4. [s EXCEPT !.logical = m] \in [base : Int, ebr2 : Int, logical : Int]
  BY <1>2
<1>5. [r EXCEPT !.ebr2 = n, !.logical = @ + 1] = [[r EXCEPT !.ebr2 = n] EXCEPT !.logical = r.logical + 1]
  OBVIOUS
<1>6. QED
  BY <1>1, <1>3, <1>4, <1>5

LEMMA ScanLogicalInv == ASSUME ScanInv, ScanLogical PROVE ScanInv'
<1> DEFINE d == handle.disk
           l == d.logical
           K == EbrIndex(EbrSector)
           follow == IF K < Len(l) THEN K + 1 ELSE d.back
           start == LogicalStart(Ebr(EbrSector))
<1>1. /\ Scanning /\ pc = "ebr" /\ IsEbr(EbrSector) /\ ebr.logical < 4 + MaxRounds
      /\ ScanEntry(Ebr(EbrSector).type, start, ebr.logical)
      /\ ebr' = [ebr EXCEPT !.ebr2 = Ebr(EbrSector).next, !.logical = @ + 1]
      /\ IF IsLast(Ebr(EbrSector)) THEN BackToPrimaries ELSE pc' = pc /\ i' = i
      /\ handle' = handle /\ entry' = entry
  BY DEF ScanLogical, Scanning, EbrSector
<1>2. UNCHANGED <<machine, dev, ndisks, diskno, handle>> /\ ndisks' = ndisks /\ diskno' = diskno
  BY DEF ScanLogical
<1>3. ScanTypeOK /\ EbrInStep
  BY DEF ScanInv
<1>4. d \in Layouts /\ i \in 0 .. 3 /\ i + 1 \in 1 .. 4
  BY <1>1, <1>3, OpenedAt
<1>5. /\ Len(l) \in Nat /\ DOMAIN l = 1 .. Len(l)
      /\ \A k \in DOMAIN l : l[k].ebr \in Nat /\ l[k].start \in Nat
  BY <1>4, LayoutTypes
<1>6. /\ d.mbr = "good" /\ d.table[i + 1].type = "extended" /\ ebr.base = d.table[i + 1].start
      /\ Read \in 0 .. MaxRounds
      /\ \A k \in DOMAIN l : k <= Read => l[k].ebr \notin d.lost
      /\ Read < Len(l) =>
           /\ EbrSector = l[Read + 1].ebr
           /\ FoundIs(LinkedTo(d, i, Read, "ext2"), LinkedTo(d, i, Read, "lvm"))
      /\ Read >= Len(l) => d.back # 0 /\ \E k \in DOMAIN l : EbrSector = l[k].ebr
      /\ \A p \in Found : p[2] < ebr.logical
  BY <1>1, <1>3 DEF EbrInStep, Primary, NumbersTo
<1>7. /\ \A j, k \in DOMAIN l : l[j].ebr = l[k].ebr => j = k
      /\ d.back \in 0 .. Len(l)
  BY <1>4, <1>6, LayoutFacts
<1>8. /\ K \in DOMAIN l /\ l[K].ebr = EbrSector
      /\ \A k \in DOMAIN l : l[k].ebr = EbrSector => k = K
      /\ EbrSector \notin d.lost
  <2>1. \E k \in DOMAIN l : l[k].ebr = EbrSector
    BY <1>1 DEF IsEbr
  <2>2. K \in DOMAIN l /\ l[K].ebr = EbrSector
    BY <2>1 DEF EbrIndex
  <2>3. QED
    BY <1>1, <1>7, <2>2 DEF IsEbr
<1>9. /\ Ebr(EbrSector).type = l[K].type
      /\ Ebr(EbrSector).start = l[K].start - EbrSector
      /\ Ebr(EbrSector).more <=> follow # 0
      /\ Ebr(EbrSector).next = IF follow = 0 THEN 0 ELSE l[follow].ebr - ebr.base
  BY DEF Ebr
<1> DEFINE e == Ebr(EbrSector)
<1> HIDE DEF e
<1>10. e.type = l[K].type /\ (IsLast(e) <=> follow = 0)
  BY <1>9 DEF IsLast, e
<1>11. ebr.base \in Int /\ ebr.ebr2 \in Int /\ ebr.logical \in Int /\ EbrSector \in Int
  BY <1>3 DEF ScanTypeOK, EbrSector
<1>12. start = l[K].start
  <2>1. start = EbrSector + (l[K].start - EbrSector)
    BY <1>9 DEF LogicalStart, EbrSector
  <2>2. QED
    BY <1>5, <1>8, <1>11, <2>1
<1>13. follow \in 0 .. Len(l)
  BY <1>5, <1>7, <1>8
<1>14. /\ ebr'.base = ebr.base /\ ebr'.logical = ebr.logical + 1 /\ Read' = Read + 1
       /\ follow # 0 => EbrSector' = l[follow].ebr
       /\ ebr' \in [base : Int, ebr2 : Int, logical : Int]
  <2>1. /\ ebr'.base = ebr.base /\ ebr'.logical = ebr.logical + 1
        /\ ebr'.ebr2 = IF follow = 0 THEN 0 ELSE l[follow].ebr - ebr.base
    BY <1>1, <1>3, <1>9 DEF ScanTypeOK
  <2>2. follow # 0 => l[follow].ebr \in Int
    BY <1>5, <1>13
  <2>3. follow # 0 => EbrSector' = l[follow].ebr
    BY <1>11, <2>1, <2>2 DEF EbrSector
  <2>4. ebr'.ebr2 \in Int
    BY <1>11, <2>1, <2>2
  <2>5. Read' = Read + 1
    BY <1>11, <2>1 DEF Read
  <2>6. ebr' \in [base : Int, ebr2 : Int, logical : Int]
    <3>1. PICK n \in Int : n = Ebr(EbrSector).next
      BY <1>9, <1>11, <2>2
    <3>2. ebr' = [ebr EXCEPT !.ebr2 = n, !.logical = @ + 1]
      BY <1>1, <3>1
    <3>3. ebr \in [base : Int, ebr2 : Int, logical : Int]
      BY <1>3 DEF ScanTypeOK
    <3>4. QED
      BY <3>2, <3>3, NextEbr
  <2>7. QED
    BY <2>1, <2>3, <2>5, <2>6
<1>15. e.type = "ext2" => \A p \in Found : p[2] # ebr.logical
  BY <1>6, <1>11
<1>16. ScanEntry(e.type, l[K].start, ebr.logical) /\ l[K].start \in Int
  <2>1. l[K].start \in Nat
    BY <1>5, <1>8
  <2>2. QED
    BY <1>1, <1>12, <2>1 DEF e
<1>17. /\ follow = 0 => pc' = "primary" /\ i' = i + 1 /\ BackToPrimaries
       /\ follow # 0 => pc' = "ebr" /\ i' = i
  BY <1>1, <1>10 DEF BackToPrimaries, e
<1>18. /\ follow # 0 => follow = K + 1 \/ (K = Len(l) /\ follow = d.back)
       /\ follow = 0 => K = Len(l) /\ d.back = 0
       /\ K < Len(l) => follow = K + 1
  BY <1>5, <1>8
<1> HIDE DEF follow, K, start
<1>19. Read < Len(l) => K = Read + 1
  <2>1. SUFFICES ASSUME Read < Len(l) PROVE K = Read + 1
    OBVIOUS
  <2>2. Read + 1 \in DOMAIN l
    BY <1>5, <1>6, <2>1
  <2>3. QED
    BY <1>6, <1>8, <2>1, <2>2
<1>20. \A p \in Found' : p[2] < ebr.logical + 1
  <2>1. CountersInStep /\ EarlierHaveSmaller /\ SlotsUnique /\ SlotIsDevice /\ FilesWhole /\ pc' \notin {"disks", "mbr", "view"}
    BY <1>17 DEF ScanInv
  <2>2. Found' = Found \cup Mounting(handle.disk, IF e.type = "ext2" THEN {<<l[K].start, ebr.logical>>} ELSE {})
    BY <1>1, <1>2, <1>3, <1>11, <1>15, <1>16, <2>1, EntryScanned
  <2>3. \A p \in Found : p[2] \in Int
    BY <1>3, FoundNumbers
  <2>4. \A p \in Found' : p \in Found \/ p = <<l[K].start, ebr.logical>>
    BY <2>2 DEF Mounting
  <2>5. ebr.logical < ebr.logical + 1 /\ \A n \in Int : n < ebr.logical => n < ebr.logical + 1
    BY <1>11
  <2>6. QED
    BY <1>6, <2>3, <2>4, <2>5
<1>21. ASSUME Read < Len(l)
       PROVE  /\ Found' = Mounting(d, LinkedTo(d, i, Read + 1, "ext2"))
              /\ handle.no >= 0 => FoundVolumes' = Starts(LinkedTo(d, i, Read + 1, "lvm"))
  <2>1. /\ Found' = Mounting(handle.disk, LinkedTo(d, i, Read, "ext2") \cup
                                (IF e.type = "ext2" THEN {<<l[K].start, ebr.logical>>} ELSE {}))
        /\ handle.no >= 0 =>
             FoundVolumes' = Starts(LinkedTo(d, i, Read, "lvm") \cup
                                     (IF e.type = "lvm" THEN {<<l[K].start, ebr.logical>>} ELSE {}))
    <3>1. pc' \notin {"disks", "mbr", "view"}
      BY <1>17
    <3>2. FoundIs(LinkedTo(d, i, Read, "ext2"), LinkedTo(d, i, Read, "lvm"))
      BY <1>6, <1>21
    <3>3. QED
      BY <1>1, <1>2, <1>11, <1>15, <1>16, <3>1, <3>2, EntryFound
  <2>2. ebr.logical = 4 + Read /\ Read \in Nat
    BY <1>6, <1>11 DEF Read
  <2>3. ASSUME NEW type
        PROVE  LinkedTo(d, i, Read + 1, type) =
                 LinkedTo(d, i, Read, type) \cup
                 (IF e.type = type THEN {<<l[K].start, ebr.logical>>} ELSE {})
    <3>1. e.type = l[Read + 1].type /\ l[K].start = l[Read + 1].start
      BY <1>10, <1>19, <1>21
    <3>2. LogicalsTo(d, Read + 1, type) =
            LogicalsTo(d, Read, type) \cup
            (IF e.type = type THEN {<<l[K].start, ebr.logical>>} ELSE {})
      <4>1. PICK n \in Nat : n = Read
        BY <2>2
      <4>2. LogicalsTo(d, n + 1, type) =
              LogicalsTo(d, n, type) \cup
              (IF d.logical[n + 1].type = type THEN {<<d.logical[n + 1].start, 4 + n>>} ELSE {})
        BY LogicalsNext, Zenon
      <4>3. QED
        BY <2>2, <3>1, <4>1, <4>2
    <3>3. QED
      BY <3>2 DEF LinkedTo
  <2>4. QED
    BY <2>1, <2>3
<1>22. EbrInStep'
  <2>1. SUFFICES ASSUME pc' = "ebr" PROVE EbrInStep'
    BY DEF EbrInStep
  <2>2. follow # 0 /\ i' = i
    BY <1>17, <2>1
  <2>3. Read + 1 \in 0 .. MaxRounds
    BY <1>1, <1>6, <1>11 DEF Read
  <2>4. \A k \in DOMAIN l : k <= Read + 1 => l[k].ebr \notin d.lost
    <3>1. SUFFICES ASSUME Read + 1 \in DOMAIN l PROVE l[Read + 1].ebr \notin d.lost
      BY <1>5, <1>6
    <3>2. Read < Len(l)
      BY <1>5, <1>6, <3>1
    <3>3. QED
      BY <1>6, <1>8, <3>2
  <2>5. ASSUME Read + 1 < Len(l)
        PROVE  /\ EbrSector' = l[(Read + 1) + 1].ebr
               /\ FoundIs(LinkedTo(handle.disk, i, Read, "ext2"), LinkedTo(handle.disk, i, Read, "lvm"))'
    <3>1. Read < Len(l)
      BY <1>5, <1>6, <2>5
    <3>2. follow = (Read + 1) + 1
      BY <1>18, <1>19, <2>5, <3>1
    <3>3. EbrSector' = l[(Read + 1) + 1].ebr
      BY <1>14, <2>2, <3>2
    <3>4. FoundIs(LinkedTo(handle.disk, i, Read, "ext2"), LinkedTo(handle.disk, i, Read, "lvm"))'
      BY <1>1, <1>14, <1>21, <2>2, <3>1 DEF FoundIs
    <3>5. QED
      BY <3>3, <3>4
  <2>6. Read + 1 >= Len(l) => d.back # 0 /\ \E k \in DOMAIN l : EbrSector' = l[k].ebr
    <3>1. \E k \in DOMAIN l : EbrSector' = l[k].ebr
      BY <1>5, <1>13, <1>14, <2>2
    <3>2. Read + 1 >= Len(l) /\ Read < Len(l) => K = Len(l)
      BY <1>5, <1>6, <1>19
    <3>3. Read + 1 >= Len(l) /\ Read < Len(l) => d.back # 0
      BY <1>5, <1>8, <1>18, <1>13, <2>2, <3>2
    <3>4. Read < Len(l) \/ Read >= Len(l)
      BY <1>5, <1>6
    <3>5. QED
      BY <1>6, <3>1, <3>3, <3>4
  <2>7. Primary' = d.table[i + 1]
    BY <1>1, <2>2 DEF Primary, d
  <2>8. NumbersTo(ebr.logical)'
    BY <1>14, <1>20 DEF NumbersTo
  <2>9. Read' = Read + 1 /\ handle'.disk.logical = l /\ handle'.disk.lost = d.lost /\ handle'.disk.back = d.back /\ handle'.disk.mbr = d.mbr
    BY <1>1, <1>14 DEF d, l
  <2>10. QED
    BY <1>6, <1>14, <2>3, <2>4, <2>5, <2>6, <2>7, <2>8, <2>9 DEF EbrInStep
<1>23. PrimaryInStep'
  <2>1. SUFFICES ASSUME pc' = "primary" PROVE PrimaryInStep'
    BY DEF PrimaryInStep
  <2>2. follow = 0 /\ BackToPrimaries
    BY <1>17, <2>1
  <2>3. K = Len(l) /\ Read < Len(l)
    BY <1>5, <1>6, <1>18, <2>2
  <2>4. Len(l) = Read + 1 /\ Len(l) \in 0 .. Len(l)
    BY <1>5, <1>19, <2>3
  <2>5. \A k \in 1 .. Len(l) : l[k].ebr \notin d.lost
    <3>1. \A k \in DOMAIN l : k <= Read \/ k = K
      BY <1>5, <1>6, <2>3, <2>4
    <3>2. QED
      BY <1>5, <1>6, <1>8, <3>1
  <2>6. /\ Found' = Mounting(d, LinkedTo(d, i, Len(l), "ext2"))
        /\ handle.no >= 0 => FoundVolumes' = Starts(LinkedTo(d, i, Len(l), "lvm"))
    BY <1>21, <2>3, <2>4
  <2>7. QED
    BY <1>1, <2>2, <2>4, <2>5, <2>6, BackFromEbr DEF l, d
<1>24. pc' \in {"ebr", "primary"} /\ i' \in 0 .. 4 /\ i \in Int /\ (pc' \in {"ebr", "gpt"} => i' < 4)
  BY <1>4, <1>17
<1>25. ScanTypeOK'
  BY <1>1, <1>2, <1>3, <1>11, <1>14, <1>15, <1>16, <1>24, EntryKeeps DEF ScanTypeOK
<1>26. GptInStep' /\ ScannedInStep'
  BY <1>24 DEF GptInStep, ScannedInStep
<1>27. QED
  BY <1>1, <1>2, <1>11, <1>15, <1>16, <1>22, <1>23, <1>24, <1>25, <1>26, EntryKeeps DEF ScanInv

-----------------------------------------------------------------------------
(* Steps between disks                                                     *)

LEMMA PartDisks ==
  ASSUME ScanTypeOK
  PROVE  \A p \in Range(nparts) : p.slot[1] \in Int
<1>1. nparts \in Seq(Part)
  BY DEF ScanTypeOK
<1>2. \A q \in Part : q.slot[1] \in Int
  BY DEF Part
<1>3. QED
  BY <1>1, <1>2 DEF Range

LEMMA OpenDiskInv == ASSUME ScanInv, OpenDisk PROVE ScanInv'
<1>1. /\ pc = "disks" /\ pc' = "mbr" /\ diskno < ndisks
      /\ handle' = [no |-> dev, disk |-> machine[(dev % ndisks) + 1], file |-> None]
      /\ dev' = CountDevice(dev)
  BY DEF OpenDisk
<1>2. /\ machine' = machine /\ ndisks' = ndisks /\ diskno' = diskno /\ nparts' = nparts
      /\ volumes' = volumes /\ i' = i /\ ebr' = ebr /\ entry' = entry
  BY DEF OpenDisk, position
<1>3. ScanTypeOK /\ CountersInStep /\ EarlierHaveSmaller /\ SlotsUnique /\ SlotIsDevice /\ FilesWhole
  BY DEF ScanInv
<1>4. /\ machine \in Machines /\ ndisks \in Nat /\ diskno \in Nat /\ diskno < ndisks
      /\ dev = diskno /\ ndisks = get_ndisks(machine)
  BY <1>1, <1>3 DEF ScanTypeOK, CountersInStep
<1>5. dev' = (IF diskno + 1 < ndisks THEN diskno + 1 ELSE 0)
  BY <1>1, <1>4 DEF CountDevice
<1>6. PICK h \in Layouts : handle' = [no |-> diskno, disk |-> h, file |-> None]
  <2>1. dev % ndisks = diskno
    BY <1>4
  <2>2. diskno + 1 \in 1 .. get_ndisks(machine)
    BY <1>4
  <2>3. machine[diskno + 1] \in Layouts
    BY <1>4, <2>2, DrivesAreThere
  <2>4. QED
    BY <1>1, <1>4, <2>1, <2>3
<1>7. handle' \in Handle /\ handle'.no = diskno /\ diskno >= 0
  BY <1>4, <1>6 DEF Handle
<1>8. ScanTypeOK'
  <2>1. dev' \in Nat
    BY <1>4, <1>5
  <2>2. QED
    BY <1>1, <1>2, <1>3, <1>7, <2>1 DEF ScanTypeOK
<1>9. CountersInStep'
  BY <1>1, <1>2, <1>4, <1>5, <1>7 DEF CountersInStep, Scanning
<1>10. EarlierHaveSmaller'
  BY <1>1, <1>2, <1>3 DEF EarlierHaveSmaller, Scanning
<1>11. SlotsUnique' /\ SlotIsDevice' /\ FilesWhole'
  BY <1>2, <1>3 DEF SlotsUnique, SlotIsDevice, FilesWhole
<1>12. PrimaryInStep' /\ EbrInStep' /\ GptInStep' /\ ScannedInStep'
  BY <1>1 DEF PrimaryInStep, EbrInStep, GptInStep, ScannedInStep
<1>13. QED
  BY <1>8, <1>9, <1>10, <1>11, <1>12 DEF ScanInv

LEMMA AllScannedInv == ASSUME ScanInv, AllScanned PROVE ScanInv'
<1>1. pc = "disks" /\ pc' = "view" /\ diskno = ndisks
  BY DEF AllScanned
<1>2. /\ machine' = machine /\ dev' = dev /\ ndisks' = ndisks /\ diskno' = diskno /\ handle' = handle
      /\ nparts' = nparts /\ volumes' = volumes /\ i' = i /\ ebr' = ebr /\ entry' = entry
  BY DEF AllScanned, position
<1>3. ScanTypeOK /\ CountersInStep /\ EarlierHaveSmaller /\ SlotsUnique /\ SlotIsDevice /\ FilesWhole
  BY DEF ScanInv
<1>4. ndisks \in Nat /\ dev = 0
  BY <1>1, <1>3 DEF ScanTypeOK, CountersInStep
<1>5. ScanTypeOK'
  BY <1>1, <1>2, <1>3 DEF ScanTypeOK, Scanning
<1>6. CountersInStep'
  BY <1>1, <1>2, <1>4 DEF CountersInStep, Scanning
<1>7. EarlierHaveSmaller'
  BY <1>1, <1>2, <1>3 DEF EarlierHaveSmaller, Scanning
<1>8. SlotsUnique' /\ SlotIsDevice' /\ FilesWhole'
  BY <1>2, <1>3 DEF SlotsUnique, SlotIsDevice, FilesWhole
<1>9. PrimaryInStep' /\ EbrInStep' /\ GptInStep' /\ ScannedInStep'
  BY <1>1 DEF PrimaryInStep, EbrInStep, GptInStep, ScannedInStep
<1>10. QED
  BY <1>5, <1>6, <1>7, <1>8, <1>9 DEF ScanInv

LEMMA NextDiskInv == ASSUME ScanInv, NextDisk PROVE ScanInv'
<1>1. pc = "scanned" /\ pc' = "disks" /\ handle.no >= 0 /\ diskno' = diskno + 1 /\ Scanning
  BY DEF NextDisk, Scanning
<1>2. /\ machine' = machine /\ dev' = dev /\ ndisks' = ndisks /\ handle' = handle
      /\ nparts' = nparts /\ volumes' = volumes /\ i' = i /\ ebr' = ebr /\ entry' = entry
  BY DEF NextDisk, position
<1>3. ScanTypeOK /\ CountersInStep /\ EarlierHaveSmaller /\ SlotsUnique /\ SlotIsDevice /\ FilesWhole
  BY DEF ScanInv
<1>4. /\ ndisks \in Nat /\ diskno \in Nat /\ diskno < ndisks /\ ndisks = get_ndisks(machine)
      /\ dev = (IF diskno + 1 < ndisks THEN diskno + 1 ELSE 0)
  BY <1>1, <1>3 DEF ScanTypeOK, CountersInStep
<1>5. ScanTypeOK'
  <2>1. diskno' \in 0 .. ndisks
    BY <1>1, <1>4
  <2>2. QED
    BY <1>1, <1>2, <1>3, <2>1 DEF ScanTypeOK, Scanning
<1>6. CountersInStep'
  BY <1>1, <1>2, <1>4 DEF CountersInStep, Scanning
<1>7. EarlierHaveSmaller'
  <2>1. \A p \in Range(nparts) : p.slot[1] < diskno + 1
    <3>1. \A p \in Range(nparts) : p.slot[1] <= diskno /\ p.slot[1] \in Int
      BY <1>3, PartDisks DEF EarlierHaveSmaller
    <3>2. QED
      BY <1>4, <3>1
  <2>2. \A v \in volumes : v.no < diskno + 1
    <3>1. \A v \in volumes : v.no <= diskno /\ v.no \in Int
      BY <1>1, <1>3 DEF EarlierHaveSmaller, ScanTypeOK
    <3>2. QED
      BY <1>4, <3>1
  <2>3. \A a \in Int : a < diskno + 1 => a <= diskno + 1
    BY <1>4
  <2>4. QED
    <3>1. \A p \in Range(nparts) : p.slot[1] <= diskno + 1
      BY <1>3, <2>1, <2>3, PartDisks
    <3>2. \A v \in volumes : v.no <= diskno + 1
      BY <1>3, <2>2, <2>3 DEF ScanTypeOK
    <3>3. QED
      BY <1>1, <1>2, <2>1, <2>2, <3>1, <3>2 DEF EarlierHaveSmaller
<1>8. SlotsUnique' /\ SlotIsDevice' /\ FilesWhole'
  BY <1>2, <1>3 DEF SlotsUnique, SlotIsDevice, FilesWhole
<1>9. PrimaryInStep' /\ EbrInStep' /\ GptInStep' /\ ScannedInStep'
  BY <1>1 DEF PrimaryInStep, EbrInStep, GptInStep, ScannedInStep
<1>10. QED
  BY <1>5, <1>6, <1>7, <1>8, <1>9 DEF ScanInv

LEMMA OpenImageInv == ASSUME ScanInv, NEW image \in Images, OpenImage(image) PROVE ScanInv'
<1>1. /\ pc = "view" /\ pc' = "mbr" /\ ndisks' = ndisks + 1 /\ diskno' = ndisks + 1
      /\ handle' = [no |-> -1, disk |-> Content[image], file |-> image]
  BY DEF OpenImage
<1>2. /\ machine' = machine /\ dev' = dev /\ nparts' = nparts
      /\ volumes' = volumes /\ i' = i /\ ebr' = ebr /\ entry' = entry
  BY DEF OpenImage, position
<1>3. ScanTypeOK /\ CountersInStep /\ EarlierHaveSmaller /\ SlotsUnique /\ SlotIsDevice /\ FilesWhole
  BY DEF ScanInv
<1>4. ndisks \in Nat /\ diskno = ndisks /\ dev = 0
  BY <1>1, <1>3 DEF ScanTypeOK, CountersInStep
<1>5. handle' \in Handle /\ handle'.no = -1 /\ ~(-1 >= 0)
  <2>1. Content[image] \in Layouts
    BY ImageAssumption
  <2>2. QED
    BY <1>1, <2>1 DEF Handle
<1>6. ScanTypeOK'
  <2>1. ndisks' \in Nat /\ diskno' \in 0 .. ndisks'
    BY <1>1, <1>4
  <2>2. QED
    BY <1>1, <1>2, <1>3, <1>5, <2>1 DEF ScanTypeOK
<1>7. CountersInStep'
  BY <1>1, <1>2, <1>4, <1>5 DEF CountersInStep, Scanning
<1>8. EarlierHaveSmaller'
  <2>1. \A p \in Range(nparts) : p.slot[1] <= diskno /\ p.slot[1] \in Int
    BY <1>3, PartDisks DEF EarlierHaveSmaller
  <2>2. \A p \in Range(nparts) : p.slot[1] <= ndisks + 1 /\ p.slot[1] < ndisks + 1
    BY <1>4, <2>1
  <2>3. QED
    BY <1>1, <1>2, <1>5, <2>2 DEF EarlierHaveSmaller, Scanning
<1>9. SlotsUnique' /\ SlotIsDevice' /\ FilesWhole'
  BY <1>2, <1>3 DEF SlotsUnique, SlotIsDevice, FilesWhole
<1>10. PrimaryInStep' /\ EbrInStep' /\ GptInStep' /\ ScannedInStep'
  BY <1>1 DEF PrimaryInStep, EbrInStep, GptInStep, ScannedInStep
<1>11. QED
  BY <1>6, <1>7, <1>8, <1>9, <1>10 DEF ScanInv

LEMMA ImageScannedInv == ASSUME ScanInv, ImageScanned PROVE ScanInv'
<1>1. pc = "scanned" /\ pc' = "view" /\ handle.no = -1 /\ Scanning /\ handle.no < 0
  BY DEF ImageScanned, Scanning
<1>2. /\ machine' = machine /\ dev' = dev /\ ndisks' = ndisks /\ diskno' = diskno /\ handle' = handle
      /\ volumes' = volumes /\ i' = i /\ ebr' = ebr /\ entry' = entry
  BY DEF ImageScanned, position
<1>3. /\ ScanTypeOK /\ CountersInStep /\ EarlierHaveSmaller /\ SlotsUnique /\ SlotIsDevice /\ FilesWhole
      /\ ScannedInStep
  BY DEF ScanInv
<1>4. ndisks \in Nat /\ diskno = ndisks /\ dev = 0
  BY <1>1, <1>3 DEF ScanTypeOK, CountersInStep
<1>5. /\ nparts' \in Seq(Part) /\ SlotsUnique'
      /\ \A p \in Range(nparts') : p \in Range(nparts) \/ (p.no = -1 /\ p.slot = <<diskno, -1>>)
  <2>1. CASE RawImage
    <3>1. AddNamed(0, -1, handle.file) /\ handle.file \in Images \cup {None}
      BY <1>1, <1>3, <2>1 DEF ImageScanned, ScanTypeOK, Handle
    <3>2. Found = {}
      <4>1. handle.disk.mbr # "good"
        BY <1>1, <1>3, <2>1 DEF ScannedInStep, RawImage, INVALID_TABLE
      <4>2. QED
        BY <1>1, <1>3, <4>1 DEF ScannedInStep, FindsTheLayout, Partitions
    <3>3. \A p \in Found : p[2] # -1
      BY <3>2
    <3>4. diskno' = diskno /\ handle' = handle /\ 0 \in Int /\ -1 \in Int
      BY <1>2
    <3>5. /\ nparts' \in Seq(Part) /\ SlotsUnique'
          /\ \A p \in Range(nparts') :
               p \in Range(nparts) \/ p = [no |-> handle.no, start |-> 0, slot |-> <<diskno, -1>>, file |-> handle.file]
      BY <1>1, <1>3, <3>1, <3>3, <3>4, PartitionAdded
    <3>6. QED
      BY <1>1, <3>5
  <2>2. CASE ~RawImage
    <3>1. nparts' = nparts
      BY <2>2 DEF ImageScanned
    <3>2. QED
      BY <1>3, <3>1 DEF ScanTypeOK, SlotsUnique
  <2>3. QED
    BY <2>1, <2>2
<1>6. ScanTypeOK'
  BY <1>1, <1>2, <1>3, <1>5 DEF ScanTypeOK, Scanning
<1>7. CountersInStep'
  BY <1>1, <1>2, <1>4 DEF CountersInStep, Scanning
<1>8. EarlierHaveSmaller'
  <2>1. \A p \in Range(nparts') : p.slot[1] <= diskno
    BY <1>3, <1>4, <1>5 DEF EarlierHaveSmaller
  <2>2. QED
    BY <1>1, <1>2, <2>1 DEF EarlierHaveSmaller, Scanning
<1>9. SlotIsDevice' /\ FilesWhole'
  BY <1>3, <1>4, <1>5 DEF SlotIsDevice, FilesWhole
<1>10. PrimaryInStep' /\ EbrInStep' /\ GptInStep' /\ ScannedInStep'
  BY <1>1 DEF PrimaryInStep, EbrInStep, GptInStep, ScannedInStep
<1>11. QED
  BY <1>5, <1>6, <1>7, <1>8, <1>9, <1>10 DEF ScanInv

LEMMA RescanInv == ASSUME ScanInv, Rescan PROVE ScanInv'
<1>1. /\ pc = "view" /\ pc' = "disks" /\ diskno' = 0 /\ nparts' = <<>> /\ volumes' = {}
      /\ machine' \in Machines /\ ndisks' = get_ndisks(machine')
  BY DEF Rescan
<1>2. dev' = dev /\ i' = i /\ ebr' = ebr /\ entry' = entry
  BY DEF Rescan, position
<1>3. ScanTypeOK /\ CountersInStep
  BY DEF ScanInv
<1>4. ndisks' \in Nat /\ dev = 0
  BY <1>1, <1>3, DrivesAreThere DEF CountersInStep
<1>5. Range(nparts') = {} /\ DOMAIN nparts' = {}
  BY <1>1 DEF Range
<1>6. ScanTypeOK'
  <2>1. nparts' \in Seq(Part)
    BY <1>1
  <2>2. QED
    BY <1>1, <1>2, <1>3, <1>4, <2>1 DEF ScanTypeOK, Scanning
<1>7. CountersInStep'
  BY <1>1, <1>2, <1>4 DEF CountersInStep, Scanning
<1>8. EarlierHaveSmaller' /\ SlotsUnique' /\ SlotIsDevice' /\ FilesWhole'
  BY <1>1, <1>5 DEF EarlierHaveSmaller, SlotsUnique, SlotIsDevice, FilesWhole
<1>9. PrimaryInStep' /\ EbrInStep' /\ GptInStep' /\ ScannedInStep'
  BY <1>1 DEF PrimaryInStep, EbrInStep, GptInStep, ScannedInStep
<1>10. QED
  BY <1>6, <1>7, <1>8, <1>9 DEF ScanInv

LEMMA InitScanInv == ASSUME Init PROVE ScanInv
<1>1. ndisks \in Nat
  BY DrivesAreThere DEF Init
<1>2. ScanTypeOK
  <2>1. nparts \in Seq(Part)
    BY DEF Init
  <2>2. QED
    BY <1>1, <2>1 DEF Init, ScanTypeOK, Scanning
<1>3. CountersInStep
  BY <1>1 DEF Init, CountersInStep, Scanning
<1>4. EarlierHaveSmaller /\ SlotsUnique /\ SlotIsDevice /\ FilesWhole
  <2>1. Range(nparts) = {} /\ DOMAIN nparts = {} /\ volumes = {}
    BY DEF Init, Range
  <2>2. QED
    BY <2>1 DEF EarlierHaveSmaller, SlotsUnique, SlotIsDevice, FilesWhole
<1>5. PrimaryInStep /\ EbrInStep /\ GptInStep /\ ScannedInStep
  BY DEF Init, PrimaryInStep, EbrInStep, GptInStep, ScannedInStep
<1>6. QED
  BY <1>2, <1>3, <1>4, <1>5 DEF ScanInv

LEMMA StutterScanInv == ASSUME ScanInv, UNCHANGED vars PROVE ScanInv'
<1>1. /\ machine' = machine /\ dev' = dev /\ ndisks' = ndisks /\ pc' = pc /\ diskno' = diskno
      /\ handle' = handle /\ ret' = ret /\ i' = i /\ ebr' = ebr /\ entry' = entry
      /\ nparts' = nparts /\ volumes' = volumes
  BY DEF vars, position
<1>2. Found' = Found /\ FoundVolumes' = FoundVolumes /\ Scanning' = Scanning
  BY <1>1 DEF Found, FoundVolumes, Scanning
<1>3. Primary' = Primary /\ EbrSector' = EbrSector /\ Read' = Read
  BY <1>1 DEF Primary, EbrSector, Read
<1>4. ScanTypeOK' /\ CountersInStep' /\ EarlierHaveSmaller' /\ SlotsUnique' /\ SlotIsDevice' /\ FilesWhole'
  BY <1>1, <1>2 DEF ScanInv, ScanTypeOK, CountersInStep, EarlierHaveSmaller, SlotsUnique, SlotIsDevice, FilesWhole
<1>5. PrimaryInStep' /\ EbrInStep' /\ GptInStep'
  BY <1>1, <1>2, <1>3 DEF ScanInv, PrimaryInStep, EbrInStep, GptInStep, FoundIs, NumbersTo
<1>6. ScannedInStep'
  BY <1>1, <1>2 DEF ScanInv, ScannedInStep, FindsTheLayout
<1>7. QED
  BY <1>4, <1>5, <1>6 DEF ScanInv

-----------------------------------------------------------------------------
(* Names                                                                   *)

LEMMA PartsTyped ==
  ASSUME ScanTypeOK
  PROVE  \A p \in Range(nparts) : p \in Part
<1>1. nparts \in Seq(Part)
  BY DEF ScanTypeOK, Part
<1>2. QED
  BY <1>1 DEF Range

\* Names of different lengths, and what is in equal ones.
LEMMA EqualNames ==
  ASSUME NEW a, NEW b, NEW c, NEW d
  PROVE  /\ <<a>> = <<c>> => a = c
         /\ <<a, b>> = <<c, d>> => a = c /\ b = d
         /\ <<a>> # <<c, d>>
OBVIOUS

\* Letters that agree are of the same disk or of disks Letters apart.
LEMMA SameLetter ==
  ASSUME NEW a \in Nat, NEW b \in Nat, a # b, Letter(a) = Letter(b)
  PROVE  a + Letters <= b \/ b + Letters <= a
<1>1. Letters \in Nat \ {0}
  BY LetterAssumption
<1> DEFINE c == a \div Letters
           d == b \div Letters
           r == a % Letters
<1>2. /\ c \in Nat /\ a = Letters * c + r /\ r \in Nat
      /\ d \in Nat /\ b = Letters * d + r
  <2>1. b % Letters = r
    BY DEF Letter
  <2>2. QED
    BY <1>1, <2>1, Division
<1> HIDE DEF c, d, r
<1>3. c # d
  BY <1>2
<1>4. c + 1 <= d => Letters * (c + 1) <= Letters * d
  BY <1>1, <1>2
<1>5. d + 1 <= c => Letters * (d + 1) <= Letters * c
  BY <1>1, <1>2
<1>6. Letters * (c + 1) = Letters * c + Letters /\ Letters * (d + 1) = Letters * d + Letters
  BY <1>1, <1>2
<1>7. Letters * c \in Nat /\ Letters * d \in Nat
  BY <1>1, <1>2
<1>8. QED
  BY <1>1, <1>2, <1>3, <1>4, <1>5, <1>6, <1>7

LEMMA SameName ==
  ASSUME ScanInv, NEW m \in DOMAIN nparts, NEW n \in DOMAIN nparts, m # n,
         linux_name(nparts[m]) = linux_name(nparts[n])
  PROVE  LET p == nparts[m]
             q == nparts[n]
         IN  /\ p.slot[1] # q.slot[1]
             /\ \/ p.file = q.file /\ p.file # None
                \/ p.slot[1] + Letters <= q.slot[1] \/ q.slot[1] + Letters <= p.slot[1]
<1> DEFINE p == nparts[m]
           q == nparts[n]
<1>1. p \in Range(nparts) /\ q \in Range(nparts)
  BY DEF Range
<1>2. p.slot \in Int \X Int /\ q.slot \in Int \X Int
  BY <1>1, PartsTyped DEF ScanInv, Part
<1>3. p.slot # q.slot
  BY DEF ScanInv, SlotsUnique
<1>4. /\ p.slot[1] \in Nat /\ (p.file # None => p.slot[2] = -1)
      /\ q.slot[1] \in Nat /\ (q.file # None => q.slot[2] = -1)
  BY <1>1 DEF ScanInv, FilesWhole
<1>5. linux_name(p) = linux_name(q)
  OBVIOUS
<1> HIDE DEF p, q
<1>6. p.slot[1] # q.slot[1] \/ p.slot[2] # q.slot[2]
  BY <1>2, <1>3
<1>7. CASE p.file # None /\ q.file # None
  <2>1. p.file = q.file
    BY <1>5, <1>7, EqualNames DEF linux_name
  <2>2. QED
    BY <1>4, <1>6, <1>7, <2>1 DEF p, q
<1>8. CASE p.file = None /\ q.file = None
  <2>1. Letter(p.slot[1]) = Letter(q.slot[1]) /\ p.slot[2] = q.slot[2]
    BY <1>5, <1>8, EqualNames DEF linux_name
  <2>2. p.slot[1] # q.slot[1]
    BY <1>6, <2>1
  <2>3. p.slot[1] + Letters <= q.slot[1] \/ q.slot[1] + Letters <= p.slot[1]
    BY <1>4, <2>1, <2>2, SameLetter
  <2>4. QED
    BY <2>2, <2>3 DEF p, q
<1>9. CASE p.file # None /\ q.file = None
  BY <1>5, <1>9, EqualNames DEF linux_name
<1>10. CASE p.file = None /\ q.file # None
  BY <1>5, <1>10, EqualNames DEF linux_name
<1>11. QED
  BY <1>7, <1>8, <1>9, <1>10

-----------------------------------------------------------------------------
(* Theorems                                                                *)

\* The invariant behind the others: scan_system and get_nthdevice count alike,
\* what the tables passed so far hold was found, and every number given is new.
THEOREM ScanInvariant == Spec => []ScanInv
<1>1. ScanInv /\ [Next]_vars => ScanInv'
  <2>1. SUFFICES ASSUME ScanInv, Next PROVE ScanInv'
    BY StutterScanInv
  <2>2. CASE EbrGoesOn
    BY <2>1, <2>2, StutterScanInv DEF EbrGoesOn
  <2>3. ASSUME NEW image \in Images, OpenImage(image) PROVE ScanInv'
    BY <2>1, <2>3, OpenImageInv
  <2>4. QED
    BY <2>1, <2>2, <2>3, OpenDiskInv, AllScannedInv, NextDiskInv, ReadMBRInv, ScanPrimaryInv,
       EnterExtendedInv, EnterGPTInv, PrimariesDoneInv, EbrLostInv, ScanLogicalInv, GptDoneInv,
       ScanGptEntryInv, ImageScannedInv, RescanInv
       DEF Next
<1>2. QED
  BY InitScanInv, <1>1, PTL DEF Spec

\* scan_partitions finds exactly the partitions and physical volumes that the
\* layout of a disk has, each at its sector and under its number, whatever
\* sectors of the tables are lost.
THEOREM FindsTheLayoutHolds == Spec => []FindsTheLayout
<1>1. ScanInv => FindsTheLayout
  BY DEF ScanInv, ScannedInStep, FindsTheLayout
<1>2. QED
  BY ScanInvariant, <1>1, PTL

\* For any sequence of scans and images, two partitions of nparts share a name only
\* when they come from different scans, of the same unpartitioned image file or of
\* disks whose numbers are at least Letters apart.
THEOREM NamesUniqueHolds == Spec => []NamesUnique
<1>1. ASSUME ScanInv PROVE NamesUnique
  <2>1. SUFFICES ASSUME NEW m \in DOMAIN nparts, NEW n \in DOMAIN nparts, m # n,
                        linux_name(nparts[m]) = linux_name(nparts[n])
                 PROVE  LET p == nparts[m]
                            q == nparts[n]
                        IN  /\ p.slot[1] # q.slot[1]
                            /\ \/ p.file = q.file /\ p.file # None
                               \/ p.slot[1] + Letters <= q.slot[1]
                               \/ q.slot[1] + Letters <= p.slot[1]
    BY DEF NamesUnique
  <2>2. QED
    BY <1>1, <2>1, SameName
<1>2. QED
  BY <1>1, ScanInvariant, PTL

\* In every scan the partitions of the n-th physical drive are named after it,
\* though the counter of get_nthdevice is never reset.
THEOREM NameIsDeviceHolds == Spec => []NameIsDevice
<1>1. ASSUME ScanInv PROVE NameIsDevice
  <2>1. SUFFICES ASSUME NEW p \in Range(nparts), p.no >= 0
                 PROVE  linux_name(p)[1] = p.no
    BY DEF NameIsDevice
  <2>2. p.file = None /\ p.slot[1] = p.no /\ p.no < MaxDrives /\ p.slot[1] \in Nat
    <3>1. p \in Part
      BY <1>1, PartsTyped DEF ScanInv
    <3>2. SlotIsDevice /\ FilesWhole
      BY <1>1 DEF ScanInv
    <3>3. p.no \in Int
      BY <3>1 DEF Part
    <3>4. QED
      BY <2>1, <3>2, <3>3 DEF SlotIsDevice, FilesWhole
  <2>3. linux_name(p) = <<Letter(p.slot[1]), p.slot[2]>>
    BY <2>2 DEF linux_name
  <2>4. Letter(p.slot[1]) = p.no
    BY <2>2, LetterAssumption DEF Letter
  <2>5. QED
    BY <2>3, <2>4
<1>2. QED
  BY <1>1, ScanInvariant, PTL
===============================================================================
