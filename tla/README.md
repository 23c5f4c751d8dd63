# A formal model of ext2read

ext2read shows ext2/3/4 partitions on Windows in a window and copies files and
folders out of them. This directory holds TLA+ modules of the parts of it that
carry its logic, the TLC configurations that check them, and proofs for TLAPS
about all of them. Paths such as `ext2fs.cpp:296`
are relative to `src/`. Every definition that stands for code names its lines in
`PROJECT.json` ("map").

To repeat a run: `tlc -config PartitionIO.cfg MCPartitionIO`. To repeat the
proofs: `tlapm SessionProofs.tla`, and so on for each of the eight `*Proofs` modules.

## 1. Inventory

The program is one window (`Ext2Explore`), one progress dialog (`Ext2CopyFile`,
a member of the window), one `Ext2Read` that finds partitions, and
an `Ext2Partition` for each of those. A copy runs in a thread of its own
(`Ext2CopyProcess`). There is no lock anywhere.

| Component | State it keeps | Operations | Talks to | What makes it correct |
|---|---|---|---|---|
| Block and inode reads (`ext2fs.cpp`) | `buffercache` (QCache, 500 blocks), `inode_buffer`, `last_block`, the file pointer of the handle | `ext2_readblock`, `read_inode` | called by everything below, from the GUI thread and the copy thread; calls `read_disk` | a caller gets the bytes of its own block or an error; the cache is LRU, bounded, and leaks nothing |
| Directory stream | `EXT2DIRENT`: `dirbuf`, `next`, `read_bytes`, `next_block` | `open_dir`, `read_dir`, `close_dir` | reads blocks and inodes; used by the window and by `copy_folder` | each entry once, none skipped at a block boundary, an end |
| Read of a file block | locals only | `read_data_block`, `fileblock_to_logical`, `extent_to_logical`, `extent_binarysearch` | reads pointer blocks and tree nodes through the cache | the right block at every boundary of every level; an end |
| Mount | `desc`, `inodes_per_group`, `inode_size`, `is_valid` ... | constructor of `Ext2Partition`, `mount`; `read_inode`'s arithmetic | called by the scan | what is mounted is what is on the disk; every inode is looked for in its place |
| Scan (`ext2read.cpp`) | `nparts`, `ndisks`, `diskno`, the static counter of `get_nthdevice` | `scan_system`, `scan_partitions`, `scan_ebr`, `scan_gpt`, `add_loopback`, `clear_partitions` | constructs partitions and volume groups; called by the window | exactly the reachable partitions, under the right names, again and again |
| LVM2 (`lvm.cpp`) | volume groups, their PVs, LVs and segments | `scan_pv`, `parse_metadata`, `logical_mount`, `lvm_mapper` | called by the scan; `lvm_mapper` by every block read of an LV | a sector of an LV is read from the PV and sector it is on |
| Copy thread (`ext2copyfile.cpp`) | `cancelOperation`, `filetosave`, the recursion | `run`, `copy_file`, `copy_folder`, `slot_cancelprocess` | reads through one partition; signals the dialog | destination files are prefixes of their sources; one failure costs one file; a cancel stops it; an end |
| Copy dialog | `proc`, whether it is shown, its message box | `start_copy`, `on_buttonBox_clicked`, `slot_copydone`, closing | owns the thread object; its modality keeps the window from input | one user of a partition at a time; the right process deleted once |
| Explorer tree (`ext2explore.cpp`) | the items, the `Ext2File` objects they point to, `onview` flags | `init_root_fs`, double click, Open Image, Rescan, `delete_children` | owns `Ext2Read`, lists folders | nothing shown twice; no item without its file and a live partition |
| Disk access (`platform_win32.c`) | the OS file pointer | `open_disk`, `read_disk`, `get_ndisks`, `get_nthdevice` | everything | seek and read stay together |
| The rest | - | log, properties and about dialogs, start-up, layouts, empty Unix/DOS ports | - | - |

What is hard to test in it: two threads in unlocked code, kept apart only by a
modal dialog; events of a thread that arrive after their object is gone; an event loop
nested in a message box; buffers trusted because of a tag kept somewhere else; reads
that fail in the middle and are looked at by nobody; byte counts and block
indices at boundaries that only large files reach; a static counter that outlives a
scan; trees of objects with three owners. `PROJECT.json` ("hazards") lists them
one by one with the property that would notice, or why none does.

## 2. Modules

```
 BlockSource <-- implemented by -- PartitionIO   <-------+
                                       ^                 |
                                  Session (both) <-- SessionProofs
                                       v                 |
                                   CopyDialog    <-------+
                                       :  (a started thread ends: CopyEnds)
 TreeCopy    <-- implemented by -- CopyProcess   <-- CopyProcessProofs
 FileMap = IndirectMap + ExtentMap               <-- FileMapProofs
                                       DirStream <-- DirStreamProofs
                                       Explorer  <-- ExplorerProofs
                                       Scan      <-- ScanProofs
                                       Mount     <-- MountProofs
                                       Lvm       <-- LvmProofs
```

Each module but `MC*` is parameterised by CONSTANTS; `MC*` modules give them
values for TLC (`CopyDialog` needs only sets of model values, in its cfg).

**PartitionIO** is one mounted partition as its callers share it. One step is one
access to shared state: `Take` (QCache::take or a new buffer), `Seek` and
`ReadFile` (the two system calls of `read_disk`), `ReadFileFails`, `CopyOut` (memcpy,
into the caller's buffer or `inode_buffer`), `Insert` (QCache::insert with the
trim it implies), and for `read_inode` also `Parse` and `Tag`
(`last_block = blknum`, at the end). The bytes of a block are the number of the
block they belong to; `Junk` is uninitialised memory. The QCache is external: its hash,
its list as an order (`newer`), cost 1 per entry. `recent` and `live`
are history: who was read after whom, and how many buffers exist. The model starts
inside the constructor, after `mount`: `Construct` is its `read_inode` of the root inode.
`last_block` starts with any value, since nothing sets it before; when that is the block of the
root inode, the root is parsed out of an unfilled `inode_buffer`. `root` is what it was
parsed from, and `RootRead` says that it was the disk. With the
constant `Exclusive` nobody enters while somebody is inside; the run and the
proofs about one caller at a time use it, Session does without.

**BlockSource** is what callers rely on: a call for block b returns what the
medium delivers for b, or fails where the medium does. `PartitionIO` implements it.

**Session** EXTENDS both PartitionIO and CopyDialog: the threads of the dialogs are the callers
of the partition. A copy thread calls into it from the start of `run` to
`EmitCopydone`, the GUI thread between `Browse` and `Browsed`; nothing else keeps callers apart
(`Exclusive` is FALSE). A rescan deletes the partition and makes it anew, perhaps in the same
memory: `last_block` of the new one is any block.

**DirStream** has one action per round of the loop behind `again:`. A directory
is a sequence of blocks, a block a tiling by entries of four kinds. On a damaged
volume an entry may have the length 0: `read_dir` returns it again and
again, or never returns (`Stuck`).

**FileMap** is `read_data_block`: it composes **IndirectMap** (a disk block is the
path of pointers that leads to it, so that a wrong index is a wrong path) and
**ExtentMap** (a tree of nodes) and ends with the test for 0. Which nodes there are and
which extents lie below each are the constants `Nodes` and `Extents`; `IsNode` is what
the format says of them: the extents below an index entry lie between its block and that of
the next, and no two cover the same file block. A buffer for pointers is new memory. When the
read that was to fill it fails, or an index is past its end, `BufferEntries` is any
pointer of the same file, 0 or another number: the memory may have been the buffer of the
lookup before.

**Mount** constructs partitions one after the other. The superblock is read
into memory that keeps what the last call left there, as `mount`'s local
variable does. `ReadInode` is the placement of an inode. `FormatAssumption` is
what the arithmetic relies on: sectors of 512 bytes under blocks of 1 KB, 2 KB and
more, inodes that fill a block.

**CopyProcess** has the recursion of `copy_folder` as a stack of frames. The result of `mkdir`
is ignored: a frame notes whether its folder was made, and nothing can be made in one that
was not. A round of
`copy_file`'s loop is two steps, the look at `cancelOperation` (`NextRead`) and the read
with its write (`CopyBlock`, `ReadFails`), since `Cancel` may happen between any two.
`Write` may find the destination full, from then on (`full`), which `copy_file` does not
look at.

**TreeCopy** is what a copy promises, without a stack, a loop or an open file: nodes are
made under nodes made before, files grow by readable blocks, and the copy is done when
nothing is missing but what could not be read or made, unless it was cancelled or the
destination is full. `CopyProcess` implements it; there `Entries` is what a listing
comes to, so that the order of the entries is gone as well.

**CopyDialog** has the window's actions (`Save`, `Browse`, `Rescan`), the dialog, the
message box with its nested event loop, and any number of thread objects. A
thread's signal is queued; the dialog's own signals are direct calls, since
the QThread object lives in the GUI thread. `aborted` is Qt's end of a program that
deletes a running QThread (deleting one twice may do that or nothing).

**Scan** has the loops of the four scanning functions as program counters over
disks given by their layout. The EBR at a sector is derived from the layout the way the
format has it, so that the arithmetic of `scan_ebr` is checked against it; the last EBR
of a damaged disk may lead back to an earlier one (`back`). `scan_gpt` goes from entry to
entry (`entry` is its `i + j`) and reads a sector before the first one of each. `get_ndisks` counts
up to the first drive that cannot be opened. An image is opened by the path of its file, any
number of times. `linux_name` is the name a partition is shown under: the letter of its disk,
a char that comes round after `Letters` disks, and its number; or the path, for an image
without a partition table.

**Lvm** has one volume group: `ScanPV` for each PV in the order of the disks,
`LogicalMount` at the end of the scan, `OpenImage` afterwards. The header of the metadata is
a list of numbers digit by digit, from which `parse_metadata` takes the extent size
the way it does: the next digits behind one digit of `seqno`, five characters of them.
Products of sectors are modulo `W` (2^32 in the code), and `Signed` is what the `int` of
`logical_mount` makes of one.
`MetaFormat` is what LVM2 itself keeps to: the extent size is not 0, the first segment of a
volume has its extent 0, and each extent of it is in exactly one segment.

**Explorer** has the tree (`rows`), the number of `Ext2File` objects of each file
(`live`) and the scan whose partition they point to (`madeBy`).

Constants cap what is unbounded, and are named bounds: `MaxScans` (CopyDialog, Session,
Explorer), `MaxImages` and `MaxRounds`, the EBRs read in one `scan_ebr` (Scan),
`MaxLoops` (Lvm). `MaxDrives` and `Radix` (both 10 in the code), `Letters` (256) and `W` are
numbers of the code that the runs make smaller; `Chars` is 5 as there. A read of a tree node fails at most
once (ExtentMap). A full destination gets no room during a copy.

## 3. Runs

| Run | States | What it shows |
|---|---|---|
| `partition_io` | 73,608 | With one caller at a time the cache is transparent, LRU and leak-free. If the root was read from the disk, the partition is a plain block device (`ImplementsBlockSource`) and `inode_buffer` is the block `last_block` names. |
| `session` | 1,545,552 | The same partition without a lock under the windows and dialogs of the program: until a dialog is closed under its copy, and if the root was read, every read is that of a plain block device (`ReadsAsFromSource`) and what is kept between reads is right (`UndisturbedBuffers`). |
| `session_dialog_closed` | violation | From the user's click on: the dialog is closed under its copy, a folder is opened, and `last_block` names a block whose bytes are not in `inode_buffer`. |
| `dir_stream` | 30,983 | What was listed is exactly the live entries passed; the listing stops only at its end or at something it cannot pass; it ends unless it comes to an entry of length 0. |
| `read_data_block` | 975,730 | Pointers lead to the block asked for, as far as the code can look up blocks and when the pointer blocks above it are allocated and readable, whatever else is not; extents do, before any unwritten one. |
| `mount` | 152,713 | Inodes of full groups are found in their places for every geometry; memory behind the loaded descriptors is used for the group `totalGroups` and no later one, and for an inode of the volume only when its last group is partial. |
| `mount_last_group` | violation | The inodes of the last, partial group are looked for through a descriptor that does not exist. |
| `scan` | 46,007 | Exactly the reachable partitions and PVs; two of one name only when an image was opened twice or the letters came round; `/dev/sd`x is physical drive x in every scan; a scan ends unless the EBRs lead in a circle. |
| `lvm` | 13,918 | The extent size is the stated one where `parse_metadata` can tell it, simple volumes exact, superblocks found where the offset fits its `int`, images opened later move nothing. |
| `copy_process` | 1,041,915 | The thread implements the copy of a tree (`ImplementsTreeCopy`): a failure stays with its file or folder, destination files are prefixes at all times; at most one full block is written after a cancel; only the last QFile is open, none at the end; the thread ends. |
| `copy_dialog` | 114,234 | Until a dialog is closed under its copy: one thread inside a partition, no copy on deleted partitions, `slot_copydone` deletes its sender. After that too: a copy left without a dialog has been cancelled, a confirmed cancel reaches every running copy, the dialog goes away. |
| `explorer` | 9,400 | Nothing in the tree twice, every item has exactly its file on a live partition, a failed listing is repeated. |

Each property of a passing run also has a mutant: a plausible slip in one
definition (kept next to it, marked "mutant:") under which TLC finds the
property violated.

### Bounds, and why they are enough

- `partition_io`: 4 blocks, one failing and one past the end of the medium, 2 of them with
  inodes, a cache of 2, 2 threads; `last_block` starts as none or any of the blocks. Evictions need three reads; the LRU
  order is a relation between pairs; the program has two threads. The proofs
  remove these bounds.
- `session`: the GUI thread, two copies one after the other, one rescan, three blocks (two
  with inodes, one failing), a cache of 1, so that every second read evicts. The
  constraint `UntilDismissed` stops where a dialog is closed under its copy: the two
  properties say nothing of the time after it, and `session_dialog_closed` shows why.
- `dir_stream`: three blocks of three units. A block boundary has a block before and one after;
  the second block is tiled in every way by every kind of entry, or ends in one of length 0.
- `read_data_block`: 2 direct pointers and 3 per block, so that every index has a
  first, a middle and a last value; all file blocks up to the first that the code
  cannot look up. Any one block of the file is missing and any one pointer block unreadable. Trees over four file blocks
  have every layout of at most four extents, and every way to cut them into
  leaves and index nodes.
- `mount`: two geometries (1 KB blocks with `first_data_block` 1, larger blocks
  with 0; partial last group or not; one or several inodes in a block), in any
  order with failing reads, all inode numbers up to beyond the volume.
- `scan`: three logical partitions (the third is where EBR-relative and base-relative
  starts differ), the last leading nowhere or back to any of them; five GPT entries at two per
  sector (a partly filled last one), one sector lost, one file system that does not mount; up
  to three drives of which two are counted, one missing in front, between or behind; two
  images between scans, of four files, the same one twice included. With three letters the
  second image gets that of the first disk. Five EBRs in one scan go once round the longest circle and further.
- `lvm`: two PVs, two LVs, one or two segments, every placement of them, on either
  side of the sector `W / 2`. Numbers
  are binary and at most six digits long: the five characters taken are fewer, as many and more.
- `copy_process`: a folder in a folder with something before, in and after it, and an entry
  that `read_dir` cannot get past; files with none to three full blocks and a part; one
  file or folder that cannot be created; a destination that becomes full at any write.
- `copy_dialog`: three processes (the third is needed for one that starts while
  another's event and a third's deletion are open), two rescans.
- `explorer`: two partitions, one folder below a root, two rescans.

### Fairness

Only what the code owes. A function that has been entered runs on
(`WF` of `Next` in DirStream, of `Work` in CopyProcess, of the scan's steps in
Scan): these are straight-line code and loops without waiting. In CopyDialog the GUI thread delivers
its queued events and a started thread comes to its end, which is what
`CopyEnds` shows. The user and the disk owe nothing: `Cancel`, `Save`,
`AnswerYes`, `Rescan`, `DiskTurns` may never happen. Strong fairness is not used.

Three loops do not end on damaged data: a listing at an entry of length 0, a
scan along EBRs in a circle, and with the first a copy of such a
directory. `ListingEnds` and `ScanEnds` say so in their conditions, `CopyEnds` is about
trees whose listings end. `CHECK_DEADLOCK FALSE` stands in `Lvm.cfg` only: after
`MaxLoops` images nothing more is modelled there.

## 4. Proofs

Each `*Proofs` module EXTENDS the module it is about and proves its theorems for
every value of the constants, from the named assumptions of that module alone. SessionProofs is
about Session and the two modules it composes, and CopyProcessProofs also about the refinement of
TreeCopy. Each proof goes the same way: an inductive invariant (`IInv`, or a name of its own), stated in the
component's module (so that TLC can evaluate it: put it into the component's cfg as an
INVARIANT), that `Init` establishes and every action preserves; the properties follow from it.

| Module | Theorem | Property | Beyond the named assumptions |
|---|---|---|---|
| SessionProofs (PartitionIO) | `TypeCorrect` | `TypeOK` | nothing: any number of threads inside at once |
| | `BuffersAreOwned` | `NoBufferLost` | nothing: any number of threads inside at once |
| | `CacheIsTransparent` | `CacheTransparent` | `Exclusive` |
| | `InodeBufferIsTagged` | `BufferIsLastBlock` | `Exclusive` |
| | `CacheDropsOldest` | `LeastRecentlyUsedGoes` | `Exclusive` |
| | `Refinement` | `ImplementsBlockSource` | `Exclusive` |
| (CopyDialog) | `DialogTypes` | `DialogTypeOK` | nothing |
| | `OneThreadInside` | `OneUser` | nothing |
| | `CopiesKeepPartitions` | `PartitionsOutliveCopies` | nothing |
| | `SenderIsDeleted` | `DeletesSender` | nothing |
| | `HiddenCopiesAreCancelled` | `HiddenCopyIsCancelled` | nothing |
| | `CancelIsForShownCopy` | `CancelReachesShownCopy` | nothing |
| (Session) | `SessionRefinesDialog` | `DialogSpec` | nothing |
| | `SessionBuffers` | `UndisturbedBuffers` | nothing |
| | `SessionReads` | `ReadsAsFromSource` | nothing |
| DirStreamProofs | `TypeCorrect` | `TypeOK` | nothing |
| | `ListingIsExact` | `ListedIsPassed` | nothing |
| | `BytesAreCounted` | `BytesMatchPosition` | nothing |
| | `NullIsObstacleOrEnd` | `StopsOnlyAtObstacle` | nothing |
| | `EntriesComeOnce` | `NoEntryTwice` | nothing |
| CopyProcessProofs | `TypeCorrect` | `TypeOK` | nothing |
| | `CopiesArePrefixes` | `DestinationIsPrefix` | nothing |
| | `CancelIsSeen` | `AtMostOneBlockLate` | nothing |
| | `FilesAreClosed` | `OnlyLastFileOpen` | nothing |
| | `FailuresAreLocal` | `FailuresStayLocal` | nothing |
| | `CopyImplementsTreeCopy` | `ImplementsTreeCopy` | nothing |
| ExplorerProofs | `TreeHasNoDoubles` | `NothingTwice` | nothing |
| | `FilesGoWithItems` | `ItemsOwnFiles` | nothing |
| | `ItemsAreOfThisScan` | `NoStalePartition` | nothing |
| | `FailedListingIsRetried` | `FailureIsRetried` | nothing |
| FileMapProofs | `FileMapInvariant` | `FileMapInv` | nothing |
| | `PointersLeadToBlockHolds` | `PointersLeadToBlock` | nothing |
| | `ExtentsLeadToBlockHolds` | `ExtentsLeadToBlock` | nothing |
| ScanProofs | `ScanInvariant` | `ScanInv` | nothing |
| | `FindsTheLayoutHolds` | `FindsTheLayout` | nothing |
| | `NamesUniqueHolds` | `NamesUnique` | nothing |
| | `NameIsDeviceHolds` | `NameIsDevice` | nothing |
| MountProofs | `InodesArePlaced` | `InodesExact` | nothing |
| | `JunkOnlyPastLoadedHolds` | `JunkOnlyPastLoaded` | nothing |
| LvmProofs | `LvmInvariant` | `LvmInv` | nothing |
| | `ExtentSizeIsExact` | `ExtentSizeExact` | nothing |
| | `SuperblockIsFound` | `SuperblockFound` | nothing |
| | `SimpleVolumeIsExact` | `SimpleVolumeExact` | nothing |
| | `MountedVolumesStay` | `ImagesMoveNothing` | nothing |

The type invariants of PartitionIO, DirStream, CopyProcess and CopyDialog,
`BytesMatchPosition` and `NoEntryTwice` of DirStream, `FileMapInv`, `ScanInv` and `LvmInv`
are proved and in no run; the other properties above are checked by the component's run as
well.

**PartitionIO.** `Exclusive` is what Session gets from the dialog, and
`session_dialog_closed` shows that it cannot be dropped. Nothing is assumed of the first value
of `last_block`: `BufferIsLastBlock`, `ImplementsBlockSource` and the two properties of Session say
themselves that they are about partitions whose root was read (`RootRead`; section 5). `TypeOK` is not inductive: the type of `hash` after `Insert`
needs that a thread in `Insert` holds bytes, which is `CallsHaveBuffers`; together
they are `TypeInv`. `NoBufferLost` is inductive on top of it; its proof counts the two
sets through each action with the library's facts about cardinality, and rests on
lemmas about `CacheInsert` and `CacheTake`. Transparency is not inductive
either: it needs that the bytes about to be inserted are the right ones, hence that
the file pointer was where `Seek` put it when `ReadFile` ran, hence that nobody else was
inside. `IInv` says so: at most one thread inside, `CallOnCourse` (what each
program counter has established), the cache transparent, and `inode_buffer` in step with
`last_block` except between the memcpy and the assignment (`Retagging`), once the constructor
has read the root. The
last part is what a failed read could break, and does not, since the memcpy
comes after it. Refinement is one step of BlockSource or a
stutter for each action under `IInv`: calls map to `Ask`, `Insert` to the caller and `Tag`
to `Answer`, `ReadFileFails` to `Fail`. For the LRU property `LRUInv` adds that the list of the
QCache is the order of the reads (`ListIsReadOrder`), and that what was dropped is older than what
is cached (`OldestWereDropped`). That a full cache has a last entry to drop is the fact that
a finite set in a total order has an oldest element, which the proof gets from the
well-foundedness of strict inclusion on finite subsets, since induction over sets is out of reach.

**Session.** The two modules rely on each other: PartitionIO reads exactly if its
callers come one at a time, CopyDialog keeps them so. `SessionInv` is `DialogInv`,
`InsideIsCalling` (whoever is inside the partition is a copy that runs or a GUI thread
that browses) and, while no dialog was dismissed, `IInv` of PartitionIO. `CallersAreAlone`
derives from the first two what `Exclusive` asks for; everything else cites the lemmas about
the two. That Session is also a CopyDialog (`SessionRefinesDialog`) carries its
theorems over to the whole.

**DirStream.** The cursor is one position in the sequence of all entries, but the code
keeps it as two counters and two pointers. `IInv` ties them together: the block in
`dirbuf` is the one before `next_block` and `next` the start of one of its entries (`TypeOK`),
`read_bytes` is the bytes up to there (`BytesMatchPosition`), and there is an entry at
`next` whenever the loop looks at one (`StreamInStep`). From the tiling of a block (`BlockFacts`) follows that one round of the loop passes exactly one
entry, so that what is listed grows by just that entry, or by nothing.

**CopyProcess.** `IInv` adds to the properties that the destination holds just the
blocks the loop has gone through (`LoopMatchesFile`), that an open file outside the loop is one
whose call saw the flag and is on its way out (`OpenOnlyWhileCopying`: this is what keeps
`copy_folder` from opening the next one over it), and that after a late full block no other one
is between its look at the flag and its write (`NoneAfterLate`).

**TreeCopy.** `TreeInv` says that a file being worked on was made, and each folder whose frame says so (`WorkIsMade`), and that,
unless the copy was cancelled or the destination is full, nothing was left behind
(`NothingLeftBehind`): the entries before the position of a frame in a folder that exists are made or
refused, so are all entries of a folder that was made and has no frame, and each file is copied as far as it
can be or in the hands of `copy_file`. With the stack empty this is `FailuresStayLocal`
and the guard of the abstract `Finish`; each other action is one abstract step or a stutter.

**CopyDialog.** `OneUser` needs the whole life of a copy: `DialogHoldsCopy` says that, as
long as no dialog was closed under its copy, a running process is the one the dialog
shows, with no event pending, and that a pending event is the only one, its sender has
left `run` and its dialog is still shown. `LeftCopiesAreCancelled` holds without
that condition: every process not deleted was cancelled or has its dialog.

**Explorer.** `ExplorerInv` says what the flags mean: a partition is marked just when it is in
the tree, a folder just when it has rows (`FlagsMatchTree`), and what exists, shown or
not, was made by this scan (`MadeByThisScan`). That a listing adds no double rests on the flag,
and on the source: the entries of a folder are distinct.

**Mount.** `MountInv` ties what is in memory to the disk: the partition under
construction has the fields of the superblock in memory (`BuiltSoFar`), which is that of its volume
unless a read was lost (`BuiltFromDisk`), and so has a partition that is looked into
(`FoundFromDisk`). The rest is arithmetic: that group, index, block and offset as the
code computes them with `/` and `%` are those of the format needs lemmas about
division, and `FormatAssumption`.

**FileMap.** After k of its pointers a lookup has block k on the path of its file
block, or the hole there, or may be anywhere past a missing or unreadable block of that path (`OnPath`), and still to do are
the indices behind position k; `WalkInv` is that. That a lookup starts so is the arithmetic of
the code: the level that `NDIR`, `indlast` and `dindlast` select and the
quotients and remainders by `SZ` are the path of the block, since each number has one
representation by digits below `SZ` (`PathOfBlock`). The second index under the triple indirect
block is in reach only as long as it is below `SZ`, which is `InReach`. In a tree `SearchInv` says
that the extents that cover `lbn` are all below the node that is searched (`LeadsOn`): the
first entry whose successor starts after `lbn` keeps them, for by `IsNode` the extents below the
entries before it end where it starts at the latest, and those behind start after `lbn`. The
depth of the tree never matters, so that no induction over it is needed.

**Scan.** `ScanInv` is about all the loops at once. The counter of `get_nthdevice` is the number
of the disk that comes next, 0 when none does (`CountersInStep`); with it `NameIsDevice` follows
(`SlotIsDevice`, and there are no more drives than letters).
What has been found on this disk is what the tables passed so far hold (`PrimaryInStep`,
`EbrInStep`, `GptInStep`, each with `FoundIs`), and nothing found before has the
number of this disk (`EarlierHaveSmaller`). Numbers are below the next one to give
(`NumbersTo`), primary ones below 4, so that no two partitions have the same disk and number
(`SlotsUnique`); a name gives both away, unless the letters came round, or the path
(`FilesWhole`): `NamesUnique`. The EBR at hand
is the one behind the last that was read, as long as there is one; where they lead
back to an earlier one the scan does not return, and says nothing. At the end of a chain or a table,
or at its first lost sector, what was passed is all that can be reached (`UpToLostEbr`,
`UpToLostSector`), so that a scan that is through all has `FindsTheLayout`. That a disk number below
`ndisks` is an attached drive is a fact about the size of a set that `get_ndisks` counts.

**Lvm.** `parse_metadata` adds the segments of every volume again for each PV it meets. `LvmInv`
says that this does no harm: the list of a volume begins with the segments of the metadata, in
their order, and everything behind is a copy of one (`SegmentsListed`); a mounted volume
has the PV that was found first in those at the beginning, and starts where the first one does
(`MountedOnFirst`). An extent that is in a copy is in the original as well, which comes first:
the segment `lvm_mapper` takes is one of those at the beginning, before and after an image was opened
(`MountedVolumesStay`), and with one of them the mapping is exact. `logical_mount` takes the last
segment with extent 0; it is a copy of the first. For `ExtentSizeIsExact` the proof goes through
the number whose digits are taken: `seqno`, one between or the extent size; the first two are
too short for a group to be found. The attempt to prove it showed that the
third condition of `ExtentSizeExact` was missing: a number of four digits or more between `seqno` and
the extent size is taken for the latter. Its instance now has such a header.

Model-checked only: `ListingEnds`, `ScanEnds`, `CopyEnds` and `DialogGoesAway`, liveness under
fairness, which is out of the prover's reach. What is proved rests on two kinds of data that are
not built up by the model but given by a constant with the format as assumption, where a
recursive definition would need induction: the extents below a node (`Extents`; MCFileMap computes
them, and TLC evaluates the assumption for each of its trees), and the segments of a
volume (`MetaFormat`).

## 5. Where the code falls short

Two properties that lines of the repository state are violated, and have a run
each (PROJECT.json, "findings"): `last_block` and `inode_buffer` out of step once the
dialog is closed under its copy; the last group of a volume.

Others were met while modelling. The models have them (they do what the code does),
and the properties exclude them by a precondition that names them:

- `last_block` is compared before it is ever set (`ext2fs.cpp:28` and `296`): when the memory
  holds the block of the root inode, the root is parsed out of an unfilled buffer, and nothing
  is said of that partition (`RootRead`);
- a read that delivers fewer bytes than a block is no error, and what the buffer held is cached
  (`ext2fs.cpp:109`; `Short`, and `Delivered`, which takes it for the content);
- a directory entry with inode 0 ends the listing, though live entries may follow
  (`ext2fs.cpp:248`; the second case of `StopsOnlyAtObstacle`);
- a directory entry of length 0 is returned, or passed, for ever (`ext2fs.cpp:220`;
  `Stuck` in `ListingEnds`);
- EBRs that lead back to an earlier one are read for ever (`ext2read.cpp:109`; `EbrGoesOn`
  in `ScanEnds`);
- the second index under the triple indirect block is not reduced modulo the
  pointers of a block, so that lookups from file block `dindlast + sz * sz` on leave the array
  and return anything (`ext2fs.cpp:469`; `InReach`);
- reads of pointer blocks are not checked, and a lookup past one that is missing or
  unreadable may end anywhere, also at another block of the same file
  (`ext2fs.cpp:433`; the condition of `PointersLeadToBlock`);
- a group number equal to `totalGroups` is let through also on a volume that has no such group
  (`ext2fs.cpp:285`; `JunkOnlyPastLoaded`);
- the length of an unwritten extent is used as stored (`ext2fs.cpp:366`; the
  condition of `ExtentsLeadToBlock`);
- a hole is an error, and cuts off the copy of its file (`ext2fs.cpp:339`; `Good`);
- the result of a write is not looked at: with a full disk the copy goes on to its
  end as if all were written (`ext2copyfile.cpp:177`; `full` in TreeCopy and `FailuresStayLocal`);
- a cancel is noticed only before a full block, so that small files go on being
  copied (`ext2copyfile.cpp:167`; `AtMostOneBlockLate` counts full blocks);
- the result of `mkdir` is not looked at, and everything below a folder that was not made
  fails file by file (`ext2copyfile.cpp:212`; `locked` in `FailuresStayLocal`);
- after the dialog is closed, the end of that copy deletes the process of the next one
  (`ext2copyfile.cpp:53` and `102`; `dismissed` in `DeletesSender`), and the event may be
  handled before `run` has returned (`aborted` in `DialogGoesAway`);
- a failing read of the superblock goes unnoticed, and what is in memory may be
  a superblock, of another volume (`ext2fs.cpp:129`; "super" in `lost` in `Sound`);
- the offset of a volume on its PV is an `int`: from 2^31 sectors on the superblock is looked
  for in front of the PV (`lvm.cpp:418`; the bound in `SuperblockFound`);
- an image opened twice has twice the same name, and the letter of a disk is a char
  (`ext2read.cpp:325`, `ext2fs.cpp:69`; the exceptions of `NamesUnique`);
- a volume group is not found when its `seqno` has two to four digits, when a number of up to
  three digits stands between `seqno` and the extent size, or when that has fewer than four
  digits; its extent size is misread when `seqno` has five digits, the size itself six, or a number
  between them four (`lvm.cpp:134` to `150`; `Parses`,
  and the condition of `ExtentSizeExact`);
- volumes that do not start at the first extent of the first PV are mapped to other
  sectors (`lvm.cpp:280` and `478`; the condition of `SimpleVolumeExact`);
- partitions found in an image are not shown (`ext2read.cpp:335`; an image adds to `shown` in
  Scan only if it has no partition table);
- a listing cut off after its first entry counts as complete (`ext2explore.cpp:283`;
  `FailureIsRetried` is about folders with no entry shown).

## 6. Not modelled

- Sectors of 4096 bytes: the 512-byte buffers of the scan overflow at its first
  read, after which the code has no defined behaviour; a GPT header with another entry size.
- Several volume groups, and the text of LVM2 metadata beyond the numbers in its header.
- The buffers of extent tree children, which are not deleted on most paths
  (`ext2fs.cpp:391`).
- Group descriptors of 64 bytes, as ext4 with the feature 64bit has them: the code reads
  them as if they had 32.
- The rules of the destination file system about names.
- The progress bar (`slot_updateui`), the log, the properties and about dialogs,
  Exit, language change, start-up, layouts; `write_disk` and `close_disk`, which
  nothing calls; `platform_unix.c` and `platform_dos.c`, which are empty.

## 7. Plan

Done: the modules above, their runs, and a theorem for every safety property that a run
checks; among them the composition of the dialogs with the partition (Session), and the abstract
copy (TreeCopy). Left, in this order:

1. The safety half of the liveness properties: a rank that every step of a listing, of a
   scan and of a copy makes smaller, as an action property; what fairness adds stays with TLC.
2. Compose the main window: Explorer's tree with CopyDialog, so that Rescan, Open
   Image and double clicks meet a running copy with the real tree.
3. Several volume groups in Lvm, and the buffers of ExtentMap.
