------------------------------ MODULE DirStream ------------------------------
(***************************************************************************)
(* open_dir and read_dir of Ext2Partition (ext2fs.cpp): a caller lists a   *)
(* directory by calling read_dir until it returns NULL.  One action per    *)
(* round of the loop behind "again:".                                      *)
(*                                                                         *)
(* A directory is a sequence of data blocks.  A block is a function from   *)
(* the byte offsets at which an entry starts to that entry's length and    *)
(* kind; names, inode numbers and types are abstracted to the kind.        *)
(***************************************************************************)
EXTENDS Integers, Sequences

CONSTANTS
  BlockSize,   \* blocksize, in units of the smallest entry
  Dirs,        \* the directories to consider
  Null         \* NULL

Kind == {"dots",         \* "." and ".."
         "live",         \* an entry whose inode read_inode returns
         "unused",       \* inode number 0: deleted, or an index block's filler
         "unreadable"}   \* read_inode fails on the inode

\* Entries tile the block; on a damaged volume one may have the length 0, and what
\* is behind it cannot be told.
DirBlock ==
  {f \in UNION {[S -> [kind : Kind, len : 0 .. BlockSize]] :
                  S \in SUBSET (0 .. BlockSize - 1)} :
     /\ 0 \in DOMAIN f
     /\ \A o \in DOMAIN f : o + f[o].len \in DOMAIN f \cup {BlockSize}
     /\ \A o, q \in DOMAIN f : o < q => f[o].len # 0 /\ o + f[o].len <= q}

ASSUME DirAssumption ==
  /\ BlockSize \in Nat \ {0}
  /\ Null \notin Nat
  /\ \A d \in Dirs : d \in Seq(DirBlock) /\ d # <<>>

VARIABLES
  dir,         \* the directory being listed
  bad,         \* the data blocks of it that read_data_block cannot read
  pc,          \* "caller", "again" (the label), "entry" (next is set), "end"
  dirbuf,      \* the block in dirent->dirbuf, Null before the first call
  next,        \* dirent->next as an offset into dirbuf, or Null
  read_bytes,  \* dirent->read_bytes
  next_block,  \* dirent->next_block
  listed       \* the entries returned so far, as <<block, offset>>

vars == <<dir, bad, pc, dirbuf, next, read_bytes, next_block, listed>>

FileSize == Len(dir) * BlockSize
Block(k) == dir[k + 1]                       \* data block k of the directory
Readable(k) == k < Len(dir) /\ k \notin bad
Entry == Block(dirbuf)[next]                 \* *dirent->next

\* open_dir, with any one data block of the directory unreadable, or none: the
\* first one ends the listing.
Init ==
  /\ dir \in Dirs
  /\ bad \in {{}} \cup {{k} : k \in 0 .. Len(dir) - 1}
  /\ pc = "caller"
  /\ dirbuf = Null
  /\ next = Null
  /\ read_bytes = 0
  /\ next_block = 0
  /\ listed = {}

ReturnNull == pc' = "end"

\* read_data_block into dirbuf; NULL to the caller when it fails.
LoadBlock ==
  IF Readable(next_block)
    THEN /\ dirbuf' = next_block
         /\ next_block' = next_block + 1
         /\ pc' = "again"
    ELSE ReturnNull /\ UNCHANGED <<dirbuf, next_block>>

\* The caller calls read_dir; the first call fills dirbuf.
Call ==
  /\ pc = "caller"
  /\ IF dirbuf = Null THEN LoadBlock
                      ELSE pc' = "again" /\ UNCHANGED <<dirbuf, next_block>>
  /\ UNCHANGED <<dir, bad, next, read_bytes, listed>>

\* IS_BUFFER_END
AtBufferEndEarly(o) == o >= BlockSize - 1    \* mutant: off by one
AtBufferEnd(o) == o >= BlockSize

FirstEntry ==
  /\ pc = "again" /\ next = Null
  /\ next' = 0
  /\ pc' = "entry"
  /\ UNCHANGED <<dir, bad, dirbuf, read_bytes, next_block, listed>>

NextEntry ==
  /\ pc = "again" /\ next # Null
  /\ ~AtBufferEnd(next + Entry.len)
  /\ next' = next + Entry.len
  /\ pc' = "entry"
  /\ UNCHANGED <<dir, bad, dirbuf, read_bytes, next_block, listed>>

MoreBytesInNext == read_bytes + BlockSize < FileSize   \* mutant: a block too many
MoreBytes == read_bytes < FileSize
NextBlock ==
  /\ pc = "again" /\ next # Null
  /\ AtBufferEnd(next + Entry.len)
  /\ next' = Null
  /\ IF MoreBytes THEN LoadBlock
                  ELSE ReturnNull /\ UNCHANGED <<dirbuf, next_block>>
  /\ UNCHANGED <<dir, bad, read_bytes, listed>>

\* read_dir looks at the entry at next, adds its length to read_bytes, and
\* goes on at pc' = to.
Visit(kinds, to) ==
  /\ pc = "entry" /\ Entry.kind \in kinds
  /\ read_bytes' = read_bytes + Entry.len
  /\ pc' = to
  /\ UNCHANGED <<dir, bad, dirbuf, next, next_block>>

\* "." and "..": goto again.
PassDots == Visit({"dots"}, "again") /\ UNCHANGED listed

\* The entry's file goes to the caller, who will call again.
ReturnEntry == Visit({"live"}, "caller") /\ listed' = listed \cup {<<dirbuf, next>>}

\* mutant: read_inode is tried again until it succeeds.
RetryEntry == pc = "entry" /\ Entry.kind \in {"unused", "unreadable"} /\ UNCHANGED vars
\* read_inode returned NULL, and so does read_dir.
GiveUp == Visit({"unused", "unreadable"}, "end") /\ UNCHANGED listed

Ended == pc = "end" /\ UNCHANGED vars    \* the caller has stopped

Next == Call \/ FirstEntry \/ NextEntry \/ NextBlock
        \/ PassDots \/ ReturnEntry \/ GiveUp \/ Ended

Spec == Init /\ [][Next]_vars /\ WF_vars(Next)

-----------------------------------------------------------------------------
(* Properties *)

\* The members of the stream are in range, and next points to an entry of dirbuf.
TypeOK ==
  /\ dir \in Dirs
  /\ bad \subseteq 0 .. Len(dir) - 1
  /\ pc \in {"caller", "again", "entry", "end"}
  /\ next_block \in 0 .. Len(dir)
  /\ dirbuf = (IF next_block = 0 THEN Null ELSE next_block - 1)
  /\ next = Null \/ (dirbuf # Null /\ next \in DOMAIN Block(dirbuf))
  /\ read_bytes \in 0 .. FileSize

EntriesOf(kinds) ==
  {e \in (0 .. Len(dir) - 1) \X (0 .. BlockSize - 1) :
     e[2] \in DOMAIN Block(e[1]) /\ Block(e[1])[e[2]].kind \in kinds}

\* The entries read_dir has dealt with.
Passed(k, o) ==
  \/ k < next_block - 1
  \/ /\ k = next_block - 1
     /\ IF next = Null THEN pc = "end" ELSE o < next \/ (o = next /\ pc # "entry")

\* next is at an entry of length 0, which the loop will not get past.
Stuck == next # Null /\ Entry.len = 0
StuckAt(e) == Stuck /\ e = <<dirbuf, next>>

\* Whatever was returned is exactly the live entries passed so far: no entry
\* is skipped at a block boundary and "." and ".." never reach the caller.  An
\* entry the loop is stuck at is passed again and again.
ListedIsPassed ==
  /\ listed \subseteq EntriesOf({"live"})
  /\ \A e \in EntriesOf({"live"}) : StuckAt(e) \/ (e \in listed <=> Passed(e[1], e[2]))

\* NULL means the end of the directory, or something read_dir cannot get past:
\* an entry without a usable inode, or an unreadable data block.
StopsOnlyAtObstacle ==
  pc = "end" =>
    \/ next_block = Len(dir) /\ next = Null
    \/ next # Null /\ Entry.kind \in {"unused", "unreadable"}
    \/ next = Null /\ next_block \in bad

\* read_bytes, "Bytes already read" (ext2read.h:140), counts the bytes up to
\* the end of the entry at next, across block boundaries: the test against
\* file_size asks for one block more exactly when there is one.
BytesMatchPosition ==
  /\ next # Null =>
       read_bytes = dirbuf * BlockSize + next + (IF pc = "entry" THEN 0 ELSE Entry.len)
  /\ pc = "again" /\ next = Null => read_bytes = dirbuf * BlockSize

\* No entry with a length reaches the caller a second time: the files it copies, or
\* the tree items it adds, would be doubled.
NoEntryTwice ==
  [][pc = "entry" /\ pc' = "caller" /\ Entry.len # 0 => <<dirbuf, next>> \notin listed]_vars

\* Listing a directory comes to an end, unless it comes to an entry of length 0:
\* nothing else in a damaged directory keeps read_dir or its caller busy forever.
ListingEnds == <>(pc = "end" \/ Stuck)

-----------------------------------------------------------------------------
(* The inductive invariant behind the theorems of DirStreamProofs.         *)

\* What the members of the stream say of each other at each point of the loop.
StreamInStep ==
  /\ dirbuf = Null => read_bytes = 0 /\ next = Null /\ pc \in {"caller", "end"}
  /\ pc = "entry" => next # Null
  /\ pc = "caller" /\ next = Null => dirbuf = Null

IInv == TypeOK /\ StreamInStep /\ BytesMatchPosition /\ ListedIsPassed /\ StopsOnlyAtObstacle
===============================================================================
