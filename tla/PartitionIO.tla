----------------------------- MODULE PartitionIO -----------------------------
(***************************************************************************)
(* One mounted Ext2Partition as its callers share it (ext2fs.cpp): the     *)
(* block reader ext2_readblock with its QCache, the inode reader           *)
(* read_inode with its one-block buffer, and the file pointer of the disk  *)
(* handle that read_disk moves (platform_win32.c).  The object has no      *)
(* lock; every access to shared state is a step of its own.                *)
(*                                                                         *)
(* The model starts inside the constructor, after mount: the first call is *)
(* its read_inode(EXT2_ROOT_INO).  Nothing has set last_block by then.     *)
(*                                                                         *)
(* The bytes of a block are abstracted to the block number they belong to; *)
(* Junk stands for uninitialised memory.                                   *)
(***************************************************************************)
EXTENDS Integers, FiniteSets

CONSTANTS
  Thread,      \* the GUI thread and the copy thread (Ext2CopyProcess)
  Block,       \* block numbers of the partition
  InodeTable,  \* the blocks that hold inodes
  Root,        \* the block that holds the root inode
  Bad,         \* blocks on which ReadFile fails
  Short,       \* blocks past the end of the medium: ReadFile succeeds, reads nothing
  MaxCost,     \* MAX_CACHE_SIZE
  Exclusive,   \* TRUE: one thread at a time is inside the partition
  None, Junk, Failed

ASSUME BlockAssumption ==
  /\ Block \subseteq Nat /\ IsFiniteSet(Block)
  /\ InodeTable \subseteq Block
  /\ Bad \subseteq Block
  /\ Short \subseteq Block
  /\ Root \in InodeTable \ Bad    \* with an unreadable root there is no partition
  /\ None \notin Block /\ Junk \notin Block /\ Failed \notin Block
  /\ None # Junk /\ Failed # Junk /\ Failed # None
ASSUME ThreadAssumption == IsFiniteSet(Thread)
ASSUME CostAssumption == MaxCost \in Nat \ {0}
ASSUME ModeAssumption == Exclusive \in BOOLEAN

VARIABLES
  hash,          \* buffercache, key to data: hash[b] is None when b is not cached
  newer,         \* buffercache, the list from f to l: <<b, c>> when b is nearer f
  head,          \* the block the handle's file pointer is at
  inode_buffer,  \* the block whose bytes are in inode_buffer
  last_block,    \* the member last_block
  root,          \* the bytes the member root was taken from, None in the constructor
  pc,            \* where each thread is in ext2_readblock or read_inode
  blk,           \* the block each thread's call is about
  dst,           \* where ext2_readblock copies to
  held,          \* the bytes in the thread's own memory: newbuffer, then the Ext2File
  got,           \* result of each thread's last completed call
  live,          \* char[blocksize] allocations not yet deleted
  recent         \* history: <<b, c>> when b was read no earlier than c

cacheVars == <<hash, newer, recent, live>>
inodeVars == <<inode_buffer, last_block, root>>
callVars  == <<blk, dst>>
vars == <<cacheVars, inodeVars, callVars, head, pc, held, got>>

Content == Block \cup {Junk}
Cached  == {b \in Block : hash[b] # None}
Used    == {b \in Block : <<b, b>> \in recent}

\* What a read of block b yields when nobody else moves the file pointer.
Delivered == [b \in Block |-> IF b \in Short THEN Junk ELSE b]

Goto(t, from, to) == pc[t] = from /\ pc' = [pc EXCEPT ![t] = to]

\* A call returns to its caller, its locals are gone; other callers than the
\* constructor get a result.
Leave(t, from) ==
  /\ Goto(t, from, "idle")
  /\ blk' = [blk EXCEPT ![t] = None]
  /\ dst' = [dst EXCEPT ![t] = "caller"]
  /\ held' = [held EXCEPT ![t] = None]
ReturnFrom(t, from, result) ==
  /\ Leave(t, from)
  /\ got' = [got EXCEPT ![t] = <<blk[t], result>>]

-----------------------------------------------------------------------------
(* QCache, as ext2_readblock uses it: every entry has cost 1.              *)

Without(rel, gone) == {p \in rel : p[1] \notin gone /\ p[2] \notin gone}

\* trim(maxCost - 1) before an insertion: entries go from the end of the list.
TrimNewest(b) ==
  LET rest == Cached \ {b}
  IN  IF Cardinality(rest) < MaxCost THEN {}
      ELSE {o \in rest : \A c \in rest \ {o} : <<o, c>> \in newer}
Trim(b) ==
  LET rest == Cached \ {b}
  IN  IF Cardinality(rest) < MaxCost THEN {}
      ELSE {o \in rest : \A c \in rest \ {o} : <<c, o>> \in newer}

\* insert(b, data, 1): an entry of the same key is deleted first.
CacheInsert(b, data) ==
  LET gone == Trim(b) \cup {b}
  IN  /\ hash' = [c \in Block |-> IF c = b THEN data
                                  ELSE IF c \in gone THEN None ELSE hash[c]]
      /\ newer' = Without(newer, gone) \cup ({b} \X (Cached \ gone))
      /\ live' = live - Cardinality(gone \cap Cached)
      /\ recent' = Without(recent, {b}) \cup ({b} \X (Used \cup {b}))

\* take(b): the entry leaves the cache and belongs to the caller.
CacheTake(b) ==
  /\ hash' = [hash EXCEPT ![b] = None]
  /\ newer' = Without(newer, {b})

-----------------------------------------------------------------------------
Init ==
  /\ hash = [b \in Block |-> None]
  /\ newer = {}
  /\ head = 0
  /\ inode_buffer = Junk
  /\ last_block \in Block \cup {None}    \* whatever the memory held
  /\ root = None
  /\ pc = [t \in Thread |-> "idle"]
  /\ blk = [t \in Thread |-> None]
  /\ dst = [t \in Thread |-> "caller"]
  /\ held = [t \in Thread |-> None]
  /\ got = [t \in Thread |-> None]
  /\ live = 0
  /\ recent = {}

\* t is outside the partition and nothing keeps it from calling into it.
MayEnter(t) ==
  /\ root # None
  /\ pc[t] = "idle"
  /\ Exclusive => \A u \in Thread \ {t} : pc[u] = "idle"

\* read_data_block, whose block number is known, calls ext2_readblock.
ReadBlock(t, b) ==
  /\ MayEnter(t)
  /\ Goto(t, "idle", "take")
  /\ blk' = [blk EXCEPT ![t] = b]
  /\ dst' = [dst EXCEPT ![t] = "caller"]
  /\ UNCHANGED <<cacheVars, inodeVars, head, held, got>>

\* read_inode for an inode in block b: the disk is read unless last_block is b.
NeedsReadIfCold(b) == inode_buffer = Junk   \* mutant: any filled buffer will do
NeedsRead(b) == b # last_block
EnterReadInode(t, b) ==
  /\ Goto(t, "idle", IF NeedsRead(b) THEN "take" ELSE "parse")
  /\ blk' = [blk EXCEPT ![t] = b]
  /\ dst' = [dst EXCEPT ![t] = "inode_buffer"]
  /\ UNCHANGED <<cacheVars, inodeVars, head, held, got>>

ReadInode(t, b) == MayEnter(t) /\ EnterReadInode(t, b)

\* The constructor reads the root inode; nobody else has the object yet.
Construct(t) ==
  /\ root = None
  /\ \A u \in Thread : pc[u] = "idle"
  /\ EnterReadInode(t, Root)

\* newbuffer = buffercache.take(blocknum), or a fresh buffer on a miss.
Take(t) ==
  /\ pc[t] = "take"
  /\ IF blk[t] \in Cached
       THEN /\ CacheTake(blk[t])
            /\ held' = [held EXCEPT ![t] = hash[blk[t]]]
            /\ pc' = [pc EXCEPT ![t] = "copy"]
            /\ UNCHANGED live
       ELSE /\ held' = [held EXCEPT ![t] = Junk]
            /\ pc' = [pc EXCEPT ![t] = "seek"]
            /\ live' = live + 1
            /\ UNCHANGED <<hash, newer>>
  /\ UNCHANGED <<recent, inodeVars, callVars, head, got>>

\* mutant: a sequential read is taken to need no seek.
SeekUnlessNext(t) ==
  /\ Goto(t, "seek", "read")
  /\ head' = IF blk[t] = head + 1 THEN head ELSE blk[t]
  /\ UNCHANGED <<cacheVars, inodeVars, callVars, held, got>>
\* read_disk: SetFilePointer on the shared handle ...
Seek(t) ==
  /\ Goto(t, "seek", "read")
  /\ head' = blk[t]
  /\ UNCHANGED <<cacheVars, inodeVars, callVars, held, got>>

\* ... then ReadFile from wherever the file pointer is now.
ReadFile(t) ==
  /\ head \notin Bad
  /\ Goto(t, "read", "copy")
  /\ held' = [held EXCEPT ![t] = IF head \in Block THEN Delivered[head] ELSE Junk]
  /\ head' = IF head \in Block \ Short THEN head + 1 ELSE head
  /\ UNCHANGED <<cacheVars, inodeVars, callVars, got>>

\* mutant: the return value of read_disk is not looked at.
ReadFileFailsUnseen(t) ==
  /\ head \in Bad
  /\ Goto(t, "read", "copy")
  /\ UNCHANGED <<cacheVars, inodeVars, callVars, head, held, got>>
ForgetBuffer == UNCHANGED live      \* mutant: the error path just returns
DeleteBuffer == live' = live - 1
\* ret < 0: newbuffer is deleted and the error goes to the caller.
ReadFileFails(t) ==
  /\ head \in Bad
  /\ ReturnFrom(t, "read", Failed)
  /\ DeleteBuffer
  /\ UNCHANGED <<hash, newer, recent, inodeVars, head>>

\* memcpy(buffer, newbuffer, blocksize).
CopyOut(t) ==
  /\ Goto(t, "copy", "insert")
  /\ inode_buffer' = IF dst[t] = "inode_buffer" THEN held[t] ELSE inode_buffer
  /\ UNCHANGED <<cacheVars, last_block, root, callVars, head, held, got>>

\* buffercache.insert(blocknum, newbuffer, 1), and back to the caller.
Insert(t) ==
  /\ CacheInsert(blk[t], held[t])
  /\ \/ /\ dst[t] = "caller"
        /\ ReturnFrom(t, "insert", held[t])
     \/ /\ dst[t] = "inode_buffer"
        /\ Goto(t, "insert", "parse")
        /\ held' = [held EXCEPT ![t] = None]
        /\ UNCHANGED <<got, callVars>>
  /\ UNCHANGED <<inodeVars, head>>

\* read_inode copies the inode out of inode_buffer ...
Parse(t) ==
  /\ Goto(t, "parse", "tag")
  /\ held' = [held EXCEPT ![t] = inode_buffer]
  /\ UNCHANGED <<cacheVars, inodeVars, callVars, head, got>>

\* ... and records whose block the buffer holds.  The first inode is the root.
Tag(t) ==
  /\ \/ root # None /\ ReturnFrom(t, "tag", held[t]) /\ UNCHANGED root
     \/ root = None /\ Leave(t, "tag") /\ root' = held[t] /\ UNCHANGED got
  /\ last_block' = blk[t]
  /\ UNCHANGED <<cacheVars, inode_buffer, head>>

Call(t) ==
  \/ Construct(t)
  \/ \E b \in Block : ReadBlock(t, b)
  \/ \E b \in InodeTable : ReadInode(t, b)

Step(t) ==
  \/ Take(t) \/ Seek(t) \/ ReadFile(t) \/ ReadFileFails(t)
  \/ CopyOut(t) \/ Insert(t) \/ Parse(t) \/ Tag(t)

Next == \E t \in Thread : Call(t) \/ Step(t)

Spec == Init /\ [][Next]_vars

-----------------------------------------------------------------------------
(* Properties *)

Outside == \A t \in Thread : pc[t] = "idle"
Owning == {"seek", "read", "copy", "insert"}   \* ext2_readblock holds newbuffer
PCs == Owning \cup {"idle", "take", "parse", "tag"}

\* Every variable ranges over the values the members and locals can hold.
TypeOK ==
  /\ hash \in [Block -> Content \cup {None}]
  /\ newer \subseteq Block \X Block
  /\ recent \subseteq Block \X Block
  /\ head \in Nat
  /\ inode_buffer \in Content
  /\ last_block \in Block \cup {None}
  /\ root \in Content \cup {None}
  /\ pc \in [Thread -> PCs]
  /\ blk \in [Thread -> Block \cup {None}]
  /\ dst \in [Thread -> {"caller", "inode_buffer"}]
  /\ held \in [Thread -> Content \cup {None}]
  /\ got \in [Thread -> {None} \cup (Block \X (Content \cup {Failed}))]
  /\ live \in Int

\* The buffer cache is transparent: whatever sequence of hits, misses, failed
\* reads and evictions came before, the data cached under a block number is
\* what the medium delivers for that block (ext2_readblock).
CacheTransparent == \A b \in Cached : hash[b] = Delivered[b]

\* The constructor's read_inode took the root from the disk.  It does not when the
\* memory of last_block, which nothing initialises (ext2fs.cpp:28-41), happens to
\* hold the root's block number: then the root is parsed out of unfilled memory.
RootRead == root = Delivered[Root]

\* inode_buffer is the "buffer to cache last used block of inodes" and
\* last_block the "block number of the last inode block read" (ext2read.h:157):
\* between calls the two belong together, or read_inode takes an inode from
\* the bytes of another block; except on a partition whose root was never read.
BufferIsLastBlock ==
  Outside /\ RootRead => inode_buffer = Delivered[last_block]

\* "LRU based cache for blocks" (ext2read.h:160): between calls, no block that
\* was dropped was read after a block that is still cached, and blocks are
\* dropped only when the cache is full.
LeastRecentlyUsedGoes ==
  Outside =>
    /\ \A c \in Cached, u \in Used \ Cached : <<u, c>> \notin recent
    /\ Used # Cached => Cardinality(Cached) = MaxCost

\* Every newbuffer has one owner, the cache or the call that took or allocated
\* it, and is deleted when it loses its owner: on a failed read, on eviction.
Owners == {t \in Thread : pc[t] \in Owning}
NoBufferLost == live = Cardinality(Cached) + Cardinality(Owners)

\* Callers see a plain block device (module BlockSource): a call returns what
\* the medium delivers for its block, and fails only where the medium fails.
\* The constructor is not one of the calls; nor is any on a partition whose root
\* was never read (RootRead), of which this says nothing.
Source == INSTANCE BlockSource WITH
  asked <- [t \in Thread |-> IF RootRead /\ pc[t] # "idle" THEN blk[t] ELSE None],
  got <- [t \in Thread |-> IF RootRead THEN got[t] ELSE None]
ImplementsBlockSource == Source!Spec

-----------------------------------------------------------------------------
(* The inductive invariants behind the theorems of SessionProofs.          *)

\* Inside the partition a thread has its block, and bytes of its own from the
\* moment take or new gave it a buffer.
CallsHaveBuffers ==
  \A t \in Thread :
    /\ pc[t] # "idle" => blk[t] \in Block
    /\ pc[t] \in Owning \cup {"tag"} => held[t] \in Content

TypeInv == TypeOK /\ CallsHaveBuffers

\* What each step of a call has established, when nobody else is inside: the
\* file pointer is where Seek put it, newbuffer holds the bytes of blk[t], and so
\* does inode_buffer after the constructor read the root.
CallOnCourse(t) ==
  /\ pc[t] = "read" => head = blk[t]
  /\ pc[t] \in {"copy", "insert"} => held[t] = Delivered[blk[t]]
  /\ pc[t] = "tag" => held[t] = inode_buffer
  /\ pc[t] \in {"parse", "tag"} => dst[t] = "inode_buffer"
  /\ pc[t] # "idle" /\ root = None => dst[t] = "inode_buffer" /\ blk[t] = Root
  /\ RootRead /\ pc[t] \in {"insert", "parse", "tag"} /\ dst[t] = "inode_buffer" =>
       inode_buffer = Delivered[blk[t]]

\* A call has put another block into inode_buffer and not yet set last_block.
Retagging(t) == pc[t] \in {"insert", "parse", "tag"} /\ dst[t] = "inode_buffer"

IInv ==
  /\ TypeInv
  /\ \A t, u \in Thread : pc[t] # "idle" /\ pc[u] # "idle" => t = u
  /\ \A t \in Thread : CallOnCourse(t)
  /\ CacheTransparent
  /\ root = None => \A t \in Thread : got[t] = None
  /\ root # None => last_block \in Block
  /\ RootRead /\ (\A t \in Thread : ~Retagging(t)) =>
       inode_buffer = Delivered[last_block]

\* The block of a call that has it in newbuffer: taken, or read.
InHand == {blk[t] : t \in {u \in Thread : pc[u] \in {"copy", "insert"}}}

\* The blocks are in the order of their last reads, the cache lists its own so.
ReadsAreOrdered ==
  /\ recent \subseteq Used \X Used
  /\ \A a, b \in Used : <<a, b>> \in recent \/ <<b, a>> \in recent
  /\ \A a, b \in Used : <<a, b>> \in recent /\ <<b, a>> \in recent => a = b
  /\ \A a, b, c \in Used : <<a, b>> \in recent /\ <<b, c>> \in recent => <<a, c>> \in recent
ListIsReadOrder ==
  /\ Cached \subseteq Used
  /\ newer = {p \in recent : p[1] \in Cached /\ p[2] \in Cached /\ p[1] # p[2]}

\* What was dropped is older than what is cached, and the cache is as full as the
\* block that a call has in hand allows.
OldestWereDropped ==
  /\ \A c \in Cached, u \in Used \ (Cached \cup InHand) : <<u, c>> \notin recent
  /\ Cardinality(Cached) <= MaxCost
  /\ InHand = {} /\ Used # Cached => Cardinality(Cached) = MaxCost
  /\ ~(Used \subseteq Cached \cup InHand) => Cardinality(Cached) >= MaxCost - 1
  /\ \A t \in Thread : pc[t] \in Owning => blk[t] \notin Cached

LRUInv == ReadsAreOrdered /\ ListIsReadOrder /\ OldestWereDropped
===============================================================================
