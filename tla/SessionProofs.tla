---------------------------- MODULE SessionProofs ----------------------------
(***************************************************************************)
(* Theorems about PartitionIO, for every set of threads and blocks, every  *)
(* cache size, and every choice of failing and short blocks; about         *)
(* CopyDialog, for any number of copies and rescans; and about Session,    *)
(* which composes them: the dialog discharges the condition under which    *)
(* the partition is shown to read exactly.  What is said of Spec uses      *)
(* nothing but the assumptions of PartitionIO, what is said of DialogSpec  *)
(* nothing but DialogAssumption.                                           *)
(***************************************************************************)
EXTENDS Session, FiniteSetTheorems, SequenceTheorems, TLAPS

USE BlockAssumption, CostAssumption, ModeAssumption

-----------------------------------------------------------------------------
(* Type correctness, whatever the threads do to each other.                *)

LEMMA DeliveredType == Delivered \in [Block -> Content]
BY DEF Delivered, Content

LEMMA CachedFinite == IsFiniteSet(Cached) /\ Cardinality(Cached) \in Nat
<1>1. Cached \in SUBSET Block
  BY DEF Cached
<1>2. QED
  BY <1>1, FS_Subset, FS_CardinalityType

LEMMA InitTypes == Init => TypeInv
BY DEF Init, TypeInv, TypeOK, CallsHaveBuffers, Content, PCs, Owning

\* The cache operations keep the types of the cache.
LEMMA InsertTypes ==
  ASSUME TypeOK, NEW b \in Block, NEW data \in Content, CacheInsert(b, data)
  PROVE  /\ hash' \in [Block -> Content \cup {None}]
         /\ newer' \subseteq Block \X Block
         /\ recent' \subseteq Block \X Block
         /\ live' \in Int
<1> DEFINE gone == Trim(b) \cup {b}
<1>1. gone \cap Cached \in SUBSET Block
  BY DEF Cached
<1>2. Cardinality(gone \cap Cached) \in Nat
  BY <1>1, FS_Subset, FS_CardinalityType
<1>3. hash' \in [Block -> Content \cup {None}]
  BY DEF CacheInsert, TypeOK
<1>4. newer' \subseteq Block \X Block
  BY DEF CacheInsert, TypeOK, Without, Cached
<1>5. recent' \subseteq Block \X Block
  BY DEF CacheInsert, TypeOK, Without, Used
<1>6. live' \in Int
  BY <1>2 DEF CacheInsert, TypeOK
<1>7. QED
  BY <1>3, <1>4, <1>5, <1>6

LEMMA CallTypes ==
  ASSUME TypeInv, NEW t \in Thread, Call(t)
  PROVE  TypeInv'
<1> USE DEF TypeInv, TypeOK, CallsHaveBuffers, PCs, Owning, Content
<1>1. CASE \E b \in Block : ReadBlock(t, b)
  BY <1>1 DEF ReadBlock, Goto, cacheVars, inodeVars
<1>2. CASE \E b \in InodeTable : ReadInode(t, b)
  BY <1>2 DEF ReadInode, Construct, EnterReadInode, Goto, cacheVars, inodeVars
<1>3. CASE Construct(t)
  BY <1>3, BlockAssumption DEF Construct, EnterReadInode, Goto, cacheVars, inodeVars
<1>4. QED
  BY <1>1, <1>2, <1>3 DEF Call

LEMMA StepTypes ==
  ASSUME TypeInv, NEW t \in Thread, Step(t)
  PROVE  TypeInv'
<1> USE DEF TypeInv, TypeOK, CallsHaveBuffers, PCs, Owning, Content
<1>1. CASE Take(t)
  <2>1. newer' \subseteq Block \X Block
    BY <1>1 DEF Take, CacheTake, Without
  <2>2. hash' \in [Block -> Content \cup {None}] /\ live' \in Int
    BY <1>1 DEF Take, CacheTake, Cached
  <2>3. /\ held' \in [Thread -> Content \cup {None}]
        /\ held' = [held EXCEPT ![t] = held'[t]] /\ held'[t] \in Content
    BY <1>1 DEF Take, Cached
  <2>4. pc' \in [Thread -> PCs] /\ pc' = [pc EXCEPT ![t] = pc'[t]]
    BY <1>1 DEF Take
  <2>5. QED
    BY <1>1, <2>1, <2>2, <2>3, <2>4 DEF Take, inodeVars, callVars
<1>2. CASE Seek(t)
  BY <1>2 DEF Seek, Goto, cacheVars, inodeVars, callVars
<1>3. CASE ReadFile(t)
  BY <1>3, DeliveredType DEF ReadFile, Goto, cacheVars, inodeVars, callVars
<1>4. CASE ReadFileFails(t)
  BY <1>4 DEF ReadFileFails, ReturnFrom, Leave, Goto, DeleteBuffer, inodeVars
<1>5. CASE CopyOut(t)
  BY <1>5 DEF CopyOut, Goto, cacheVars, callVars
<1>6. CASE Insert(t)
  <2>1. /\ hash' \in [Block -> Content \cup {None}]
        /\ newer' \subseteq Block \X Block
        /\ recent' \subseteq Block \X Block
        /\ live' \in Int
    BY <1>6, InsertTypes DEF Insert, ReturnFrom, Leave, Goto
  <2>2. CASE dst[t] = "caller"
    BY <1>6, <2>1, <2>2 DEF Insert, ReturnFrom, Leave, Goto, inodeVars
  <2>3. CASE dst[t] = "inode_buffer"
    BY <1>6, <2>1, <2>3 DEF Insert, Goto, inodeVars, callVars
  <2>4. QED
    BY <2>2, <2>3
<1>7. CASE Parse(t)
  BY <1>7 DEF Parse, Goto, cacheVars, inodeVars, callVars
<1>8. CASE Tag(t)
  BY <1>8 DEF Tag, ReturnFrom, Leave, Goto, cacheVars
<1>9. QED
  BY <1>1, <1>2, <1>3, <1>4, <1>5, <1>6, <1>7, <1>8 DEF Step

LEMMA NextTypes == TypeInv /\ [Next]_vars => TypeInv'
<1> SUFFICES ASSUME TypeInv, [Next]_vars PROVE TypeInv'
  OBVIOUS
<1>1. CASE Next
  BY <1>1, CallTypes, StepTypes DEF Next
<1>2. CASE UNCHANGED vars
  BY <1>2 DEF TypeInv, TypeOK, CallsHaveBuffers, vars, cacheVars, inodeVars, callVars
<1>3. QED
  BY <1>1, <1>2

\* Every variable keeps the type of its member or local, with any number of
\* threads inside the partition at once and any memory in last_block.
THEOREM TypeCorrect == Spec => []TypeOK
<1>1. TypeInv => TypeOK
  BY DEF TypeInv
<1>2. QED
  BY InitTypes, NextTypes, <1>1, PTL DEF Spec

-----------------------------------------------------------------------------
(* Ownership of the block buffers, whatever the threads do to each other.  *)

LEMMA OwnersFinite == IsFiniteSet(Owners) /\ Cardinality(Owners) \in Nat
<1>1. Owners \in SUBSET Thread
  BY DEF Owners
<1>2. QED
  BY <1>1, ThreadAssumption, FS_Subset, FS_CardinalityType

\* insert adds its key and deletes what it reports as deleted.
LEMMA InsertCounts ==
  ASSUME TypeInv, NEW t \in Thread, blk[t] \in Block, held[t] \in Content,
         CacheInsert(blk[t], held[t])
  PROVE  live' - Cardinality(Cached') = live - Cardinality(Cached) - 1
<1> DEFINE gone == Trim(blk[t]) \cup {blk[t]}
           kept == Cached \ gone
<1>1. IsFiniteSet(kept) /\ Cardinality(kept) = Cardinality(Cached) - Cardinality(gone \cap Cached)
  <2>1. gone \cap Cached = Cached \cap gone
    OBVIOUS
  <2>2. QED
    BY <2>1, CachedFinite, FS_Difference
<1>2. Cached' = kept \cup {blk[t]}
  BY DEF CacheInsert, Cached, Content
<1>3. Cardinality(Cached') = Cardinality(kept) + 1
  BY <1>1, <1>2, FS_AddElement
<1>4. /\ Cardinality(Cached) \in Nat
      /\ Cardinality(gone \cap Cached) \in Nat
  BY CachedFinite, FS_Intersection, FS_CardinalityType
<1>5. live' = live - Cardinality(gone \cap Cached) /\ live \in Int
  BY DEF CacheInsert, TypeInv, TypeOK
<1>6. QED
  BY <1>1, <1>3, <1>4, <1>5

\* A step of t that leaves the other threads where they are.
LEMMA OwnersKept ==
  ASSUME TypeInv, NEW t \in Thread, NEW to \in PCs, pc' = [pc EXCEPT ![t] = to],
         pc[t] \in Owning <=> to \in Owning
  PROVE  Owners' = Owners
BY DEF Owners, TypeInv, TypeOK

LEMMA OwnerMore ==
  ASSUME TypeInv, NEW t \in Thread, NEW to \in Owning, pc' = [pc EXCEPT ![t] = to],
         pc[t] \notin Owning
  PROVE  Cardinality(Owners') = Cardinality(Owners) + 1
<1>1. Owners' = Owners \cup {t} /\ t \notin Owners
  BY DEF Owners, TypeInv, TypeOK
<1>2. QED
  BY <1>1, OwnersFinite, FS_AddElement

LEMMA OwnerLess ==
  ASSUME TypeInv, NEW t \in Thread, NEW to \in PCs \ Owning,
         pc' = [pc EXCEPT ![t] = to], pc[t] \in Owning
  PROVE  Cardinality(Owners') = Cardinality(Owners) - 1
<1>1. Owners' = Owners \ {t} /\ t \in Owners
  BY DEF Owners, TypeInv, TypeOK
<1>2. QED
  BY <1>1, OwnersFinite, FS_RemoveElement

LEMMA NextKeepsBuffers ==
  TypeInv /\ NoBufferLost /\ [Next]_vars => NoBufferLost'
<1> SUFFICES ASSUME TypeInv, NoBufferLost, [Next]_vars PROVE NoBufferLost'
  OBVIOUS
<1>1. /\ pc \in [Thread -> PCs] /\ live \in Int
      /\ Cardinality(Cached) \in Nat /\ Cardinality(Owners) \in Nat
  BY CachedFinite, OwnersFinite DEF TypeInv, TypeOK
<1>2. ASSUME UNCHANGED <<hash, live>>, Owners' = Owners PROVE NoBufferLost'
  BY <1>2 DEF NoBufferLost, Cached
<1>3. CASE UNCHANGED vars
  BY <1>2, <1>3 DEF vars, cacheVars, Owners
<1>4. ASSUME NEW t \in Thread, Call(t) PROVE NoBufferLost'
  <2>1. \E to \in {"take", "parse"} : pc[t] = "idle" /\ pc' = [pc EXCEPT ![t] = to]
    BY <1>4 DEF Call, ReadBlock, ReadInode, Construct, EnterReadInode, Goto
  <2>2. UNCHANGED <<hash, live>>
    BY <1>4 DEF Call, ReadBlock, ReadInode, Construct, EnterReadInode, cacheVars
  <2>3. QED
    BY <1>2, <2>1, <2>2, OwnersKept DEF PCs, Owning
<1>5. ASSUME NEW t \in Thread, Step(t) PROVE NoBufferLost'
  <2>1. CASE Take(t) /\ blk[t] \in Cached
    <3>1. pc[t] = "take" /\ pc' = [pc EXCEPT ![t] = "copy"] /\ live' = live
      BY <2>1 DEF Take
    <3>2. Cached' = Cached \ {blk[t]}
      BY <2>1 DEF Take, CacheTake, Cached, TypeInv, TypeOK
    <3>3. Cardinality(Cached') = Cardinality(Cached) - 1
      BY <2>1, <3>2, CachedFinite, FS_RemoveElement
    <3>4. Cardinality(Owners') = Cardinality(Owners) + 1
      BY <3>1, OwnerMore DEF Owning
    <3>5. QED
      BY <1>1, <3>1, <3>3, <3>4 DEF NoBufferLost
  <2>2. CASE Take(t) /\ blk[t] \notin Cached
    <3>1. /\ pc[t] = "take" /\ pc' = [pc EXCEPT ![t] = "seek"]
          /\ live' = live + 1 /\ hash' = hash
      BY <2>2 DEF Take
    <3>2. Cardinality(Owners') = Cardinality(Owners) + 1
      BY <3>1, OwnerMore DEF Owning
    <3>3. QED
      BY <1>1, <3>1, <3>2 DEF NoBufferLost, Cached
  <2>3. CASE Seek(t) \/ ReadFile(t) \/ CopyOut(t)
    <3>1. UNCHANGED <<hash, live>>
      BY <2>3 DEF Seek, ReadFile, CopyOut, cacheVars
    <3>2. pc[t] \in Owning /\ \E to \in Owning : pc' = [pc EXCEPT ![t] = to]
      BY <2>3 DEF Seek, ReadFile, CopyOut, Goto, Owning
    <3>3. QED
      BY <1>2, <3>1, <3>2, OwnersKept DEF PCs
  <2>4. CASE ReadFileFails(t)
    <3>1. /\ pc[t] = "read" /\ pc' = [pc EXCEPT ![t] = "idle"]
          /\ live' = live - 1 /\ hash' = hash
      BY <2>4 DEF ReadFileFails, ReturnFrom, Leave, Goto, DeleteBuffer
    <3>2. Cardinality(Owners') = Cardinality(Owners) - 1
      BY <3>1, OwnerLess DEF PCs, Owning
    <3>3. QED
      BY <1>1, <3>1, <3>2 DEF NoBufferLost, Cached
  <2>5. CASE Insert(t)
    <3>1. pc[t] = "insert" /\ \E to \in {"idle", "parse"} : pc' = [pc EXCEPT ![t] = to]
      BY <2>5 DEF Insert, ReturnFrom, Leave, Goto
    <3>2. Cardinality(Owners') = Cardinality(Owners) - 1
      BY <3>1, OwnerLess DEF PCs, Owning
    <3>3. blk[t] \in Block /\ held[t] \in Content /\ CacheInsert(blk[t], held[t])
      <4>1. pc[t] # "idle" /\ pc[t] \in Owning \cup {"tag"}
        BY <3>1 DEF Owning
      <4>2. QED
        BY <2>5, <4>1 DEF Insert, TypeInv, CallsHaveBuffers
    <3>4. live' - Cardinality(Cached') = live - Cardinality(Cached) - 1
      BY <3>3, InsertCounts
    <3>5. live' \in Int /\ Cardinality(Cached') \in Nat
      <4>1. TypeInv'
        BY <1>5, StepTypes
      <4>2. Cached' \in SUBSET Block
        BY DEF Cached
      <4>3. QED
        BY <4>1, <4>2, FS_Subset, FS_CardinalityType DEF TypeInv, TypeOK
    <3>6. QED
      BY <1>1, <3>2, <3>4, <3>5 DEF NoBufferLost
  <2>6. CASE Parse(t) \/ Tag(t)
    <3>1. UNCHANGED <<hash, live>>
      BY <2>6 DEF Parse, Tag, cacheVars
    <3>2. pc[t] \in {"parse", "tag"}
          /\ \E to \in {"tag", "idle"} : pc' = [pc EXCEPT ![t] = to]
      BY <2>6 DEF Parse, Tag, ReturnFrom, Leave, Goto
    <3>3. QED
      BY <1>2, <3>1, <3>2, OwnersKept DEF PCs, Owning
  <2>7. QED
    BY <1>5, <2>1, <2>2, <2>3, <2>4, <2>5, <2>6 DEF Step
<1>6. QED
  BY <1>3, <1>4, <1>5 DEF Next

\* No block buffer leaks or is deleted twice: each is in the cache or with the
\* one call that took or allocated it, with any interleaving of the threads.
THEOREM BuffersAreOwned == Spec => []NoBufferLost
<1>1. Init => NoBufferLost
  <2>1. ASSUME Init PROVE Cached = {} /\ Owners = {} /\ live = 0
    BY <2>1 DEF Init, Cached, Owners, Owning
  <2>2. QED
    BY <2>1, FS_EmptySet DEF NoBufferLost
<1>2. QED
  BY <1>1, InitTypes, NextTypes, NextKeepsBuffers, PTL DEF Spec

-----------------------------------------------------------------------------
(* Correctness of the cache and the inode buffer, when one thread at a     *)
(* time is inside.  Nothing is assumed of what last_block starts with.     *)

LEMMA InitIInv == Init => IInv
BY InitTypes, DeliveredType DEF Init, IInv, CallOnCourse, CacheTransparent, Cached, RootRead, Content

\* Before a call, and while t is inside, every other thread is outside; so a
\* step of t only has to keep what IInv says of t.
LEMMA OthersOutside ==
  ASSUME IInv, NEW t \in Thread, pc[t] # "idle"
  PROVE  \A u \in Thread \ {t} : pc[u] = "idle"
BY DEF IInv

LEMMA CallKeepsIInv ==
  ASSUME IInv, NEW t \in Thread, Call(t), \A u \in Thread \ {t} : pc[u] = "idle"
  PROVE  IInv'
<1>1. TypeInv'
  BY CallTypes DEF IInv
<1>2. /\ \A u \in Thread : pc[u] = "idle"
      /\ pc \in [Thread -> PCs] /\ blk \in [Thread -> Block \cup {None}]
      /\ dst \in [Thread -> {"caller", "inode_buffer"}]
      /\ root # None => last_block \in Block
      /\ RootRead => inode_buffer = Delivered[last_block]
  BY DEF IInv, TypeInv, TypeOK, Call, ReadBlock, ReadInode, Construct, EnterReadInode, Goto,
         MayEnter, Retagging
<1>3. PICK b \in Block :
        /\ UNCHANGED <<hash, head, inode_buffer, last_block, root, held, got>>
        /\ blk' = [blk EXCEPT ![t] = b]
        /\ \/ pc' = [pc EXCEPT ![t] = "take"]
           \/ /\ pc' = [pc EXCEPT ![t] = "parse"]
              /\ dst' = [dst EXCEPT ![t] = "inode_buffer"]
              /\ b = last_block
        /\ root = None => dst' = [dst EXCEPT ![t] = "inode_buffer"] /\ b = Root
  <2>1. Root \in Block
    BY BlockAssumption
  <2>2. QED
    BY <2>1 DEF Call, ReadBlock, ReadInode, Construct, EnterReadInode, MayEnter, Goto,
                NeedsRead, cacheVars, inodeVars
<1>4. \A u, v \in Thread : pc'[u] # "idle" /\ pc'[v] # "idle" => u = v
  BY <1>2, <1>3
<1>5. RootRead' = RootRead
  BY <1>3 DEF RootRead, Delivered
<1>6. \A u \in Thread : CallOnCourse(u)'
  BY <1>2, <1>3, <1>5 DEF CallOnCourse, Delivered
<1>7. CacheTransparent'
  BY <1>3 DEF IInv, CacheTransparent, Cached, Delivered
<1>8. RootRead' => inode_buffer' = Delivered[last_block']
  BY <1>2, <1>3, <1>5
<1>9. QED
  BY <1>1, <1>2, <1>3, <1>4, <1>6, <1>7, <1>8 DEF IInv, Delivered, RootRead

\* The data that goes into the cache is what the medium delivers for its key.
LEMMA InsertKeepsTransparent ==
  ASSUME TypeInv, CacheTransparent, NEW b \in Block,
         CacheInsert(b, Delivered[b])
  PROVE  CacheTransparent'
BY DEF CacheInsert, CacheTransparent, Cached, TypeInv, TypeOK

LEMMA StepKeepsIInv ==
  ASSUME IInv, NEW t \in Thread, Step(t)
  PROVE  IInv'
<1> DEFINE Tagged ==
      /\ root = None => \A u \in Thread : got[u] = None
      /\ root # None => last_block \in Block
      /\ RootRead /\ (\A u \in Thread : ~Retagging(u)) =>
           inode_buffer = Delivered[last_block]
<1>1. TypeInv'
  BY StepTypes DEF IInv
<1>2. /\ pc \in [Thread -> PCs] /\ blk \in [Thread -> Block \cup {None}]
      /\ dst \in [Thread -> {"caller", "inode_buffer"}]
      /\ held \in [Thread -> Content \cup {None}]
      /\ hash \in [Block -> Content \cup {None}]
      /\ pc[t] # "idle" /\ blk[t] \in Block
      /\ \A u \in Thread \ {t} : pc[u] = "idle"
  <2>1. pc[t] # "idle"
    BY DEF Step, Take, Seek, ReadFile, ReadFileFails, ReturnFrom, Leave, CopyOut, Insert,
           Parse, Tag, Goto
  <2>2. QED
    BY <2>1, OthersOutside DEF IInv, TypeInv, TypeOK, CallsHaveBuffers
<1>3. SUFFICES /\ \A u \in Thread \ {t} : pc'[u] = "idle"
               /\ CallOnCourse(t)'
               /\ CacheTransparent'
               /\ Tagged'
  BY <1>1 DEF IInv, CallOnCourse
<1> USE <1>2
<1>4. CallOnCourse(t) /\ CacheTransparent /\ Tagged
  BY DEF IInv
<1>5. CASE Take(t)
  <2>1. /\ pc' = [pc EXCEPT ![t] = pc'[t]]
        /\ UNCHANGED <<inode_buffer, last_block, root, blk, dst>>
    BY <1>5 DEF Take, inodeVars, callVars
  <2>2. pc'[t] = "copy" => held'[t] = Delivered[blk[t]]
    BY <1>4, <1>5 DEF Take, CacheTransparent
  <2>3. pc'[t] \in {"copy", "seek"} /\ CallOnCourse(t)'
    BY <1>4, <1>5, <2>1, <2>2 DEF Take, CallOnCourse, Delivered
  <2>4. CacheTransparent'
    BY <1>4, <1>5 DEF Take, CacheTake, CacheTransparent, Cached, Delivered
  <2>5. QED
    BY <1>4, <1>5, <2>1, <2>3, <2>4 DEF Take, Retagging, RootRead, Delivered
<1>6. CASE Seek(t)
  BY <1>4, <1>6 DEF Seek, Goto, cacheVars, inodeVars, callVars, CallOnCourse,
                    CacheTransparent, Cached, Delivered, Retagging, RootRead
<1>7. CASE ReadFile(t)
  <2>1. CallOnCourse(t)'
    BY <1>4, <1>7 DEF ReadFile, Goto, cacheVars, inodeVars, callVars, CallOnCourse,
                      Delivered, RootRead
  <2>2. QED
    BY <1>4, <1>7, <2>1 DEF ReadFile, Goto, cacheVars, inodeVars, callVars,
                      CacheTransparent, Cached, Delivered, Retagging, RootRead
<1>8. CASE ReadFileFails(t)
  <2>1. CallOnCourse(t)'
    BY <1>8 DEF ReadFileFails, ReturnFrom, Leave, Goto, CallOnCourse
  <2>2. root # None
    BY <1>4, <1>8, BlockAssumption DEF ReadFileFails, ReturnFrom, Leave, Goto, CallOnCourse
  <2>3. QED
    BY <1>4, <1>8, <2>1, <2>2 DEF ReadFileFails, ReturnFrom, Leave, Goto, inodeVars,
                      CacheTransparent, Cached, Delivered, Retagging, RootRead
<1>9. CASE CopyOut(t)
  <2>1. CallOnCourse(t)'
    BY <1>4, <1>9 DEF CopyOut, Goto, cacheVars, callVars, CallOnCourse, Delivered, RootRead
  <2>2. QED
    BY <1>4, <1>9, <2>1 DEF CopyOut, Goto, cacheVars, callVars,
                      CacheTransparent, Cached, Delivered, Retagging, RootRead
<1>10. CASE Insert(t)
  <2>1. held[t] = Delivered[blk[t]]
    BY <1>4, <1>10 DEF Insert, ReturnFrom, Leave, Goto, CallOnCourse
  <2>2. CacheTransparent'
    BY <1>4, <1>10, <2>1, InsertKeepsTransparent DEF Insert, IInv
  <2>3. CASE dst[t] = "caller"
    BY <1>4, <1>10, <2>2, <2>3 DEF Insert, ReturnFrom, Leave, Goto, inodeVars, CallOnCourse,
                    Delivered, Retagging, RootRead
  <2>4. CASE dst[t] = "inode_buffer"
    BY <1>4, <1>10, <2>2, <2>4 DEF Insert, Goto, inodeVars, callVars, CallOnCourse,
                    Delivered, Retagging, RootRead
  <2>5. QED
    BY <2>3, <2>4
<1>11. CASE Parse(t)
  BY <1>4, <1>11 DEF Parse, Goto, cacheVars, inodeVars, callVars, CallOnCourse,
                    CacheTransparent, Cached, Delivered, Retagging, RootRead
<1>12. CASE Tag(t)
  <2>1. /\ pc[t] = "tag" /\ pc' = [pc EXCEPT ![t] = "idle"] /\ last_block' = blk[t]
        /\ UNCHANGED <<hash, inode_buffer>> /\ root' \in {root, held[t]}
        /\ root' = IF root = None THEN held[t] ELSE root
    BY <1>12 DEF Tag, ReturnFrom, Leave, Goto, cacheVars
  <2>2. RootRead' => inode_buffer = Delivered[blk[t]]
    <3>1. CASE root = None
      BY <1>4, <2>1, <3>1 DEF CallOnCourse, RootRead, Delivered
    <3>2. CASE root # None
      BY <1>4, <2>1, <3>2 DEF CallOnCourse, RootRead, Delivered
    <3>3. QED
      BY <3>1, <3>2
  <2>3. CallOnCourse(t)'
    BY <2>1 DEF CallOnCourse
  <2>4. root' # None
    <3>1. held[t] \in Content /\ None \notin Content
      BY <2>1, BlockAssumption DEF IInv, TypeInv, CallsHaveBuffers, Content
    <3>2. QED
      BY <2>1, <3>1
  <2>5. CacheTransparent'
    BY <1>4, <2>1 DEF CacheTransparent, Cached, Delivered
  <2>6. QED
    BY <2>1, <2>2, <2>3, <2>4, <2>5 DEF Delivered
<1>13. QED
  BY <1>5, <1>6, <1>7, <1>8, <1>9, <1>10, <1>11, <1>12 DEF Step

LEMMA NextKeepsIInv ==
  ASSUME Exclusive PROVE IInv /\ [Next]_vars => IInv'
<1> SUFFICES ASSUME IInv, [Next]_vars PROVE IInv'
  OBVIOUS
<1>1. CASE Next
  <2>1. ASSUME NEW t \in Thread, Call(t) PROVE \A u \in Thread \ {t} : pc[u] = "idle"
    BY <2>1 DEF Call, ReadBlock, ReadInode, Construct, EnterReadInode, MayEnter
  <2>2. QED
    BY <1>1, <2>1, CallKeepsIInv, StepKeepsIInv DEF Next
<1>2. CASE UNCHANGED vars
  <2>1. TypeInv'
    BY <1>2, NextTypes DEF IInv
  <2>2. UNCHANGED <<hash, head, inode_buffer, last_block, root, pc, blk, dst, held, got>>
    BY <1>2 DEF vars, cacheVars, inodeVars, callVars
  <2>3. \A t \in Thread : CallOnCourse(t)' /\ (Retagging(t)' <=> Retagging(t))
    BY <2>2 DEF IInv, CallOnCourse, Delivered, Retagging, RootRead
  <2>4. CacheTransparent'
    BY <2>2 DEF IInv, CacheTransparent, Cached, Delivered
  <2>5. QED
    BY <2>1, <2>2, <2>3, <2>4 DEF IInv, Delivered, RootRead
<1>3. QED
  BY <1>1, <1>2

LEMMA IInvHolds ==
  ASSUME Exclusive PROVE Spec => []IInv
<1>1. Init => IInv
  BY InitIInv
<1>2. QED
  BY <1>1, NextKeepsIInv, PTL DEF Spec

\* With one thread inside at a time the buffer cache is transparent.
THEOREM CacheIsTransparent ==
  ASSUME Exclusive PROVE Spec => []CacheTransparent
<1>1. IInv => CacheTransparent
  BY DEF IInv
<1>2. QED
  BY <1>1, IInvHolds, PTL

\* ... and between calls inode_buffer holds the block named by last_block.
THEOREM InodeBufferIsTagged ==
  ASSUME Exclusive PROVE Spec => []BufferIsLastBlock
<1>1. IInv => BufferIsLastBlock
  BY DEF IInv, BufferIsLastBlock, Outside, Retagging
<1>2. QED
  BY <1>1, IInvHolds, PTL

-----------------------------------------------------------------------------
(* The cache drops the least recently used block.                          *)

\* A finite order has an oldest element: one with nothing behind it.
LEMMA OldestExists ==
  ASSUME NEW S, IsFiniteSet(S), S # {}, NEW R,
         \A a, b \in S : a # b => <<a, b>> \in R \/ <<b, a>> \in R,
         \A a, b \in S : <<a, b>> \in R => <<b, a>> \notin R,
         \A a, b, c \in S : <<a, b>> \in R /\ <<b, c>> \in R => <<a, c>> \in R
  PROVE  \E o \in S : \A c \in S \ {o} : <<c, o>> \in R
<1> DEFINE Behind(o) == {c \in S : <<o, c>> \in R}
           T == {Behind(o) : o \in S}
<1>1. T \subseteq FiniteSubsetsOf(S) /\ T # {}
  <2>1. FiniteSubsetsOf(S) = SUBSET S
    BY FS_FiniteSubsetsOfFinite
  <2>2. \A o \in S : Behind(o) \in SUBSET S
    OBVIOUS
  <2> HIDE DEF Behind
  <2>3. QED
    BY <2>1, <2>2
<1>2. \E x \in T : \A y \in T : ~(<<y, x>> \in StrictSubsetOrdering(S))
  BY <1>1, FS_StrictSubsetOrderingWellFounded, WFMin, Zenon
<1>3. PICK o \in S : \A c \in S : ~(<<Behind(c), Behind(o)>> \in StrictSubsetOrdering(S))
  <2> DEFINE less == StrictSubsetOrdering(S)
  <2> HIDE DEF less
  <2>1. PICK x \in T : \A y \in T : <<y, x>> \notin less
    BY <1>2 DEF less
  <2>2. PICK o \in S : x = Behind(o)
    BY <2>1
  <2>3. \A c \in S : Behind(c) \in T
    OBVIOUS
  <2>4. \A c \in S : <<Behind(c), Behind(o)>> \notin less
    BY <2>1, <2>2, <2>3, Zenon
  <2>5. QED
    BY <2>2, <2>4 DEF less
<1>4. \A c \in S : <<o, c>> \notin R
  <2>1. SUFFICES ASSUME NEW c \in S, <<o, c>> \in R PROVE FALSE
    OBVIOUS
  <2>2. Behind(c) \subseteq Behind(o) /\ c \in Behind(o) /\ c \notin Behind(c)
    BY <2>1
  <2>3. <<Behind(c), Behind(o)>> \in StrictSubsetOrdering(S)
    BY <2>2 DEF StrictSubsetOrdering
  <2>4. QED
    BY <1>3, <2>3
<1>5. QED
  BY <1>4

LEMMA TrimsOldest ==
  ASSUME TypeInv, LRUInv, NEW b \in Block, b \notin Cached
  PROVE  \/ Cardinality(Cached) < MaxCost /\ Trim(b) = {}
         \/ /\ Cardinality(Cached) = MaxCost
            /\ \E o \in Cached :
                 Trim(b) = {o} /\ \A c \in Cached \ {o} : <<c, o>> \in newer
<1>1. Cached \ {b} = Cached /\ Cardinality(Cached) \in Nat /\ Cardinality(Cached) <= MaxCost
  BY CachedFinite DEF LRUInv, OldestWereDropped
<1>2. /\ \A a, c \in Cached : a # c => <<a, c>> \in newer \/ <<c, a>> \in newer
      /\ \A a, c \in Cached : <<a, c>> \in newer => <<c, a>> \notin newer
      /\ \A a, c, d \in Cached : <<a, c>> \in newer /\ <<c, d>> \in newer => <<a, d>> \in newer
  BY DEF LRUInv, ReadsAreOrdered, ListIsReadOrder
<1>3. CASE Cardinality(Cached) < MaxCost
  BY <1>1, <1>3 DEF Trim
<1>4. CASE Cardinality(Cached) = MaxCost
  <2>1. Cached # {} /\ IsFiniteSet(Cached)
    BY <1>4, CachedFinite, FS_EmptySet
  <2>2. PICK o \in Cached : \A c \in Cached \ {o} : <<c, o>> \in newer
    BY <1>2, <2>1, OldestExists
  <2>3. Trim(b) = {x \in Cached : \A c \in Cached \ {x} : <<c, x>> \in newer}
    <3>1. ~(Cardinality(Cached \ {b}) < MaxCost)
      <4>1. Cardinality(Cached \ {b}) = Cardinality(Cached)
        BY <1>1, Zenon
      <4>2. QED
        BY <1>4, <4>1
    <3>2. Trim(b) = {x \in Cached \ {b} : \A c \in (Cached \ {b}) \ {x} : <<c, x>> \in newer}
      BY <3>1 DEF Trim
    <3>3. QED
      BY <1>1, <3>2, Zenon
  <2>4. Trim(b) = {o}
    <3>1. o \in Trim(b)
      BY <2>2, <2>3
    <3>2. ASSUME NEW x \in Trim(b), x # o PROVE FALSE
      <4>1. x \in Cached /\ <<o, x>> \in newer /\ <<x, o>> \in newer
        BY <2>2, <2>3, <3>2
      <4>2. QED
        BY <1>2, <4>1
    <3>3. QED
      BY <3>1, <3>2
  <2>5. QED
    BY <1>4, <2>2, <2>4
<1>5. QED
  BY <1>1, <1>3, <1>4

\* What an insertion leaves in the cache, and in which order.
LEMMA InsertedIsNewest ==
  ASSUME TypeInv, LRUInv, NEW b \in Block, NEW data \in Content, CacheInsert(b, data),
         b \notin Cached
  PROVE  /\ Cached' = (Cached \ Trim(b)) \cup {b} /\ Used' = Used \cup {b}
         /\ \A x, y : <<x, y>> \in recent' <=>
                        \/ x # b /\ y # b /\ <<x, y>> \in recent
                        \/ x = b /\ y \in Used \cup {b}
         /\ ReadsAreOrdered' /\ ListIsReadOrder'
<1>1. Cached' = (Cached \ Trim(b)) \cup {b}
  BY DEF CacheInsert, Cached, Content
<1>2. /\ recent \subseteq Block \X Block
      /\ recent' = Without(recent, {b}) \cup ({b} \X (Used \cup {b}))
      /\ newer' = Without(newer, Trim(b) \cup {b}) \cup ({b} \X (Cached \ (Trim(b) \cup {b})))
  BY DEF CacheInsert, TypeInv, TypeOK
<1>3. \A x, y : <<x, y>> \in recent' <=>
                  \/ x # b /\ y # b /\ <<x, y>> \in recent
                  \/ x = b /\ y \in Used \cup {b}
  BY <1>2 DEF Without
<1>4. Used' = Used \cup {b}
  BY <1>3 DEF Used
<1>5. recent' \subseteq Used' \X Used'
  BY <1>2, <1>4 DEF LRUInv, ReadsAreOrdered, Without
<1>6. ReadsAreOrdered'
  BY <1>3, <1>4, <1>5 DEF LRUInv, ReadsAreOrdered
<1>7. Cached' \subseteq Used'
  BY <1>1, <1>4 DEF LRUInv, ListIsReadOrder
<1>8. newer' = {p \in recent' : p[1] \in Cached' /\ p[2] \in Cached' /\ p[1] # p[2]}
  <2>1. newer \subseteq Block \X Block /\ newer' \subseteq Block \X Block
    BY <1>2 DEF TypeInv, TypeOK, Without, Cached
  <2>2. recent' \subseteq Block \X Block
    BY <1>5 DEF Used
  <2>3. ASSUME NEW x \in Block, NEW y \in Block
        PROVE  <<x, y>> \in newer' <=>
                 <<x, y>> \in recent' /\ x \in Cached' /\ y \in Cached' /\ x # y
    BY <1>1, <1>2, <1>3 DEF LRUInv, ListIsReadOrder, Without
  <2> DEFINE order == {p \in recent' : p[1] \in Cached' /\ p[2] \in Cached' /\ p[1] # p[2]}
  <2>4. \A x \in Block, y \in Block : <<x, y>> \in newer' <=> <<x, y>> \in order
    BY <2>3
  <2>5. order \subseteq Block \X Block
    BY <2>2
  <2>6. \A p \in Block \X Block : p = <<p[1], p[2]>> /\ p[1] \in Block /\ p[2] \in Block
    OBVIOUS
  <2> HIDE DEF order
  <2>7. \A p \in Block \X Block : p \in newer' <=> p \in order
    <3>1. SUFFICES ASSUME NEW p \in Block \X Block PROVE p \in newer' <=> p \in order
      OBVIOUS
    <3>2. PICK x \in Block, y \in Block : p = <<x, y>>
      BY <2>6
    <3>3. QED
      BY <2>4, <3>2, Zenon
  <2>8. newer' = order
    BY <2>1, <2>5, <2>7
  <2>9. QED
    BY <2>8 DEF order
<1>9. QED
  BY <1>1, <1>3, <1>4, <1>6, <1>7, <1>8 DEF ListIsReadOrder

\* A step that leaves the cache alone may take a block in hand, not let go of one.
LEMMA SameCacheKeepsLRU ==
  ASSUME LRUInv, UNCHANGED <<hash, newer, recent>>, InHand \subseteq InHand',
         \A t \in Thread : pc'[t] \in Owning => blk'[t] \notin Cached
  PROVE  LRUInv'
<1>1. Cached' = Cached /\ Used' = Used
  BY DEF Cached, Used
<1>2. ReadsAreOrdered' /\ ListIsReadOrder'
  BY <1>1 DEF LRUInv, ReadsAreOrdered, ListIsReadOrder
<1>3. Cardinality(Cached') = Cardinality(Cached)
  BY <1>1
<1>4. OldestWereDropped'
  BY <1>1, <1>3 DEF LRUInv, OldestWereDropped
<1>5. QED
  BY <1>2, <1>4 DEF LRUInv

\* take: the block of the call is in its hand instead of in the cache.
LEMMA TakeKeepsLRU ==
  ASSUME TypeInv, LRUInv, NEW b \in Cached, CacheTake(b), recent' = recent,
         InHand = {}, InHand' = {b},
         \A t \in Thread : pc'[t] \in Owning => blk'[t] = b
  PROVE  LRUInv'
<1>1. Cached' = Cached \ {b} /\ Used' = Used /\ b \in Used
  BY DEF CacheTake, Cached, Used, TypeInv, TypeOK, LRUInv, ListIsReadOrder
<1>2. ReadsAreOrdered'
  BY <1>1 DEF LRUInv, ReadsAreOrdered
<1>3. ListIsReadOrder'
  <2>1. newer' = {p \in newer : p[1] # b /\ p[2] # b}
    BY DEF CacheTake, Without
  <2>2. QED
    BY <1>1, <2>1 DEF LRUInv, ListIsReadOrder
<1>4. Cardinality(Cached') = Cardinality(Cached) - 1 /\ Cardinality(Cached) \in Nat
  BY <1>1, CachedFinite, FS_RemoveElement
<1>5. Used \ (Cached' \cup InHand') = Used \ Cached
  BY <1>1
<1>6. OldestWereDropped'
  BY <1>1, <1>4, <1>5 DEF LRUInv, OldestWereDropped
<1>7. QED
  BY <1>2, <1>3, <1>6 DEF LRUInv

\* insert: the block in hand becomes the newest; the oldest goes if there is no room.
LEMMA InsertKeepsLRU ==
  ASSUME TypeInv, LRUInv, NEW b \in Block, NEW data \in Content, CacheInsert(b, data),
         b \notin Cached, InHand = {b}, InHand' = {},
         \A t \in Thread : pc'[t] \notin Owning
  PROVE  LRUInv'
<1>1. /\ Cached' = (Cached \ Trim(b)) \cup {b} /\ Used' = Used \cup {b}
      /\ \A x, y : <<x, y>> \in recent' <=>
                     \/ x # b /\ y # b /\ <<x, y>> \in recent
                     \/ x = b /\ y \in Used \cup {b}
      /\ ReadsAreOrdered' /\ ListIsReadOrder'
  BY InsertedIsNewest
<1>2. Cardinality(Cached) \in Nat /\ IsFiniteSet(Cached)
  BY CachedFinite
<1>3. CASE Cardinality(Cached) < MaxCost /\ Trim(b) = {}
  <2>1. Cached' = Cached \cup {b}
    BY <1>1, <1>3
  <2>2. Cardinality(Cached') = Cardinality(Cached) + 1
    BY <1>2, <2>1, FS_AddElement
  <2>3. \A c \in Cached', u \in Used' \ Cached' : <<u, c>> \notin recent'
    BY <1>1, <2>1 DEF LRUInv, OldestWereDropped
  <2>4. Used' # Cached' => ~(Used \subseteq Cached \cup InHand)
    BY <1>1, <2>1 DEF LRUInv, ListIsReadOrder
  <2>5. OldestWereDropped'
    BY <1>2, <1>3, <2>2, <2>3, <2>4 DEF LRUInv, OldestWereDropped
  <2>6. QED
    BY <1>1, <2>5 DEF LRUInv
<1>4. ASSUME Cardinality(Cached) = MaxCost,
             NEW o \in Cached, Trim(b) = {o}, \A c \in Cached \ {o} : <<c, o>> \in newer
      PROVE  LRUInv'
  <2>1. Cached' = (Cached \ {o}) \cup {b}
    BY <1>1, <1>4
  <2>2. Cardinality(Cached') = MaxCost
    <3>1. IsFiniteSet(Cached \ {o}) /\ Cardinality(Cached \ {o}) = MaxCost - 1
      BY <1>2, <1>4, FS_RemoveElement
    <3>2. b \notin Cached \ {o}
      OBVIOUS
    <3> DEFINE kept == Cached \ {o}
    <3> HIDE DEF kept
    <3>3. Cardinality(kept \cup {b}) = Cardinality(kept) + 1
      BY <3>1, <3>2, FS_AddElement DEF kept
    <3>4. QED
      BY <2>1, <3>1, <3>3 DEF kept
  <2>3. ASSUME NEW c \in Cached', NEW u \in Used' \ Cached', <<u, c>> \in recent' PROVE FALSE
    <3>1. u # b /\ c # b /\ u \in Used /\ <<u, c>> \in recent /\ c \in Cached \ {o}
      BY <1>1, <2>1, <2>3
    <3>2. CASE u = o
      <4>1. <<c, o>> \in recent /\ c # o /\ c \in Used /\ o \in Used
        BY <1>4, <3>1 DEF LRUInv, ListIsReadOrder
      <4>2. QED
        BY <3>1, <3>2, <4>1 DEF LRUInv, ReadsAreOrdered
    <3>3. CASE u # o
      BY <2>1, <3>1, <3>3, <2>3 DEF LRUInv, OldestWereDropped
    <3>4. QED
      BY <3>2, <3>3
  <2>4. OldestWereDropped'
    BY <2>2, <2>3 DEF OldestWereDropped
  <2>5. QED
    BY <1>1, <2>4 DEF LRUInv
<1>5. QED
  BY <1>3, <1>4, TrimsOldest

LEMMA InitLRU == Init => LRUInv
<1> SUFFICES ASSUME Init PROVE LRUInv
  OBVIOUS
<1>1. Cached = {} /\ Used = {} /\ recent = {} /\ newer = {} /\ InHand = {}
  BY DEF Init, Cached, Used, InHand
<1>2. Cardinality(Cached) = 0
  BY <1>1, FS_EmptySet
<1>3. \A t \in Thread : pc[t] \notin Owning
  BY DEF Init, Owning
<1>4. QED
  BY <1>1, <1>2, <1>3 DEF LRUInv, ReadsAreOrdered, ListIsReadOrder, OldestWereDropped

\* What is in hand when t is the only thread that may be inside.
LEMMA HandOfOne ==
  ASSUME NEW t \in Thread, \A u \in Thread \ {t} : pc[u] = "idle"
  PROVE  InHand = IF pc[t] \in {"copy", "insert"} THEN {blk[t]} ELSE {}
BY DEF InHand

LEMMA NextKeepsLRU ==
  ASSUME Exclusive PROVE IInv /\ LRUInv /\ [Next]_vars => LRUInv'
<1> SUFFICES ASSUME IInv, LRUInv, [Next]_vars PROVE LRUInv'
  OBVIOUS
<1>1. CASE UNCHANGED vars
  <2>1. InHand' = InHand /\ UNCHANGED <<hash, newer, recent, pc, blk>>
    BY <1>1 DEF vars, cacheVars, callVars, InHand
  <2>2. QED
    BY <2>1, SameCacheKeepsLRU DEF LRUInv, OldestWereDropped
<1>2. ASSUME NEW t \in Thread, Call(t) \/ Step(t) PROVE LRUInv'
  <2>1. /\ pc \in [Thread -> PCs] /\ blk \in [Thread -> Block \cup {None}]
        /\ TypeInv /\ \A u \in Thread : pc[u] # "idle" => blk[u] \in Block
    BY DEF IInv, TypeInv, TypeOK, CallsHaveBuffers
  <2>2. \A u \in Thread \ {t} : pc[u] = "idle"
    BY <1>2, OthersOutside DEF Call, ReadBlock, ReadInode, Construct, EnterReadInode, MayEnter, Step, Take,
       Seek, ReadFile, ReadFileFails, ReturnFrom, Leave, CopyOut, Insert, Parse, Tag, Goto
  <2>3. InHand = IF pc[t] \in {"copy", "insert"} THEN {blk[t]} ELSE {}
    BY <2>2, HandOfOne
  <2>4. \A u \in Thread \ {t} : pc'[u] = pc[u]
    BY <1>2, <2>1 DEF Call, ReadBlock, ReadInode, Construct, EnterReadInode, Step, Take,
       Seek, ReadFile, ReadFileFails, ReturnFrom, Leave, CopyOut, Insert, Parse, Tag, Goto
  <2>5. InHand' = IF pc'[t] \in {"copy", "insert"} THEN {blk'[t]} ELSE {}
    BY <2>2, <2>4 DEF InHand
  <2>6. \A u \in Thread \ {t} : pc'[u] \notin Owning
    BY <2>2, <2>4 DEF Owning
  <2>7. pc[t] \in Owning => blk[t] \notin Cached
    BY DEF LRUInv, OldestWereDropped
  <2>8. CASE Call(t)
    <3>1. /\ UNCHANGED <<hash, newer, recent>>
          /\ pc[t] = "idle" /\ pc'[t] \in {"take", "parse"}
      BY <2>1, <2>8 DEF Call, ReadBlock, ReadInode, Construct, EnterReadInode, Goto, cacheVars
    <3>2. QED
      BY <2>3, <2>6, <3>1, SameCacheKeepsLRU DEF Owning
  <2>9. CASE Take(t) /\ blk[t] \in Cached
    <3>1. /\ CacheTake(blk[t]) /\ recent' = recent /\ blk' = blk
          /\ pc[t] = "take" /\ pc'[t] = "copy"
      BY <2>1, <2>9 DEF Take, callVars
    <3>2. InHand = {} /\ InHand' = {blk[t]}
      BY <2>3, <2>5, <3>1
    <3>3. \A u \in Thread : pc'[u] \in Owning => blk'[u] = blk[t]
      BY <2>6, <3>1
    <3>4. QED
      BY <2>1, <2>9, <3>1, <3>2, <3>3, TakeKeepsLRU
  <2>10. CASE Take(t) /\ blk[t] \notin Cached
    <3>1. UNCHANGED <<hash, newer, recent, blk>> /\ pc[t] = "take" /\ pc'[t] = "seek"
      BY <2>1, <2>10 DEF Take, callVars
    <3>2. QED
      BY <2>3, <2>6, <2>10, <3>1, SameCacheKeepsLRU
  <2>11. CASE Seek(t) \/ ReadFile(t) \/ CopyOut(t)
    <3>1. /\ UNCHANGED <<hash, newer, recent, blk>> /\ pc[t] \in Owning
          /\ pc[t] \in {"copy", "insert"} => pc'[t] \in {"copy", "insert"}
      BY <2>1, <2>11 DEF Seek, ReadFile, CopyOut, Goto, cacheVars, callVars, Owning
    <3>2. QED
      BY <2>3, <2>5, <2>6, <2>7, <3>1, SameCacheKeepsLRU
  <2>12. CASE ReadFileFails(t) \/ Parse(t) \/ Tag(t)
    <3>1. /\ UNCHANGED <<hash, newer, recent>> /\ pc[t] \in {"read", "parse", "tag"}
          /\ pc'[t] \in {"tag", "idle"}
      BY <2>1, <2>12 DEF ReadFileFails, Parse, Tag, ReturnFrom, Leave, Goto, cacheVars
    <3>2. QED
      BY <2>3, <2>6, <3>1, SameCacheKeepsLRU DEF Owning
  <2>13. CASE Insert(t)
    <3>1. /\ CacheInsert(blk[t], held[t]) /\ pc[t] = "insert"
          /\ pc'[t] \in {"idle", "parse"}
      BY <2>1, <2>13 DEF Insert, ReturnFrom, Leave, Goto
    <3>2. /\ blk[t] \in Block /\ held[t] \in Content /\ blk[t] \notin Cached
      BY <2>1, <2>7, <3>1 DEF TypeInv, CallsHaveBuffers, Owning
    <3>3. InHand = {blk[t]} /\ InHand' = {}
      BY <2>3, <2>5, <3>1
    <3>4. \A u \in Thread : pc'[u] \notin Owning
      BY <2>6, <3>1 DEF Owning
    <3>5. QED
      BY <2>1, <3>1, <3>2, <3>3, <3>4, InsertKeepsLRU
  <2>14. QED
    BY <1>2, <2>8, <2>9, <2>10, <2>11, <2>12, <2>13 DEF Step
<1>3. QED
  BY <1>1, <1>2 DEF Next

\* With one thread inside at a time the cache drops the block that was read
\* longest ago, and only when it is full (ext2_readblock, QCache).
THEOREM CacheDropsOldest ==
  ASSUME Exclusive PROVE Spec => []LeastRecentlyUsedGoes
<1>1. Init => LRUInv
  BY InitLRU
<1>2. LRUInv => LeastRecentlyUsedGoes
  <2>1. Outside => InHand = {}
    BY DEF Outside, InHand
  <2>2. QED
    BY <2>1 DEF LRUInv, OldestWereDropped, LeastRecentlyUsedGoes
<1>3. QED
  BY <1>1, <1>2, IInvHolds, NextKeepsLRU, PTL DEF Spec

-----------------------------------------------------------------------------
(* Refinement: callers see a plain block device.                           *)

LEMMA InitRefines == Init => Source!Init
<1>1. Init => ~RootRead
  BY BlockAssumption DEF Init, RootRead, Delivered
<1>2. QED
  BY <1>1 DEF Source!Init

\* Of a partition without its root nothing is seen.
LEMMA UnreadIsUnseen == ~RootRead /\ ~RootRead' => UNCHANGED Source!vars
BY DEF Source!vars

\* A call is an Ask of its block; the constructor's is not seen.
LEMMA CallRefines ==
  ASSUME IInv, NEW t \in Thread, Call(t)
  PROVE  Source!Next \/ UNCHANGED Source!vars
<1>1. pc \in [Thread -> PCs] /\ blk \in [Thread -> Block \cup {None}]
  BY DEF IInv, TypeInv, TypeOK
<1>2. PICK b \in Block :
        /\ pc[t] = "idle" /\ blk' = [blk EXCEPT ![t] = b]
        /\ \/ pc' = [pc EXCEPT ![t] = "take"]
           \/ pc' = [pc EXCEPT ![t] = "parse"]
        /\ UNCHANGED <<root, got>>
  BY BlockAssumption DEF Call, ReadBlock, ReadInode, Construct, EnterReadInode, Goto, inodeVars
<1>3. RootRead' = RootRead
  BY <1>2 DEF RootRead, Delivered
<1>4. CASE RootRead
  <2>1. Source!Ask(t, b)
    BY <1>1, <1>2, <1>3, <1>4 DEF Source!Ask
  <2>2. QED
    BY <2>1 DEF Source!Next
<1>5. QED
  BY <1>3, <1>4, UnreadIsUnseen

\* A return from the partition answers or fails; every other step is unseen.
LEMMA StepRefines ==
  ASSUME IInv, NEW t \in Thread, Step(t)
  PROVE  Source!Next \/ UNCHANGED Source!vars
<1>1. /\ pc \in [Thread -> PCs] /\ blk \in [Thread -> Block \cup {None}]
      /\ got \in [Thread -> {None} \cup (Block \X (Content \cup {Failed}))]
      /\ CallOnCourse(t)
      /\ pc[t] # "idle" => blk[t] \in Block
      /\ \A u \in Thread : pc[u] # "idle" /\ pc[t] # "idle" => u = t
  BY DEF IInv, TypeInv, TypeOK, CallsHaveBuffers
<1>2. CASE root = None
  <2>1. ~RootRead
    BY <1>2, BlockAssumption DEF RootRead, Delivered
  <2>2. CASE Tag(t)
    <3>1. /\ pc' = [pc EXCEPT ![t] = "idle"] /\ pc[t] # "idle" /\ UNCHANGED got
      BY <1>2, <2>2 DEF Tag, ReturnFrom, Leave, Goto
    <3>2. \A u \in Thread : pc'[u] = "idle"
      BY <1>1, <3>1
    <3>3. got = [u \in Thread |-> None]
      BY <1>1, <1>2 DEF IInv
    <3>4. QED
      BY <2>1, <3>1, <3>2, <3>3 DEF Source!vars
  <2>3. CASE ~Tag(t)
    <3>1. root' = root
      BY <2>3 DEF Step, Take, Seek, ReadFile, ReadFileFails, CopyOut, Insert, Parse, inodeVars
    <3>2. QED
      BY <2>1, <3>1, UnreadIsUnseen DEF RootRead, Delivered
  <2>4. QED
    BY <2>2, <2>3
<1>3. CASE root # None /\ ~RootRead
  <2>1. root' = root
    BY <1>3 DEF Step, Take, Seek, ReadFile, ReadFileFails, CopyOut, Insert, Parse, Tag, inodeVars
  <2>2. QED
    BY <1>3, <2>1, UnreadIsUnseen DEF RootRead, Delivered
<1>4. ASSUME RootRead, root # None PROVE Source!Next \/ UNCHANGED Source!vars
  <2>1. RootRead'
    <3>1. root' = root
      BY <1>4 DEF Step, Take, Seek, ReadFile, ReadFileFails, CopyOut, Insert, Parse, Tag, inodeVars
    <3>2. QED
      BY <1>4, <3>1 DEF RootRead, Delivered
  <2> DEFINE Unseen == /\ pc[t] # "idle"
                       /\ \E to \in PCs \ {"idle"} : pc' = [pc EXCEPT ![t] = to]
                       /\ UNCHANGED <<blk, got>>
  <2>2. ASSUME Unseen PROVE UNCHANGED Source!vars
    BY <1>1, <1>4, <2>1, <2>2 DEF Source!vars
  <2>3. CASE Take(t)
    BY <2>2, <2>3 DEF Take, callVars, PCs, Owning
  <2>4. CASE Seek(t) \/ ReadFile(t) \/ CopyOut(t) \/ Parse(t)
    BY <2>2, <2>4 DEF Seek, ReadFile, CopyOut, Parse, Goto, callVars, PCs, Owning
  <2>6. CASE ReadFileFails(t)
    <3>1. ReturnFrom(t, "read", Failed) /\ blk[t] \in Bad
      BY <1>1, <2>6 DEF ReadFileFails, ReturnFrom, Leave, Goto, CallOnCourse
    <3>2. Source!Return(t, Failed) /\ pc[t] = "read"
      BY <1>1, <1>4, <2>1, <3>1 DEF ReturnFrom, Leave, Goto, Source!Return
    <3>3. Source!Fail(t)
      BY <1>4, <3>1, <3>2 DEF Source!Fail
    <3>4. QED
      BY <3>3 DEF Source!Next
  <2>7. CASE Insert(t) /\ dst[t] = "inode_buffer"
    BY <2>2, <2>7 DEF Insert, Goto, callVars, PCs, Owning
  <2>8. CASE \/ Insert(t) /\ dst[t] = "caller"
             \/ Tag(t)
    <3>1. PICK from \in {"insert", "tag"} : ReturnFrom(t, from, held[t])
      BY <1>4, <2>8 DEF Insert, Tag
    <3>2. held[t] = Delivered[blk[t]]
      <4>1. CASE from = "insert"
        BY <1>1, <3>1, <4>1 DEF ReturnFrom, Leave, Goto, CallOnCourse
      <4>2. CASE from = "tag"
        <5>1. pc[t] = "tag"
          BY <3>1, <4>2 DEF ReturnFrom, Leave, Goto
        <5>2. held[t] = inode_buffer /\ dst[t] = "inode_buffer"
          BY <1>1, <5>1 DEF CallOnCourse
        <5>3. inode_buffer = Delivered[blk[t]]
          BY <1>1, <1>4, <5>1, <5>2 DEF CallOnCourse
        <5>4. QED
          BY <5>2, <5>3
      <4>3. QED
        BY <4>1, <4>2
    <3>3. Source!Return(t, held[t]) /\ pc[t] = from
      BY <1>1, <1>4, <2>1, <3>1 DEF ReturnFrom, Leave, Goto, Source!Return
    <3>4. blk[t] \in Block /\ pc[t] # "idle"
      BY <1>1, <3>3
    <3>5. Source!Answer(t)
      BY <1>4, <3>2, <3>3, <3>4, BlockAssumption DEF Source!Answer, Source!Return
    <3>6. QED
      BY <3>5 DEF Source!Next
  <2>9. QED
    BY <2>3, <2>4, <2>6, <2>7, <2>8 DEF Step, Insert
<1>5. QED
  BY <1>2, <1>3, <1>4

\* Whatever the cache, the inode buffer and the file pointer do, a call for a
\* block returns what the medium delivers for it or fails where it fails; on a
\* partition whose constructor read the root block (RootRead).
THEOREM Refinement ==
  ASSUME Exclusive PROVE Spec => ImplementsBlockSource
<1>1. ASSUME IInv, [Next]_vars PROVE [Source!Next]_(Source!vars)
  <2>1. CASE UNCHANGED vars
    BY <2>1 DEF vars, callVars, inodeVars, RootRead, Delivered, Source!vars
  <2>2. CASE Next
    BY <1>1, <2>2, CallRefines, StepRefines DEF Next
  <2>3. QED
    BY <1>1, <2>1, <2>2
<1>2. QED
  BY <1>1, IInvHolds, InitRefines, PTL DEF Spec, ImplementsBlockSource, Source!Spec

-----------------------------------------------------------------------------
(* The dialog and its copies                                               *)

USE DialogAssumption

LEMMA InitDialogInv == DialogInit => DialogInv
<1> SUFFICES ASSUME DialogInit PROVE DialogInv
  OBVIOUS
<1> USE DEF DialogInit
<1>1. DialogTypeOK
  <2>1. queue \in Seq(Proc)
    BY EmptySeq
  <2>2. 0 \in 0 .. MaxScans
    OBVIOUS
  <2>3. QED
    BY <2>1, <2>2, Zenon DEF DialogTypeOK
<1>2. ProcIsStarted
  BY DEF ProcIsStarted, Active
<1>3. LeftCopiesAreCancelled
  BY DEF LeftCopiesAreCancelled
<1>4. DialogHoldsCopy
  BY DEF DialogHoldsCopy
<1>5. QED
  BY <1>1, <1>2, <1>3, <1>4 DEF DialogInv

-----------------------------------------------------------------------------
(* DialogInv step by step: what the user does, the threads, the event loop.     *)

LEMMA SaveInv == ASSUME DialogInv, NEW p \in Proc, Save(p) PROVE DialogInv'
<1> USE DEF DialogInv, Save, MainWindow
<1>1. DialogTypeOK'
  BY DEF DialogTypeOK
<1>2. ProcIsStarted'
  BY DEF DialogTypeOK, ProcIsStarted, Active
<1>3. LeftCopiesAreCancelled'
  BY DEF DialogTypeOK, ProcIsStarted, LeftCopiesAreCancelled
<1>4. DialogHoldsCopy'
  BY DEF DialogTypeOK, ProcIsStarted, DialogHoldsCopy
<1>5. QED
  BY <1>1, <1>2, <1>3, <1>4

LEMMA WindowInv == ASSUME DialogInv, Browse \/ Rescan \/ Browsed PROVE DialogInv'
<1> USE DEF DialogInv, Browse, Rescan, Browsed, MainWindow
<1>1. DialogTypeOK'
  <2>1. CASE Browse \/ Browsed
    BY <2>1 DEF DialogTypeOK
  <2>2. CASE Rescan
    BY <2>2 DEF DialogTypeOK
  <2>3. QED
    BY <2>1, <2>2
<1>2. ProcIsStarted'
  BY DEF ProcIsStarted, Active
<1>3. LeftCopiesAreCancelled'
  BY DEF LeftCopiesAreCancelled
<1>4. DialogHoldsCopy'
  BY DEF DialogTypeOK, DialogHoldsCopy
<1>5. QED
  BY <1>1, <1>2, <1>3, <1>4

LEMMA BoxInv ==
  ASSUME DialogInv, CancelClicked \/ AnswerYes \/ AnswerNo \/ CloseDialog
  PROVE  DialogInv'
<1> USE DEF DialogInv, CancelClicked, AnswerYes, AnswerNo, Answer, CloseDialog, CancelProcesses
<1>1. DialogTypeOK'
  BY DEF DialogTypeOK
<1>2. ProcIsStarted'
  BY DEF ProcIsStarted, Active
<1>3. LeftCopiesAreCancelled'
  BY DEF DialogTypeOK, LeftCopiesAreCancelled
<1>4. DialogHoldsCopy'
  BY DEF DialogHoldsCopy
<1>5. QED
  BY <1>1, <1>2, <1>3, <1>4

LEMMA EmitInv == ASSUME DialogInv, NEW p \in Proc, EmitCopydone(p) PROVE DialogInv'
<1> USE DEF DialogInv, EmitCopydone
<1>1. DialogTypeOK'
  <2>1. queue' \in Seq(Proc)
    BY DEF DialogTypeOK
  <2>2. QED
    BY <2>1 DEF DialogTypeOK
<1>2. ProcIsStarted'
  BY DEF DialogTypeOK, ProcIsStarted, Active
<1>3. LeftCopiesAreCancelled'
  BY DEF DialogTypeOK, LeftCopiesAreCancelled
<1>4. DialogHoldsCopy'
  <2>1. SUFFICES ASSUME ~dismissed PROVE DialogHoldsCopy'
    BY DEF DialogHoldsCopy
  <2>2. /\ p = proc /\ p \notin deleted /\ visible /\ queue = <<>>
        /\ \A q \in Proc : thread[q] = "running" => q = p
    BY <2>1 DEF DialogHoldsCopy
  <2>3. queue' = <<p>>
    BY <2>2
  <2>4. \A q \in Proc : thread'[q] # "running"
    BY <2>2 DEF DialogTypeOK
  <2>5. QED
    BY <2>2, <2>3, <2>4 DEF DialogHoldsCopy
<1>5. QED
  BY <1>1, <1>2, <1>3, <1>4

LEMMA ReturnInv == ASSUME DialogInv, NEW p \in Proc, ReturnFromRun(p) PROVE DialogInv'
<1> USE DEF DialogInv, ReturnFromRun
<1>1. DialogTypeOK'
  BY DEF DialogTypeOK
<1>2. ProcIsStarted'
  BY DEF DialogTypeOK, ProcIsStarted, Active
<1>3. LeftCopiesAreCancelled'
  BY DEF DialogTypeOK, LeftCopiesAreCancelled
<1>4. DialogHoldsCopy'
  BY DEF DialogTypeOK, DialogHoldsCopy
<1>5. QED
  BY <1>1, <1>2, <1>3, <1>4

LEMMA CopydoneInv == ASSUME DialogInv, Copydone PROVE DialogInv'
<1> USE DEF DialogInv, Copydone, DeleteProc
<1>1. proc \in Proc /\ queue \in Seq(Proc) /\ queue # <<>>
  BY DEF DialogTypeOK, ProcIsStarted
<1>2. DialogTypeOK'
  <2>1. queue' \in Seq(Proc) /\ deleted' \subseteq Proc
    BY <1>1 DEF DialogTypeOK
  <2>2. aborted' \in BOOLEAN
    BY DEF DialogTypeOK
  <2>3. QED
    BY <2>1, <2>2 DEF DialogTypeOK
<1>3. ProcIsStarted'
  <2>1. ~aborted' => deleted' \cap Active' = {}
    BY DEF ProcIsStarted, Active
  <2>2. QED
    BY <1>1, <2>1 DEF ProcIsStarted
<1>4. LeftCopiesAreCancelled'
  BY DEF LeftCopiesAreCancelled
<1>5. DialogHoldsCopy'
  BY <1>1 DEF DialogHoldsCopy
<1>6. QED
  BY <1>2, <1>3, <1>4, <1>5

LEMMA NextDialogInv == DialogInv /\ [DialogNext]_dialogVars => DialogInv'
<1> SUFFICES ASSUME DialogInv, [DialogNext]_dialogVars PROVE DialogInv'
  OBVIOUS
<1>1. CASE User
  BY <1>1, SaveInv, WindowInv, BoxInv DEF User
<1>2. CASE \E p \in Proc : CopyThread(p)
  BY <1>2, EmitInv, ReturnInv DEF CopyThread
<1>3. CASE GUI
  BY <1>3, WindowInv, CopydoneInv DEF GUI
<1>4. CASE UNCHANGED dialogVars
  BY <1>4 DEF dialogVars, DialogInv, DialogTypeOK, ProcIsStarted, LeftCopiesAreCancelled, DialogHoldsCopy, Active
<1>5. QED
  BY <1>1, <1>2, <1>3, <1>4 DEF DialogNext, Ended

LEMMA DialogInvariance == DialogSpec => []DialogInv
BY InitDialogInv, NextDialogInv, PTL DEF DialogSpec

-----------------------------------------------------------------------------
(* The theorems.                                                           *)

\* Every variable keeps its type, however many copies are started.
THEOREM DialogTypes == DialogSpec => []DialogTypeOK
<1>1. DialogInv => DialogTypeOK
  BY DEF DialogInv
<1>2. QED
  BY DialogInvariance, <1>1, PTL

\* Until a dialog is closed under its copy, one thread at a time is inside a
\* partition: no two copies, and no listing next to a copy (start_copy and the
\* modal dialog).
THEOREM OneThreadInside == DialogSpec => []OneUser
<1>1. DialogInv => OneUser
  BY DEF DialogInv, DialogHoldsCopy, OneUser
<1>2. QED
  BY DialogInvariance, <1>1, PTL

\* Until then a rescan deletes no partition that a copy reads from.
THEOREM CopiesKeepPartitions == DialogSpec => []PartitionsOutliveCopies
<1>1. DialogInv => PartitionsOutliveCopies
  BY DEF DialogInv, DialogHoldsCopy, PartitionsOutliveCopies
<1>2. QED
  BY DialogInvariance, <1>1, PTL

\* Until then slot_copydone deletes the process whose event it handles, once.
THEOREM SenderIsDeleted == DialogSpec => []DeletesSender
<1>1. DialogInv => DeletesSender
  BY DEF DialogInv, DialogHoldsCopy, DeletesSender
<1>2. QED
  BY DialogInvariance, <1>1, PTL

\* A copy that runs without its dialog was told to stop when that was closed.
THEOREM HiddenCopiesAreCancelled == DialogSpec => []HiddenCopyIsCancelled
<1>1. DialogInv => HiddenCopyIsCancelled
  BY DEF DialogInv, ProcIsStarted, LeftCopiesAreCancelled, HiddenCopyIsCancelled, Active
<1>2. QED
  BY DialogInvariance, <1>1, PTL

\* A confirmed cancel, or a dialog that is closed, stops every copy that runs; no
\* other step sets a flag, and none is set but in the shown, undeleted process.
THEOREM CancelIsForShownCopy == DialogSpec => CancelReachesShownCopy
<1> DEFINE Reaches == AnswerYes \/ CloseDialog =>
             \A p \in Proc : thread[p] = "running" => cancelOperation'[p]
           Shown == \A p \in Proc : cancelOperation'[p] # cancelOperation[p] =>
             (AnswerYes \/ CloseDialog) /\ p = proc /\ p \notin deleted
<1>1. ASSUME DialogInv, [DialogNext]_dialogVars PROVE [Reaches /\ Shown]_dialogVars
  <2>1. CASE AnswerYes \/ CloseDialog
    <3>1. /\ ~aborted /\ CancelProcesses /\ cancelOperation \in [Proc -> BOOLEAN]
          /\ deleted \cap Active = {}
      BY <1>1, <2>1 DEF AnswerYes, Answer, CloseDialog, DialogInv, DialogTypeOK, ProcIsStarted
    <3>2. Reaches
      BY <3>1 DEF CancelProcesses, Active
    <3>3. ASSUME NEW p \in Proc, cancelOperation'[p] # cancelOperation[p]
          PROVE  p = proc /\ p \notin deleted
      <4>1. thread[p] # "new" /\ p \notin deleted /\ ~cancelOperation[p]
        BY <3>1, <3>3 DEF CancelProcesses
      <4>2. QED
        BY <1>1, <3>1, <4>1 DEF DialogInv, LeftCopiesAreCancelled
    <3>4. QED
      BY <2>1, <3>2, <3>3
  <2>2. CASE ~(AnswerYes \/ CloseDialog)
    <3>1. UNCHANGED cancelOperation
      BY <1>1, <2>2
         DEF DialogNext, User, CopyThread, GUI, Ended, dialogVars, Save, Browse, Rescan,
             CancelClicked, AnswerNo, EmitCopydone, ReturnFromRun, Browsed, Copydone
    <3>2. QED
      BY <2>2, <3>1
  <2>3. QED
    BY <2>1, <2>2
<1>2. QED
  BY <1>1, DialogInvariance, PTL DEF DialogSpec, CancelReachesShownCopy

-----------------------------------------------------------------------------
(* The session: the threads of the dialogs in the partition.               *)

LEMMA InitSessionInv == SessionInit => SessionInv
<1> SUFFICES ASSUME SessionInit PROVE SessionInv
  OBVIOUS
<1>1. DialogInv /\ IInv
  BY InitDialogInv, InitIInv DEF SessionInit
<1>2. InsideIsCalling
  BY DEF SessionInit, Init, InsideIsCalling
<1>3. QED
  BY <1>1, <1>2 DEF SessionInv, IInv

\* As long as no dialog was closed, a caller has the partition for itself.
LEMMA CallersAreAlone ==
  ASSUME SessionInv, ~dismissed, NEW t \in Thread, MayCall(t)
  PROVE  \A u \in Thread \ {t} : pc[u] = "idle"
<1>1. SUFFICES ASSUME NEW u \in Thread \ {t}, MayCall(u) PROVE FALSE
  BY DEF SessionInv, InsideIsCalling, MayCall
<1>2. \A p \in Proc : thread[p] = "running" => p = proc /\ ~browsing
  BY DEF SessionInv, DialogInv, DialogHoldsCopy
<1>3. QED
  BY <1>1, <1>2, CallersAssumption DEF MayCall

LEMMA AccessMovesCaller ==
  ASSUME TypeInv, NEW t \in Thread, Call(t) \/ Step(t)
  PROVE  \A u \in Thread \ {t} : pc'[u] = pc[u]
<1>1. \E to \in PCs : pc' = [pc EXCEPT ![t] = to]
  BY DEF Call, ReadBlock, ReadInode, Construct, EnterReadInode, Step, Take, Seek, ReadFile, ReadFileFails, ReturnFrom, Leave,
         CopyOut, Insert, Parse, Tag, Goto, PCs, Owning
<1>2. QED
  BY <1>1 DEF TypeInv, TypeOK

LEMMA AccessInv ==
  ASSUME SessionInv, NEW t \in Thread, Access(t)
  PROVE  SessionInv'
<1>1. MayCall(t) /\ (Call(t) \/ Step(t)) /\ UNCHANGED dialogVars
  BY DEF Access
<1>2. DialogInv'
  BY <1>1, NextDialogInv DEF SessionInv
<1>3. TypeInv'
  BY <1>1, CallTypes, StepTypes DEF SessionInv
<1>4. InsideIsCalling'
  <2>1. UNCHANGED <<aborted, browsing, thread>> /\ \A u \in Thread \ {t} : pc'[u] = pc[u]
    BY <1>1, AccessMovesCaller DEF SessionInv, dialogVars
  <2>2. CASE root' = root
    BY <1>1, <2>1, <2>2 DEF SessionInv, InsideIsCalling, MayCall
  <2>3. CASE root' # root
    <3>1. Tag(t) /\ root = None
      BY <1>1, <2>3 DEF Call, ReadBlock, ReadInode, Construct, EnterReadInode, Step, Take, Seek,
                        ReadFile, ReadFileFails, CopyOut, Insert, Parse, Tag, inodeVars
    <3>2. pc'[t] = "idle" /\ t = gui
      BY <1>1, <3>1 DEF MayCall, Tag, ReturnFrom, Leave, Goto, SessionInv, TypeInv, TypeOK
    <3>3. \A u \in Thread \ {t} : ~aborted => pc[u] = "idle"
      BY <3>1, <3>2 DEF SessionInv, InsideIsCalling, MayCall
    <3>4. QED
      BY <2>1, <3>2, <3>3 DEF InsideIsCalling
  <2>4. QED
    BY <2>2, <2>3
<1>5. ASSUME ~dismissed' PROVE IInv'
  <2>1. ~dismissed /\ IInv
    BY <1>1, <1>5 DEF SessionInv, dialogVars
  <2>2. CASE Call(t)
    BY <1>1, <2>1, <2>2, CallersAreAlone, CallKeepsIInv
  <2>3. CASE Step(t)
    BY <2>1, <2>3, StepKeepsIInv
  <2>4. QED
    BY <1>1, <2>2, <2>3
<1>6. QED
  BY <1>2, <1>3, <1>4, <1>5 DEF SessionInv

\* What PartitionIO keeps invariant is kept when the partition is left alone.
LEMMA AloneInv ==
  ASSUME UNCHANGED vars
  PROVE  (TypeInv => TypeInv') /\ (IInv => IInv')
<1>1. TypeInv => TypeInv'
  BY NextTypes
<1>2. UNCHANGED <<hash, head, inode_buffer, last_block, root, pc, blk, dst, held, got>>
  BY DEF vars, cacheVars, inodeVars, callVars
<1>3. \A t \in Thread : CallOnCourse(t)' = CallOnCourse(t) /\ Retagging(t)' = Retagging(t)
  BY <1>2 DEF CallOnCourse, Delivered, Retagging, RootRead
<1>4. CacheTransparent' = CacheTransparent
  BY <1>2 DEF CacheTransparent, Cached, Delivered
<1>5. QED
  BY <1>1, <1>2, <1>3, <1>4 DEF IInv, Delivered, RootRead

LEMMA OuterKeepsRoot == Outer => root # None /\ UNCHANGED root
BY DEF Outer, vars, inodeVars

LEMMA OuterIsDialog == Outer => [DialogNext]_dialogVars
BY DEF Outer, DialogNext, User, CopyThread, GUI, EmitsCopydone, Listed

\* Nobody leaves the code that calls into the partition from inside it.
LEMMA OuterLeavesOutside ==
  ASSUME SessionInv, Outer, ~aborted', NEW t \in Thread, pc[t] # "idle"
  PROVE  MayCall(t)'
<1>1. thread \in [Proc -> {"new", "running", "returning", "finished"}]
  BY DEF SessionInv, DialogInv, DialogTypeOK
<1>2. ~aborted
  <2>1. CASE Ended
    BY <2>1 DEF Ended, dialogVars
  <2>2. CASE \E p \in Proc : Save(p) \/ EmitsCopydone(p) \/ ReturnFromRun(p)
    BY <2>2 DEF Save, MainWindow, EmitsCopydone, EmitCopydone, ReturnFromRun
  <2>3. CASE Browse \/ Listed \/ Copydone
    BY <2>3 DEF Browse, MainWindow, Listed, Browsed, Copydone
  <2>4. CASE CancelClicked \/ AnswerYes \/ AnswerNo \/ CloseDialog
    BY <2>4 DEF CancelClicked, AnswerYes, AnswerNo, Answer, CloseDialog
  <2>5. QED
    BY <2>1, <2>2, <2>3, <2>4 DEF Outer
<1>3. MayCall(t)
  BY <1>2 DEF SessionInv, InsideIsCalling
<1>4. CASE t = gui
  <2>1. browsing => browsing'
    BY <1>4
       DEF Outer, Save, EmitsCopydone, EmitCopydone, ReturnFromRun, Browse, Listed, Copydone,
           CancelClicked, AnswerYes, AnswerNo, Answer, CloseDialog, Ended, dialogVars
  <2>2. QED
    BY <1>3, <1>4, <2>1, OuterKeepsRoot DEF MayCall
<1>5. CASE t # gui
  <2>1. t \in Proc /\ thread[t] = "running"
    BY <1>3, <1>5, CallersAssumption DEF MayCall
  <2>2. thread'[t] = "running"
    BY <1>1, <2>1
       DEF Outer, Save, EmitsCopydone, EmitCopydone, ReturnFromRun, Browse, Listed, Browsed,
           Copydone, CancelClicked, AnswerYes, AnswerNo, Answer, CloseDialog, Ended, dialogVars
  <2>3. QED
    BY <1>3, <1>5, <2>2, OuterKeepsRoot DEF MayCall
<1>6. QED
  BY <1>4, <1>5

LEMMA OuterInv == ASSUME SessionInv, Outer PROVE SessionInv'
<1>1. DialogInv'
  BY OuterIsDialog, NextDialogInv DEF SessionInv
<1>2. UNCHANGED vars
  BY DEF Outer
<1>3. TypeInv' /\ (~dismissed => IInv')
  BY <1>2, AloneInv DEF SessionInv
<1>4. InsideIsCalling'
  BY <1>2, OuterLeavesOutside DEF InsideIsCalling, vars
<1>5. ~dismissed' => ~dismissed
  BY DEF Outer, Save, EmitsCopydone, EmitCopydone, ReturnFromRun, Browse, Listed, Browsed,
         Copydone, CancelClicked, AnswerYes, AnswerNo, Answer, CloseDialog, Ended, dialogVars
<1>6. QED
  BY <1>1, <1>3, <1>4, <1>5 DEF SessionInv

LEMMA RescanInv ==
  ASSUME SessionInv, RescanPartition
  PROVE  SessionInv'
<1>1. DialogInv'
  BY NextDialogInv DEF SessionInv, RescanPartition, DialogNext, User
<1>2. TypeInv'
  BY DEF RescanPartition, NewPartition, TypeInv, TypeOK, CallsHaveBuffers, Content, PCs, Owning
<1>3. InsideIsCalling'
  BY DEF RescanPartition, NewPartition, InsideIsCalling
<1>4. IInv'
  <2>1. root' = None /\ \A t \in Thread : pc'[t] = "idle" /\ got'[t] = None
    BY DEF RescanPartition, NewPartition
  <2>2. ~RootRead'
    BY <2>1, BlockAssumption DEF RootRead, Delivered
  <2>3. CacheTransparent'
    BY DEF RescanPartition, NewPartition, CacheTransparent, Cached
  <2>4. \A t \in Thread : CallOnCourse(t)'
    BY <2>1, <2>2 DEF CallOnCourse
  <2>5. QED
    BY <1>2, <2>1, <2>2, <2>3, <2>4 DEF IInv
<1>5. QED
  BY <1>1, <1>2, <1>3, <1>4 DEF SessionInv

LEMMA NextSessionInv == SessionInv /\ [SessionNext]_sessionVars => SessionInv'
<1> SUFFICES ASSUME SessionInv, [SessionNext]_sessionVars PROVE SessionInv'
  OBVIOUS
<1>1. CASE SessionNext
  BY <1>1, AccessInv, OuterInv, RescanInv DEF SessionNext
<1>2. CASE UNCHANGED sessionVars
  <2>1. UNCHANGED vars /\ UNCHANGED dialogVars
    BY <1>2 DEF sessionVars
  <2>2. DialogInv'
    BY <2>1, NextDialogInv DEF SessionInv
  <2>3. TypeInv' /\ (~dismissed => IInv')
    BY <2>1, AloneInv DEF SessionInv
  <2>4. InsideIsCalling' /\ dismissed' = dismissed
    BY <2>1 DEF SessionInv, InsideIsCalling, MayCall, vars, inodeVars, dialogVars
  <2>5. QED
    BY <2>2, <2>3, <2>4 DEF SessionInv
<1>3. QED
  BY <1>1, <1>2

LEMMA SessionInvHolds == SessionSpec => []SessionInv
BY InitSessionInv, NextSessionInv, PTL DEF SessionSpec

-----------------------------------------------------------------------------
(* The theorems.                                                           *)

\* Every behaviour of the session is one of the dialog and its copies: what is
\* shown above of those holds with the partition under them.
THEOREM SessionRefinesDialog == SessionSpec => DialogSpec
<1>1. SessionInit => DialogInit
  BY DEF SessionInit
<1>2. [SessionNext]_sessionVars => [DialogNext]_dialogVars
  <2>1. ASSUME NEW t \in Thread, Access(t) PROVE UNCHANGED dialogVars
    BY <2>1 DEF Access
  <2>2. RescanPartition => DialogNext
    BY DEF RescanPartition, DialogNext, User
  <2>3. QED
    BY <2>1, <2>2, OuterIsDialog DEF SessionNext, sessionVars
<1>3. QED
  BY <1>1, <1>2, PTL DEF SessionSpec, DialogSpec

\* Until a dialog is closed under its copy, the cache and the inode buffer hold
\* what they are said to hold, although the partition has no lock.
THEOREM SessionBuffers == SessionSpec => []UndisturbedBuffers
<1>1. SessionInv => UndisturbedBuffers
  BY DEF SessionInv, UndisturbedBuffers, IInv, BufferIsLastBlock, Outside, Retagging
<1>2. QED
  BY <1>1, SessionInvHolds, PTL

\* Until then the partition is to all of its callers a plain block device.
THEOREM SessionReads == SessionSpec => ReadsAsFromSource
<1> DEFINE A == ~dismissed /\ scans' = scans => Source!Next \/ UNCHANGED Source!vars
<1>1. ASSUME SessionInv, [SessionNext]_sessionVars PROVE [A]_sessionVars
  <2>1. SUFFICES ASSUME ~dismissed, scans' = scans, SessionNext
                 PROVE  Source!Next \/ UNCHANGED Source!vars
    BY <1>1
  <2>2. IInv
    BY <1>1, <2>1 DEF SessionInv
  <2>3. CASE \E t \in Thread : Access(t)
    BY <2>2, <2>3, CallRefines, StepRefines DEF Access
  <2>4. CASE Outer
    BY <2>4 DEF Outer, vars, inodeVars, callVars, RootRead, Delivered, Source!vars
  <2>5. CASE RescanPartition
    BY <1>1, <2>1, <2>5
       DEF RescanPartition, Rescan, SessionInv, DialogInv, DialogTypeOK
  <2>6. QED
    BY <2>1, <2>3, <2>4, <2>5 DEF SessionNext
<1>2. QED
  BY <1>1, SessionInvHolds, PTL DEF SessionSpec, ReadsAsFromSource
===============================================================================
