---------------------------- MODULE DirStreamProofs ----------------------------
(***************************************************************************)
(* Theorems about DirStream, for directories of any size, with entries of  *)
(* any lengths and kinds.                                                  *)
(***************************************************************************)
EXTENDS DirStream, TLAPS

USE DirAssumption

\* A block's entries start within it and tile it.
LEMMA BlockFacts ==
  ASSUME NEW f \in DirBlock
  PROVE  /\ DOMAIN f \subseteq 0 .. BlockSize - 1 /\ 0 \in DOMAIN f
         /\ \A o \in DOMAIN f :
              /\ f[o].kind \in Kind
              /\ f[o].len \in Nat
              /\ o + f[o].len \in DOMAIN f \cup {BlockSize}
              /\ o + f[o].len <= BlockSize
         /\ \A o, q \in DOMAIN f : o < q => f[o].len # 0 /\ o + f[o].len <= q
<1>1. PICK S \in SUBSET (0 .. BlockSize - 1) : f \in [S -> [kind : Kind, len : 0 .. BlockSize]]
  BY DEF DirBlock
<1>2. DOMAIN f = S /\ \A o \in S : f[o] \in [kind : Kind, len : 0 .. BlockSize]
  BY <1>1
<1>3. \A o \in S : f[o].kind \in Kind /\ f[o].len \in 0 .. BlockSize
  BY <1>2
<1>4. /\ 0 \in DOMAIN f
      /\ \A o \in DOMAIN f : o + f[o].len \in DOMAIN f \cup {BlockSize}
      /\ \A o, q \in DOMAIN f : o < q => f[o].len # 0 /\ o + f[o].len <= q
  BY DEF DirBlock
<1>5. ASSUME NEW o \in DOMAIN f PROVE o + f[o].len <= BlockSize
  <2>1. o \in 0 .. BlockSize - 1 /\ BlockSize \in Nat /\ f[o].len \in 0 .. BlockSize
    BY <1>2, <1>3
  <2>2. o + f[o].len \in 0 .. BlockSize - 1 \/ o + f[o].len = BlockSize
    BY <1>2, <1>4
  <2>3. QED
    BY <2>1, <2>2
<1>6. QED
  BY <1>2, <1>3, <1>4, <1>5

LEMMA BlocksAreBlocks ==
  ASSUME dir \in Dirs
  PROVE  /\ Len(dir) \in Nat \ {0}
         /\ \A k \in 0 .. Len(dir) - 1 : Block(k) \in DirBlock
<1>1. dir \in Seq(DirBlock) /\ dir # <<>>
  OBVIOUS
<1>2. QED
  BY <1>1 DEF Block

\* The entry at next, in a state in which there is one.
LEMMA EntryFacts ==
  ASSUME TypeOK, next # Null
  PROVE  /\ dirbuf \in 0 .. Len(dir) - 1 /\ next_block = dirbuf + 1
         /\ next \in DOMAIN Block(dirbuf) /\ next \in 0 .. BlockSize - 1
         /\ Entry.kind \in Kind /\ Entry.len \in Nat
         /\ next + Entry.len \in DOMAIN Block(dirbuf) \cup {BlockSize}
         /\ next + Entry.len <= BlockSize
         /\ \A o \in DOMAIN Block(dirbuf) :
              /\ o \in 0 .. BlockSize - 1
              /\ o < next + Entry.len <=> (IF Stuck THEN o < next ELSE o <= next)
<1>1. dirbuf \in 0 .. Len(dir) - 1 /\ next_block = dirbuf + 1 /\ next \in DOMAIN Block(dirbuf)
  BY BlocksAreBlocks DEF TypeOK
<1>2. Block(dirbuf) \in DirBlock
  BY <1>1, BlocksAreBlocks DEF TypeOK
<1>3. QED
  BY <1>1, <1>2, BlockFacts DEF Entry, Stuck

\* The bytes of the directory's blocks, block by block.
LEMMA BlockBytes ==
  ASSUME NEW m \in Nat, NEW n \in Nat
  PROVE  /\ m * BlockSize \in Nat
         /\ (m + 1) * BlockSize = m * BlockSize + BlockSize
         /\ m <= n => m * BlockSize <= n * BlockSize
         /\ m < n => (m + 1) * BlockSize <= n * BlockSize
<1>1. BlockSize \in Nat \ {0}
  OBVIOUS
<1>2. QED
  BY <1>1, SMTT(30)

LEMMA InitInv == Init => IInv
<1> SUFFICES ASSUME Init PROVE IInv
  OBVIOUS
<1> USE DEF Init
<1>1. TypeOK
  <2>1. Len(dir) \in Nat /\ Len(dir) * BlockSize \in Nat
    BY BlocksAreBlocks, BlockBytes
  <2>2. read_bytes \in 0 .. FileSize /\ next_block \in 0 .. Len(dir)
    BY <2>1 DEF FileSize
  <2>3. bad \subseteq 0 .. Len(dir) - 1
    BY <2>1
  <2>4. QED
    BY <2>2, <2>3 DEF TypeOK
<1>2. ListedIsPassed
  BY BlocksAreBlocks DEF ListedIsPassed, EntriesOf, Passed
<1>3. QED
  BY <1>1, <1>2 DEF IInv, StreamInStep, BytesMatchPosition, StopsOnlyAtObstacle

-----------------------------------------------------------------------------
(* IInv step by step.                                                      *)

\* What read_dir has listed stays right when the same live entries are passed.
LEMMA SamePassed ==
  ASSUME ListedIsPassed, UNCHANGED <<dir, listed>>,
         \A e \in EntriesOf({"live"}) :
           \/ StuckAt(e)'
           \/ ~StuckAt(e) /\ (Passed(e[1], e[2])' <=> Passed(e[1], e[2]))
  PROVE  ListedIsPassed'
<1>1. EntriesOf({"live"})' = EntriesOf({"live"})
  BY DEF EntriesOf, Block
<1>2. QED
  BY <1>1 DEF ListedIsPassed

LEMMA EntriesType ==
  ASSUME NEW kinds, NEW e \in EntriesOf(kinds)
  PROVE  /\ e[1] \in 0 .. Len(dir) - 1 /\ e[2] \in 0 .. BlockSize - 1
         /\ e[2] \in DOMAIN Block(e[1]) /\ Block(e[1])[e[2]].kind \in kinds
BY DEF EntriesOf

LEMMA CallInv == ASSUME IInv, Call PROVE IInv'
<1> USE DEF IInv, Call
<1>1. TypeOK'
  BY BlocksAreBlocks DEF TypeOK, LoadBlock, Readable, ReturnNull, Block, FileSize
<1>2. StreamInStep'
  BY BlocksAreBlocks DEF TypeOK, StreamInStep, LoadBlock, Readable, ReturnNull
<1>3. BytesMatchPosition'
  <2>1. CASE dirbuf = Null
    <3>1. next = Null /\ read_bytes = 0 /\ next_block = 0
      BY <2>1 DEF StreamInStep, TypeOK
    <3>2. QED
      BY <2>1, <3>1, BlockBytes DEF BytesMatchPosition, LoadBlock, ReturnNull
  <2>2. CASE dirbuf # Null
    BY <2>2 DEF BytesMatchPosition, StreamInStep, Entry, Block
  <2>3. QED
    BY <2>1, <2>2
<1>4. ListedIsPassed'
  <2>1. \A e \in EntriesOf({"live"}) : Passed(e[1], e[2])' <=> Passed(e[1], e[2])
    <3> SUFFICES ASSUME NEW e \in EntriesOf({"live"})
                 PROVE  Passed(e[1], e[2])' <=> Passed(e[1], e[2])
      OBVIOUS
    <3>1. e[1] \in Nat
      BY EntriesType
    <3>2. CASE dirbuf = Null
      <4>1. next_block = 0 /\ next = Null
        BY <3>2 DEF TypeOK, StreamInStep
      <4>2. QED
        BY <3>1, <3>2, <4>1 DEF Passed, LoadBlock, ReturnNull
    <3>3. CASE dirbuf # Null
      BY <3>3 DEF Passed, StreamInStep
    <3>4. QED
      BY <3>2, <3>3
  <2>2. \A e : StuckAt(e) => StuckAt(e)'
    BY DEF StuckAt, Stuck, Entry, Block, StreamInStep
  <2>3. QED
    BY <2>1, <2>2, SamePassed
<1>5. StopsOnlyAtObstacle'
  BY BlocksAreBlocks DEF StopsOnlyAtObstacle, StreamInStep, TypeOK, LoadBlock, Readable, ReturnNull
<1>6. QED
  BY <1>1, <1>2, <1>3, <1>4, <1>5

LEMMA FirstEntryInv == ASSUME IInv, FirstEntry PROVE IInv'
<1> USE DEF IInv, FirstEntry
<1>0. dirbuf \in 0 .. Len(dir) - 1 /\ next_block = dirbuf + 1 /\ Block(dirbuf) \in DirBlock
  BY BlocksAreBlocks DEF TypeOK, StreamInStep
<1>1. TypeOK'
  BY <1>0, BlockFacts DEF TypeOK, Block, FileSize
<1>2. StreamInStep'
  BY DEF StreamInStep
<1>3. BytesMatchPosition'
  BY <1>0, BlocksAreBlocks, BlockBytes DEF BytesMatchPosition
<1>4. ListedIsPassed'
  <2>1. \A e \in EntriesOf({"live"}) : Passed(e[1], e[2])' <=> Passed(e[1], e[2])
    BY EntriesType, BlocksAreBlocks DEF Passed, TypeOK
  <2>2. \A e : ~StuckAt(e)
    BY DEF StuckAt, Stuck
  <2>3. QED
    BY <2>1, <2>2, SamePassed
<1>5. StopsOnlyAtObstacle'
  BY DEF StopsOnlyAtObstacle
<1>6. QED
  BY <1>1, <1>2, <1>3, <1>4, <1>5

LEMMA NextEntryInv == ASSUME IInv, NextEntry PROVE IInv'
<1> USE DEF IInv, NextEntry
<1>0. next + Entry.len \in DOMAIN Block(dirbuf)
  BY EntryFacts DEF AtBufferEnd
<1>1. TypeOK'
  BY <1>0 DEF TypeOK, Block, FileSize
<1>2. StreamInStep'
  BY <1>0, EntryFacts DEF StreamInStep
<1>3. BytesMatchPosition'
  BY EntryFacts, BlocksAreBlocks, BlockBytes DEF BytesMatchPosition
<1>4. ListedIsPassed'
  <2>1. CASE Stuck
    <3>1. next' = next /\ \A e : StuckAt(e)' = StuckAt(e)
      BY <2>1, EntryFacts DEF StuckAt, Stuck, Entry, Block
    <3>2. \A e \in EntriesOf({"live"}) :
             ~StuckAt(e) => (Passed(e[1], e[2])' <=> Passed(e[1], e[2]))
      <4> SUFFICES ASSUME NEW e \in EntriesOf({"live"}), ~StuckAt(e)
                   PROVE  Passed(e[1], e[2])' <=> Passed(e[1], e[2])
        OBVIOUS
      <4>1. e[1] = dirbuf => e[2] # next
        BY <2>1 DEF StuckAt, EntriesOf
      <4>2. QED
        BY <3>1, <4>1, EntryFacts DEF Passed
    <3>3. QED
      BY <3>1, <3>2, SamePassed
  <2>2. CASE ~Stuck
    <3>1. \A e \in EntriesOf({"live"}) : Passed(e[1], e[2])' <=> Passed(e[1], e[2])
      <4> SUFFICES ASSUME NEW e \in EntriesOf({"live"})
                   PROVE  Passed(e[1], e[2])' <=> Passed(e[1], e[2])
        OBVIOUS
      <4>1. e[1] \in Nat /\ e[2] \in Nat /\ e[2] \in DOMAIN Block(e[1])
        BY EntriesType
      <4>2. next + Entry.len \in Nat /\ next' # Null
        BY EntryFacts
      <4>3. e[1] = dirbuf => (e[2] < next + Entry.len <=> e[2] <= next)
        BY <2>2, <4>1, EntryFacts
      <4>4. QED
        BY <4>1, <4>2, <4>3, EntryFacts DEF Passed
    <3>2. \A e : ~StuckAt(e)
      BY <2>2 DEF StuckAt
    <3>3. QED
      BY <3>1, <3>2, SamePassed
  <2>3. QED
    BY <2>1, <2>2
<1>5. StopsOnlyAtObstacle'
  BY DEF StopsOnlyAtObstacle
<1>6. QED
  BY <1>1, <1>2, <1>3, <1>4, <1>5

LEMMA NextBlockInv == ASSUME IInv, NextBlock PROVE IInv'
<1> USE DEF IInv, NextBlock
<1>0. /\ dirbuf \in 0 .. Len(dir) - 1 /\ next_block = dirbuf + 1
      /\ next + Entry.len = BlockSize /\ ~Stuck
      /\ read_bytes = next_block * BlockSize
  <2>1. next + Entry.len = BlockSize
    BY EntryFacts DEF AtBufferEnd
  <2>2. read_bytes = dirbuf * BlockSize + next + Entry.len
    BY DEF BytesMatchPosition
  <2>3. /\ dirbuf \in Nat /\ dirbuf \in 0 .. Len(dir) - 1 /\ next_block = dirbuf + 1
        /\ ~Stuck
    BY <2>1, EntryFacts, BlocksAreBlocks DEF TypeOK, Stuck
  <2>4. dirbuf * BlockSize \in Nat /\ next_block * BlockSize = dirbuf * BlockSize + BlockSize
    BY <2>3, BlockBytes
  <2>5. read_bytes = dirbuf * BlockSize + BlockSize
    BY <2>1, <2>2, <2>4, EntryFacts
  <2>6. QED
    BY <2>1, <2>3, <2>4, <2>5
<1>1. TypeOK'
  <2>1. next_block' \in 0 .. Len(dir) /\ pc' \in {"again", "end"}
    BY <1>0 DEF TypeOK, LoadBlock, Readable, ReturnNull
  <2>2. dirbuf' = (IF next_block' = 0 THEN Null ELSE next_block' - 1)
    BY <1>0 DEF TypeOK, LoadBlock, ReturnNull
  <2>3. QED
    BY <2>1, <2>2 DEF TypeOK, FileSize
<1>2. StreamInStep'
  BY <1>0 DEF StreamInStep, LoadBlock, Readable, ReturnNull
<1>3. BytesMatchPosition'
  BY <1>0 DEF BytesMatchPosition, LoadBlock, ReturnNull
<1>4. ListedIsPassed'
  <2>1. \A e \in EntriesOf({"live"}) : Passed(e[1], e[2])' <=> Passed(e[1], e[2])
    <3> SUFFICES ASSUME NEW e \in EntriesOf({"live"})
                 PROVE  Passed(e[1], e[2])' <=> Passed(e[1], e[2])
      OBVIOUS
    <3>1. e[1] \in Nat /\ e[2] \in Nat /\ e[2] \in DOMAIN Block(e[1])
      BY EntriesType
    <3>2. e[1] = dirbuf => e[2] <= next
      BY <1>0, <3>1, EntryFacts
    <3>3. Passed(e[1], e[2]) <=> e[1] <= dirbuf
      BY <1>0, <3>1, <3>2, EntryFacts DEF Passed
    <3>4. Passed(e[1], e[2])' <=> e[1] <= dirbuf
      BY <1>0, <3>1 DEF Passed, LoadBlock, ReturnNull
    <3>5. QED
      BY <3>3, <3>4
  <2>2. \A e : ~StuckAt(e)
    BY <1>0 DEF StuckAt
  <2>3. QED
    BY <2>1, <2>2, SamePassed
<1>5. StopsOnlyAtObstacle'
  <2>1. MoreBytes <=> next_block < Len(dir)
    <3>1. next_block \in Nat /\ Len(dir) \in Nat /\ BlockSize \in Nat \ {0}
      BY <1>0, BlocksAreBlocks DEF TypeOK
    <3>2. next_block < Len(dir) => next_block * BlockSize < Len(dir) * BlockSize
      BY <3>1, BlockBytes
    <3>3. Len(dir) <= next_block => Len(dir) * BlockSize <= next_block * BlockSize
      BY <3>1, BlockBytes
    <3>4. QED
      BY <1>0, <3>1, <3>2, <3>3, BlockBytes DEF MoreBytes, FileSize
  <2>2. QED
    BY <1>0, <2>1 DEF StopsOnlyAtObstacle, LoadBlock, Readable, ReturnNull
<1>6. QED
  BY <1>1, <1>2, <1>3, <1>4, <1>5

\* The three outcomes of a visit; where to says that the entry is passed.
LEMMA VisitInv ==
  ASSUME IInv, NEW kinds \in SUBSET Kind, NEW to \in {"again", "caller", "end"},
         Visit(kinds, to),
         to = "end" => kinds = {"unused", "unreadable"},
         listed' = IF "live" \in kinds THEN listed \cup {<<dirbuf, next>>} ELSE listed,
         "live" \in kinds => kinds = {"live"}
  PROVE  IInv'
<1> USE DEF IInv, Visit
<1>0. next # Null
  BY DEF StreamInStep
<1>1. BytesMatchPosition' /\ read_bytes' \in 0 .. FileSize
  <2>1. /\ dirbuf \in Nat /\ dirbuf < Len(dir) /\ Len(dir) \in Nat
        /\ next \in Nat /\ Entry.len \in Nat /\ next + Entry.len <= BlockSize
    BY <1>0, EntryFacts, BlocksAreBlocks
  <2>2. read_bytes' = dirbuf * BlockSize + next + Entry.len
    BY <1>0, <2>1, BlockBytes DEF BytesMatchPosition
  <2>3. /\ dirbuf * BlockSize \in Nat
        /\ dirbuf * BlockSize + BlockSize <= FileSize /\ FileSize \in Nat
    BY <2>1, BlockBytes DEF FileSize
  <2>4. read_bytes' \in 0 .. FileSize
    BY <2>1, <2>2, <2>3
  <2>5. BytesMatchPosition'
    BY <1>0, <2>2 DEF BytesMatchPosition, Entry, Block
  <2>6. QED
    BY <2>4, <2>5
<1>2. TypeOK'
  BY <1>1 DEF TypeOK, Block, FileSize
<1>3. StreamInStep'
  BY <1>0 DEF StreamInStep
<1>4. ListedIsPassed'
  <2>1. <<dirbuf, next>> \in EntriesOf({"live"}) <=> "live" \in kinds
    BY <1>0, EntryFacts DEF EntriesOf, Entry, Kind
  <2>2. ASSUME NEW e \in EntriesOf({"live"})
        PROVE  Passed(e[1], e[2])' <=> Passed(e[1], e[2]) \/ e = <<dirbuf, next>>
    BY <1>0, EntriesType, EntryFacts DEF Passed, EntriesOf
  <2>3. EntriesOf({"live"})' = EntriesOf({"live"})
    BY DEF EntriesOf, Block
  <2>4. \A e : StuckAt(e)' = StuckAt(e)
    BY DEF StuckAt, Stuck, Entry, Block
  <2>5. listed' \subseteq EntriesOf({"live"})
    BY <2>1 DEF ListedIsPassed
  <2>6. ASSUME NEW e \in EntriesOf({"live"}), ~StuckAt(e)
        PROVE  e \in listed' <=> Passed(e[1], e[2])'
    BY <2>1, <2>2, <2>6 DEF ListedIsPassed
  <2>7. QED
    BY <2>3, <2>4, <2>5, <2>6 DEF ListedIsPassed
<1>5. StopsOnlyAtObstacle'
  BY <1>0 DEF StopsOnlyAtObstacle, Entry, Block
<1>6. QED
  BY <1>1, <1>2, <1>3, <1>4, <1>5

LEMMA NextInv == IInv /\ [Next]_vars => IInv'
<1> SUFFICES ASSUME IInv, [Next]_vars PROVE IInv'
  OBVIOUS
<1>1. CASE Call \/ FirstEntry \/ NextEntry \/ NextBlock
  BY <1>1, CallInv, FirstEntryInv, NextEntryInv, NextBlockInv
<1>2. CASE PassDots
  BY <1>2, VisitInv DEF PassDots, Kind
<1>3. CASE ReturnEntry
  BY <1>3, VisitInv DEF ReturnEntry, Kind
<1>4. CASE GiveUp
  BY <1>4, VisitInv DEF GiveUp, Kind
<1>5. CASE UNCHANGED vars
  BY <1>5 DEF vars, IInv, TypeOK, StreamInStep, BytesMatchPosition, ListedIsPassed,
              StopsOnlyAtObstacle, EntriesOf, Passed, Entry, Block, FileSize,
              Stuck, StuckAt
<1>6. QED
  BY <1>1, <1>2, <1>3, <1>4, <1>5 DEF Next, Ended

LEMMA Invariance == Spec => []IInv
BY InitInv, NextInv, PTL DEF Spec

-----------------------------------------------------------------------------
(* The theorems.                                                           *)

\* The members of the stream keep their types, and next points to an entry of
\* the block in dirbuf.
THEOREM TypeCorrect == Spec => []TypeOK
<1>1. IInv => TypeOK
  BY DEF IInv
<1>2. QED
  BY Invariance, <1>1, PTL

\* read_dir has returned exactly the live entries it has passed: none is skipped
\* at a block boundary or returned twice.
THEOREM ListingIsExact == Spec => []ListedIsPassed
<1>1. IInv => ListedIsPassed
  BY DEF IInv
<1>2. QED
  BY Invariance, <1>1, PTL

\* read_bytes and next_block agree with the position in the directory.
THEOREM BytesAreCounted == Spec => []BytesMatchPosition
<1>1. IInv => BytesMatchPosition
  BY DEF IInv
<1>2. QED
  BY Invariance, <1>1, PTL

\* NULL means the end of the directory, an unusable inode or an unreadable block.
THEOREM NullIsObstacleOrEnd == Spec => []StopsOnlyAtObstacle
<1>1. IInv => StopsOnlyAtObstacle
  BY DEF IInv
<1>2. QED
  BY Invariance, <1>1, PTL

\* No entry is returned a second time.
THEOREM EntriesComeOnce == Spec => NoEntryTwice
<1> DEFINE Fresh == pc = "entry" /\ pc' = "caller" /\ Entry.len # 0
                      => <<dirbuf, next>> \notin listed
<1>1. IInv => Fresh
  <2> SUFFICES ASSUME IInv, pc = "entry", Entry.len # 0
               PROVE  <<dirbuf, next>> \notin listed
    OBVIOUS
  <2>1. next # Null /\ next \in Nat /\ dirbuf \in Nat /\ next_block = dirbuf + 1
    BY EntryFacts, BlocksAreBlocks DEF IInv, StreamInStep, TypeOK
  <2>2. ~Passed(dirbuf, next)
    BY <2>1 DEF Passed
  <2>3. ~StuckAt(<<dirbuf, next>>)
    BY DEF StuckAt, Stuck
  <2>4. QED
    BY <2>2, <2>3 DEF IInv, ListedIsPassed
<1>2. IInv /\ [Next]_vars => [Fresh]_vars
  BY <1>1
<1>3. QED
  BY Invariance, <1>2, PTL DEF Spec, NoEntryTwice
================================================================================
