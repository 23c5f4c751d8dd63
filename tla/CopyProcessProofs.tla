--------------------------- MODULE CopyProcessProofs ---------------------------
(***************************************************************************)
(* Theorems about CopyProcess, for source trees of any shape (also for one *)
(* in which a file has several names), files of any length with any        *)
(* pattern of unreadable blocks, and any set of files that cannot be       *)
(* created: what it keeps invariant, and that it implements TreeCopy.      *)
(***************************************************************************)
EXTENDS CopyProcess, TLAPS

\* The sizes of a file are numbers, the part counts as a block.
LEMMA Sizes ==
  ASSUME content \in [File -> Patterns], NEW f \in File
  PROVE  Full(f) \in Nat /\ Total(f) \in Nat /\ Full(f) <= Total(f)
<1>1. content[f] \in Patterns
  OBVIOUS
<1>2. content[f].full \in Seq({"good", "hole", "bad"})
  BY <1>1, TreeAssumption
<1>3. Full(f) \in Nat
  BY <1>2 DEF Full
<1>4. Total(f) = Full(f) \/ Total(f) = Full(f) + 1
  BY <1>3 DEF Total
<1>5. QED
  BY <1>3, <1>4

\* Entering, leaving and going on in a folder keep the stack of calls a stack.
LEMMA FramesAreFrames ==
  ASSUME frames \in Seq(Call)
  PROVE  /\ \A d \in Node : Called(d) \in Call
         /\ \A d \in Node : Append(frames, Called(d)) \in Seq(Call) \ {<<>>}
         /\ frames # <<>> =>
              /\ Left \in Seq(Call) /\ Frame \in Call
              /\ Advanced \in Seq(Call) \ {<<>>}
              /\ \A d \in Node : Append(Advanced, Called(d)) \in Seq(Call) \ {<<>>}
<1>1. \A d \in Node : Called(d) \in Call
  <2>1. \A d : CanMake(d) \in BOOLEAN
    BY Zenon DEF CanMake
  <2>2. QED
    BY <2>1 DEF Called, Call
<1>3. ASSUME frames # <<>>
      PROVE  /\ Left \in Seq(Call) /\ Frame \in Call
             /\ Advanced \in Seq(Call) /\ Advanced # <<>>
  <2>1. Len(frames) \in Nat \ {0} /\ Frame \in Call
    BY <1>3 DEF Frame
  <2>2. Left \in Seq(Call)
    BY <2>1 DEF Left
  <2>3. [Frame EXCEPT !.pos = @ + 1] \in Call
    BY <2>1 DEF Call
  <2>4. Advanced = [frames EXCEPT ![Len(frames)] = [Frame EXCEPT !.pos = @ + 1]]
    BY DEF Advanced, Frame
  <2>5. Advanced \in Seq(Call) /\ Len(Advanced) = Len(frames)
    BY <2>1, <2>3, <2>4
  <2>6. QED
    BY <2>1, <2>2, <2>5
<1>4. ASSUME NEW s \in Seq(Call), NEW e \in Call
      PROVE  Append(s, e) \in Seq(Call) /\ Append(s, e) # <<>>
  <2>1. Append(s, e) \in Seq(Call) /\ Len(Append(s, e)) = Len(s) + 1 /\ Len(s) \in Nat
    OBVIOUS
  <2>2. Len(Append(s, e)) # 0
    BY <2>1
  <2>3. QED
    BY <2>1, <2>2
<1>5. QED
  BY <1>1, <1>3, <1>4

\* The next entry of the folder, in a state in which there is a folder.
LEMMA NextChildIsNode ==
  ASSUME TypeOK, pc = "folder", NextChild # None
  PROVE  /\ NextChild \in Node
         /\ Kind[NextChild] = "file" => NextChild \in File
<1>1. Frame \in Call
  BY FramesAreFrames DEF TypeOK
<1>2. Children[Frame.dir] \in Seq(Node) /\ Frame.pos \in Nat \ {0}
  BY <1>1, TreeAssumption DEF Call
<1>3. NextChild \in Node
  BY <1>2 DEF NextChild
<1>4. QED
  BY <1>3 DEF File

LEMMA InitInvariant == Init => IInv
<1> SUFFICES ASSUME Init PROVE IInv
  OBVIOUS
<1>1. TypeOK
  <2>1. written \in [Node -> Seq(Nat)] /\ frames \in Seq(Call)
    BY DEF Init
  <2>2. locked \subseteq Node
    BY DEF Init, File, Folder
  <2>3. QED
    BY <2>1, <2>2 DEF Init, TypeOK
<1>2. DestinationIsPrefix
  <2>1. \A f \in File : written[f] = <<>> /\ Total(f) \in Nat
    BY Sizes DEF Init, File
  <2>2. QED
    BY <2>1 DEF DestinationIsPrefix
<1>3. QED
  BY <1>1, <1>2 DEF Init, IInv, LoopMatchesFile, OpenOnlyWhileCopying, NoneAfterLate,
     AtMostOneBlockLate, Copying

\* A new destination file: it is empty, and no other one is touched.
LEMMA OpenFileStep ==
  ASSUME IInv, NEW f \in File, OpenFile(f), opened = {},
         frames' \in Seq(Call),
         UNCHANGED <<source, cancelOperation, late>>, ~Copying
  PROVE  IInv'
<1> USE DEF IInv
<1>1. CASE ~CanMake(f)
  <2>1. TypeOK'
    BY <1>1 DEF OpenFile, TypeOK, source, dest
  <2>2. DestinationIsPrefix'
    BY <1>1 DEF OpenFile, DestinationIsPrefix, Total, Full, Good, State, source, dest
  <2>3. QED
    BY <1>1, <2>1, <2>2 DEF OpenFile, LoopMatchesFile, OpenOnlyWhileCopying, NoneAfterLate,
       AtMostOneBlockLate, Copying, Full, source, dest
<1>2. CASE CanMake(f)
  <2>0. f \in Node /\ Total(f) \in Nat /\ Total(f)' = Total(f)
    BY Sizes DEF File, TypeOK, Total, Full, source
  <2>1. TypeOK'
    <3>1. written' \in [Node -> Seq(Nat)]
      <4>1. <<>> \in Seq(Nat)
        OBVIOUS
      <4>2. \A s \in Seq(Nat) : [written EXCEPT ![f] = s] \in [Node -> Seq(Nat)]
        BY DEF TypeOK
      <4>3. QED
        BY <1>2, <4>1, <4>2 DEF OpenFile
    <3>2. opened' \subseteq File /\ created' \subseteq Node
      BY <1>2, <2>0 DEF OpenFile, TypeOK
    <3>3. /\ pc' = "file" /\ file' = f /\ filetosave' = f /\ blkindex' = 0
          /\ ret' = ret /\ full' = full
      BY <1>2 DEF OpenFile
    <3>4. /\ root' \in Roots /\ content' \in [File -> Patterns] /\ locked' \subseteq Node
          /\ late' \subseteq File \X Nat
          /\ ret' \in BOOLEAN /\ cancelOperation' \in BOOLEAN /\ full' \in BOOLEAN
      BY <3>3 DEF TypeOK, source
    <3>5. QED
      BY <3>1, <3>2, <3>3, <3>4 DEF TypeOK
  <2>2. written'[f] = <<>> /\ \A g \in File \ {f} : written'[g] = written[g]
    BY <1>2, <2>0 DEF OpenFile, TypeOK, File
  <2>3. DestinationIsPrefix'
    <3>1. \A g \in File : Total(g)' = Total(g) /\ \A i : Good(g, i)' = Good(g, i)
      BY DEF Total, Full, Good, State, source
    <3>2. Len(written'[f]) <= Total(f) /\ DOMAIN written'[f] = {}
      BY <2>0, <2>2
    <3>3. QED
      BY <2>2, <3>1, <3>2 DEF DestinationIsPrefix
  <2>4. LoopMatchesFile'
    BY <1>2, <2>0, <2>2 DEF OpenFile, LoopMatchesFile, Copying
  <2>5. OpenOnlyWhileCopying'
    BY <1>2 DEF OpenFile, OpenOnlyWhileCopying, Copying
  <2>6. NoneAfterLate' /\ AtMostOneBlockLate'
    BY <1>2 DEF OpenFile, NoneAfterLate, AtMostOneBlockLate, Full, source
  <2>7. QED
    BY <2>1, <2>3, <2>4, <2>5, <2>6
<1>3. QED
  BY <1>1, <1>2

\* A step that writes nothing and is outside copy_file's loop before and after.
LEMMA OutsideStep ==
  ASSUME IInv, ~Copying, ~Copying', TypeOK',
         UNCHANGED <<source, written, late, filetosave>>,
         cancelOperation => cancelOperation',
         opened' \subseteq opened,
         opened' # {} => pc' \in {"back", "exit"} /\ ret' = FALSE /\ cancelOperation'
  PROVE  IInv'
<1>1. LoopMatchesFile'
  BY DEF LoopMatchesFile, Copying
<1>2. DestinationIsPrefix' /\ AtMostOneBlockLate'
  BY DEF IInv, DestinationIsPrefix, AtMostOneBlockLate, Total, Full, Good, State, source
<1>3. OpenOnlyWhileCopying'
  BY DEF IInv, OpenOnlyWhileCopying
<1>4. NoneAfterLate'
  BY DEF IInv, NoneAfterLate, Copying, Full, source
<1>5. QED
  BY <1>1, <1>2, <1>3, <1>4 DEF IInv

\* copy_file is left: its destination file stays as it is.
LEMMA LeaveStep ==
  ASSUME IInv, Copying, NEW result \in BOOLEAN, Finish(result),
         UNCHANGED source,
         opened' \subseteq opened,
         opened' # {} => result = FALSE /\ cancelOperation
  PROVE  IInv'
<1>1. TypeOK'
  BY DEF IInv, TypeOK, Finish, dest, source
<1>2. DestinationIsPrefix' /\ AtMostOneBlockLate'
  BY DEF IInv, DestinationIsPrefix, AtMostOneBlockLate, Total, Full, Good, State, source,
     Finish, dest
<1>3. LoopMatchesFile' /\ OpenOnlyWhileCopying'
  BY DEF IInv, LoopMatchesFile, OpenOnlyWhileCopying, Finish, Copying
<1>4. NoneAfterLate'
  BY DEF IInv, NoneAfterLate, Finish
<1>5. QED
  BY <1>1, <1>2, <1>3, <1>4 DEF IInv

\* A block goes to the end of the destination, and it is the block that belongs
\* there; it is late only if the flag was set after NextRead looked at it.
LEMMA CopyBlockStep ==
  ASSUME IInv, CopyBlock, UNCHANGED source
  PROVE  IInv'
<1> USE DEF IInv
<1>1. /\ file = filetosave /\ file \in File /\ file \in Node
      /\ blkindex < Total(file)
      /\ Total(file) \in Nat /\ blkindex \in Nat /\ written[file] \in Seq(Nat)
      /\ Good(file, blkindex)
  BY Sizes DEF CopyBlock, LoopMatchesFile, Copying, TypeOK, File
<1>2. \A g \in File : Total(g)' = Total(g) /\ Full(g)' = Full(g)
                      /\ \A i : Good(g, i)' = Good(g, i)
  BY DEF Total, Full, Good, State, source
<1>3. /\ pc' = "file" /\ blkindex' = blkindex + 1
      /\ UNCHANGED <<frames, file, filetosave, opened, ret, created, cancelOperation>>
  BY DEF CopyBlock
<1>4. /\ OpenOnlyWhileCopying' /\ NoneAfterLate'
      /\ blkindex' \in Nat /\ blkindex' <= Total(file)
  <2>1. late' # {} => cancelOperation'
    BY <1>3 DEF CopyBlock, Write, NoneAfterLate
  <2>2. QED
    BY <1>1, <1>3, <2>1 DEF OpenOnlyWhileCopying, NoneAfterLate, Copying
<1>5. CASE full' = TRUE /\ UNCHANGED <<written, late>>
  <2>1. TypeOK'
    BY <1>1, <1>3, <1>5 DEF TypeOK, source
  <2>2. DestinationIsPrefix' /\ AtMostOneBlockLate'
    BY <1>2, <1>5 DEF DestinationIsPrefix, AtMostOneBlockLate, Full, source
  <2>3. Len(written[file]) <= blkindex /\ Len(written[file]) \in Nat
    BY <1>1 DEF CopyBlock, LoopMatchesFile, Copying
  <2>4. LoopMatchesFile'
    BY <1>1, <1>2, <1>3, <1>4, <1>5, <2>3 DEF LoopMatchesFile, Copying
  <2>5. QED
    BY <1>4, <2>1, <2>2, <2>4
<1>6. CASE /\ ~full /\ UNCHANGED full
           /\ written' = [written EXCEPT ![filetosave] = Append(@, blkindex)]
           /\ late' = IF cancelOperation THEN late \cup {<<file, blkindex>>} ELSE late
  <2>1. Len(written[file]) = blkindex
    BY <1>6 DEF CopyBlock, LoopMatchesFile, Copying
  <2>2. /\ written'[file] = Append(written[file], blkindex)
        /\ \A g \in Node \ {file} : written'[g] = written[g]
        /\ written' \in [Node -> Seq(Nat)]
    BY <1>1, <1>6 DEF TypeOK
  <2>3. TypeOK'
    BY <1>1, <1>3, <1>6, <2>2 DEF TypeOK, source
  <2>4. DestinationIsPrefix'
    <3>1. \A g \in File \ {file} : Len(written'[g]) <= Total(g)
            /\ \A i \in DOMAIN written'[g] : written'[g][i] = i - 1 /\ Good(g, i - 1)
      BY <2>2 DEF DestinationIsPrefix, File
    <3>2. /\ Len(written'[file]) <= Total(file)
          /\ \A i \in DOMAIN written'[file] : i \in DOMAIN written[file] \/ i = blkindex + 1
          /\ \A i \in DOMAIN written[file] : written'[file][i] = written[file][i]
          /\ written'[file][blkindex + 1] = blkindex
      BY <1>1, <2>1, <2>2
    <3>3. \A i \in DOMAIN written'[file] : written'[file][i] = i - 1 /\ Good(file, i - 1)
      <4> SUFFICES ASSUME NEW i \in DOMAIN written'[file]
                   PROVE  written'[file][i] = i - 1 /\ Good(file, i - 1)
        OBVIOUS
      <4>1. CASE i \in DOMAIN written[file]
        BY <1>1, <3>2, <4>1 DEF DestinationIsPrefix
      <4>2. CASE i = blkindex + 1
        <5>1. i - 1 = blkindex
          BY <1>1, <4>2
        <5>2. QED
          BY <1>1, <3>2, <4>2, <5>1
      <4>3. QED
        BY <3>2, <4>1, <4>2
    <3>4. QED
      BY <1>2, <3>1, <3>2, <3>3 DEF DestinationIsPrefix
  <2>5. LoopMatchesFile'
    <3>1. Len(written'[file]) = blkindex + 1
      BY <1>1, <2>1, <2>2
    <3>2. QED
      BY <1>1, <1>2, <1>3, <1>4, <3>1 DEF LoopMatchesFile, Copying
  <2>6. AtMostOneBlockLate'
    <3>1. late' \subseteq late \cup {<<file, blkindex>>}
      BY <1>6
    <3>2. blkindex < Full(file) => \A l \in late : ~(l[2] < Full(l[1]))
      BY DEF CopyBlock, NoneAfterLate
    <3>3. \A l \in late' : l \in late
                            \/ (l = <<file, blkindex>> /\ l[1] = file /\ l[2] = blkindex)
      BY <3>1
    <3>4. \A l \in late' : Full(l[1])' = Full(l[1])
      BY DEF Full, source
    <3>5. QED
      BY <3>2, <3>3, <3>4 DEF AtMostOneBlockLate
  <2>7. QED
    BY <1>4, <2>3, <2>4, <2>5, <2>6
<1>7. QED
  BY <1>5, <1>6 DEF CopyBlock, Write

LEMMA StepInvariant == IInv /\ [Next]_vars => IInv'
<1> SUFFICES ASSUME IInv, [Next]_vars PROVE IInv'
  OBVIOUS
<1>0. TypeOK
  BY DEF IInv
<1>1. CASE Run /\ UNCHANGED source
  <2>1. ~Copying /\ opened = {} /\ root \in Node
    BY <1>0, <1>1, TreeAssumption DEF Run, IInv, OpenOnlyWhileCopying, Copying, TypeOK
  <2>2. CASE Kind[root] = "folder" /\ OpenFolder(root)
    <3>1. TypeOK'
      BY <1>0, <1>1, <2>1, <2>2, FramesAreFrames
         DEF Run, OpenFolder, MakeFolder, TypeOK, source
    <3>2. QED
      BY <1>1, <2>1, <2>2, <3>1, OutsideStep DEF Run, OpenFolder, Copying
  <2>3. CASE Kind[root] = "file" /\ OpenFile(root) /\ UNCHANGED frames
    BY <1>0, <1>1, <2>1, <2>3, OpenFileStep DEF Run, TypeOK, File
  <2>4. QED
    BY <1>1, <2>2, <2>3 DEF Run
<1>2. CASE FileCancelled /\ UNCHANGED source
  BY <1>2, LeaveStep DEF FileCancelled, SeesCancel, Copying
<1>3. CASE NextRead /\ UNCHANGED source
  <2>1. TypeOK'
    BY <1>0, <1>3 DEF NextRead, TypeOK, source, dest
  <2>2. LoopMatchesFile'
    BY <1>3 DEF IInv, NextRead, LoopMatchesFile, Copying, Total, Full, source, dest
  <2>3. DestinationIsPrefix' /\ AtMostOneBlockLate'
    BY <1>3 DEF IInv, NextRead, DestinationIsPrefix, AtMostOneBlockLate, Total, Full,
       Good, State, source, dest
  <2>4. OpenOnlyWhileCopying'
    BY <1>3 DEF IInv, NextRead, OpenOnlyWhileCopying, Copying
  <2>5. NoneAfterLate'
    BY <1>3 DEF IInv, NextRead, NoneAfterLate, SeesCancel, Full, source
  <2>6. QED
    BY <2>1, <2>2, <2>3, <2>4, <2>5 DEF IInv
<1>4. CASE ReadFails /\ UNCHANGED source
  <2>1. opened' = {}
    BY <1>4 DEF ReadFails, Close, IInv, OpenOnlyWhileCopying, LoopMatchesFile, Copying
  <2>2. QED
    BY <1>4, <2>1, LeaveStep DEF ReadFails, Copying
<1>5. CASE CopyBlock /\ UNCHANGED source
  BY <1>5, CopyBlockStep
<1>6. CASE FileCopied /\ UNCHANGED source
  <2>1. opened' = {}
    BY <1>6 DEF FileCopied, Close, IInv, OpenOnlyWhileCopying, LoopMatchesFile, Copying
  <2>2. QED
    BY <1>6, <2>1, LeaveStep DEF FileCopied, Copying
<1>7. CASE pc = "folder" /\ (SkipChild \/ CopyChildFolder \/ FolderCopied) /\ UNCHANGED source
  <2>1. opened = {} /\ ~Copying
    BY <1>7 DEF IInv, OpenOnlyWhileCopying, Copying
  <2>2. frames # <<>> /\ frames \in Seq(Call)
    BY <1>0, <1>7 DEF TypeOK
  <2>3. CASE SkipChild
    <3>1. TypeOK'
      BY <1>0, <1>7, <2>2, <2>3, FramesAreFrames DEF SkipChild, TypeOK, source, dest
    <3>2. QED
      BY <1>7, <2>1, <2>3, <3>1, OutsideStep DEF SkipChild, Copying, dest
  <2>4. CASE CopyChildFolder
    <3>1. NextChild \in Node
      BY <1>0, <2>4, NextChildIsNode DEF CopyChildFolder
    <3>2. Append(Advanced, Called(NextChild)) \in Seq(Call) \ {<<>>}
      BY <2>2, <3>1, FramesAreFrames
    <3>3. TypeOK'
      BY <1>0, <1>7, <2>4, <3>1, <3>2 DEF CopyChildFolder, MakeFolder, TypeOK, source
    <3>4. QED
      BY <1>7, <2>1, <2>4, <3>3, OutsideStep DEF CopyChildFolder, Copying
  <2>5. CASE FolderCopied
    <3>1. TypeOK'
      BY <1>0, <1>7, <2>2, <2>5, FramesAreFrames DEF FolderCopied, TypeOK, source, dest
    <3>2. QED
      BY <1>7, <2>1, <2>5, <3>1, OutsideStep DEF FolderCopied, Copying, dest
  <2>6. QED
    BY <1>7, <2>3, <2>4, <2>5
<1>8. CASE CopyChildFile /\ UNCHANGED source
  <2>1. NextChild \in File /\ opened = {} /\ ~Copying
    BY <1>0, <1>8, NextChildIsNode DEF CopyChildFile, IInv, OpenOnlyWhileCopying, Copying
  <2>2. frames' \in Seq(Call)
    BY <1>0, <1>8, FramesAreFrames DEF CopyChildFile, TypeOK
  <2>3. QED
    BY <1>8, <2>1, <2>2, OpenFileStep DEF CopyChildFile
<1>9. CASE Back /\ UNCHANGED source
  <2>1. opened # {} => ret = FALSE /\ cancelOperation
    BY <1>9 DEF Back, IInv, OpenOnlyWhileCopying, Copying
  <2>2. TypeOK'
    BY <1>0, <1>9, FramesAreFrames DEF Back, TypeOK, source, dest
  <2>3. opened # {} => pc' \in {"back", "exit"}
    BY <1>9, <2>1 DEF Back, Unwinds
  <2>4. QED
    BY <1>9, <2>1, <2>2, <2>3, OutsideStep DEF Back, Copying, dest
<1>10. CASE Delete /\ UNCHANGED source
  <2>1. opened' = {} /\ opened' \subseteq opened
    BY <1>10 DEF Delete, IInv, OpenOnlyWhileCopying
  <2>2. TypeOK'
    BY <1>0, <1>10, <2>1 DEF Delete, TypeOK, source, dest
  <2>3. QED
    BY <1>10, <2>1, <2>2, OutsideStep DEF Delete, Copying, dest
<1>11. CASE Cancel
  <2>1. TypeOK'
    BY <1>0, <1>11 DEF Cancel, TypeOK, source, dest
  <2>2. LoopMatchesFile' /\ OpenOnlyWhileCopying' /\ NoneAfterLate'
    BY <1>11 DEF IInv, Cancel, LoopMatchesFile, OpenOnlyWhileCopying, NoneAfterLate,
       Copying, Total, Full, source, dest
  <2>3. DestinationIsPrefix' /\ AtMostOneBlockLate'
    BY <1>11 DEF IInv, Cancel, DestinationIsPrefix, AtMostOneBlockLate, Total, Full,
       Good, State, source, dest
  <2>4. QED
    BY <2>1, <2>2, <2>3 DEF IInv
<1>12. CASE UNCHANGED vars
  BY <1>12 DEF vars, source, dest, IInv, TypeOK, LoopMatchesFile, DestinationIsPrefix,
     OpenOnlyWhileCopying, NoneAfterLate, AtMostOneBlockLate, Copying, Total, Full,
     Good, State
<1>13. QED
  BY <1>1, <1>2, <1>3, <1>4, <1>5, <1>6, <1>7, <1>8, <1>9, <1>10, <1>11, <1>12
     DEF Next, Work, Ended, SkipChild, CopyChildFolder, FolderCopied

LEMMA Invariant == Spec => []IInv
<1>1. QED
  BY InitInvariant, StepInvariant, PTL DEF Spec

\* Every variable keeps its type, and a thread that has come to its end has left
\* every folder.
THEOREM TypeCorrect == Spec => []TypeOK
<1>1. IInv => TypeOK
  BY DEF IInv
<1>2. QED
  BY <1>1, Invariant, PTL

\* copy_file writes the readable blocks of the source, each at its place and
\* none after a gap, whatever fails and whenever the copy is cancelled.
THEOREM CopiesArePrefixes == Spec => []DestinationIsPrefix
<1>1. IInv => DestinationIsPrefix
  BY DEF IInv
<1>2. QED
  BY <1>1, Invariant, PTL

\* After slot_cancelprocess the loops of copy_file, in whatever folder they run,
\* write one more full block at most.
THEOREM CancelIsSeen == Spec => []AtMostOneBlockLate
<1>1. IInv => AtMostOneBlockLate
  BY DEF IInv
<1>2. QED
  BY <1>1, Invariant, PTL

\* No QFile is open but the last one, and none once the process is deleted.
THEOREM FilesAreClosed == Spec => []OnlyLastFileOpen
<1>1. IInv => OnlyLastFileOpen
  BY DEF IInv, OnlyLastFileOpen, OpenOnlyWhileCopying, Copying
<1>2. QED
  BY <1>1, Invariant, PTL

-----------------------------------------------------------------------------
(* CopyProcess implements TreeCopy.                                        *)

\* The stack of copy_folder's calls after each operation on it.
LEMMA StackOperations ==
  ASSUME TypeOK
  PROVE  /\ Len(frames) \in Nat /\ DOMAIN frames = 1 .. Len(frames)
         /\ \A i \in DOMAIN frames : frames[i].dir \in Node /\ frames[i].pos \in Nat
         /\ \A c : /\ DOMAIN Append(frames, c) = DOMAIN frames \cup {Len(frames) + 1}
                   /\ \A i \in DOMAIN frames : Append(frames, c)[i] = frames[i]
                   /\ Append(frames, c)[Len(frames) + 1] = c
         /\ frames # <<>> =>
              /\ Len(frames) \in DOMAIN frames
              /\ DOMAIN Left = DOMAIN frames \ {Len(frames)}
              /\ \A i \in DOMAIN Left : Left[i] = frames[i]
              /\ DOMAIN Advanced = DOMAIN frames /\ Len(Advanced) = Len(frames)
              /\ Advanced \in Seq(Call)
              /\ \A i \in DOMAIN frames : /\ Advanced[i].dir = frames[i].dir
                                         /\ Advanced[i].made = frames[i].made
              /\ \A i \in DOMAIN frames \ {Len(frames)} : Advanced[i] = frames[i]
              /\ Advanced[Len(frames)].pos = Frame.pos + 1
<1>1. frames \in Seq(Call)
  BY DEF TypeOK
<1>2. \A e \in Call : e.dir \in Node /\ e.pos \in Nat
  BY DEF Call
<1>3. frames # <<>> => Advanced \in Seq(Call)
  BY FramesAreFrames DEF TypeOK
<1>4. Len(frames) \in Nat /\ DOMAIN frames = 1 .. Len(frames)
      /\ \A i \in DOMAIN frames : frames[i] \in Call
  BY <1>1
<1>5. ASSUME NEW c
      PROVE  /\ DOMAIN Append(frames, c) = DOMAIN frames \cup {Len(frames) + 1}
             /\ \A i \in DOMAIN frames : Append(frames, c)[i] = frames[i]
             /\ Append(frames, c)[Len(frames) + 1] = c
  BY <1>1, <1>4
<1>6. ASSUME frames # <<>>
      PROVE  /\ Len(frames) \in DOMAIN frames
             /\ DOMAIN Left = DOMAIN frames \ {Len(frames)}
             /\ \A i \in DOMAIN Left : Left[i] = frames[i]
  BY <1>1, <1>4, <1>6 DEF Left
<1>7. ASSUME frames # <<>>
      PROVE  /\ DOMAIN Advanced = DOMAIN frames /\ Len(Advanced) = Len(frames)
             /\ \A i \in DOMAIN frames \ {Len(frames)} : Advanced[i] = frames[i]
             /\ \A i \in DOMAIN frames : /\ Advanced[i].dir = frames[i].dir
                                        /\ Advanced[i].made = frames[i].made
             /\ Advanced[Len(frames)].pos = Frame.pos + 1
  <2>1. Advanced = [frames EXCEPT ![Len(frames)] = [Frame EXCEPT !.pos = @ + 1]]
    BY DEF Advanced, Frame
  <2>2. Len(frames) \in DOMAIN frames /\ Frame = frames[Len(frames)] /\ Frame \in Call
    BY <1>4, <1>6, <1>7 DEF Frame
  <2>3. DOMAIN Advanced = DOMAIN frames
    BY <2>1
  <2>4. Advanced \in Seq(Call) /\ DOMAIN Advanced = 1 .. Len(Advanced) /\ Len(Advanced) \in Nat
    BY <1>3, <1>7
  <2>5. Len(Advanced) = Len(frames)
    BY <1>4, <2>3, <2>4
  <2>6. /\ Advanced[Len(frames)] = [Frame EXCEPT !.pos = @ + 1]
        /\ \A i \in DOMAIN frames \ {Len(frames)} : Advanced[i] = frames[i]
    BY <2>1, <2>2
  <2>7. /\ Advanced[Len(frames)].dir = Frame.dir /\ Advanced[Len(frames)].made = Frame.made
        /\ Advanced[Len(frames)].pos = Frame.pos + 1
    BY <2>2, <2>6 DEF Call
  <2>8. \A i \in DOMAIN frames : /\ Advanced[i].dir = frames[i].dir
                                /\ Advanced[i].made = frames[i].made
    BY <2>2, <2>6, <2>7
  <2>9. QED
    BY <2>3, <2>5, <2>6, <2>7, <2>8
<1>8. QED
  BY <1>2, <1>3, <1>4, <1>5, <1>6, <1>7

\* The entry that a loop of copy_folder comes to is one that is listed.
LEMMA NextChildIsListed ==
  ASSUME TypeOK, WorkIsMade, pc = "folder", NextChild # None
  PROVE  /\ frames # <<>> /\ Frame.pos \in DOMAIN Children[Frame.dir]
         /\ NextChild = Children[Frame.dir][Frame.pos] /\ Kind[NextChild] # "lost"
         /\ NextChild \in Node /\ NextChild \in Listed(Frame.dir)
<1>1. /\ frames # <<>> /\ Len(frames) \in DOMAIN frames /\ Frame = frames[Len(frames)]
      /\ Frame.dir \in Node /\ Frame.pos \in Nat \ {0}
  BY StackOperations, FramesAreFrames DEF TypeOK, Frame, Call
<1>2. Children[Frame.dir] \in Seq(Node)
  BY <1>1, TreeAssumption
<1>3. /\ Frame.pos \in DOMAIN Children[Frame.dir]
      /\ NextChild = Children[Frame.dir][Frame.pos] /\ Kind[NextChild] # "lost"
  BY <1>1, <1>2 DEF NextChild
<1>4. \A k \in 1 .. Frame.pos : Kind[Children[Frame.dir][k]] # "lost"
  <2> SUFFICES ASSUME NEW k \in 1 .. Frame.pos PROVE Kind[Children[Frame.dir][k]] # "lost"
    OBVIOUS
  <2>1. k \in DOMAIN Children[Frame.dir] /\ (k = Frame.pos \/ k < Frame.pos)
    BY <1>1, <1>2, <1>3
  <2>2. QED
    BY <1>1, <1>3, <2>1 DEF WorkIsMade
<1>5. QED
  BY <1>1, <1>2, <1>3, <1>4 DEF Listed

\* When read_dir returns NULL, every listed entry has been passed.
LEMMA AllListedPassed ==
  ASSUME TypeOK, pc = "folder", NextChild = None, NEW n \in Listed(Frame.dir)
  PROVE  \E j \in DOMAIN Children[Frame.dir] :
           j < Frame.pos /\ n = Children[Frame.dir][j]
<1>1. Frame.dir \in Node /\ Frame.pos \in Nat \ {0} /\ frames # <<>>
  BY FramesAreFrames DEF TypeOK, Call
<1>2. Children[Frame.dir] \in Seq(Node) /\ None \notin Node
  BY <1>1, TreeAssumption
<1>3. PICK j \in DOMAIN Children[Frame.dir] :
         /\ n = Children[Frame.dir][j]
         /\ \A k \in 1 .. j : Kind[Children[Frame.dir][k]] # "lost"
  BY DEF Listed
<1>4. CASE j >= Frame.pos
  <2>1. /\ Frame.pos \in DOMAIN Children[Frame.dir] /\ Frame.pos \in 1 .. j
        /\ Frame.pos <= Len(Children[Frame.dir])
    BY <1>1, <1>2, <1>3, <1>4
  <2>2. Kind[Children[Frame.dir][Frame.pos]] # "lost" /\ Children[Frame.dir][Frame.pos] \in Node
    BY <1>2, <1>3, <2>1
  <2>3. NextChild = Children[Frame.dir][Frame.pos]
    BY <1>1, <1>2, <2>1, <2>2 DEF NextChild
  <2>4. QED
    BY <1>2, <2>2, <2>3
<1>5. QED
  BY <1>1, <1>2, <1>3, <1>4

LEMMA InitTree == Init => TreeInv
  BY DEF Init, TreeInv, WorkIsMade, NothingLeftBehind, RootSettled, EarlierSettled,
     FoldersSettled, FilesSettled, Copying

\* What a file holds does not change its source.
LEMMA SourceStays ==
  ASSUME UNCHANGED source
  PROVE  /\ \A f : Total(f)' = Total(f) /\ \A i : Good(f, i)' = Good(f, i)
         /\ \A f \in File : written'[f] = written[f] => CopiedAsFar(f)' = CopiedAsFar(f)
<1>1. \A f : Total(f)' = Total(f) /\ \A i : Good(f, i)' = Good(f, i)
  BY DEF Total, Full, Good, State, source
<1>2. QED
  BY <1>1 DEF CopiedAsFar

\* A step within copy_file, or one that only leaves it.
LEMMA FileStep ==
  ASSUME TreeInv, UNCHANGED <<source, frames, created>>,
         pc = "run" => pc' = "run",
         cancelOperation => cancelOperation', full => full',
         Copying' => Copying /\ file' = file,
         \A g \in File : written'[g] = written[g] \/ (Copying' /\ g = file),
         Copying /\ ~Copying' /\ ~cancelOperation' /\ ~full' => CopiedAsFar(file)
  PROVE  TreeInv'
<1>1. WorkIsMade'
  BY DEF TreeInv, WorkIsMade
<1>2. ASSUME ~cancelOperation', ~full'
      PROVE  RootSettled' /\ EarlierSettled' /\ FoldersSettled'
  BY <1>2 DEF TreeInv, NothingLeftBehind, RootSettled, EarlierSettled, FoldersSettled,
     Settled, source
<1>3. ASSUME ~cancelOperation', ~full' PROVE FilesSettled'
  <2> SUFFICES ASSUME NEW f \in created \cap File, ~(Copying' /\ f = file)
               PROVE  CopiedAsFar(f)'
    BY DEF FilesSettled
  <2>1. CopiedAsFar(f)
    BY <1>3 DEF TreeInv, NothingLeftBehind, FilesSettled
  <2>2. QED
    BY <2>1, SourceStays
<1>4. QED
  BY <1>1, <1>2, <1>3 DEF TreeInv, NothingLeftBehind

\* A step of copy_folder's loops, or of run, that goes on: the calls in progress
\* stay, one of them may have passed an entry, and what is made is being worked on.
LEMMA LoopStep ==
  ASSUME TypeOK, TreeInv, ~Copying, UNCHANGED <<source, cancelOperation, full>>,
         created \subseteq created',
         pc' # "run" => pc # "run" \/ Settled(root)',
         \A n \in created' : Kind[n] \in {"file", "folder"},
         Copying' => file' \in created',
         \A i \in DOMAIN frames :
           /\ i \in DOMAIN frames' /\ frames'[i].dir = frames[i].dir
           /\ frames'[i].made = frames[i].made
           /\ \/ frames'[i].pos = frames[i].pos
              \/ /\ frames'[i].pos = frames[i].pos + 1
                 /\ Kind[Children[frames[i].dir][frames[i].pos]] # "lost"
                 /\ frames[i].made
                    /\ Kind[Children[frames[i].dir][frames[i].pos]] \in {"file", "folder"}
                      => Children[frames[i].dir][frames[i].pos] \in created' \cup locked',
         \A i \in DOMAIN frames' \ DOMAIN frames :
           /\ frames'[i].made => frames'[i].dir \in created'
           /\ Kind[frames'[i].dir] = "folder"
           /\ frames'[i].dir \in Node /\ frames'[i].pos = 1,
         \A d \in created' \ created : Kind[d] = "folder" =>
           \E i \in DOMAIN frames' : frames'[i].dir = d /\ frames'[i].made,
         \A g \in created' \cap File :
           (Copying' /\ g = file') \/ (g \in created /\ written'[g] = written[g])
  PROVE  TreeInv'
<1>1. \A i \in DOMAIN frames : /\ frames[i].dir \in Node /\ frames[i].pos \in Nat
                              /\ Children[frames[i].dir] \in Seq(Node)
  BY StackOperations, TreeAssumption
<1>2. \A i \in DOMAIN frames' \ DOMAIN frames : Children[frames'[i].dir] \in Seq(Node)
  BY TreeAssumption
<1>3. WorkIsMade'
  <2> SUFFICES ASSUME NEW i \in DOMAIN frames'
               PROVE  /\ frames'[i].made => frames'[i].dir \in created'
                      /\ Kind[frames'[i].dir] = "folder"
                      /\ \A j \in DOMAIN Children[frames'[i].dir] :
                           j < frames'[i].pos => Kind[Children[frames'[i].dir][j]] # "lost"
    BY DEF WorkIsMade
  <2>1. CASE i \in DOMAIN frames
    <3>1. /\ frames'[i].dir = frames[i].dir /\ frames'[i].made = frames[i].made
          /\ frames[i].made => frames[i].dir \in created
          /\ Kind[frames[i].dir] = "folder"
      BY <2>1 DEF TreeInv, WorkIsMade
    <3>2. ASSUME NEW j \in DOMAIN Children[frames[i].dir], j < frames'[i].pos
          PROVE  Kind[Children[frames[i].dir][j]] # "lost"
      <4>1. j < frames[i].pos => Kind[Children[frames[i].dir][j]] # "lost"
        BY <2>1, <3>2 DEF TreeInv, WorkIsMade
      <4>2. j < frames[i].pos \/ (j = frames[i].pos /\ frames'[i].pos = frames[i].pos + 1)
        BY <1>1, <2>1, <3>2
      <4>3. QED
        BY <1>1, <2>1, <4>1, <4>2
    <3>3. QED
      BY <3>1, <3>2
  <2>2. CASE i \notin DOMAIN frames
    BY <1>2, <2>2
  <2>3. QED
    BY <2>1, <2>2
<1>4. ASSUME ~cancelOperation', ~full' PROVE EarlierSettled'
  <2> SUFFICES ASSUME NEW i \in DOMAIN frames',
                      NEW j \in DOMAIN Children[frames'[i].dir],
                      frames'[i].made, j < frames'[i].pos,
                      Kind[Children[frames'[i].dir][j]] \in {"file", "folder"}
               PROVE  Children[frames'[i].dir][j] \in created' \cup locked'
    BY DEF EarlierSettled, Settled
  <2>1. CASE i \in DOMAIN frames
    <3>1. frames'[i].dir = frames[i].dir /\ frames[i].made
      BY <2>1
    <3>2. ASSUME j < frames[i].pos PROVE Settled(Children[frames[i].dir][j])
      BY <1>4, <2>1, <3>1, <3>2 DEF TreeInv, NothingLeftBehind, EarlierSettled
    <3>3. j < frames[i].pos \/ (j = frames[i].pos /\ frames'[i].pos = frames[i].pos + 1)
      BY <1>1, <2>1, <3>1
    <3>4. QED
      BY <1>1, <2>1, <3>1, <3>2, <3>3 DEF Settled, source
  <2>2. CASE i \notin DOMAIN frames
    BY <1>2, <2>2
  <2>3. QED
    BY <2>1, <2>2
<1>5. ASSUME ~cancelOperation', ~full' PROVE FoldersSettled'
  <2> SUFFICES ASSUME NEW d \in created', Kind[d] = "folder"
               PROVE  \/ \E i \in DOMAIN frames' : frames'[i].dir = d /\ frames'[i].made
                      \/ \A n \in EntriesOf(d) : Settled(n)'
    BY DEF FoldersSettled, EntriesOf, Listed
  <2>1. CASE d \in created
    <3>1. \/ \E i \in DOMAIN frames : frames[i].dir = d /\ frames[i].made
          \/ \A n \in EntriesOf(d) : Settled(n)
      BY <1>5, <2>1 DEF TreeInv, NothingLeftBehind, FoldersSettled
    <3>2. \A n : Settled(n) => Settled(n)'
      BY DEF Settled, source
    <3>3. QED
      BY <3>1, <3>2
  <2>2. CASE d \notin created
    BY <2>2
  <2>3. QED
    BY <2>1, <2>2
<1>6. ASSUME ~cancelOperation', ~full' PROVE FilesSettled'
  <2>1. \A g \in created \cap File : CopiedAsFar(g)
    BY <1>6 DEF TreeInv, NothingLeftBehind, FilesSettled
  <2>2. QED
    BY <2>1, SourceStays DEF FilesSettled
<1>7. ASSUME ~cancelOperation', ~full' PROVE RootSettled'
  BY <1>7 DEF TreeInv, NothingLeftBehind, RootSettled, Settled, source
<1>8. QED
  BY <1>3, <1>4, <1>5, <1>6, <1>7 DEF TreeInv, NothingLeftBehind

\* The return of a copy_folder: all entries of its folder are settled, or the
\* copy is cancelled.
LEMMA PopStep ==
  ASSUME TypeOK, TreeInv, frames # <<>>, frames' = Left, ~Copying, ~Copying',
         UNCHANGED <<source, written, created, full, cancelOperation>>, pc # "run",
         cancelOperation \/ (pc = "folder" /\ NextChild = None)
  PROVE  TreeInv'
<1>1. /\ DOMAIN frames' = DOMAIN frames \ {Len(frames)}
      /\ \A i \in DOMAIN frames' : frames'[i] = frames[i]
      /\ Len(frames) \in DOMAIN frames
  BY StackOperations
<1>2. WorkIsMade'
  BY <1>1 DEF TreeInv, WorkIsMade
<1>3. ASSUME ~cancelOperation', ~full'
      PROVE  RootSettled' /\ EarlierSettled' /\ FilesSettled'
  <2>1. RootSettled'
    BY <1>3 DEF TreeInv, NothingLeftBehind, RootSettled, Settled, source
  <2>2. EarlierSettled'
    BY <1>1, <1>3 DEF TreeInv, NothingLeftBehind, EarlierSettled, Settled, source
  <2>3. FilesSettled'
    BY <1>3, SourceStays DEF TreeInv, NothingLeftBehind, FilesSettled
  <2>4. QED
    BY <2>1, <2>2, <2>3
<1>4. ASSUME ~cancelOperation', ~full' PROVE FoldersSettled'
  <2>1. ASSUME Frame.made, NEW n \in EntriesOf(Frame.dir) PROVE Settled(n)
    <3>1. n \in Listed(Frame.dir) /\ Kind[n] \in {"file", "folder"}
      BY DEF EntriesOf
    <3>2. PICK j \in DOMAIN Children[Frame.dir] :
             j < Frame.pos /\ n = Children[Frame.dir][j]
      BY <1>4, <3>1, AllListedPassed
    <3>3. QED
      BY <1>1, <1>4, <2>1, <3>1, <3>2 DEF TreeInv, NothingLeftBehind, EarlierSettled, Frame
  <2>2. \A d \in created : Kind[d] = "folder" =>
          \/ \E i \in DOMAIN frames' : frames'[i].dir = d /\ frames'[i].made
          \/ \A n \in EntriesOf(d) : Settled(n)
    BY <1>1, <1>4, <2>1 DEF TreeInv, NothingLeftBehind, FoldersSettled, Frame
  <2>3. \A n : Settled(n)' = Settled(n)
    BY DEF Settled, source
  <2>4. QED
    BY <2>2, <2>3 DEF FoldersSettled, EntriesOf, Listed
<1>5. QED
  BY <1>2, <1>3, <1>4 DEF TreeInv, NothingLeftBehind

\* What a new destination file adds.
LEMMA OpenFileAdds ==
  ASSUME TypeOK, TreeInv, NEW f \in File, OpenFile(f), UNCHANGED source, ~Copying
  PROVE  /\ created \subseteq created' /\ created' \subseteq created \cup {f}
         /\ (frames # <<>> => Frame.made) => f \in created' \cup locked'
         /\ Kind[f] = "file" /\ UNCHANGED full
         /\ pc' # "run"
         /\ Copying' => file' \in created' /\ file' = f
         /\ \A g \in created' \cap File :
              (Copying' /\ g = file') \/ (g \in created /\ written'[g] = written[g])
<1>1. Kind[f] = "file" /\ f \in Node
  BY DEF File
<1>2. CASE ~CanMake(f)
  BY <1>1, <1>2 DEF OpenFile, CanMake, dest, source, Copying
<1>3. CASE CanMake(f)
  <2>1. \A g \in File \ {f} : written'[g] = written[g]
    BY <1>3 DEF OpenFile, TypeOK, File
  <2>2. Copying' /\ file' = f /\ created' = created \cup {f} /\ full' = full
    BY <1>3 DEF OpenFile, Copying
  <2>3. pc' # "run"
    BY <1>3 DEF OpenFile
  <2>4. QED
    BY <1>1, <2>1, <2>2, <2>3
<1>4. QED
  BY <1>2, <1>3

LEMMA StepTree == IInv /\ TreeInv /\ [Next]_vars => TreeInv'
<1> SUFFICES ASSUME IInv, TreeInv, [Next]_vars PROVE TreeInv'
  OBVIOUS
<1>0. TypeOK /\ \A n \in created : Kind[n] \in {"file", "folder"}
  BY DEF IInv, TreeInv, WorkIsMade
<1>1. CASE Run /\ UNCHANGED source
  <2>1. ~Copying /\ root \in Node
    BY <1>0, <1>1, TreeAssumption DEF Run, Copying, TypeOK
  <2>2. CASE Kind[root] = "folder" /\ OpenFolder(root)
    <3>1. /\ frames' = Append(frames, Called(root))
          /\ created' = IF CanMake(root) THEN created \cup {root} ELSE created
          /\ ~Copying' /\ UNCHANGED <<written, full, cancelOperation>>
      BY <1>1, <2>2 DEF Run, OpenFolder, MakeFolder, Copying
    <3>2. \A i \in DOMAIN frames : i \in DOMAIN frames' /\ frames'[i] = frames[i]
      BY <1>0, <3>1, StackOperations
    <3>3. /\ DOMAIN frames' \ DOMAIN frames \subseteq {Len(frames) + 1}
          /\ Len(frames) + 1 \in DOMAIN frames'
          /\ frames'[Len(frames) + 1] = Called(root)
      BY <1>0, <3>1, StackOperations
    <3>4. Settled(root)'
      BY <1>0, <1>1, <3>1 DEF Run, TypeOK, CanMake, Settled, source
    <3>5. /\ frames'[Len(frames) + 1].dir = root /\ frames'[Len(frames) + 1].pos = 1
          /\ frames'[Len(frames) + 1].made = CanMake(root)
      BY <3>3 DEF Called
    <3>6. \A g \in created' \cap File : g \in created
      BY <2>2, <3>1 DEF File
    <3>7. QED
      BY <1>0, <1>1, <2>1, <2>2, <3>1, <3>2, <3>3, <3>4, <3>5, <3>6, LoopStep
  <2>3. CASE Kind[root] = "file" /\ OpenFile(root) /\ UNCHANGED frames
    <3>1. root \in File
      BY <2>1, <2>3 DEF File
    <3>2. /\ created \subseteq created' /\ created' \subseteq created \cup {root}
          /\ (frames # <<>> => Frame.made) => root \in created' \cup locked'
          /\ Kind[root] = "file" /\ UNCHANGED full
          /\ Copying' => file' \in created'
          /\ \A g \in created' \cap File :
               (Copying' /\ g = file') \/ (g \in created /\ written'[g] = written[g])
      BY <1>0, <1>1, <2>1, <2>3, <3>1, OpenFileAdds
    <3>3. Settled(root)'
      BY <1>0, <1>1, <3>2 DEF Run, TypeOK, Settled, source
    <3>4. QED
      BY <1>0, <1>1, <2>1, <2>3, <3>2, <3>3, LoopStep DEF Run
  <2>4. QED
    BY <1>1, <2>2, <2>3 DEF Run
<1>2. CASE (FileCancelled \/ NextRead) /\ UNCHANGED source
  BY <1>2, FileStep DEF FileCancelled, SeesCancel, NextRead, Finish, dest, Copying
<1>3. CASE (ReadFails \/ FileCopied) /\ UNCHANGED source
  <2>1. /\ Copying /\ ~Copying' /\ pc # "run"
        /\ UNCHANGED <<source, frames, created, written, full, cancelOperation>>
    BY <1>3 DEF ReadFails, FileCopied, Finish, Copying, dest
  <2>2. ~full => CopiedAsFar(file)
    BY <1>3 DEF ReadFails, FileCopied, IInv, LoopMatchesFile, CopiedAsFar, Copying
  <2>3. QED
    BY <2>1, <2>2, FileStep
<1>4. CASE CopyBlock /\ UNCHANGED source
  <2>1. /\ Copying /\ Copying' /\ file' = file /\ pc # "run" /\ file = filetosave
        /\ UNCHANGED <<source, frames, created, cancelOperation>>
    BY <1>4 DEF CopyBlock, Copying, IInv, LoopMatchesFile
  <2>2. (full => full') /\ \A g \in File : written'[g] = written[g] \/ g = file
    BY <1>0, <1>4, <2>1 DEF CopyBlock, Write, TypeOK, File
  <2>3. QED
    BY <2>1, <2>2, FileStep
<1>5. CASE SkipChild /\ UNCHANGED source
  <2>1. /\ ~Copying /\ ~Copying' /\ pc = "folder" /\ pc' = "folder" /\ NextChild # None
        /\ frames' = Advanced /\ Kind[NextChild] = "other"
        /\ UNCHANGED <<source, created, written, full, cancelOperation>>
    BY <1>5 DEF SkipChild, Copying, dest
  <2>2. /\ frames # <<>> /\ NextChild = Children[Frame.dir][Frame.pos]
    BY <1>0, <2>1, NextChildIsListed DEF TreeInv
  <2>3. /\ DOMAIN frames' = DOMAIN frames
        /\ \A i \in DOMAIN frames : /\ frames'[i].dir = frames[i].dir
                                   /\ frames'[i].made = frames[i].made
        /\ \A i \in DOMAIN frames \ {Len(frames)} : frames'[i] = frames[i]
        /\ frames'[Len(frames)].pos = Frame.pos + 1
    BY <1>0, <2>1, <2>2, StackOperations
  <2>4. \A i \in DOMAIN frames :
           \/ frames'[i].pos = frames[i].pos
           \/ /\ frames'[i].pos = frames[i].pos + 1
              /\ Kind[Children[frames[i].dir][frames[i].pos]] = "other"
    BY <2>1, <2>2, <2>3 DEF Frame
  <2>5. QED
    BY <1>0, <2>1, <2>3, <2>4, LoopStep
<1>6. CASE CopyChildFile /\ UNCHANGED source
  <2>1. /\ ~Copying /\ pc = "folder" /\ NextChild # None /\ frames' = Advanced
        /\ OpenFile(NextChild) /\ Kind[NextChild] = "file"
        /\ UNCHANGED <<source, cancelOperation>>
    BY <1>6 DEF CopyChildFile, Copying
  <2>2. /\ frames # <<>> /\ NextChild = Children[Frame.dir][Frame.pos]
        /\ NextChild \in File
    BY <1>0, <2>1, NextChildIsListed DEF TreeInv, File
  <2>3. /\ created \subseteq created' /\ created' \subseteq created \cup {NextChild}
        /\ Frame.made => NextChild \in created' \cup locked'
        /\ UNCHANGED full
        /\ Copying' => file' \in created'
        /\ \A g \in created' \cap File :
             (Copying' /\ g = file') \/ (g \in created /\ written'[g] = written[g])
    <3> DEFINE f == NextChild
    <3>1. OpenFile(f) /\ f \in File
      BY <2>1, <2>2
    <3> HIDE DEF f
    <3>2. /\ created \subseteq created' /\ created' \subseteq created \cup {f}
          /\ (frames # <<>> => Frame.made) => f \in created' \cup locked'
          /\ UNCHANGED full
          /\ Copying' => file' \in created'
          /\ \A g \in created' \cap File :
               (Copying' /\ g = file') \/ (g \in created /\ written'[g] = written[g])
      BY <1>0, <2>1, <3>1, OpenFileAdds
    <3>3. QED
      BY <2>2, <3>2 DEF f
  <2>4. /\ DOMAIN frames' = DOMAIN frames
        /\ \A i \in DOMAIN frames : /\ frames'[i].dir = frames[i].dir
                                   /\ frames'[i].made = frames[i].made
        /\ \A i \in DOMAIN frames \ {Len(frames)} : frames'[i] = frames[i]
        /\ frames'[Len(frames)].pos = Frame.pos + 1
    BY <1>0, <2>1, <2>2, StackOperations
  <2>5. \A i \in DOMAIN frames :
           \/ frames'[i].pos = frames[i].pos
           \/ /\ frames'[i].pos = frames[i].pos + 1
              /\ Kind[Children[frames[i].dir][frames[i].pos]] = "file"
              /\ frames[i].made => Children[frames[i].dir][frames[i].pos] \in created' \cup locked'
    BY <2>1, <2>2, <2>3, <2>4 DEF Frame
  <2>6. \A n \in created' : n \in created \/ (n = NextChild /\ Kind[n] = "file")
    BY <2>1, <2>3
  <2>7. locked' = locked /\ pc # "run"
    BY <2>1 DEF source
  <2>8. QED
    BY <1>0, <2>1, <2>3, <2>4, <2>5, <2>6, <2>7, LoopStep
<1>7. CASE CopyChildFolder /\ UNCHANGED source
  <2> DEFINE n == NextChild
  <2>1. /\ ~Copying /\ ~Copying' /\ pc = "folder" /\ pc' = "folder" /\ n # None
        /\ frames' = Append(Advanced, Called(n))
        /\ created' = (IF CanMake(n) THEN created \cup {n} ELSE created)
        /\ Kind[n] = "folder"
        /\ UNCHANGED <<source, written, full, cancelOperation>>
    BY <1>7 DEF CopyChildFolder, MakeFolder, Copying
  <2>2. /\ frames # <<>> /\ n = Children[Frame.dir][Frame.pos] /\ n \in Node
    BY <1>0, <2>1, NextChildIsListed DEF TreeInv
  <2> HIDE DEF n
  <2>3. /\ DOMAIN Advanced = DOMAIN frames /\ Len(Advanced) = Len(frames)
        /\ DOMAIN frames = 1 .. Len(frames) /\ Len(frames) \in DOMAIN frames
        /\ Advanced \in Seq(Call)
        /\ \A i \in DOMAIN frames : /\ Advanced[i].dir = frames[i].dir
                                   /\ Advanced[i].made = frames[i].made
        /\ \A i \in DOMAIN frames \ {Len(frames)} : Advanced[i] = frames[i]
        /\ Advanced[Len(frames)].pos = Frame.pos + 1
    BY <1>0, <2>2, StackOperations
  <2>4. /\ DOMAIN frames' = DOMAIN frames \cup {Len(frames) + 1}
        /\ \A i \in DOMAIN frames : frames'[i] = Advanced[i]
        /\ frames'[Len(frames) + 1] = Called(n)
    <3> DEFINE c == Called(n)
    <3> HIDE DEF c
    <3>1. frames' = Append(Advanced, c)
      BY <2>1 DEF c
    <3>2. /\ DOMAIN frames' = DOMAIN frames \cup {Len(frames) + 1}
          /\ \A i \in DOMAIN frames : frames'[i] = Advanced[i]
          /\ frames'[Len(frames) + 1] = c
      BY <2>3, <3>1
    <3>3. QED
      BY <3>2 DEF c
  <2>5. /\ frames'[Len(frames) + 1].dir = n /\ frames'[Len(frames) + 1].pos = 1
        /\ frames'[Len(frames) + 1].made = CanMake(n)
    BY <2>4 DEF Called
  <2>6. \A i \in DOMAIN frames :
           /\ i \in DOMAIN frames' /\ frames'[i].dir = frames[i].dir
           /\ frames'[i].made = frames[i].made
           /\ \/ frames'[i].pos = frames[i].pos
              \/ /\ frames'[i].pos = frames[i].pos + 1
                 /\ Kind[Children[frames[i].dir][frames[i].pos]] = "folder"
                 /\ frames[i].made =>
                      Children[frames[i].dir][frames[i].pos] \in created' \cup locked'
    <3>1. Frame.made => n \in created' \cup locked'
      BY <2>1 DEF CanMake, source
    <3>2. QED
      BY <2>1, <2>2, <2>3, <2>4, <3>1 DEF Frame
  <2>7. \A i \in DOMAIN frames' \ DOMAIN frames :
           /\ frames'[i].made => frames'[i].dir \in created'
           /\ Kind[frames'[i].dir] = "folder"
           /\ frames'[i].dir \in Node /\ frames'[i].pos = 1
    BY <2>1, <2>2, <2>4, <2>5
  <2>8. \A d \in created' \ created :
           \E i \in DOMAIN frames' : frames'[i].dir = d /\ frames'[i].made
    BY <2>1, <2>4, <2>5
  <2>9. \A g \in created' \cap File : g \in created
    BY <2>1 DEF File
  <2>10. locked' = locked /\ pc # "run" /\ created \subseteq created'
         /\ \A m \in created' : Kind[m] \in {"file", "folder"}
    BY <1>0, <2>1 DEF source
  <2>11. QED
    BY <1>0, <2>1, <2>6, <2>7, <2>8, <2>9, <2>10, LoopStep
<1>8. CASE FolderCopied /\ UNCHANGED source
  BY <1>0, <1>8, PopStep DEF FolderCopied, Copying, dest, TypeOK
<1>9. CASE Back /\ UNCHANGED source
  <2>1. CASE UNCHANGED frames
    BY <1>9, <2>1, FileStep DEF Back, Copying, dest
  <2>2. CASE ~UNCHANGED frames
    BY <1>0, <1>9, <2>2, PopStep DEF Back, Unwinds, Copying, dest
  <2>3. QED
    BY <2>1, <2>2
<1>10. CASE (Delete /\ UNCHANGED source) \/ Cancel \/ UNCHANGED vars
  <2>1. /\ UNCHANGED <<source, frames, created, written, full>>
        /\ cancelOperation => cancelOperation'
        /\ Copying' => Copying /\ file' = file
        /\ pc = "run" => pc' = "run"
        /\ Copying => Copying'
    BY <1>10 DEF Delete, Cancel, vars, dest, source, Copying
  <2>2. QED
    BY <2>1, FileStep
<1>11. QED
  BY <1>1, <1>2, <1>3, <1>4, <1>5, <1>6, <1>7, <1>8, <1>9, <1>10 DEF Next, Work, Ended

LEMMA BothInvariants == Spec => [](IInv /\ TreeInv)
<1>1. Init => IInv /\ TreeInv
  BY InitInvariant, InitTree
<1>2. IInv /\ TreeInv /\ [Next]_vars => (IInv /\ TreeInv)'
  BY StepInvariant, StepTree
<1>3. QED
  BY <1>1, <1>2, PTL DEF Spec

\* When the thread is done, nothing is missing that could have been copied.
LEMMA AllSettled ==
  ASSUME IInv, TreeInv, pc \in {"exit", "done"}, ~cancelOperation, ~full
  PROVE  /\ root \in created \cup locked
         /\ \A d \in created : Kind[d] = "folder" => EntriesOf(d) \subseteq created \cup locked
         /\ \A f \in created \cap File : CopiedAsFar(f)
<1>1. frames = <<>> /\ DOMAIN frames = {} /\ ~Copying
  <2>1. frames = <<>> /\ ~Copying
    BY DEF IInv, TypeOK, Copying
  <2>2. QED
    BY <2>1
<1>2. RootSettled /\ FoldersSettled /\ FilesSettled
  BY DEF TreeInv, NothingLeftBehind
<1>3. QED
  BY <1>1, <1>2 DEF RootSettled, FoldersSettled, FilesSettled, Settled

\* One unreadable block, or one file that cannot be created, costs a copy that
\* block's file or that file, and nothing else in the tree.
THEOREM FailuresAreLocal == Spec => []FailuresStayLocal
<1>1. IInv /\ TreeInv => FailuresStayLocal
  BY AllSettled DEF FailuresStayLocal
<1>2. QED
  BY <1>1, BothInvariants, PTL

-----------------------------------------------------------------------------
(* The refinement                                                          *)

\* What the constants and variables of TreeCopy stand for.
Length == [f \in File |-> Len(written[f])]
Lengths == [f \in File |-> {i \in 0 .. Total(f) : \A j \in 0 .. i - 1 : Good(f, j)}]

\* A block goes to a file, or there is no room for it.
LEMMA CopyBlockImplements ==
  ASSUME IInv, TreeInv, CopyBlock, UNCHANGED source
  PROVE  [Tree!Next]_(Tree!vars)
<1>1. /\ pc = "read" /\ pc' = "file" /\ file = filetosave /\ file \in File /\ file \in Node
      /\ file \in created /\ Good(file, blkindex) /\ blkindex < Total(file)
      /\ blkindex \in Nat /\ Total(file) \in Nat /\ UNCHANGED <<created, cancelOperation>>
  BY Sizes DEF IInv, TypeOK, TreeInv, WorkIsMade, LoopMatchesFile, Copying, CopyBlock, File
<1>2. Lengths' = Lengths
  BY SourceStays DEF Lengths
<1>3. CASE full' = TRUE /\ UNCHANGED <<written, late>>
  <2>1. Tree!Break
    BY <1>1, <1>3 DEF Tree!Break
  <2>2. QED
    BY <1>1, <1>2, <2>1 DEF Tree!Next, Lengths, source
<1>4. CASE /\ ~full /\ UNCHANGED full
           /\ written' = [written EXCEPT ![filetosave] = Append(@, blkindex)]
           /\ late' = IF cancelOperation THEN late \cup {<<file, blkindex>>} ELSE late
  <2>1. Len(written[file]) = blkindex /\ written[file] \in Seq(Nat)
    BY <1>1, <1>4 DEF IInv, TypeOK, LoopMatchesFile, Copying
  <2>2. Len(written'[file]) = blkindex + 1
        /\ \A g \in File \ {file} : written'[g] = written[g]
    BY <1>1, <1>4, <2>1 DEF IInv, TypeOK, File
  <2>3. \A j \in 0 .. blkindex : Good(file, j)
    <3>1. \A j \in 0 .. blkindex - 1 : j + 1 \in DOMAIN written[file]
      BY <1>1, <2>1
    <3>2. \A j \in 0 .. blkindex - 1 : Good(file, (j + 1) - 1)
      BY <1>1, <3>1 DEF IInv, DestinationIsPrefix
    <3>3. \A j \in 0 .. blkindex - 1 : (j + 1) - 1 = j
      OBVIOUS
    <3>4. QED
      BY <1>1, <3>2, <3>3
  <2>4. Length[file] + 1 \in Lengths[file]
    BY <1>1, <2>1, <2>3 DEF Length, Lengths
  <2>5. Length' = [Length EXCEPT ![file] = @ + 1]
    BY <1>1, <2>1, <2>2 DEF Length
  <2>6. PICK f \in File : f = file
    BY <1>1
  <2>7. Tree!Grow(f)
    BY <1>1, <1>4, <2>4, <2>5, <2>6 DEF Tree!Grow, Length, Lengths
  <2>8. QED
    BY <1>1, <1>2, <2>7 DEF Tree!Next, Lengths, source
<1>5. QED
  BY <1>3, <1>4 DEF CopyBlock, Write

\* A file that can be created is made, and is empty then.
LEMMA OpenFileImplements ==
  ASSUME IInv, TreeInv, NEW f \in File, OpenFile(f), UNCHANGED <<source, cancelOperation>>,
         pc # "done",
         CanMake(f) => f = root \/ \E d \in created : Kind[d] = "folder" /\ d \in Node /\ f \in EntriesOf(d)
  PROVE  [Tree!Next]_(Tree!vars)
<1>1. Lengths' = Lengths
  BY SourceStays DEF Lengths
<1>2. full' = full /\ pc' # "done"
  BY DEF OpenFile, dest
<1>3. CASE ~CanMake(f)
  BY <1>1, <1>2, <1>3 DEF OpenFile, Tree!vars, Lengths, dest, source
<1>4. CASE CanMake(f)
  <2>1. /\ created' = created \cup {f} /\ f \in Node
        /\ written' = [written EXCEPT ![f] = <<>>]
    BY <1>4 DEF OpenFile, File
  <2>2. \A g \in File : Len(written'[g]) = IF g = f THEN 0 ELSE Len(written[g])
    BY <2>1 DEF IInv, TypeOK, File
  <2>3. Length' = [g \in File |-> IF g = f THEN 0 ELSE Length[g]]
    BY <2>2 DEF Length
  <2>4. f \in Tree!Reached /\ f \notin locked
    BY <1>4 DEF Tree!Reached, File, CanMake
  <2>5. Tree!Make(f)
    BY <1>2, <2>1, <2>3, <2>4 DEF Tree!Make, Length
  <2>6. QED
    BY <1>1, <2>1, <2>5 DEF Tree!Next, Lengths, source
<1>5. QED
  BY <1>3, <1>4

\* mkdir makes a folder, or does not.
LEMMA FolderImplements ==
  ASSUME IInv, TreeInv, NEW n \in Node, Kind[n] = "folder", MakeFolder(n),
         UNCHANGED <<source, written, full, cancelOperation>>,
         pc # "done", pc' # "done",
         CanMake(n) =>
           n = root \/ \E d \in created : Kind[d] = "folder" /\ d \in Node /\ n \in EntriesOf(d)
  PROVE  [Tree!Next]_(Tree!vars)
<1>1. Lengths' = Lengths /\ Length' = Length
  BY SourceStays DEF Lengths, Length
<1>2. CASE CanMake(n)
  <2>1. n \in Tree!Reached /\ n \notin File /\ n \notin locked
    BY <1>2 DEF Tree!Reached, File, CanMake
  <2>2. Length = [g \in File |-> IF g = n THEN 0 ELSE Length[g]]
    BY <2>1 DEF Length
  <2>3. Tree!Make(n)
    BY <1>1, <1>2, <2>1, <2>2 DEF Tree!Make, Length, MakeFolder
  <2>4. QED
    BY <1>1, <2>3 DEF Tree!Next, Lengths, source
<1>3. CASE ~CanMake(n)
  BY <1>1, <1>3 DEF MakeFolder, Tree!vars, Lengths, Length, source
<1>4. QED
  BY <1>2, <1>3

LEMMA StepImplements == IInv /\ TreeInv /\ [Next]_vars => [Tree!Next]_(Tree!vars)
<1> SUFFICES ASSUME IInv, TreeInv, [Next]_vars PROVE [Tree!Next]_(Tree!vars)
  OBVIOUS
<1>0. TypeOK
  BY DEF IInv
<1>1. CASE Run /\ UNCHANGED source
  <2>1. root \in Node
    BY <1>0, TreeAssumption DEF TypeOK
  <2>2. CASE Kind[root] = "folder" /\ OpenFolder(root)
    BY <1>1, <2>1, <2>2, FolderImplements DEF Run, OpenFolder
  <2>3. CASE Kind[root] = "file" /\ OpenFile(root)
    <3>1. root \in File
      BY <2>1, <2>3 DEF File
    <3>2. QED
      BY <1>1, <2>3, <3>1, OpenFileImplements DEF Run
  <2>4. QED
    BY <1>1, <2>2, <2>3 DEF Run
<1>2. CASE CopyBlock /\ UNCHANGED source
  BY <1>2, CopyBlockImplements
<1>3. CASE (CopyChildFile \/ CopyChildFolder) /\ UNCHANGED source
  <2> DEFINE n == NextChild
  <2>1. pc = "folder" /\ n # None /\ Kind[n] \in {"file", "folder"}
    BY <1>3 DEF CopyChildFile, CopyChildFolder
  <2>2. /\ frames # <<>> /\ n \in Listed(Frame.dir) /\ n \in Node
        /\ Frame = frames[Len(frames)] /\ Len(frames) \in DOMAIN frames
        /\ Frame.dir \in Node
    BY <1>0, <2>1, NextChildIsListed, StackOperations DEF TreeInv, Frame
  <2>3. /\ CanMake(n) => Frame.dir \in created
        /\ Kind[Frame.dir] = "folder" /\ n \in EntriesOf(Frame.dir)
    BY <2>1, <2>2 DEF TreeInv, WorkIsMade, EntriesOf, CanMake
  <2>4. CopyChildFile => OpenFile(n) /\ Kind[n] = "file" /\ UNCHANGED cancelOperation
    BY DEF CopyChildFile
  <2>5. CopyChildFolder => /\ Kind[n] = "folder" /\ MakeFolder(n)
                           /\ pc' = "folder" /\ UNCHANGED <<written, full, cancelOperation>>
    BY <2>1 DEF CopyChildFolder
  <2> HIDE DEF n
  <2>6. CASE CopyChildFile
    <3>1. n \in File
      BY <2>2, <2>4, <2>6 DEF File
    <3>2. QED
      BY <1>3, <2>1, <2>2, <2>3, <2>4, <2>6, <3>1, OpenFileImplements
  <2>7. CASE CopyChildFolder
    BY <1>3, <2>1, <2>2, <2>3, <2>5, <2>7, FolderImplements
  <2>8. QED
    BY <1>3, <2>6, <2>7
<1>4. CASE Delete /\ UNCHANGED source
  <2>1. /\ pc = "exit" /\ pc' = "done"
        /\ UNCHANGED <<created, written, full, cancelOperation, source>>
    BY <1>4 DEF Delete, dest
  <2>2. Lengths' = Lengths /\ Length' = Length
    BY <1>4, <2>1, SourceStays DEF Lengths, Length
  <2>3. ASSUME ~(cancelOperation \/ full) PROVE Tree!Complete
    <3>1. /\ root \in created \cup locked
          /\ \A d \in created : Kind[d] = "folder" => EntriesOf(d) \subseteq created \cup locked
          /\ \A f \in created \cap File : CopiedAsFar(f)
      BY <2>1, <2>3, AllSettled
    <3>2. \A d \in created \ File : d \in Node /\ Kind[d] = "folder"
      BY <1>0 DEF TypeOK, TreeInv, WorkIsMade, File
    <3>3. Tree!Reached \subseteq created \cup locked
      BY <3>1, <3>2 DEF Tree!Reached
    <3>4. ASSUME NEW f \in File \cap created PROVE Length[f] + 1 \notin Lengths[f]
      <4>1. Len(written[f]) \in Nat /\ Total(f) \in Nat
        BY <1>0, Sizes DEF TypeOK, File
      <4>2. CASE Len(written[f]) = Total(f)
        BY <4>1, <4>2 DEF Length, Lengths
      <4>3. CASE ~Good(f, Len(written[f]))
        <5>1. Len(written[f]) \in 0 .. (Len(written[f]) + 1) - 1
          BY <4>1
        <5>2. QED
          BY <4>3, <5>1 DEF Length, Lengths
      <4>4. QED
        BY <3>1, <4>2, <4>3 DEF CopiedAsFar
    <3>5. QED
      BY <3>3, <3>4 DEF Tree!Complete, Length, Lengths
  <2>4. Tree!Finish
    BY <2>1, <2>2, <2>3 DEF Tree!Finish, Length
  <2>5. QED
    BY <2>1, <2>2, <2>4 DEF Tree!Next, Lengths, source
<1>5. CASE Cancel
  <2>1. /\ pc # "done" /\ pc' = pc /\ cancelOperation'
        /\ UNCHANGED <<created, written, full, source>>
    BY <1>5 DEF Cancel, dest
  <2>2. Lengths' = Lengths /\ Length' = Length
    BY <2>1, SourceStays DEF Lengths, Length
  <2>3. Tree!Break
    BY <2>1, <2>2 DEF Tree!Break, Length
  <2>4. QED
    BY <2>1, <2>2, <2>3 DEF Tree!Next, Lengths, source
<1>6. CASE /\ pc' # "done" /\ pc # "done"
           /\ UNCHANGED <<source, created, written, full, cancelOperation>>
  <2>1. Lengths' = Lengths /\ Length' = Length
    BY <1>6, SourceStays DEF Lengths, Length
  <2>2. QED
    BY <1>6, <2>1 DEF Tree!vars, Lengths, Length, source
<1>7. CASE UNCHANGED vars
  <2>1. UNCHANGED <<source, created, written, full, cancelOperation, pc>>
    BY <1>7 DEF vars, dest
  <2>2. Lengths' = Lengths /\ Length' = Length
    BY <2>1, SourceStays DEF Lengths, Length
  <2>3. QED
    BY <2>1, <2>2 DEF Tree!vars, Lengths, Length, source
<1>8. CASE (FileCancelled \/ NextRead \/ ReadFails \/ FileCopied) /\ UNCHANGED source
  BY <1>6, <1>8 DEF FileCancelled, NextRead, ReadFails, FileCopied, Finish, dest
<1>9. CASE (SkipChild \/ FolderCopied \/ Back) /\ UNCHANGED source
  BY <1>6, <1>9 DEF SkipChild, FolderCopied, Back, dest
<1>10. QED
  BY <1>1, <1>2, <1>3, <1>4, <1>5, <1>7, <1>8, <1>9 DEF Next, Work, Ended

\* copy_file and copy_folder implement TreeCopy: nodes are made only below nodes
\* that were made, files grow block by block by what can be read, and the thread
\* ends with nothing missing, or because it was cancelled or found no room.
THEOREM CopyImplementsTreeCopy == Spec => ImplementsTreeCopy
<1>1. Init => Tree!Init
  <2> SUFFICES ASSUME Init PROVE Tree!Init
    OBVIOUS
  <2>1. \A f \in File : Len(written[f]) = 0
    BY DEF Init, File
  <2>2. QED
    BY <2>1 DEF Init, Tree!Init
<1>2. IInv /\ TreeInv /\ [Next]_vars => [Tree!Next]_(Tree!vars)
  BY StepImplements
<1>3. QED
  BY <1>1, <1>2, BothInvariants, PTL DEF Spec, ImplementsTreeCopy, Tree!Spec
===============================================================================
