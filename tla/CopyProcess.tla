----------------------------- MODULE CopyProcess -----------------------------
(***************************************************************************)
(* Ext2CopyProcess (ext2copyfile.cpp), the thread that copies a file or a  *)
(* folder tree: run, copy_file and the recursive copy_folder, with the     *)
(* flag cancelOperation that the dialog may set at any time.               *)
(*                                                                         *)
(* The source is a tree of nodes.  Reading its blocks and listing its      *)
(* folders is what PartitionIO, DirStream and the block maps provide:      *)
(* a block is good or not, a listing ends before the first entry that      *)
(* read_dir cannot get past.                                               *)
(***************************************************************************)
EXTENDS Integers, Sequences, FiniteSets

CONSTANTS
  Node,       \* the files and folders of the source
  Kind,       \* Kind[n]: "file", "folder", "other", or "lost": read_dir stops there
  Children,   \* Children[n]: the entries of a folder in the order they are listed
  Roots,      \* the nodes a copy may be started on
  Patterns,   \* the contents to consider, as [full, extra]: what read_data_block
              \* does for each full block and for the part of a block after them
  None

ASSUME TreeAssumption ==
  /\ Kind \in [Node -> {"file", "folder", "other", "lost"}]
  /\ Children \in [Node -> Seq(Node)]
  /\ Roots \subseteq {n \in Node : Kind[n] \in {"file", "folder"}}
  /\ \A p \in Patterns :
       /\ p.full \in Seq({"good", "hole", "bad"})
       /\ p.extra \in {"none", "good", "hole", "bad"}
  /\ None \notin Node

File == {n \in Node : Kind[n] = "file"}
Folder == {n \in Node : Kind[n] = "folder"}

VARIABLES
  root,        \* the node this copy was started on
  content,     \* content[f]: the pattern of each file
  locked,      \* the files and folders that cannot be created at the destination
  pc,          \* "run", "folder" (the loop of copy_folder), "file" (copy_file's
               \* loop), "read" (past its look at cancelOperation), "back" (copy_file returned), "exit", "done"
  frames,      \* the calls of copy_folder, innermost last: [dir, pos, made], where made
               \* says whether the folder was created
  file,        \* srcfile of the current copy_file
  blkindex,    \* its loop variable
  filetosave,  \* the member: the file whose QFile was created last
  opened,      \* the files whose QFile is open
  ret,         \* what the last copy_file or copy_folder returned
  written,     \* written[f]: the destination file, as the source blocks in it
  created,     \* the files and folders that exist at the destination
  full,        \* the destination has no room left, and gets none during the copy
  cancelOperation,
  late         \* history: the <<file, block>> written since cancelOperation was set

source == <<root, content, locked>>
dest == <<written, created, full>>
vars == <<source, pc, frames, file, blkindex, filetosave, opened, ret, dest,
          cancelOperation, late>>

\* The loop of copy_file runs over the full blocks, then there may be a part.
Full(f)  == Len(content[f].full)
Total(f) == Full(f) + (IF content[f].extra = "none" THEN 0 ELSE 1)
State(f, i) == IF i < Full(f) THEN content[f].full[i + 1] ELSE content[f].extra

\* read_data_block succeeds; it takes a hole for an error.
Good(f, i) == State(f, i) = "good"

Init ==
  /\ root \in Roots
  /\ content \in [File -> Patterns]
  /\ locked \in {{}} \cup {{n} : n \in File \cup Folder}
  /\ pc = "run"
  /\ frames = <<>>
  /\ file = None
  /\ blkindex = 0
  /\ filetosave = None
  /\ opened = {}
  /\ ret = TRUE
  /\ written = [n \in Node |-> <<>>]
  /\ created = {}
  /\ full = FALSE
  /\ cancelOperation = FALSE
  /\ late = {}

Frame == frames[Len(frames)]
Left == SubSeq(frames, 1, Len(frames) - 1)

\* slot_cancelprocess, called by the GUI thread.
Cancel ==
  /\ pc # "done" /\ ~cancelOperation
  /\ cancelOperation' = TRUE
  /\ UNCHANGED <<source, pc, frames, file, blkindex, filetosave, opened, ret, dest, late>>

\* Nothing can be created in a folder that was not.
CanMake(n) == n \notin locked /\ (frames # <<>> => Frame.made)
Called(d) == [dir |-> d, pos |-> 1, made |-> CanMake(d)]

\* The start of copy_file: a new QFile takes the place of the previous one and
\* is opened and truncated.
OpenFile(f) ==
  /\ filetosave' = f
  /\ IF ~CanMake(f)
       THEN /\ ret' = FALSE /\ pc' = "back"
            /\ UNCHANGED <<file, blkindex, opened, dest>>
       ELSE /\ file' = f /\ blkindex' = 0 /\ pc' = "file"
            /\ opened' = opened \cup {f}
            /\ created' = created \cup {f}
            /\ written' = [written EXCEPT ![f] = <<>>]
            /\ UNCHANGED <<ret, full>>

\* The start of copy_folder: mkdir, whose result is not looked at, and open_dir.
MakeFolder(d) == created' = IF CanMake(d) THEN created \cup {d} ELSE created
OpenFolder(d) ==
  /\ MakeFolder(d)
  /\ frames' = Append(frames, Called(d))
  /\ pc' = "folder"
  /\ UNCHANGED <<file, blkindex, filetosave, opened, ret, written, full>>

Run ==
  /\ pc = "run"
  /\ \/ Kind[root] = "folder" /\ OpenFolder(root)
     \/ Kind[root] = "file" /\ OpenFile(root) /\ UNCHANGED frames
  /\ UNCHANGED <<cancelOperation, late>>

-----------------------------------------------------------------------------
(* copy_file                                                               *)

Finish(result) ==
  /\ ret' = result
  /\ pc' = "back"
  /\ UNCHANGED <<frames, file, blkindex, filetosave, dest, cancelOperation, late>>

Close == opened' = opened \ {file}

\* cancelOperation is looked at before each full block; the file stays open.
SeesCancelRarely == cancelOperation /\ blkindex % 10 = 0   \* mutant: at updates only
SeesCancel == cancelOperation
FileCancelled ==
  /\ pc = "file" /\ blkindex < Full(file) /\ SeesCancel
  /\ Finish(FALSE)
  /\ UNCHANGED opened

\* The thread goes on to read_data_block: from here on to the write that
\* follows it, a Cancel comes too late for this block.  The part of a block
\* after the full ones is read whether or not the copy is cancelled.
NextRead ==
  /\ pc = "file" /\ blkindex < Total(file)
  /\ blkindex < Full(file) => ~SeesCancel
  /\ pc' = "read"
  /\ UNCHANGED <<frames, file, blkindex, filetosave, opened, ret, dest,
                 cancelOperation, late>>

\* mutant: a block that cannot be read is left out.
ReadFailsSkip ==
  /\ pc = "read" /\ ~Good(file, blkindex)
  /\ blkindex' = blkindex + 1 /\ pc' = "file"
  /\ UNCHANGED <<frames, file, filetosave, opened, ret, dest, cancelOperation, late>>
\* mutant: a block that cannot be read is tried again.
ReadFailsRetry ==
  /\ pc = "read" /\ ~Good(file, blkindex)
  /\ pc' = "file"
  /\ UNCHANGED <<frames, file, blkindex, filetosave, opened, ret, dest,
                 cancelOperation, late>>
\* mutant: the file is not closed when a read fails.
ReadFailsOpen ==
  /\ pc = "read" /\ ~Good(file, blkindex)
  /\ Finish(FALSE)
  /\ UNCHANGED opened
\* read_data_block fails: the file is closed as it is.
ReadFails ==
  /\ pc = "read" /\ ~Good(file, blkindex)
  /\ Finish(FALSE)
  /\ Close

\* filetosave->write, whose result is not looked at: the block is in the file,
\* or there was no room for it.
Write ==
  \/ full' = TRUE /\ UNCHANGED <<written, late>>
  \/ /\ ~full
     /\ written' = [written EXCEPT ![filetosave] = Append(@, blkindex)]
     /\ late' = IF cancelOperation THEN late \cup {<<file, blkindex>>} ELSE late
     /\ UNCHANGED full

\* read_data_block into buffer, then the write.
CopyBlock ==
  /\ pc = "read" /\ Good(file, blkindex)
  /\ Write
  /\ blkindex' = blkindex + 1 /\ pc' = "file"
  /\ UNCHANGED <<frames, file, filetosave, opened, ret, created, cancelOperation>>

\* mutant: the part of a block after the full ones is forgotten.
FileCopiedShort ==
  /\ pc = "file" /\ blkindex = Full(file)
  /\ Finish(TRUE)
  /\ Close
FileCopied ==
  /\ pc = "file" /\ blkindex = Total(file)
  /\ Finish(TRUE)
  /\ Close

-----------------------------------------------------------------------------
(* copy_folder                                                             *)

\* The next entry read_dir returns, None when it returns NULL.
NextChild ==
  LET entries == Children[Frame.dir]
  IN  IF Frame.pos > Len(entries) THEN None
      ELSE IF Kind[entries[Frame.pos]] = "lost" THEN None ELSE entries[Frame.pos]
Advanced == [frames EXCEPT ![Len(frames)].pos = @ + 1]

\* A child of another kind is passed over.
SkipChild ==
  /\ pc = "folder" /\ NextChild # None /\ Kind[NextChild] = "other"
  /\ frames' = Advanced
  /\ UNCHANGED <<pc, file, blkindex, filetosave, opened, ret, dest, cancelOperation, late>>

CopyChildFile ==
  /\ pc = "folder" /\ NextChild # None /\ Kind[NextChild] = "file"
  /\ OpenFile(NextChild)
  /\ frames' = Advanced
  /\ UNCHANGED <<cancelOperation, late>>

CopyChildFolder ==
  /\ pc = "folder" /\ NextChild # None /\ Kind[NextChild] = "folder"
  /\ MakeFolder(NextChild)
  /\ frames' = Append(Advanced, Called(NextChild))
  /\ UNCHANGED <<pc, file, blkindex, filetosave, opened, ret, written, full,
                 cancelOperation, late>>

\* read_dir returned NULL: the folder is taken to be complete.
FolderCopied ==
  /\ pc = "folder" /\ NextChild = None
  /\ ret' = TRUE
  /\ frames' = Left
  /\ pc' = "back"
  /\ UNCHANGED <<file, blkindex, filetosave, opened, dest, cancelOperation, late>>

\* Back in the caller of copy_file or copy_folder: run is finished; a folder's
\* loop goes on, unless the call failed and the copy is cancelled.
UnwindsOnFailure == ret = FALSE      \* mutant: one failed child ends the copy
Unwinds == ret = FALSE /\ cancelOperation
Back ==
  /\ pc = "back"
  /\ IF frames = <<>> THEN pc' = "exit" /\ UNCHANGED frames
     ELSE IF Unwinds THEN frames' = Left /\ UNCHANGED pc
     ELSE pc' = "folder" /\ UNCHANGED frames
  /\ UNCHANGED <<file, blkindex, filetosave, opened, ret, dest, cancelOperation, late>>

\* The process is deleted, and with it the QFile in filetosave.
Delete ==
  /\ pc = "exit"
  /\ pc' = "done"
  /\ opened' = opened \ {filetosave}
  /\ UNCHANGED <<frames, file, blkindex, filetosave, ret, dest, cancelOperation, late>>

Ended == pc = "done" /\ UNCHANGED vars

Work ==
  /\ \/ Run \/ FileCancelled \/ NextRead \/ ReadFails \/ CopyBlock
     \/ FileCopied
     \/ SkipChild \/ CopyChildFile \/ CopyChildFolder \/ FolderCopied \/ Back
     \/ Delete
  /\ UNCHANGED source

Next == Work \/ Cancel \/ Ended

Spec == Init /\ [][Next]_vars
FairSpec == Spec /\ WF_vars(Work)

-----------------------------------------------------------------------------
(* Properties *)

Call == [dir : Node, pos : Nat \ {0}, made : BOOLEAN]

\* Each variable has its type; a thread that is in no folder yet, or has left every
\* one, has no call of copy_folder.
TypeOK ==
  /\ root \in Roots /\ content \in [File -> Patterns] /\ locked \subseteq Node
  /\ pc \in {"run", "folder", "file", "read", "back", "exit", "done"}
  /\ frames \in Seq(Call)
  /\ pc = "folder" => frames # <<>>
  /\ pc \in {"run", "exit", "done"} => frames = <<>>
  /\ file \in File \cup {None} /\ filetosave \in File \cup {None}
  /\ blkindex \in Nat
  /\ opened \subseteq File /\ created \subseteq Node
  /\ written \in [Node -> Seq(Nat)]
  /\ ret \in BOOLEAN /\ cancelOperation \in BOOLEAN /\ full \in BOOLEAN
  /\ late \subseteq File \X Nat

\* A destination file is at all times the beginning of its source, also when the
\* destination is full and nobody looks: no block is missing in the middle,
\* doubled, out of place, unread or taken from another file.
DestinationIsPrefix ==
  \A f \in File :
    /\ Len(written[f]) <= Total(f)
    /\ \A i \in DOMAIN written[f] : written[f][i] = i - 1 /\ Good(f, i - 1)

\* The entries that read_dir gets to.
Listed(d) ==
  LET entries == Children[d]
  IN  {entries[i] : i \in {j \in DOMAIN entries :
                             \A k \in 1 .. j : Kind[entries[k]] # "lost"}}

EntriesOf(d) == {n \in Listed(d) : Kind[n] \in {"file", "folder"}}

\* A file that has all blocks before one that cannot be read, or all there are.
CopiedAsFar(f) == Len(written[f]) = Total(f) \/ ~Good(f, Len(written[f]))

\* A copy that is not cancelled and has room has created whatever was listed and
\* copied each file up to its first unreadable block: a file that fails takes
\* nothing from the files and folders after it, a folder that cannot be created
\* nothing but what is in it.
FailuresStayLocal ==
  pc = "done" /\ ~cancelOperation /\ ~full =>
    /\ root \in created \cup locked
    /\ \A d \in created : Kind[d] = "folder" => EntriesOf(d) \subseteq created \cup locked
    /\ \A f \in created \cap File : CopiedAsFar(f)

\* The thread implements TreeCopy: it makes, grows and ends as a copy of a tree
\* may, however it gets there.
Tree == INSTANCE TreeCopy WITH
  Entries <- [d \in Node |-> EntriesOf(d)],
  refused <- locked,
  lengths <- [f \in File |-> {i \in 0 .. Total(f) : \A j \in 0 .. i - 1 : Good(f, j)}],
  made    <- created,
  length  <- [f \in File |-> Len(written[f])],
  broken  <- cancelOperation \/ full,
  done    <- pc = "done"
ImplementsTreeCopy == Tree!Spec

\* After slot_cancelprocess the full block in hand may still be written, no other.
AtMostOneBlockLate ==
  \A l, m \in late : l[2] < Full(l[1]) /\ m[2] < Full(m[1]) => l = m

\* The only QFile that is open is the one in filetosave, which the destructor
\* deletes: no destination file is left open or cut off behind the thread's back.
OnlyLastFileOpen == opened \subseteq {filetosave} /\ (pc = "done" => opened = {})

\* The thread comes to its end, cancelled or not.
CopyEnds == <>(pc = "done")

-----------------------------------------------------------------------------
(* The inductive invariant                                                 *)

Copying == pc \in {"file", "read"}

\* The destination holds exactly the blocks the loop has gone through, or fewer.
LoopMatchesFile ==
  /\ Copying => file = filetosave /\ file \in File /\ Len(written[file]) <= blkindex
  /\ Copying /\ ~full => Len(written[file]) = blkindex
  /\ Copying => blkindex <= Total(file)
  /\ pc = "read" => blkindex < Total(file)

\* A QFile is left open only by the copy_file that saw the flag, after which
\* every call in progress returns.
OpenOnlyWhileCopying ==
  /\ opened \subseteq {filetosave}
  /\ opened # {} => Copying \/ (pc \in {"back", "exit"} /\ ret = FALSE /\ cancelOperation)

\* Once a full block was written late, no other one is on its way.
NoneAfterLate ==
  /\ late # {} => cancelOperation
  /\ \A l \in late : l[2] < Full(l[1]) => ~(pc = "read" /\ blkindex < Full(file))

IInv ==
  /\ TypeOK /\ LoopMatchesFile /\ DestinationIsPrefix
  /\ OpenOnlyWhileCopying /\ NoneAfterLate /\ AtMostOneBlockLate

\* A file being worked on exists at the destination, and a call of copy_folder
\* has not gone past an entry that read_dir stops at.
WorkIsMade ==
  /\ \A n \in created : Kind[n] \in {"file", "folder"}
  /\ Copying => file \in created
  /\ \A i \in DOMAIN frames :
       /\ Kind[frames[i].dir] = "folder" /\ (frames[i].made => frames[i].dir \in created)
       /\ \A j \in DOMAIN Children[frames[i].dir] :
            j < frames[i].pos => Kind[Children[frames[i].dir][j]] # "lost"

Settled(n) == n \in created \cup locked
RootSettled == pc # "run" => Settled(root)

\* A call in progress in a folder that exists has settled the entries before its pos.
EarlierSettled ==
  \A i \in DOMAIN frames : \A j \in DOMAIN Children[frames[i].dir] :
    frames[i].made /\ j < frames[i].pos /\ Kind[Children[frames[i].dir][j]] \in {"file", "folder"} =>
      Settled(Children[frames[i].dir][j])

FoldersSettled ==
  \A d \in created : Kind[d] = "folder" =>
    \/ \E i \in DOMAIN frames : frames[i].dir = d /\ frames[i].made
    \/ \A n \in EntriesOf(d) : Settled(n)

\* A file is in the hands of copy_file, or copied as far as it can be.
FilesSettled == \A f \in created \cap File : (Copying /\ f = file) \/ CopiedAsFar(f)

NothingLeftBehind ==
  ~cancelOperation /\ ~full =>
    RootSettled /\ EarlierSettled /\ FoldersSettled /\ FilesSettled

TreeInv == WorkIsMade /\ NothingLeftBehind
===============================================================================
