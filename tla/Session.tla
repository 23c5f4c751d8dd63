------------------------------- MODULE Session -------------------------------
(***************************************************************************)
(* The composition of PartitionIO and CopyDialog: the GUI thread and the   *)
(* copy threads are the callers of the partition they are all on.  A copy  *)
(* thread calls into it from the start of its run until it emits           *)
(* sig_copydone, the GUI thread while it lists a folder and, before all    *)
(* others, in the constructor.  The partition has no lock: what keeps its  *)
(* callers apart is the dialog alone.                                      *)
(***************************************************************************)
EXTENDS PartitionIO, CopyDialog

CONSTANT gui     \* the GUI thread

ASSUME CallersAssumption ==
  /\ Thread = Proc \cup {gui} /\ gui \notin Proc
  /\ ~Exclusive

sessionVars == <<vars, dialogVars>>

SessionInit == Init /\ DialogInit

\* t runs code that calls into the partition: read_dir and read_inode under
\* on_action_item_dbclicked, those and read_data_block under run; the constructor
\* is the GUI thread's, under scan_system.
MayCall(t) ==
  /\ ~aborted
  /\ \/ t = gui /\ (browsing \/ root = None)
     \/ t # gui /\ thread[t] = "running" /\ root # None

Access(t) ==
  /\ MayCall(t)
  /\ Call(t) \/ Step(t)
  /\ UNCHANGED dialogVars

\* The steps of the windows and the threads outside the partition; who leaves
\* the code that calls into it has returned from its last call.  There are none
\* while the GUI thread is in the constructor.
Listed == pc[gui] = "idle" /\ Browsed
EmitsCopydone(p) == pc[p] = "idle" /\ EmitCopydone(p)
Outer ==
  /\ root # None
  /\ \/ \E p \in Proc : Save(p) \/ EmitsCopydone(p) \/ ReturnFromRun(p)
     \/ Browse \/ Listed \/ Copydone
     \/ CancelClicked \/ AnswerYes \/ AnswerNo \/ CloseDialog
     \/ Ended
  /\ UNCHANGED vars

\* The partition is deleted and one is found again: Init, after the step.  The new
\* object may lie in the memory of the old one.
NewPartition ==
  /\ hash' = [b \in Block |-> None] /\ newer' = {} /\ recent' = {} /\ live' = 0
  /\ inode_buffer' = Junk /\ last_block' \in Block \cup {None} /\ root' = None
  /\ head' = 0
  /\ pc' = [t \in Thread |-> "idle"]
  /\ blk' = [t \in Thread |-> None]
  /\ dst' = [t \in Thread |-> "caller"]
  /\ held' = [t \in Thread |-> None]
  /\ got' = [t \in Thread |-> None]

\* A copy that still runs at a rescan is on freed memory, of which nothing can be
\* said: PartitionsOutliveCopies is about that.
RescanPartition == root # None /\ Active = {} /\ Rescan /\ NewPartition

SessionNext == (\E t \in Thread : Access(t)) \/ Outer \/ RescanPartition

SessionSpec == SessionInit /\ [][SessionNext]_sessionVars

-----------------------------------------------------------------------------
(* Properties *)

\* Until a dialog is closed under its copy, whatever the user does, the partition
\* is to listing and copying what it is to one caller at a time: each step of a
\* call is one of the plain block device (BlockSource), or none that shows; if the
\* partition took its root from the disk (RootRead), however often it is replaced.
ReadsAsFromSource ==
  [][~dismissed /\ scans' = scans => Source!Next \/ UNCHANGED Source!vars]_sessionVars

\* Until then what it keeps between two calls is right: the cache, and inode_buffer
\* with last_block, if the root was read.  A rescan must leave nothing of the old
\* partition in them.
UndisturbedBuffers == ~dismissed => CacheTransparent /\ BufferIsLastBlock

\* inode_buffer, "buffer to cache last used block of inodes" (ext2read.h:157),
\* holds the block that last_block names, also after a dialog was closed.
BufferFollowsLastBlock == BufferIsLastBlock

-----------------------------------------------------------------------------
(* The inductive invariant behind the theorems of SessionProofs: no thread *)
(* is inside the partition that is not running code that calls into it,    *)
(* and PartitionIO's invariant holds although nothing excludes a caller.   *)

InsideIsCalling ==
  ~aborted => \A t \in Thread : pc[t] # "idle" => MayCall(t)

SessionInv ==
  /\ DialogInv
  /\ TypeInv
  /\ InsideIsCalling
  /\ ~dismissed => IInv
===============================================================================
