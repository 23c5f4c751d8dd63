----------------------------- MODULE CopyDialog -----------------------------
(***************************************************************************)
(* The GUI thread and the copy threads: the main window's actions that     *)
(* touch a partition (ext2explore.cpp), the one progress dialog            *)
(* Ext2CopyFile with its member proc, its message box, and the threads     *)
(* Ext2CopyProcess it starts (ext2copyfile.cpp).                           *)
(*                                                                         *)
(* The dialog is modal for the application (ext2progress.ui): while it is  *)
(* visible the main window gets no input.  A thread's sig_copydone is      *)
(* queued for the GUI thread; what the dialog emits reaches                *)
(* slot_cancelprocess at once, because the QThread object lives in the GUI *)
(* thread, and only while that object exists.                              *)
(***************************************************************************)
EXTENDS Integers, Sequences

CONSTANTS
  Proc,      \* the Ext2CopyProcess objects, one for each copy that is started
  MaxScans,  \* bound on the rescans
  NoProc

ASSUME DialogAssumption == MaxScans \in Nat /\ NoProc \notin Proc

VARIABLES
  visible,    \* the progress dialog is shown
  box,        \* "Are you sure ...?" is shown and its own event loop runs
  proc,       \* the member proc
  thread,     \* "new", "running", "returning" (sig_copydone is emitted, run has
              \* not returned), "finished"
  deleted,    \* the process objects that have been deleted
  cancelOperation,  \* the flag of each process
  partition,  \* the scan whose partitions each process was started on
  scans,      \* the scan whose partitions exist, counted from 0
  queue,      \* the sig_copydone events waiting in the GUI thread, by sender
  browsing,   \* the GUI thread is inside a partition, listing a folder
  aborted,    \* the program was ended: a QThread was destroyed while it ran, or twice
  dismissed   \* history: the dialog was closed, by its frame or Escape, under a copy

dialogVars ==
  <<visible, box, proc, thread, deleted, cancelOperation, partition, scans, queue,
    browsing, aborted, dismissed>>

DialogInit ==
  /\ visible = FALSE /\ box = FALSE
  /\ proc = NoProc
  /\ thread = [p \in Proc |-> "new"]
  /\ deleted = {}
  /\ cancelOperation = [p \in Proc |-> FALSE]
  /\ partition = [p \in Proc |-> 0]
  /\ scans = 0
  /\ queue = <<>>
  /\ browsing = FALSE
  /\ aborted = FALSE
  /\ dismissed = FALSE

\* The processes whose run has not returned.
Active == {p \in Proc : thread[p] \in {"running", "returning"}}

\* The user can reach the main window.
MainWindowUnblocked == ~aborted /\ ~box /\ ~browsing     \* mutant: not modal
MainWindow == ~aborted /\ ~visible /\ ~box /\ ~browsing

\* on_action_Save_triggered, and start_copy: proc is overwritten.
Save(p) ==
  /\ MainWindow
  /\ thread[p] = "new"
  /\ proc' = p
  /\ partition' = [partition EXCEPT ![p] = scans]
  /\ visible' = TRUE
  /\ thread' = [thread EXCEPT ![p] = "running"]
  /\ UNCHANGED <<box, deleted, cancelOperation, scans, queue, browsing, aborted, dismissed>>

\* on_action_item_dbclicked lists a folder in the GUI thread.
Browse ==
  /\ MainWindow
  /\ browsing' = TRUE
  /\ UNCHANGED <<visible, box, proc, thread, deleted, cancelOperation, partition, scans,
                 queue, aborted, dismissed>>

Browsed ==
  /\ browsing /\ ~aborted
  /\ browsing' = FALSE
  /\ UNCHANGED <<visible, box, proc, thread, deleted, cancelOperation, partition, scans,
                 queue, aborted, dismissed>>

\* on_action_Rescan_System_triggered: the partitions and their files are
\* deleted and others are found.
Rescan ==
  /\ MainWindow /\ scans < MaxScans
  /\ scans' = scans + 1
  /\ UNCHANGED <<visible, box, proc, thread, deleted, cancelOperation, partition, queue,
                 browsing, aborted, dismissed>>

\* A signal of the dialog that is connected to slot_cancelprocess: it reaches
\* every process that was started and not deleted since.
CancelProcesses ==
  cancelOperation' =
    [p \in Proc |-> cancelOperation[p] \/ (thread[p] # "new" /\ p \notin deleted)]

\* on_buttonBox_clicked opens the message box ...
CancelClicked ==
  /\ ~aborted /\ visible /\ ~box
  /\ box' = TRUE
  /\ UNCHANGED <<visible, proc, thread, deleted, cancelOperation, partition, scans, queue,
                 browsing, aborted, dismissed>>

Answer ==
  /\ ~aborted /\ box
  /\ box' = FALSE
  /\ UNCHANGED <<visible, proc, thread, deleted, partition, scans, queue, browsing, aborted,
                 dismissed>>

\* mutant: the dialog keeps the answer in its own member, signal_cancelprocess is not
\* emitted.
AnswerYesUnsent == Answer /\ UNCHANGED cancelOperation
\* ... and goes on when it is answered.
AnswerYes == Answer /\ CancelProcesses
AnswerNo == Answer /\ UNCHANGED cancelOperation

\* mutant: rejected is not connected.
CloseDialogUnsent ==
  /\ ~aborted /\ visible /\ ~box
  /\ visible' = FALSE
  /\ dismissed' = TRUE
  /\ UNCHANGED <<box, proc, thread, deleted, cancelOperation, partition, scans, queue,
                 browsing, aborted>>
\* The dialog is closed, which hides it and emits rejected.
CloseDialog ==
  /\ ~aborted /\ visible /\ ~box
  /\ visible' = FALSE
  /\ dismissed' = TRUE
  /\ CancelProcesses
  /\ UNCHANGED <<box, proc, thread, deleted, partition, scans, queue, browsing, aborted>>

-----------------------------------------------------------------------------
\* The end of run in process p: everything is copied, or p has seen the flag.
EmitCopydoneTwice(p) ==    \* mutant: once in copy_folder's branch and once after it
  /\ ~aborted /\ thread[p] = "running"
  /\ thread' = [thread EXCEPT ![p] = "returning"]
  /\ queue' = queue \o <<p, p>>
  /\ UNCHANGED <<visible, box, proc, deleted, cancelOperation, partition, scans, browsing,
                 aborted, dismissed>>
EmitCopydone(p) ==
  /\ ~aborted /\ thread[p] = "running"
  /\ thread' = [thread EXCEPT ![p] = "returning"]
  /\ queue' = Append(queue, p)
  /\ UNCHANGED <<visible, box, proc, deleted, cancelOperation, partition, scans, browsing,
                 aborted, dismissed>>

ReturnFromRun(p) ==
  /\ ~aborted /\ thread[p] = "returning"
  /\ thread' = [thread EXCEPT ![p] = "finished"]
  /\ UNCHANGED <<visible, box, proc, deleted, cancelOperation, partition, scans, queue,
                 browsing, aborted, dismissed>>

\* delete proc ends the program when proc runs, and may do so (or nothing) when
\* proc was deleted before.
DeleteProc ==
  \/ proc \in Active /\ aborted' = TRUE
  \/ proc \in deleted /\ aborted' \in BOOLEAN
  \/ proc \notin Active \cup deleted /\ UNCHANGED aborted

\* mutant: the dialog is not hidden.
CopydoneShown ==
  /\ ~aborted /\ ~browsing /\ queue # <<>>
  /\ queue' = Tail(queue)
  /\ deleted' = deleted \cup {proc}
  /\ DeleteProc
  /\ UNCHANGED <<visible, box, proc, thread, cancelOperation, partition, scans, browsing,
                 dismissed>>
\* slot_copydone, in the main event loop or in the message box's: delete proc,
\* then hide.
Copydone ==
  /\ ~aborted /\ ~browsing /\ queue # <<>>
  /\ queue' = Tail(queue)
  /\ deleted' = deleted \cup {proc}
  /\ DeleteProc
  /\ visible' = FALSE
  /\ UNCHANGED <<box, proc, thread, cancelOperation, partition, scans, browsing,
                 dismissed>>

\* Nothing more happens: the program was ended, or every copy was.
Ended ==
  /\ \/ aborted
     \/ (\A p \in Proc : thread[p] = "finished") /\ queue = <<>> /\ ~box /\ ~browsing
  /\ UNCHANGED dialogVars

User ==
  \/ \E p \in Proc : Save(p)
  \/ Browse \/ Rescan \/ CancelClicked \/ AnswerYes \/ AnswerNo \/ CloseDialog
CopyThread(p) == EmitCopydone(p) \/ ReturnFromRun(p)
GUI == Browsed \/ Copydone

DialogNext == User \/ (\E p \in Proc : CopyThread(p)) \/ GUI \/ Ended

DialogSpec == DialogInit /\ [][DialogNext]_dialogVars

\* A copy comes to its end (CopyEnds of CopyProcess), run returns, the GUI
\* thread delivers its events; the user owes nothing.
FairDialogSpec ==
  DialogSpec /\ WF_dialogVars(GUI) /\ \A p \in Proc : WF_dialogVars(CopyThread(p))

-----------------------------------------------------------------------------
(* Properties *)

\* Each variable has its type, and only a process that exists is in a slot.
DialogTypeOK ==
  /\ visible \in BOOLEAN /\ box \in BOOLEAN /\ browsing \in BOOLEAN
  /\ aborted \in BOOLEAN /\ dismissed \in BOOLEAN
  /\ proc \in Proc \cup {NoProc}
  /\ thread \in [Proc -> {"new", "running", "returning", "finished"}]
  /\ deleted \subseteq Proc
  /\ cancelOperation \in [Proc -> BOOLEAN]
  /\ partition \in [Proc -> 0 .. MaxScans]
  /\ scans \in 0 .. MaxScans
  /\ queue \in Seq(Proc)

\* As long as no dialog was closed under its copy, one thread at a time is
\* inside a partition: no two copies run at once, and the GUI thread lists no
\* folder while one runs.  PartitionIO's correctness rests on this (its constant
\* Exclusive).
OneUser ==
  ~dismissed =>
    \A p, q \in Proc :
      thread[p] = "running" => ~browsing /\ (thread[q] = "running" => p = q)

\* Nor does a copy run on partitions that a rescan has deleted.
PartitionsOutliveCopies ==
  ~dismissed => \A p \in Proc : thread[p] = "running" => partition[p] = scans

\* Nor does slot_copydone delete another process than the one that sent the
\* signal, or one a second time: the member proc is the one the event is about.
DeletesSender ==
  ~dismissed => \A i \in DOMAIN queue : queue[i] = proc /\ proc \notin deleted

\* The copy that is done leaves nothing on the screen: the dialog goes away, or
\* the program was ended.
DialogGoesAway == visible ~> (~visible \/ aborted)

\* When the user has confirmed a cancel, or closed the dialog, every copy that still
\* runs has been told to stop, those of dialogs closed before included; and the flag
\* was set for that reason only, in the process whose dialog it is, never in the memory
\* of a deleted one: its copy may have ended and been deleted under the message box.
CancelReachesShownCopy ==
  [][/\ AnswerYes \/ CloseDialog =>
          \A p \in Proc : thread[p] = "running" => cancelOperation'[p]
     /\ \A p \in Proc : cancelOperation'[p] # cancelOperation[p] =>
          (AnswerYes \/ CloseDialog) /\ p = proc /\ p \notin deleted]_dialogVars

\* A copy that runs on without its dialog has been told to stop: nobody can
\* cancel it any more.
HiddenCopyIsCancelled ==
  ~aborted /\ ~visible => \A p \in Proc : thread[p] = "running" => cancelOperation[p]

-----------------------------------------------------------------------------
(* The inductive invariant behind the theorems of SessionProofs.           *)

\* proc is the last process that was started; a deleted one was started before,
\* and had finished, or the program is at its end.
ProcIsStarted ==
  /\ proc # NoProc => thread[proc] # "new"
  /\ \A p \in Proc : thread[p] # "new" => proc # NoProc
  /\ queue # <<>> => proc # NoProc
  /\ \A p \in deleted : thread[p] # "new"
  /\ ~aborted => deleted \cap Active = {}

\* Every process that was started has been deleted, cancelled, or is the one the
\* dialog on the screen belongs to.
LeftCopiesAreCancelled ==
  ~aborted =>
    \A p \in Proc \ deleted :
      thread[p] # "new" => cancelOperation[p] \/ (visible /\ p = proc)

\* Under a dialog that stays open: a copy runs only as long as the dialog is
\* shown, and ends with the one event that hides it.
DialogHoldsCopy ==
  ~dismissed =>
    /\ queue # <<>> =>
         /\ queue = <<proc>> /\ proc \notin deleted
         /\ visible /\ thread[proc] # "running"
    /\ \A p \in Proc : thread[p] = "running" =>
         /\ p = proc /\ visible /\ ~browsing /\ queue = <<>>
         /\ p \notin deleted /\ partition[p] = scans

DialogInv == DialogTypeOK /\ ProcIsStarted /\ LeftCopiesAreCancelled /\ DialogHoldsCopy
===============================================================================
