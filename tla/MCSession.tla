------------------------------ MODULE MCSession ------------------------------
(* A GUI thread, two copies and a rescan on a partition of three blocks, two  *)
(* of them inode table blocks, one that fails; the cache holds one block.     *)
EXTENDS Session

MCBlock == 0 .. 2
MCInodeTable == {0, 1}
MCBad == {2}
MCShort == {}

\* The properties say nothing of the time after a dialog was closed.
UntilDismissed == ~dismissed
===============================================================================
