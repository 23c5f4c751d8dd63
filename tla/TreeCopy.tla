------------------------------- MODULE TreeCopy -------------------------------
(***************************************************************************)
(* What a copy of a folder tree promises: no call stack, no open files, no *)
(* listing order.  Nodes are made under nodes that were made before, files *)
(* grow by readable blocks, and the copy ends when nothing is missing that *)
(* could have been copied, unless it was cancelled or the destination is   *)
(* full.  CopyProcess is shown to implement this specification.            *)
(***************************************************************************)
EXTENDS Integers

CONSTANTS
  Node,     \* the files and folders of the source
  File,     \* those that are files
  Entries   \* Entries[d]: the files and folders that a listing of d comes to

VARIABLES
  root,     \* the node the copy was started on
  refused,  \* the nodes that cannot be made at the destination
  lengths,  \* lengths[f]: the lengths, in blocks, of the readable beginnings of f
  made,     \* the nodes that exist at the destination
  length,   \* length[f]: the length of the destination file
  broken,   \* the copy was cancelled, or the destination is full
  done

vars == <<root, refused, lengths, made, length, broken, done>>

Init ==
  /\ made = {}
  /\ length = [f \in File |-> 0]
  /\ broken = FALSE
  /\ done = FALSE

\* The nodes a copy comes to: its root, and what is in a folder that was made.
Reached == {root} \cup UNION {Entries[d] : d \in made \ File}

\* A node is made; a file starts empty.
Make(n) ==
  /\ n \in Reached \ refused
  /\ made' = made \cup {n}
  /\ length' = [f \in File |-> IF f = n THEN 0 ELSE length[f]]
  /\ UNCHANGED <<broken, done>>

Grow(f) ==
  /\ f \in made /\ length[f] + 1 \in lengths[f]
  /\ length' = [length EXCEPT ![f] = @ + 1]
  /\ UNCHANGED <<made, broken, done>>

Break ==
  /\ broken' = TRUE
  /\ UNCHANGED <<made, length, done>>

\* Nothing is missing: an unreadable block takes the rest of its file, a node
\* that cannot be made what is under it, and nothing else.
Complete ==
  /\ Reached \subseteq made \cup refused
  /\ \A f \in File \cap made : length[f] + 1 \notin lengths[f]

Finish ==
  /\ broken \/ Complete
  /\ done' = TRUE
  /\ UNCHANGED <<made, length, broken>>

Next ==
  /\ ~done
  /\ (\E n \in Node : Make(n)) \/ (\E f \in File : Grow(f)) \/ Break \/ Finish
  /\ UNCHANGED <<root, refused, lengths>>

Spec == Init /\ [][Next]_vars
===============================================================================
