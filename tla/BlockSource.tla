----------------------------- MODULE BlockSource -----------------------------
(***************************************************************************)
(* What the callers of Ext2Partition::ext2_readblock and read_inode rely   *)
(* on: a call for block b returns what the medium delivers for b, or fails *)
(* because the medium fails at b.  No cache, no inode buffer, no file      *)
(* pointer.  PartitionIO is shown to implement this specification.         *)
(***************************************************************************)
CONSTANTS
  Thread,     \* threads that call into the partition
  Block,      \* block numbers
  Bad,        \* blocks on which the medium reports a read error
  Delivered,  \* what a read of each block yields, a function on Block
  None,       \* "no block", "no result"
  Failed      \* the result of a call that returned an error

VARIABLES
  asked,      \* asked[t]: the block t's current call is about, None outside one
  got         \* got[t]: <<block, result>> of t's last completed call

vars == <<asked, got>>

Init ==
  /\ asked = [t \in Thread |-> None]
  /\ got = [t \in Thread |-> None]

Ask(t, b) ==
  /\ asked[t] = None
  /\ asked' = [asked EXCEPT ![t] = b]
  /\ UNCHANGED got

Return(t, result) ==
  /\ got' = [got EXCEPT ![t] = <<asked[t], result>>]
  /\ asked' = [asked EXCEPT ![t] = None]

Answer(t) ==
  /\ asked[t] # None
  /\ Return(t, Delivered[asked[t]])

Fail(t) ==
  /\ asked[t] \in Bad
  /\ Return(t, Failed)

Next ==
  \E t \in Thread :
    \/ \E b \in Block : Ask(t, b)
    \/ Answer(t)
    \/ Fail(t)

Spec == Init /\ [][Next]_vars
===============================================================================
