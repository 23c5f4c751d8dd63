-------------------------------- MODULE MCScan --------------------------------
(***************************************************************************)
(* Disks with every kind of table, each with any one sector of it lost and *)
(* with or without one file system that does not mount; up to two disks    *)
(* attached and counted, with a third one or a gap in the numbers.  With   *)
(* two images opened the letters come round.                               *)
(***************************************************************************)
EXTENDS Scan, TLC

CONSTANTS raw, dos, zeros, stub

E(type, start) == [type |-> type, start |-> start]
L(ebr_, type, start) == [ebr |-> ebr_, type |-> type, start |-> start]
None4 == [n \in 1 .. 4 |-> E("none", 0)]
Blank == [mbr |-> "good", table |-> None4, logical |-> <<>>, back |-> 0, gpt |-> <<>>, lost |-> {}, fs |-> {}]

\* A primary partition on either side of an extended one with three logical ones.
Dos == [Blank EXCEPT
  !.table = <<E("ext2", 1), E("extended", 10), E("lvm", 40), E("ext2", 50)>>,
  !.logical = <<L(10, "ext2", 11), L(15, "lvm", 17), L(20, "ext2", 23)>>,
  !.fs = {1, 11, 23, 50}]
\* Five entries of a GUID partition table, two in a sector.
Guid == [Blank EXCEPT
  !.table[1] = E("gpt", 1),
  !.gpt = <<E("linux", 10), E("other", 20), E("none", 0), E("linux", 30), E("linux", 40)>>,
  !.fs = {10, 30, 40}]
Raw == [Blank EXCEPT !.mbr = "no flag", !.fs = {0}]

Damaged(d, sectors_) ==
  {[d EXCEPT !.lost = s, !.fs = @ \ f] :
     s \in {{}} \cup {{n} : n \in sectors_}, f \in {{}} \cup {{n} : n \in d.fs}}

DosDisks == Damaged(Dos, {10, 15, 20})
GuidDisks == Damaged(Guid, {1, 2, 3, 4})
Looped == {[Dos EXCEPT !.back = n, !.lost = s] : n \in 1 .. 3, s \in {{}, {20}}}
Unread == {[Blank EXCEPT !.mbr = m] : m \in {"unreadable", "short", "no flag"}}

MCMachines ==
  {<<>>, <<None>>, <<Guid, Dos>>, <<Guid, Dos, Dos>>, <<Dos, None, Guid>>}
  \cup {<<d>> : d \in DosDisks \cup GuidDisks \cup Looped}
  \cup {<<u, Dos>> : u \in Unread}
\* Images: a file system, a partitioned disk, neither, and one that is too short.
MCContent ==
  raw :> Raw @@ dos :> Dos @@ zeros :> [Raw EXCEPT !.fs = {}] @@ stub :> [Blank EXCEPT !.mbr = "short"]
===============================================================================
