-------------------------------- MODULE MCLvm --------------------------------
(***************************************************************************)
(* Two PVs of four extents and two LVs of two extents each, in every way   *)
(* to place the second one and to cut it into one or two segments.  The    *)
(* numbers are binary; seqno has one digit or more, another number stands  *)
(* between it and the extent size or not, and the extent size has as many  *)
(* digits as parse_metadata reckons with, one less or one more.  An LV     *)
(* starts before or after the sector W / 2 of a PV.                        *)
(***************************************************************************)
EXTENDS Lvm, TLC

CONSTANTS a, b, home, data

Seg(start, count, pv, at) ==
  [start_extent |-> start, extent_count |-> count, pv |-> pv, stripe_start_extent |-> at]

OneSegment == {<<Seg(0, 2, p, at)>> : p \in {a, b}, at \in 0 .. 2}
TwoSegments ==
  {<<Seg(0, 1, p, at), Seg(1, 1, q, to)>> : p \in {a, b}, q \in {a, b}, at \in {0, 2}, to \in {0, 3}}

\* The extents of PVs that a volume takes, as <<PV, extent>>.
Taken(segs) ==
  UNION {{<<s.pv, s.stripe_start_extent + i>> : i \in 0 .. s.extent_count - 1} : s \in Range(segs)}

MCHeaders ==
  {<<<<1>>, <<1, 0, 0>>>>, <<<<1>>, <<1, 0, 0, 1>>>>, <<<<1>>, <<1, 0, 0, 0, 1>>>>,
   <<<<1>>, <<1, 0, 0, 0, 0, 1>>>>, <<<<1>>, <<1, 0>>, <<1, 0, 0, 1>>>>,
   <<<<1>>, <<1, 0, 0, 0>>, <<1, 0, 0, 1>>>>,
   <<<<1, 0>>, <<1, 0, 0, 1>>>>, <<<<1, 1, 0, 0, 1>>, <<1, 0, 0, 0>>>>}
MCMetas ==
  {m \in {[header |-> head, pvs |-> pvs, segments |-> home :> h @@ data :> d] :
            head \in MCHeaders, pvs \in {<<a>>, <<a, b>>},
            h \in OneSegment, d \in OneSegment \cup TwoSegments} :
     /\ {t[1] : t \in Taken(m.segments[home]) \cup Taken(m.segments[data])} \subseteq Range(m.pvs)
     /\ Taken(m.segments[home]) \cap Taken(m.segments[data]) = {}}

MCBase == a :> 10 @@ b :> 7
===============================================================================
