---------------------------- MODULE MCCopyProcess ----------------------------
(* A folder with a file, a link, a subfolder and another file; the subfolder  *)
(* has a file, an entry that read_dir cannot get past, and a file behind it.  *)
(* A file has at most three full blocks: one before, one at and one after the *)
(* block where something happens.                                             *)
EXTENDS CopyProcess, TLC

MCNode == {"top", "sub", "first", "inner", "hidden", "last", "link", "gap"}
MCKind ==
  [n \in MCNode |->
     CASE n \in {"top", "sub"} -> "folder"
       [] n = "link" -> "other"
       [] n = "gap" -> "lost"
       [] OTHER -> "file"]
MCChildren ==
  [n \in MCNode |->
     CASE n = "top" -> <<"first", "link", "sub", "last">>
       [] n = "sub" -> <<"inner", "gap", "hidden">>
       [] OTHER -> <<>>]
MCRoots == {"top", "first"}

P(blocks, extra) == [full |-> blocks, extra |-> extra]
MCPatterns ==
  {P(<<>>, "good"),                        \* smaller than a block
   P(<<"good", "good", "good">>, "none"),
   P(<<"good", "bad", "good">>, "good"),
   P(<<"good", "hole">>, "none"),
   P(<<"good">>, "bad")}
===============================================================================
