----------------------------- MODULE MCExplorer -----------------------------
(* Two partitions: one with a folder in it, one with a single file.          *)
EXTENDS Explorer, TLC

CONSTANTS disk, stick, docs, letter, note, photo

MCChildren ==
  disk :> <<docs, letter>> @@ docs :> <<note>> @@ stick :> <<photo>>
=============================================================================
