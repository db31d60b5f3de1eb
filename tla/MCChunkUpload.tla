--------------------------- MODULE MCChunkUpload ---------------------------
(* Small instances of ChunkUpload: two browsers that upload the same name. *)
EXTENDS ChunkUpload, TLC

CONSTANTS f1, f2, a, b, t, o1, o2

\* Two forms of one file of one chunk each.
PairFiles == f1 :> <<a>> @@ f2 :> <<b>>
PairSize == a :> 1 @@ b :> 1
\* One form of a credential file and a tool archive of two chunks.
OneForm == f1 :> <<t, a>>
OneFormSize == t :> 1 @@ a :> 2
OneOwner == f1 :> o1

TwoOwners == f1 :> o1 @@ f2 :> o2
============================================================================
