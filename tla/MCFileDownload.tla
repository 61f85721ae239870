---------------------------- MODULE MCFileDownload ----------------------------
(***************************************************************************)
(* Instances of FileDownload for TLC.  File f has three chunks, the first  *)
(* and the last the same; e shares a chunk with f; z is empty.             *)
(***************************************************************************)
EXTENDS FileDownload, TLC

CONSTANTS g1, g2, f, e, z, x, y, n1, n2

ChunksOf == [q \in File |-> IF q = f THEN <<x, y, x>>
                            ELSE IF q = e THEN <<y>> ELSE <<>>]

\* g2 downloads from g1 two files, one after the other, under one name.  g1 may
\* fail to share e: as n1, or as n2 once the oversized z has used that name up.
Pair == {<<g2, g1, n1, f>>, <<g2, g1, n1, e>>}
TwoShared == {<<g1, n1, f>>, <<g1, n1, e>>, <<g1, n2, e>>, <<g1, n2, z>>}

\* The empty file
Empty == {<<g2, g1, n1, z>>}
EmptyShared == {<<g1, n1, z>>}
===============================================================================
