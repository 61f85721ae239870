----------------------------- MODULE MCFileSearch -----------------------------
(***************************************************************************)
(* Instances of FileSearch for TLC: three gossipers, of which g1 searches  *)
(* for the only file.                                                      *)
(***************************************************************************)
EXTENDS FileSearch, TLC

CONSTANTS g1, g2, g3, f, x, n1, n2, q

ChunksOf == [file \in File |-> <<x>>]
AllNames == [query \in Query |-> Name]

\* g1 knows nobody until its user adds g2, which knows g3.
Line == (g1 :> <<>>) @@ (g2 :> <<g3>>) @@ (g3 :> <<>>)

\* g3 shares the file and has downloaded it once more under another name.
Owner == [g \in Gossiper |-> IF g = g3 THEN ShareFile(InitSharedFiles, n1, f) ELSE InitSharedFiles]
SecondCopy == [g \in Gossiper |-> [file \in File |-> IF g = g3 THEN n2 ELSE None]]
NoCopy == [g \in Gossiper |-> [file \in File |-> None]]

\* g2 is about to download the file from g3.
NoDownload == [g \in Gossiper |-> [o \in Gossiper |-> None]]
OnItsWay == [NoDownload EXCEPT ![g2][g3] = InitDownloadingFile(n2, f)]

OneSearch == {<<g1, q, 0>>}
OneDownload == {<<g1, n2>>}
OneMore == {<<g1, g2>>}
===============================================================================
