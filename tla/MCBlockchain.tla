----------------------------- MODULE MCBlockchain -----------------------------
(***************************************************************************)
(* Instances of Blockchain for TLC: two gossipers that know each other, as *)
(* after the first exchange of packets.                                    *)
(***************************************************************************)
EXTENDS Blockchain, TLC

CONSTANTS g1, g2, n1, n2, n3, f1, f2

Everyone == [g \in Gossiper |-> Gossiper \ {g}]

\* Neither gossipers that all know each other nor names are told apart.
Alike == Permutations(Gossiper) \cup Permutations(Name)
===============================================================================
