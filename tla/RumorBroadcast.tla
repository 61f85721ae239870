---------------------------- MODULE RumorBroadcast ----------------------------
(***************************************************************************)
(* What the gossipers promise together: everyone's copy of an origin's     *)
(* rumors is a prefix of the origin's own log, only ever grows, and grows  *)
(* by one rumor at a time in the order of issue.  No packets, no peers, no *)
(* goroutines.                                                             *)
(***************************************************************************)
EXTENDS Naturals, Sequences

CONSTANTS Node, Content

VARIABLE log   \* log[p][q]: the contents of q's rumors that p holds, in order

Init == log = [p \in Node |-> [q \in Node |-> <<>>]]

Broadcast(q, x) == log' = [log EXCEPT ![q][q] = Append(@, x)]

Deliver(p, q) ==
  /\ Len(log[p][q]) < Len(log[q][q])
  /\ log' = [log EXCEPT ![p][q] = Append(@, log[q][q][Len(@) + 1])]

Next == \E q \in Node :
          \/ \E x \in Content : Broadcast(q, x)
          \/ \E p \in Node : Deliver(p, q)

Spec == Init /\ [][Next]_log
===============================================================================
