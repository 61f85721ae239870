---------------------------- MODULE PrivateDelivery ----------------------------
(***************************************************************************)
(* What private messages promise from end to end: what arrives was sent to *)
(* this gossiper, and arrives once for every copy of it that the network   *)
(* made.  A copy may be lost or overtaken.  No hops, no routes.            *)
(***************************************************************************)
EXTENDS Naturals, Sequences

CONSTANTS Node, Message, Receiver(_)

VARIABLES inFlight,  \* copies <<m, k>> that neither were lost nor arrived
          sent,      \* messages sent so far
          arrived,   \* arrived[n]: the messages n got, in the order of arrival
          doubled    \* how many copies the network made; they are numbered

vars == <<inFlight, sent, arrived, doubled>>

Init == inFlight = {} /\ sent = {} /\ arrived = [n \in Node |-> <<>>] /\ doubled = 0

Delivered(m) == arrived' = [arrived EXCEPT ![Receiver(m)] = Append(@, m)]

Send(m) ==
  /\ m \notin sent
  /\ sent' = sent \cup {m}
  /\ \/ inFlight' = inFlight \cup {<<m, 0>>} /\ UNCHANGED arrived
     \/ UNCHANGED <<inFlight, arrived>>
     \/ Delivered(m) /\ UNCHANGED inFlight
  /\ UNCHANGED doubled

Lose(c) == inFlight' = inFlight \ {c} /\ UNCHANGED <<sent, arrived, doubled>>

Arrive(c) == inFlight' = inFlight \ {c} /\ Delivered(c[1]) /\ UNCHANGED <<sent, doubled>>

Double(c) ==
  /\ doubled' = doubled + 1
  /\ inFlight' = inFlight \cup {<<c[1], doubled'>>}
  /\ UNCHANGED <<sent, arrived>>

Next ==
  \/ \E m \in Message : Send(m)
  \/ \E c \in inFlight : Lose(c) \/ Arrive(c) \/ Double(c)

Spec == Init /\ [][Next]_vars
===============================================================================
