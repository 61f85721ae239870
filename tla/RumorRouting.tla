----------------------------- MODULE RumorRouting -----------------------------
(***************************************************************************)
(* How far each gossiper is with the rumors of each origin, and where it   *)
(* sends what is meant for that origin: whoever brought the newest rumor.  *)
(* RumorMongering implements it with packets and goroutines; Messaging     *)
(* sends packets along its routes while they change.                       *)
(***************************************************************************)
EXTENDS Naturals

CONSTANTS Gossiper, NoHop

VARIABLES clock,   \* clock[g][o]: how many of o's rumors g holds
          nextHop  \* nextHop[g][o]: Gossiper.nextHop

routes == <<clock, nextHop>>

RoutesInit ==
  /\ clock = [g \in Gossiper |-> [o \in Gossiper |-> 0]]
  /\ nextHop = [g \in Gossiper |-> [o \in Gossiper |-> NoHop]]

\* A rumor of g's client, or a route rumor
IssueRumor(g) ==
  /\ clock' = [clock EXCEPT ![g][g] = @ + 1]
  /\ UNCHANGED nextHop

\* Mutated: old rumors turn the next hop, too.
HearAnyRumor(g, p, o) ==
  /\ g # o
  /\ clock[p][o] > 0
  /\ clock' = [clock EXCEPT ![g][o] = IF @ < clock[p][o] THEN @ + 1 ELSE @]
  /\ nextHop' = [nextHop EXCEPT ![g][o] = p]

\* The next rumor of o that g lacks comes from p, which holds it.
HearRumor(g, p, o) ==
  /\ clock[g][o] < clock[p][o]
  /\ clock' = [clock EXCEPT ![g][o] = @ + 1]
  /\ nextHop' = [nextHop EXCEPT ![g][o] = p]

RoutesNext ==
  \E g \in Gossiper : \/ IssueRumor(g)
                      \/ \E p, o \in Gossiper : HearRumor(g, p, o)

RoutesSpec == RoutesInit /\ [][RoutesNext]_routes
===============================================================================
