---------------------------- MODULE RumorDelivery ----------------------------
(***************************************************************************)
(* What RumorMongering promises over time: that it implements              *)
(* RumorBroadcast, and, when the scheduler, the network and the random     *)
(* choices are fair, that every rumor reaches everyone.                    *)
(***************************************************************************)
EXTENDS RumorMongering

\* Whose rumor it is and its number follow from its place in the log.
Contents(s) == [i \in DOMAIN s |-> s[i].text]

Broadcast ==
  INSTANCE RumorBroadcast WITH
    Node    <- Gossiper,
    Content <- Text,
    log     <- [p \in Gossiper |-> [q \in Gossiper |-> Contents(storage[p].rumors[q])]]

(***************************************************************************)
(* The network of gossipers implements the broadcast: every step of every  *)
(* handler stores at most one rumor at one gossiper, and it is the next    *)
(* one of its origin's log (AddRumorMessage, IsNewMessage, Diff).          *)
(***************************************************************************)
ImplementsBroadcast == Broadcast!Spec

Routing ==
  INSTANCE RumorRouting WITH
    clock <- [g \in Gossiper |-> storage[g].clock]

(***************************************************************************)
(* The next-hop table follows the vector clocks: whoever brings the next   *)
(* rumor of an origin becomes the hop to it in the same step, and nothing  *)
(* else changes a hop (updateNextHop beside AddRumorMessage).  Messaging   *)
(* is about packets over exactly these routes.                             *)
(***************************************************************************)
ImplementsRouting == Routing!RoutesSpec

-----------------------------------------------------------------------------
(***************************************************************************)
(* Fairness.  A packet in flight is read some day.  A goroutine that can   *)
(* run runs.  A packet that can be written over and over gets through some *)
(* day: each loss, each coin and each choice of a peer is independent of   *)
(* the ones before, and the anti-entropy timer never stops.                *)
(***************************************************************************)
\* A step that no client has to ask for
Unprompted(g) ==
  \/ \E m \in net : Receive(g, m)
  \/ \E d \in mongers[g] : MongerStep(g, d)
  \/ \E p \in Gossiper : AntiEntropy(g, p)

Deliver(g, p, kind) ==
  \E m \in net : m.src = g /\ m.dst = p /\ m.kind = kind /\ Receive(p, m)

GetThrough(g, p, kind) ==
  /\ Unprompted(g)
  /\ \E m \in net' \ net : m.src = g /\ m.dst = p /\ m.kind = kind

RunGoroutine(g, p, phase) ==
  \E d \in mongers[g] : d.peer = p /\ d.phase = phase /\ MongerStep(g, d)

FairSpec ==
  /\ Spec
  /\ \A g, p \in Gossiper : g # p =>
       /\ \A kind \in {"rumor", "status"} :
            SF_vars(Deliver(g, p, kind)) /\ SF_vars(GetThrough(g, p, kind))
       /\ \A phase \in {"waiting", "fired", "handed", "spreading"} :
            WF_vars(RunGoroutine(g, p, phase))

(***************************************************************************)
(* Every rumor reaches everyone, unless a message processor has blocked    *)
(* for good: again and again each gossiper holds all that the origin has   *)
(* issued.  Neither a lost packet, nor a goroutine that gives up, nor a    *)
(* status pushed to a goroutine instead of being answered can keep a rumor *)
(* from a gossiper for ever, because anti-entropy starts the exchange      *)
(* again.                                                                  *)
(***************************************************************************)
EveryRumorArrives ==
  \A o \in Gossiper : \A g \in Gossiper \ {o} :
    []<>(storage[g].clock[o] = storage[o].clock[o] \/ \E h \in Gossiper : wedged[h])

===============================================================================
