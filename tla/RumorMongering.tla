---------------------------- MODULE RumorMongering ----------------------------
(***************************************************************************)
(* A network of gossipers spreading rumors (gossiper/Gossiper.go): client  *)
(* and route rumors, rumor packets, status packets, the rumor-mongering    *)
(* goroutines with their one-second timers and coin flips, anti-entropy    *)
(* and the next-hop table that new rumors update.                          *)
(*                                                                         *)
(* Gossipers are identified with their UDP address and with their name.    *)
(* An action is one turn of the goroutine it names, from the read of its   *)
(* channel (or the firing of its timer) to the next blocking point.  UDP   *)
(* loses and reorders packets; `net' is the set of those still in flight.  *)
(***************************************************************************)
EXTENDS MessageStorage, FiniteSets

CONSTANTS Gossiper,      \* the processes
          InitialPeers,  \* the -peers argument of each gossiper
          ManualPeers,   \* pairs <<g, p>>: g may be told of p on its web page
          NoHop,         \* an absent entry of the next-hop table
          MaxIssued,     \* bound: rumors a gossiper issues for its client
          MaxInFlight,   \* bound: packets in flight, further ones are lost
          MaxOnLink,     \* bound: those of one kind from a gossiper to another
          MaxMongers     \* bound: live goroutines of a gossiper, whose message
                         \* processor waits before it starts another

ASSUME GossiperAssumption == Origin = Gossiper
ASSUME PeersAssumption ==
  /\ InitialPeers \in [Gossiper -> SUBSET Gossiper]
  /\ \A g \in Gossiper : g \notin InitialPeers[g]
  /\ ManualPeers \subseteq {gp \in Gossiper \X Gossiper : gp[1] # gp[2]}
ASSUME NoHopAssumption == NoHop \notin Gossiper
ASSUME BoundAssumption ==
  /\ MaxIssued \in [Gossiper -> Nat]
  /\ MaxInFlight \in Nat /\ MaxOnLink \in Nat /\ MaxMongers \in Nat

VARIABLES peers,     \* Gossiper.peers: the neighbours a gossiper knows
          nextHop,   \* Gossiper.nextHop: origin -> neighbour to route through
          storage,   \* Gossiper.messageStorage
          channels,  \* the keys of statusesChannels: peers a goroutine waits on
          mongers,   \* the live rumor-mongering goroutines
          wedged,    \* message-processor blocked forever in `val <- sp'
          net        \* packets in flight

vars == <<peers, nextHop, storage, channels, mongers, wedged, net>>

RumorPacket == [kind : {"rumor"}, src : Gossiper, dst : Gossiper, rumor : Rumor]
StatusPacket == [kind : {"status"}, src : Gossiper, dst : Gossiper, want : Status]
Packet == RumorPacket \cup StatusPacket

\* waiting: blocked in select.  fired: the timer case was chosen, the lock on
\* the channel map not yet taken.  handed: a status was received on the channel.
\* spreading: about to enter spreadTheRumor with this rumor and this peer.
Monger == [peer : Gossiper, rumor : Rumor, want : Status,
           phase : {"waiting", "fired", "handed", "spreading"}]

TypeOK ==
  /\ peers \in [Gossiper -> SUBSET Gossiper]
  /\ nextHop \in [Gossiper -> [Gossiper -> Gossiper \cup {NoHop}]]
  /\ storage \in [Gossiper -> Storage]
  /\ channels \in [Gossiper -> SUBSET Gossiper]
  /\ mongers \in [Gossiper -> SUBSET Monger]
  /\ wedged \in [Gossiper -> BOOLEAN]
  /\ net \subseteq Packet

Init ==
  /\ peers = InitialPeers
  /\ nextHop = [g \in Gossiper |-> [o \in Gossiper |-> NoHop]]
  /\ storage = [g \in Gossiper |-> InitMessageStorage]
  /\ channels = [g \in Gossiper |-> {}]
  /\ mongers = [g \in Gossiper |-> {}]
  /\ wedged = [g \in Gossiper |-> FALSE]
  /\ net = {}

-----------------------------------------------------------------------------
\* Packets and goroutines

RumorTo(g, p, r) == [kind |-> "rumor", src |-> g, dst |-> p, rumor |-> r]
StatusTo(g, p) ==
  [kind |-> "status", src |-> g, dst |-> p,
   want |-> GetCurrentStatusPacket(storage[g])]

Goroutine(p, r, phase) ==
  [peer |-> p, rumor |-> r, want |-> NoStatus, phase |-> phase]

Handed(d, want) ==
  [peer |-> d.peer, rumor |-> d.rumor, want |-> want, phase |-> "handed"]

\* Writes the packets ps after those of `old'; UDP may lose any of them.
Alongside(m, ms) ==
  {n \in ms : n.kind = m.kind /\ n.src = m.src /\ n.dst = m.dst}

Send(old, ps) ==
  \E kept \in SUBSET ps :
    /\ Cardinality(old \cup kept) <= MaxInFlight
    /\ \A m \in kept : Cardinality(Alongside(m, old \cup kept)) <= MaxOnLink
    /\ net' = old \cup kept

\* What a turn of g leaves: its channel map, its goroutines, the packets that
\* were in flight and are still, and the packets it writes.
Turn(cs, live, rest, out) == [cs |-> cs, live |-> live, rest |-> rest, out |-> out]

EndTurn(g, t) ==
  /\ Cardinality(t.live) <= MaxMongers
  /\ channels' = [channels EXCEPT ![g] = t.cs]
  /\ mongers' = [mongers EXCEPT ![g] = t.live]
  /\ Send(t.rest, t.out)

\* Mutated: overwrites the channel of a goroutine that waits for this peer.
SpreadOverwriting(g, r, p, t) ==
  [t EXCEPT !.cs = @ \cup {p},
            !.live = @ \cup {Goroutine(p, r, "waiting")},
            !.out = @ \cup {RumorTo(g, p, r)}]

\* spreadTheRumor: nothing happens when a goroutine already waits for this peer.
SpreadTheRumor(g, r, p, t) ==
  IF p \in t.cs
  THEN t
  ELSE [t EXCEPT !.cs = @ \cup {p},
                 !.live = @ \cup {Goroutine(p, r, "waiting")},
                 !.out = @ \cup {RumorTo(g, p, r)}]

-----------------------------------------------------------------------------
\* message-processor

\* processRumorMessage; known is g.peers at that moment
ProcessRumorMessage(g, r, known, t) ==
  /\ storage' = [storage EXCEPT ![g] = AddRumorMessage(storage[g], r)]
  /\ IF IsNewMessage(storage[g], r) /\ known # {}
     THEN \E p \in known : EndTurn(g, SpreadTheRumor(g, r, p, t))
     ELSE EndTurn(g, t)

\* A rumor (or, with NoText, a route rumor) that the client or the route-rumor
\* thread hands to the gossiper.
ClientRumor(g, x) ==
  /\ ~wedged[g]
  /\ storage[g].clock[g] < MaxIssued[g]
  /\ ProcessRumorMessage(g,
       [origin |-> g, id |-> GetNextMessageId(storage[g], g), text |-> x],
       peers[g], Turn(channels[g], mongers[g], net, {}))
  /\ UNCHANGED <<peers, nextHop, wedged>>

\* Mutated: whoever sent the last rumor, new or not.
NextHopLastHeard(g, m) == nextHop' = [nextHop EXCEPT ![g][m.rumor.origin] = m.src]

\* updateNextHop, called for new rumors only
UpdateNextHop(g, m) ==
  nextHop' = IF IsNewMessage(storage[g], m.rumor)
             THEN [nextHop EXCEPT ![g][m.rumor.origin] = m.src]
             ELSE nextHop

\* The status goes back before the rumor is stored.
ReceiveRumor(g, m) ==
  /\ ~wedged[g]
  /\ m.kind = "rumor" /\ m.dst = g
  /\ peers' = [peers EXCEPT ![g] = @ \cup {m.src}]
  /\ UpdateNextHop(g, m)
  /\ ProcessRumorMessage(g, m.rumor, peers[g] \cup {m.src},
       Turn(channels[g], mongers[g], net \ {m}, {StatusTo(g, m.src)}))
  /\ UNCHANGED wedged

InSync(g, want) ==
  DiffRumors(storage[g], want) = {} /\ ~OtherHasNew(storage[g], want)

\* Diff found nothing for the peer but the peer has something for g.
AskForMore(g, p, want, t) ==
  /\ DiffRumors(storage[g], want) = {}
  /\ OtherHasNew(storage[g], want)
  /\ EndTurn(g, [t EXCEPT !.out = @ \cup {StatusTo(g, p)}])

\* A status nobody waits for
ReceiveStatus(g, m) ==
  /\ ~wedged[g]
  /\ m.kind = "status" /\ m.dst = g
  /\ m.src \notin channels[g]
  /\ peers' = [peers EXCEPT ![g] = @ \cup {m.src}]
  /\ LET t == Turn(channels[g], mongers[g], net \ {m}, {})
     IN  \/ \E r \in DiffRumors(storage[g], m.want) :
              EndTurn(g, SpreadTheRumor(g, r, m.src, t))
         \/ AskForMore(g, m.src, m.want, t)
         \/ InSync(g, m.want) /\ EndTurn(g, t)
  /\ UNCHANGED <<nextHop, storage, wedged>>

\* A status for a goroutine blocked in select: handed over its channel, and the
\* channel leaves the map.
HandStatus(g, m) ==
  /\ ~wedged[g]
  /\ m.kind = "status" /\ m.dst = g
  /\ m.src \in channels[g]
  /\ peers' = [peers EXCEPT ![g] = @ \cup {m.src}]
  /\ \E d \in mongers[g] :
       /\ d.peer = m.src /\ d.phase = "waiting"
       /\ EndTurn(g, Turn(channels[g] \ {m.src},
                          (mongers[g] \ {d}) \cup {Handed(d, m.want)},
                          net \ {m}, {}))
  /\ UNCHANGED <<nextHop, storage, wedged>>

\* A status for a goroutine whose timer has fired: `val <- sp' has no reader
\* and the lock that goroutine now wants is held by the blocked sender.
BlockOnStatus(g, m) ==
  /\ ~wedged[g]
  /\ m.kind = "status" /\ m.dst = g
  /\ m.src \in channels[g]
  /\ \E d \in mongers[g] : d.peer = m.src /\ d.phase = "fired"
  /\ peers' = [peers EXCEPT ![g] = @ \cup {m.src}]
  /\ wedged' = [wedged EXCEPT ![g] = TRUE]
  /\ net' = net \ {m}
  /\ UNCHANGED <<nextHop, storage, channels, mongers>>

-----------------------------------------------------------------------------
\* rumor-mongering goroutines

MongerTimeout(g, d) ==
  /\ d.phase = "waiting"
  /\ mongers' = [mongers EXCEPT ![g] = (@ \ {d}) \cup {[d EXCEPT !.phase = "fired"]}]
  /\ UNCHANGED <<peers, nextHop, storage, channels, wedged, net>>

\* flipRumorMongeringCoin: d ends, or goes on to a random peer.
FlipCoin(g, d, t) ==
  \/ EndTurn(g, t)
  \/ \E p \in peers[g] :
       EndTurn(g, [t EXCEPT !.live = @ \cup {Goroutine(p, d.rumor, "spreading")}])

MongerCleanUp(g, d) ==
  /\ ~wedged[g]
  /\ d.phase = "fired"
  /\ FlipCoin(g, d, Turn(channels[g] \ {d.peer}, mongers[g] \ {d}, net, {}))
  /\ UNCHANGED <<peers, nextHop, storage, wedged>>

\* Diff takes only the lock of the storage: it runs while the processor is wedged.
MongerStatus(g, d) ==
  /\ d.phase = "handed"
  /\ LET t == Turn(channels[g], mongers[g] \ {d}, net, {})
     IN  \/ \E r \in DiffRumors(storage[g], d.want) :
              EndTurn(g, [t EXCEPT !.live = @ \cup {Goroutine(d.peer, r, "spreading")}])
         \/ AskForMore(g, d.peer, d.want, t)
         \/ InSync(g, d.want) /\ FlipCoin(g, d, t)
  /\ UNCHANGED <<peers, nextHop, storage, wedged>>

MongerSpread(g, d) ==
  /\ ~wedged[g]
  /\ d.phase = "spreading"
  /\ EndTurn(g, SpreadTheRumor(g, d.rumor, d.peer,
                               Turn(channels[g], mongers[g] \ {d}, net, {})))
  /\ UNCHANGED <<peers, nextHop, storage, wedged>>

-----------------------------------------------------------------------------
\* anti-entropy thread and web server; neither touches the channel map

AntiEntropy(g, p) ==
  /\ p \in peers[g]
  /\ Send(net, {StatusTo(g, p)})
  /\ UNCHANGED <<peers, nextHop, storage, channels, mongers, wedged>>

AddPeer(g, p) ==
  /\ <<g, p>> \in ManualPeers
  /\ peers' = [peers EXCEPT ![g] = @ \cup {p}]
  /\ UNCHANGED <<nextHop, storage, channels, mongers, wedged, net>>

Receive(g, m) ==
  ReceiveRumor(g, m) \/ ReceiveStatus(g, m) \/ HandStatus(g, m) \/ BlockOnStatus(g, m)

MongerStep(g, d) ==
  MongerTimeout(g, d) \/ MongerCleanUp(g, d) \/ MongerStatus(g, d) \/ MongerSpread(g, d)

Next ==
  \E g \in Gossiper :
    \/ \E x \in Text : ClientRumor(g, x)
    \/ \E m \in net : Receive(g, m)
    \/ \E d \in mongers[g] : MongerStep(g, d)
    \/ \E p \in Gossiper : AntiEntropy(g, p) \/ AddPeer(g, p)

Spec == Init /\ [][Next]_vars

-----------------------------------------------------------------------------
(***************************************************************************)
(* Whoever holds rumor number i of an origin holds the one that origin     *)
(* issued as number i: no gossiper ever disagrees with another about a     *)
(* rumor, whatever was lost, repeated or reordered on the way              *)
(* (AddRumorMessage, IsNewMessage and Diff together).                      *)
(***************************************************************************)
LogsArePrefixes ==
  \A g, o \in Gossiper :
    /\ Len(storage[g].rumors[o]) <= Len(storage[o].rumors[o])
    /\ \A i \in 1..Len(storage[g].rumors[o]) :
          storage[g].rumors[o][i] = storage[o].rumors[o][i]

(***************************************************************************)
(* The invariant models/MessageStorage.go states about its fields, and the *)
(* agreement of the chronological list with the lists by origin.           *)
(***************************************************************************)
StoragesConsistent == \A g \in Gossiper : StorageOK(storage[g])

(***************************************************************************)
(* A packet for a known origin that follows next hops comes out at that    *)
(* origin: every gossiper that has heard of the origin has a next hop, and *)
(* no set of gossipers routes among itself for ever (updateNextHop, called *)
(* only for new rumors; sendPacketWithNextHop).                            *)
(***************************************************************************)
RoutesReachOrigin ==
  \A o \in Gossiper :
    /\ \A g \in Gossiper \ {o} : storage[g].clock[o] > 0 => nextHop[g][o] # NoHop
    /\ \A S \in (SUBSET (Gossiper \ {o})) \ {{}} :
          \E g \in S : nextHop[g][o] \notin S

(***************************************************************************)
(* A next hop is at least as far along as the gossiper that routes through *)
(* it: what makes the routes free of loops.                                *)
(***************************************************************************)
NextHopIsFresh ==
  \A g, o, p \in Gossiper :
    nextHop[g][o] = p => storage[p].clock[o] >= storage[g].clock[o]

(***************************************************************************)
(* Each channel in statusesChannels belongs to exactly one live goroutine, *)
(* and each goroutine that can still read or must still remove a channel   *)
(* has it in the map: a status is never pushed to a dead goroutine and no  *)
(* goroutine removes another's channel (spreadTheRumor, the two deletes).  *)
(***************************************************************************)
OwnersOf(g, p) ==
  {d \in mongers[g] : d.peer = p /\ d.phase \in {"waiting", "fired"}}

ChannelsOwned ==
  \A g, p \in Gossiper :
    IF p \in channels[g]
    THEN \E d \in mongers[g] : OwnersOf(g, p) = {d}
    ELSE OwnersOf(g, p) = {}

(***************************************************************************)
(* A status, in flight or handed over, never claims a rumor its sender     *)
(* does not hold, so asking for it (OtherHasNew) is never in vain.         *)
(***************************************************************************)
Claimed(p, want) == \A o \in Origin : Held(want, o) <= storage[p].clock[o]

StatusesAreTrue ==
  /\ \A m \in net : m.kind = "status" => Claimed(m.src, m.want)
  /\ \A g \in Gossiper : \A d \in mongers[g] : Claimed(d.peer, d.want)

(***************************************************************************)
(* README.md:11 claims the goroutines are free of deadlock: the processor  *)
(* never blocks for good on a status channel.                              *)
(***************************************************************************)
NeverWedged == \A g \in Gossiper : ~wedged[g]

===============================================================================
