------------------------------- MODULE Messaging -------------------------------
(***************************************************************************)
(* Packets that gossipers pass on (gossiper/Gossiper.go): private          *)
(* messages, data requests, data replies and search replies, one hop at a  *)
(* time along next hops that rumors change in the meantime, and the simple *)
(* messages of the -simple mode, which everyone passes on to everyone.     *)
(*                                                                         *)
(* An action is one turn of a message processor.  Any packet may be lost,  *)
(* late, overtaken or doubled.  Each client's message is sent once.        *)
(***************************************************************************)
EXTENDS RumorRouting, Sequences, FiniteSets

CONSTANTS InitialPeers,  \* the -peers argument of each gossiper
          SimpleMode,    \* the gossipers started with -simple
          HopLimit,      \* DefaultHopLimit
          Message,       \* what clients and search requests make gossipers send
          MaxIssued,     \* bound: rumors a gossiper issues
          Doublings      \* bound: how many packets of each kind the network doubles

Kinds == {"private", "dataRequest", "dataReply", "searchReply", "simple"}

ASSUME TopologyAssumption ==
  InitialPeers \in [Gossiper -> SUBSET Gossiper] /\ SimpleMode \subseteq Gossiper
ASSUME LimitAssumption ==
  HopLimit \in Nat /\ MaxIssued \in [Gossiper -> Nat]
ASSUME DoublingsAssumption ==
  Doublings \subseteq [Kinds -> Nat] /\ [k \in Kinds |-> 0] \in Doublings
ASSUME MessageAssumption ==
  Message \subseteq [kind : Kinds \ {"dataReply"}, origin : Gossiper, dst : Gossiper]
ASSUME NoHopAssumption == NoHop \notin Gossiper

VARIABLES peers,  \* Gossiper.peers
          inbox,  \* MessageStorage.PrivateMessages
          asked,  \* the messages sent so far
          shown,  \* how often each gossiper got a copy of a simple message (2: or more)
          net,    \* packets in flight
          doubled \* how many packets of each kind the network doubled

vars == <<clock, nextHop, peers, inbox, asked, shown, net, doubled>>

\* copy and via are history: which copy of the message this is, numbered in the
\* order in which the network made them, and who sent it on, and how far with the
\* destination's rumors it was.
Copy == {n["simple"] : n \in Doublings}
Routed ==
  [kind : Kinds \ {"simple"}, origin : Gossiper, dst : Gossiper, copy : Nat,
   hop : 0..HopLimit, src : Gossiper, at : Gossiper, via : SUBSET (Gossiper \X Nat)]
Simple ==
  [kind : {"simple"}, origin : Gossiper, copy : Copy, src : Gossiper, at : Gossiper]

TypeOK ==
  /\ clock \in [Gossiper -> [Gossiper -> Nat]]
  /\ nextHop \in [Gossiper -> [Gossiper -> Gossiper \cup {NoHop}]]
  /\ peers \in [Gossiper -> SUBSET Gossiper]
  /\ inbox \in [Gossiper -> Seq(Message)]
  /\ asked \subseteq Message
  /\ shown \in [Gossiper -> [Gossiper -> [Copy -> 0..2]]]
  /\ net \subseteq Routed \cup Simple
  /\ doubled \in Doublings

Init ==
  /\ RoutesInit
  /\ peers = InitialPeers
  /\ inbox = [g \in Gossiper |-> <<>>]
  /\ asked = {}
  /\ shown = [g \in Gossiper |-> [o \in Gossiper |-> [k \in Copy |-> 0]]]
  /\ net = {}
  /\ doubled = [k \in Kinds |-> 0]

-----------------------------------------------------------------------------
\* Rumors, seen from here

\* Nobody issues rumors in simple mode.
Issue(g) ==
  /\ g \notin SimpleMode
  /\ clock[g][g] < MaxIssued[g]
  /\ IssueRumor(g)
  /\ UNCHANGED <<peers, inbox, asked, shown, net, doubled>>

Hear(g, p, o) ==
  /\ g \in peers[p]
  /\ HearRumor(g, p, o)
  /\ peers' = [peers EXCEPT ![g] = @ \cup {p}]
  /\ UNCHANGED <<inbox, asked, shown, net, doubled>>

-----------------------------------------------------------------------------
\* Packets for one gossiper

Packet(kind, o, d, k) ==
  [kind |-> kind, origin |-> o, dst |-> d, copy |-> k, hop |-> HopLimit,
   src |-> o, at |-> o, via |-> {}]

\* Mutated: without a route, any peer will do.
ToNextHopOrAnyone(g, m) ==
  {[m EXCEPT !.src = g, !.at = p, !.via = @ \cup {<<g, clock[g][m.dst]>>}] :
     p \in IF nextHop[g][m.dst] = NoHop THEN peers[g] ELSE {nextHop[g][m.dst]}}

\* sendPacketWithNextHop: nothing is sent without a route.
ToNextHop(g, m) ==
  {[m EXCEPT !.src = g, !.at = p, !.via = @ \cup {<<g, clock[g][m.dst]>>}] :
     p \in {nextHop[g][m.dst]} \ {NoHop}}

\* Mutated: the limit is counted down and not checked.
PassOnUnlimited(g, m) == ToNextHop(g, [m EXCEPT !.hop = @ - 1])

\* What the four handlers do with a packet for somebody else
PassOn(g, m) == IF m.hop = 0 THEN {} ELSE ToNextHop(g, [m EXCEPT !.hop = @ - 1])

FirstAsked(c) == c \notin asked /\ asked' = asked \cup {c}

\* A private message passes through the same function at its origin, which counts
\* as a hop, and may be for the origin itself.
ClientPrivate(c) ==
  /\ c.kind = "private"
  /\ FirstAsked(c)
  /\ IF c.dst = c.origin
     THEN inbox' = [inbox EXCEPT ![c.dst] = Append(@, c)] /\ UNCHANGED net
     ELSE net' = net \cup PassOn(c.origin, Packet(c.kind, c.origin, c.dst, 0)) /\ UNCHANGED inbox
  /\ UNCHANGED <<routes, peers, shown, doubled>>

\* The first packet of a download, or the reply to a search request: the origin
\* does not count as a hop.
SendRouted(c) ==
  /\ c.kind \in {"dataRequest", "searchReply"}
  /\ FirstAsked(c)
  /\ net' = net \cup ToNextHop(c.origin, Packet(c.kind, c.origin, c.dst, 0))
  /\ UNCHANGED <<routes, peers, inbox, shown, doubled>>

\* UpdatePeersIfNeeded
Receive(g, m) ==
  /\ m.at = g
  /\ peers' = [peers EXCEPT ![g] = @ \cup {m.src}]

\* Mutated: every gossiper on the way keeps what it can read.
ForwardAndKeep(g, m) ==
  /\ Receive(g, m)
  /\ m.kind # "simple" /\ m.dst # g
  /\ net' = (net \ {m}) \cup PassOn(g, m)
  /\ inbox' = IF m.kind = "private"
              THEN [inbox EXCEPT ![g] = Append(@, [kind |-> "private", origin |-> m.origin, dst |-> m.dst])]
              ELSE inbox
  /\ UNCHANGED <<routes, asked, shown, doubled>>

Forward(g, m) ==
  /\ Receive(g, m)
  /\ m.kind # "simple" /\ m.dst # g
  /\ net' = (net \ {m}) \cup PassOn(g, m)
  /\ UNCHANGED <<routes, inbox, asked, shown, doubled>>

AddPrivateMessage(g, m) ==
  /\ Receive(g, m)
  /\ m.kind = "private" /\ m.dst = g
  /\ inbox' = [inbox EXCEPT ![g] = Append(@, [kind |-> m.kind, origin |-> m.origin, dst |-> g])]
  /\ net' = net \ {m}
  /\ UNCHANGED <<routes, asked, shown, doubled>>

\* The data is there, or it is not.
AnswerDataRequest(g, m) ==
  /\ Receive(g, m)
  /\ m.kind = "dataRequest" /\ m.dst = g
  /\ \/ net' = (net \ {m}) \cup ToNextHop(g, Packet("dataReply", g, m.origin, m.copy))
     \/ net' = net \ {m}
  /\ UNCHANGED <<routes, inbox, asked, shown, doubled>>

\* What becomes of it there is the part of FileDownload and FileSearch.
TakeReply(g, m) ==
  /\ Receive(g, m)
  /\ m.kind \in {"dataReply", "searchReply"} /\ m.dst = g
  /\ net' = net \ {m}
  /\ UNCHANGED <<routes, inbox, asked, shown, doubled>>

-----------------------------------------------------------------------------
\* Simple messages

\* Mutated: back to where it came from, too.
CopiesToAll(g, o, k, known, from) ==
  {[kind |-> "simple", origin |-> o, copy |-> k, src |-> g, at |-> p] : p \in known}

\* processAddressedSimpleMessage: a copy for every peer but the one it came from;
\* nothing is remembered of it.
Copies(g, o, k, known, from) ==
  {[kind |-> "simple", origin |-> o, copy |-> k, src |-> g, at |-> p] : p \in known \ from}

ClientSimple(c) ==
  /\ c.kind = "simple" /\ c.origin \in SimpleMode
  /\ FirstAsked(c)
  /\ net' = net \cup Copies(c.origin, c.origin, 0, peers[c.origin], {})
  /\ UNCHANGED <<routes, peers, inbox, shown, doubled>>

ReceiveSimple(g, m) ==
  /\ Receive(g, m)
  /\ m.kind = "simple"
  /\ shown' = [shown EXCEPT ![g][m.origin][m.copy] = IF @ < 2 THEN @ + 1 ELSE @]
  /\ net' = (net \ {m}) \cup Copies(g, m.origin, m.copy, peers'[g], {m.src})
  /\ UNCHANGED <<routes, inbox, asked, doubled>>

-----------------------------------------------------------------------------
\* The network

Lose(m) ==
  /\ net' = net \ {m}
  /\ UNCHANGED <<routes, peers, inbox, asked, shown, doubled>>

\* A data reply has the number of the request it answers, so that the two kinds
\* are counted together.
Series(m) == IF m.kind = "dataReply" THEN "dataRequest" ELSE m.kind

\* UDP delivers a datagram twice, and each takes its own way from here.
Double(m) ==
  /\ doubled' = [doubled EXCEPT ![Series(m)] = @ + 1]
  /\ doubled' \in Doublings
  /\ net' = net \cup {[m EXCEPT !.copy = doubled'[Series(m)]]}
  /\ UNCHANGED <<routes, peers, inbox, asked, shown>>

Next ==
  \/ \E g \in Gossiper : Issue(g)
  \/ \E g, p, o \in Gossiper : Hear(g, p, o)
  \/ \E c \in Message : ClientPrivate(c) \/ SendRouted(c) \/ ClientSimple(c)
  \/ \E g \in Gossiper : \E m \in net :
       \/ Forward(g, m) \/ AddPrivateMessage(g, m) \/ AnswerDataRequest(g, m)
       \/ TakeReply(g, m) \/ ReceiveSimple(g, m)
  \/ \E m \in net : Lose(m) \/ Double(m)

Spec == Init /\ [][Next]_vars

-----------------------------------------------------------------------------
(***************************************************************************)
(* A packet is never stranded: whoever gets one for somebody else has a    *)
(* next hop for it, however the routes changed since it was sent           *)
(* (sendPacketWithNextHop, updateNextHop).                                 *)
(***************************************************************************)
ForwardersKnowTheWay ==
  \A m \in net : m.kind # "simple" /\ m.at # m.dst => nextHop[m.at][m.dst] # NoHop

(***************************************************************************)
(* A packet does not circle: it comes back to a gossiper only if this one  *)
(* has heard a newer rumor of the destination since it sent the packet on. *)
(* Routes change while the packet travels, so that it may follow a bit of  *)
(* each of several routes (updateNextHop for new rumors only).             *)
(***************************************************************************)
ComesBackOnlyWithNews ==
  \A m \in net : m.kind # "simple" =>
    \A v \in m.via : v[1] = m.at => clock[m.at][m.dst] > v[2]

\* What SimpleShownOnce is meant for: links between gossipers, known from the
\* command line, are the only ones there ever are; each link of one in simple mode
\* is the only one between its two sides, and leads to another in simple mode; and
\* a client has one simple message to send.
Linked(p, q) == q \in InitialPeers[p] \/ p \in InitialPeers[q]

OnlyLink(S, p, q) ==
  /\ p \notin S /\ q \in S
  /\ \A x \in S, y \in Gossiper \ S : Linked(x, y) => x = q /\ y = p

SimpleNetsAreTrees ==
  \A p \in SimpleMode, q \in Gossiper : Linked(p, q) =>
    q \in SimpleMode /\ \E S \in SUBSET Gossiper : OnlyLink(S, p, q)

OneSimpleEach ==
  \A c1, c2 \in Message :
    c1.kind = "simple" /\ c2.kind = "simple" /\ c1.origin = c2.origin => c1 = c2

(***************************************************************************)
(* A network in simple mode that has no cycle shows a message once to each *)
(* gossiper and never to its author, although nobody remembers it; once    *)
(* more, but no more than that, for each time that UDP doubled one of its  *)
(* packets on the way (processAddressedSimpleMessage).                     *)
(***************************************************************************)
SimpleShownOnce ==
  \A g, o \in Gossiper, k \in Copy : shown[g][o][k] <= IF g = o THEN 0 ELSE 1

(***************************************************************************)
(* From end to end a private message arrives only where it was sent, and   *)
(* once, or once for each copy if UDP doubled it on the way: no gossiper   *)
(* repeats it or keeps it while it passes it on, and none tells a copy     *)
(* from the first (processPrivateMessage, AddPrivateMessage).              *)
(***************************************************************************)
Privates == {c \in Message : c.kind = "private"}
EndToEnd ==
  {<<[kind |-> m.kind, origin |-> m.origin, dst |-> m.dst], m.copy>> :
     m \in {n \in net : n.kind = "private"}}
ReceiverOf(m) == m.dst

Delivery ==
  INSTANCE PrivateDelivery WITH
    Node <- Gossiper, Message <- Privates, Receiver <- ReceiverOf,
    inFlight <- EndToEnd, sent <- asked \cap Privates, arrived <- inbox,
    doubled <- doubled["private"]

ImplementsDelivery == Delivery!Spec
===============================================================================
