---------------------------- MODULE MessagingProofs ----------------------------
(***************************************************************************)
(* Proofs about Messaging, for any number of gossipers, any peers, any     *)
(* messages and any hop limit.                                             *)
(*                                                                         *)
(* A next hop is never behind the gossiper that routes through it, and a   *)
(* gossiper has one as soon as it has heard of the origin.  So whoever     *)
(* gets a packet has heard of its destination, because the sender had.     *)
(*                                                                         *)
(* A next hop may be just as far as the gossiper that routes through it,   *)
(* and then the number of rumors does not tell that a packet will not come *)
(* back.  What does is that paths of such next hops never close: for each  *)
(* step of one there is a set of gossipers that the rest of it does not    *)
(* leave, and that does not contain where the step started.  Simple        *)
(* messages in a network without cycles are shown once by the same kind of *)
(* set: what lies behind the link a packet is on.                          *)
(***************************************************************************)
EXTENDS Messaging, TLAPS

RoutesInv ==
  /\ clock \in [Gossiper -> [Gossiper -> Nat]]
  /\ nextHop \in [Gossiper -> [Gossiper -> Gossiper \cup {NoHop}]]
  /\ \A g, o \in Gossiper : clock[g][o] <= clock[o][o]
  /\ \A o \in Gossiper : nextHop[o][o] = NoHop
  /\ \A g, o \in Gossiper : nextHop[g][o] # NoHop => /\ clock[g][o] > 0
                                                     /\ clock[nextHop[g][o]][o] >= clock[g][o]
  /\ \A o \in Gossiper : \A g \in Gossiper \ {o} : nextHop[g][o] = NoHop => clock[g][o] = 0

\* m is on its way to where it is known how to go on.
OnRoute(m) == m.kind # "simple" /\ m.at # m.dst => clock[m.at][m.dst] > 0

\* m is a client's message, if private.
Genuine(m) ==
  m.kind = "private" => [kind |-> "private", origin |-> m.origin, dst |-> m.dst] \in Message

PacketsInv == \A m \in net : OnRoute(m) /\ Genuine(m)

MInv == TypeOK /\ RoutesInv /\ PacketsInv

-----------------------------------------------------------------------------
\* Routes

(***************************************************************************)
(* Issuing a rumor puts its author further ahead of everybody.             *)
(***************************************************************************)
LEMMA IssueKeepsRoutes ==
  ASSUME RoutesInv, NEW g \in Gossiper, IssueRumor(g)
  PROVE  RoutesInv' /\ \A h, o \in Gossiper : clock'[h][o] >= clock[h][o]
<1>1. /\ clock \in [Gossiper -> [Gossiper -> Nat]]
      /\ clock' = [clock EXCEPT ![g][g] = @ + 1]
      /\ nextHop' = nextHop
  BY DEF RoutesInv, IssueRumor
<1>2. \A h, o \in Gossiper :
         /\ clock[h][o] \in Nat
         /\ clock'[h][o] = IF h = g /\ o = g THEN clock[h][o] + 1 ELSE clock[h][o]
  BY <1>1
<1>3. clock' \in [Gossiper -> [Gossiper -> Nat]]
  BY <1>1
<1>4. \A h, o \in Gossiper : clock'[h][o] <= clock'[o][o]
  BY <1>2 DEF RoutesInv
<1>5. ASSUME NEW h \in Gossiper, NEW o \in Gossiper, nextHop[h][o] # NoHop
      PROVE  clock'[h][o] > 0 /\ clock'[nextHop[h][o]][o] >= clock'[h][o]
  <2>1. /\ clock[h][o] > 0 /\ clock[nextHop[h][o]][o] >= clock[h][o]
        /\ nextHop[h][o] \in Gossiper /\ h # o
    BY <1>5 DEF RoutesInv
  <2>2. clock'[h][o] = clock[h][o] /\ clock'[nextHop[h][o]][o] >= clock[nextHop[h][o]][o]
    BY <1>2, <2>1
  <2>3. /\ clock[h][o] \in Nat /\ clock[nextHop[h][o]][o] \in Nat
        /\ clock'[nextHop[h][o]][o] \in Nat
    BY <1>2, <1>3, <2>1
  <2> QED BY <2>1, <2>2, <2>3
<1>6. \A o \in Gossiper : \A h \in Gossiper \ {o} : nextHop[h][o] = NoHop => clock'[h][o] = 0
  BY <1>2 DEF RoutesInv
<1>7. RoutesInv'
  BY <1>1, <1>3, <1>4, <1>5, <1>6 DEF RoutesInv
<1> QED BY <1>2, <1>7

(***************************************************************************)
(* The sender of a new rumor is ahead, so that it is a good next hop       *)
(* (updateNextHop).                                                        *)
(***************************************************************************)
LEMMA HearKeepsRoutes ==
  ASSUME RoutesInv, NEW g \in Gossiper, NEW p \in Gossiper, NEW o \in Gossiper,
         HearRumor(g, p, o)
  PROVE  RoutesInv' /\ \A h, q \in Gossiper : clock'[h][q] >= clock[h][q]
<1>1. /\ clock \in [Gossiper -> [Gossiper -> Nat]]
      /\ nextHop \in [Gossiper -> [Gossiper -> Gossiper \cup {NoHop}]]
      /\ clock' = [clock EXCEPT ![g][o] = @ + 1]
      /\ nextHop' = [nextHop EXCEPT ![g][o] = p]
      /\ clock[g][o] < clock[p][o]
  BY DEF RoutesInv, HearRumor
<1>2. \A h, q \in Gossiper :
         /\ clock[h][q] \in Nat
         /\ clock'[h][q] = IF h = g /\ q = o THEN clock[h][q] + 1 ELSE clock[h][q]
         /\ nextHop'[h][q] = IF h = g /\ q = o THEN p ELSE nextHop[h][q]
  BY <1>1
<1>3. g # o /\ p # g
  BY <1>1, <1>2 DEF RoutesInv
<1>4. clock[p][o] <= clock[o][o] /\ clock[g][o] + 1 <= clock[p][o]
  BY <1>1, <1>2 DEF RoutesInv
<1>5. /\ clock' \in [Gossiper -> [Gossiper -> Nat]]
      /\ nextHop' \in [Gossiper -> [Gossiper -> Gossiper \cup {NoHop}]]
  BY <1>1
<1>6. ASSUME NEW h \in Gossiper, NEW q \in Gossiper
      PROVE  clock'[h][q] <= clock'[q][q]
  <2>1. clock[h][q] <= clock[q][q] /\ clock'[q][q] = clock[q][q]
    BY <1>2, <1>3 DEF RoutesInv
  <2> QED BY <1>2, <1>4, <2>1
<1>7. \A q \in Gossiper : nextHop'[q][q] = NoHop
  BY <1>2, <1>3 DEF RoutesInv
<1>8. ASSUME NEW h \in Gossiper, NEW q \in Gossiper, nextHop'[h][q] # NoHop
      PROVE  clock'[h][q] > 0 /\ clock'[nextHop'[h][q]][q] >= clock'[h][q]
  <2>1. CASE h = g /\ q = o
    <3>1. nextHop'[h][q] = p /\ clock'[p][q] = clock[p][o] /\ clock'[h][q] = clock[g][o] + 1
      BY <1>2, <1>3, <2>1
    <3> QED BY <1>2, <1>4, <3>1
  <2>2. CASE ~(h = g /\ q = o)
    <3>1. nextHop'[h][q] = nextHop[h][q] /\ clock'[h][q] = clock[h][q]
      BY <1>2, <2>2
    <3>2. /\ clock[h][q] > 0 /\ clock[nextHop[h][q]][q] >= clock[h][q]
          /\ nextHop[h][q] \in Gossiper
      BY <1>8, <3>1 DEF RoutesInv
    <3>3. /\ clock'[nextHop[h][q]][q] >= clock[nextHop[h][q]][q]
          /\ clock[nextHop[h][q]][q] \in Nat /\ clock[h][q] \in Nat
          /\ clock'[nextHop[h][q]][q] \in Nat
      BY <1>2, <1>5, <3>2
    <3>4. \A i, j, k \in Nat : i >= j /\ j >= k => i >= k
      OBVIOUS
    <3> QED BY <3>1, <3>2, <3>3, <3>4
  <2> QED BY <2>1, <2>2
<1>9. \A q \in Gossiper : \A h \in Gossiper \ {q} : nextHop'[h][q] = NoHop => clock'[h][q] = 0
  BY <1>2, NoHopAssumption DEF RoutesInv
<1>10. RoutesInv'
  BY <1>5, <1>6, <1>7, <1>8, <1>9 DEF RoutesInv
<1> QED BY <1>2, <1>10

-----------------------------------------------------------------------------
\* Packets

(***************************************************************************)
(* What a gossiper sends to its next hop gets to one that knows the        *)
(* destination at least as well (sendPacketWithNextHop).                   *)
(***************************************************************************)
LEMMA ToNextHopOK ==
  ASSUME RoutesInv, NEW g \in Gossiper, NEW m \in Routed, Genuine(m), NEW n \in ToNextHop(g, m)
  PROVE  n \in Routed /\ OnRoute(n) /\ Genuine(n)
<1> DEFINE p == nextHop[g][m.dst]
<1>1. n = [m EXCEPT !.src = g, !.at = p, !.via = @ \cup {<<g, clock[g][m.dst]>>}] /\ p # NoHop
  BY DEF ToNextHop
<1>2. m.dst \in Gossiper /\ p \in Gossiper /\ clock[g][m.dst] \in Nat
  BY <1>1 DEF Routed, RoutesInv
<1>3. n = [kind |-> m.kind, origin |-> m.origin, dst |-> m.dst, copy |-> m.copy, hop |-> m.hop,
           src |-> g, at |-> p, via |-> m.via \cup {<<g, clock[g][m.dst]>>}]
  BY <1>1 DEF Routed
<1> HIDE DEF p
<1>4. n \in Routed
  BY <1>2, <1>3 DEF Routed
<1>5. clock[g][m.dst] > 0 /\ clock[p][m.dst] >= clock[g][m.dst] /\ clock[p][m.dst] \in Nat
  BY <1>1, <1>2 DEF RoutesInv, p
<1>6. OnRoute(n)
  BY <1>2, <1>3, <1>5 DEF OnRoute
<1>7. Genuine(n)
  BY <1>3 DEF Genuine
<1> QED BY <1>4, <1>6, <1>7

(***************************************************************************)
(* So does a packet that is passed on, one hop fewer to go.                *)
(***************************************************************************)
LEMMA PassOnOK ==
  ASSUME RoutesInv, NEW g \in Gossiper, NEW m \in Routed, Genuine(m), NEW n \in PassOn(g, m)
  PROVE  n \in Routed /\ OnRoute(n) /\ Genuine(n)
<1>1. m.hop # 0 /\ n \in ToNextHop(g, [m EXCEPT !.hop = @ - 1])
  BY DEF PassOn
<1>2. [m EXCEPT !.hop = @ - 1] = [kind |-> m.kind, origin |-> m.origin, dst |-> m.dst,
                                  copy |-> m.copy, hop |-> m.hop - 1, src |-> m.src, at |-> m.at, via |-> m.via]
  BY DEF Routed
<1>3. m.hop - 1 \in 0..HopLimit
  BY <1>1, LimitAssumption DEF Routed
<1>4. [m EXCEPT !.hop = @ - 1] \in Routed
  BY <1>2, <1>3 DEF Routed
<1>5. Genuine([m EXCEPT !.hop = @ - 1])
  BY <1>2 DEF Genuine
<1> QED BY <1>1, <1>4, <1>5, ToNextHopOK

(***************************************************************************)
(* A packet starts out well formed.                                        *)
(***************************************************************************)
LEMMA PacketOK ==
  ASSUME NEW kind \in Kinds \ {"simple"}, NEW o \in Gossiper, NEW d \in Gossiper, NEW k \in Nat
  PROVE  Packet(kind, o, d, k) \in Routed
BY LimitAssumption DEF Packet, Routed

(***************************************************************************)
(* Packets in flight stay on route while clocks grow.                      *)
(***************************************************************************)
LEMMA StillOnRoute ==
  ASSUME MInv, RoutesInv', \A h, o \in Gossiper : clock'[h][o] >= clock[h][o],
         net' \subseteq Routed \cup Simple,
         \A m \in net' \ net : m.kind # "simple" => m \in Routed /\ OnRoute(m) /\ Genuine(m)
  PROVE  PacketsInv'
<1> SUFFICES ASSUME NEW m \in net' PROVE OnRoute(m)' /\ Genuine(m)
  BY DEF PacketsInv, Genuine, OnRoute
<1>1. CASE m.kind = "simple"
  BY <1>1 DEF OnRoute, Genuine
<1>2. CASE m.kind # "simple"
  <2>1. m \in Routed
    BY <1>2 DEF Simple
  <2>2. OnRoute(m) /\ Genuine(m)
    BY <1>2 DEF MInv, PacketsInv
  <2>3. /\ m.at \in Gossiper /\ m.dst \in Gossiper
    BY <2>1 DEF Routed
  <2>4. /\ clock[m.at][m.dst] \in Nat /\ clock'[m.at][m.dst] \in Nat
        /\ clock'[m.at][m.dst] >= clock[m.at][m.dst]
    BY <2>3 DEF MInv, RoutesInv
  <2> QED BY <2>2, <2>4 DEF OnRoute
<1> QED BY <1>1, <1>2

(***************************************************************************)
(* A step that leaves the routes alone and writes only good packets keeps  *)
(* the invariant.                                                          *)
(***************************************************************************)
LEMMA QuietStep ==
  ASSUME MInv, UNCHANGED routes, NEW out,
         net' \subseteq net \cup out,
         \A n \in out : IF n.kind = "simple"
                        THEN n \in Simple
                        ELSE n \in Routed /\ OnRoute(n) /\ Genuine(n)
  PROVE  net' \subseteq Routed \cup Simple /\ RoutesInv' /\ PacketsInv'
<1>1. RoutesInv'
  BY DEF MInv, RoutesInv, routes
<1>2. net' \subseteq Routed \cup Simple
  BY DEF MInv, TypeOK
<1>3. \A h, o \in Gossiper : clock'[h][o] >= clock[h][o]
  BY DEF MInv, RoutesInv, routes
<1> QED BY <1>1, <1>2, <1>3, StillOnRoute

(***************************************************************************)
(* So does one that writes no packet.                                      *)
(***************************************************************************)
LEMMA SilentStep ==
  ASSUME MInv, UNCHANGED routes, net' \subseteq net
  PROVE  net' \subseteq Routed \cup Simple /\ RoutesInv' /\ PacketsInv'
<1>1. RoutesInv'
  BY DEF MInv, RoutesInv, routes
<1>2. net' \subseteq Routed \cup Simple
  BY DEF MInv, TypeOK
<1>3. PacketsInv'
  BY DEF MInv, PacketsInv, OnRoute, Genuine, routes
<1> QED BY <1>1, <1>2, <1>3

-----------------------------------------------------------------------------
\* Handlers

(***************************************************************************)
(* A gossiper learns a sender's address (UpdatePeersIfNeeded).             *)
(***************************************************************************)
LEMMA PeersOK ==
  ASSUME MInv, NEW g \in Gossiper, NEW m \in net, Receive(g, m)
  PROVE  /\ peers' \in [Gossiper -> SUBSET Gossiper]
         /\ m.src \in Gossiper /\ m.at = g
         /\ m.kind # "simple" => m \in Routed /\ Genuine(m)
         /\ m.kind = "simple" => m \in Simple
<1>1. m \in Routed \cup Simple /\ peers \in [Gossiper -> SUBSET Gossiper]
  BY DEF MInv, TypeOK
<1>2. m.src \in Gossiper
  BY <1>1 DEF Routed, Simple
<1>3. peers' \in [Gossiper -> SUBSET Gossiper]
  BY <1>1, <1>2 DEF Receive
<1>4. m.kind # "simple" => m \in Routed
  BY <1>1 DEF Simple
<1>5. m.kind = "simple" => m \in Simple
  BY <1>1 DEF Routed
<1> QED BY <1>2, <1>3, <1>4, <1>5 DEF Receive, MInv, PacketsInv

(***************************************************************************)
(* Rumors                                                                  *)
(***************************************************************************)
LEMMA RumorOK ==
  ASSUME MInv, NEW g \in Gossiper, NEW p \in Gossiper, NEW o \in Gossiper,
         Issue(g) \/ Hear(g, p, o)
  PROVE  MInv'
<1>1. RoutesInv' /\ \A h, q \in Gossiper : clock'[h][q] >= clock[h][q]
  BY IssueKeepsRoutes, HearKeepsRoutes DEF MInv, Issue, Hear
<1>2. UNCHANGED <<net, inbox, asked, shown, doubled>>
  BY DEF Issue, Hear
<1>3. peers' \in [Gossiper -> SUBSET Gossiper]
  <2>1. peers \in [Gossiper -> SUBSET Gossiper]
    BY DEF MInv, TypeOK
  <2>2. peers' = peers \/ peers' = [peers EXCEPT ![g] = @ \cup {p}]
    BY DEF Issue, Hear
  <2> QED BY <2>1, <2>2
<1>4. TypeOK'
  BY <1>1, <1>2, <1>3 DEF MInv, TypeOK, RoutesInv
<1>5. net' \subseteq Routed \cup Simple
  BY <1>2 DEF MInv, TypeOK
<1>6. PacketsInv'
  BY <1>1, <1>2, <1>5, StillOnRoute
<1> QED BY <1>1, <1>4, <1>6 DEF MInv

(***************************************************************************)
(* Packets are numbered from 0, the one that a gossiper sends first.       *)
(***************************************************************************)
LEMMA CopyNumbers == 0 \in Copy /\ Copy \subseteq Nat
BY DoublingsAssumption DEF Copy, Kinds

(***************************************************************************)
(* What a client or a search request makes a gossiper send                 *)
(***************************************************************************)
LEMMA AskOK ==
  ASSUME MInv, NEW c \in Message, ClientPrivate(c) \/ SendRouted(c) \/ ClientSimple(c)
  PROVE  MInv'
<1>1. c.origin \in Gossiper /\ c.dst \in Gossiper /\ c = [kind |-> c.kind, origin |-> c.origin, dst |-> c.dst]
  BY MessageAssumption
<1>2. UNCHANGED <<routes, peers, shown, doubled>> /\ asked' = asked \cup {c}
  BY DEF ClientPrivate, SendRouted, ClientSimple, FirstAsked
<1>3. inbox' \in [Gossiper -> Seq(Message)]
  <2>1. inbox \in [Gossiper -> Seq(Message)]
    BY DEF MInv, TypeOK
  <2>2. CASE inbox' = inbox
    BY <2>1, <2>2
  <2>3. CASE inbox' = [inbox EXCEPT ![c.dst] = Append(@, c)]
    BY <1>1, <2>1, <2>3
  <2> QED BY <2>2, <2>3 DEF ClientPrivate, SendRouted, ClientSimple
<1>4. net' \subseteq Routed \cup Simple /\ RoutesInv' /\ PacketsInv'
  <2>1. CASE ClientPrivate(c)
    <3> DEFINE q == Packet(c.kind, c.origin, c.dst, 0)
    <3>1. c.kind = "private" /\ net' \subseteq net \cup PassOn(c.origin, q)
      BY <2>1 DEF ClientPrivate
    <3>2. q \in Routed /\ Genuine(q)
      BY <1>1, <3>1, PacketOK DEF Kinds, Genuine, Packet
    <3>3. \A n \in PassOn(c.origin, q) : n \in Routed /\ OnRoute(n) /\ Genuine(n)
      BY <1>1, <3>2, PassOnOK DEF MInv
    <3>4. \A n \in Routed : n.kind # "simple"
      BY DEF Routed
    <3> QED BY <1>2, <3>1, <3>3, <3>4, QuietStep
  <2>2. CASE SendRouted(c)
    <3> DEFINE q == Packet(c.kind, c.origin, c.dst, 0)
    <3>1. c.kind \in {"dataRequest", "searchReply"} /\ net' = net \cup ToNextHop(c.origin, q)
      BY <2>2 DEF SendRouted
    <3>2. q \in Routed /\ Genuine(q)
      BY <1>1, <3>1, PacketOK DEF Kinds, Genuine, Packet
    <3>3. \A n \in ToNextHop(c.origin, q) : n \in Routed /\ OnRoute(n) /\ Genuine(n)
      BY <1>1, <3>2, ToNextHopOK DEF MInv
    <3>4. \A n \in Routed : n.kind # "simple"
      BY DEF Routed
    <3> QED BY <1>2, <3>1, <3>3, <3>4, QuietStep
  <2>3. CASE ClientSimple(c)
    <3> DEFINE out == Copies(c.origin, c.origin, 0, peers[c.origin], {})
    <3>1. net' = net \cup out
      BY <2>3 DEF ClientSimple
    <3>2. \A n \in out : n \in Simple /\ n.kind = "simple"
      BY <1>1, CopyNumbers DEF Copies, Simple, MInv, TypeOK
    <3> QED BY <1>2, <3>1, <3>2, QuietStep
  <2> QED BY <2>1, <2>2, <2>3
<1>5. TypeOK'
  BY <1>2, <1>3, <1>4 DEF MInv, TypeOK, RoutesInv
<1> QED BY <1>4, <1>5 DEF MInv

(***************************************************************************)
(* What a gossiper does with a packet it gets                              *)
(***************************************************************************)
LEMMA HandleOK ==
  ASSUME MInv, NEW g \in Gossiper, NEW m \in net,
         \/ Forward(g, m) \/ AddPrivateMessage(g, m) \/ AnswerDataRequest(g, m)
         \/ TakeReply(g, m) \/ ReceiveSimple(g, m)
  PROVE  MInv'
<1>1. /\ peers' \in [Gossiper -> SUBSET Gossiper]
      /\ m.src \in Gossiper /\ m.at = g
      /\ m.kind # "simple" => m \in Routed /\ Genuine(m)
      /\ m.kind = "simple" => m \in Simple
  BY PeersOK DEF Forward, AddPrivateMessage, AnswerDataRequest, TakeReply, ReceiveSimple
<1>2. UNCHANGED <<routes, asked, doubled>>
  BY DEF Forward, AddPrivateMessage, AnswerDataRequest, TakeReply, ReceiveSimple
<1>3. inbox' \in [Gossiper -> Seq(Message)]
  <2>1. CASE AddPrivateMessage(g, m)
    <3>1. [kind |-> m.kind, origin |-> m.origin, dst |-> g] \in Message
      BY <1>1, <2>1 DEF AddPrivateMessage, Genuine
    <3> QED BY <2>1, <3>1 DEF AddPrivateMessage, MInv, TypeOK
  <2>2. CASE ~AddPrivateMessage(g, m)
    BY <2>2 DEF Forward, AnswerDataRequest, TakeReply, ReceiveSimple, MInv, TypeOK
  <2> QED BY <2>1, <2>2
<1>4. shown' \in [Gossiper -> [Gossiper -> [Copy -> 0..2]]]
  <2>1. CASE ReceiveSimple(g, m)
    <3>1. m.origin \in Gossiper /\ m.copy \in Copy
      BY <1>1, <2>1 DEF ReceiveSimple, Simple
    <3>2. shown \in [Gossiper -> [Gossiper -> [Copy -> 0..2]]]
      BY DEF MInv, TypeOK
    <3>3. (IF shown[g][m.origin][m.copy] < 2 THEN shown[g][m.origin][m.copy] + 1
           ELSE shown[g][m.origin][m.copy]) \in 0..2
      BY <3>1, <3>2
    <3> QED BY <2>1, <3>1, <3>2, <3>3 DEF ReceiveSimple
  <2>2. CASE ~ReceiveSimple(g, m)
    BY <2>2 DEF Forward, AddPrivateMessage, AnswerDataRequest, TakeReply, MInv, TypeOK
  <2> QED BY <2>1, <2>2
<1>5. net' \subseteq Routed \cup Simple /\ RoutesInv' /\ PacketsInv'
  <2>0. \A n \in Routed : n.kind # "simple"
    BY DEF Routed
  <2>1. CASE Forward(g, m)
    <3>1. m.kind # "simple" /\ net' \subseteq net \cup PassOn(g, m)
      BY <2>1 DEF Forward
    <3>2. \A n \in PassOn(g, m) : n \in Routed /\ OnRoute(n) /\ Genuine(n)
      BY <1>1, <3>1, PassOnOK DEF MInv
    <3> QED BY <1>2, <2>0, <3>1, <3>2, QuietStep
  <2>2. CASE AddPrivateMessage(g, m) \/ TakeReply(g, m)
    <3>1. net' \subseteq net
      BY <2>2 DEF AddPrivateMessage, TakeReply
    <3> QED BY <1>2, <3>1, SilentStep
  <2>3. CASE AnswerDataRequest(g, m)
    <3> DEFINE q == Packet("dataReply", g, m.origin, m.copy)
    <3>1. m.kind = "dataRequest" /\ net' \subseteq net \cup ToNextHop(g, q)
      BY <2>3 DEF AnswerDataRequest
    <3>2. q \in Routed /\ Genuine(q)
      BY <1>1, <3>1, PacketOK DEF Kinds, Genuine, Packet, Routed
    <3>3. \A n \in ToNextHop(g, q) : n \in Routed /\ OnRoute(n) /\ Genuine(n)
      BY <3>2, ToNextHopOK DEF MInv
    <3> QED BY <1>2, <2>0, <3>1, <3>3, QuietStep
  <2>4. CASE ReceiveSimple(g, m)
    <3> DEFINE out == Copies(g, m.origin, m.copy, peers'[g], {m.src})
    <3>1. m.kind = "simple" /\ net' \subseteq net \cup out
      BY <2>4 DEF ReceiveSimple
    <3>2. \A n \in out : n \in Simple /\ n.kind = "simple"
      BY <1>1, <3>1 DEF Copies, Simple
    <3> QED BY <1>2, <3>1, <3>2, QuietStep
  <2> QED BY <2>1, <2>2, <2>3, <2>4
<1>6. TypeOK'
  BY <1>1, <1>2, <1>3, <1>4, <1>5 DEF MInv, TypeOK, RoutesInv
<1> QED BY <1>5, <1>6 DEF MInv

-----------------------------------------------------------------------------
\* Doubled packets

\* n is m but for its number, k.
IsCopy(n, m, k) ==
  /\ n.copy = k /\ n.kind = m.kind /\ n.origin = m.origin /\ n.src = m.src /\ n.at = m.at
  /\ IF m.kind = "simple" THEN n \in Simple
                          ELSE n \in Routed /\ n.dst = m.dst /\ n.via = m.via

(***************************************************************************)
(* The network adds one packet, which differs from the one it doubles in   *)
(* the number alone, and counts it.                                        *)
(***************************************************************************)
LEMMA DoubleMakes ==
  ASSUME MInv, NEW m \in net, Double(m)
  PROVE  /\ doubled \in [Kinds -> Nat] /\ doubled' \in Doublings /\ Series(m) \in Kinds
         /\ m.kind \in {"private", "simple"} => Series(m) = m.kind
         /\ m.kind \notin {"private", "simple"} => Series(m) \notin {"private", "simple"}
         /\ \A k \in Kinds : doubled'[k] = IF k = Series(m) THEN doubled[k] + 1 ELSE doubled[k]
         /\ \E n : net' = net \cup {n} /\ IsCopy(n, m, doubled'[Series(m)])
<1> DEFINE k == doubled'[Series(m)]
           n == [m EXCEPT !.copy = k]
<1>1. m \in Routed \cup Simple /\ doubled \in [Kinds -> Nat]
  BY DoublingsAssumption DEF MInv, TypeOK
<1>2. /\ Series(m) \in Kinds
      /\ m.kind \in {"private", "simple"} => Series(m) = m.kind
      /\ m.kind \notin {"private", "simple"} => Series(m) \notin {"private", "simple"}
  BY <1>1 DEF Series, Routed, Simple, Kinds
<1>3. /\ doubled' = [doubled EXCEPT ![Series(m)] = @ + 1] /\ doubled' \in Doublings
      /\ net' = net \cup {n}
  BY DEF Double
<1>4. k \in Nat /\ (m.kind = "simple" => k \in Copy)
  <2>1. doubled' \in [Kinds -> Nat]
    BY <1>3, DoublingsAssumption
  <2> QED BY <1>2, <1>3, <2>1 DEF Copy
<1> HIDE DEF k
<1>5. CASE m.kind = "simple"
  <2>1. m \in Simple
    BY <1>1, <1>5 DEF Routed
  <2>2. n = [kind |-> m.kind, origin |-> m.origin, copy |-> k, src |-> m.src, at |-> m.at]
    BY <2>1 DEF Simple
  <2>3. IsCopy(n, m, k)
    BY <1>4, <1>5, <2>1, <2>2 DEF IsCopy, Simple
  <2> QED BY <1>1, <1>2, <1>3, <2>3 DEF k
<1>6. CASE m.kind # "simple"
  <2>1. m \in Routed
    BY <1>1, <1>6 DEF Simple
  <2>2. n = [kind |-> m.kind, origin |-> m.origin, dst |-> m.dst, copy |-> k, hop |-> m.hop,
             src |-> m.src, at |-> m.at, via |-> m.via]
    BY <2>1 DEF Routed
  <2>3. IsCopy(n, m, k)
    BY <1>4, <1>6, <2>1, <2>2 DEF IsCopy, Routed
  <2> QED BY <1>1, <1>2, <1>3, <2>3 DEF k
<1> QED BY <1>5, <1>6

(***************************************************************************)
(* A packet that the network doubled is on its way as the first one was.   *)
(***************************************************************************)
LEMMA DoubleOK ==
  ASSUME MInv, NEW m \in net, Double(m)
  PROVE  MInv'
<1>1. PICK n : net' = net \cup {n} /\ IsCopy(n, m, doubled'[Series(m)])
  BY DoubleMakes
<1>2. UNCHANGED <<routes, peers, inbox, asked, shown>> /\ doubled' \in Doublings
  BY DEF Double
<1>3. n.kind # "simple" => OnRoute(n) /\ Genuine(n)
  BY <1>1 DEF IsCopy, MInv, PacketsInv, OnRoute, Genuine
<1>4. net' \subseteq Routed \cup Simple /\ RoutesInv' /\ PacketsInv'
  <2> DEFINE out == {n}
  <2>1. \A i \in out : IF i.kind = "simple" THEN i \in Simple
                       ELSE i \in Routed /\ OnRoute(i) /\ Genuine(i)
    BY <1>1, <1>3 DEF IsCopy
  <2>2. net' \subseteq net \cup out
    BY <1>1
  <2> HIDE DEF out
  <2> QED BY <1>2, <2>1, <2>2, QuietStep
<1> QED BY <1>2, <1>4 DEF MInv, TypeOK, RoutesInv

-----------------------------------------------------------------------------
(***************************************************************************)
(* Gossipers that just started have no routes and no packets.              *)
(***************************************************************************)
LEMMA InitOK == Init => MInv
<1> SUFFICES ASSUME Init PROVE MInv
  OBVIOUS
<1> USE DEF Init, RoutesInit
<1>1. \A g, o \in Gossiper : clock[g][o] = 0 /\ nextHop[g][o] = NoHop
  OBVIOUS
<1>2. RoutesInv
  BY <1>1 DEF RoutesInv
<1>3. TypeOK
  BY TopologyAssumption, DoublingsAssumption DEF TypeOK
<1>4. PacketsInv
  BY DEF PacketsInv
<1> QED BY <1>2, <1>3, <1>4 DEF MInv

(***************************************************************************)
(* Every step keeps the invariant.                                         *)
(***************************************************************************)
LEMMA StepOK == MInv /\ [Next]_vars => MInv'
<1> SUFFICES ASSUME MInv, [Next]_vars PROVE MInv'
  OBVIOUS
<1>1. CASE UNCHANGED vars
  BY <1>1 DEF vars, MInv, TypeOK, RoutesInv, PacketsInv, OnRoute
<1>2. ASSUME NEW g \in Gossiper, Issue(g) \/ \E p, o \in Gossiper : Hear(g, p, o)
      PROVE  MInv'
  BY <1>2, RumorOK
<1>3. ASSUME NEW m \in net, Lose(m) PROVE MInv'
  <2>1. UNCHANGED <<routes, peers, inbox, asked, shown, doubled>> /\ net' \subseteq net
    BY <1>3 DEF Lose
  <2>2. net' \subseteq Routed \cup Simple /\ RoutesInv' /\ PacketsInv'
    BY <2>1, SilentStep
  <2> QED BY <2>1, <2>2 DEF MInv, TypeOK, RoutesInv
<1> QED BY <1>1, <1>2, <1>3, AskOK, HandleOK, DoubleOK DEF Next

(***************************************************************************)
(* The inductive invariant of Messaging: routes lead to those that are     *)
(* ahead, and packets follow them.                                         *)
(***************************************************************************)
THEOREM Invariance == Spec => []MInv
BY InitOK, StepOK, PTL DEF Spec

(***************************************************************************)
(* Every variable keeps its type: no handler writes a packet with a hop    *)
(* limit below 0 or delivers what no client sent.                          *)
(***************************************************************************)
THEOREM TypeCorrect == Spec => []TypeOK
<1>1. MInv => TypeOK
  BY DEF MInv
<1> QED BY <1>1, Invariance, PTL

(***************************************************************************)
(* Whoever gets a packet for somebody else has a next hop for it           *)
(* (sendPacketWithNextHop, updateNextHop).                                 *)
(***************************************************************************)
THEOREM NobodyStrands == Spec => []ForwardersKnowTheWay
<1>1. ASSUME MInv PROVE ForwardersKnowTheWay
  <2>1. SUFFICES ASSUME NEW m \in net, m.kind # "simple", m.at # m.dst
                 PROVE  nextHop[m.at][m.dst] # NoHop
    BY DEF ForwardersKnowTheWay
  <2>2. m.at \in Gossiper /\ m.dst \in Gossiper
    BY <1>1, <2>1 DEF MInv, TypeOK, Routed, Simple
  <2>3. clock[m.at][m.dst] > 0 /\ clock[m.at][m.dst] \in Nat
    BY <1>1, <2>1, <2>2 DEF MInv, PacketsInv, OnRoute, RoutesInv
  <2> QED BY <1>1, <2>1, <2>2, <2>3 DEF MInv, RoutesInv
<1> QED BY <1>1, Invariance, PTL

-----------------------------------------------------------------------------
\* Packets that do not circle

\* The next hop of h for d has no news of d that h lacks.
Level(h, d) == nextHop[h][d] # NoHop /\ clock[nextHop[h][d]][d] = clock[h][d]

\* From p, along next hops without news of d, nobody gets to g.
Parted(p, g, d) ==
  \E S \in SUBSET Gossiper :
    /\ p \in S /\ g \notin S
    /\ \A h \in S : Level(h, d) => nextHop[h][d] \in S

\* A next hop without news does not lead back.
LoopFree ==
  \A g, d, p \in Gossiper : p = nextHop[g][d] /\ Level(g, d) => Parted(p, g, d)

\* Who sent m on knew less of its destination, or cannot be reached any more.
GoesAhead(m) ==
  \A v \in m.via : \/ clock[m.at][m.dst] > v[2]
                   \/ clock[m.at][m.dst] = v[2] /\ Parted(m.at, v[1], m.dst)

\* The inductive invariant of ComesBackOnlyWithNews
CInv == MInv /\ LoopFree /\ \A m \in net : m.kind # "simple" => GoesAhead(m)

\* Clocks do not go back, and a next hop changes with news only.
RoutesGrow ==
  \A h, o \in Gossiper : /\ clock'[h][o] >= clock[h][o]
                         /\ clock'[h][o] = clock[h][o] => nextHop'[h][o] = nextHop[h][o]

(***************************************************************************)
(* A next hop that has no news after a step that gave its gossiper none    *)
(* had none before, and is the same one.                                   *)
(***************************************************************************)
LEMMA LevelBefore ==
  ASSUME RoutesInv, RoutesInv', RoutesGrow, NEW h \in Gossiper, NEW d \in Gossiper,
         clock'[h][d] = clock[h][d], Level(h, d)'
  PROVE  /\ Level(h, d) /\ nextHop'[h][d] = nextHop[h][d]
         /\ clock'[nextHop[h][d]][d] = clock[nextHop[h][d]][d]
<1> DEFINE p == nextHop[h][d]
<1>1. /\ nextHop'[h][d] = p /\ p # NoHop
      /\ clock'[p][d] = clock[h][d]
  BY DEF RoutesGrow, Level
<1>2. p \in Gossiper /\ clock[p][d] \in Nat /\ clock[h][d] \in Nat /\ clock'[p][d] \in Nat
  BY <1>1 DEF RoutesInv
<1>3. clock[p][d] >= clock[h][d] /\ clock'[p][d] >= clock[p][d]
  BY <1>1, <1>2 DEF RoutesInv, RoutesGrow
<1>4. clock[p][d] = clock[h][d] /\ clock'[p][d] = clock[p][d]
  BY <1>1, <1>2, <1>3
<1> QED BY <1>1, <1>4 DEF Level

(***************************************************************************)
(* Who could not be reached cannot be reached after the step, unless where *)
(* one starts got news: those of the set that got none are such a set      *)
(* again.                                                                  *)
(***************************************************************************)
LEMMA PartedStays ==
  ASSUME RoutesInv, RoutesInv', RoutesGrow,
         NEW p \in Gossiper, NEW g \in Gossiper, NEW d \in Gossiper,
         Parted(p, g, d), clock'[p][d] = clock[p][d]
  PROVE  Parted(p, g, d)'
<1>1. PICK S \in SUBSET Gossiper :
        /\ p \in S /\ g \notin S
        /\ \A h \in S : Level(h, d) => nextHop[h][d] \in S
  BY DEF Parted
<1>2. PICK T \in SUBSET Gossiper : \A h \in Gossiper :
        h \in T <=> h \in S /\ clock'[h][d] = clock[h][d]
  <2> DEFINE T == {h \in S : clock'[h][d] = clock[h][d]}
  <2>1. T \in SUBSET Gossiper
    OBVIOUS
  <2> QED BY <2>1
<1>3. ASSUME NEW h \in T, Level(h, d)' PROVE nextHop'[h][d] \in T
  <2>1. h \in S /\ h \in Gossiper /\ clock'[h][d] = clock[h][d]
    BY <1>2
  <2>2. /\ Level(h, d) /\ nextHop'[h][d] = nextHop[h][d]
        /\ clock'[nextHop[h][d]][d] = clock[nextHop[h][d]][d]
    BY <1>3, <2>1, LevelBefore
  <2>3. nextHop[h][d] \in S
    BY <1>1, <2>1, <2>2
  <2> QED BY <1>2, <2>2, <2>3
<1>4. p \in T /\ g \notin T
  BY <1>1, <1>2
<1> QED BY <1>3, <1>4 DEF Parted

(***************************************************************************)
(* Next hops without news keep leading away: who gets news gets them from  *)
(* a next hop that no such path leads back from, because nobody is as far  *)
(* as he is now and routes through him.                                    *)
(***************************************************************************)
LEMMA LoopFreeStays ==
  ASSUME RoutesInv, RoutesInv', RoutesGrow, LoopFree,
         \A g, d \in Gossiper : clock'[g][d] # clock[g][d] /\ nextHop'[g][d] # NoHop =>
           /\ nextHop'[g][d] # g
           /\ \A h \in Gossiper \ {g} : clock'[h][d] = clock[h][d]
  PROVE  LoopFree'
<1> SUFFICES ASSUME NEW g \in Gossiper, NEW d \in Gossiper, NEW p \in Gossiper,
                    p = nextHop'[g][d], Level(g, d)'
             PROVE  Parted(p, g, d)'
  BY DEF LoopFree
<1>1. p # NoHop
  BY NoHopAssumption
<1>2. CASE clock'[g][d] = clock[g][d]
  <2>1. Level(g, d) /\ p = nextHop[g][d] /\ clock'[p][d] = clock[p][d]
    BY <1>2, LevelBefore
  <2>2. Parted(p, g, d)
    BY <2>1 DEF LoopFree
  <2> QED BY <2>1, <2>2, PartedStays
<1>3. CASE clock'[g][d] # clock[g][d]
  <2>1. p # g /\ \A h \in Gossiper \ {g} : clock'[h][d] = clock[h][d]
    BY <1>1, <1>3
  <2>2. ASSUME NEW h \in Gossiper \ {g}, Level(h, d)' PROVE nextHop'[h][d] \in Gossiper \ {g}
    <3>1. /\ Level(h, d) /\ nextHop'[h][d] = nextHop[h][d]
          /\ clock'[nextHop[h][d]][d] = clock[nextHop[h][d]][d]
      BY <2>1, <2>2, LevelBefore
    <3> QED BY <1>3, <3>1 DEF Level, RoutesInv
  <2>3. PICK S \in SUBSET Gossiper : S = Gossiper \ {g}
    OBVIOUS
  <2>4. p \in S /\ g \notin S /\ \A h \in S : Level(h, d)' => nextHop'[h][d] \in S
    BY <2>1, <2>2, <2>3
  <2> QED BY <2>4 DEF Parted
<1> QED BY <1>2, <1>3

(***************************************************************************)
(* Issuing and hearing a rumor are steps of this kind (updateNextHop).     *)
(***************************************************************************)
LEMMA RoutesStayLoopFree ==
  ASSUME RoutesInv, LoopFree, NEW g \in Gossiper, NEW p \in Gossiper, NEW o \in Gossiper,
         IssueRumor(g) \/ HearRumor(g, p, o)
  PROVE  RoutesInv' /\ RoutesGrow /\ LoopFree'
<1>1. RoutesInv'
  BY IssueKeepsRoutes, HearKeepsRoutes
<1>2. /\ clock \in [Gossiper -> [Gossiper -> Nat]]
      /\ nextHop \in [Gossiper -> [Gossiper -> Gossiper \cup {NoHop}]]
      /\ \A h \in Gossiper : nextHop[h][h] = NoHop
  BY DEF RoutesInv
<1>3. CASE IssueRumor(g)
  <2>1. /\ nextHop' = nextHop
        /\ \A h, q \in Gossiper :
             clock'[h][q] = IF h = g /\ q = g THEN clock[h][q] + 1 ELSE clock[h][q]
    BY <1>2, <1>3 DEF IssueRumor
  <2>2. RoutesGrow
    BY <1>2, <2>1 DEF RoutesGrow
  <2>3. \A h, d \in Gossiper : clock'[h][d] # clock[h][d] => nextHop'[h][d] = NoHop
    BY <1>2, <2>1
  <2> QED BY <1>1, <2>2, <2>3, LoopFreeStays
<1>4. CASE HearRumor(g, p, o)
  <2>1. /\ clock[g][o] < clock[p][o]
        /\ \A h, q \in Gossiper :
             /\ clock'[h][q] = IF h = g /\ q = o THEN clock[h][q] + 1 ELSE clock[h][q]
             /\ nextHop'[h][q] = IF h = g /\ q = o THEN p ELSE nextHop[h][q]
    BY <1>2, <1>4 DEF HearRumor
  <2>2. \A h, q \in Gossiper : clock[h][q] \in Nat
    BY <1>2
  <2>3. RoutesGrow
    BY <2>1, <2>2 DEF RoutesGrow
  <2>4. p # g
    BY <2>1, <2>2
  <2>5. \A h, d \in Gossiper : clock'[h][d] # clock[h][d] =>
          /\ nextHop'[h][d] # h
          /\ \A q \in Gossiper \ {h} : clock'[q][d] = clock[q][d]
    BY <2>1, <2>4
  <2> QED BY <1>1, <2>3, <2>5, LoopFreeStays
<1> QED BY <1>3, <1>4

(***************************************************************************)
(* Packets stay ahead while routes change.                                 *)
(***************************************************************************)
LEMMA PacketsStayAhead ==
  ASSUME RoutesInv, RoutesInv', RoutesGrow, NEW m \in Routed, GoesAhead(m)
  PROVE  GoesAhead(m)'
<1> SUFFICES ASSUME NEW v \in m.via
             PROVE  \/ clock'[m.at][m.dst] > v[2]
                    \/ clock'[m.at][m.dst] = v[2] /\ Parted(m.at, v[1], m.dst)'
  BY DEF GoesAhead
<1>1. PICK p \in Gossiper, d \in Gossiper, g \in Gossiper, c \in Nat :
        m.at = p /\ m.dst = d /\ v[1] = g /\ v[2] = c
  BY DEF Routed
<1>2. clock[p][d] > c \/ (clock[p][d] = c /\ Parted(p, g, d))
  BY <1>1 DEF GoesAhead
<1>3. clock[p][d] \in Nat /\ clock'[p][d] \in Nat /\ clock'[p][d] >= clock[p][d]
  BY DEF RoutesInv, RoutesGrow
<1>4. CASE clock'[p][d] = clock[p][d]
  <2>1. Parted(p, g, d) => Parted(p, g, d)'
    BY <1>4, PartedStays
  <2> QED BY <1>1, <1>2, <1>4, <2>1
<1>5. CASE clock'[p][d] # clock[p][d]
  BY <1>1, <1>2, <1>3, <1>5
<1> QED BY <1>4, <1>5

(***************************************************************************)
(* A packet sent to the next hop stays ahead of all that sent it on, its   *)
(* last sender included (sendPacketWithNextHop).                           *)
(***************************************************************************)
LEMMA SentAhead ==
  ASSUME RoutesInv, LoopFree, NEW g \in Gossiper, NEW m \in Routed, m.at = g, GoesAhead(m),
         NEW n \in ToNextHop(g, m)
  PROVE  GoesAhead(n)
<1>1. PICK p \in Gossiper, d \in Gossiper :
        /\ p = nextHop[g][d] /\ p # NoHop /\ d = m.dst
        /\ n.at = p /\ n.dst = d /\ n.via = m.via \cup {<<g, clock[g][d]>>}
  <2>1. m.dst \in Gossiper
    BY DEF Routed
  <2>2. PICK d \in Gossiper : d = m.dst
    BY <2>1
  <2>3. PICK p \in {nextHop[g][d]} \ {NoHop} :
          n = [m EXCEPT !.src = g, !.at = p, !.via = @ \cup {<<g, clock[g][d]>>}]
    BY <2>2 DEF ToNextHop
  <2>4. p = nextHop[g][d] /\ p # NoHop /\ p \in Gossiper
    BY <2>3 DEF RoutesInv
  <2>5. n.at = p /\ n.dst = d /\ n.via = m.via \cup {<<g, clock[g][d]>>}
    BY <2>2, <2>3 DEF Routed
  <2> QED BY <2>2, <2>4, <2>5
<1>2. clock[g][d] \in Nat /\ clock[p][d] \in Nat /\ clock[p][d] >= clock[g][d]
  BY <1>1 DEF RoutesInv
<1>3. ASSUME NEW v \in n.via
      PROVE  clock[p][d] > v[2] \/ (clock[p][d] = v[2] /\ Parted(p, v[1], d))
  <2>1. CASE v = <<g, clock[g][d]>>
    <3>1. v[1] = g /\ v[2] = clock[g][d]
      BY <2>1
    <3>2. CASE clock[p][d] = clock[g][d]
      BY <1>1, <3>1, <3>2 DEF Level, LoopFree
    <3> QED BY <1>2, <3>1, <3>2
  <2>2. CASE v \in m.via
    <3>1. v[1] \in Gossiper /\ v[2] \in Nat
      BY <2>2 DEF Routed
    <3>2. clock[g][d] > v[2] \/ (clock[g][d] = v[2] /\ Parted(g, v[1], d))
      BY <1>1, <2>2 DEF GoesAhead
    <3>3. CASE clock[p][d] = clock[g][d] /\ clock[g][d] = v[2]
      <4>1. Level(g, d) /\ Parted(g, v[1], d)
        BY <1>1, <1>2, <3>1, <3>2, <3>3 DEF Level
      <4>2. PICK S \in SUBSET Gossiper :
              /\ g \in S /\ v[1] \notin S
              /\ \A h \in S : Level(h, d) => nextHop[h][d] \in S
        BY <4>1 DEF Parted
      <4>3. p \in S
        BY <1>1, <4>1, <4>2
      <4> QED BY <3>3, <4>2, <4>3 DEF Parted
    <3> QED BY <1>2, <3>1, <3>2, <3>3
  <2> QED BY <1>1, <1>3, <2>1, <2>2
<1> QED BY <1>1, <1>3 DEF GoesAhead

(***************************************************************************)
(* So does one that is passed on, one hop fewer to go.                     *)
(***************************************************************************)
LEMMA PassedAhead ==
  ASSUME RoutesInv, LoopFree, NEW g \in Gossiper, NEW m \in Routed, m.at = g, GoesAhead(m),
         NEW n \in PassOn(g, m)
  PROVE  GoesAhead(n)
<1>1. m.hop # 0 /\ n \in ToNextHop(g, [m EXCEPT !.hop = @ - 1])
  BY DEF PassOn
<1>2. m.hop - 1 \in 0..HopLimit
  BY <1>1, LimitAssumption DEF Routed
<1>3. PICK k \in Routed : /\ k = [m EXCEPT !.hop = @ - 1]
                          /\ k.at = g /\ k.via = m.via /\ k.dst = m.dst
  <2> DEFINE k == [m EXCEPT !.hop = @ - 1]
  <2>1. k = [kind |-> m.kind, origin |-> m.origin, dst |-> m.dst, copy |-> m.copy,
             hop |-> m.hop - 1, src |-> m.src, at |-> m.at, via |-> m.via]
    BY DEF Routed
  <2>2. k \in Routed
    BY <1>2, <2>1 DEF Routed
  <2>3. k.at = g /\ k.via = m.via /\ k.dst = m.dst
    BY <2>1
  <2> QED BY <2>2, <2>3
<1>4. GoesAhead(k)
  BY <1>3 DEF GoesAhead
<1> QED BY <1>1, <1>3, <1>4, SentAhead

(***************************************************************************)
(* A new packet is ahead of its origin, the only one that sent it.         *)
(***************************************************************************)
LEMMA StartsAhead ==
  ASSUME RoutesInv, LoopFree, NEW kind \in Kinds \ {"simple"}, NEW o \in Gossiper,
         NEW d \in Gossiper, NEW k \in Nat,
         NEW n \in PassOn(o, Packet(kind, o, d, k)) \cup ToNextHop(o, Packet(kind, o, d, k))
  PROVE  GoesAhead(n)
<1>1. PICK q \in Routed : q = Packet(kind, o, d, k) /\ q.at = o /\ q.via = {}
  BY PacketOK DEF Packet
<1>2. GoesAhead(q)
  BY <1>1 DEF GoesAhead
<1> QED BY <1>1, <1>2, SentAhead, PassedAhead

(***************************************************************************)
(* Every step keeps the routes free of loops and the packets ahead.        *)
(***************************************************************************)
LEMMA NewsStepOK == CInv /\ [Next]_vars => CInv'
<1> SUFFICES ASSUME CInv, [Next]_vars PROVE CInv'
  OBVIOUS
<1>0. MInv /\ MInv' /\ RoutesInv /\ RoutesInv' /\ LoopFree
  BY StepOK DEF CInv, MInv
<1>1. ASSUME UNCHANGED routes, \A n \in net' \ net : n.kind # "simple" => GoesAhead(n)
      PROVE  CInv'
  <2>1. \A m : GoesAhead(m)' <=> GoesAhead(m)
    BY <1>1 DEF GoesAhead, Parted, Level, routes
  <2>2. LoopFree'
    BY <1>0, <1>1 DEF LoopFree, Parted, Level, routes
  <2>3. \A m \in net' : m.kind # "simple" => GoesAhead(m)
    BY <1>1 DEF CInv
  <2> QED BY <1>0, <2>1, <2>2, <2>3 DEF CInv
<1>2. CASE UNCHANGED vars
  <2>1. UNCHANGED routes /\ net' \ net = {}
    BY <1>2 DEF vars, routes
  <2> QED BY <1>1, <2>1
<1>3. ASSUME NEW g \in Gossiper, NEW p \in Gossiper, NEW o \in Gossiper, Issue(g) \/ Hear(g, p, o)
      PROVE  CInv'
  <2>1. (IssueRumor(g) \/ HearRumor(g, p, o)) /\ net' = net
    BY <1>3 DEF Issue, Hear
  <2>2. RoutesGrow /\ LoopFree'
    BY <1>0, <2>1, RoutesStayLoopFree
  <2>3. \A m \in net : m.kind # "simple" => m \in Routed
    BY <1>0 DEF MInv, TypeOK, Simple
  <2>4. \A m \in net : m.kind # "simple" => GoesAhead(m)'
    BY <1>0, <2>2, <2>3, PacketsStayAhead DEF CInv
  <2> QED BY <1>0, <2>1, <2>2, <2>4 DEF CInv
<1>4. ASSUME NEW c \in Message, ClientPrivate(c) \/ SendRouted(c) \/ ClientSimple(c)
      PROVE  CInv'
  <2>1. c.origin \in Gossiper /\ c.dst \in Gossiper
    BY MessageAssumption
  <2>2. UNCHANGED routes
    BY <1>4 DEF ClientPrivate, SendRouted, ClientSimple
  <2>3. \A n \in net' \ net : n.kind # "simple" => GoesAhead(n)
    <3> DEFINE q == Packet(c.kind, c.origin, c.dst, 0)
    <3>1. CASE ClientPrivate(c) \/ SendRouted(c)
      <4>1. c.kind \in Kinds \ {"simple"}
        BY <3>1 DEF ClientPrivate, SendRouted, Kinds
      <4>2. net' \subseteq net \cup (PassOn(c.origin, q) \cup ToNextHop(c.origin, q))
        BY <3>1 DEF ClientPrivate, SendRouted
      <4>3. \A n \in PassOn(c.origin, q) \cup ToNextHop(c.origin, q) : GoesAhead(n)
        BY <1>0, <2>1, <4>1, StartsAhead
      <4> HIDE DEF q
      <4> QED BY <4>2, <4>3
    <3>2. CASE ClientSimple(c)
      <4>1. \A n \in Copies(c.origin, c.origin, 0, peers[c.origin], {}) : n.kind = "simple"
        BY DEF Copies
      <4> QED BY <3>2, <4>1 DEF ClientSimple
    <3> QED BY <1>4, <3>1, <3>2
  <2> QED BY <1>1, <2>2, <2>3
<1>5. ASSUME NEW g \in Gossiper, NEW m \in net,
             \/ Forward(g, m) \/ AddPrivateMessage(g, m) \/ AnswerDataRequest(g, m)
             \/ TakeReply(g, m) \/ ReceiveSimple(g, m)
      PROVE  CInv'
  <2>1. UNCHANGED routes /\ m.at = g
    BY <1>5 DEF Forward, AddPrivateMessage, AnswerDataRequest, TakeReply, ReceiveSimple, Receive
  <2>2. m.kind # "simple" => m \in Routed /\ GoesAhead(m)
    BY <1>0 DEF CInv, MInv, TypeOK, Simple
  <2>3. \A n \in net' \ net : n.kind # "simple" => GoesAhead(n)
    <3>1. CASE Forward(g, m)
      <4>1. m.kind # "simple" /\ net' \subseteq net \cup PassOn(g, m)
        BY <3>1 DEF Forward
      <4>2. \A n \in PassOn(g, m) : GoesAhead(n)
        BY <1>0, <2>1, <2>2, <4>1, PassedAhead
      <4> QED BY <4>1, <4>2
    <3>2. CASE AddPrivateMessage(g, m) \/ TakeReply(g, m)
      <4>1. net' \ net = {}
        BY <3>2 DEF AddPrivateMessage, TakeReply
      <4> QED BY <4>1
    <3>3. CASE AnswerDataRequest(g, m)
      <4> DEFINE q == Packet("dataReply", g, m.origin, m.copy)
      <4>1. m.kind # "simple" /\ net' \subseteq net \cup (PassOn(g, q) \cup ToNextHop(g, q))
        BY <3>3 DEF AnswerDataRequest
      <4>2. m.origin \in Gossiper /\ m.copy \in Nat
        BY <2>2, <4>1 DEF Routed
      <4>3. \A n \in PassOn(g, q) \cup ToNextHop(g, q) : GoesAhead(n)
        BY <1>0, <4>2, StartsAhead DEF Kinds
      <4> HIDE DEF q
      <4> QED BY <4>1, <4>3
    <3>4. CASE ReceiveSimple(g, m)
      <4>1. \A n \in Copies(g, m.origin, m.copy, peers'[g], {m.src}) : n.kind = "simple"
        BY DEF Copies
      <4>2. net' \subseteq net \cup Copies(g, m.origin, m.copy, peers'[g], {m.src})
        BY <3>4 DEF ReceiveSimple
      <4> QED BY <4>1, <4>2
    <3> QED BY <1>5, <3>1, <3>2, <3>3, <3>4
  <2> QED BY <1>1, <2>1, <2>3
<1>6. ASSUME NEW m \in net, Lose(m) PROVE CInv'
  <2>1. UNCHANGED routes /\ net' \ net = {}
    BY <1>6 DEF Lose
  <2> QED BY <1>1, <2>1
<1>7. CASE \E g \in Gossiper : Issue(g)
  BY <1>3, <1>7
<1>8. ASSUME NEW m \in net, Double(m) PROVE CInv'
  <2>1. PICK n : net' = net \cup {n} /\ IsCopy(n, m, doubled'[Series(m)])
    BY <1>0, <1>8, DoubleMakes
  <2>2. n.kind # "simple" => GoesAhead(n)
    BY <2>1 DEF IsCopy, CInv, GoesAhead
  <2>3. UNCHANGED routes
    BY <1>8 DEF Double
  <2> QED BY <1>1, <2>1, <2>2, <2>3
<1> QED BY <1>2, <1>3, <1>4, <1>5, <1>6, <1>7, <1>8 DEF Next

(***************************************************************************)
(* A packet comes back to a gossiper only if this one has heard a newer    *)
(* rumor of the destination since it sent the packet on, however routes    *)
(* change while the packet travels (updateNextHop for new rumors only).    *)
(***************************************************************************)
THEOREM NoCircles == Spec => []ComesBackOnlyWithNews
<1>1. Init => CInv
  <2> SUFFICES ASSUME Init PROVE CInv
    OBVIOUS
  <2>1. net = {} /\ \A g, d \in Gossiper : nextHop[g][d] = NoHop
    BY DEF Init, RoutesInit
  <2>2. LoopFree
    BY <2>1 DEF LoopFree, Level
  <2> QED BY <2>1, <2>2, InitOK DEF CInv
<1>2. CInv => ComesBackOnlyWithNews
  <2> SUFFICES ASSUME CInv, NEW m \in net, m.kind # "simple", NEW v \in m.via, v[1] = m.at
               PROVE  clock[m.at][m.dst] > v[2]
    BY DEF ComesBackOnlyWithNews
  <2>1. ~Parted(m.at, v[1], m.dst)
    BY DEF Parted
  <2> QED BY <2>1 DEF CInv, GoesAhead
<1> QED BY <1>1, <1>2, NewsStepOK, PTL DEF Spec

-----------------------------------------------------------------------------
\* Simple messages

\* Whoever knows or routes through somebody, or sent him a packet, is linked to him.
Links ==
  /\ \A g \in Gossiper : \A p \in peers[g] : Linked(g, p)
  /\ \A g, o \in Gossiper : nextHop[g][o] # NoHop => Linked(g, nextHop[g][o])
  /\ \A m \in net : Linked(m.src, m.at)

\* m is a packet of copy k of the simple message of o.
IsSimple(m, o, k) == m.kind = "simple" /\ m.origin = o /\ m.copy = k

\* Where m goes nobody got this copy of its message, and no other packet brings it
\* there.
Unseen(m) ==
  \E S \in SUBSET Gossiper :
    /\ OnlyLink(S, m.src, m.at)
    /\ m.origin \notin S
    /\ \A x \in S : shown[x][m.origin][m.copy] = 0
    /\ \A n \in net : IsSimple(n, m.origin, m.copy) /\ n.at \in S => n = m

\* No client of o asked for a simple message, or the network made no copy k yet.
Unmade(o, k) ==
  (\A c \in asked : ~(c.kind = "simple" /\ c.origin = o)) \/ k > doubled["simple"]

\* Of what there is not nothing is seen.
Silence ==
  \A o \in Gossiper, k \in Copy : Unmade(o, k) =>
    /\ \A g \in Gossiper : shown[g][o][k] = 0
    /\ \A m \in net : ~IsSimple(m, o, k)

Spreading == \A m \in net : m.kind = "simple" => m.src \in SimpleMode /\ Unseen(m)

\* The inductive invariant of SimpleShownOnce
SInv == MInv /\ Links /\ Silence /\ Spreading /\ SimpleShownOnce

(***************************************************************************)
(* Packets for one gossiper go to next hops, over links.                   *)
(***************************************************************************)
LEMMA SentOnLinks ==
  ASSUME MInv, Links, NEW g \in Gossiper, NEW m \in Routed,
         NEW n \in ToNextHop(g, m) \cup PassOn(g, m)
  PROVE  Linked(n.src, n.at) /\ n.kind # "simple"
<1>1. m.dst \in Gossiper /\ m.kind # "simple"
  BY DEF Routed
<1>2. n.src = g /\ n.at = nextHop[g][m.dst] /\ nextHop[g][m.dst] # NoHop /\ n.kind = m.kind
  BY DEF ToNextHop, PassOn, Routed
<1> QED BY <1>1, <1>2 DEF Links

(***************************************************************************)
(* No step makes a link that the command lines did not                     *)
(* (UpdatePeersIfNeeded, updateNextHop).                                   *)
(***************************************************************************)
LEMMA LinksStay ==
  ASSUME MInv, Links, [Next]_vars
  PROVE  Links'
<1>1. /\ peers \in [Gossiper -> SUBSET Gossiper]
      /\ nextHop \in [Gossiper -> [Gossiper -> Gossiper \cup {NoHop}]]
      /\ net \subseteq Routed \cup Simple
  BY DEF MInv, TypeOK
<1>2. ASSUME UNCHANGED <<peers, nextHop>>, \A n \in net' \ net : Linked(n.src, n.at)
      PROVE  Links'
  BY <1>2 DEF Links
<1>3. ASSUME NEW g \in Gossiper, NEW p \in Gossiper, NEW o \in Gossiper, Hear(g, p, o)
      PROVE  Links'
  <2>1. /\ Linked(g, p) /\ net' = net
        /\ peers' = [peers EXCEPT ![g] = @ \cup {p}]
        /\ nextHop' = [nextHop EXCEPT ![g][o] = p]
    BY <1>3 DEF Hear, HearRumor, Links, Linked
  <2>2. \A h \in Gossiper : \A q \in peers'[h] : Linked(h, q)
    BY <1>1, <2>1 DEF Links
  <2>3. \A h, q \in Gossiper : nextHop'[h][q] # NoHop => Linked(h, nextHop'[h][q])
    BY <1>1, <2>1 DEF Links
  <2> QED BY <2>1, <2>2, <2>3 DEF Links
<1>4. ASSUME NEW c \in Message, ClientPrivate(c) \/ SendRouted(c) \/ ClientSimple(c)
      PROVE  Links'
  <2>1. c.origin \in Gossiper /\ c.dst \in Gossiper
    BY MessageAssumption
  <2>2. UNCHANGED <<peers, nextHop>>
    BY <1>4 DEF ClientPrivate, SendRouted, ClientSimple, routes
  <2>3. \A n \in net' \ net : Linked(n.src, n.at)
    <3> DEFINE q == Packet(c.kind, c.origin, c.dst, 0)
    <3>1. CASE ClientPrivate(c) \/ SendRouted(c)
      <4>1. c.kind \in Kinds \ {"simple"}
        BY <3>1 DEF ClientPrivate, SendRouted, Kinds
      <4>2. net' \subseteq net \cup (ToNextHop(c.origin, q) \cup PassOn(c.origin, q))
        BY <3>1 DEF ClientPrivate, SendRouted
      <4>3. q \in Routed
        BY <2>1, <4>1, PacketOK
      <4> HIDE DEF q
      <4> QED BY <2>1, <4>2, <4>3, SentOnLinks
    <3>2. CASE ClientSimple(c)
      BY <2>1, <3>2 DEF ClientSimple, Copies, Links
    <3> QED BY <1>4, <3>1, <3>2
  <2> QED BY <1>2, <2>2, <2>3
<1>5. ASSUME NEW g \in Gossiper, NEW m \in net,
             \/ Forward(g, m) \/ AddPrivateMessage(g, m) \/ AnswerDataRequest(g, m)
             \/ TakeReply(g, m) \/ ReceiveSimple(g, m)
      PROVE  Links'
  <2>1. /\ m.at = g /\ peers' = [peers EXCEPT ![g] = @ \cup {m.src}]
        /\ nextHop' = nextHop
    BY <1>5 DEF Forward, AddPrivateMessage, AnswerDataRequest, TakeReply, ReceiveSimple,
                Receive, routes
  <2>2. Linked(g, m.src)
    BY <2>1 DEF Links, Linked
  <2>3. \A h \in Gossiper : \A q \in peers'[h] : Linked(h, q)
    BY <1>1, <2>1, <2>2 DEF Links
  <2>4. m.kind # "simple" => m \in Routed
    BY <1>1 DEF Simple
  <2>5. \A n \in net' \ net : Linked(n.src, n.at)
    <3>1. CASE Forward(g, m)
      <4>1. m \in Routed /\ net' \subseteq net \cup PassOn(g, m)
        BY <2>4, <3>1 DEF Forward
      <4> QED BY <4>1, SentOnLinks
    <3>2. CASE AddPrivateMessage(g, m) \/ TakeReply(g, m)
      BY <3>2 DEF AddPrivateMessage, TakeReply
    <3>3. CASE AnswerDataRequest(g, m)
      <4> DEFINE q == Packet("dataReply", g, m.origin, m.copy)
      <4>1. m \in Routed /\ net' \subseteq net \cup ToNextHop(g, q)
        BY <2>4, <3>3 DEF AnswerDataRequest
      <4>2. q \in Routed
        BY <4>1, PacketOK DEF Kinds, Routed
      <4> HIDE DEF q
      <4> QED BY <4>1, <4>2, SentOnLinks
    <3>4. CASE ReceiveSimple(g, m)
      <4>1. net' \subseteq net \cup Copies(g, m.origin, m.copy, peers'[g], {m.src})
        BY <3>4 DEF ReceiveSimple
      <4>2. \A n \in Copies(g, m.origin, m.copy, peers'[g], {m.src}) : n.src = g /\ n.at \in peers'[g]
        BY DEF Copies
      <4> QED BY <2>3, <4>1, <4>2
    <3> QED BY <1>5, <3>1, <3>2, <3>3, <3>4
  <2> QED BY <2>1, <2>3, <2>5 DEF Links
<1>6. CASE \E g \in Gossiper : Issue(g)
  BY <1>2, <1>6 DEF Issue, IssueRumor
<1>7. CASE \E m \in net : Lose(m)
  BY <1>2, <1>7 DEF Lose, routes
<1>8. CASE UNCHANGED vars
  BY <1>2, <1>8 DEF vars
<1>9. ASSUME NEW m \in net, Double(m) PROVE Links'
  <2>1. \A n \in net' \ net : n.src = m.src /\ n.at = m.at
    BY <1>9, DoubleMakes DEF IsCopy
  <2>2. UNCHANGED <<peers, nextHop>>
    BY <1>9 DEF Double, routes
  <2> QED BY <1>2, <2>1, <2>2 DEF Links
<1> QED BY <1>3, <1>4, <1>5, <1>6, <1>7, <1>8, <1>9 DEF Next

(***************************************************************************)
(* A step that sends and shows no simple message keeps what is said of     *)
(* them.                                                                   *)
(***************************************************************************)
LEMMA NothingSimple ==
  ASSUME Silence, Spreading, SimpleShownOnce, shown' = shown, asked \subseteq asked',
         doubled'["simple"] = doubled["simple"], \A n \in net' \ net : n.kind # "simple"
  PROVE  Silence' /\ Spreading' /\ SimpleShownOnce'
<1>1. Silence'
  BY DEF Silence, Unmade, IsSimple
<1>2. SimpleShownOnce'
  BY DEF SimpleShownOnce
<1>3. ASSUME NEW m \in net', m.kind = "simple" PROVE m.src \in SimpleMode /\ Unseen(m)'
  <2>1. m \in net /\ m.src \in SimpleMode /\ Unseen(m)
    BY <1>3 DEF Spreading
  <2> QED BY <2>1 DEF Unseen, IsSimple
<1> QED BY <1>1, <1>2, <1>3 DEF Spreading

(***************************************************************************)
(* A client's message starts out to where nobody has it: each link parts   *)
(* those behind it from its author.                                        *)
(***************************************************************************)
LEMMA SimpleStarts ==
  ASSUME MInv, Links, Silence, Spreading, SimpleShownOnce, SimpleNetsAreTrees, OneSimpleEach,
         NEW c \in Message, ClientSimple(c)
  PROVE  Silence' /\ Spreading' /\ SimpleShownOnce'
<1>0. 0 \in Copy
  BY CopyNumbers
<1>1. PICK o \in Gossiper : o = c.origin
  BY MessageAssumption
<1>2. /\ c.kind = "simple" /\ o \in SimpleMode /\ c \notin asked /\ asked' = asked \cup {c}
      /\ net' = net \cup Copies(o, o, 0, peers[o], {})
      /\ shown' = shown /\ doubled' = doubled
  BY <1>1 DEF ClientSimple, FirstAsked
<1>3. \A k : Unmade(o, k)
  BY <1>1, <1>2 DEF MInv, TypeOK, OneSimpleEach, Unmade
<1>4. /\ \A g \in Gossiper : shown[g][o][0] = 0
      /\ \A m \in net : m.kind = "simple" => m.origin # o
  <2>1. \A m \in net : m.kind = "simple" => m.copy \in Copy
    BY DEF MInv, TypeOK, Routed, Simple
  <2> QED BY <1>0, <1>3, <2>1 DEF Silence, IsSimple
<1>5. \A n \in net' \ net : \E k \in Gossiper :
        Linked(o, k) /\ n = [kind |-> "simple", origin |-> o, copy |-> 0, src |-> o, at |-> k]
  <2>1. \A k \in peers[o] : k \in Gossiper /\ Linked(o, k)
    BY DEF MInv, TypeOK, Links
  <2> QED BY <1>2, <2>1 DEF Copies
<1>6. \A n \in net' \ net : n.kind = "simple" /\ n.origin = o /\ n.copy = 0
  BY <1>5
<1>7. Silence'
  <2> SUFFICES ASSUME NEW q \in Gossiper, NEW k \in Copy, Unmade(q, k)'
               PROVE  /\ \A g \in Gossiper : shown'[g][q][k] = 0
                      /\ \A m \in net' : ~IsSimple(m, q, k)
    BY DEF Silence
  <2>1. Unmade(q, k) /\ ~(q = o /\ k = 0)
    <3>1. doubled["simple"] \in Nat
      BY DoublingsAssumption DEF MInv, TypeOK, Kinds
    <3> QED BY <1>1, <1>2, <3>1 DEF Unmade
  <2> QED BY <1>2, <1>6, <2>1 DEF Silence, IsSimple
<1>8. ASSUME NEW m \in net', m.kind = "simple" PROVE m.src \in SimpleMode /\ Unseen(m)'
  <2>1. CASE m \in net
    <3>1. PICK T \in SUBSET Gossiper :
            /\ OnlyLink(T, m.src, m.at) /\ m.origin \notin T
            /\ \A x \in T : shown[x][m.origin][m.copy] = 0
            /\ \A n \in net : IsSimple(n, m.origin, m.copy) /\ n.at \in T => n = m
      BY <1>8, <2>1 DEF Spreading, Unseen
    <3>2. m.origin # o
      BY <1>4, <1>8, <2>1
    <3>3. \A n \in net' : IsSimple(n, m.origin, m.copy) /\ n.at \in T => n = m
      BY <1>6, <3>1, <3>2 DEF IsSimple
    <3>4. Unseen(m)'
      BY <1>2, <3>1, <3>3 DEF Unseen
    <3> QED BY <1>8, <2>1, <3>4 DEF Spreading
  <2>2. CASE m \notin net
    <3>1. PICK k \in Gossiper :
            /\ Linked(o, k)
            /\ m = [kind |-> "simple", origin |-> o, copy |-> 0, src |-> o, at |-> k]
      BY <1>5, <2>2
    <3>2. PICK T \in SUBSET Gossiper : OnlyLink(T, o, k)
      BY <1>2, <3>1 DEF SimpleNetsAreTrees
    <3>3. ASSUME NEW n \in net', IsSimple(n, o, 0), n.at \in T PROVE n = m
      <4>1. PICK i \in Gossiper :
              /\ Linked(o, i)
              /\ n = [kind |-> "simple", origin |-> o, copy |-> 0, src |-> o, at |-> i]
        BY <1>4, <1>5, <3>3 DEF IsSimple
      <4>2. i = k
        BY <3>2, <3>3, <4>1 DEF OnlyLink, Linked
      <4> QED BY <3>1, <4>1, <4>2
    <3>4. OnlyLink(T, m.src, m.at) /\ m.origin = o /\ m.copy = 0 /\ o \notin T
      BY <3>1, <3>2 DEF OnlyLink
    <3>5. Unseen(m)'
      BY <1>2, <1>4, <3>3, <3>4 DEF Unseen
    <3> QED BY <1>2, <3>1, <3>5
  <2> QED BY <2>1, <2>2
<1>9. SimpleShownOnce'
  BY <1>2 DEF SimpleShownOnce
<1> QED BY <1>7, <1>8, <1>9 DEF Spreading

(***************************************************************************)
(* A message that arrives is shown for the first time, and goes on to      *)
(* where nobody has it: behind each link but the one it came over lie      *)
(* gossipers that were behind that one, too                                *)
(* (processAddressedSimpleMessage).                                        *)
(***************************************************************************)
LEMMA SimpleArrives ==
  ASSUME MInv, Links, Links', Silence, Spreading, SimpleShownOnce, SimpleNetsAreTrees,
         NEW g \in Gossiper, NEW m \in net, ReceiveSimple(g, m)
  PROVE  Silence' /\ Spreading' /\ SimpleShownOnce'
<1>1. /\ m.kind = "simple" /\ m.at = g /\ asked' = asked /\ m \in Simple
      /\ peers' \in [Gossiper -> SUBSET Gossiper]
  BY PeersOK DEF ReceiveSimple, Receive
<1>2. PICK o \in Gossiper, p \in Gossiper, c \in Copy : o = m.origin /\ p = m.src /\ c = m.copy
  BY <1>1 DEF Simple
<1>3. /\ net' = (net \ {m}) \cup Copies(g, o, c, peers'[g], {p})
      /\ shown' = [shown EXCEPT ![g][o][c] = IF @ < 2 THEN @ + 1 ELSE @]
      /\ doubled' = doubled
  BY <1>2 DEF ReceiveSimple
<1>4. PICK S \in SUBSET Gossiper :
        /\ OnlyLink(S, p, g) /\ o \notin S
        /\ \A x \in S : shown[x][o][c] = 0
        /\ \A n \in net : IsSimple(n, o, c) /\ n.at \in S => n = m
  BY <1>1, <1>2 DEF Spreading, Unseen
<1>5. g \in S /\ g # o /\ shown[g][o][c] = 0
  BY <1>4 DEF OnlyLink
<1>6. \A x, q \in Gossiper, k \in Copy :
        shown'[x][q][k] = IF x = g /\ q = o /\ k = c THEN 1 ELSE shown[x][q][k]
  <2>1. shown \in [Gossiper -> [Gossiper -> [Copy -> 0..2]]]
    BY DEF MInv, TypeOK
  <2>2. shown' = [shown EXCEPT ![g][o][c] = 1]
    BY <1>3, <1>5, <2>1
  <2> QED BY <2>1, <2>2
<1>7. SimpleShownOnce'
  BY <1>5, <1>6 DEF SimpleShownOnce
<1>8. \A n \in net' : \/ n \in net /\ n # m
                      \/ \E k \in Gossiper \ {p} : /\ Linked(g, k)
                           /\ n = [kind |-> "simple", origin |-> o, copy |-> c,
                                   src |-> g, at |-> k]
  <2>1. \A k \in peers'[g] : k \in Gossiper /\ Linked(g, k)
    BY <1>1 DEF Links
  <2> QED BY <1>3, <2>1 DEF Copies
<1>9. \A q, k : \A n \in net' : IsSimple(n, q, k) /\ ~(q = o /\ k = c) => n \in net
  BY <1>8 DEF IsSimple
<1>10. g \in SimpleMode
  BY <1>1, <1>2 DEF Spreading, Links, SimpleNetsAreTrees
<1>11. Silence'
  <2> SUFFICES ASSUME NEW q \in Gossiper, NEW k \in Copy, Unmade(q, k)'
               PROVE  /\ \A h \in Gossiper : shown'[h][q][k] = 0
                      /\ \A n \in net' : ~IsSimple(n, q, k)
    BY DEF Silence
  <2>0. Unmade(q, k)
    BY <1>1, <1>3 DEF Unmade
  <2>1. /\ \A h \in Gossiper : shown[h][q][k] = 0
        /\ \A n \in net : ~IsSimple(n, q, k)
    BY <2>0 DEF Silence
  <2>2. ~(q = o /\ k = c)
    BY <1>1, <1>2, <2>1 DEF IsSimple
  <2> QED BY <1>6, <1>9, <2>1, <2>2
<1>12. ASSUME NEW n \in net', n.kind = "simple", n \in net, n # m
       PROVE  n.src \in SimpleMode /\ Unseen(n)'
  <2>1. PICK T \in SUBSET Gossiper :
          /\ OnlyLink(T, n.src, n.at) /\ n.origin \notin T
          /\ \A x \in T : shown[x][n.origin][n.copy] = 0
          /\ \A i \in net : IsSimple(i, n.origin, n.copy) /\ i.at \in T => i = n
    BY <1>12 DEF Spreading, Unseen
  <2>2. /\ n.origin \in Gossiper /\ n.copy \in Copy
        /\ n = [kind |-> "simple", origin |-> n.origin, copy |-> n.copy,
                src |-> n.src, at |-> n.at]
    BY <1>12 DEF MInv, TypeOK, Routed, Simple
  <2>3. CASE ~(n.origin = o /\ n.copy = c)
    <3>1. \A x \in T : shown'[x][n.origin][n.copy] = 0
      BY <1>6, <2>1, <2>2, <2>3
    <3>2. \A i \in net' : IsSimple(i, n.origin, n.copy) /\ i.at \in T => i = n
      BY <1>9, <2>1, <2>2, <2>3
    <3> QED BY <1>12, <2>1, <3>1, <3>2 DEF Unseen, Spreading
  <2>4. CASE n.origin = o /\ n.copy = c
    <3>1. g \notin T
      BY <1>1, <1>2, <1>12, <2>1, <2>4 DEF IsSimple
    <3>2. \A x \in T : shown'[x][o][c] = 0
      BY <1>6, <2>1, <2>4, <3>1
    <3>3. ASSUME NEW i \in net', IsSimple(i, o, c), i.at \in T PROVE i = n
      <4>1. CASE i \in net
        BY <2>1, <2>4, <3>3, <4>1
      <4>2. CASE i \notin net
        <5>1. PICK k \in Gossiper :
                /\ Linked(g, k)
                /\ i = [kind |-> "simple", origin |-> o, copy |-> c, src |-> g, at |-> k]
          BY <1>8, <4>2
        <5>2. k \in T /\ Linked(k, g)
          BY <3>3, <5>1 DEF Linked
        <5>3. k = n.at /\ g = n.src
          BY <2>1, <3>1, <5>2 DEF OnlyLink
        <5> QED BY <2>2, <2>4, <5>1, <5>3
      <4> QED BY <4>1, <4>2
    <3> QED BY <1>12, <2>1, <2>4, <3>2, <3>3 DEF Unseen, Spreading
  <2> QED BY <2>3, <2>4
<1>13. ASSUME NEW n \in net', NEW k \in Gossiper \ {p}, Linked(g, k),
              n = [kind |-> "simple", origin |-> o, copy |-> c, src |-> g, at |-> k]
       PROVE  n.src \in SimpleMode /\ Unseen(n)'
  <2>1. PICK T \in SUBSET Gossiper : OnlyLink(T, g, k)
    BY <1>10, <1>13 DEF SimpleNetsAreTrees
  <2>2. PICK U \in SUBSET Gossiper : U = S \cap T
    OBVIOUS
  <2>3. k \in U
    BY <1>4, <1>5, <1>13, <2>1, <2>2 DEF OnlyLink
  <2>4. g \notin U /\ o \notin U
    BY <1>4, <2>1, <2>2 DEF OnlyLink
  <2>5. \A x \in U, y \in Gossiper \ U : Linked(x, y) => x = k /\ y = g
    BY <1>4, <2>1, <2>2 DEF OnlyLink
  <2>6. \A x \in U : shown'[x][o][c] = 0
    BY <1>4, <1>6, <2>2, <2>4
  <2>7. ASSUME NEW i \in net', IsSimple(i, o, c), i.at \in U PROVE i = n
    <3>1. ~(i \in net /\ i # m)
      BY <1>4, <2>2, <2>7
    <3>2. PICK j \in Gossiper :
            /\ Linked(g, j)
            /\ i = [kind |-> "simple", origin |-> o, copy |-> c, src |-> g, at |-> j]
      BY <1>8, <3>1
    <3>3. j \in U /\ Linked(j, g)
      BY <2>7, <3>2 DEF Linked
    <3>4. j = k
      BY <2>4, <2>5, <3>3
    <3> QED BY <1>13, <3>2, <3>4
  <2>8. OnlyLink(U, g, k)
    BY <2>3, <2>4, <2>5 DEF OnlyLink
  <2>9. n.origin = o /\ n.copy = c /\ n.src = g /\ n.at = k
    BY <1>13
  <2> QED BY <1>10, <2>4, <2>6, <2>7, <2>8, <2>9 DEF Unseen
<1>14. ASSUME NEW n \in net', n.kind = "simple" PROVE n.src \in SimpleMode /\ Unseen(n)'
  BY <1>8, <1>12, <1>13, <1>14
<1> QED BY <1>7, <1>11, <1>14 DEF Spreading

(***************************************************************************)
(* A copy that the network makes goes where nobody got it, since there was *)
(* none with its number.                                                   *)
(***************************************************************************)
LEMMA SimpleDoubles ==
  ASSUME MInv, Silence, Spreading, SimpleShownOnce,
         NEW m \in net, m.kind = "simple", Double(m)
  PROVE  Silence' /\ Spreading' /\ SimpleShownOnce'
<1>1. PICK o \in Gossiper, c \in Copy : o = m.origin /\ c = m.copy
  BY DEF MInv, TypeOK, Routed, Simple
<1>2. PICK j \in Copy : /\ j = doubled'["simple"] /\ j > doubled["simple"]
                        /\ \E n : net' = net \cup {n} /\ IsCopy(n, m, j)
  <2>1. /\ doubled \in [Kinds -> Nat] /\ doubled' \in Doublings
        /\ doubled'["simple"] = doubled["simple"] + 1
        /\ \E n : net' = net \cup {n} /\ IsCopy(n, m, doubled'["simple"])
    BY DoubleMakes DEF Kinds
  <2> QED BY <2>1 DEF Kinds, Copy
<1>3. PICK n : /\ net' = net \cup {n} /\ n.kind = "simple" /\ n.origin = o /\ n.copy = j
               /\ n.src = m.src /\ n.at = m.at
  BY <1>1, <1>2 DEF IsCopy
<1>4. UNCHANGED <<asked, shown>>
  BY DEF Double
<1>5. /\ \A g \in Gossiper : shown[g][o][j] = 0
      /\ \A k \in net : ~IsSimple(k, o, j)
  <2>1. Unmade(o, j)
    BY <1>2 DEF Unmade
  <2> QED BY <2>1 DEF Silence
<1>6. Silence'
  <2> SUFFICES ASSUME NEW q \in Gossiper, NEW k \in Copy, Unmade(q, k)'
               PROVE  /\ \A g \in Gossiper : shown'[g][q][k] = 0
                      /\ \A l \in net' : ~IsSimple(l, q, k)
    BY DEF Silence
  <2>0. k \in Nat /\ doubled["simple"] \in Nat /\ j \in Nat
    BY DoublingsAssumption, CopyNumbers DEF MInv, TypeOK, Kinds
  <2>1. Unmade(q, k)
    BY <1>2, <1>4, <2>0 DEF Unmade
  <2>2. /\ \A g \in Gossiper : shown[g][q][k] = 0
        /\ \A l \in net : ~IsSimple(l, q, k)
    BY <2>1 DEF Silence
  <2>3. ~IsSimple(n, q, k)
    <3> SUFFICES ASSUME q = o, k = j PROVE FALSE
      BY <1>3 DEF IsSimple
    <3>1. \A b \in asked : ~(b.kind = "simple" /\ b.origin = o)
      BY <1>2, <1>4, <2>0 DEF Unmade
    <3>2. Unmade(o, c)
      BY <3>1 DEF Unmade
    <3> QED BY <1>1, <3>2 DEF Silence, IsSimple
  <2> QED BY <1>3, <1>4, <2>2, <2>3
<1>7. ASSUME NEW k \in net, k.kind = "simple" PROVE k.src \in SimpleMode /\ Unseen(k)'
  <2>1. PICK T \in SUBSET Gossiper :
          /\ OnlyLink(T, k.src, k.at) /\ k.origin \notin T
          /\ \A x \in T : shown[x][k.origin][k.copy] = 0
          /\ \A l \in net : IsSimple(l, k.origin, k.copy) /\ l.at \in T => l = k
    BY <1>7 DEF Spreading, Unseen
  <2>2. ~IsSimple(n, k.origin, k.copy)
    BY <1>3, <1>5, <1>7 DEF IsSimple
  <2>3. Unseen(k)'
    BY <1>3, <1>4, <2>1, <2>2 DEF Unseen
  <2> QED BY <1>7, <2>3 DEF Spreading
<1>8. n.src \in SimpleMode /\ Unseen(n)'
  <2>1. m.src \in SimpleMode /\ Unseen(m)
    BY DEF Spreading
  <2>2. PICK T \in SUBSET Gossiper : OnlyLink(T, m.src, m.at) /\ o \notin T
    BY <1>1, <2>1 DEF Unseen
  <2>3. \A l \in net' : IsSimple(l, o, j) => l = n
    BY <1>3, <1>5
  <2>4. Unseen(n)'
    BY <1>3, <1>4, <1>5, <2>2, <2>3 DEF Unseen
  <2> QED BY <1>3, <2>1, <2>4
<1>9. SimpleShownOnce'
  BY <1>4 DEF SimpleShownOnce
<1>10. Spreading'
  BY <1>3, <1>7, <1>8 DEF Spreading
<1> QED BY <1>6, <1>9, <1>10

(***************************************************************************)
(* Every step keeps what is said of simple messages.                       *)
(***************************************************************************)
LEMMA SimpleStepOK ==
  ASSUME SInv, SimpleNetsAreTrees, OneSimpleEach, [Next]_vars
  PROVE  SInv'
<1>0. MInv /\ MInv' /\ Links /\ Links' /\ Silence /\ Spreading /\ SimpleShownOnce
  BY StepOK, LinksStay DEF SInv
<1> SUFFICES Silence' /\ Spreading' /\ SimpleShownOnce'
  BY <1>0 DEF SInv
<1>1. ASSUME shown' = shown, asked \subseteq asked', doubled'["simple"] = doubled["simple"],
             \A n \in net' \ net : n.kind # "simple"
      PROVE  Silence' /\ Spreading' /\ SimpleShownOnce'
  BY <1>0, <1>1, NothingSimple
<1>2. CASE UNCHANGED vars
  BY <1>1, <1>2 DEF vars
<1>3. ASSUME NEW g \in Gossiper, NEW p \in Gossiper, NEW o \in Gossiper, Issue(g) \/ Hear(g, p, o)
      PROVE  UNCHANGED <<shown, asked, net, doubled>>
  BY <1>3 DEF Issue, Hear
<1>4. ASSUME NEW c \in Message, ClientPrivate(c) \/ SendRouted(c)
      PROVE  /\ shown' = shown /\ asked \subseteq asked' /\ doubled' = doubled
             /\ \A n \in net' \ net : n.kind # "simple"
  <2> DEFINE q == Packet(c.kind, c.origin, c.dst, 0)
  <2>1. c.origin \in Gossiper /\ c.dst \in Gossiper /\ c.kind \in Kinds \ {"simple"}
    BY <1>4, MessageAssumption DEF ClientPrivate, SendRouted, Kinds
  <2>2. q \in Routed
    BY <2>1, PacketOK
  <2>3. /\ shown' = shown /\ asked \subseteq asked' /\ doubled' = doubled
        /\ net' \subseteq net \cup (ToNextHop(c.origin, q) \cup PassOn(c.origin, q))
    BY <1>4 DEF ClientPrivate, SendRouted, FirstAsked
  <2> HIDE DEF q
  <2> QED BY <1>0, <2>1, <2>2, <2>3, SentOnLinks
<1>5. ASSUME NEW g \in Gossiper, NEW m \in net,
             \/ Forward(g, m) \/ AddPrivateMessage(g, m) \/ AnswerDataRequest(g, m)
             \/ TakeReply(g, m)
      PROVE  /\ UNCHANGED <<shown, asked, doubled>>
             /\ \A n \in net' \ net : n.kind # "simple"
  <2>1. UNCHANGED <<shown, asked, doubled>>
    BY <1>5 DEF Forward, AddPrivateMessage, AnswerDataRequest, TakeReply
  <2>2. m.kind # "simple"
    BY <1>5 DEF Forward, AddPrivateMessage, AnswerDataRequest, TakeReply
  <2>3. m \in Routed
    BY <1>0, <2>2 DEF MInv, TypeOK, Simple
  <2>4. m.origin \in Gossiper /\ m.copy \in Nat
    BY <2>3 DEF Routed
  <2>5. PICK q \in Routed : q = Packet("dataReply", g, m.origin, m.copy)
    BY <2>4, PacketOK DEF Kinds
  <2>6. \A n \in net' \ net : n \in PassOn(g, m) \/ n \in ToNextHop(g, q)
    BY <1>5, <2>5 DEF Forward, AddPrivateMessage, AnswerDataRequest, TakeReply
  <2> QED BY <1>0, <2>1, <2>3, <2>6, SentOnLinks
<1>6. ASSUME NEW m \in net, Lose(m)
      PROVE  UNCHANGED <<shown, asked, doubled>> /\ net' \ net = {}
  BY <1>6 DEF Lose
<1>7. ASSUME NEW c \in Message, ClientSimple(c)
      PROVE  Silence' /\ Spreading' /\ SimpleShownOnce'
  BY <1>0, <1>7, SimpleStarts
<1>8. ASSUME NEW g \in Gossiper, NEW m \in net, ReceiveSimple(g, m)
      PROVE  Silence' /\ Spreading' /\ SimpleShownOnce'
  BY <1>0, <1>8, SimpleArrives
<1>9. CASE \E g \in Gossiper : Issue(g)
  BY <1>1, <1>3, <1>9
<1>10. CASE \E g, p, o \in Gossiper : Hear(g, p, o)
  BY <1>1, <1>3, <1>10
<1>11. CASE \E c \in Message : ClientPrivate(c) \/ SendRouted(c) \/ ClientSimple(c)
  BY <1>1, <1>4, <1>7, <1>11
<1>12. CASE \E g \in Gossiper : \E m \in net :
              \/ Forward(g, m) \/ AddPrivateMessage(g, m) \/ AnswerDataRequest(g, m)
              \/ TakeReply(g, m) \/ ReceiveSimple(g, m)
  BY <1>1, <1>5, <1>8, <1>12
<1>13. CASE \E m \in net : Lose(m)
  BY <1>1, <1>6, <1>13
<1>14. ASSUME NEW m \in net, Double(m)
       PROVE  Silence' /\ Spreading' /\ SimpleShownOnce'
  <2>1. CASE m.kind = "simple"
    BY <1>0, <1>14, <2>1, SimpleDoubles
  <2>2. CASE m.kind # "simple"
    <3>1. /\ doubled'["simple"] = doubled["simple"]
          /\ \A n \in net' \ net : n.kind # "simple"
      <4>1. Series(m) # "simple"
        BY <1>0, <1>14, <2>2, DoubleMakes
      <4> QED BY <1>0, <1>14, <2>2, <4>1, DoubleMakes DEF IsCopy, Kinds
    <3>2. shown' = shown /\ asked' = asked
      BY <1>14 DEF Double
    <3> QED BY <1>1, <3>1, <3>2
  <2> QED BY <2>1, <2>2
<1> QED BY <1>2, <1>9, <1>10, <1>11, <1>12, <1>13, <1>14 DEF Next

(***************************************************************************)
(* In a network in simple mode that has no cycle, a message is shown once  *)
(* to each gossiper and never to its author, although nobody remembers it; *)
(* once more, but no more than that, for each time that UDP doubled one of *)
(* its packets (processAddressedSimpleMessage).  In a network with a cycle *)
(* nothing would stop the flood.                                           *)
(***************************************************************************)
THEOREM ShownOnceInTrees ==
  ASSUME SimpleNetsAreTrees, OneSimpleEach
  PROVE  Spec => []SimpleShownOnce
<1>1. Init => SInv
  <2> SUFFICES ASSUME Init PROVE SInv
    OBVIOUS
  <2>1. /\ net = {} /\ peers = InitialPeers
        /\ \A g, o \in Gossiper : nextHop[g][o] = NoHop /\ \A k \in Copy : shown[g][o][k] = 0
    BY DEF Init, RoutesInit
  <2>2. Links
    BY <2>1 DEF Links, Linked
  <2>3. Silence /\ Spreading /\ SimpleShownOnce
    BY <2>1 DEF Silence, Spreading, SimpleShownOnce
  <2> QED BY <2>2, <2>3, InitOK DEF SInv
<1>2. SInv /\ [Next]_vars => SInv'
  BY SimpleStepOK
<1>3. SInv => SimpleShownOnce
  BY DEF SInv
<1> QED BY <1>1, <1>2, <1>3, PTL DEF Spec

-----------------------------------------------------------------------------
\* Private messages from end to end

Carried(m) == [kind |-> m.kind, origin |-> m.origin, dst |-> m.dst]
Key(m) == <<Carried(m), m.copy>>
Keys(S) == {Key(m) : m \in {n \in S : n.kind = "private"}}

\* Of each copy of a client's message one packet is in flight at most.
OneEach(S) ==
  \A m, n \in S : m.kind = "private" /\ n.kind = "private" /\ Key(m) = Key(n) => m = n

\* What is in flight was asked for, and its number is not above the last one.
Known == \A k \in Keys(net) : k[1] \in asked /\ k[2] \in Nat /\ k[2] <= doubled["private"]

DInv == MInv /\ OneEach(net) /\ Known

(***************************************************************************)
(* The messages of two sets of packets, and of one without messages        *)
(***************************************************************************)
LEMMA KeysJoin ==
  ASSUME NEW S, NEW T
  PROVE  /\ Keys(S \cup T) = Keys(S) \cup Keys(T)
         /\ (\A m \in T : m.kind # "private") => Keys(T) = {}
BY DEF Keys

(***************************************************************************)
(* A message leaves with the only packet that holds it.                    *)
(***************************************************************************)
LEMMA KeysLeave ==
  ASSUME NEW S, NEW m \in S, OneEach(S)
  PROVE  /\ OneEach(S \ {m})
         /\ Keys(S \ {m}) = IF m.kind = "private" THEN Keys(S) \ {Key(m)} ELSE Keys(S)
<1>1. CASE m.kind = "private"
  <2>1. \A k : k \in Keys(S \ {m}) <=> \E n \in S : n # m /\ n.kind = "private" /\ k = Key(n)
    BY DEF Keys
  <2>2. \A k : k \in Keys(S) <=> \E n \in S : n.kind = "private" /\ k = Key(n)
    BY DEF Keys
  <2>3. \A n \in S : n.kind = "private" /\ Key(n) = Key(m) => n = m
    BY <1>1 DEF OneEach
  <2> HIDE DEF Key
  <2>4. Keys(S \ {m}) = Keys(S) \ {Key(m)}
    BY <1>1, <2>1, <2>2, <2>3
  <2> QED BY <1>1, <2>4 DEF OneEach
<1>2. CASE m.kind # "private"
  BY <1>2 DEF Keys, OneEach
<1> QED BY <1>1, <1>2

(***************************************************************************)
(* What is passed on is at most one packet, with the same message in it.   *)
(***************************************************************************)
LEMMA PassOnKey ==
  ASSUME NEW g \in Gossiper, NEW m \in Routed
  PROVE  /\ \A n \in PassOn(g, m) : n.kind = m.kind /\ Key(n) = Key(m)
         /\ \A n, k \in PassOn(g, m) : n = k
         /\ \A n \in ToNextHop(g, m) : n.kind = m.kind
<1>1. \A n, k \in PassOn(g, m) : n = k
  BY DEF PassOn, ToNextHop
<1>2. \A n \in ToNextHop(g, m) : n.kind = m.kind
  BY DEF Routed, ToNextHop
<1>3. \A n \in PassOn(g, m) : n.kind = m.kind /\ Key(n) = Key(m)
  <2>1. \A n \in PassOn(g, m) : /\ n.kind = m.kind /\ n.origin = m.origin
                                /\ n.dst = m.dst /\ n.copy = m.copy
    BY DEF Routed, PassOn, ToNextHop
  <2> QED BY <2>1 DEF Key, Carried
<1> QED BY <1>1, <1>2, <1>3

(***************************************************************************)
(* One packet, with a copy that no other packet holds, may join.           *)
(***************************************************************************)
LEMMA OneJoins ==
  ASSUME NEW S, NEW T, OneEach(S), \A n, k \in T : n = k,
         \A n \in T : n.kind = "private" => Key(n) \notin Keys(S)
  PROVE  OneEach(S \cup T)
<1> SUFFICES ASSUME NEW m \in S \cup T, NEW n \in S \cup T,
                    m.kind = "private", n.kind = "private", Key(m) = Key(n)
             PROVE  m = n
  BY DEF OneEach
<1>1. \A k \in S : k.kind = "private" => Key(k) \in Keys(S)
  BY DEF Keys
<1>2. CASE m \in S /\ n \in S
  BY <1>2 DEF OneEach
<1>3. CASE m \in T /\ n \in T
  BY <1>3
<1> HIDE DEF Key
<1> QED BY <1>1, <1>2, <1>3

(***************************************************************************)
(* Packets that hold no private message change nothing from end to end.    *)
(***************************************************************************)
LEMMA NothingPrivate ==
  ASSUME DInv, NEW rest, NEW out, rest = net \/ (\E m \in net : m.kind # "private" /\ rest = net \ {m}),
         net' = rest \cup out, \A n \in out : n.kind # "private",
         asked \subseteq asked', doubled'["private"] = doubled["private"]
  PROVE  Keys(net') = Keys(net) /\ OneEach(net') /\ Known'
<1>1. Keys(rest) = Keys(net) /\ OneEach(rest)
  BY KeysLeave DEF DInv
<1>2. Keys(net') = Keys(net)
  <2>1. Keys(net') = Keys(rest) \cup Keys(out) /\ Keys(out) = {}
    BY KeysJoin
  <2> QED BY <1>1, <2>1
<1>3. OneEach(net')
  BY <1>1 DEF OneEach
<1> QED BY <1>2, <1>3 DEF DInv, Known

(***************************************************************************)
(* A client's message starts out, in one packet or none.                   *)
(***************************************************************************)
LEMMA ClientSends ==
  ASSUME DInv, NEW c \in Message, ClientPrivate(c)
  PROVE  OneEach(net') /\ Known' /\ Delivery!Send(c)
<1> DEFINE q == Packet(c.kind, c.origin, c.dst, 0)
<1>1. /\ c.kind = "private" /\ c \notin asked /\ asked' = asked \cup {c} /\ doubled' = doubled
      /\ c.origin \in Gossiper /\ c.dst \in Gossiper
      /\ c = [kind |-> c.kind, origin |-> c.origin, dst |-> c.dst]
  BY MessageAssumption DEF ClientPrivate, FirstAsked
<1>2. q \in Routed /\ q.kind = "private" /\ Key(q) = <<c, 0>>
  <2>1. q \in Routed
    BY <1>1, PacketOK DEF Kinds
  <2> QED BY <1>1, <2>1 DEF Packet, Key, Carried
<1>3. Privates \subseteq Message /\ c \in Privates
  BY <1>1 DEF Privates
<1>4. asked' \cap Privates = (asked \cap Privates) \cup {c} /\ c \notin asked \cap Privates
  BY <1>1, <1>3
<1>5. CASE c.dst = c.origin
  <2>1. net' = net /\ inbox' = [inbox EXCEPT ![c.dst] = Append(@, c)]
    BY <1>5 DEF ClientPrivate
  <2>2. OneEach(net') /\ Known'
    BY <1>1, <2>1 DEF DInv, Known
  <2>3. Delivery!Send(c)
    BY <1>1, <1>4, <2>1 DEF Delivery!Send, Delivery!Delivered, EndToEnd, ReceiverOf
  <2> QED BY <2>2, <2>3
<1>6. CASE c.dst # c.origin
  <2>1. net' = net \cup PassOn(c.origin, q) /\ inbox' = inbox
    BY <1>6 DEF ClientPrivate
  <2>2. /\ \A n \in PassOn(c.origin, q) : n.kind = "private" /\ Key(n) = <<c, 0>>
        /\ \A n, k \in PassOn(c.origin, q) : n = k
    BY <1>1, <1>2, PassOnKey
  <2>3. Keys(PassOn(c.origin, q)) \in {{}, {<<c, 0>>}}
    BY <2>2 DEF Keys
  <2>4. Keys(net') = Keys(net) \/ Keys(net') = Keys(net) \cup {<<c, 0>>}
    BY <2>1, <2>3, KeysJoin
  <2>5. OneEach(net')
    <3>1. <<c, 0>> \notin Keys(net)
      BY <1>1 DEF DInv, Known
    <3> QED BY <2>1, <2>2, <3>1, OneJoins DEF DInv
  <2>6. EndToEnd = Keys(net) /\ EndToEnd' = Keys(net')
    BY DEF EndToEnd, Keys, Key, Carried
  <2>7. Delivery!Send(c)
    BY <1>1, <1>4, <2>1, <2>4, <2>6 DEF Delivery!Send
  <2>8. Known'
    <3>1. 0 <= doubled["private"]
      BY DoublingsAssumption DEF DInv, MInv, TypeOK, Kinds
    <3> QED BY <1>1, <2>4, <3>1 DEF DInv, Known
  <2> QED BY <2>5, <2>7, <2>8
<1> QED BY <1>5, <1>6

(***************************************************************************)
(* A private message passed on is the same message, or is lost.            *)
(***************************************************************************)
LEMMA ForwardCarries ==
  ASSUME DInv, NEW g \in Gossiper, NEW m \in net, Forward(g, m) \/ Lose(m)
  PROVE  /\ OneEach(net') /\ Known'
         /\ Keys(net') = Keys(net) \/ (m.kind = "private" /\ Keys(net') = Keys(net) \ {Key(m)})
<1>1. asked' = asked /\ doubled' = doubled
  BY DEF Forward, Lose
<1>2. CASE Lose(m)
  <2>1. net' = net \ {m}
    BY <1>2 DEF Lose
  <2> QED BY <1>1, <2>1, KeysLeave DEF DInv, Known
<1>3. CASE Forward(g, m)
  <2>1. m.kind # "simple" /\ net' = (net \ {m}) \cup PassOn(g, m)
    BY <1>3 DEF Forward
  <2>2. m \in Routed
    BY <2>1 DEF DInv, MInv, TypeOK, Simple
  <2>3. /\ \A n \in PassOn(g, m) : n.kind = m.kind /\ Key(n) = Key(m)
        /\ \A n, k \in PassOn(g, m) : n = k
    BY <2>2, PassOnKey
  <2>4. CASE m.kind # "private"
    BY <1>1, <2>1, <2>3, <2>4, NothingPrivate
  <2>5. CASE m.kind = "private"
    <3>1. Keys(net \ {m}) = Keys(net) \ {Key(m)} /\ OneEach(net \ {m})
      BY <2>5, KeysLeave DEF DInv
    <3>2. Keys(PassOn(g, m)) \in {{}, {Key(m)}}
      BY <2>3 DEF Keys
    <3>3. Key(m) \in Keys(net)
      BY <2>5 DEF Keys
    <3>4. Keys(net') = Keys(net) \/ Keys(net') = Keys(net) \ {Key(m)}
      <4>1. Keys(net') = (Keys(net) \ {Key(m)}) \cup Keys(PassOn(g, m))
        BY <2>1, <3>1, KeysJoin
      <4> HIDE DEF Key
      <4> QED BY <3>2, <3>3, <4>1
    <3>5. OneEach(net')
      BY <2>1, <2>3, <3>1, OneJoins
    <3> QED BY <1>1, <2>5, <3>4, <3>5 DEF DInv, Known
  <2> QED BY <2>4, <2>5
<1> QED BY <1>2, <1>3

(***************************************************************************)
(* A copy that the network makes of a private message has a number of its  *)
(* own.                                                                    *)
(***************************************************************************)
LEMMA PrivateDoubles ==
  ASSUME DInv, NEW m \in net, m.kind = "private", Double(m)
  PROVE  OneEach(net') /\ Known' /\ Key(m) \in Keys(net) /\ Delivery!Double(Key(m))
<1> DEFINE j == doubled'["private"]
           x == <<Carried(m), j>>
<1>1. /\ doubled["private"] \in Nat /\ j = doubled["private"] + 1
      /\ \E n : net' = net \cup {n} /\ IsCopy(n, m, j)
  BY DoubleMakes DEF DInv, Kinds
<1>2. PICK n : net' = net \cup {n} /\ IsCopy(n, m, j)
  BY <1>1
<1>3. n.kind = "private" /\ Key(n) = x
  BY <1>2 DEF IsCopy, Key, Carried
<1>4. asked' = asked /\ inbox' = inbox
  BY DEF Double
<1>5. Key(m) \in Keys(net) /\ Carried(m) \in asked
  <2>1. Key(m) \in Keys(net)
    BY DEF Keys
  <2>2. Key(m)[1] = Carried(m)
    BY DEF Key
  <2> QED BY <2>1, <2>2 DEF DInv, Known
<1>6. x \notin Keys(net)
  BY <1>1 DEF DInv, Known
<1>7. OneEach(net')
  <2> DEFINE T == {n}
  <2>1. \A i, k \in T : i = k
    OBVIOUS
  <2>2. \A i \in T : i.kind = "private" => Key(i) \notin Keys(net)
    BY <1>3, <1>6
  <2>3. net' = net \cup T /\ OneEach(net)
    BY <1>2 DEF DInv
  <2> HIDE DEF T
  <2> QED BY <2>1, <2>2, <2>3, OneJoins
<1>8. Keys(net') = Keys(net) \cup {x}
  <2>1. \A k : k \in Keys(net') <=> \E i \in net' : i.kind = "private" /\ k = Key(i)
    BY DEF Keys
  <2>2. \A k : k \in Keys(net) <=> \E i \in net : i.kind = "private" /\ k = Key(i)
    BY DEF Keys
  <2> HIDE DEF x
  <2> QED BY <1>2, <1>3, <2>1, <2>2
<1>9. Known'
  BY <1>1, <1>4, <1>5, <1>8 DEF DInv, Known
<1>10. EndToEnd = Keys(net) /\ EndToEnd' = Keys(net')
  BY DEF EndToEnd, Keys, Key, Carried
<1>11. Key(m)[1] = Carried(m)
  BY DEF Key
<1>12. Delivery!Double(Key(m))
  BY <1>1, <1>4, <1>8, <1>10, <1>11 DEF Delivery!Double
<1> QED BY <1>5, <1>7, <1>9, <1>12

(***************************************************************************)
(* A step seen from end to end, and the invariant it keeps.                *)
(***************************************************************************)
LEMMA StepDelivers == DInv /\ [Next]_vars => DInv' /\ [Delivery!Next]_(Delivery!vars)
<1> SUFFICES ASSUME DInv, [Next]_vars PROVE DInv' /\ [Delivery!Next]_(Delivery!vars)
  OBVIOUS
<1>0. MInv'
  BY StepOK DEF DInv
<1>1. EndToEnd = Keys(net) /\ EndToEnd' = Keys(net')
  BY DEF EndToEnd, Keys, Key, Carried
<1>2. \A c \in Message : c.kind = "private" <=> c \in Privates
  BY DEF Privates
<1>3. ASSUME NEW m \in net, m.kind = "private"
      PROVE  Carried(m) \in Privates /\ Key(m) \in Keys(net) /\ Key(m)[1] = Carried(m)
  <2>1. [kind |-> "private", origin |-> m.origin, dst |-> m.dst] \in Message
    BY <1>3 DEF DInv, MInv, PacketsInv, Genuine
  <2> QED BY <1>3, <2>1 DEF Carried, Key, Keys, Privates
<1>4. CASE /\ UNCHANGED <<inbox, asked>> /\ doubled'["private"] = doubled["private"]
           /\ OneEach(net') /\ Keys(net') = Keys(net)
  BY <1>0, <1>1, <1>4 DEF Delivery!vars, DInv, Known
<1>5. CASE UNCHANGED vars
  <2>1. UNCHANGED <<inbox, asked, net, doubled>>
    BY <1>5 DEF vars
  <2> QED BY <1>4, <2>1 DEF DInv
<1>6. ASSUME NEW g \in Gossiper, NEW p \in Gossiper, NEW o \in Gossiper, Issue(g) \/ Hear(g, p, o)
      PROVE  UNCHANGED <<inbox, asked, net, doubled>>
  BY <1>6 DEF Issue, Hear
<1>7. ASSUME NEW c \in Message, ClientPrivate(c)
      PROVE  DInv' /\ [Delivery!Next]_(Delivery!vars)
  <2>1. c \in Privates
    BY <1>2, <1>7 DEF ClientPrivate
  <2> QED BY <1>0, <1>7, <2>1, ClientSends DEF DInv, Delivery!Next
<1>8. ASSUME NEW c \in Message, SendRouted(c) \/ ClientSimple(c)
      PROVE  DInv' /\ [Delivery!Next]_(Delivery!vars)
  <2>1. /\ c \notin Privates /\ asked' = asked \cup {c} /\ c.origin \in Gossiper
        /\ inbox' = inbox /\ doubled' = doubled
    BY <1>8, <1>2, MessageAssumption DEF SendRouted, ClientSimple, FirstAsked
  <2>2. PICK out : net' = net \cup out /\ \A n \in out : n.kind # "private"
    <3>1. CASE SendRouted(c)
      <4>1. c.kind \in {"dataRequest", "searchReply"} /\ c.origin \in Gossiper /\ c.dst \in Gossiper
        BY <3>1, MessageAssumption DEF SendRouted
      <4>2. Packet(c.kind, c.origin, c.dst, 0) \in Routed
        BY <4>1, PacketOK DEF Kinds
      <4>3. \A n \in ToNextHop(c.origin, Packet(c.kind, c.origin, c.dst, 0)) : n.kind = c.kind
        BY <4>1, <4>2, PassOnKey DEF Packet
      <4> QED BY <3>1, <4>1, <4>3 DEF SendRouted
    <3>2. CASE ClientSimple(c)
      <4>1. \A n \in Copies(c.origin, c.origin, 0, peers[c.origin], {}) : n.kind # "private"
        BY DEF Copies
      <4> QED BY <3>2, <4>1 DEF ClientSimple
    <3> QED BY <1>8, <3>1, <3>2
  <2>3. Keys(net') = Keys(net) /\ OneEach(net') /\ Known'
    BY <2>1, <2>2, NothingPrivate
  <2>4. asked' \cap Privates = asked \cap Privates
    BY <2>1
  <2> QED BY <1>0, <1>1, <2>1, <2>3, <2>4 DEF DInv, Delivery!vars
<1>9. ASSUME NEW g \in Gossiper, NEW m \in net, Forward(g, m) \/ Lose(m)
      PROVE  DInv' /\ [Delivery!Next]_(Delivery!vars)
  <2>1. /\ OneEach(net') /\ Known'
        /\ Keys(net') = Keys(net) \/ (m.kind = "private" /\ Keys(net') = Keys(net) \ {Key(m)})
    BY <1>9, ForwardCarries
  <2>2. UNCHANGED <<inbox, asked, doubled>>
    BY <1>9 DEF Forward, Lose
  <2>3. CASE Keys(net') = Keys(net)
    BY <1>4, <2>1, <2>2, <2>3
  <2>4. CASE m.kind = "private" /\ Keys(net') = Keys(net) \ {Key(m)}
    <3>1. Key(m) \in Keys(net)
      BY <1>3, <2>4
    <3> HIDE DEF Key
    <3>2. Delivery!Lose(Key(m))
      BY <1>1, <2>2, <2>4, <3>1 DEF Delivery!Lose
    <3> QED BY <1>0, <1>1, <2>1, <3>1, <3>2 DEF DInv, Delivery!Next
  <2> QED BY <2>1, <2>3, <2>4
<1>10. ASSUME NEW g \in Gossiper, NEW m \in net, AddPrivateMessage(g, m)
       PROVE  DInv' /\ [Delivery!Next]_(Delivery!vars)
  <2>1. /\ m.kind = "private" /\ m.dst = g /\ net' = net \ {m}
        /\ asked' = asked /\ doubled' = doubled
        /\ inbox' = [inbox EXCEPT ![g] = Append(@, Carried(m))]
    BY <1>10 DEF AddPrivateMessage, Carried
  <2>2. Keys(net') = Keys(net) \ {Key(m)} /\ OneEach(net')
    BY <2>1, KeysLeave DEF DInv
  <2>3. Key(m) \in Keys(net) /\ Key(m)[1] = Carried(m) /\ ReceiverOf(Carried(m)) = g
    BY <1>3, <2>1 DEF ReceiverOf, Carried
  <2> HIDE DEF Key
  <2>4. Delivery!Arrive(Key(m))
    BY <1>1, <2>1, <2>2, <2>3 DEF Delivery!Arrive, Delivery!Delivered
  <2>5. Known'
    BY <2>1, <2>2 DEF DInv, Known
  <2> QED BY <1>0, <1>1, <2>2, <2>3, <2>4, <2>5 DEF DInv, Delivery!Next
<1>11. ASSUME NEW g \in Gossiper, NEW m \in net,
              AnswerDataRequest(g, m) \/ TakeReply(g, m) \/ ReceiveSimple(g, m)
       PROVE  DInv' /\ [Delivery!Next]_(Delivery!vars)
  <2>1. m.kind # "private" /\ UNCHANGED <<inbox, asked, doubled>> /\ m \in Routed \cup Simple
    BY <1>11 DEF AnswerDataRequest, TakeReply, ReceiveSimple, DInv, MInv, TypeOK
  <2>2. PICK out : net' = (net \ {m}) \cup out /\ \A n \in out : n.kind # "private"
    <3>0. net' = net \ {m} => \E out : net' = (net \ {m}) \cup out /\ out = {}
      OBVIOUS
    <3>1. CASE AnswerDataRequest(g, m)
      <4>1. m.origin \in Gossiper /\ m.copy \in Nat
        BY <2>1, <3>1 DEF AnswerDataRequest, Routed, Simple
      <4>2. Packet("dataReply", g, m.origin, m.copy) \in Routed
        BY <4>1, PacketOK DEF Kinds
      <4>3. \A n \in ToNextHop(g, Packet("dataReply", g, m.origin, m.copy)) : n.kind = "dataReply"
        BY <4>2, PassOnKey DEF Packet
      <4>4. \/ net' = (net \ {m}) \cup ToNextHop(g, Packet("dataReply", g, m.origin, m.copy))
            \/ net' = net \ {m}
        BY <3>1 DEF AnswerDataRequest
      <4> QED BY <3>0, <4>3, <4>4
    <3>2. CASE TakeReply(g, m)
      BY <3>0, <3>2 DEF TakeReply
    <3>3. CASE ReceiveSimple(g, m)
      <4>1. \A n \in Copies(g, m.origin, m.copy, peers'[g], {m.src}) : n.kind # "private"
        BY DEF Copies
      <4> QED BY <3>3, <4>1 DEF ReceiveSimple
    <3> QED BY <1>11, <3>1, <3>2, <3>3
  <2>3. Keys(net') = Keys(net) /\ OneEach(net')
    BY <2>1, <2>2, NothingPrivate
  <2> QED BY <1>4, <2>1, <2>3
<1>12. CASE UNCHANGED <<inbox, asked, net, doubled>>
  BY <1>4, <1>12 DEF DInv
<1>13. ASSUME NEW m \in net, Lose(m) PROVE DInv' /\ [Delivery!Next]_(Delivery!vars)
  <2>1. \E g \in Gossiper : TRUE
    BY DEF DInv, MInv, TypeOK, Routed, Simple
  <2> QED BY <1>9, <1>13, <2>1
<1>14. ASSUME NEW m \in net, Double(m) PROVE DInv' /\ [Delivery!Next]_(Delivery!vars)
  <2>1. CASE m.kind = "private"
    BY <1>0, <1>1, <1>14, <2>1, PrivateDoubles DEF DInv, Delivery!Next
  <2>2. CASE m.kind # "private"
    <3>1. Series(m) # "private"
      BY <1>14, <2>2, DoubleMakes DEF DInv
    <3>2. PICK out : /\ net' = net \cup out /\ \A n \in out : n.kind # "private"
                     /\ doubled'["private"] = doubled["private"]
      <4>1. PICK n : net' = net \cup {n} /\ n.kind = m.kind
        BY <1>14, DoubleMakes DEF DInv, IsCopy
      <4>2. doubled'["private"] = doubled["private"]
        BY <1>14, <3>1, DoubleMakes DEF DInv, Kinds
      <4> DEFINE out == {n}
      <4>3. net' = net \cup out /\ \A i \in out : i.kind # "private"
        BY <2>2, <4>1
      <4> HIDE DEF out
      <4> QED BY <4>2, <4>3
    <3>3. inbox' = inbox /\ asked' = asked
      BY <1>14 DEF Double
    <3>4. Keys(net') = Keys(net) /\ OneEach(net')
      BY <3>2, <3>3, NothingPrivate
    <3> QED BY <1>4, <3>2, <3>3, <3>4
  <2> QED BY <2>1, <2>2
<1> QED BY <1>5, <1>6, <1>7, <1>8, <1>9, <1>10, <1>11, <1>12, <1>13, <1>14 DEF Next

(***************************************************************************)
(* From end to end a private message arrives only where it was sent, and   *)
(* once, or once for each copy if UDP doubled it on the way, whatever it   *)
(* doubles and however often: no gossiper repeats it or keeps it while it  *)
(* passes it on (processPrivateMessage, AddPrivateMessage).                *)
(***************************************************************************)
THEOREM DeliveryRefinement == Spec => ImplementsDelivery
<1>1. Init => DInv /\ Delivery!Init
  <2> SUFFICES ASSUME Init PROVE DInv /\ Delivery!Init
    OBVIOUS
  <2>1. /\ net = {} /\ asked = {} /\ inbox = [g \in Gossiper |-> <<>>]
        /\ doubled["private"] = 0
    BY DEF Init, Kinds
  <2>2. Keys(net) = {} /\ EndToEnd = {} /\ OneEach(net)
    BY <2>1 DEF Keys, EndToEnd, OneEach
  <2> QED BY <2>1, <2>2, InitOK DEF DInv, Known, Delivery!Init
<1> QED BY <1>1, StepDelivers, PTL DEF Spec, ImplementsDelivery, Delivery!Spec
===============================================================================
