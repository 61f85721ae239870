------------------------ MODULE RumorRefinementProofs ------------------------
(***************************************************************************)
(* Proofs that the network of gossipers implements RumorRouting and        *)
(* RumorBroadcast, for any number of gossipers, any peers and any bounds.  *)
(*                                                                         *)
(* Only two handlers change a clock or a next hop.  A client's rumor is    *)
(* the next one of its author's; a rumor from a peer that is new is one    *)
(* that peer holds, so that the peer is ahead, and it becomes the next     *)
(* hop.  All other steps leave storages and next hops alone.               *)
(***************************************************************************)
EXTENDS RumorDelivery, RumorMongeringProofs, SequenceTheorems

(***************************************************************************)
(* A rumor of the client or of the route-rumor thread is its author's next *)
(* one, and the author stores it (processRumorMessage).                    *)
(***************************************************************************)
LEMMA ClientRumorStores ==
  ASSUME IInv, NEW g \in Gossiper, NEW x \in Text, ClientRumor(g, x)
  PROVE  \E r \in Rumor :
           /\ IsNewMessage(storage[g], r) /\ r.origin = g /\ r.text = x
           /\ \A h \in Gossiper \ {g} : storage'[h] = storage[h]
           /\ storage'[g] = AddRumorMessage(storage[g], r)
<1> DEFINE r == [origin |-> g, id |-> GetNextMessageId(storage[g], g), text |-> x]
           t == Turn(channels[g], mongers[g], net, {})
<1>1. ProcessRumorMessage(g, r, peers[g], t)
  BY DEF ClientRumor
<1>2. TypeOK /\ peers[g] \subseteq Gossiper
  BY DEF IInv, TypeOK
<1>3. r \in Rumor /\ IsNewMessage(storage[g], r) /\ r.origin = g /\ r.text = x
  <2>1. storage[g].clock[g] \in Nat
    BY <1>2, GossiperAssumption DEF TypeOK, Storage
  <2> QED BY <2>1, GossiperAssumption DEF Rumor, GetNextMessageId, IsNewMessage
<1>4. TurnTrue(storage, g, t)
  BY TurnStartsTrue
<1> HIDE DEF r, t
<1>5. /\ \A h \in Gossiper \ {g} : storage'[h] = storage[h]
      /\ storage'[g] = AddRumorMessage(storage[g], r)
  BY <1>1, <1>2, <1>3, <1>4, ProcessTrue
<1> QED BY <1>3, <1>5

(***************************************************************************)
(* A rumor from a peer is one that the peer holds, and the receiver stores *)
(* it if it is new (processRumorMessage).                                  *)
(***************************************************************************)
LEMMA ReceivedRumorStores ==
  ASSUME IInv, NEW g \in Gossiper, NEW m \in net, ReceiveRumor(g, m)
  PROVE  /\ m.src \in Gossiper /\ m.rumor \in Rumor /\ Holds(storage, m.src, m.rumor)
         /\ \A h \in Gossiper \ {g} : storage'[h] = storage[h]
         /\ storage'[g] = AddRumorMessage(storage[g], m.rumor)
<1> DEFINE t == Turn(channels[g], mongers[g], net \ {m}, {StatusTo(g, m.src)})
<1>1. m.src \in Gossiper /\ m.rumor \in Rumor /\ Holds(storage, m.src, m.rumor)
  BY PacketFields DEF ReceiveRumor
<1>2. ProcessRumorMessage(g, m.rumor, peers[g] \cup {m.src}, t)
  BY DEF ReceiveRumor
<1>3. peers[g] \cup {m.src} \subseteq Gossiper
  BY <1>1 DEF IInv, TypeOK
<1>4. TurnTrue(storage, g, t)
  <2>1. TurnTrue(storage, g, Turn(channels[g], mongers[g], net \ {m}, {}))
    BY TurnStartsTrue
  <2>2. TurnTrue(storage, g, [Turn(channels[g], mongers[g], net \ {m}, {})
                                EXCEPT !.out = @ \cup {StatusTo(g, m.src)}])
    BY <1>1, <2>1, AskTurnTrue
  <2>3. [Turn(channels[g], mongers[g], net \ {m}, {})
           EXCEPT !.out = @ \cup {StatusTo(g, m.src)}] = t
    BY DEF Turn
  <2> QED BY <2>2, <2>3
<1> HIDE DEF t
<1> QED BY <1>1, <1>2, <1>3, <1>4, ProcessTrue

(***************************************************************************)
(* Storages change only when a rumor comes from a client or a peer, and    *)
(* next hops with them.                                                    *)
(***************************************************************************)
LEMMA OnlyRumorsMove ==
  ASSUME [Next]_vars
  PROVE  \/ nextHop' = nextHop /\ storage' = storage
         \/ \E g \in Gossiper : \E x \in Text : ClientRumor(g, x)
         \/ \E g \in Gossiper : \E m \in net : ReceiveRumor(g, m)
<1>1. ASSUME NEW g \in Gossiper, NEW m \in net, Receive(g, m)
      PROVE  ReceiveRumor(g, m) \/ (nextHop' = nextHop /\ storage' = storage)
  BY <1>1 DEF Receive, ReceiveStatus, HandStatus, BlockOnStatus
<1>2. ASSUME NEW g \in Gossiper, NEW d \in mongers[g], MongerStep(g, d)
      PROVE  nextHop' = nextHop /\ storage' = storage
  BY <1>2 DEF MongerStep, MongerTimeout, MongerCleanUp, MongerStatus, MongerSpread
<1>3. ASSUME NEW g \in Gossiper, NEW p \in Gossiper, AntiEntropy(g, p) \/ AddPeer(g, p)
      PROVE  nextHop' = nextHop /\ storage' = storage
  BY <1>3 DEF AntiEntropy, AddPeer
<1>4. CASE UNCHANGED vars
  BY <1>4 DEF vars
<1> QED BY <1>1, <1>2, <1>3, <1>4 DEF Next

-----------------------------------------------------------------------------
\* Clocks and next hops, as RumorRouting sees them

\* What RumorRouting sees of the storages
Clocks == [g \in Gossiper |-> storage[g].clock]

(***************************************************************************)
(* A new gossiper has heard of nobody (MakeMessageStorage, nextHop empty). *)
(***************************************************************************)
LEMMA RoutesStart == Init => Routing!RoutesInit
<1> SUFFICES ASSUME Init PROVE Routing!RoutesInit
  OBVIOUS
<1>1. \A g \in Gossiper : storage[g] = InitMessageStorage
  BY DEF Init
<1>2. InitMessageStorage.clock = [o \in Gossiper |-> 0]
  BY GossiperAssumption DEF InitMessageStorage
<1>3. Clocks = [g \in Gossiper |-> [o \in Gossiper |-> 0]]
  BY <1>1, <1>2 DEF Clocks
<1>4. nextHop = [g \in Gossiper |-> [o \in Gossiper |-> NoHop]]
  BY DEF Init
<1> QED BY <1>3, <1>4 DEF Clocks, Routing!RoutesInit

(***************************************************************************)
(* Storing a new rumor adds one to one entry of the clock, and storing any *)
(* other changes nothing (AddRumorMessage).                                *)
(***************************************************************************)
LEMMA ClocksMove ==
  ASSUME IInv, NEW g \in Gossiper, NEW r \in Rumor,
         \A h \in Gossiper \ {g} : storage'[h] = storage[h],
         storage'[g] = AddRumorMessage(storage[g], r)
  PROVE  Clocks' = IF IsNewMessage(storage[g], r)
                   THEN [Clocks EXCEPT ![g][r.origin] = @ + 1]
                   ELSE Clocks
<1>1. storage[g].clock \in [Gossiper -> Nat] /\ r.origin \in Gossiper
  BY GossiperAssumption DEF IInv, TypeOK, Storage, Rumor
<1>2. \A h \in Gossiper : Clocks[h] = storage[h].clock /\ Clocks'[h] = storage'[h].clock
  BY DEF Clocks
<1>3. \A h \in Gossiper \ {g} : Clocks'[h] = Clocks[h]
  BY <1>2
<1>4. DOMAIN Clocks = Gossiper /\ DOMAIN Clocks' = Gossiper
  BY DEF Clocks
<1>5. CASE IsNewMessage(storage[g], r)
  <2>1. storage'[g].clock = [storage[g].clock EXCEPT ![r.origin] = @ + 1]
    BY <1>5 DEF IsNewMessage, AddRumorMessage
  <2>2. Clocks'[g] = [Clocks[g] EXCEPT ![r.origin] = @ + 1]
    BY <1>2, <2>1
  <2>3. Clocks' = [h \in Gossiper |-> Clocks'[h]]
    BY DEF Clocks
  <2>4. [Clocks EXCEPT ![g][r.origin] = @ + 1]
          = [h \in Gossiper |-> IF h = g THEN [Clocks[g] EXCEPT ![r.origin] = @ + 1]
                                         ELSE Clocks[h]]
    BY <1>4
  <2> QED BY <1>3, <1>5, <2>2, <2>3, <2>4
<1>6. CASE ~IsNewMessage(storage[g], r)
  <2>1. storage'[g] = storage[g]
    BY <1>6 DEF IsNewMessage, AddRumorMessage
  <2>2. \A h \in Gossiper : storage'[h] = storage[h]
    BY <2>1
  <2> QED BY <1>6, <2>2 DEF Clocks
<1> QED BY <1>5, <1>6

(***************************************************************************)
(* A rumor of the client or of the route-rumor thread adds one to its      *)
(* author's own count and turns no next hop (processRumorMessage).         *)
(***************************************************************************)
LEMMA ClientRumorIssues ==
  ASSUME IInv, NEW g \in Gossiper, NEW x \in Text, ClientRumor(g, x)
  PROVE  Routing!IssueRumor(g)
<1>1. PICK r \in Rumor : /\ IsNewMessage(storage[g], r) /\ r.origin = g
                         /\ \A h \in Gossiper \ {g} : storage'[h] = storage[h]
                         /\ storage'[g] = AddRumorMessage(storage[g], r)
  BY ClientRumorStores
<1>2. Clocks' = [Clocks EXCEPT ![g][g] = @ + 1]
  BY <1>1, ClocksMove
<1>3. nextHop' = nextHop
  BY DEF ClientRumor
<1> QED BY <1>2, <1>3 DEF Clocks, Routing!IssueRumor

(***************************************************************************)
(* A new rumor from a peer that is ahead adds one to the count of its      *)
(* origin and makes the peer the next hop; an old one changes neither      *)
(* (processRumorMessage, updateNextHop).                                   *)
(***************************************************************************)
LEMMA ReceivedRumorIsHeard ==
  ASSUME IInv, NEW g \in Gossiper, NEW m \in net, ReceiveRumor(g, m)
  PROVE  \/ \E p, o \in Gossiper : Routing!HearRumor(g, p, o)
         \/ UNCHANGED Routing!routes
<1> DEFINE r == m.rumor
<1>1. /\ m.src \in Gossiper /\ r \in Rumor /\ Holds(storage, m.src, r)
      /\ \A h \in Gossiper \ {g} : storage'[h] = storage[h]
      /\ storage'[g] = AddRumorMessage(storage[g], r)
  BY ReceivedRumorStores
<1>2. r.origin \in Gossiper
  BY <1>1, GossiperAssumption DEF Rumor
<1>3. Clocks' = IF IsNewMessage(storage[g], r)
                THEN [Clocks EXCEPT ![g][r.origin] = @ + 1]
                ELSE Clocks
  BY <1>1, ClocksMove
<1>4. UpdateNextHop(g, m)
  BY DEF ReceiveRumor
<1>5. CASE IsNewMessage(storage[g], r)
  <2>1. nextHop' = [nextHop EXCEPT ![g][r.origin] = m.src]
    BY <1>4, <1>5 DEF UpdateNextHop
  <2>2. Clocks[g][r.origin] < Clocks[m.src][r.origin]
    <3>1. r.id <= storage[m.src].clock[r.origin] /\ r.id - 1 = storage[g].clock[r.origin]
      BY <1>1, <1>5, HeldIsIssued DEF IsNewMessage
    <3>2. /\ r.id \in Nat /\ storage[g].clock[r.origin] \in Nat
          /\ storage[m.src].clock[r.origin] \in Nat
      BY <1>1, <1>2, ClockStep DEF Rumor
    <3> QED BY <1>1, <3>1, <3>2 DEF Clocks
  <2>3. Clocks' = [Clocks EXCEPT ![g][r.origin] = @ + 1]
    BY <1>3, <1>5
  <2> HIDE DEF r
  <2>4. Routing!HearRumor(g, m.src, r.origin)
    BY <2>1, <2>2, <2>3 DEF Clocks, Routing!HearRumor
  <2> QED BY <1>1, <1>2, <2>4
<1>6. CASE ~IsNewMessage(storage[g], r)
  <2>1. nextHop' = nextHop /\ Clocks' = Clocks
    BY <1>3, <1>4, <1>6 DEF UpdateNextHop
  <2> QED BY <2>1 DEF Clocks, Routing!routes
<1> QED BY <1>5, <1>6

(***************************************************************************)
(* Every step of every handler and goroutine is a step of RumorRouting or  *)
(* leaves clocks and next hops alone.                                      *)
(***************************************************************************)
LEMMA StepRoutes == IInv /\ [Next]_vars => [Routing!RoutesNext]_(Routing!routes)
<1> SUFFICES ASSUME IInv, [Next]_vars PROVE [Routing!RoutesNext]_(Routing!routes)
  OBVIOUS
<1>1. CASE nextHop' = nextHop /\ storage' = storage
  BY <1>1 DEF Routing!routes
<1>2. ASSUME NEW g \in Gossiper, NEW x \in Text, ClientRumor(g, x)
      PROVE  Routing!RoutesNext
  BY <1>2, ClientRumorIssues DEF Routing!RoutesNext
<1>3. ASSUME NEW g \in Gossiper, NEW m \in net, ReceiveRumor(g, m)
      PROVE  [Routing!RoutesNext]_(Routing!routes)
  BY <1>3, ReceivedRumorIsHeard DEF Routing!RoutesNext
<1> QED BY <1>1, <1>2, <1>3, OnlyRumorsMove

(***************************************************************************)
(* The network of gossipers implements RumorRouting: routes change as      *)
(* Messaging assumes (AddRumorMessage, updateNextHop).                     *)
(***************************************************************************)
THEOREM RoutingRefinement == Spec => ImplementsRouting
BY RoutesStart, StepRoutes, Invariance, PTL
   DEF Spec, ImplementsRouting, Routing!RoutesSpec

-----------------------------------------------------------------------------
\* The same steps as RumorBroadcast sees them

Logs == [p \in Gossiper |-> [q \in Gossiper |-> Contents(storage[p].rumors[q])]]

(***************************************************************************)
(* The contents of a log with one rumor more.                              *)
(***************************************************************************)
LEMMA ContentsGrow ==
  ASSUME NEW s \in Seq(Rumor), NEW r \in Rumor
  PROVE  Contents(Append(s, r)) = Append(Contents(s), r.text)
<1>1. /\ Len(s) \in Nat /\ DOMAIN s = 1..Len(s)
      /\ \A i \in 1..Len(s) : s[i] \in Rumor
  BY LenProperties, ElementOfSeq
<1>2. /\ Append(s, r) \in Seq(Rumor)
      /\ Len(Append(s, r)) = Len(s) + 1
      /\ \A i \in 1..Len(s) : Append(s, r)[i] = s[i]
      /\ Append(s, r)[Len(s) + 1] = r
  BY AppendProperties
<1>3. ASSUME NEW u \in Seq(Rumor)
      PROVE  /\ Contents(u) \in Seq(Text)
             /\ Len(Contents(u)) = Len(u)
             /\ \A i \in 1..Len(u) : Contents(u)[i] = u[i].text
  <2>1. /\ Len(u) \in Nat /\ DOMAIN u = 1..Len(u)
        /\ \A i \in 1..Len(u) : u[i] \in Rumor
    BY LenProperties, ElementOfSeq
  <2>2. Contents(u) = [i \in 1..Len(u) |-> u[i].text]
    BY <2>1 DEF Contents
  <2>3. \A i \in 1..Len(u) : u[i].text \in Text
    BY <2>1 DEF Rumor
  <2> HIDE DEF Contents
  <2> QED BY <2>1, <2>2, <2>3
<1>4. r.text \in Text
  BY DEF Rumor
<1>5. /\ Append(Contents(s), r.text) \in Seq(Text)
      /\ Len(Append(Contents(s), r.text)) = Len(s) + 1
      /\ \A i \in 1..Len(s) : Append(Contents(s), r.text)[i] = s[i].text
      /\ Append(Contents(s), r.text)[Len(s) + 1] = r.text
  BY <1>3, <1>4, AppendProperties
<1>6. /\ Contents(Append(s, r)) \in Seq(Text)
      /\ Len(Contents(Append(s, r))) = Len(s) + 1
      /\ \A i \in 1..(Len(s) + 1) : Contents(Append(s, r))[i] = Append(s, r)[i].text
  BY <1>2, <1>3
<1>7. \A i \in 1..(Len(s) + 1) : Contents(Append(s, r))[i] = Append(Contents(s), r.text)[i]
  <2>1. \A i \in 1..(Len(s) + 1) : i \in 1..Len(s) \/ i = Len(s) + 1
    BY <1>1
  <2> QED BY <1>2, <1>5, <1>6, <2>1
<1> QED BY <1>5, <1>6, <1>7, SeqEqual

(***************************************************************************)
(* Storing a new rumor appends its text to one log, and storing any other  *)
(* changes no log (AddRumorMessage).                                       *)
(***************************************************************************)
LEMMA LogsMove ==
  ASSUME IInv, NEW g \in Gossiper, NEW r \in Rumor,
         \A h \in Gossiper \ {g} : storage'[h] = storage[h],
         storage'[g] = AddRumorMessage(storage[g], r)
  PROVE  Logs' = IF IsNewMessage(storage[g], r)
                 THEN [Logs EXCEPT ![g][r.origin] = Append(@, r.text)]
                 ELSE Logs
<1>1. storage[g].rumors \in [Gossiper -> Seq(Rumor)] /\ r.origin \in Gossiper
  BY GossiperAssumption DEF IInv, TypeOK, Storage, Rumor
<1>2. /\ \A h, q \in Gossiper : Logs[h][q] = Contents(storage[h].rumors[q])
      /\ \A h, q \in Gossiper : Logs'[h][q] = Contents(storage'[h].rumors[q])
      /\ \A h \in Gossiper : Logs[h] = [q \in Gossiper |-> Logs[h][q]]
      /\ \A h \in Gossiper : Logs'[h] = [q \in Gossiper |-> Logs'[h][q]]
      /\ Logs = [h \in Gossiper |-> Logs[h]]
      /\ Logs' = [h \in Gossiper |-> Logs'[h]]
  BY DEF Logs
<1>3. CASE IsNewMessage(storage[g], r)
  <2>1. storage'[g].rumors = [storage[g].rumors EXCEPT ![r.origin] = Append(@, r)]
    BY <1>3 DEF IsNewMessage, AddRumorMessage
  <2>2. Logs'[g][r.origin] = Append(Logs[g][r.origin], r.text)
    <3>1. storage'[g].rumors[r.origin] = Append(storage[g].rumors[r.origin], r)
      BY <1>1, <2>1
    <3>2. Contents(Append(storage[g].rumors[r.origin], r))
            = Append(Contents(storage[g].rumors[r.origin]), r.text)
      BY <1>1, ContentsGrow
    <3>3. /\ Logs'[g][r.origin] = Contents(storage'[g].rumors[r.origin])
          /\ Logs[g][r.origin] = Contents(storage[g].rumors[r.origin])
      BY <1>1 DEF Logs
    <3> QED BY <3>1, <3>2, <3>3, Zenon
  <2>3. \A q \in Gossiper \ {r.origin} : Logs'[g][q] = Logs[g][q]
    BY <1>1, <1>2, <2>1
  <2>4. \A h \in Gossiper \ {g} : Logs'[h] = Logs[h]
    BY <1>2
  <2>5. Logs'[g] = [Logs[g] EXCEPT ![r.origin] = Append(@, r.text)]
    BY <1>1, <1>2, <2>2, <2>3
  <2> QED BY <1>2, <1>3, <2>4, <2>5
<1>4. CASE ~IsNewMessage(storage[g], r)
  <2>1. \A h \in Gossiper : storage'[h] = storage[h]
    BY <1>4 DEF IsNewMessage, AddRumorMessage
  <2> QED BY <1>4, <2>1 DEF Logs
<1> QED BY <1>3, <1>4

(***************************************************************************)
(* A client's rumor extends its author's own log (processRumorMessage).    *)
(***************************************************************************)
LEMMA ClientRumorBroadcasts ==
  ASSUME IInv, NEW g \in Gossiper, NEW x \in Text, ClientRumor(g, x)
  PROVE  Broadcast!Broadcast(g, x)
<1>1. PICK r \in Rumor : /\ IsNewMessage(storage[g], r) /\ r.origin = g /\ r.text = x
                         /\ \A h \in Gossiper \ {g} : storage'[h] = storage[h]
                         /\ storage'[g] = AddRumorMessage(storage[g], r)
  BY ClientRumorStores
<1>2. Logs' = [Logs EXCEPT ![g][g] = Append(@, x)]
  BY <1>1, LogsMove
<1> QED BY <1>2 DEF Logs, Broadcast!Broadcast

(***************************************************************************)
(* A new rumor from a peer is the next one of its origin's own log, and    *)
(* the receiver stores it; an old one changes nothing.                     *)
(***************************************************************************)
LEMMA ReceivedRumorDelivers ==
  ASSUME IInv, NEW g \in Gossiper, NEW m \in net, ReceiveRumor(g, m)
  PROVE  (\E q \in Gossiper : Broadcast!Deliver(g, q)) \/ Logs' = Logs
<1> DEFINE r == m.rumor
           o == m.rumor.origin
<1>1. /\ m.src \in Gossiper /\ r \in Rumor /\ Holds(storage, m.src, r)
      /\ \A h \in Gossiper \ {g} : storage'[h] = storage[h]
      /\ storage'[g] = AddRumorMessage(storage[g], r)
  BY ReceivedRumorStores
<1>2. o \in Gossiper /\ r.id \in Nat
  BY <1>1, GossiperAssumption DEF Rumor
<1>3. Logs' = IF IsNewMessage(storage[g], r)
              THEN [Logs EXCEPT ![g][o] = Append(@, r.text)]
              ELSE Logs
  BY <1>1, LogsMove
<1>4. CASE IsNewMessage(storage[g], r)
  <2>1. Holds(storage, o, r)
    BY <1>1, HeldIsIssued
  <2>2. \A h \in Gossiper : /\ storage[h].rumors[o] \in Seq(Rumor)
                            /\ storage[h].clock[o] = Len(storage[h].rumors[o])
    BY <1>2, GossiperAssumption DEF IInv, Stored, Storage, ClockCountsRumors
  <2>3. \A h \in Gossiper : /\ DOMAIN Contents(storage[h].rumors[o]) = 1..Len(storage[h].rumors[o])
                            /\ Len(storage[h].rumors[o]) \in Nat
                            /\ Len(Contents(storage[h].rumors[o])) = Len(storage[h].rumors[o])
                            /\ \A i \in 1..Len(storage[h].rumors[o]) :
                                 Contents(storage[h].rumors[o])[i] = storage[h].rumors[o][i].text
    BY <2>2, LenProperties DEF Contents
  <2>4. r.id = Len(storage[g].rumors[o]) + 1
    BY <1>2, <1>4, <2>2, <2>3 DEF IsNewMessage
  <2>5. r.id \in 1..Len(storage[o].rumors[o]) /\ storage[o].rumors[o][r.id] = r
    BY <2>1 DEF Holds
  <2>6. /\ Len(Logs[g][o]) = Len(storage[g].rumors[o])
        /\ Len(Logs[o][o]) = Len(storage[o].rumors[o])
        /\ Logs[o][o][r.id] = r.text
    BY <1>2, <2>3, <2>5 DEF Logs
  <2>7. Len(Logs[g][o]) < Len(Logs[o][o])
    <3>1. /\ Len(storage[g].rumors[o]) \in Nat /\ Len(storage[o].rumors[o]) \in Nat
          /\ r.id <= Len(storage[o].rumors[o])
      BY <1>2, <2>3, <2>5
    <3>2. \A i, j \in Nat : i + 1 <= j => i < j
      OBVIOUS
    <3>3. Len(storage[g].rumors[o]) < Len(storage[o].rumors[o])
      BY <2>4, <3>1, <3>2, Zenon
    <3> QED BY <2>6, <3>3, Zenon
  <2>8. Logs' = [Logs EXCEPT ![g][o] = Append(@, Logs[o][o][Len(Logs[g][o]) + 1])]
    BY <1>3, <1>4, <2>4, <2>6
  <2> HIDE DEF o
  <2>9. Broadcast!Deliver(g, o)
    BY <2>7, <2>8, <1>2 DEF Logs, Broadcast!Deliver
  <2> QED BY <1>2, <2>9
<1> QED BY <1>3, <1>4

(***************************************************************************)
(* Every step of every handler and goroutine extends at most one log, by   *)
(* the next rumor of its origin.                                           *)
(***************************************************************************)
LEMMA StepBroadcasts == IInv /\ [Next]_vars => [Broadcast!Next]_Logs
<1> SUFFICES ASSUME IInv, [Next]_vars PROVE [Broadcast!Next]_Logs
  OBVIOUS
<1>1. CASE storage' = storage
  BY <1>1 DEF Logs
<1>2. ASSUME NEW g \in Gossiper, NEW x \in Text, ClientRumor(g, x)
      PROVE  Broadcast!Next
  BY <1>2, ClientRumorBroadcasts DEF Broadcast!Next
<1>3. ASSUME NEW g \in Gossiper, NEW m \in net, ReceiveRumor(g, m)
      PROVE  [Broadcast!Next]_Logs
  BY <1>3, ReceivedRumorDelivers DEF Broadcast!Next
<1> QED BY <1>1, <1>2, <1>3, OnlyRumorsMove

(***************************************************************************)
(* The network of gossipers implements RumorBroadcast (AddRumorMessage,    *)
(* IsNewMessage, Diff).                                                    *)
(***************************************************************************)
THEOREM BroadcastRefinement == Spec => ImplementsBroadcast
<1>1. Init => Broadcast!Init
  BY GossiperAssumption DEF Init, InitMessageStorage, Contents, Broadcast!Init
<1>2. IInv /\ [Next]_vars
        => [Broadcast!Next]_([p \in Gossiper |-> [q \in Gossiper |-> Contents(storage[p].rumors[q])]])
  BY StepBroadcasts DEF Logs
<1> QED BY <1>1, <1>2, Invariance, PTL
        DEF Spec, ImplementsBroadcast, Broadcast!Spec
===============================================================================
