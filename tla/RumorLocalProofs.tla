--------------------------- MODULE RumorLocalProofs ---------------------------
(***************************************************************************)
(* Proofs about what a gossiper of RumorMongering keeps for itself: the    *)
(* channels of its goroutines and the order of its storage, for any        *)
(* gossipers, any peers and any bounds.                                    *)
(*                                                                         *)
(* A turn starts from a channel map that fits the goroutines.  It may end  *)
(* an owner and take its channel out, or add an owner for a peer that had  *)
(* none; other goroutines come and go as they like.                        *)
(***************************************************************************)
EXTENDS RumorRefinementProofs

Owners(live, p) == {d \in live : d.peer = p /\ d.phase \in {"waiting", "fired"}}

Owned(cs, live) ==
  \A p \in Gossiper : IF p \in cs THEN \E d \in live : Owners(live, p) = {d}
                                  ELSE Owners(live, p) = {}

TurnOwned(t) == t = Turn(t.cs, t.live, t.rest, t.out) /\ Owned(t.cs, t.live)

-----------------------------------------------------------------------------
\* Goroutines and their channels

(***************************************************************************)
(* Goroutines that no longer wait, or not yet, come and go.                *)
(***************************************************************************)
LEMMA OthersComeAndGo ==
  ASSUME NEW cs, NEW live, Owned(cs, live), NEW d, d.phase \in {"handed", "spreading"}
  PROVE  Owned(cs, live \cup {d}) /\ Owned(cs, live \ {d})
<1>1. \A p : /\ Owners(live \cup {d}, p) = Owners(live, p)
             /\ Owners(live \ {d}, p) = Owners(live, p)
  BY DEF Owners
<1>2. \A p, e : Owners(live, p) = {e} => e \in live \cup {d} /\ e \in live \ {d}
  <2> SUFFICES ASSUME NEW p, NEW e, Owners(live, p) = {e}
               PROVE  e \in live /\ e # d
    OBVIOUS
  <2>1. e \in Owners(live, p)
    OBVIOUS
  <2> QED BY <2>1 DEF Owners
<1> QED BY <1>1, <1>2 DEF Owned

(***************************************************************************)
(* An owner takes its channel with it (the two deletes).                   *)
(***************************************************************************)
LEMMA OwnerLeaves ==
  ASSUME NEW cs, NEW live, Owned(cs, live), NEW d \in live,
         d.peer \in Gossiper, d.phase \in {"waiting", "fired"}
  PROVE  Owned(cs \ {d.peer}, live \ {d})
<1>1. d \in Owners(live, d.peer)
  BY DEF Owners
<1>2. Owners(live, d.peer) = {d}
  BY <1>1 DEF Owned
<1>3. Owners(live \ {d}, d.peer) = {}
  BY <1>2 DEF Owners
<1> SUFFICES ASSUME NEW p \in Gossiper, p # d.peer
             PROVE  IF p \in cs THEN \E e \in live \ {d} : Owners(live \ {d}, p) = {e}
                                ELSE Owners(live \ {d}, p) = {}
  BY <1>3 DEF Owned
<1>4. Owners(live \ {d}, p) = Owners(live, p)
  BY DEF Owners
<1>5. \A e : Owners(live, p) = {e} => e \in live \ {d}
  <2> SUFFICES ASSUME NEW e, Owners(live, p) = {e} PROVE e \in live \ {d}
    OBVIOUS
  <2>1. e \in Owners(live, p)
    OBVIOUS
  <2> QED BY <2>1 DEF Owners
<1> QED BY <1>4, <1>5 DEF Owned

(***************************************************************************)
(* A new goroutine for a peer nobody waits for (spreadTheRumor).           *)
(***************************************************************************)
LEMMA OwnerComes ==
  ASSUME NEW cs, NEW live, Owned(cs, live), NEW d,
         d.peer \in Gossiper \ cs, d.phase = "waiting"
  PROVE  Owned(cs \cup {d.peer}, live \cup {d})
<1>1. Owners(live, d.peer) = {}
  BY DEF Owned
<1>2. Owners(live \cup {d}, d.peer) = {d}
  BY <1>1 DEF Owners
<1> SUFFICES ASSUME NEW p \in Gossiper, p # d.peer
             PROVE  IF p \in cs THEN \E e \in live \cup {d} : Owners(live \cup {d}, p) = {e}
                                ELSE Owners(live \cup {d}, p) = {}
  BY <1>2 DEF Owned
<1>3. Owners(live \cup {d}, p) = Owners(live, p)
  BY DEF Owners
<1> QED BY <1>3 DEF Owned

(***************************************************************************)
(* The timer changes an owner into an owner.                               *)
(***************************************************************************)
LEMMA OwnerFires ==
  ASSUME NEW cs, NEW live, Owned(cs, live), NEW d \in live, NEW e,
         d.peer \in Gossiper, d.phase = "waiting", e.peer = d.peer, e.phase = "fired"
  PROVE  Owned(cs, (live \ {d}) \cup {e})
<1> DEFINE new == (live \ {d}) \cup {e}
<1>1. d \in Owners(live, d.peer)
  BY DEF Owners
<1>2. Owners(live, d.peer) = {d} /\ d.peer \in cs
  BY <1>1 DEF Owned
<1>3. Owners(new, d.peer) = {e}
  BY <1>2 DEF Owners
<1> SUFFICES ASSUME NEW p \in Gossiper, p # d.peer
             PROVE  IF p \in cs THEN \E f \in new : Owners(new, p) = {f}
                                ELSE Owners(new, p) = {}
  BY <1>2, <1>3 DEF Owned
<1>4. Owners(new, p) = Owners(live, p)
  BY DEF Owners
<1>5. \A f : Owners(live, p) = {f} => f \in new
  <2> SUFFICES ASSUME NEW f, Owners(live, p) = {f} PROVE f \in new
    OBVIOUS
  <2>1. f \in Owners(live, p)
    OBVIOUS
  <2> QED BY <2>1 DEF Owners
<1> HIDE DEF new
<1> QED BY <1>4, <1>5 DEF Owned

-----------------------------------------------------------------------------
\* Turns

(***************************************************************************)
(* spreadTheRumor starts a goroutine only where nobody waits.              *)
(***************************************************************************)
LEMMA SpreadOwned ==
  ASSUME NEW g, NEW r, NEW p \in Gossiper, NEW t, TurnOwned(t)
  PROVE  TurnOwned(SpreadTheRumor(g, r, p, t))
<1>1. CASE p \in t.cs
  BY <1>1 DEF SpreadTheRumor
<1>2. CASE p \notin t.cs
  <2> DEFINE d == Goroutine(p, r, "waiting")
  <2>1. SpreadTheRumor(g, r, p, t)
          = Turn(t.cs \cup {p}, t.live \cup {d}, t.rest, t.out \cup {RumorTo(g, p, r)})
    BY <1>2 DEF SpreadTheRumor, TurnOwned, Turn
  <2>2. d.peer = p /\ d.phase = "waiting"
    BY DEF Goroutine
  <2> HIDE DEF d
  <2>3. Owned(t.cs \cup {p}, t.live \cup {d})
    BY <1>2, <2>2, OwnerComes DEF TurnOwned
  <2> QED BY <2>1, <2>3 DEF TurnOwned, Turn
<1> QED BY <1>1, <1>2

(***************************************************************************)
(* A goroutine that is about to spread, and a status to write, own no      *)
(* channel.                                                                *)
(***************************************************************************)
LEMMA GoOnOwned ==
  ASSUME NEW t, TurnOwned(t), NEW p, NEW r, NEW out
  PROVE  /\ TurnOwned([t EXCEPT !.live = @ \cup {Goroutine(p, r, "spreading")}])
         /\ TurnOwned([t EXCEPT !.out = @ \cup out])
<1> DEFINE d == Goroutine(p, r, "spreading")
<1>1. d.phase = "spreading"
  BY DEF Goroutine
<1> HIDE DEF d
<1>2. [t EXCEPT !.live = @ \cup {d}] = Turn(t.cs, t.live \cup {d}, t.rest, t.out)
  BY DEF TurnOwned, Turn
<1>3. [t EXCEPT !.out = @ \cup out] = Turn(t.cs, t.live, t.rest, t.out \cup out)
  BY DEF TurnOwned, Turn
<1>4. Owned(t.cs, t.live \cup {d})
  BY <1>1, OthersComeAndGo DEF TurnOwned
<1>5. TurnOwned([t EXCEPT !.live = @ \cup {d}])
  BY <1>2, <1>4 DEF TurnOwned, Turn
<1>6. TurnOwned([t EXCEPT !.out = @ \cup out])
  BY <1>3 DEF TurnOwned, Turn
<1> QED BY <1>5, <1>6 DEF d

(***************************************************************************)
(* A turn ends with the channels that fit its goroutines.                  *)
(***************************************************************************)
LEMMA EndTurnOwned ==
  ASSUME TypeOK, ChannelsOwned, NEW g \in Gossiper, NEW t, TurnOwned(t), EndTurn(g, t)
  PROVE  ChannelsOwned'
<1>1. /\ channels \in [Gossiper -> SUBSET Gossiper]
      /\ mongers \in [Gossiper -> SUBSET Monger]
      /\ channels' = [channels EXCEPT ![g] = t.cs]
      /\ mongers' = [mongers EXCEPT ![g] = t.live]
  BY DEF TypeOK, EndTurn
<1>2. channels'[g] = t.cs /\ mongers'[g] = t.live
  BY <1>1
<1>3. \A h \in Gossiper \ {g} : channels'[h] = channels[h] /\ mongers'[h] = mongers[h]
  BY <1>1
<1>4. \A p \in Gossiper : IF p \in channels'[g]
                          THEN \E d \in mongers'[g] : OwnersOf(g, p)' = {d}
                          ELSE OwnersOf(g, p)' = {}
  BY <1>2 DEF TurnOwned, Owned, Owners, OwnersOf
<1>5. \A h \in Gossiper \ {g} : \A p \in Gossiper :
         IF p \in channels'[h] THEN \E d \in mongers'[h] : OwnersOf(h, p)' = {d}
                               ELSE OwnersOf(h, p)' = {}
  BY <1>3 DEF ChannelsOwned, OwnersOf
<1> QED BY <1>4, <1>5 DEF ChannelsOwned

(***************************************************************************)
(* Turns start from a channel map that fits the goroutines.                *)
(***************************************************************************)
LEMMA TurnStartsOwned ==
  ASSUME TypeOK, ChannelsOwned, NEW g \in Gossiper, NEW rest, NEW out
  PROVE  /\ Owned(channels[g], mongers[g])
         /\ TurnOwned(Turn(channels[g], mongers[g], rest, out))
         /\ \A d \in mongers[g] : /\ d.peer \in Gossiper
                                  /\ d.phase \in {"handed", "spreading"} =>
                                       TurnOwned(Turn(channels[g], mongers[g] \ {d}, rest, out))
                                  /\ d.phase \in {"waiting", "fired"} =>
                                       TurnOwned(Turn(channels[g] \ {d.peer}, mongers[g] \ {d}, rest, out))
<1>1. Owned(channels[g], mongers[g])
  BY DEF ChannelsOwned, OwnersOf, Owned, Owners
<1>2. \A cs, live : Owned(cs, live) => TurnOwned(Turn(cs, live, rest, out))
  BY DEF TurnOwned, Turn
<1>3. \A d \in mongers[g] : d.peer \in Gossiper
  BY DEF TypeOK, Monger
<1> QED BY <1>1, <1>2, <1>3, OthersComeAndGo, OwnerLeaves

-----------------------------------------------------------------------------
\* Steps

(***************************************************************************)
(* Rumors and statuses that the processor reads                            *)
(***************************************************************************)
LEMMA ProcessOwned ==
  ASSUME TypeOK, ChannelsOwned, NEW g \in Gossiper, NEW r, NEW known \in SUBSET Gossiper,
         NEW t, TurnOwned(t), ProcessRumorMessage(g, r, known, t)
  PROVE  ChannelsOwned'
<1>1. CASE EndTurn(g, t)
  BY <1>1, EndTurnOwned
<1>2. ASSUME NEW p \in known, EndTurn(g, SpreadTheRumor(g, r, p, t)) PROVE ChannelsOwned'
  <2>1. TurnOwned(SpreadTheRumor(g, r, p, t))
    BY SpreadOwned
  <2> QED BY <1>2, <2>1, EndTurnOwned
<1> QED BY <1>1, <1>2 DEF ProcessRumorMessage

(***************************************************************************)
(* A packet that the processor reads (processAddressedRumorMessage,        *)
(* processAddressedStatusPacket).                                          *)
(***************************************************************************)
LEMMA ReceiveOwned ==
  ASSUME IInv, ChannelsOwned, NEW g \in Gossiper, NEW m \in net, Receive(g, m)
  PROVE  ChannelsOwned'
<1>0. TypeOK /\ m.src \in Gossiper /\ peers[g] \cup {m.src} \subseteq Gossiper
  BY PacketFields DEF IInv, TypeOK
<1>1. CASE ReceiveRumor(g, m)
  <2> DEFINE t == Turn(channels[g], mongers[g], net \ {m}, {StatusTo(g, m.src)})
  <2>1. ProcessRumorMessage(g, m.rumor, peers[g] \cup {m.src}, t)
    BY <1>1 DEF ReceiveRumor
  <2>2. TurnOwned(t)
    BY <1>0, TurnStartsOwned
  <2> HIDE DEF t
  <2> QED BY <1>0, <2>1, <2>2, ProcessOwned
<1>2. CASE ReceiveStatus(g, m)
  <2> DEFINE t == Turn(channels[g], mongers[g], net \ {m}, {})
  <2>1. TurnOwned(t)
    BY <1>0, TurnStartsOwned
  <2>2. \/ \E r \in DiffRumors(storage[g], m.want) : EndTurn(g, SpreadTheRumor(g, r, m.src, t))
        \/ EndTurn(g, [t EXCEPT !.out = @ \cup {StatusTo(g, m.src)}])
        \/ EndTurn(g, t)
    BY <1>2 DEF ReceiveStatus, AskForMore
  <2> HIDE DEF t
  <2>3. TurnOwned([t EXCEPT !.out = @ \cup {StatusTo(g, m.src)}])
    BY <2>1, GoOnOwned
  <2>4. \A r : TurnOwned(SpreadTheRumor(g, r, m.src, t))
    BY <1>0, <2>1, SpreadOwned
  <2> QED BY <1>0, <2>1, <2>2, <2>3, <2>4, EndTurnOwned
<1>3. CASE HandStatus(g, m)
  <2>1. PICK d \in mongers[g] :
          /\ d.peer = m.src /\ d.phase = "waiting"
          /\ EndTurn(g, Turn(channels[g] \ {m.src},
                             (mongers[g] \ {d}) \cup {Handed(d, m.want)}, net \ {m}, {}))
    BY <1>3 DEF HandStatus
  <2>2. Owned(channels[g] \ {m.src}, mongers[g] \ {d})
    BY <1>0, <2>1, TurnStartsOwned, OwnerLeaves
  <2>3. Handed(d, m.want).phase = "handed"
    BY DEF Handed
  <2>4. Owned(channels[g] \ {m.src}, (mongers[g] \ {d}) \cup {Handed(d, m.want)})
    BY <2>2, <2>3, OthersComeAndGo
  <2>5. TurnOwned(Turn(channels[g] \ {m.src}, (mongers[g] \ {d}) \cup {Handed(d, m.want)},
                       net \ {m}, {}))
    BY <2>4 DEF TurnOwned, Turn
  <2> QED BY <1>0, <2>1, <2>5, EndTurnOwned
<1>4. CASE BlockOnStatus(g, m)
  BY <1>4 DEF BlockOnStatus, ChannelsOwned, OwnersOf
<1> QED BY <1>1, <1>2, <1>3, <1>4 DEF Receive

(***************************************************************************)
(* A step of a goroutine (startRumorMongeringThread)                       *)
(***************************************************************************)
LEMMA MongerOwned ==
  ASSUME IInv, ChannelsOwned, NEW g \in Gossiper, NEW d \in mongers[g], MongerStep(g, d)
  PROVE  ChannelsOwned'
<1>0. TypeOK /\ d.peer \in Gossiper /\ d \in Monger
  BY DEF IInv, TypeOK, Monger
<1>1. ASSUME NEW t, TurnOwned(t), FlipCoin(g, d, t) PROVE ChannelsOwned'
  <2>1. CASE EndTurn(g, t)
    BY <1>0, <1>1, <2>1, EndTurnOwned
  <2>2. ASSUME NEW p, EndTurn(g, [t EXCEPT !.live = @ \cup {Goroutine(p, d.rumor, "spreading")}])
        PROVE  ChannelsOwned'
    <3>1. TurnOwned([t EXCEPT !.live = @ \cup {Goroutine(p, d.rumor, "spreading")}])
      BY <1>1, GoOnOwned
    <3> QED BY <1>0, <2>2, <3>1, EndTurnOwned
  <2> QED BY <1>1, <2>1, <2>2 DEF FlipCoin
<1>2. CASE MongerTimeout(g, d)
  <2> DEFINE e == [d EXCEPT !.phase = "fired"]
             live == (mongers[g] \ {d}) \cup {e}
  <2>1. d.phase = "waiting" /\ channels' = channels /\ mongers' = [mongers EXCEPT ![g] = live]
    BY <1>2 DEF MongerTimeout
  <2>2. e.peer = d.peer /\ e.phase = "fired"
    BY <1>0 DEF Monger
  <2> HIDE DEF e
  <2>3. Owned(channels[g], live)
    BY <1>0, <2>1, <2>2, TurnStartsOwned, OwnerFires
  <2>4. mongers'[g] = live /\ \A h \in Gossiper \ {g} : mongers'[h] = mongers[h]
    BY <1>0, <2>1 DEF TypeOK
  <2> HIDE DEF live
  <2>5. \A p \in Gossiper : OwnersOf(g, p)' = Owners(live, p)
    BY <2>4 DEF OwnersOf, Owners
  <2>6. \A h \in Gossiper \ {g} : \A p \in Gossiper : OwnersOf(h, p)' = OwnersOf(h, p)
    BY <2>4 DEF OwnersOf
  <2> QED BY <2>1, <2>3, <2>4, <2>5, <2>6 DEF ChannelsOwned, Owned
<1>3. CASE MongerCleanUp(g, d)
  <2> DEFINE t == Turn(channels[g] \ {d.peer}, mongers[g] \ {d}, net, {})
  <2>1. d.phase = "fired" /\ FlipCoin(g, d, t)
    BY <1>3 DEF MongerCleanUp
  <2>2. TurnOwned(t)
    BY <1>0, <2>1, TurnStartsOwned
  <2> QED BY <1>1, <2>1, <2>2
<1>4. CASE MongerStatus(g, d)
  <2> DEFINE t == Turn(channels[g], mongers[g] \ {d}, net, {})
  <2>1. /\ d.phase = "handed"
        /\ \/ \E r \in DiffRumors(storage[g], d.want) :
                EndTurn(g, [t EXCEPT !.live = @ \cup {Goroutine(d.peer, r, "spreading")}])
           \/ EndTurn(g, [t EXCEPT !.out = @ \cup {StatusTo(g, d.peer)}])
           \/ FlipCoin(g, d, t)
    BY <1>4 DEF MongerStatus, AskForMore
  <2>2. TurnOwned(t)
    BY <1>0, <2>1, TurnStartsOwned
  <2> HIDE DEF t
  <2>3. /\ TurnOwned([t EXCEPT !.out = @ \cup {StatusTo(g, d.peer)}])
        /\ \A r : TurnOwned([t EXCEPT !.live = @ \cup {Goroutine(d.peer, r, "spreading")}])
    BY <2>2, GoOnOwned
  <2> QED BY <1>0, <1>1, <2>1, <2>2, <2>3, EndTurnOwned
<1>5. CASE MongerSpread(g, d)
  <2> DEFINE t == Turn(channels[g], mongers[g] \ {d}, net, {})
  <2>1. d.phase = "spreading" /\ EndTurn(g, SpreadTheRumor(g, d.rumor, d.peer, t))
    BY <1>5 DEF MongerSpread
  <2>2. TurnOwned(t)
    BY <1>0, <2>1, TurnStartsOwned
  <2> HIDE DEF t
  <2>3. TurnOwned(SpreadTheRumor(g, d.rumor, d.peer, t))
    BY <1>0, <2>2, SpreadOwned
  <2> QED BY <1>0, <2>1, <2>3, EndTurnOwned
<1> QED BY <1>2, <1>3, <1>4, <1>5 DEF MongerStep

(***************************************************************************)
(* Every step keeps the channels with their owners.                        *)
(***************************************************************************)
LEMMA StepOwned == IInv /\ ChannelsOwned /\ [Next]_vars => ChannelsOwned'
<1> SUFFICES ASSUME IInv, ChannelsOwned, [Next]_vars PROVE ChannelsOwned'
  OBVIOUS
<1>1. CASE UNCHANGED <<channels, mongers>>
  BY <1>1 DEF ChannelsOwned, OwnersOf
<1>2. ASSUME NEW g \in Gossiper, NEW x \in Text, ClientRumor(g, x) PROVE ChannelsOwned'
  <2> DEFINE t == Turn(channels[g], mongers[g], net, {})
             r == [origin |-> g, id |-> GetNextMessageId(storage[g], g), text |-> x]
  <2>1. ProcessRumorMessage(g, r, peers[g], t)
    BY <1>2 DEF ClientRumor
  <2>2. TypeOK /\ peers[g] \subseteq Gossiper
    BY DEF IInv, TypeOK
  <2>3. TurnOwned(t)
    BY <2>2, TurnStartsOwned
  <2> HIDE DEF t, r
  <2> QED BY <2>1, <2>2, <2>3, ProcessOwned
<1>3. ASSUME NEW g \in Gossiper, NEW p \in Gossiper, AntiEntropy(g, p) \/ AddPeer(g, p)
      PROVE  UNCHANGED <<channels, mongers>>
  BY <1>3 DEF AntiEntropy, AddPeer
<1>4. CASE UNCHANGED vars
  BY <1>1, <1>4 DEF vars
<1> QED BY <1>1, <1>2, <1>3, <1>4, ReceiveOwned, MongerOwned DEF Next

(***************************************************************************)
(* Each channel in statusesChannels belongs to exactly one live goroutine, *)
(* and each goroutine that waits or must clean up has its channel there    *)
(* (spreadTheRumor, startRumorMongeringThread).                            *)
(***************************************************************************)
THEOREM OneOwner == Spec => []ChannelsOwned
<1>1. Init => ChannelsOwned
  BY DEF Init, ChannelsOwned, OwnersOf
<1> QED BY <1>1, StepOwned, Invariance, PTL DEF Spec

-----------------------------------------------------------------------------
\* Storages

(***************************************************************************)
(* A route rumor changes no list for the web page, and a rumor with text   *)
(* ends it (AddRumorMessage).                                              *)
(***************************************************************************)
LEMMA AddRumorMessageChron ==
  ASSUME NEW ms, NEW r, r.id - 1 = ms.clock[r.origin]
  PROVE  AddRumorMessage(ms, r).chron
           = IF r.text # NoText THEN Append(ms.chron, r) ELSE ms.chron
BY DEF AddRumorMessage

(***************************************************************************)
(* A rumor with text that comes next of its origin ends the list for the   *)
(* web page, which stays the log of all rumors with text: it has a higher  *)
(* number than those of its origin before it.                              *)
(***************************************************************************)
LEMMA ChronGrows ==
  ASSUME NEW ms \in Storage, NEW r \in Rumor, StorageOK(ms),
         r.id - 1 = ms.clock[r.origin],
         NEW new \in Storage,
         new.clock = [ms.clock EXCEPT ![r.origin] = @ + 1],
         new.rumors = [ms.rumors EXCEPT ![r.origin] = Append(@, r)],
         new.chron = IF r.text # NoText THEN Append(ms.chron, r) ELSE ms.chron
  PROVE  ChronIsLog(new)
<1>1. /\ ms.clock \in [Origin -> Nat]
      /\ ms.rumors \in [Origin -> Seq(Rumor)]
      /\ ms.chron \in Seq(Rumor)
      /\ r.origin \in Origin /\ r.id \in Nat \ {0}
      /\ \A o \in Origin : ms.clock[o] = Len(ms.rumors[o])
  BY DEF Storage, Rumor, StorageOK, ClockCountsRumors
<1>2. r.id = Len(ms.rumors[r.origin]) + 1 /\ new.clock[r.origin] = r.id
  BY <1>1
<1>3. \A o \in Origin : o # r.origin => /\ new.clock[o] = ms.clock[o]
                                        /\ new.rumors[o] = ms.rumors[o]
  <2> SUFFICES ASSUME NEW o \in Origin, o # r.origin
               PROVE  new.clock[o] = ms.clock[o] /\ new.rumors[o] = ms.rumors[o]
    OBVIOUS
  <2> QED BY <1>1
<1>4. /\ new.rumors[r.origin] = Append(ms.rumors[r.origin], r)
      /\ Len(new.rumors[r.origin]) = Len(ms.rumors[r.origin]) + 1
      /\ new.rumors[r.origin][r.id] = r
      /\ \A k \in 1..Len(ms.rumors[r.origin]) :
            new.rumors[r.origin][k] = ms.rumors[r.origin][k]
  BY <1>1, <1>2, AppendProperties
<1>5. /\ Len(ms.chron) \in Nat
      /\ \A i \in 1..Len(ms.chron) :
            /\ ms.chron[i] \in Rumor
            /\ ms.chron[i].origin \in Origin /\ ms.chron[i].id \in Nat \ {0}
            /\ ms.chron[i].text # NoText
            /\ ms.chron[i].id <= ms.clock[ms.chron[i].origin]
            /\ ms.rumors[ms.chron[i].origin][ms.chron[i].id] = ms.chron[i]
  <2>1. Len(ms.chron) \in Nat /\ \A i \in 1..Len(ms.chron) : ms.chron[i] \in Rumor
    BY <1>1, LenProperties, ElementOfSeq
  <2>2. \A q \in Rumor : q.origin \in Origin /\ q.id \in Nat \ {0}
    BY DEF Rumor
  <2>3. \A i \in 1..Len(ms.chron) :
           /\ ms.chron[i].text # NoText
           /\ ms.chron[i].id <= ms.clock[ms.chron[i].origin]
           /\ ms.rumors[ms.chron[i].origin][ms.chron[i].id] = ms.chron[i]
    BY DEF StorageOK, ChronIsLog
  <2> QED BY <2>1, <2>2, <2>3
<1>6. \A i \in 1..Len(ms.chron) :
         /\ ms.chron[i].id <= new.clock[ms.chron[i].origin]
         /\ new.rumors[ms.chron[i].origin][ms.chron[i].id] = ms.chron[i]
         /\ ms.chron[i].origin = r.origin => ms.chron[i].id < r.id
  <2> SUFFICES ASSUME NEW i \in 1..Len(ms.chron)
               PROVE  /\ ms.chron[i].id <= new.clock[ms.chron[i].origin]
                      /\ new.rumors[ms.chron[i].origin][ms.chron[i].id] = ms.chron[i]
                      /\ ms.chron[i].origin = r.origin => ms.chron[i].id < r.id
    OBVIOUS
  <2>1. CASE ms.chron[i].origin # r.origin
    BY <1>3, <1>5, <2>1
  <2>2. CASE ms.chron[i].origin = r.origin
    <3> DEFINE k == ms.chron[i].id
    <3>1. /\ k \in Nat \ {0} /\ k <= Len(ms.rumors[r.origin])
          /\ ms.rumors[r.origin][k] = ms.chron[i]
      <4>1. k \in Nat \ {0} /\ k <= ms.clock[r.origin] /\ ms.rumors[r.origin][k] = ms.chron[i]
        BY <1>5, <2>2, Zenon
      <4>2. ms.clock[r.origin] = Len(ms.rumors[r.origin])
        BY <1>1
      <4> HIDE DEF k
      <4> QED BY <4>1, <4>2
    <3> HIDE DEF k
    <3>2. Len(ms.rumors[r.origin]) \in Nat
      BY <1>1
    <3>3. k \in 1..Len(ms.rumors[r.origin]) /\ k < r.id /\ k <= r.id
      BY <1>2, <3>1, <3>2
    <3>4. new.rumors[r.origin][k] = ms.chron[i]
      BY <1>4, <3>1, <3>3
    <3> QED BY <1>2, <2>2, <3>3, <3>4 DEF k
  <2> QED BY <2>1, <2>2
<1>7. \A o \in Origin : \A k \in 1..Len(new.rumors[o]) :
         (o = r.origin /\ k = r.id) \/ (k \in 1..Len(ms.rumors[o]) /\ new.rumors[o][k] = ms.rumors[o][k])
  <2> SUFFICES ASSUME NEW o \in Origin, NEW k \in 1..Len(new.rumors[o]),
                      ~(o = r.origin /\ k = r.id)
               PROVE  k \in 1..Len(ms.rumors[o]) /\ new.rumors[o][k] = ms.rumors[o][k]
    OBVIOUS
  <2>1. CASE o # r.origin
    BY <1>3, <2>1
  <2>2. CASE o = r.origin
    <3>1. k \in 1..Len(ms.rumors[r.origin])
      BY <1>1, <1>2, <1>4, <2>2
    <3> QED BY <1>4, <2>2, <3>1
  <2> QED BY <2>1, <2>2
<1>8. \A o \in Origin : \A k \in 1..Len(ms.rumors[o]) :
         ms.rumors[o][k].text # NoText =>
            \E i \in 1..Len(ms.chron) : ms.chron[i] = ms.rumors[o][k]
  BY DEF StorageOK, ChronIsLog
<1>9. CASE r.text = NoText
  <2>1. new.chron = ms.chron
    BY <1>9
  <2>2. \A o \in Origin : \A k \in 1..Len(new.rumors[o]) :
           new.rumors[o][k].text # NoText =>
              \E i \in 1..Len(ms.chron) : ms.chron[i] = new.rumors[o][k]
    <3>1. \A o \in Origin : \A k \in 1..Len(new.rumors[o]) :
             new.rumors[o][k].text # NoText
               => k \in 1..Len(ms.rumors[o]) /\ new.rumors[o][k] = ms.rumors[o][k]
      BY <1>4, <1>7, <1>9
    <3> QED BY <1>8, <3>1
  <2>3. \A i \in 1..Len(ms.chron) :
           LET q == ms.chron[i]
           IN  /\ q.text # NoText
               /\ q.id <= new.clock[q.origin] /\ new.rumors[q.origin][q.id] = q
    BY <1>5, <1>6
  <2>4. \A i, j \in 1..Len(ms.chron) :
           i < j /\ ms.chron[i].origin = ms.chron[j].origin => ms.chron[i].id < ms.chron[j].id
    BY DEF StorageOK, ChronIsLog
  <2>5. \A i \in 1..Len(new.chron) :
           LET q == new.chron[i]
           IN  /\ q.text # NoText
               /\ q.id <= new.clock[q.origin] /\ new.rumors[q.origin][q.id] = q
    BY <2>1, <2>3
  <2>6. \A o \in Origin : \A k \in 1..Len(new.rumors[o]) :
           new.rumors[o][k].text # NoText =>
              \E i \in 1..Len(new.chron) : new.chron[i] = new.rumors[o][k]
    BY <2>1, <2>2
  <2>7. \A i, j \in 1..Len(new.chron) :
           i < j /\ new.chron[i].origin = new.chron[j].origin
             => new.chron[i].id < new.chron[j].id
    BY <2>1, <2>4
  <2> QED BY <2>5, <2>6, <2>7 DEF ChronIsLog
<1>10. CASE r.text # NoText
  <2> DEFINE n == Len(ms.chron)
  <2>1. /\ n \in Nat /\ Len(new.chron) = n + 1
        /\ \A i \in 1..n : new.chron[i] = ms.chron[i]
        /\ new.chron[n + 1] = r
    BY <1>1, <1>10, AppendProperties, LenProperties
  <2>2. \A i \in 1..Len(new.chron) : i \in 1..n \/ i = n + 1
    BY <2>1
  <2>3. \A i \in 1..n : i \in 1..Len(new.chron)
    BY <2>1
  <2>4. n + 1 \in 1..Len(new.chron)
    BY <2>1
  <2>5. \A i \in 1..Len(new.chron) :
           LET q == new.chron[i]
           IN  /\ q.text # NoText
               /\ q.id <= new.clock[q.origin] /\ new.rumors[q.origin][q.id] = q
    <3>1. \A i \in 1..n : LET q == new.chron[i]
                          IN  /\ q.text # NoText
                              /\ q.id <= new.clock[q.origin]
                              /\ new.rumors[q.origin][q.id] = q
      BY <1>5, <1>6, <2>1
    <3>2. r.id <= new.clock[r.origin]
      BY <1>1, <1>2
    <3> QED BY <1>4, <1>10, <2>1, <2>2, <3>1, <3>2
  <2>6. \A o \in Origin : \A k \in 1..Len(new.rumors[o]) :
           new.rumors[o][k].text # NoText =>
              \E i \in 1..Len(new.chron) : new.chron[i] = new.rumors[o][k]
    <3> SUFFICES ASSUME NEW o \in Origin, NEW k \in 1..Len(new.rumors[o]),
                        new.rumors[o][k].text # NoText
                 PROVE  \E i \in 1..Len(new.chron) : new.chron[i] = new.rumors[o][k]
      OBVIOUS
    <3>1. CASE o = r.origin /\ k = r.id
      BY <1>4, <2>1, <2>4, <3>1
    <3>2. CASE k \in 1..Len(ms.rumors[o]) /\ new.rumors[o][k] = ms.rumors[o][k]
      <4>1. PICK i \in 1..n : ms.chron[i] = ms.rumors[o][k]
        BY <1>8, <3>2
      <4> QED BY <2>1, <2>3, <3>2, <4>1
    <3> QED BY <1>7, <3>1, <3>2
  <2>7. \A i, j \in 1..Len(new.chron) :
           i < j /\ new.chron[i].origin = new.chron[j].origin
             => new.chron[i].id < new.chron[j].id
    <3> SUFFICES ASSUME NEW i \in 1..Len(new.chron), NEW j \in 1..Len(new.chron),
                        i < j, new.chron[i].origin = new.chron[j].origin
                 PROVE  new.chron[i].id < new.chron[j].id
      OBVIOUS
    <3>1. i \in 1..n
      BY <2>1
    <3>2. CASE j \in 1..n
      BY <2>1, <3>1, <3>2 DEF StorageOK, ChronIsLog
    <3>3. CASE j = n + 1
      BY <1>6, <2>1, <3>1, <3>3
    <3> QED BY <2>2, <3>2, <3>3
  <2> QED BY <2>5, <2>6, <2>7 DEF ChronIsLog
<1> QED BY <1>9, <1>10

(***************************************************************************)
(* AddRumorMessage keeps the whole storage in order.                       *)
(***************************************************************************)
LEMMA AddRumorMessageInOrder ==
  ASSUME NEW ms \in Storage, NEW r \in Rumor, StorageOK(ms)
  PROVE  StorageOK(AddRumorMessage(ms, r))
<1>1. CASE r.id - 1 # ms.clock[r.origin]
  BY <1>1 DEF AddRumorMessage
<1>2. CASE r.id - 1 = ms.clock[r.origin]
  <2>1. /\ AddRumorMessage(ms, r) \in Storage
        /\ ClockCountsRumors(AddRumorMessage(ms, r))
        /\ SlotsMatchIds(AddRumorMessage(ms, r))
    BY AddRumorMessageOK DEF StorageOK
  <2>2. ChronIsLog(AddRumorMessage(ms, r))
    <3> DEFINE new == AddRumorMessage(ms, r)
    <3>1. /\ new.clock = [ms.clock EXCEPT ![r.origin] = @ + 1]
          /\ new.rumors = [ms.rumors EXCEPT ![r.origin] = Append(@, r)]
      BY <1>2, AddNextRumor
    <3>2. new.chron = IF r.text # NoText THEN Append(ms.chron, r) ELSE ms.chron
      BY <1>2, AddRumorMessageChron
    <3> HIDE DEF new
    <3>3. new \in Storage => ChronIsLog(new)
      BY <1>2, <3>1, <3>2, ChronGrows, Zenon
    <3> QED BY <2>1, <3>3 DEF new
  <2> QED BY <2>1, <2>2 DEF StorageOK
<1> QED BY <1>1, <1>2

(***************************************************************************)
(* Every step keeps every storage in order.                                *)
(***************************************************************************)
LEMMA StepInOrder == IInv /\ StoragesConsistent /\ [Next]_vars => StoragesConsistent'
<1> SUFFICES ASSUME IInv, StoragesConsistent, [Next]_vars PROVE StoragesConsistent'
  OBVIOUS
<1>1. CASE storage' = storage
  BY <1>1 DEF StoragesConsistent
<1>2. ASSUME NEW g \in Gossiper, NEW r \in Rumor,
             \A h \in Gossiper \ {g} : storage'[h] = storage[h],
             storage'[g] = AddRumorMessage(storage[g], r)
      PROVE  StoragesConsistent'
  <2>1. storage[g] \in Storage /\ StorageOK(storage[g])
    BY DEF IInv, Stored, StoragesConsistent
  <2>2. StorageOK(storage'[g])
    BY <1>2, <2>1, AddRumorMessageInOrder
  <2> QED BY <1>2, <2>2 DEF StoragesConsistent
<1>3. ASSUME NEW g \in Gossiper, NEW x \in Text, ClientRumor(g, x) PROVE StoragesConsistent'
  BY <1>2, <1>3, ClientRumorStores
<1>4. ASSUME NEW g \in Gossiper, NEW m \in net, ReceiveRumor(g, m) PROVE StoragesConsistent'
  BY <1>2, <1>4, ReceivedRumorStores
<1> QED BY <1>1, <1>3, <1>4, OnlyRumorsMove

(***************************************************************************)
(* In every storage the clock counts the rumors, slot i holds rumor i, and *)
(* the list for the web page is the log of all rumors with text, each      *)
(* origin's in order (AddRumorMessage, GetRumorMessagesCopy).                    *)
(***************************************************************************)
THEOREM StoragesInOrder == Spec => []StoragesConsistent
<1>1. Init => StoragesConsistent
  <2>1. StorageOK(InitMessageStorage)
    BY DEF InitMessageStorage, StorageOK, ClockCountsRumors, SlotsMatchIds, ChronIsLog
  <2> QED BY <2>1 DEF Init, StoragesConsistent
<1> QED BY <1>1, StepInOrder, Invariance, PTL DEF Spec
===============================================================================
