------------------------- MODULE RumorMongeringProofs -------------------------
(***************************************************************************)
(* Proofs about RumorMongering, for any number of gossipers, any peers and *)
(* any bounds.                                                             *)
(*                                                                         *)
(* The invariant says of everything in flight and of every goroutine that  *)
(* it tells the truth about the storage it comes from: a rumor is one that *)
(* gossiper holds, a status claims no more than it holds.  Storages only   *)
(* grow, so what was true stays true; and a rumor that is new to its       *)
(* receiver is the next one of its origin's own log.                       *)
(***************************************************************************)
EXTENDS RumorMongering, TLAPS

\* S stands for storage, before a step or after it.
Holds(S, g, r) ==
  /\ r.id \in 1..Len(S[g].rumors[r.origin])
  /\ S[g].rumors[r.origin][r.id] = r

Claims(S, p, w) == \A o \in Origin : Held(w, o) <= S[p].clock[o]

PacketTrue(S, m) ==
  /\ m \in Packet
  /\ m.kind = "rumor" => Holds(S, m.src, m.rumor)
  /\ m.kind = "status" => Claims(S, m.src, m.want)

GoroutineTrue(S, g, d) ==
  /\ d \in Monger
  /\ Holds(S, g, d.rumor)
  /\ Claims(S, d.peer, d.want)

TurnTrue(S, g, t) ==
  /\ t = Turn(t.cs, t.live, t.rest, t.out)
  /\ t.cs \subseteq Gossiper
  /\ \A d \in t.live : GoroutineTrue(S, g, d)
  /\ \A m \in t.rest \cup t.out : PacketTrue(S, m)

Stored(S) ==
  /\ S \in [Gossiper -> Storage]
  /\ \A g \in Gossiper : ClockCountsRumors(S[g]) /\ SlotsMatchIds(S[g])

InFlightTrue ==
  /\ \A m \in net : PacketTrue(storage, m)
  /\ \A g \in Gossiper : \A d \in mongers[g] : GoroutineTrue(storage, g, d)

NoHopToSelf == \A g \in Gossiper : nextHop[g][g] = NoHop

IInv ==
  /\ TypeOK
  /\ Stored(storage)
  /\ InFlightTrue
  /\ LogsArePrefixes
  /\ NoHopToSelf
  /\ NextHopIsFresh
  /\ RoutesReachOrigin

-----------------------------------------------------------------------------
\* The operators of MessageStorage

(***************************************************************************)
(* A new gossiper's storage has the struct's invariant and holds nothing   *)
(* (InitMessageStorage).                                                   *)
(***************************************************************************)
LEMMA InitStorageOK ==
  /\ InitMessageStorage \in Storage
  /\ ClockCountsRumors(InitMessageStorage)
  /\ SlotsMatchIds(InitMessageStorage)
<1>1. \A o \in Origin : /\ InitMessageStorage.clock[o] = 0
                        /\ InitMessageStorage.rumors[o] = <<>>
  BY DEF InitMessageStorage
<1>2. InitMessageStorage \in Storage
  BY DEF InitMessageStorage, Storage
<1> QED BY <1>1, <1>2 DEF ClockCountsRumors, SlotsMatchIds

(***************************************************************************)
(* A slot of a slice is a slot of a longer one.                            *)
(***************************************************************************)
LEMMA LongerHasSlot ==
  ASSUME NEW m \in Nat, NEW n \in Nat, m <= n, NEW i \in 1..m
  PROVE  i \in 1..n /\ i \in Nat /\ i <= m /\ i <= n
  OBVIOUS

(***************************************************************************)
(* What the append of Go leaves: one element more, the others in place.    *)
(***************************************************************************)
LEMMA AppendOne ==
  ASSUME NEW T, NEW s \in Seq(T), NEW e \in T
  PROVE  /\ Append(s, e) \in Seq(T)
         /\ Len(s) \in Nat
         /\ Len(Append(s, e)) = Len(s) + 1
         /\ Append(s, e)[Len(s) + 1] = e
         /\ \A i \in 1..Len(s) : /\ i \in 1..Len(Append(s, e))
                                /\ Append(s, e)[i] = s[i]
  OBVIOUS

(***************************************************************************)
(* The next rumor of its origin is stored.                                 *)
(***************************************************************************)
LEMMA AddNextRumor ==
  ASSUME NEW ms, NEW r, r.id - 1 = ms.clock[r.origin]
  PROVE  /\ AddRumorMessage(ms, r).clock = [ms.clock EXCEPT ![r.origin] = @ + 1]
         /\ AddRumorMessage(ms, r).rumors = [ms.rumors EXCEPT ![r.origin] = Append(@, r)]
BY DEF AddRumorMessage

(***************************************************************************)
(* AddRumorMessage keeps the invariant of the struct.                      *)
(***************************************************************************)
LEMMA AddRumorMessageOK ==
  ASSUME NEW ms \in Storage, NEW r \in Rumor,
         ClockCountsRumors(ms), SlotsMatchIds(ms)
  PROVE  /\ AddRumorMessage(ms, r) \in Storage
         /\ ClockCountsRumors(AddRumorMessage(ms, r))
         /\ SlotsMatchIds(AddRumorMessage(ms, r))
<1> DEFINE new == AddRumorMessage(ms, r)
<1>1. CASE r.id - 1 # ms.clock[r.origin]
  BY <1>1 DEF AddRumorMessage
<1>2. CASE r.id - 1 = ms.clock[r.origin]
  <2>0. /\ ms.clock \in [Origin -> Nat]
        /\ ms.rumors \in [Origin -> Seq(Rumor)]
        /\ ms.chron \in Seq(Rumor)
        /\ r.origin \in Origin /\ r.id \in Nat
    BY DEF Storage, Rumor
  <2>1. /\ new.clock = [ms.clock EXCEPT ![r.origin] = @ + 1]
        /\ new.rumors = [ms.rumors EXCEPT ![r.origin] = Append(@, r)]
        /\ new.chron = IF r.text # NoText THEN Append(ms.chron, r) ELSE ms.chron
        /\ new = [clock |-> new.clock, rumors |-> new.rumors, chron |-> new.chron]
    BY <1>2 DEF AddRumorMessage
  <2>2. new.clock \in [Origin -> Nat]
    BY <2>0, <2>1
  <2>3. new.rumors \in [Origin -> Seq(Rumor)]
    BY <2>0, <2>1
  <2>4. new.chron \in Seq(Rumor)
    BY <2>0, <2>1
  <2>5. new \in Storage
    BY <2>1, <2>2, <2>3, <2>4 DEF Storage
  <2>6. ClockCountsRumors(new)
    <3>1. SUFFICES ASSUME NEW o \in Origin PROVE new.clock[o] = Len(new.rumors[o])
      BY DEF ClockCountsRumors
    <3>2. ms.clock[o] = Len(ms.rumors[o]) /\ ms.rumors[o] \in Seq(Rumor)
      BY <2>0 DEF ClockCountsRumors
    <3>3. CASE o = r.origin
      BY <2>0, <2>1, <3>2, <3>3
    <3>4. CASE o # r.origin
      BY <2>0, <2>1, <3>2, <3>4
    <3> QED BY <3>3, <3>4
  <2>7. SlotsMatchIds(new)
    BY <2>0, <2>1, <1>2 DEF SlotsMatchIds, ClockCountsRumors
  <2> QED BY <2>5, <2>6, <2>7
<1> QED BY <1>1, <1>2

(***************************************************************************)
(* What Diff returns is a rumor of the storage it looked at.               *)
(***************************************************************************)
LEMMA DiffRumorsHeld ==
  ASSUME NEW S, Stored(S), NEW g \in Gossiper, NEW want \in Status,
         NEW r \in DiffRumors(S[g], want)
  PROVE  r \in Rumor /\ Holds(S, g, r)
<1>1. PICK o \in DiffOrigins(S[g], want) : r = S[g].rumors[o][Held(want, o) + 1]
  BY DEF DiffRumors
<1>2. o \in Origin /\ S[g].clock[o] > Held(want, o)
  BY DEF DiffOrigins, Ahead
<1>3. Held(want, o) \in Nat
  BY <1>2 DEF Held, Status
<1>4. /\ S[g].rumors[o] \in Seq(Rumor)
      /\ S[g].clock[o] = Len(S[g].rumors[o])
  BY <1>2 DEF Stored, ClockCountsRumors, Storage
<1>5. Held(want, o) + 1 \in 1..Len(S[g].rumors[o])
  BY <1>2, <1>3, <1>4
<1>6. r.origin = o /\ r.id = Held(want, o) + 1
  BY <1>1, <1>2, <1>5 DEF Stored, SlotsMatchIds
<1>7. r \in Rumor
  BY <1>1, <1>4, <1>5
<1> QED BY <1>1, <1>5, <1>6, <1>7 DEF Holds

(***************************************************************************)
(* A status packet tells the truth about the storage it was made from, and *)
(* about every later one.                                                  *)
(***************************************************************************)
LEMMA CurrentStatusTrue ==
  ASSUME NEW S, Stored(S), NEW g \in Gossiper
  PROVE  /\ GetCurrentStatusPacket(S[g]) \in Status
         /\ Claims(S, g, GetCurrentStatusPacket(S[g]))
<1>1. S[g].clock \in [Origin -> Nat]
  BY DEF Stored, Storage
<1> QED BY <1>1 DEF GetCurrentStatusPacket, Status, Claims, Held

-----------------------------------------------------------------------------
\* Storages only grow

Extends(S, T) ==
  \A g \in Gossiper : \A o \in Origin :
    /\ S[g].clock[o] <= T[g].clock[o]
    /\ \A i \in 1..Len(S[g].rumors[o]) :
          i \in 1..Len(T[g].rumors[o]) /\ T[g].rumors[o][i] = S[g].rumors[o][i]

(***************************************************************************)
(* What a packet or a goroutine says of a storage stays true as storages   *)
(* grow.                                                                   *)
(***************************************************************************)
LEMMA TruthStays ==
  ASSUME NEW S, NEW T, Stored(S), Stored(T), Extends(S, T)
  PROVE  /\ \A m : PacketTrue(S, m) => PacketTrue(T, m)
         /\ \A g \in Gossiper : \A d : GoroutineTrue(S, g, d) => GoroutineTrue(T, g, d)
<1>1. ASSUME NEW g \in Gossiper, NEW r \in Rumor, Holds(S, g, r)
      PROVE  Holds(T, g, r)
  <2>1. r.origin \in Origin
    BY DEF Rumor
  <2> QED BY <1>1, <2>1 DEF Holds, Extends
<1>2. ASSUME NEW p \in Gossiper, NEW w \in Status, Claims(S, p, w)
      PROVE  Claims(T, p, w)
  <2>1. SUFFICES ASSUME NEW o \in Origin PROVE Held(w, o) <= T[p].clock[o]
    BY DEF Claims
  <2>2. Held(w, o) \in Nat /\ S[p].clock[o] \in Nat /\ T[p].clock[o] \in Nat
    BY DEF Held, Status, Stored, Storage
  <2>3. Held(w, o) <= S[p].clock[o] /\ S[p].clock[o] <= T[p].clock[o]
    BY <1>2 DEF Claims, Extends
  <2> QED BY <2>2, <2>3
<1>3. ASSUME NEW m, PacketTrue(S, m) PROVE PacketTrue(T, m)
  <2>1. CASE m \in RumorPacket
    <3>1. m.kind = "rumor" /\ m.src \in Gossiper /\ m.rumor \in Rumor
      BY <2>1 DEF RumorPacket
    <3> QED BY <1>1, <1>3, <3>1 DEF PacketTrue
  <2>2. CASE m \in StatusPacket
    <3>1. m.kind = "status" /\ m.src \in Gossiper /\ m.want \in Status
      BY <2>2 DEF StatusPacket
    <3> QED BY <1>2, <1>3, <3>1 DEF PacketTrue
  <2> QED BY <1>3, <2>1, <2>2 DEF PacketTrue, Packet
<1>4. ASSUME NEW g \in Gossiper, NEW d, GoroutineTrue(S, g, d)
      PROVE  GoroutineTrue(T, g, d)
  <2>1. d \in Monger /\ d.peer \in Gossiper /\ d.rumor \in Rumor /\ d.want \in Status
    BY <1>4 DEF GoroutineTrue, Monger
  <2> QED BY <1>1, <1>2, <1>4, <2>1 DEF GoroutineTrue
<1> QED BY <1>3, <1>4

(***************************************************************************)
(* processRumorMessage stores at most one rumor, at g.                     *)
(***************************************************************************)
LEMMA StoreGrows ==
  ASSUME TypeOK, Stored(storage), NEW g \in Gossiper, NEW r \in Rumor,
         storage' = [storage EXCEPT ![g] = AddRumorMessage(storage[g], r)]
  PROVE  /\ Stored(storage')
         /\ Extends(storage, storage')
         /\ \A h \in Gossiper \ {g} : storage'[h] = storage[h]
         /\ storage'[g] = AddRumorMessage(storage[g], r)
<1>1. storage \in [Gossiper -> Storage]
  BY DEF TypeOK
<1>2. /\ \A h \in Gossiper \ {g} : storage'[h] = storage[h]
      /\ storage'[g] = AddRumorMessage(storage[g], r)
  BY <1>1
<1>3. Stored(storage')
  BY <1>1, <1>2, AddRumorMessageOK DEF Stored
<1>4. Extends(storage, storage')
  <2>1. SUFFICES ASSUME NEW h \in Gossiper, NEW o \in Origin
        PROVE  /\ storage[h].clock[o] <= storage'[h].clock[o]
               /\ \A i \in 1..Len(storage[h].rumors[o]) :
                    /\ i \in 1..Len(storage'[h].rumors[o])
                    /\ storage'[h].rumors[o][i] = storage[h].rumors[o][i]
    BY DEF Extends
  <2>2. /\ storage[h].clock \in [Origin -> Nat]
        /\ storage[h].rumors \in [Origin -> Seq(Rumor)]
    BY <1>1 DEF Storage
  <2>3. CASE storage'[h] = storage[h]
    BY <2>2, <2>3
  <2>4. CASE h = g /\ r.id - 1 = storage[g].clock[r.origin]
    <3>1. /\ storage'[h].clock = [storage[h].clock EXCEPT ![r.origin] = @ + 1]
          /\ storage'[h].rumors = [storage[h].rumors EXCEPT ![r.origin] = Append(@, r)]
      BY <1>2, <2>4, AddNextRumor
    <3> DEFINE s == storage[h].rumors[o]
    <3>2. s \in Seq(Rumor) /\ storage[h].clock[o] \in Nat
      BY <2>2
    <3>3. storage[h].clock[o] <= storage'[h].clock[o]
      <4>1. storage'[h].clock[o] \in {storage[h].clock[o], storage[h].clock[o] + 1}
        BY <2>2, <3>1
      <4> QED BY <3>2, <4>1
    <3>4. storage'[h].rumors[o] = s \/ storage'[h].rumors[o] = Append(s, r)
      BY <2>2, <3>1, Zenon
    <3> HIDE DEF s
    <3>5. \A i \in 1..Len(s) : /\ i \in 1..Len(storage'[h].rumors[o])
                              /\ storage'[h].rumors[o][i] = s[i]
      <4>1. \A i \in 1..Len(s) : i \in 1..Len(Append(s, r)) /\ Append(s, r)[i] = s[i]
        BY <3>2, AppendOne
      <4> QED BY <3>4, <4>1, Zenon
    <3> QED BY <3>3, <3>5 DEF s
  <2>5. CASE h = g /\ r.id - 1 # storage[g].clock[r.origin]
    BY <1>2, <2>3, <2>5 DEF AddRumorMessage
  <2>6. CASE h # g
    BY <1>2, <2>3, <2>6
  <2> QED BY <2>4, <2>5, <2>6
<1> QED BY <1>2, <1>3, <1>4

-----------------------------------------------------------------------------
\* Turns

(***************************************************************************)
(* A new goroutine has heard no status yet.                                *)
(***************************************************************************)
LEMMA NewGoroutineTrue ==
  ASSUME NEW S, Stored(S), NEW g \in Gossiper, NEW p \in Gossiper,
         NEW r \in Rumor, Holds(S, g, r), NEW phase \in {"waiting", "spreading"}
  PROVE  GoroutineTrue(S, g, Goroutine(p, r, phase))
<1>1. NoStatus \in Status /\ \A o \in Origin : Held(NoStatus, o) = 0
  BY DEF NoStatus, Status, Held
<1>2. S[p].clock \in [Origin -> Nat]
  BY DEF Stored, Storage
<1> QED BY <1>1, <1>2 DEF GoroutineTrue, Goroutine, Monger, Claims

(***************************************************************************)
(* spreadTheRumor sends a rumor the gossiper holds.                        *)
(***************************************************************************)
LEMMA SpreadTrue ==
  ASSUME NEW S, Stored(S), NEW g \in Gossiper, NEW p \in Gossiper,
         NEW r \in Rumor, Holds(S, g, r), NEW t, TurnTrue(S, g, t)
  PROVE  TurnTrue(S, g, SpreadTheRumor(g, r, p, t))
<1>1. CASE p \in t.cs
  BY <1>1 DEF SpreadTheRumor
<1>2. CASE p \notin t.cs
  <2> DEFINE u == SpreadTheRumor(g, r, p, t)
  <2>1. u = Turn(t.cs \cup {p}, t.live \cup {Goroutine(p, r, "waiting")},
                 t.rest, t.out \cup {RumorTo(g, p, r)})
    BY <1>2 DEF SpreadTheRumor, TurnTrue, Turn
  <2>2. GoroutineTrue(S, g, Goroutine(p, r, "waiting"))
    BY NewGoroutineTrue
  <2>3. PacketTrue(S, RumorTo(g, p, r))
    BY DEF PacketTrue, RumorTo, Packet, RumorPacket
  <2> QED BY <2>1, <2>2, <2>3 DEF TurnTrue, Turn
<1> QED BY <1>1, <1>2

(***************************************************************************)
(* A turn that tells the truth leaves packets and goroutines that do.      *)
(***************************************************************************)
LEMMA EndTurnTrue ==
  ASSUME TypeOK, NEW S, NEW g \in Gossiper, NEW t, TurnTrue(S, g, t), EndTurn(g, t),
         \A h \in Gossiper : \A d \in mongers[h] : GoroutineTrue(S, h, d)
  PROVE  /\ channels' \in [Gossiper -> SUBSET Gossiper]
         /\ mongers' \in [Gossiper -> SUBSET Monger]
         /\ net' \subseteq Packet
         /\ \A m \in net' : PacketTrue(S, m)
         /\ \A h \in Gossiper : \A d \in mongers'[h] : GoroutineTrue(S, h, d)
<1>1. /\ channels \in [Gossiper -> SUBSET Gossiper]
      /\ mongers \in [Gossiper -> SUBSET Monger]
  BY DEF TypeOK
<1>2. net' \subseteq t.rest \cup t.out
  BY DEF EndTurn, Send
<1>3. /\ channels' = [channels EXCEPT ![g] = t.cs]
      /\ mongers' = [mongers EXCEPT ![g] = t.live]
  BY DEF EndTurn
<1>4. channels' \in [Gossiper -> SUBSET Gossiper]
  BY <1>1, <1>3 DEF TurnTrue
<1>5. \A h \in Gossiper : \A d \in mongers'[h] : GoroutineTrue(S, h, d)
  BY <1>1, <1>3 DEF TurnTrue
<1>6. mongers' \in [Gossiper -> SUBSET Monger]
  BY <1>1, <1>3, <1>5 DEF GoroutineTrue
<1>7. \A m \in net' : PacketTrue(S, m)
  BY <1>2 DEF TurnTrue
<1> QED BY <1>4, <1>5, <1>6, <1>7 DEF PacketTrue

-----------------------------------------------------------------------------
\* Steps

(***************************************************************************)
(* A step that stores nothing and changes no next hop keeps the invariant  *)
(* when what it leaves in flight tells the truth.                          *)
(***************************************************************************)
LEMMA QuietStep ==
  ASSUME IInv, UNCHANGED <<nextHop, storage>>,
         peers' \in [Gossiper -> SUBSET Gossiper],
         wedged' \in [Gossiper -> BOOLEAN],
         channels' \in [Gossiper -> SUBSET Gossiper],
         mongers' \in [Gossiper -> SUBSET Monger],
         \A m \in net' : PacketTrue(storage, m),
         \A g \in Gossiper : \A d \in mongers'[g] : GoroutineTrue(storage, g, d)
  PROVE  IInv'
<1>1. net' \subseteq Packet
  BY DEF PacketTrue
<1>2. TypeOK'
  BY <1>1 DEF IInv, TypeOK
<1>3. InFlightTrue'
  BY DEF InFlightTrue, PacketTrue, GoroutineTrue, Holds, Claims
<1>4. LogsArePrefixes' /\ Stored(storage')
  BY DEF IInv, LogsArePrefixes
<1>5. NoHopToSelf' /\ NextHopIsFresh'
  BY DEF IInv, NoHopToSelf, NextHopIsFresh
<1>6. RoutesReachOrigin'
  BY DEF IInv, RoutesReachOrigin
<1> QED BY <1>2, <1>3, <1>4, <1>5, <1>6 DEF IInv

(***************************************************************************)
(* The same for a turn: it is enough that the turn tells the truth.        *)
(***************************************************************************)
LEMMA QuietTurn ==
  ASSUME IInv, NEW g \in Gossiper, NEW t, TurnTrue(storage, g, t), EndTurn(g, t),
         UNCHANGED <<nextHop, storage, wedged>>,
         peers' \in [Gossiper -> SUBSET Gossiper]
  PROVE  IInv'
<1>1. TypeOK /\ \A h \in Gossiper : \A d \in mongers[h] : GoroutineTrue(storage, h, d)
  BY DEF IInv, InFlightTrue
<1>2. /\ channels' \in [Gossiper -> SUBSET Gossiper]
      /\ mongers' \in [Gossiper -> SUBSET Monger]
      /\ \A m \in net' : PacketTrue(storage, m)
      /\ \A h \in Gossiper : \A d \in mongers'[h] : GoroutineTrue(storage, h, d)
  BY <1>1, EndTurnTrue
<1>3. wedged' \in [Gossiper -> BOOLEAN]
  BY <1>1 DEF TypeOK
<1> QED BY <1>2, <1>3, QuietStep

(***************************************************************************)
(* The turns that the handlers start from.                                 *)
(***************************************************************************)
LEMMA TurnStartsTrue ==
  ASSUME IInv, NEW g \in Gossiper, NEW cs \in SUBSET channels[g],
         NEW live \in SUBSET mongers[g], NEW rest \in SUBSET net
  PROVE  TurnTrue(storage, g, Turn(cs, live, rest, {}))
<1>1. channels[g] \subseteq Gossiper
  BY DEF IInv, TypeOK
<1>2. /\ \A d \in live : GoroutineTrue(storage, g, d)
      /\ \A m \in rest : PacketTrue(storage, m)
  BY DEF IInv, InFlightTrue
<1> QED BY <1>1, <1>2 DEF TurnTrue, Turn

(***************************************************************************)
(* The sender of a packet in flight is a gossiper; a status packet carries *)
(* a status and a rumor packet a rumor.                                    *)
(***************************************************************************)
LEMMA PacketFields ==
  ASSUME IInv, NEW m \in net
  PROVE  /\ m.src \in Gossiper
         /\ m.kind = "status" => m.want \in Status /\ Claims(storage, m.src, m.want)
         /\ m.kind = "rumor" => m.rumor \in Rumor /\ Holds(storage, m.src, m.rumor)
<1>1. PacketTrue(storage, m)
  BY DEF IInv, InFlightTrue
<1> QED BY <1>1 DEF PacketTrue, Packet, RumorPacket, StatusPacket

(***************************************************************************)
(* Learning of the sender of a packet keeps the table of peers well-typed  *)
(* (UpdatePeersIfNeeded).                                                  *)
(***************************************************************************)
LEMMA PeerLearnt ==
  ASSUME IInv, NEW g \in Gossiper, NEW p \in Gossiper,
         peers' = [peers EXCEPT ![g] = @ \cup {p}]
  PROVE  peers' \in [Gossiper -> SUBSET Gossiper]
BY DEF IInv, TypeOK

(***************************************************************************)
(* Asking a peer for more tells it the truth.                              *)
(***************************************************************************)
LEMMA AskTurnTrue ==
  ASSUME IInv, NEW g \in Gossiper, NEW p \in Gossiper, NEW t, TurnTrue(storage, g, t)
  PROVE  TurnTrue(storage, g, [t EXCEPT !.out = @ \cup {StatusTo(g, p)}])
<1>1. PacketTrue(storage, StatusTo(g, p))
  BY CurrentStatusTrue DEF IInv, PacketTrue, StatusTo, Packet, StatusPacket
<1>2. [t EXCEPT !.out = @ \cup {StatusTo(g, p)}]
        = Turn(t.cs, t.live, t.rest, t.out \cup {StatusTo(g, p)})
  BY DEF TurnTrue, Turn
<1> QED BY <1>1, <1>2 DEF TurnTrue, Turn

(***************************************************************************)
(* A status nobody waits for: the turn spreads a rumor of the storage,     *)
(* asks for more or does nothing (processAddressedStatusPacket).           *)
(***************************************************************************)
LEMMA ReceiveStatusOK ==
  ASSUME IInv, NEW g \in Gossiper, NEW m \in net, ReceiveStatus(g, m)
  PROVE  IInv'
<1> DEFINE t == Turn(channels[g], mongers[g], net \ {m}, {})
<1>1. TurnTrue(storage, g, t)
  BY TurnStartsTrue
<1>2. m.src \in Gossiper /\ m.want \in Status
  BY PacketFields DEF ReceiveStatus
<1>3. /\ peers' \in [Gossiper -> SUBSET Gossiper]
      /\ UNCHANGED <<nextHop, storage, wedged>>
  BY <1>2, PeerLearnt DEF ReceiveStatus
<1> HIDE DEF t
<1>4. CASE EndTurn(g, t)
  BY <1>1, <1>3, <1>4, QuietTurn
<1>5. ASSUME NEW r \in DiffRumors(storage[g], m.want),
             EndTurn(g, SpreadTheRumor(g, r, m.src, t))
      PROVE  IInv'
  <2>1. r \in Rumor /\ Holds(storage, g, r)
    BY <1>2, DiffRumorsHeld DEF IInv
  <2>2. TurnTrue(storage, g, SpreadTheRumor(g, r, m.src, t))
    BY <1>1, <1>2, <2>1, SpreadTrue DEF IInv
  <2> QED BY <1>3, <1>5, <2>2, QuietTurn
<1>6. CASE AskForMore(g, m.src, m.want, t)
  <2>1. EndTurn(g, [t EXCEPT !.out = @ \cup {StatusTo(g, m.src)}])
    BY <1>6 DEF AskForMore
  <2>2. TurnTrue(storage, g, [t EXCEPT !.out = @ \cup {StatusTo(g, m.src)}])
    BY <1>1, <1>2, AskTurnTrue
  <2> QED BY <1>3, <2>1, <2>2, QuietTurn
<1> QED BY <1>4, <1>5, <1>6 DEF ReceiveStatus, t

(***************************************************************************)
(* A status handed to a waiting goroutine is as true there as it was in    *)
(* flight (processAddressedStatusPacket).                                  *)
(***************************************************************************)
LEMMA HandStatusOK ==
  ASSUME IInv, NEW g \in Gossiper, NEW m \in net, HandStatus(g, m)
  PROVE  IInv'
<1>1. m.src \in Gossiper /\ m.want \in Status /\ Claims(storage, m.src, m.want)
  BY PacketFields DEF HandStatus
<1>2. /\ peers' \in [Gossiper -> SUBSET Gossiper]
      /\ UNCHANGED <<nextHop, storage, wedged>>
  BY <1>1, PeerLearnt DEF HandStatus
<1>3. PICK d \in mongers[g] :
        /\ d.peer = m.src
        /\ EndTurn(g, Turn(channels[g] \ {m.src},
                           (mongers[g] \ {d}) \cup {Handed(d, m.want)}, net \ {m}, {}))
  BY DEF HandStatus
<1>4. GoroutineTrue(storage, g, d)
  BY DEF IInv, InFlightTrue
<1>5. GoroutineTrue(storage, g, Handed(d, m.want))
  BY <1>1, <1>3, <1>4 DEF GoroutineTrue, Monger, Handed
<1>6. TurnTrue(storage, g, Turn(channels[g] \ {m.src}, mongers[g] \ {d}, net \ {m}, {}))
  BY TurnStartsTrue
<1>7. TurnTrue(storage, g,
        Turn(channels[g] \ {m.src}, (mongers[g] \ {d}) \cup {Handed(d, m.want)},
             net \ {m}, {}))
  BY <1>5, <1>6 DEF TurnTrue, Turn
<1> QED BY <1>2, <1>3, <1>7, QuietTurn

(***************************************************************************)
(* A message processor that blocks in `val <- sp' changes nothing the      *)
(* invariant speaks of.                                                    *)
(***************************************************************************)
LEMMA BlockOnStatusOK ==
  ASSUME IInv, NEW g \in Gossiper, NEW m \in net, BlockOnStatus(g, m)
  PROVE  IInv'
<1>1. m.src \in Gossiper
  BY PacketFields
<1>2. peers' \in [Gossiper -> SUBSET Gossiper]
  BY <1>1, PeerLearnt DEF BlockOnStatus
<1>3. wedged' \in [Gossiper -> BOOLEAN]
  BY DEF BlockOnStatus, IInv, TypeOK
<1> QED BY <1>2, <1>3, QuietStep DEF BlockOnStatus, IInv, TypeOK, InFlightTrue

(***************************************************************************)
(* The firing of a goroutine's timer keeps what the goroutine knows        *)
(* (startRumorMongeringThread).                                            *)
(***************************************************************************)
LEMMA MongerTimeoutOK ==
  ASSUME IInv, NEW g \in Gossiper, NEW d \in mongers[g], MongerTimeout(g, d)
  PROVE  IInv'
<1> DEFINE e == [d EXCEPT !.phase = "fired"]
<1>1. GoroutineTrue(storage, g, d)
  BY DEF IInv, InFlightTrue
<1>2. e = [peer |-> d.peer, rumor |-> d.rumor, want |-> d.want, phase |-> "fired"]
  BY <1>1 DEF GoroutineTrue, Monger
<1>3. GoroutineTrue(storage, g, e)
  BY <1>1, <1>2 DEF GoroutineTrue, Monger
<1>4. mongers' = [mongers EXCEPT ![g] = (@ \ {d}) \cup {e}]
  BY DEF MongerTimeout
<1> HIDE DEF e
<1>5. mongers \in [Gossiper -> SUBSET Monger]
  BY DEF IInv, TypeOK
<1>6. /\ \A h \in Gossiper : \A f \in mongers'[h] : GoroutineTrue(storage, h, f)
      /\ mongers' \in [Gossiper -> SUBSET Monger]
  BY <1>3, <1>4, <1>5 DEF IInv, InFlightTrue, GoroutineTrue
<1>7. /\ peers' \in [Gossiper -> SUBSET Gossiper]
      /\ wedged' \in [Gossiper -> BOOLEAN]
      /\ channels' \in [Gossiper -> SUBSET Gossiper]
      /\ \A m \in net' : PacketTrue(storage, m)
      /\ UNCHANGED <<nextHop, storage>>
  BY DEF MongerTimeout, IInv, TypeOK, InFlightTrue
<1> QED BY <1>6, <1>7, QuietStep

(***************************************************************************)
(* A goroutine that goes on spreads a rumor the gossiper holds.            *)
(***************************************************************************)
LEMMA GoOnTrue ==
  ASSUME IInv, NEW g \in Gossiper, NEW p \in Gossiper, NEW r \in Rumor,
         Holds(storage, g, r), NEW t, TurnTrue(storage, g, t)
  PROVE  TurnTrue(storage, g, [t EXCEPT !.live = @ \cup {Goroutine(p, r, "spreading")}])
<1>1. GoroutineTrue(storage, g, Goroutine(p, r, "spreading"))
  BY NewGoroutineTrue DEF IInv
<1>2. [t EXCEPT !.live = @ \cup {Goroutine(p, r, "spreading")}]
        = Turn(t.cs, t.live \cup {Goroutine(p, r, "spreading")}, t.rest, t.out)
  BY DEF TurnTrue, Turn
<1> QED BY <1>1, <1>2 DEF TurnTrue, Turn

(***************************************************************************)
(* However the coin falls, the goroutine that ends or goes on leaves a     *)
(* turn that tells the truth (flipRumorMongeringCoin).                     *)
(***************************************************************************)
LEMMA FlipCoinOK ==
  ASSUME IInv, NEW g \in Gossiper, NEW d \in mongers[g], NEW t,
         TurnTrue(storage, g, t), FlipCoin(g, d, t),
         UNCHANGED <<peers, nextHop, storage, wedged>>
  PROVE  IInv'
<1>1. peers \in [Gossiper -> SUBSET Gossiper]
  BY DEF IInv, TypeOK
<1>2. CASE EndTurn(g, t)
  BY <1>1, <1>2, QuietTurn
<1>3. ASSUME NEW p \in peers[g],
             EndTurn(g, [t EXCEPT !.live = @ \cup {Goroutine(p, d.rumor, "spreading")}])
      PROVE  IInv'
  <2>1. p \in Gossiper
    BY <1>1
  <2>2. d.rumor \in Rumor /\ Holds(storage, g, d.rumor)
    BY DEF IInv, InFlightTrue, GoroutineTrue, Monger
  <2>3. TurnTrue(storage, g,
          [t EXCEPT !.live = @ \cup {Goroutine(p, d.rumor, "spreading")}])
    BY <2>1, <2>2, GoOnTrue
  <2> QED BY <1>1, <1>3, <2>3, QuietTurn
<1> QED BY <1>2, <1>3 DEF FlipCoin

(***************************************************************************)
(* A goroutine that timed out gives up its channel and flips the coin      *)
(* (startRumorMongeringThread).                                            *)
(***************************************************************************)
LEMMA MongerCleanUpOK ==
  ASSUME IInv, NEW g \in Gossiper, NEW d \in mongers[g], MongerCleanUp(g, d)
  PROVE  IInv'
<1>1. TurnTrue(storage, g, Turn(channels[g] \ {d.peer}, mongers[g] \ {d}, net, {}))
  BY TurnStartsTrue
<1> QED BY <1>1, FlipCoinOK DEF MongerCleanUp

(***************************************************************************)
(* A goroutine that compares the status it was handed spreads a rumor of   *)
(* the storage, asks for more or flips the coin                            *)
(* (startRumorMongeringThread, Diff).                                      *)
(***************************************************************************)
LEMMA MongerStatusOK ==
  ASSUME IInv, NEW g \in Gossiper, NEW d \in mongers[g], MongerStatus(g, d)
  PROVE  IInv'
<1> DEFINE t == Turn(channels[g], mongers[g] \ {d}, net, {})
<1>1. TurnTrue(storage, g, t)
  BY TurnStartsTrue
<1>2. d.peer \in Gossiper /\ d.want \in Status
  BY DEF IInv, InFlightTrue, GoroutineTrue, Monger
<1>3. /\ peers' \in [Gossiper -> SUBSET Gossiper]
      /\ UNCHANGED <<peers, nextHop, storage, wedged>>
  BY DEF MongerStatus, IInv, TypeOK
<1> HIDE DEF t
<1>4. CASE FlipCoin(g, d, t)
  BY <1>1, <1>3, <1>4, FlipCoinOK
<1>5. ASSUME NEW r \in DiffRumors(storage[g], d.want),
             EndTurn(g, [t EXCEPT !.live = @ \cup {Goroutine(d.peer, r, "spreading")}])
      PROVE  IInv'
  <2>1. r \in Rumor /\ Holds(storage, g, r)
    BY <1>2, DiffRumorsHeld DEF IInv
  <2>2. TurnTrue(storage, g,
          [t EXCEPT !.live = @ \cup {Goroutine(d.peer, r, "spreading")}])
    BY <1>1, <1>2, <2>1, GoOnTrue
  <2> QED BY <1>3, <1>5, <2>2, QuietTurn
<1>6. CASE AskForMore(g, d.peer, d.want, t)
  <2>1. EndTurn(g, [t EXCEPT !.out = @ \cup {StatusTo(g, d.peer)}])
    BY <1>6 DEF AskForMore
  <2>2. TurnTrue(storage, g, [t EXCEPT !.out = @ \cup {StatusTo(g, d.peer)}])
    BY <1>1, <1>2, AskTurnTrue
  <2> QED BY <1>3, <2>1, <2>2, QuietTurn
<1> QED BY <1>4, <1>5, <1>6 DEF MongerStatus, t

(***************************************************************************)
(* A goroutine that enters spreadTheRumor sends a rumor the gossiper       *)
(* holds.                                                                  *)
(***************************************************************************)
LEMMA MongerSpreadOK ==
  ASSUME IInv, NEW g \in Gossiper, NEW d \in mongers[g], MongerSpread(g, d)
  PROVE  IInv'
<1> DEFINE t == Turn(channels[g], mongers[g] \ {d}, net, {})
<1>1. TurnTrue(storage, g, t)
  BY TurnStartsTrue
<1>2. d.peer \in Gossiper /\ d.rumor \in Rumor /\ Holds(storage, g, d.rumor)
  BY DEF IInv, InFlightTrue, GoroutineTrue, Monger
<1>3. TurnTrue(storage, g, SpreadTheRumor(g, d.rumor, d.peer, t))
  BY <1>1, <1>2, SpreadTrue DEF IInv
<1>4. peers' \in [Gossiper -> SUBSET Gossiper]
  BY DEF MongerSpread, IInv, TypeOK
<1> QED BY <1>3, <1>4, QuietTurn DEF MongerSpread

(***************************************************************************)
(* The status that anti-entropy sends is that of the storage               *)
(* (StartAntiEntropyTimer).                                                *)
(***************************************************************************)
LEMMA AntiEntropyOK ==
  ASSUME IInv, NEW g \in Gossiper, NEW p \in Gossiper, AntiEntropy(g, p)
  PROVE  IInv'
<1>1. PacketTrue(storage, StatusTo(g, p))
  BY CurrentStatusTrue DEF IInv, PacketTrue, StatusTo, Packet, StatusPacket
<1>2. net' \subseteq net \cup {StatusTo(g, p)}
  BY DEF AntiEntropy, Send
<1>3. \A m \in net' : PacketTrue(storage, m)
  BY <1>1, <1>2 DEF IInv, InFlightTrue
<1> QED BY <1>3, QuietStep DEF AntiEntropy, IInv, TypeOK, InFlightTrue

(***************************************************************************)
(* Being told of a peer on the web page changes the table of peers alone   *)
(* (addPeer).                                                              *)
(***************************************************************************)
LEMMA AddPeerOK ==
  ASSUME IInv, NEW g \in Gossiper, NEW p \in Gossiper, AddPeer(g, p)
  PROVE  IInv'
<1>1. peers' \in [Gossiper -> SUBSET Gossiper]
  BY PeerLearnt DEF AddPeer
<1> QED BY <1>1, QuietStep DEF AddPeer, IInv, TypeOK, InFlightTrue

-----------------------------------------------------------------------------
\* Steps that may store a rumor

(***************************************************************************)
(* A new rumor is held once AddRumorMessage has run.                       *)
(***************************************************************************)
LEMMA NewIsHeld ==
  ASSUME Stored(storage), NEW g \in Gossiper, NEW r \in Rumor,
         IsNewMessage(storage[g], r),
         storage'[g] = AddRumorMessage(storage[g], r)
  PROVE  Holds(storage', g, r)
<1>1. r.origin \in Origin /\ r.id \in Nat
  BY DEF Rumor
<1>2. /\ storage[g].rumors \in [Origin -> Seq(Rumor)]
      /\ storage[g].clock[r.origin] = Len(storage[g].rumors[r.origin])
  BY <1>1 DEF Stored, Storage, ClockCountsRumors
<1>3. r.id - 1 = storage[g].clock[r.origin]
  BY DEF IsNewMessage
<1>4. AddRumorMessage(storage[g], r).rumors
        = [storage[g].rumors EXCEPT ![r.origin] = Append(@, r)]
  BY <1>3, AddNextRumor
<1> DEFINE s == storage[g].rumors[r.origin]
<1>5. storage'[g].rumors[r.origin] = Append(s, r)
  BY <1>1, <1>2, <1>4, Zenon
<1>6. s \in Seq(Rumor) /\ r.id - 1 = Len(s)
  BY <1>1, <1>2, <1>3
<1> HIDE DEF s
<1>7. /\ Len(s) \in Nat /\ Len(Append(s, r)) = Len(s) + 1
      /\ Append(s, r)[Len(s) + 1] = r
  BY <1>6, AppendOne
<1>8. r.id = Len(s) + 1
  BY <1>1, <1>6, <1>7
<1>9. r.id \in 1..Len(Append(s, r)) /\ Append(s, r)[r.id] = r
  BY <1>7, <1>8
<1> QED BY <1>5, <1>9, Zenon DEF Holds

(***************************************************************************)
(* What processRumorMessage leaves, whoever calls it.                      *)
(***************************************************************************)
LEMMA ProcessTrue ==
  ASSUME IInv, NEW g \in Gossiper, NEW r \in Rumor, NEW known \in SUBSET Gossiper,
         NEW t, TurnTrue(storage, g, t), ProcessRumorMessage(g, r, known, t)
  PROVE  /\ Stored(storage')
         /\ Extends(storage, storage')
         /\ \A h \in Gossiper \ {g} : storage'[h] = storage[h]
         /\ storage'[g] = AddRumorMessage(storage[g], r)
         /\ channels' \in [Gossiper -> SUBSET Gossiper]
         /\ mongers' \in [Gossiper -> SUBSET Monger]
         /\ net' \subseteq Packet
         /\ InFlightTrue'
<1>1. /\ Stored(storage')
      /\ Extends(storage, storage')
      /\ \A h \in Gossiper \ {g} : storage'[h] = storage[h]
      /\ storage'[g] = AddRumorMessage(storage[g], r)
  BY StoreGrows DEF ProcessRumorMessage, IInv
<1>2. /\ \A m \in net : PacketTrue(storage', m)
      /\ \A h \in Gossiper : \A d \in mongers[h] : GoroutineTrue(storage', h, d)
  BY <1>1, TruthStays DEF IInv, InFlightTrue
<1>3. TurnTrue(storage', g, t)
  BY <1>1, TruthStays DEF TurnTrue, IInv
<1>4. PICK u : TurnTrue(storage', g, u) /\ EndTurn(g, u)
  <2>1. CASE EndTurn(g, t)
    BY <1>3, <2>1
  <2>2. ASSUME NEW p \in known, EndTurn(g, SpreadTheRumor(g, r, p, t)),
               IsNewMessage(storage[g], r)
        PROVE  \E u : TurnTrue(storage', g, u) /\ EndTurn(g, u)
    <3>1. Holds(storage', g, r)
      BY <1>1, <2>2, NewIsHeld DEF IInv
    <3>2. TurnTrue(storage', g, SpreadTheRumor(g, r, p, t))
      BY <1>1, <1>3, <3>1, SpreadTrue
    <3> QED BY <2>2, <3>2
  <2> QED BY <2>1, <2>2 DEF ProcessRumorMessage
<1>5. TypeOK
  BY DEF IInv
<1>6. /\ channels' \in [Gossiper -> SUBSET Gossiper]
      /\ mongers' \in [Gossiper -> SUBSET Monger]
      /\ net' \subseteq Packet
      /\ \A m \in net' : PacketTrue(storage', m)
      /\ \A h \in Gossiper : \A d \in mongers'[h] : GoroutineTrue(storage', h, d)
  BY <1>2, <1>4, <1>5, EndTurnTrue
<1>7. InFlightTrue'
  BY <1>6 DEF InFlightTrue, PacketTrue, GoroutineTrue, Holds, Claims
<1> QED BY <1>1, <1>6, <1>7

(***************************************************************************)
(* A rumor that a gossiper holds is the one its origin issued, and the     *)
(* origin itself never takes it for new.                                   *)
(***************************************************************************)
LEMMA HeldIsIssued ==
  ASSUME IInv, NEW p \in Gossiper, NEW r \in Rumor, Holds(storage, p, r)
  PROVE  /\ Holds(storage, r.origin, r)
         /\ r.id <= storage[p].clock[r.origin]
         /\ ~IsNewMessage(storage[r.origin], r)
<1>1. r.origin \in Gossiper /\ r.id \in Nat
  BY GossiperAssumption DEF Rumor
<1>2. \A h \in Gossiper : /\ storage[h].rumors[r.origin] \in Seq(Rumor)
                          /\ storage[h].clock[r.origin] = Len(storage[h].rumors[r.origin])
  BY <1>1, GossiperAssumption DEF IInv, Stored, Storage, ClockCountsRumors
<1>3. /\ Len(storage[p].rumors[r.origin]) <= Len(storage[r.origin].rumors[r.origin])
      /\ \A i \in 1..Len(storage[p].rumors[r.origin]) :
            storage[p].rumors[r.origin][i] = storage[r.origin].rumors[r.origin][i]
  BY <1>1 DEF IInv, LogsArePrefixes
<1>4. Holds(storage, r.origin, r)
  <2>1. /\ r.id \in 1..Len(storage[p].rumors[r.origin])
        /\ storage[p].rumors[r.origin][r.id] = r
    BY DEF Holds
  <2>2. /\ Len(storage[p].rumors[r.origin]) \in Nat
        /\ Len(storage[r.origin].rumors[r.origin]) \in Nat
    <3>1. ASSUME NEW h \in Gossiper PROVE Len(storage[h].rumors[r.origin]) \in Nat
      BY <1>2
    <3> QED BY <1>1, <3>1
  <2>3. r.id \in 1..Len(storage[r.origin].rumors[r.origin])
    <3>1. Len(storage[p].rumors[r.origin]) <= Len(storage[r.origin].rumors[r.origin])
      BY <1>3
    <3> QED BY <2>1, <2>2, <3>1, LongerHasSlot
  <2> QED BY <1>3, <2>1, <2>3 DEF Holds
<1>5. r.id <= storage[p].clock[r.origin] /\ r.id <= storage[r.origin].clock[r.origin]
  BY <1>1, <1>2, <1>4 DEF Holds
<1>6. storage[r.origin].clock[r.origin] \in Nat
  BY <1>1, <1>2
<1> QED BY <1>1, <1>4, <1>5, <1>6 DEF IsNewMessage

(***************************************************************************)
(* Storing a rumor that its origin holds keeps every log a prefix.         *)
(***************************************************************************)
LEMMA PrefixesKept ==
  ASSUME IInv, NEW g \in Gossiper, NEW r \in Rumor,
         Extends(storage, storage'), Stored(storage'),
         \A h \in Gossiper \ {g} : storage'[h] = storage[h],
         storage'[g] = AddRumorMessage(storage[g], r),
         r.origin = g \/ Holds(storage, r.origin, r)
  PROVE  LogsArePrefixes'
<1>0. r.origin \in Gossiper /\ r.id \in Nat
  BY GossiperAssumption DEF Rumor
<1> SUFFICES ASSUME NEW h \in Gossiper, NEW o \in Gossiper
             PROVE  /\ Len(storage'[h].rumors[o]) <= Len(storage'[o].rumors[o])
                    /\ \A i \in 1..Len(storage'[h].rumors[o]) :
                         storage'[h].rumors[o][i] = storage'[o].rumors[o][i]
  BY DEF LogsArePrefixes
<1>1. \A k \in Gossiper : /\ storage[k].rumors \in [Gossiper -> Seq(Rumor)]
                          /\ storage[k].clock[o] = Len(storage[k].rumors[o])
                          /\ storage'[k].rumors[o] \in Seq(Rumor)
  <2>1. o \in Origin /\ Origin = Gossiper
    BY GossiperAssumption
  <2>2. \A k \in Gossiper : /\ storage[k] \in Storage /\ storage'[k] \in Storage
                            /\ storage[k].clock[o] = Len(storage[k].rumors[o])
    BY <2>1 DEF IInv, Stored, ClockCountsRumors
  <2> QED BY <2>1, <2>2 DEF Storage
<1>2. /\ Len(storage[h].rumors[o]) <= Len(storage[o].rumors[o])
      /\ \A i \in 1..Len(storage[h].rumors[o]) :
            storage[h].rumors[o][i] = storage[o].rumors[o][i]
  BY DEF IInv, LogsArePrefixes
<1>3. \A i \in 1..Len(storage[o].rumors[o]) :
         /\ i \in 1..Len(storage'[o].rumors[o])
         /\ storage'[o].rumors[o][i] = storage[o].rumors[o][i]
  BY GossiperAssumption DEF Extends
<1>4. Len(storage[o].rumors[o]) <= Len(storage'[o].rumors[o])
  BY <1>1, <1>3
<1>5. CASE h = o
  BY <1>1, <1>5
<1>6. CASE storage'[h].rumors[o] = storage[h].rumors[o]
  BY <1>1, <1>2, <1>3, <1>4, <1>6
<1>7. CASE h # o /\ storage'[h].rumors[o] # storage[h].rumors[o]
  <2>1. h = g /\ r.id - 1 = storage[g].clock[r.origin]
    BY <1>7 DEF AddRumorMessage
  <2>2. AddRumorMessage(storage[g], r).rumors
          = [storage[g].rumors EXCEPT ![r.origin] = Append(@, r)]
    BY <2>1, AddNextRumor
  <2>3. o = r.origin /\ storage'[g].rumors[o] = Append(storage[g].rumors[o], r)
    BY <1>1, <1>7, <2>1, <2>2
  <2>4. Holds(storage, o, r) /\ r.id = Len(storage[g].rumors[o]) + 1
    <3>1. Holds(storage, o, r)
      BY <1>7, <2>1, <2>3
    <3>2. r.id - 1 = Len(storage[g].rumors[o]) /\ Len(storage[g].rumors[o]) \in Nat
      BY <1>1, <2>1, <2>3
    <3> QED BY <1>0, <3>1, <3>2
  <2>5. /\ r.id \in 1..Len(storage[o].rumors[o])
        /\ storage[o].rumors[o][r.id] = r
    BY <2>3, <2>4 DEF Holds
  <2>6. /\ Len(storage'[g].rumors[o]) = r.id
        /\ \A i \in 1..r.id : storage'[g].rumors[o][i] = storage[o].rumors[o][i]
    <3> DEFINE s == storage[g].rumors[o]
    <3>1. s \in Seq(Rumor) /\ Len(s) \in Nat /\ r.id = Len(s) + 1
      BY <1>1, <2>3, <2>4
    <3>2. /\ Len(Append(s, r)) = r.id
          /\ Append(s, r)[r.id] = r
          /\ \A i \in 1..Len(s) : Append(s, r)[i] = s[i]
      BY <3>1, AppendOne
    <3>3. \A i \in 1..Len(s) : s[i] = storage[o].rumors[o][i]
      BY <1>2, <2>1
    <3>4. \A i \in 1..r.id : i = r.id \/ i \in 1..Len(s)
      BY <3>1
    <3> HIDE DEF s
    <3>5. storage'[g].rumors[o] = Append(s, r)
      BY <2>3 DEF s
    <3> QED BY <2>5, <3>2, <3>3, <3>4, <3>5
  <2>7. Len(storage[o].rumors[o]) \in Nat /\ Len(storage'[o].rumors[o]) \in Nat
    BY <1>1
  <2>8. Len(storage'[h].rumors[o]) <= Len(storage'[o].rumors[o])
    <3>1. r.id <= Len(storage[o].rumors[o])
      BY <1>0, <2>5, <2>7
    <3>2. r.id <= Len(storage'[o].rumors[o])
      BY <1>4, <2>5, <2>7, LongerHasSlot
    <3>3. Len(storage'[h].rumors[o]) = r.id
      BY <2>1, <2>6
    <3> QED BY <3>2, <3>3
  <2>9. ASSUME NEW i \in 1..Len(storage'[h].rumors[o])
        PROVE  storage'[h].rumors[o][i] = storage'[o].rumors[o][i]
    <3>1. i \in 1..Len(storage[o].rumors[o])
      BY <1>0, <2>1, <2>5, <2>6, <2>7
    <3> QED BY <1>3, <2>1, <2>6, <3>1
  <2> QED BY <2>8, <2>9
<1> QED BY <1>5, <1>6, <1>7

(***************************************************************************)
(* The only clock that a stored rumor moves.                               *)
(***************************************************************************)
LEMMA ClockStep ==
  ASSUME IInv, NEW g \in Gossiper, NEW r \in Rumor,
         \A h \in Gossiper \ {g} : storage'[h] = storage[h],
         storage'[g] = AddRumorMessage(storage[g], r)
  PROVE  \A h, o \in Gossiper :
           /\ storage[h].clock[o] \in Nat
           /\ storage'[h].clock[o]
                = IF h = g /\ o = r.origin /\ IsNewMessage(storage[g], r)
                  THEN storage[h].clock[o] + 1
                  ELSE storage[h].clock[o]
<1> SUFFICES ASSUME NEW h \in Gossiper, NEW o \in Gossiper
             PROVE  /\ storage[h].clock[o] \in Nat
                    /\ storage'[h].clock[o]
                         = IF h = g /\ o = r.origin /\ IsNewMessage(storage[g], r)
                           THEN storage[h].clock[o] + 1
                           ELSE storage[h].clock[o]
  OBVIOUS
<1>1. /\ storage[h].clock \in [Gossiper -> Nat]
      /\ storage[g].clock \in [Gossiper -> Nat]
  BY GossiperAssumption DEF IInv, Stored, Storage
<1>2. r.origin \in Gossiper
  BY GossiperAssumption DEF Rumor
<1>3. CASE h # g
  BY <1>1, <1>3
<1>4. CASE h = g /\ ~IsNewMessage(storage[g], r)
  <2>1. storage'[h] = storage[h]
    BY <1>4 DEF AddRumorMessage, IsNewMessage
  <2> QED BY <1>1, <1>4, <2>1
<1>5. CASE h = g /\ IsNewMessage(storage[g], r)
  <2>1. AddRumorMessage(storage[g], r).clock = [storage[g].clock EXCEPT ![r.origin] = @ + 1]
    BY <1>5, AddNextRumor DEF IsNewMessage
  <2>2. storage'[h].clock = [storage[g].clock EXCEPT ![r.origin] = @ + 1]
    BY <1>5, <2>1
  <2> QED BY <1>1, <1>2, <1>5, <2>2
<1> QED BY <1>3, <1>4, <1>5

(***************************************************************************)
(* A gossiper's own rumor, for its client or its route-rumor thread.       *)
(***************************************************************************)
LEMMA ClientRumorOK ==
  ASSUME IInv, NEW g \in Gossiper, NEW x \in Text, ClientRumor(g, x)
  PROVE  IInv'
<1> DEFINE r == [origin |-> g, id |-> GetNextMessageId(storage[g], g), text |-> x]
           t == Turn(channels[g], mongers[g], net, {})
<1>1. /\ UNCHANGED <<peers, nextHop, wedged>>
      /\ ProcessRumorMessage(g, r, peers[g], t)
  BY DEF ClientRumor
<1>2. TypeOK /\ peers[g] \subseteq Gossiper
  BY DEF IInv, TypeOK
<1>3. r \in Rumor /\ r.origin = g
  <2>1. storage[g].clock[g] \in Nat
    BY GossiperAssumption DEF IInv, Stored, Storage
  <2> QED BY <2>1, GossiperAssumption DEF Rumor, GetNextMessageId
<1>4. TurnTrue(storage, g, t)
  BY TurnStartsTrue
<1> HIDE DEF r, t
<1>5. /\ Stored(storage')
      /\ Extends(storage, storage')
      /\ \A h \in Gossiper \ {g} : storage'[h] = storage[h]
      /\ storage'[g] = AddRumorMessage(storage[g], r)
      /\ channels' \in [Gossiper -> SUBSET Gossiper]
      /\ mongers' \in [Gossiper -> SUBSET Monger]
      /\ net' \subseteq Packet
      /\ InFlightTrue'
  BY <1>1, <1>2, <1>3, <1>4, ProcessTrue
<1>6. \A h, o \in Gossiper :
         /\ storage[h].clock[o] \in Nat
         /\ storage'[h].clock[o] \in {storage[h].clock[o], storage[h].clock[o] + 1}
         /\ o # g \/ h # g => storage'[h].clock[o] = storage[h].clock[o]
  BY <1>3, <1>5, ClockStep
<1>7. TypeOK'
  BY <1>1, <1>2, <1>5 DEF TypeOK, Stored
<1>8. LogsArePrefixes'
  BY <1>3, <1>5, PrefixesKept
<1>9. NoHopToSelf'
  BY <1>1 DEF IInv, NoHopToSelf
<1>10. NextHopIsFresh'
  <2>1. SUFFICES ASSUME NEW h \in Gossiper, NEW o \in Gossiper, NEW p \in Gossiper,
                        nextHop[h][o] = p
                 PROVE  storage'[p].clock[o] >= storage'[h].clock[o]
    BY <1>1 DEF NextHopIsFresh
  <2>2. storage[p].clock[o] >= storage[h].clock[o]
    BY <2>1 DEF IInv, NextHopIsFresh
  <2>3. o # g \/ h # g
    BY <2>1, NoHopAssumption DEF IInv, NoHopToSelf
  <2>4. storage'[h].clock[o] = storage[h].clock[o]
    BY <1>6, <2>3
  <2>5. /\ storage[p].clock[o] \in Nat /\ storage[h].clock[o] \in Nat
        /\ storage'[p].clock[o] \in {storage[p].clock[o], storage[p].clock[o] + 1}
    BY <1>6
  <2> QED BY <2>2, <2>4, <2>5
<1>11. RoutesReachOrigin'
  <2>1. SUFFICES ASSUME NEW o \in Gossiper
                 PROVE  \A h \in Gossiper \ {o} :
                          storage'[h].clock[o] > 0 => nextHop[h][o] # NoHop
    BY <1>1 DEF RoutesReachOrigin, IInv
  <2>2. \A h \in Gossiper \ {o} : storage'[h].clock[o] = storage[h].clock[o]
    BY <1>6
  <2> QED BY <2>2 DEF IInv, RoutesReachOrigin
<1> QED BY <1>5, <1>7, <1>8, <1>9, <1>10, <1>11 DEF IInv

(***************************************************************************)
(* A gossiper that takes a new rumor and routes through whoever sent it    *)
(* closes no cycle: everyone on a route from that sender has at least the  *)
(* new rumor, and the gossiper has just got it.                            *)
(***************************************************************************)
LEMMA NoNewCycle ==
  ASSUME IInv, NEW g \in Gossiper, NEW p \in Gossiper, NEW o \in Gossiper \ {g},
         \A h, q \in Gossiper : storage[h].clock[q] \in Nat,
         storage[p].clock[o] > storage[g].clock[o],
         nextHop' = [nextHop EXCEPT ![g][o] = p],
         NEW S \in SUBSET (Gossiper \ {o}), S # {}
  PROVE  \E h \in S : nextHop'[h][o] \notin S
<1> SUFFICES ASSUME \A h \in S : nextHop'[h][o] \in S PROVE FALSE
  OBVIOUS
<1>1. /\ nextHop \in [Gossiper -> [Gossiper -> Gossiper \cup {NoHop}]]
      /\ \A R \in (SUBSET (Gossiper \ {o})) \ {{}} : \E h \in R : nextHop[h][o] \notin R
  BY DEF IInv, TypeOK, RoutesReachOrigin
<1>2. /\ nextHop'[g][o] = p
      /\ \A h \in Gossiper \ {g} : nextHop'[h][o] = nextHop[h][o]
  BY <1>1
<1>3. CASE g \notin S
  <2>1. \A h \in S : nextHop[h][o] \in S
    BY <1>2, <1>3
  <2>2. S \in (SUBSET (Gossiper \ {o})) \ {{}}
    OBVIOUS
  <2> QED BY <1>1, <2>1, <2>2
<1>4. CASE g \in S
  <2> DEFINE R == {h \in S : storage[h].clock[o] >= storage[p].clock[o]}
  <2>1. p \in R
    BY <1>2, <1>4
  <2>2. g \notin R
    OBVIOUS
  <2>3. ASSUME NEW h \in R PROVE nextHop[h][o] \in R
    <3>1. h \in Gossiper \ {g} /\ storage[h].clock[o] >= storage[p].clock[o]
      BY <2>2
    <3>2. nextHop[h][o] \in S /\ nextHop[h][o] \in Gossiper
      BY <1>2, <3>1
    <3>3. storage[nextHop[h][o]].clock[o] >= storage[h].clock[o]
      BY <3>1, <3>2 DEF IInv, NextHopIsFresh
    <3>4. storage[nextHop[h][o]].clock[o] >= storage[p].clock[o]
      BY <3>1, <3>2, <3>3
    <3> QED BY <3>2, <3>4
  <2>4. R \in (SUBSET (Gossiper \ {o})) \ {{}}
    BY <2>1
  <2> QED BY <1>1, <2>3, <2>4
<1> QED BY <1>3, <1>4

(***************************************************************************)
(* A rumor from a peer, new or not.                                        *)
(***************************************************************************)
LEMMA ReceiveRumorOK ==
  ASSUME IInv, NEW g \in Gossiper, NEW m \in net, ReceiveRumor(g, m)
  PROVE  IInv'
<1> DEFINE r == m.rumor
           o == m.rumor.origin
           t == Turn(channels[g], mongers[g], net \ {m}, {StatusTo(g, m.src)})
<1>1. m.src \in Gossiper /\ r \in Rumor /\ Holds(storage, m.src, r)
  BY PacketFields DEF ReceiveRumor
<1>2. o \in Gossiper
  BY <1>1, GossiperAssumption DEF Rumor
<1>3. /\ peers' = [peers EXCEPT ![g] = @ \cup {m.src}]
      /\ wedged' = wedged
      /\ UpdateNextHop(g, m)
      /\ ProcessRumorMessage(g, r, peers[g] \cup {m.src}, t)
  BY DEF ReceiveRumor
<1>4. TypeOK /\ peers[g] \cup {m.src} \subseteq Gossiper
  BY <1>1 DEF IInv, TypeOK
<1>5. TurnTrue(storage, g, t)
  <2>1. TurnTrue(storage, g, Turn(channels[g], mongers[g], net \ {m}, {}))
    BY TurnStartsTrue
  <2>2. TurnTrue(storage, g, [Turn(channels[g], mongers[g], net \ {m}, {})
                                EXCEPT !.out = @ \cup {StatusTo(g, m.src)}])
    BY <1>1, <2>1, AskTurnTrue
  <2>3. [Turn(channels[g], mongers[g], net \ {m}, {})
           EXCEPT !.out = @ \cup {StatusTo(g, m.src)}] = t
    BY DEF Turn
  <2> QED BY <2>2, <2>3
<1> HIDE DEF t
<1>6. /\ Stored(storage')
      /\ Extends(storage, storage')
      /\ \A h \in Gossiper \ {g} : storage'[h] = storage[h]
      /\ storage'[g] = AddRumorMessage(storage[g], r)
      /\ channels' \in [Gossiper -> SUBSET Gossiper]
      /\ mongers' \in [Gossiper -> SUBSET Monger]
      /\ net' \subseteq Packet
      /\ InFlightTrue'
  BY <1>1, <1>3, <1>4, <1>5, ProcessTrue
<1>7. /\ \A h, q \in Gossiper : storage[h].clock[q] \in Nat
      /\ \A h, q \in Gossiper :
           storage'[h].clock[q]
             = IF h = g /\ q = o /\ IsNewMessage(storage[g], r)
               THEN storage[h].clock[q] + 1
               ELSE storage[h].clock[q]
  BY <1>1, <1>6, ClockStep
<1>8. LogsArePrefixes'
  BY <1>1, <1>6, HeldIsIssued, PrefixesKept
<1>9. peers' \in [Gossiper -> SUBSET Gossiper]
  BY <1>1, <1>3, PeerLearnt
<1>10. nextHop \in [Gossiper -> [Gossiper -> Gossiper \cup {NoHop}]]
  BY <1>4 DEF TypeOK
<1>11. CASE ~IsNewMessage(storage[g], r)
  <2>1. nextHop' = nextHop
    BY <1>3, <1>11 DEF UpdateNextHop
  <2>2. \A h, q \in Gossiper : storage'[h].clock[q] = storage[h].clock[q]
    BY <1>7, <1>11
  <2>3. TypeOK'
    BY <1>3, <1>4, <1>6, <1>9, <2>1 DEF TypeOK, Stored
  <2>4. NoHopToSelf' /\ NextHopIsFresh' /\ RoutesReachOrigin'
    BY <2>1, <2>2 DEF IInv, NoHopToSelf, NextHopIsFresh, RoutesReachOrigin
  <2> QED BY <1>6, <1>8, <2>3, <2>4 DEF IInv
<1>12. CASE IsNewMessage(storage[g], r)
  <2>1. nextHop' = [nextHop EXCEPT ![g][o] = m.src]
    BY <1>3, <1>12 DEF UpdateNextHop
  <2>2. /\ o # g
        /\ r.id <= storage[m.src].clock[o]
        /\ r.id - 1 = storage[g].clock[o]
        /\ r.id \in Nat
    BY <1>1, <1>2, <1>12, HeldIsIssued DEF IsNewMessage, Rumor
  <2>3. storage[m.src].clock[o] >= storage[g].clock[o] + 1 /\ m.src # g
    BY <1>1, <1>2, <1>7, <2>2
  <2>4. \A h, q \in Gossiper :
          nextHop'[h][q] = IF h = g /\ q = o THEN m.src ELSE nextHop[h][q]
    BY <1>2, <1>10, <2>1
  <2>5. TypeOK'
    <3>1. nextHop' \in [Gossiper -> [Gossiper -> Gossiper \cup {NoHop}]]
      BY <1>1, <1>10, <2>1
    <3> QED BY <1>3, <1>4, <1>6, <1>9, <3>1 DEF TypeOK, Stored
  <2>6. NoHopToSelf'
    BY <2>2, <2>4 DEF IInv, NoHopToSelf
  <2>7. NextHopIsFresh'
    <3>1. SUFFICES ASSUME NEW h \in Gossiper, NEW q \in Gossiper, NEW p \in Gossiper,
                          nextHop'[h][q] = p
                   PROVE  storage'[p].clock[q] >= storage'[h].clock[q]
      BY DEF NextHopIsFresh
    <3>2. CASE h = g /\ q = o
      <4>1. p = m.src
        BY <2>4, <3>1, <3>2
      <4> QED BY <1>1, <1>2, <1>7, <1>12, <2>3, <3>2, <4>1
    <3>3. CASE ~(h = g /\ q = o)
      <4>1. storage[p].clock[q] >= storage[h].clock[q]
        BY <2>4, <3>1, <3>3 DEF IInv, NextHopIsFresh
      <4>2. /\ storage'[h].clock[q] = storage[h].clock[q]
            /\ storage'[p].clock[q] \in {storage[p].clock[q], storage[p].clock[q] + 1}
            /\ storage[p].clock[q] \in Nat /\ storage[h].clock[q] \in Nat
        BY <1>7, <3>3
      <4> QED BY <4>1, <4>2
    <3> QED BY <3>2, <3>3
  <2>8. RoutesReachOrigin'
    <3>1. SUFFICES ASSUME NEW q \in Gossiper
                   PROVE  /\ \A h \in Gossiper \ {q} :
                               storage'[h].clock[q] > 0 => nextHop'[h][q] # NoHop
                          /\ \A S \in (SUBSET (Gossiper \ {q})) \ {{}} :
                               \E h \in S : nextHop'[h][q] \notin S
      BY DEF RoutesReachOrigin
    <3>2. \A h \in Gossiper \ {q} : storage'[h].clock[q] > 0 => nextHop'[h][q] # NoHop
      BY <1>1, <1>7, <2>4, NoHopAssumption DEF IInv, RoutesReachOrigin
    <3>3. CASE q = o
      <4>1. storage[m.src].clock[o] > storage[g].clock[o]
        BY <1>1, <1>2, <1>7, <2>3
      <4>2. o \in Gossiper \ {g}
        BY <1>2, <2>2
      <4>3. ASSUME NEW S \in SUBSET (Gossiper \ {o}), S # {}
            PROVE  \E h \in S : nextHop'[h][o] \notin S
        <5>1. g \in Gossiper /\ m.src \in Gossiper
          BY <1>1
        <5> HIDE DEF o
        <5> QED BY <5>1, <1>7, <2>1, <4>1, <4>2, <4>3, NoNewCycle
      <4> QED BY <3>2, <3>3, <4>3
    <3>4. CASE q # o
      <4>1. \A h \in Gossiper : nextHop'[h][q] = nextHop[h][q]
        BY <2>4, <3>4
      <4>2. \A S \in (SUBSET (Gossiper \ {q})) \ {{}} : \E h \in S : nextHop[h][q] \notin S
        BY DEF IInv, RoutesReachOrigin
      <4> QED BY <3>2, <4>1, <4>2
    <3> QED BY <3>3, <3>4
  <2> QED BY <1>6, <1>8, <2>5, <2>6, <2>7, <2>8 DEF IInv
<1> QED BY <1>11, <1>12

-----------------------------------------------------------------------------
\* The invariant

(***************************************************************************)
(* A network of gossipers that just started has the invariant: it holds no *)
(* rumor, no route and no packet.                                          *)
(***************************************************************************)
LEMMA InitOK == Init => IInv
<1> SUFFICES ASSUME Init PROVE IInv
  OBVIOUS
<1> USE DEF Init
<1>1. /\ storage \in [Gossiper -> Storage]
      /\ \A g \in Gossiper : storage[g] = InitMessageStorage
  BY InitStorageOK
<1>2. TypeOK
  BY <1>1, PeersAssumption DEF TypeOK
<1>3. Stored(storage)
  BY <1>1, InitStorageOK DEF Stored
<1>4. InFlightTrue
  BY DEF InFlightTrue
<1>5. \A g, o \in Gossiper : /\ storage[g].rumors[o] = <<>>
                             /\ storage[g].clock[o] = 0
  BY <1>1, GossiperAssumption DEF InitMessageStorage
<1>6. LogsArePrefixes
  BY <1>5 DEF LogsArePrefixes
<1>7. \A g, o \in Gossiper : nextHop[g][o] = NoHop
  OBVIOUS
<1>8. NoHopToSelf /\ NextHopIsFresh
  BY <1>5, <1>7 DEF NoHopToSelf, NextHopIsFresh
<1>9. RoutesReachOrigin
  BY <1>5, <1>7, NoHopAssumption DEF RoutesReachOrigin
<1> QED BY <1>2, <1>3, <1>4, <1>6, <1>8, <1>9 DEF IInv

(***************************************************************************)
(* Every step of every handler and goroutine keeps the invariant.          *)
(***************************************************************************)
LEMMA StepOK == IInv /\ [Next]_vars => IInv'
<1> SUFFICES ASSUME IInv, [Next]_vars PROVE IInv'
  OBVIOUS
<1>1. CASE UNCHANGED vars
  BY <1>1, QuietStep DEF vars, IInv, TypeOK, InFlightTrue
<1>2. ASSUME NEW g \in Gossiper, NEW x \in Text, ClientRumor(g, x) PROVE IInv'
  BY <1>2, ClientRumorOK
<1>3. ASSUME NEW g \in Gossiper, NEW m \in net, Receive(g, m) PROVE IInv'
  BY <1>3, ReceiveRumorOK, ReceiveStatusOK, HandStatusOK, BlockOnStatusOK DEF Receive
<1>4. ASSUME NEW g \in Gossiper, NEW d \in mongers[g], MongerStep(g, d) PROVE IInv'
  BY <1>4, MongerTimeoutOK, MongerCleanUpOK, MongerStatusOK, MongerSpreadOK
     DEF MongerStep
<1>5. ASSUME NEW g \in Gossiper, NEW p \in Gossiper, AntiEntropy(g, p) \/ AddPeer(g, p)
      PROVE  IInv'
  BY <1>5, AntiEntropyOK, AddPeerOK
<1> QED BY <1>1, <1>2, <1>3, <1>4, <1>5 DEF Next

(***************************************************************************)
(* The inductive invariant the other theorems rest on: storages are in     *)
(* order, what is in flight or handed over is true, every log is a prefix  *)
(* of its origin's, and next hops are fresh and lead to the origin         *)
(* (AddRumorMessage, Diff, updateNextHop).                                 *)
(***************************************************************************)
THEOREM Invariance == Spec => []IInv
BY InitOK, StepOK, PTL DEF Spec

(***************************************************************************)
(* Every variable keeps its type: no handler stores a malformed rumor,     *)
(* status, goroutine or next hop.                                          *)
(***************************************************************************)
THEOREM TypeCorrect == Spec => []TypeOK
<1>1. IInv => TypeOK
  BY DEF IInv
<1> QED BY <1>1, Invariance, PTL

(***************************************************************************)
(* Gossipers agree: whatever a gossiper holds of an origin is a prefix of  *)
(* what that origin issued (AddRumorMessage, IsNewMessage, Diff).          *)
(***************************************************************************)
THEOREM Agreement == Spec => []LogsArePrefixes
<1>1. IInv => LogsArePrefixes
  BY DEF IInv
<1> QED BY <1>1, Invariance, PTL

(***************************************************************************)
(* A gossiper routes through one that is at least as far along as itself   *)
(* (updateNextHop).                                                        *)
(***************************************************************************)
THEOREM FreshRoutes == Spec => []NextHopIsFresh
<1>1. IInv => NextHopIsFresh
  BY DEF IInv
<1> QED BY <1>1, Invariance, PTL

(***************************************************************************)
(* Next hops form no cycle and every gossiper that has heard of an origin  *)
(* has one for it (updateNextHop, sendPacketWithNextHop).                  *)
(***************************************************************************)
THEOREM LoopFreeRoutes == Spec => []RoutesReachOrigin
<1>1. IInv => RoutesReachOrigin
  BY DEF IInv
<1> QED BY <1>1, Invariance, PTL

(***************************************************************************)
(* No status, in flight or handed to a goroutine, claims a rumor that its  *)
(* sender lacks (GetCurrentStatusPacket).                                  *)
(***************************************************************************)
THEOREM TrueStatuses == Spec => []StatusesAreTrue
<1>1. IInv => StatusesAreTrue
  BY DEF IInv, InFlightTrue, PacketTrue, GoroutineTrue, Claims, StatusesAreTrue, Claimed
<1> QED BY <1>1, Invariance, PTL

===============================================================================
