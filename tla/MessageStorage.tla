---------------------------- MODULE MessageStorage ----------------------------
(***************************************************************************)
(* The rumor store of one gossiper (models/MessageStorage.go) as operators *)
(* on a record: the vector clock, the rumors received in order from every  *)
(* origin, and the rumors that carry text in the order they arrived.  Each *)
(* method of the struct runs under ms.mux, so each is one operator here.   *)
(*                                                                         *)
(* The clock is total: an origin the Go map has no entry for reads as 0.   *)
(* So is a status packet: it carries the number of the next rumor wanted   *)
(* from an origin, at least 2, and reads 0 at an origin it does not list.  *)
(***************************************************************************)
EXTENDS Naturals, Sequences

CONSTANTS Origin,    \* names of gossipers, the keys of the clock
          Text,      \* contents of rumors
          NoText     \* the empty text of a route rumor

ASSUME NoTextAssumption == NoText \in Text

Rumor == [origin : Origin, id : Nat \ {0}, text : Text]

Storage == [clock  : [Origin -> Nat],
            rumors : [Origin -> Seq(Rumor)],
            chron  : Seq(Rumor)]

\* The contents of a StatusPacket: origin -> NextID, 0 where it lists none.
Status == [Origin -> Nat]
NoStatus == [o \in Origin |-> 0]

InitMessageStorage ==
  [clock  |-> [o \in Origin |-> 0],
   rumors |-> [o \in Origin |-> <<>>],
   chron  |-> <<>>]

-----------------------------------------------------------------------------
\* Rumors are numbered from 1: the clock counts, the wire carries count + 1.

GetNextMessageId(ms, o) == ms.clock[o] + 1

\* Mutated: the count of the last rumor, not the number of the next one.
StatusMinusOne(ms) == [o \in Origin |-> ms.clock[o] - 1]

\* Mutated: the +1 applied both to the clock and to the snapshot.
StatusPlusTwo(ms) == [o \in Origin |-> IF ms.clock[o] > 0 THEN ms.clock[o] + 2 ELSE 0]

GetCurrentStatusPacket(ms) ==
  [o \in Origin |-> IF ms.clock[o] > 0 THEN ms.clock[o] + 1 ELSE 0]

\* othersMap in Diff: how many rumors of o the sender of the status holds.
Held(want, o) == IF want[o] = 0 THEN 0 ELSE want[o] - 1

Ahead(ms, want) == {o \in Origin : ms.clock[o] > Held(want, o)}

\* Mutated: the second loop of Diff left out.
ListedOnly(ms, want) == {o \in Ahead(ms, want) : want[o] # 0}

\* Diff returns a rumor of an origin the status lists before it looks at the
\* origins the status leaves out; among several the order of the Go map decides.
DiffOrigins(ms, want) ==
  LET listed == {o \in Ahead(ms, want) : want[o] # 0}
  IN  IF listed # {} THEN listed ELSE Ahead(ms, want)

\* The rumors Diff may return; the empty set stands for nil.
DiffRumors(ms, want) ==
  {ms.rumors[o][Held(want, o) + 1] : o \in DiffOrigins(ms, want)}

\* The second result of Diff, looked at only when the first is nil.
OtherHasNew(ms, want) == \E o \in Origin : ms.clock[o] < Held(want, o)

IsNewMessage(ms, r) == r.id - 1 = ms.clock[r.origin]

\* Mutated: stores a rumor although those before it are missing.
AddWithGaps(ms, r) ==
  IF r.id - 1 >= ms.clock[r.origin]
  THEN [ms EXCEPT !.clock[r.origin] = @ + 1, !.rumors[r.origin] = Append(@, r)]
  ELSE ms

\* Mutated: stores a rumor once more when it is sent again.
AddAgain(ms, r) ==
  IF r.id - 1 <= ms.clock[r.origin]
  THEN [ms EXCEPT !.clock[r.origin] = @ + 1, !.rumors[r.origin] = Append(@, r)]
  ELSE ms

\* Mutated: route rumors shown in the list for the web page.
AddRouteRumors(ms, r) ==
  IF r.id - 1 = ms.clock[r.origin]
  THEN [clock  |-> [ms.clock EXCEPT ![r.origin] = @ + 1],
        rumors |-> [ms.rumors EXCEPT ![r.origin] = Append(@, r)],
        chron  |-> Append(ms.chron, r)]
  ELSE ms

\* Only the next rumor of its origin is stored; older and later ones are dropped.
AddRumorMessage(ms, r) ==
  IF r.id - 1 = ms.clock[r.origin]
  THEN [clock  |-> [ms.clock EXCEPT ![r.origin] = @ + 1],
        rumors |-> [ms.rumors EXCEPT ![r.origin] = Append(@, r)],
        chron  |-> IF r.text # NoText THEN Append(ms.chron, r) ELSE ms.chron]
  ELSE ms

-----------------------------------------------------------------------------
(***************************************************************************)
(* The struct's own invariant ("VectorClock[name] = len(RumorMessages      *)
(* [name])") and what Diff's indexing and the web page rely on: slot i of  *)
(* an origin's list holds that origin's rumor number i, and the            *)
(* chronological list holds exactly the stored rumors that have text, each *)
(* origin's in the order of their numbers.                                 *)
(***************************************************************************)
ClockCountsRumors(ms) == \A o \in Origin : ms.clock[o] = Len(ms.rumors[o])

SlotsMatchIds(ms) ==
  \A o \in Origin : \A i \in 1..Len(ms.rumors[o]) :
     ms.rumors[o][i].origin = o /\ ms.rumors[o][i].id = i

ChronIsLog(ms) ==
  /\ \A i \in 1..Len(ms.chron) :
        LET r == ms.chron[i]
        IN  /\ r.text # NoText
            /\ r.id <= ms.clock[r.origin] /\ ms.rumors[r.origin][r.id] = r
  /\ \A o \in Origin : \A k \in 1..Len(ms.rumors[o]) :
        ms.rumors[o][k].text # NoText =>
           \E i \in 1..Len(ms.chron) : ms.chron[i] = ms.rumors[o][k]
  /\ \A i, j \in 1..Len(ms.chron) :
        i < j /\ ms.chron[i].origin = ms.chron[j].origin
          => ms.chron[i].id < ms.chron[j].id

StorageOK(ms) == ClockCountsRumors(ms) /\ SlotsMatchIds(ms) /\ ChronIsLog(ms)
===============================================================================
