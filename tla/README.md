# Peerster in TLA+

Specifications, model checks and proofs for Peerster, the decentralized gossip
application under `src/github.com/SubutaiBogatur/Peerster`. File names below are
relative to that directory; line numbers are those of the commit beside this
project.

## The system

A *gossiper* is one process with a dozen goroutines. The **message processor**
(`gossiper/Gossiper.go:424`) handles, one at a time, the messages of the local
client and the packets of other gossipers. The other goroutines read and write
the sockets, send a status now and then (anti-entropy), wait for the answer to a
rumor (one for every peer a rumor was sent to), wait for chunks of a file (one
for every origin downloaded from), search for files, and mine blocks. They share
structures behind mutexes with the processor and get answers from it over
unbuffered channels. Packets travel over UDP: lost, late, overtaken, sometimes
doubled. Nothing is kept over a restart.

| Component | State | Operations | Hard about it |
|---|---|---|---|
| Rumor store (`models/MessageStorage.go`) | vector clock, rumors by origin, rumors with text in order of arrival, private messages | next id, status snapshot, `Diff`, `IsNewMessage`, `AddRumorMessage` | numbering from 1 on the wire and from 0 inside; out-of-order arrival; indexing by another's clock |
| Rumor mongering (`Gossiper.go`, `RouteRumoringThread.go`) | peers, `statusesChannels`, live goroutines | client and route rumors, rumor and status packets, timer, coin, anti-entropy, `addPeer` | a status races the timer; the channel map is shared; everything may be lost; a stale status |
| Next-hop table | origin -> peer | `updateNextHop`, `sendPacketWithNextHop` | loops, dead ends |
| Private messages | list of messages | forward with a hop limit, display | routes change while a packet travels |
| File sharing (`SharedFilesManager.go`, `SharedFile.go`) | shared files, chunk directories | share, look up data, search | refusals that leave traces on disk |
| File download (`DownloadingFilesManager.go`, `DownloadingFile.go`, `Gossiper.go`) | downloads by origin, chunk files, channel map, goroutines | request, reply, time-out, give up, finish | replies race time-outs and the goroutine's lock; one directory for one name; retries |
| File search (`CurrentSearchRequest.go`, `Gossiper.go`) | the current request, its matches, recently answered requests | flood with a budget, reply, match, stop | unlocked reads, a channel under a mutex, budget arithmetic |
| Blockchain of file names (`models/blockchain`) | tree of blocks, tail, pending transactions, orphans | add transaction, add block, mine, publish | forks, roll-back, orphans, mining beside the processor |
| Simple messages | none | flood | no duplicate suppression |
| Merkle tree (`merkletree`) | none | build | not called by the gossiper |
| Wire formats, client, web server, `main.go` | none | encode, start, HTTP | pure I/O |

What makes each part correct:

* *rumors*: all gossipers agree on each origin's rumors, in order and without
  gaps; a status never claims what its sender lacks; each rumor reaches everyone;
* *mongering*: a channel belongs to one goroutine and no status blocks the
  processor;
* *routing*: following next hops ends at the origin;
* *download*: the three maps that describe a download agree; what is offered to
  others is on disk; a download ends;
* *blockchain*: no branch registers a name twice; the tail is the deepest block;
  a fork loses no name; the pending set fits the chain;
* *packets for one gossiper*: none is stranded half-way or circles; a private
  message arrives only where it was sent, and once for each copy of it that UDP
  makes, because nobody knows a copy when it comes (`AddPrivateMessage`);
* *search*: the budget bounds the flood; the request ends; each match counts once;
* *simple messages*: without a cycle among the peers each gossiper sees each once,
  and once more for each copy that UDP makes.

## Modules

| Module | What it is |
|---|---|
| `MessageStorage` | the rumor store as operators on a record |
| `RumorMongering` | the network of gossipers that exchange rumors and statuses |
| `RumorBroadcast` | what they promise together, without packets |
| `RumorRouting` | clocks and next hops alone, as rumors change them together |
| `RumorDelivery` | fairness, and the refinements of `RumorBroadcast` and `RumorRouting` |
| `RumorMongeringProofs` | the invariant of `RumorMongering` and what follows from it |
| `RumorRefinementProofs` | the two refinements, proved |
| `RumorLocalProofs` | the channels and the storage of one gossiper, proved |
| `MCRumorMongering` | instances for TLC |
| `Messaging` | packets passed on along the routes of `RumorRouting`, and simple messages |
| `PrivateDelivery` | what private messages promise from end to end |
| `MessagingProofs` | the invariants of `Messaging`, and the refinement of `PrivateDelivery` |
| `MCMessaging` | the instance for TLC |
| `FileSharing` | shared files and the book-keeping of a download as operators |
| `FileDownload` | gossipers that share and download files |
| `MCFileDownload` | instances for TLC |
| `FileSharingProofs` | what the operators of `FileSharing` return, proved |
| `FileDownloadProofs` | the invariant of `FileDownload` and what follows from it |
| `FileSearch` | gossipers that search each other's files and download what they found |
| `MCFileSearch` | instances for TLC |
| `FileSearchProofs` | the invariant of `FileSearch`, and how budgets shrink |
| `Blockchain` | the chain of file names with its mining threads |
| `MCBlockchain` | instances for TLC |
| `BlockchainProofs` | the tree of blocks and the names along its branches, proved |

Definitions whose comment begins with *Mutated* are plausible bugs: put in place
of the definition after them, they make a named property fail, which shows that
the property depends on that code.

### RumorMongering

`peers`, `nextHop`, `storage` are the fields of `Gossiper`; `channels` is the
key set of `statusesChannels`; `mongers` are the live goroutines of
`startRumorMongeringThread`, each with its peer, its rumor and where it is:
blocked in `select`, past its timer and before the mutex (line 907), with a
status in hand, or about to enter `spreadTheRumor`. `wedged` says that the
processor is blocked in `val <- sp` (line 541). `net` holds the packets in
flight; `Send` may lose any packet, and a read takes one out. A doubled packet
comes about by sending it again.

One action is one turn of one goroutine up to its next blocking point:

| Action | Code |
|---|---|
| `ClientRumor` | `processClientMessage`, rumor and route-rumor branches; `processRumorMessage` |
| `ReceiveRumor` | `processAddressedRumorMessage` with the feedback status, `updateNextHop`, `processRumorMessage`, `spreadTheRumor` |
| `ReceiveStatus`, `HandStatus`, `BlockOnStatus` | `processAddressedStatusPacket`: nobody waits; a goroutine reads the channel; a goroutine whose timer fired does not |
| `MongerTimeout`, `MongerCleanUp` | the timer case, before and after the mutex, with `flipRumorMongeringCoin` |
| `MongerStatus` | the status case: `Diff`, ask for more, or the coin |
| `MongerSpread` | `spreadTheRumor` called by a goroutine |
| `AntiEntropy`, `AddPeer` | `StartAntiEntropyTimer`; the web page's `addPeer` |

A turn of the processor is one step because what it does between its locks
(reading the store, storing, registering a channel) commutes with what the
goroutines do there; the one place where it does not, `Diff` in a goroutine and
the later `spreadTheRumor`, is two actions. Two goroutines that agree in every
field count once. A gossiper is identified with its name and its address, so a
changed name (`SetName`) and a gossiper listed as its own peer are left out. The
32-bit counters do not come near their limit.

While the processor is blocked it holds `statusesChannelsMux`, so goroutines stop
where they need it; timers, `Diff`, anti-entropy and `addPeer` go on.

### RumorBroadcast, RumorRouting and Messaging

`RumorBroadcast` keeps only the logs: an origin appends to its own, and everyone
else takes the next entry of that log. `RumorRouting` keeps only the clocks and
next hops: whoever takes the next rumor of an origin from a gossiper that is
ahead makes that gossiper its next hop. Both are implemented by `RumorMongering`
(`ImplementsBroadcast`, `ImplementsRouting`).

`Messaging` runs on top of `RumorRouting`, so it need not carry the goroutines
that bring rumors: `Issue` and `Hear` are its steps, and the refinement says that
the real network takes no others. What it adds is everything that travels by
next hop. One packet stands for each of the four kinds:

| Action | Code |
|---|---|
| `ClientPrivate` | the private branch of `processClientMessage` and `processPrivateMessage` at the origin, which counts as a hop |
| `SendRouted` | the first packet of a download, or the reply to a search request |
| `Forward` | the forwarding branches of `processPrivateMessage`, `processDataRequest`, `processDataReply`, `processAddressedSearchReply`: hop limit, then `sendPacketWithNextHop` |
| `AddPrivateMessage`, `AnswerDataRequest`, `TakeReply` | the same at the destination |
| `ClientSimple`, `ReceiveSimple` | `processAddressedSimpleMessage`: a copy for every peer but the one it came from |
| `Lose`, `Double` | UDP |

The network may double any packet, and each of the two takes its own way and may
be doubled again. Packets that are alike would be one in the set `net`, so each
has a number, `copy`, which is history: 0 for what the client sent, and a new one
for what `Double` adds. `doubled` counts the doublings of each kind, up to the
bound `Doublings`; a reply has the number of the request it answers. No handler
looks at the number, and so none can tell a copy from the first: the
destination shows both, and the properties count arrivals for each copy. `via`
is history, too: who sent the packet on, and how far with the destination's rumors
it was then. Gossipers in `SimpleMode` issue no
rumors, and a network is in one mode or the other, so the instance has two
islands. `SimpleNetsAreTrees` and `OneSimpleEach` say for which networks and
clients `SimpleShownOnce` is meant; `MCMessaging` assumes them, so that TLC
evaluates them for the instance.

In `FileDownload` and `FileSearch` packets go from end to end in one step;
`Messaging` shows what stands behind that: on the way a packet is passed on, lost
or doubled, and never changed. Those two modules leave the doubling out: data
replies come twice there because requests are repeated, a second copy of a search
request is dropped like a repeated one while the first is remembered, and
`FloodShrinks` is about the requests that gossipers send, not the copies UDP may
make of them.

### FileSharing and FileDownload

Hashes do not collide, so a chunk stands for its hash and a file for its
metahash. `shared`, `downloading`, `downloaded` are the maps of the two managers;
`dirs` and `disk` are what `_Downloads/chunks` holds, `written` what `_Downloads`
holds; `channels` is the key set of `downloadingFilesChannels`; `goroutine` is
`startFileDownloadingGoroutine` with `latestRequestedHash`, `timeoutsLimit` and
its place: before the mutex at its head (line 950), in `select`, past the last
time-out (before line 969), or with a reply in hand (before line 983). The
packets travel over next hops, which the network stands for.

`ClientToShare`, `ClientToDownload`, `ReceiveDataRequest` and the three outcomes
of `processDataReply` (`DropDataReply`, `HandDataReply`, `BlockOnDataReply`) are
the processor's turns; `StartWaiting`, `Timeout`, `GiveUp` and `TakeReply` the
goroutine's. `gotMetafile` fills in the structure and then reports an error when
the directory exists (a name used before): `GotMetafile` does so, too. The split
into chunks is the constant `Chunks`; a chunk may occur twice in a file, as in
the comment at `SharedFile.go:84`, and a file may be empty. A download without a
destination is part of `FileSearch`.

### FileSearch

`peers` is a sequence here, because the remainder of a budget goes to the first
peers. `recent` is `recentSearchRequests`; its entries are removed by a timer
(`Forget`). `current` is `currentSearchRequest`, which stays in place when its
search is over; `searcher` is `startFileSearchingGoroutine`: its budget (two
past the largest once the last wait is over), its channel, and where it is
(`waiting` in `select`, a reply `got` and the mutex not yet taken, `ending`).
`processor` says that the message processor runs, is blocked in `csr.ch <- srp`
(`CurrentSearchRequest.go:36`), or that the process has crashed.

| Action | Code |
|---|---|
| `ReceiveSearchRequest`, `DropSearchRequest` | `processSearchRequest`, with the reply from shared, downloading and downloaded files and the division of the budget |
| `ClientToSearch` | `processClientSearchRequest` |
| `HandSearchReply`, `DropSearchReply`, `BlockOnSearchReply` | `processAddressedSearchReply` at its destination; `ForwardSearchReply` |
| `Ask`, `AskNobody`, `WaitMore`, `Defeated` | the goroutine's ticker; a gossiper without peers divides by zero (`Gossiper.go:883`) |
| `TakeReply`, `Shutdown` | the goroutine's channel; `AddFullMatch` for each match; the end |
| `DownloadFileByHash`, `CrashOnDownload`, `DownloadFileByName`, `ClientToDownload` | a download without a destination; the nil pointer when nothing was searched for yet; the web page's; what the processor does with it |
| `DataArrives`, `GiveUp` | a whole download, told short: `FileDownload` has the packets |

### Blockchain

A block is its place in `mined`, which stands for its hash and holds its parent,
its transactions and, so that no recursion is needed, its depth and the set of
its ancestors. `blocks`, `tail`, `pendingTx`, `noParentBlocks` are the fields of
`BlockchainManager`; `unpublished` is the block the mining thread holds while it
sleeps. `net` only grows, so each packet may come at any time, again, or never.
Every method runs under `bm.m` and is one action. Proof of work is assumed: only
`DoMining` makes blocks. What `DoMining` reads before it takes the lock decides
nothing, because it reads it again. `FreshLoopVar` chooses between the two
meanings Go gives the loop variable of `InitFromSlice`: one for each iteration (from
Go 1.22), or one for all (the compilers of the repository's time).

## Runs

All instances are small and named in the `MC` modules. Each takes less than three
minutes on two cores. Deadlock is not checked:
all bounds used up, nothing more to do, or the blocked processor end a behaviour.

| Run | Instance | Shows |
|---|---|---|
| `rumor_line` | three gossipers in a line, two rumors of the first, two packets in flight, one goroutine each | agreement on logs; next hops lead to the origin and are fresh |
| `rumor_pair` | two gossipers, one told of the other on the web page, rumors with or without text, two goroutines each, one packet of a kind on each link | a channel has one owner; statuses are true; storages are in order |
| `rumor_delivery` | two gossipers, two rumors, one packet of a kind on each link | `RumorMongering` implements `RumorBroadcast` and `RumorRouting`; under fairness each rumor arrives, or a processor is blocked |
| `rumor_wedge` | two gossipers, one rumor | **violated**: the processor blocks for good |
| `messaging` | three gossipers with two ways between any two, three rumors, four packets by next hop, hop limit 2; three more in a line in simple mode; one packet doubled, a private or a simple one | whoever gets a packet has a next hop for it; a packet comes back only to a gossiper with newer rumors; each copy of a simple message is shown once and each copy of a private message arrives once, as `PrivateDelivery` says |
| `dl_pair` | one downloader, one origin, two files with a common chunk, one name, fair goroutines | the maps agree; what is offered is on disk; finished files are written; time-outs ask for what is missing; each download ends, or the processor is blocked |
| `dl_empty` | the download of an empty file | **violated**: it is requested without end |
| `search` | one that searches, one that passes on, one that holds the file twice | a request is alive while its goroutine is; a match counts once; the flood shrinks, as a whole and request by request; each search ends, or the processor is blocked or gone |
| `search_hollow` | as `search`, the one in the middle downloads the file, too | **violated**: a gossiper that holds nothing of the file is a full match |
| `bc_deep` | two gossipers, three names, five blocks, `FreshLoopVar` | no branch registers a name twice, the pending set fits the chain, the tail is the deepest block of a connected tree, chains only grow, no name is lost |
| `bc_alias` | two gossipers, three names, three blocks, no `FreshLoopVar` | **violated**: after a fork a transaction is pending under another's name |
| `bc_orphan` | two gossipers, three blocks | **violated**: an orphan outlives its parent's arrival |

### Bounds, and why they are enough

* Two rumors of one origin are what it takes for one to overtake, repeat or be
  missing; three gossipers in a line make forwarding, and would make a cycle of
  next hops with the third.
* Two packets in flight allow a packet and an answer, and any packet to be
  overtaken; in `rumor_line` two of one kind on a link allow a stale one beside a
  new one. `rumor_pair` has one of a kind on a link: a late status still meets a
  goroutine that was started since, because it stays in flight as long as it likes.
* Two goroutines at a gossiper are what it takes for one to disturb the other's
  channel. In `rumor_delivery` bounds are one goroutine and one packet of a kind
  on a link, eight in all, so that fairness, not the bound, decides.
* Two time-outs (`TimeoutsLimit` 2) give one repeated request and one giving up.
  Five do not add anything but more requests.
* `MaxMined` 5 with three names is the least for a switch that undoes two
  blocks; TLC confirmed that it happens. `MaxMined` 3 is the least for any
  switch. `bc_deep` uses symmetry in gossipers and names, which all know each
  other and are alike; it checks no liveness.
* In `messaging` the destination issues two rumors, so that a route can turn
  while a packet is under way, and a hop limit of 2 lets a packet visit every
  gossiper and come back; there are as many messages as kinds of handlers. One
  packet is doubled (`OneDoubled`), at any place of its way, and of the two kinds
  whose arrivals are counted: one copy is what it takes for a second arrival.
* In `search` budgets from 2 to 3 cover a budget that is divided evenly, one that
  is not, one that runs out on the way and one that is 0. `Threshold` 1 ends a
  search by success, `MaxBudget` by defeat. The code has 2 (as `search_hollow`
  does): with 1 a search is over sooner, so that the run does not see the replies
  of one search counted after each other. For them there is the theorem
  `CountedOnce`, which holds for every threshold.
* Two names bring one gossiper's pending name into another's block; a third is
  what may stay pending after a switch, so `bc_deep` has three.
* In `rumor_line` there is one text: which text a rumor
  has matters only for the chronological list, which `rumor_pair` checks.

### Fairness

`RumorDelivery!FairSpec`: a live goroutine that can run runs (weak fairness, one
condition for each peer and place). A packet in flight is read one day, and of
packets that can be written over and over one gets through (strong fairness, for
each pair of gossipers and kind): losses, coins and random peers are independent,
the anti-entropy timer never stops, and readers loop for ever. It has to be
strong because a bound can disable a step for a moment. With `-noAntiEntropy`
the property does not hold and is not claimed. Clients are asked for nothing.

`FileSearch!FairSpec`: weak fairness of the search goroutine, whose ticker fires
every second; replies may all be lost.

`FileDownload!FairSpec`: weak fairness of the download goroutines alone; of the
network nothing is asked, because time-outs end what is not answered.

## What the runs found

1. *The processor can block for good on a status* (`rumor_wedge`). At
   `Gossiper.go:541` it sends on an unbuffered channel and holds
   `statusesChannelsMux`; the goroutine whose timer fired needs that mutex at line
   907 and reads no more. `README.md:11` claims the code free of deadlock.
2. *Pending transactions under wrong names* (`bc_alias`). `TransactionsSet.go:17`
   keeps the address of its loop variable, which is one for all iterations unless
   a module asks for Go 1.22: the repository is of 2018 and has no `go.mod`, so
   this is the code as built. Every entry of a block's set is then the block's
   last transaction. Nothing reads them until a fork undoes the block and makes
   the entries pending, against the comment "filename -> tx" at line 7; the
   other transactions are lost and the last one may be mined twice.
3. *An empty file is downloaded for ever* (`dl_empty`): only a chunk's arrival
   finishes a download (`DownloadingFile.go:109`), and the metafile asked for
   again resets the count of time-outs that should end it. (The limit of 5 also
   allows four repeated requests, not five: the fifth time-out gives up.)
4. *Orphans are never adopted* (`bc_orphan`): `BlockchainManager.go:77` looks for
   the block instead of its parent. A gossiper that misses one block keeps the
   later ones waiting until each is received again.
5. *A full match may hold nothing* (`search_hollow`): a file whose metafile has not
   arrived has 0 of 0 chunks (`DownloadingFile.go:209`), which `Gossiper.go:1061`
   takes for all of them, against the comment above it.

Seen on the way, without a run of their own:

* the processor blocks in `ForwardSearchReply`, which holds the mutex that the
  goroutine it waits for takes next (`CurrentSearchRequest.go:36`): in `search`
  this is `BlockOnSearchReply`, and `SearchEnds` would fail without its exception;
* a search by a gossiper without peers ends the process with a division by zero
  (`AskNobody`), and so does a download without a destination before the first
  search with a nil pointer (`CrashOnDownload`);
* the processor blocks on a download as it does on a status: it sends at
  `Gossiper.go:676` with `downloadingFilesChannelsMux` in its hand, which the
  goroutine takes at lines 950, 969 and 983. It takes no time-out: a reply that
  comes before the goroutine has started is enough. In `dl_pair` this is
  `BlockOnDataReply`, and `DownloadsEnd` excepts it;
* with the loop variable of the compilers of its time (`FreshLoopVar = FALSE`)
  `NamesRegisteredOnce` and `NamesAreKept` fail in the instance of `bc_deep`, too:
  the same aliasing makes a mined block repeat a name and a roll-back lose one.
  `PendingIsUnregistered` and the rest hold there. `bc_deep` and the theorems
  about names are about the fork logic, and for builds with Go 1.22 or later;
* a private message that UDP doubles is shown twice, since nothing numbers private
  messages;
* a simple message circles for ever in a network with a cycle, since nobody
  remembers it: `SimpleShownOnce` fails with r, s and t all knowing each other.

## Proofs

`RumorMongeringProofs` proves, for any gossipers, peers, texts and bounds:

| Theorem | Property |
|---|---|
| `TypeCorrect` | `TypeOK` |
| `Agreement` | `LogsArePrefixes` |
| `FreshRoutes` | `NextHopIsFresh` |
| `LoopFreeRoutes` | `RoutesReachOrigin` |
| `TrueStatuses` | `StatusesAreTrue` |

`RumorRefinementProofs`, for the same:

| Theorem | Property |
|---|---|
| `BroadcastRefinement` | `ImplementsBroadcast` |
| `RoutingRefinement` | `ImplementsRouting` |

`RumorLocalProofs`, for the same:

| Theorem | Property |
|---|---|
| `OneOwner` | `ChannelsOwned` |
| `StoragesInOrder` | `StoragesConsistent` |

`MessagingProofs`, for any gossipers, peers, messages and hop limit, and however
many packets the network doubles:

| Theorem | Property |
|---|---|
| `TypeCorrect` | `TypeOK` |
| `NobodyStrands` | `ForwardersKnowTheWay` |
| `NoCircles` | `ComesBackOnlyWithNews` |
| `ShownOnceInTrees` | `SimpleShownOnce`, if `SimpleNetsAreTrees` and `OneSimpleEach` |
| `DeliveryRefinement` | `ImplementsDelivery` |

`FileDownloadProofs`, for any gossipers, files, chunks (repeated in a file or in
several, or none), names and limit of time-outs, and whatever clients share and
want:

| Theorem | Property |
|---|---|
| `TypeCorrect` | `TypeOK` |
| `MapsStayClean` | `MapsAgree` |
| `OfferedIsOnDisk` | `HeldChunksAreOnDisk` |
| `CountedIsWritten` | `DownloadedIsWritten` |
| `RepeatsAreUseful` | `ResendIsUseful` |

`FileSharingProofs` has the lemmas about `FileSharing`'s operators that both file
components use, and `FullMatchOfDownload`: a download whose metafile has come is
a full match if and only if no chunk is missing, and one whose metafile has not
come always is one. So the hollow matches of `search_hollow` are exactly these.

`FileSearchProofs`, for any gossipers, peers, files, queries, budgets and
threshold:

| Theorem | Property |
|---|---|
| `TypeCorrect` | `TypeOK` |
| `AliveIffSearching` | `AliveWhileSearching` |
| `CountedOnce` | `MatchesCountOnce` |
| `BudgetsShrink` | `PassedOnIsLess` |

`BlockchainProofs`, for any gossipers, peers, transactions, names and bounds,
infinitely many names included:

| Theorem | Property |
|---|---|
| `TypeCorrect` | `TypeOK` |
| `TailIsLongest` | `TailEndsLongestChain` |
| `ChainGrows` | `ChainOnlyGrows` |
| `RegisteredAtMostOnce` | `NamesRegisteredOnce`, if `FreshLoopVar` |
| `PendingNotRegistered` | `PendingIsUnregistered`, if `FreshLoopVar` |
| `NamesKept` | `NamesAreKept`, if `FreshLoopVar` |

The first three need no assumption on the loop variable. The other three are
about builds with Go 1.22 or later. Without `FreshLoopVar` two of them are false
(see above), and the invariant by which they are proved has `PendingUnderOwnName`
as a part, which `bc_alias` refutes.

The theorems assume what the modules `ASSUME` of the constants: origins are the
gossipers, nobody is its own peer, the empty text is a text, what stands for "no
hop", "no transaction" and nil is not a gossiper, a transaction, a goroutine or
a record, bounds are natural numbers. TLC evaluates these in every run.

*Rumors.* None of the properties is inductive by itself, so `Invariance`
proves `IInv`, which adds: every storage has its struct's invariant (the clock
counts the rumors, slot i holds number i); every rumor in flight or held by a
goroutine is held by its sender, and every status in flight or in a goroutine's
hand claims only rumors its sender holds (`InFlightTrue`); no gossiper routes
through itself. *Agreement* then holds because what a packet brings is held by
its sender, hence a prefix of its origin's log, and only the next rumor is
stored. *Freshness* holds because a next hop is set together with storing a rumor
the new next hop holds, and clocks only grow. *Loop freedom*: were there a set of
gossipers that routes within itself, the one that has just got a new rumor would
route to one with that rumor, whose next hop is at least as fresh, and so on to a
cycle of gossipers that all hold a rumor that is new to the first one
(`NoNewCycle`). The packet-level lemmas (`QuietStep`, `QuietTurn`, `EndTurnTrue`,
`ProcessTrue`) say once what a turn may disturb, and each action has a lemma.

The refinements rest on `IInv`: a rumor that is new to its receiver is held by its
sender and is the next one of its origin's log (`HeldIsIssued`), so that one entry
of one log and of one clock moves (`LogsMove`, `ClocksMove`), and only in the two
actions that store a rumor (`OnlyRumorsMove`); every other step is a stutter.

`OneOwner` follows turn by turn: a turn starts from a channel map that fits the
goroutines, may end an owner and take out its channel (`OwnerLeaves`), or starts an
owner only for a peer that has none (`OwnerComes`); the timer turns one owner into
another (`OwnerFires`). `StoragesInOrder` rests on `OnlyRumorsMove` and on
`ChronGrows`: the rumor added last has the highest number of its origin.

In `Messaging` the invariant is `MInv`: a gossiper has a next hop exactly for the
origins it has heard of, the next hop is at least as far along, nobody is ahead of
an origin (`RoutesInv`), and each packet is at a gossiper that has heard of its
destination (`OnRoute`). It is kept because clocks only grow. For the refinement
each copy of a client's private message is in at most one packet (`OneEach`), and
no packet has the number of a copy not made yet (`Known`), so that a packet passed
on, lost, doubled or delivered is one step from end to end.

*Packets that do not circle.* That a next hop is at least as far along does not
tell that a packet will not come back to where everybody is just as far. `LoopFree`
does: call a next hop level if it has no news of the destination; then from each
level next hop, along level next hops, nobody gets back. It is stated with a set
of gossipers that such steps do not leave (`Parted`), because a step of the
network then only has to take those that got news out of the set. A gossiper that
hears a rumor is ahead of all that route through it, so its new next hop closes
no path. The packet carries the same statement (`GoesAhead`): each of those that
sent it on knew less of the destination than where it is now, or cannot be reached
from there.

*Simple messages.* The invariant is again a set: behind the link that a packet is
on nobody has seen this copy of its message, and no other packet brings it there
(`Unseen`); and a copy not made yet (`Unmade`) was shown to nobody (`Silence`).
When it is passed on, what is behind the next link is a part of that set, for the
link is the only one between its two sides.

*Downloads.* `Invariance` adds to the properties that each goroutine's latest
request is a chunk still missing, or the metafile before any chunk has come, with
no time-out left exactly past the last one (`Downloaders`), and that the chunks of
a download are on disk but for those it waits for (`Kept`). Nobody else changes
the entry while the goroutine has a reply in hand, and no handler takes anything
from the disk, so two downloads in one directory do not disturb each other. That
`written` has a name for a finished file follows from the chunks being there when
the last one arrives.

*Searches.* A request is shut down in the turn in which its goroutine returns, and
a reply is handed only to a live request, so the goroutine is there to get it
(`ReplyAtHand`). `MatchesAdded` says of one reply that a file new to its origin
has one name picked for it. `BudgetsShrink` is arithmetic: a part of a budget, the
left-over included, is no more than the budget.

*The chain.* A mined block never changes, so its depth and chain can be read off
its parent (`Nodes`). The tail's depth is at least that of every accepted block
because a received block is at most one deeper than its parent and becomes the
tail when it is deeper than the tail (`TailEndsLongestChain` in `IInv`). For the
names, `NamesInv` says of any branch, not only of a gossiper's, that its blocks
share no name (`BranchNames`) and that no block has a name twice (`BlockNames`);
what a roll-back makes pending comes from the old branch alone, so that
subtracting the names of the new branch leaves a pending set that fits. What
`RollBack` chooses, the shallowest block of a set, exists (`Shallowest`), and so
does the first place of a name in a slice (`SetOfSlice`), by the least-number
principle `LeastNat`, which is proved here because the library's induction
theorems cannot be instantiated.

Model-checked only: `FloodShrinks`, whose sum over the packets in flight is a fold,
that is, induction over data (`BudgetsShrink` proves what it rests on, request by
request); `EveryRumorArrives`, `DownloadsEnd` and `SearchEnds`, because liveness
under fairness is out of the prover's reach, as `ENABLED` is; and, of course, the
five properties that the runs refute.

## Not modelled

* Restart: nothing is kept, so a gossiper starts again at rumor 1 and is not
  heard until it has passed its old count.
* `SetName`, the change of a gossiper's name in mid-run.
* The Merkle tree (`merkletree`): nothing calls it.
* The order in which full matches were found, which only decides which of several
  equal ones a file is downloaded from.
* Encoding, HTTP, the command line and logging: pure I/O.
* The unlocked reads of `DoMining` and `IsAlive`, whose outcome Go leaves open.
* Foreign blocks with transactions that repeat names: `AddBlock` does not look at
  them, and this code does not mine them.

## Plan

In this order:

1. An abstract registry of names: what one gossiper's chain promises between two
   switches, and its refinement.
2. `getLSA` against the deepest common ancestor, and the split into chunks,
   against reference definitions.
3. Restart, and a name changed in mid-run.
