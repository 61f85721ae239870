------------------------------ MODULE FileSearch ------------------------------
(***************************************************************************)
(* Gossipers that search each other's files (gossiper/Gossiper.go and      *)
(* models/filesearching): a request floods the network with a budget that  *)
(* every gossiper shares out among its peers, whoever has a file of a      *)
(* matching name replies, and the search goroutine asks again with a       *)
(* larger budget until it has enough full matches.                         *)
(*                                                                         *)
(* An action is one turn of the goroutine it names, up to its next         *)
(* blocking point.  Replies travel over next hops, which `net' stands for; *)
(* any packet may be lost, late or overtaken.  UDP may double one as well, *)
(* which is in Messaging alone.                                            *)
(***************************************************************************)
EXTENDS FileSharing, FiniteSetsExt

CONSTANTS Gossiper,
          InitialPeers,  \* the peers given on the command line, in their order
          InitialShared, \* what each gossiper shares when the searches start
          InitialDownloading, \* is downloading
          InitialDownloaded,  \* and has downloaded then
          Query,         \* lists of keywords
          Matching,      \* the names each of them matches
          Searches,      \* <<g, q, b>>: g's client may search for q with budget b
          Downloads,     \* <<g, n>>: g's client may download what it found as n
          NewPeers,      \* <<g, p>>: p may be added on g's web page
          StartBudget,   \* FileSearchStartBudget
          MaxBudget,     \* FileSearchMaxBudget
          Threshold,     \* FileSearchFullMatchesThreshold
          MaxInFlight    \* bound: packets in flight, further ones are lost

ASSUME PeersAssumption == InitialPeers \in [Gossiper -> Seq(Gossiper)]
ASSUME SharedAssumption ==
  /\ InitialShared \in [Gossiper -> SharedFiles]
  /\ InitialDownloading \in [Gossiper -> [Gossiper -> DownloadingFile \cup {None}]]
  /\ InitialDownloaded \in [Gossiper -> [File -> Name \cup {None}]]
ASSUME QueryAssumption ==
  Matching \in [Query -> SUBSET Name] /\ Searches \subseteq Gossiper \X Query \X Nat
ASSUME ClientAssumption ==
  Downloads \subseteq Gossiper \X Name /\ NewPeers \subseteq Gossiper \X Gossiper
ASSUME BudgetAssumption ==
  {StartBudget, MaxBudget, Threshold, MaxInFlight} \subseteq Nat

VARIABLES peers,      \* Gossiper.peers
          recent,     \* recentSearchRequests
          current,    \* currentSearchRequest
          searcher,   \* the file-searching goroutine
          downloading,\* downloadingFiles: origin -> downloadingFile
          downloaded, \* downloadedFiles: metahash -> name
          processor,  \* message-processor: running, blocked in `csr.ch <- srp',
                      \* or gone with its crashed process
          net         \* packets in flight

files == <<downloading, downloaded>>
vars == <<peers, recent, current, searcher, downloading, downloaded, processor, net>>

FullMatch == [origin : Gossiper, name : Name, file : File]

\* CurrentSearchRequest: fullMatches as a set, whose order only decides which of
\* several full matches of one file is downloaded from.
Request == [isAlive : BOOLEAN, fullMatches : SUBSET FullMatch]

SearchRequest ==
  [kind : {"request"}, src : Gossiper, dst : Gossiper, origin : Gossiper,
   query : Query, budget : Nat]
SearchReply ==
  [kind : {"reply"}, src : Gossiper, dst : Gossiper, results : SUBSET SearchResult]
ToDownload == [kind : {"download"}, dst : Gossiper, match : FullMatch]

\* waiting: blocked in select.  got: a reply was received, the mutex of the
\* current request not yet taken.  ending: about to shut the request down.
Searcher == [query : Query, budget : Nat, max : Nat, got : SearchReply \cup {None},
             phase : {"waiting", "got", "ending"}]

ASSUME NoRequestAssumption == None \notin Request /\ None \notin Searcher

TypeOK ==
  /\ peers \in [Gossiper -> Seq(Gossiper)]
  /\ recent \in [Gossiper -> SUBSET (Gossiper \X Query)]
  /\ current \in [Gossiper -> Request \cup {None}]
  /\ searcher \in [Gossiper -> Searcher \cup {None}]
  /\ downloading \in [Gossiper -> [Gossiper -> DownloadingFile \cup {None}]]
  /\ downloaded \in [Gossiper -> [File -> Name \cup {None}]]
  /\ processor \in [Gossiper -> {"running", "blocked", "crashed"}]
  /\ net \subseteq SearchRequest \cup SearchReply \cup ToDownload

Init ==
  /\ peers = InitialPeers
  /\ recent = [g \in Gossiper |-> {}]
  /\ current = [g \in Gossiper |-> None]
  /\ searcher = [g \in Gossiper |-> None]
  /\ downloading = InitialDownloading
  /\ downloaded = InitialDownloaded
  /\ processor = [g \in Gossiper |-> "running"]
  /\ net = {}

-----------------------------------------------------------------------------
\* Writes the packets ps; UDP, or the way back over next hops, may lose any.
Send(rest, ps) ==
  \E kept \in SUBSET ps :
    /\ Cardinality(rest \cup kept) <= MaxInFlight
    /\ net' = rest \cup kept

Known(g, p) == \E i \in DOMAIN peers[g] : peers[g][i] = p

\* UpdatePeersIfNeeded
PeersWith(g, p) == IF Known(g, p) THEN peers[g] ELSE Append(peers[g], p)

DownloadsOf(g) ==
  {downloading[g][o] : o \in {p \in Gossiper : downloading[g][p] # None}}
  \cup {[name |-> downloaded[g][f], metaHash |-> f, hasMetafile |-> TRUE,
         chunksToDownload |-> {}] : f \in {e \in File : downloaded[g][e] # None}}

Results(g, q) ==
  SharedResults(InitialShared[g], Matching[q]) \cup DownloadResults(DownloadsOf(g), Matching[q])

Answer(g, m) ==
  IF m.origin # g /\ Results(g, m.query) # {}
  THEN {[kind |-> "reply", src |-> g, dst |-> m.origin, results |-> Results(g, m.query)]}
  ELSE {}

\* Mutated: the first peers get one more, however little is left over.
ShareGenerous(g, ps, origin, q, budget) ==
  {[kind |-> "request", src |-> g, dst |-> ps[i], origin |-> origin, query |-> q,
    budget |-> (budget \div Len(ps)) + 1] : i \in DOMAIN ps}

\* The budget is shared out evenly, the first peers get what is left over.
\* Some may get 0: they answer and send nothing on.
Share(g, ps, origin, q, budget) ==
  {[kind |-> "request", src |-> g, dst |-> ps[i], origin |-> origin, query |-> q,
    budget |-> (budget \div Len(ps)) + (IF i <= budget % Len(ps) THEN 1 ELSE 0)] :
     i \in DOMAIN ps}

\* Mutated: the budget is not checked once it is counted down.
OnwardUnchecked(g, m, ps) ==
  Share(g, ps, m.origin, m.query, IF m.origin = g THEN m.budget ELSE m.budget - 1)

\* Mutated: the budget is not counted down.
OnwardKept(g, m, ps) ==
  IF m.origin # g /\ m.budget <= 1 THEN {} ELSE Share(g, ps, m.origin, m.query, m.budget)

\* processSearchRequest: a gossiper's own request that comes home goes out again
\* with the budget it came with.
Onward(g, m, ps) ==
  IF m.origin = g THEN Share(g, ps, g, m.query, m.budget)
  ELSE IF m.budget <= 1 THEN {}
  ELSE Share(g, ps, m.origin, m.query, m.budget - 1)

-----------------------------------------------------------------------------
\* message-processor

ReceiveSearchRequest(g, m) ==
  /\ processor[g] = "running"
  /\ m.kind = "request" /\ m.dst = g
  /\ <<m.origin, m.query>> \notin recent[g]
  /\ peers' = [peers EXCEPT ![g] = PeersWith(g, m.src)]
  /\ recent' = [recent EXCEPT ![g] = @ \cup {<<m.origin, m.query>>}]
  /\ Send(net \ {m}, Answer(g, m) \cup Onward(g, m, PeersWith(g, m.src)))
  /\ UNCHANGED <<current, searcher, files, processor>>

\* A request answered not long ago
DropSearchRequest(g, m) ==
  /\ processor[g] = "running"
  /\ m.kind = "request" /\ m.dst = g
  /\ <<m.origin, m.query>> \in recent[g]
  /\ peers' = [peers EXCEPT ![g] = PeersWith(g, m.src)]
  /\ net' = net \ {m}
  /\ UNCHANGED <<recent, current, searcher, files, processor>>

\* RecentSearchRequestTimeout is over for this request.
Forget(g, k) ==
  /\ processor[g] # "crashed"
  /\ recent' = [recent EXCEPT ![g] = @ \ {k}]
  /\ UNCHANGED <<peers, current, searcher, files, processor, net>>

IsAlive(g) == current[g] # None /\ current[g].isAlive

\* Refused while a search is in progress
ClientToSearch(g, q, b) ==
  /\ processor[g] = "running"
  /\ ~IsAlive(g)
  /\ current' = [current EXCEPT ![g] = [isAlive |-> TRUE, fullMatches |-> {}]]
  /\ searcher' = [searcher EXCEPT ![g] =
       [query |-> q, got |-> None, phase |-> "waiting",
        budget |-> IF b = 0 THEN StartBudget ELSE b,
        max |-> IF b = 0 THEN MaxBudget ELSE b]]
  /\ UNCHANGED <<peers, recent, files, processor, net>>

\* A reply says nothing of the search it answers: whatever search is in progress
\* takes it.
HandSearchReply(g, m) ==
  /\ processor[g] = "running"
  /\ m.kind = "reply" /\ m.dst = g
  /\ IsAlive(g) /\ searcher[g].phase = "waiting"
  /\ searcher' = [searcher EXCEPT ![g].phase = "got", ![g].got = m]
  /\ net' = net \ {m}
  /\ UNCHANGED <<peers, recent, current, files, processor>>

DropSearchReply(g, m) ==
  /\ processor[g] = "running"
  /\ m.kind = "reply" /\ m.dst = g
  /\ ~IsAlive(g)
  /\ net' = net \ {m}
  /\ UNCHANGED <<peers, recent, current, searcher, files, processor>>

\* ForwardSearchReply holds the mutex that the goroutine needs next, and waits
\* for the goroutine to read the channel.
BlockOnSearchReply(g, m) ==
  /\ processor[g] = "running"
  /\ m.kind = "reply" /\ m.dst = g
  /\ IsAlive(g) /\ searcher[g].phase # "waiting"
  /\ processor' = [processor EXCEPT ![g] = "blocked"]
  /\ net' = net \ {m}
  /\ UNCHANGED <<peers, recent, current, searcher, files>>

\* A client's request to download without a destination: a full match of the
\* file is asked for, by a message to g's own port.  Before any search the
\* process crashes on the nil pointer.
DownloadFileByHash(g, f, n) ==
  /\ processor[g] = "running"
  /\ current[g] # None
  /\ \E match \in current[g].fullMatches :
       /\ match.file = f
       /\ Send(net, {[kind |-> "download", dst |-> g, match |-> [match EXCEPT !.name = n]]})
  /\ UNCHANGED <<peers, recent, current, searcher, files, processor>>

CrashOnDownload(g, n) ==
  /\ processor[g] = "running"
  /\ current[g] = None
  /\ processor' = [processor EXCEPT ![g] = "crashed"]
  /\ UNCHANGED <<peers, recent, current, searcher, files, net>>

\* One download at a time from an origin
ClientToDownload(g, m) ==
  /\ processor[g] = "running"
  /\ m.kind = "download" /\ m.dst = g
  /\ downloading' = IF downloading[g][m.match.origin] = None
                    THEN [downloading EXCEPT ![g][m.match.origin] =
                            InitDownloadingFile(m.match.name, m.match.file)]
                    ELSE downloading
  /\ net' = net \ {m}
  /\ UNCHANGED <<peers, recent, current, searcher, downloaded, processor>>

\* web server: a match chosen by its name.  It takes the mutex, too.
DownloadFileByName(g, n) ==
  /\ processor[g] = "running"
  /\ current[g] # None
  /\ \E match \in current[g].fullMatches :
       /\ match.name = n
       /\ Send(net, {[kind |-> "download", dst |-> g, match |-> match]})
  /\ UNCHANGED <<peers, recent, current, searcher, files, processor>>

\* web server: addPeer
AddPeer(g, p) ==
  /\ processor[g] # "crashed"
  /\ ~Known(g, p)
  /\ peers' = [peers EXCEPT ![g] = Append(@, p)]
  /\ UNCHANGED <<recent, current, searcher, files, processor, net>>

-----------------------------------------------------------------------------
\* file-downloading goroutine, seen from here: what the origin holds arrives, or
\* the download is given up (FileDownload has the packets in between).

Held(o) == SharedHashes(InitialShared[o])
           \cup {h \in Hash : \E df \in DownloadsOf(o) : FileHasDownloadedChunk(df, h)}

DataArrives(g, o) ==
  /\ processor[g] # "crashed"
  /\ downloading[g][o] # None
  /\ \E h \in Held(o) :
       LET r == ProcessDataReply(downloading[g][o], h, {})
       IN  /\ r.df # downloading[g][o]
           /\ downloading' = [downloading EXCEPT ![g][o] =
                                IF r.result = "finished" THEN None ELSE r.df]
           /\ downloaded' = IF r.result = "finished"
                            THEN [downloaded EXCEPT ![g][r.df.metaHash] = r.df.name]
                            ELSE downloaded
  /\ UNCHANGED <<peers, recent, current, searcher, processor, net>>

GiveUp(g, o) ==
  /\ processor[g] # "crashed"
  /\ downloading[g][o] # None
  /\ downloading' = [downloading EXCEPT ![g][o] = None]
  /\ UNCHANGED <<peers, recent, current, searcher, downloaded, processor, net>>

-----------------------------------------------------------------------------
\* file-searching goroutine: its ticker and its channel

Ask(g) ==
  /\ searcher[g].phase = "waiting"
  /\ searcher[g].budget <= searcher[g].max
  /\ peers[g] # <<>>
  /\ Send(net, Share(g, peers[g], g, searcher[g].query, searcher[g].budget))
  /\ searcher' = [searcher EXCEPT ![g].budget = @ + 1]
  /\ UNCHANGED <<peers, recent, current, files, processor>>

\* Nobody to share the budget with: the division by zero ends the process.
AskNobody(g) ==
  /\ searcher[g].phase = "waiting"
  /\ searcher[g].budget <= searcher[g].max
  /\ peers[g] = <<>>
  /\ processor' = [processor EXCEPT ![g] = "crashed"]
  /\ UNCHANGED <<peers, recent, current, searcher, files, net>>

\* Mutated: the last wait is not counted.
WaitMoreUncounted(g) ==
  /\ searcher[g].phase = "waiting"
  /\ searcher[g].budget = searcher[g].max + 1
  /\ UNCHANGED vars

\* One more wait for late replies
WaitMore(g) ==
  /\ searcher[g].phase = "waiting"
  /\ searcher[g].budget = searcher[g].max + 1
  /\ searcher' = [searcher EXCEPT ![g].budget = @ + 1]
  /\ UNCHANGED <<peers, recent, current, files, processor, net>>

Defeated(g) ==
  /\ searcher[g].phase = "waiting"
  /\ searcher[g].budget > searcher[g].max + 1
  /\ searcher' = [searcher EXCEPT ![g].phase = "ending"]
  /\ UNCHANGED <<peers, recent, current, files, processor, net>>

\* Mutated: a file counts once for every name it is found under.
AddFullMatchesByName(ms, origin, rs) ==
  {ms \cup {[origin |-> origin, name |-> r.name, file |-> r.file] :
              r \in {x \in rs : IsFullMatch(x)}}}

\* AddFullMatch for each full match among the results: a file is added once for
\* each origin, under whichever name comes first.
AddFullMatches(ms, origin, rs) ==
  LET full == {r \in rs : IsFullMatch(r)}
      new  == {r.file : r \in full} \ {m.file : m \in {x \in ms : x.origin = origin}}
  IN  {ms \cup {[origin |-> origin, name |-> pick[f].name, file |-> f] : f \in new} :
         pick \in {p \in [new -> full] : \A f \in new : p[f].file = f}}

\* The mutex is taken for every full match and for their number.
TakeReply(g) ==
  /\ processor[g] = "running"
  /\ searcher[g].phase = "got"
  /\ LET m == searcher[g].got
     IN  \E ms \in AddFullMatches(current[g].fullMatches, m.src, m.results) :
           /\ current' = [current EXCEPT ![g].fullMatches = ms]
           /\ searcher' = [searcher EXCEPT ![g].got = None,
                ![g].phase = IF Cardinality(ms) >= Threshold THEN "ending" ELSE "waiting"]
  /\ UNCHANGED <<peers, recent, files, processor, net>>

\* Mutated: the goroutine returns and leaves the request alive.
ShutdownForgotten(g) ==
  /\ processor[g] = "running"
  /\ searcher[g].phase = "ending"
  /\ searcher' = [searcher EXCEPT ![g] = None]
  /\ UNCHANGED <<peers, recent, current, files, processor, net>>

Shutdown(g) ==
  /\ processor[g] = "running"
  /\ searcher[g].phase = "ending"
  /\ current' = [current EXCEPT ![g].isAlive = FALSE]
  /\ searcher' = [searcher EXCEPT ![g] = None]
  /\ UNCHANGED <<peers, recent, files, processor, net>>

Search(g) ==
  /\ searcher[g] # None
  /\ processor[g] # "crashed"
  /\ \/ Ask(g) \/ AskNobody(g) \/ WaitMore(g) \/ Defeated(g)
     \/ TakeReply(g) \/ Shutdown(g)

Next ==
  \/ \E s \in Searches : ClientToSearch(s[1], s[2], s[3])
  \/ \E d \in Downloads : \/ \E f \in File : DownloadFileByHash(d[1], f, d[2])
                          \/ CrashOnDownload(d[1], d[2])
                          \/ DownloadFileByName(d[1], d[2])
  \/ \E c \in NewPeers : AddPeer(c[1], c[2])
  \/ \E g \in Gossiper :
       \/ \E m \in net : \/ ReceiveSearchRequest(g, m) \/ DropSearchRequest(g, m)
                         \/ HandSearchReply(g, m) \/ DropSearchReply(g, m)
                         \/ BlockOnSearchReply(g, m) \/ ClientToDownload(g, m)
       \/ \E k \in recent[g] : Forget(g, k)
       \/ \E o \in Gossiper : DataArrives(g, o) \/ GiveUp(g, o)
       \/ Search(g)

Spec == Init /\ [][Next]_vars

\* The goroutine runs and its ticker fires; of the network nothing is asked.
FairSpec == Spec /\ \A g \in Gossiper : WF_vars(Search(g))

-----------------------------------------------------------------------------
(***************************************************************************)
(* A request stands for a search in progress exactly while a goroutine     *)
(* works on it: no reply is pushed to a goroutine that has returned, and   *)
(* no second search starts beside the first (Shutdown, IsAlive).           *)
(***************************************************************************)
AliveWhileSearching == \A g \in Gossiper : IsAlive(g) <=> searcher[g] # None

(***************************************************************************)
(* However often a gossiper replies, and whether it has a file as its own, *)
(* as a download or both, the file counts once towards the threshold       *)
(* (AddFullMatch).                                                         *)
(***************************************************************************)
MatchesCountOnce ==
  \A g \in Gossiper : current[g] # None =>
    \A m1, m2 \in current[g].fullMatches :
      m1.origin = m2.origin /\ m1.file = m2.file => m1 = m2

(***************************************************************************)
(* The flood of a search burns out: the budget in flight grows only when   *)
(* the search goroutine asks again, and a gossiper other than the one that *)
(* searches passes on less than it got, whichever way the requests run     *)
(* (processSearchRequest). This is about what gossipers send: of the       *)
(* copies that UDP may make of a datagram none is in `net'.                *)
(***************************************************************************)
RequestsOf(o) == {m \in net : m.kind = "request" /\ m.origin = o}
Flood(o) == MapThenSumSet(LAMBDA m : m.budget, RequestsOf(o))
AsksAgain(o) == searcher[o] # None /\ searcher'[o] = [searcher[o] EXCEPT !.budget = @ + 1]

FloodShrinks ==
  [][\A o \in Gossiper :
       /\ Flood(o)' > Flood(o) => AsksAgain(o)
       /\ \A m \in RequestsOf(o) \ RequestsOf(o)' :
            m.dst = o \/ m.budget = 0 \/ Flood(o)' < Flood(o)]_vars

(***************************************************************************)
(* A new request is one its search asks for, or what a gossiper makes of   *)
(* one that came to it: a smaller one, unless that one had come home.  So  *)
(* away from home a request passes no more gossipers than its budget       *)
(* (processSearchRequest).                                                 *)
(***************************************************************************)
Dwindling ==
  \A n \in net' \ net : n.kind = "request" =>
    \/ n.src = n.origin /\ AsksAgain(n.origin)
    \/ \E m \in net :
         /\ m.kind = "request" /\ m.origin = n.origin /\ m.query = n.query /\ m.dst = n.src
         /\ IF m.dst = m.origin THEN n.budget <= m.budget ELSE n.budget < m.budget

PassedOnIsLess == [][Dwindling]_vars

(***************************************************************************)
(* Every search ends, by enough matches or by its budget, unless the       *)
(* message processor blocks or crashes (startFileSearchingGoroutine).      *)
(***************************************************************************)
SearchEnds ==
  \A g \in Gossiper : IsAlive(g) ~> (~IsAlive(g) \/ processor[g] # "running")

(***************************************************************************)
(* Gossiper.go:1059 says of a full match that it "has all the chunks", so  *)
(* that we "can start downloading from this peer".                         *)
(***************************************************************************)
FullMatchesAreWhole ==
  \A g \in Gossiper : current[g] # None =>
    \A m \in current[g].fullMatches : {m.file} \cup ChunkSet(m.file) \subseteq Held(m.origin)
===============================================================================
