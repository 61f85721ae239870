--------------------------- MODULE FileSearchProofs ---------------------------
(***************************************************************************)
(* Proofs about FileSearch, for any number of gossipers, any first peers,  *)
(* files and matching names, any budgets and any threshold.                *)
(*                                                                         *)
(* Only the goroutine of a search ends its request, and it returns in the  *)
(* same turn; only that goroutine adds to the matches, and it holds a      *)
(* reply when it does.  The rest is what TypeOK says of the packets: what  *)
(* a gossiper finds among its own files, as it is just now, is what can    *)
(* come back to the one that searches.                                     *)
(***************************************************************************)
EXTENDS FileSearch, FileSharingProofs, TLAPS

\* A goroutine that was handed a reply holds one.
ReplyAtHand ==
  \A g \in Gossiper :
    searcher[g] # None /\ searcher[g].phase = "got" => searcher[g].got \in SearchReply

\* The inductive invariant
IInv == TypeOK /\ AliveWhileSearching /\ MatchesCountOnce /\ ReplyAtHand

\* What may be in flight
Packets == SearchRequest \cup SearchReply \cup ToDownload

-----------------------------------------------------------------------------
\* Packets

(***************************************************************************)
(* A packet of a kind is a packet of that kind.                            *)
(***************************************************************************)
LEMMA PacketFields ==
  ASSUME NEW m \in Packets
  PROVE  /\ m.kind = "request" => m \in SearchRequest
         /\ m.kind = "reply" => m \in SearchReply
         /\ m.kind = "download" => m \in ToDownload
BY DEF Packets, SearchRequest, SearchReply, ToDownload

(***************************************************************************)
(* Of what is sent some is in flight next, with the rest.                  *)
(***************************************************************************)
LEMMA Sent ==
  ASSUME NEW rest \in SUBSET Packets, NEW ps \in SUBSET Packets, Send(rest, ps)
  PROVE  net' \subseteq Packets
BY DEF Send

(***************************************************************************)
(* The shares of a budget are requests: there are peers whenever there is  *)
(* a share, and dividing by their number gives a budget again.             *)
(***************************************************************************)
LEMMA Shared ==
  ASSUME NEW g \in Gossiper, NEW ps \in Seq(Gossiper), NEW o \in Gossiper,
         NEW q \in Query, NEW budget \in Nat
  PROVE  Share(g, ps, o, q, budget) \subseteq SearchRequest
<1> SUFFICES ASSUME NEW i \in DOMAIN ps
             PROVE  [kind |-> "request", src |-> g, dst |-> ps[i], origin |-> o, query |-> q,
                     budget |-> (budget \div Len(ps))
                                  + (IF i <= budget % Len(ps) THEN 1 ELSE 0)]
                       \in SearchRequest
  BY DEF Share
<1>1. ps[i] \in Gossiper /\ Len(ps) \in Nat \ {0}
  BY LenProperties, ElementOfSeq
<1>2. budget \div Len(ps) \in Nat
  BY <1>1
<1>3. (budget \div Len(ps)) + (IF i <= budget % Len(ps) THEN 1 ELSE 0) \in Nat
  BY <1>2
<1> QED BY <1>1, <1>3 DEF SearchRequest

(***************************************************************************)
(* What a gossiper finds among its shared files, its downloads and what it *)
(* has downloaded are search results.                                      *)
(***************************************************************************)
LEMMA Found ==
  ASSUME TypeOK, NEW g \in Gossiper, NEW q \in Query
  PROVE  Results(g, q) \subseteq SearchResult
<1>1. DownloadsOf(g) \subseteq DownloadingFile
  <2>1. \A o \in Gossiper : downloading[g][o] # None => downloading[g][o] \in DownloadingFile
    BY DEF TypeOK
  <2>2. \A f \in File : downloaded[g][f] # None =>
          [name |-> downloaded[g][f], metaHash |-> f, hasMetafile |-> TRUE,
           chunksToDownload |-> {}] \in DownloadingFile
    BY DEF TypeOK, DownloadingFile
  <2> QED BY <2>1, <2>2 DEF DownloadsOf
<1>2. Matching[q] \in SUBSET Name /\ InitialShared[g] \in SharedFiles
  BY QueryAssumption, SharedAssumption
<1> QED BY <1>1, <1>2, SearchFinds DEF Results

(***************************************************************************)
(* A gossiper answers with replies.                                        *)
(***************************************************************************)
LEMMA Answered ==
  ASSUME TypeOK, NEW g \in Gossiper, NEW m \in SearchRequest
  PROVE  Answer(g, m) \subseteq SearchReply
<1>1. m.origin \in Gossiper /\ m.query \in Query
  BY DEF SearchRequest
<1>2. Results(g, m.query) \in SUBSET SearchResult
  BY <1>1, Found
<1> QED BY <1>1, <1>2 DEF Answer, SearchReply

(***************************************************************************)
(* A gossiper forwards requests, the one it sends counted down included,   *)
(* to a list of peers.                                                     *)
(***************************************************************************)
LEMMA Forwarded ==
  ASSUME TypeOK, NEW g \in Gossiper, NEW m \in SearchRequest
  PROVE  /\ PeersWith(g, m.src) \in Seq(Gossiper)
         /\ Onward(g, m, PeersWith(g, m.src)) \subseteq SearchRequest
<1>1. /\ m.src \in Gossiper /\ m.origin \in Gossiper /\ m.query \in Query /\ m.budget \in Nat
      /\ peers[g] \in Seq(Gossiper)
  BY DEF SearchRequest, TypeOK
<1>2. PeersWith(g, m.src) \in Seq(Gossiper)
  BY <1>1, AppendProperties DEF PeersWith
<1>3. m.budget <= 1 \/ m.budget - 1 \in Nat
  BY <1>1
<1> QED BY <1>1, <1>2, <1>3, Shared DEF Onward

-----------------------------------------------------------------------------
\* Turns that leave the searches alone

(***************************************************************************)
(* A turn that leaves the searches alone keeps the invariant if it keeps   *)
(* the types.                                                              *)
(***************************************************************************)
LEMMA SameSearches ==
  ASSUME IInv, UNCHANGED <<current, searcher>>, TypeOK'
  PROVE  IInv'
<1>1. AliveWhileSearching'
  BY DEF IInv, AliveWhileSearching, IsAlive
<1>2. MatchesCountOnce' /\ ReplyAtHand'
  BY DEF IInv, MatchesCountOnce, ReplyAtHand
<1> QED BY <1>1, <1>2 DEF IInv

(***************************************************************************)
(* Answering and forwarding a request keeps the invariant.                 *)
(***************************************************************************)
LEMMA RequestReceived ==
  ASSUME IInv, NEW g \in Gossiper, NEW m \in net, ReceiveSearchRequest(g, m)
  PROVE  IInv'
<1>1. /\ TypeOK /\ net \in SUBSET Packets /\ m \in Packets
      /\ peers \in [Gossiper -> Seq(Gossiper)]
      /\ recent \in [Gossiper -> SUBSET (Gossiper \X Query)]
  BY DEF IInv, TypeOK, Packets
<1>2. /\ m.kind = "request"
      /\ peers' = [peers EXCEPT ![g] = PeersWith(g, m.src)]
      /\ recent' = [recent EXCEPT ![g] = @ \cup {<<m.origin, m.query>>}]
      /\ Send(net \ {m}, Answer(g, m) \cup Onward(g, m, PeersWith(g, m.src)))
      /\ UNCHANGED <<current, searcher, downloading, downloaded, processor>>
  BY DEF ReceiveSearchRequest, files
<1>3. m \in SearchRequest /\ m.origin \in Gossiper /\ m.query \in Query
  BY <1>1, <1>2, PacketFields DEF SearchRequest
<1>4. /\ PeersWith(g, m.src) \in Seq(Gossiper)
      /\ Answer(g, m) \cup Onward(g, m, PeersWith(g, m.src)) \in SUBSET Packets
  BY <1>1, <1>3, Answered, Forwarded DEF Packets
<1>5. net' \subseteq Packets
  BY <1>1, <1>2, <1>4, Sent
<1>6. /\ peers' \in [Gossiper -> Seq(Gossiper)]
      /\ recent' \in [Gossiper -> SUBSET (Gossiper \X Query)]
  BY <1>1, <1>2, <1>3, <1>4
<1>7. TypeOK'
  BY <1>1, <1>2, <1>5, <1>6 DEF TypeOK, Packets
<1> QED BY <1>2, <1>7, SameSearches

(***************************************************************************)
(* Dropping a request heard before keeps the invariant.                    *)
(***************************************************************************)
LEMMA RequestDropped ==
  ASSUME IInv, NEW g \in Gossiper, NEW m \in net, DropSearchRequest(g, m)
  PROVE  IInv'
<1>1. /\ TypeOK /\ m \in Packets /\ peers \in [Gossiper -> Seq(Gossiper)]
  BY DEF IInv, TypeOK, Packets
<1>2. /\ m.kind = "request"
      /\ peers' = [peers EXCEPT ![g] = PeersWith(g, m.src)]
      /\ net' = net \ {m}
      /\ UNCHANGED <<recent, current, searcher, downloading, downloaded, processor>>
  BY DEF DropSearchRequest, files
<1>3. PeersWith(g, m.src) \in Seq(Gossiper)
  BY <1>1, <1>2, PacketFields, Forwarded
<1>4. peers' \in [Gossiper -> Seq(Gossiper)]
  BY <1>1, <1>2, <1>3
<1>5. TypeOK'
  BY <1>1, <1>2, <1>4 DEF TypeOK
<1> QED BY <1>2, <1>5, SameSearches

(***************************************************************************)
(* Forgetting a request keeps the invariant.                               *)
(***************************************************************************)
LEMMA RequestForgotten ==
  ASSUME IInv, NEW g \in Gossiper, NEW k, Forget(g, k)
  PROVE  IInv'
<1>1. TypeOK'
  BY DEF IInv, TypeOK, Forget, files
<1> QED BY <1>1, SameSearches DEF Forget

(***************************************************************************)
(* A reply nobody waits for, and one the processor blocks on, keep the     *)
(* invariant.                                                              *)
(***************************************************************************)
LEMMA ReplyDropped ==
  ASSUME IInv, NEW g \in Gossiper, NEW m \in net,
         DropSearchReply(g, m) \/ BlockOnSearchReply(g, m)
  PROVE  IInv'
<1>1. TypeOK'
  BY DEF IInv, TypeOK, DropSearchReply, BlockOnSearchReply, files
<1> QED BY <1>1, SameSearches DEF DropSearchReply, BlockOnSearchReply

(***************************************************************************)
(* A peer added on the web page keeps the invariant.                       *)
(***************************************************************************)
LEMMA PeerAdded ==
  ASSUME IInv, NEW g \in Gossiper, NEW p \in Gossiper, AddPeer(g, p)
  PROVE  IInv'
<1>1. peers \in [Gossiper -> Seq(Gossiper)]
  BY DEF IInv, TypeOK
<1>2. Append(peers[g], p) \in Seq(Gossiper)
  BY <1>1, AppendProperties
<1>3. peers' \in [Gossiper -> Seq(Gossiper)]
  BY <1>1, <1>2 DEF AddPeer
<1>4. TypeOK'
  BY <1>3 DEF IInv, TypeOK, AddPeer, files
<1> QED BY <1>4, SameSearches DEF AddPeer

(***************************************************************************)
(* Asking for the download of a match keeps the invariant.                 *)
(***************************************************************************)
LEMMA DownloadSent ==
  ASSUME IInv, NEW g \in Gossiper, NEW n \in Name, NEW f \in File,
         DownloadFileByHash(g, f, n) \/ DownloadFileByName(g, n)
  PROVE  IInv'
<1>1. /\ current[g] # None /\ current[g] \in Request /\ net \in SUBSET Packets
      /\ UNCHANGED <<peers, recent, current, searcher, downloading, downloaded, processor>>
  BY DEF IInv, TypeOK, DownloadFileByHash, DownloadFileByName, files, Packets
<1>2. PICK match \in current[g].fullMatches :
        \/ Send(net, {[kind |-> "download", dst |-> g, match |-> [match EXCEPT !.name = n]]})
        \/ Send(net, {[kind |-> "download", dst |-> g, match |-> match]})
  BY DEF DownloadFileByHash, DownloadFileByName
<1>3. match \in FullMatch
  BY <1>1 DEF Request
<1>4. [match EXCEPT !.name = n] \in FullMatch
  BY <1>3 DEF FullMatch
<1>5. \A x \in FullMatch :
        {[kind |-> "download", dst |-> g, match |-> x]} \in SUBSET Packets
  BY DEF Packets, ToDownload
<1>6. net' \subseteq Packets
  BY <1>1, <1>2, <1>3, <1>4, <1>5, Sent
<1>7. TypeOK'
  BY <1>1, <1>6 DEF IInv, TypeOK, Packets
<1> QED BY <1>1, <1>7, SameSearches

(***************************************************************************)
(* A crash keeps the invariant.                                            *)
(***************************************************************************)
LEMMA Crashed ==
  ASSUME IInv, NEW g \in Gossiper, processor' = [processor EXCEPT ![g] = "crashed"],
         UNCHANGED <<peers, recent, current, searcher, files, net>>
  PROVE  IInv'
<1>1. TypeOK'
  BY DEF IInv, TypeOK, files
<1> QED BY <1>1, SameSearches

(***************************************************************************)
(* Starting a download keeps the invariant.                                *)
(***************************************************************************)
LEMMA DownloadAsked ==
  ASSUME IInv, NEW g \in Gossiper, NEW m \in net, ClientToDownload(g, m)
  PROVE  IInv'
<1>1. /\ m \in Packets /\ net \subseteq Packets
      /\ downloading \in [Gossiper -> [Gossiper -> DownloadingFile \cup {None}]]
  BY DEF IInv, TypeOK, Packets
<1>2. m.match \in FullMatch
  BY <1>1, PacketFields DEF ClientToDownload, ToDownload
<1>3. m.match.origin \in Gossiper /\ m.match.name \in Name /\ m.match.file \in File
  BY <1>2 DEF FullMatch
<1>4. InitDownloadingFile(m.match.name, m.match.file) \in DownloadingFile
  BY <1>3 DEF InitDownloadingFile, DownloadingFile
<1>5. downloading' \in [Gossiper -> [Gossiper -> DownloadingFile \cup {None}]]
  BY <1>1, <1>3, <1>4 DEF ClientToDownload
<1>6. TypeOK'
  BY <1>5 DEF IInv, TypeOK, ClientToDownload
<1> QED BY <1>6, SameSearches DEF ClientToDownload

(***************************************************************************)
(* Data of a download keeps the invariant, and so does the last of it.     *)
(***************************************************************************)
LEMMA DataArrived ==
  ASSUME IInv, NEW g \in Gossiper, NEW o \in Gossiper, DataArrives(g, o)
  PROVE  IInv'
<1>1. /\ downloading \in [Gossiper -> [Gossiper -> DownloadingFile \cup {None}]]
      /\ downloaded \in [Gossiper -> [File -> Name \cup {None}]]
      /\ downloading[g][o] # None
  BY DEF IInv, TypeOK, DataArrives
<1>2. downloading[g][o] \in DownloadingFile
  BY <1>1
<1>3. PICK r \in {ProcessDataReply(downloading[g][o], h, {}) : h \in Held(o)} :
        /\ downloading' = [downloading EXCEPT ![g][o] =
                             IF r.result = "finished" THEN None ELSE r.df]
        /\ downloaded' = IF r.result = "finished"
                         THEN [downloaded EXCEPT ![g][r.df.metaHash] = r.df.name]
                         ELSE downloaded
  BY DEF DataArrives
<1>4. r.df \in DownloadingFile
  BY <1>2, <1>3, Replied
<1>5. r.df.name \in Name /\ r.df.metaHash \in File
  BY <1>4, DownloadFields
<1>6. downloading' \in [Gossiper -> [Gossiper -> DownloadingFile \cup {None}]]
  BY <1>1, <1>3, <1>4
<1>7. downloaded' \in [Gossiper -> [File -> Name \cup {None}]]
  BY <1>1, <1>3, <1>5
<1>8. TypeOK'
  BY <1>6, <1>7 DEF IInv, TypeOK, DataArrives
<1> QED BY <1>8, SameSearches DEF DataArrives

(***************************************************************************)
(* Giving up a download keeps the invariant.                               *)
(***************************************************************************)
LEMMA GivenUp ==
  ASSUME IInv, NEW g \in Gossiper, NEW o \in Gossiper, GiveUp(g, o)
  PROVE  IInv'
<1>1. downloading' \in [Gossiper -> [Gossiper -> DownloadingFile \cup {None}]]
  BY DEF IInv, TypeOK, GiveUp
<1>2. TypeOK'
  BY <1>1 DEF IInv, TypeOK, GiveUp
<1> QED BY <1>2, SameSearches DEF GiveUp

-----------------------------------------------------------------------------
\* Turns of a search

(***************************************************************************)
(* What the local variables of a search goroutine are.                     *)
(***************************************************************************)
LEMMA SearcherFields ==
  ASSUME NEW s \in Searcher
  PROVE  /\ s.query \in Query /\ s.budget \in Nat /\ s.max \in Nat
         /\ s.got \in SearchReply \cup {None}
         /\ s.phase \in {"waiting", "got", "ending"} /\ s # None
BY NoRequestAssumption DEF Searcher

(***************************************************************************)
(* A turn that changes the goroutine but not its request keeps the         *)
(* invariant: the goroutine goes on, and has a reply if it says so.        *)
(***************************************************************************)
LEMMA SearcherMoved ==
  ASSUME IInv, NEW g \in Gossiper, searcher[g] # None,
         NEW s \in Searcher, searcher' = [searcher EXCEPT ![g] = s],
         s.phase = "got" => s.got \in SearchReply,
         UNCHANGED <<peers, recent, current, downloading, downloaded, processor>>,
         net' \subseteq Packets
  PROVE  IInv'
<1>1. /\ searcher \in [Gossiper -> Searcher \cup {None}]
      /\ searcher' \in [Gossiper -> Searcher \cup {None}]
      /\ \A h \in Gossiper : searcher'[h] = IF h = g THEN s ELSE searcher[h]
  BY DEF IInv, TypeOK
<1>2. s # None
  BY SearcherFields
<1>3. TypeOK'
  BY <1>1 DEF IInv, TypeOK, Packets
<1>4. AliveWhileSearching'
  BY <1>1, <1>2 DEF IInv, AliveWhileSearching, IsAlive
<1>5. MatchesCountOnce'
  BY DEF IInv, MatchesCountOnce
<1>6. ReplyAtHand'
  BY <1>1 DEF IInv, ReplyAtHand
<1> QED BY <1>3, <1>4, <1>5, <1>6 DEF IInv

(***************************************************************************)
(* Starting a search keeps the invariant: a request without matches and    *)
(* its goroutine come together.                                            *)
(***************************************************************************)
LEMMA SearchStarted ==
  ASSUME IInv, NEW g \in Gossiper, NEW q \in Query, NEW b \in Nat, ClientToSearch(g, q, b)
  PROVE  IInv'
<1> DEFINE c == [isAlive |-> TRUE, fullMatches |-> {}]
           s == [query |-> q, got |-> None, phase |-> "waiting",
                 budget |-> IF b = 0 THEN StartBudget ELSE b,
                 max |-> IF b = 0 THEN MaxBudget ELSE b]
<1>1. /\ current' = [current EXCEPT ![g] = c]
      /\ searcher' = [searcher EXCEPT ![g] = s]
      /\ UNCHANGED <<peers, recent, downloading, downloaded, processor, net>>
  BY DEF ClientToSearch, files
<1>2. /\ (IF b = 0 THEN StartBudget ELSE b) \in Nat
      /\ (IF b = 0 THEN MaxBudget ELSE b) \in Nat
  BY BudgetAssumption
<1>3. s \in Searcher /\ s.phase = "waiting"
  BY <1>2 DEF Searcher
<1>4. c \in Request /\ c.isAlive = TRUE /\ c.fullMatches = {}
  BY DEF Request
<1> HIDE DEF c, s
<1>5. c # None /\ s # None
  BY <1>3, <1>4, NoRequestAssumption
<1>6. /\ current \in [Gossiper -> Request \cup {None}]
      /\ searcher \in [Gossiper -> Searcher \cup {None}]
  BY DEF IInv, TypeOK
<1>7. /\ current' \in [Gossiper -> Request \cup {None}]
      /\ searcher' \in [Gossiper -> Searcher \cup {None}]
      /\ \A h \in Gossiper : /\ current'[h] = IF h = g THEN c ELSE current[h]
                             /\ searcher'[h] = IF h = g THEN s ELSE searcher[h]
  BY <1>1, <1>3, <1>4, <1>6
<1>8. TypeOK'
  BY <1>1, <1>7 DEF IInv, TypeOK
<1>9. AliveWhileSearching'
  BY <1>4, <1>5, <1>7 DEF IInv, AliveWhileSearching, IsAlive
<1>10. MatchesCountOnce'
  BY <1>4, <1>7 DEF IInv, MatchesCountOnce
<1>11. ReplyAtHand'
  BY <1>3, <1>7 DEF IInv, ReplyAtHand
<1> QED BY <1>8, <1>9, <1>10, <1>11 DEF IInv

(***************************************************************************)
(* Handing over a reply keeps the invariant: the request is alive, so the  *)
(* goroutine is there.                                                     *)
(***************************************************************************)
LEMMA ReplyHanded ==
  ASSUME IInv, NEW g \in Gossiper, NEW m \in net, HandSearchReply(g, m)
  PROVE  IInv'
<1> DEFINE s == [searcher[g] EXCEPT !.phase = "got", !.got = m]
<1>1. /\ m \in SearchReply /\ IsAlive(g)
      /\ net' \subseteq Packets
      /\ UNCHANGED <<peers, recent, current, downloading, downloaded, processor>>
  BY PacketFields DEF IInv, TypeOK, Packets, HandSearchReply, files
<1>2. /\ searcher[g] # None /\ searcher[g] \in Searcher
      /\ searcher \in [Gossiper -> Searcher \cup {None}]
  BY <1>1 DEF IInv, TypeOK, AliveWhileSearching
<1>3. s \in Searcher /\ s.got = m
  BY <1>1, <1>2 DEF Searcher
<1>4. searcher' = [searcher EXCEPT ![g] = s]
  BY <1>2 DEF HandSearchReply
<1> HIDE DEF s
<1> QED BY <1>1, <1>2, <1>3, <1>4, SearcherMoved

(***************************************************************************)
(* Asking with a larger budget, waiting once more and giving up keep the   *)
(* invariant.                                                              *)
(***************************************************************************)
LEMMA Asked ==
  ASSUME IInv, NEW g \in Gossiper, searcher[g] # None,
         Ask(g) \/ WaitMore(g) \/ Defeated(g)
  PROVE  IInv'
<1>1. /\ searcher[g].phase = "waiting" /\ searcher[g] \in Searcher
      /\ searcher \in [Gossiper -> Searcher \cup {None}]
      /\ peers[g] \in Seq(Gossiper) /\ net \subseteq Packets
      /\ UNCHANGED <<peers, recent, current, downloading, downloaded, processor>>
  BY DEF IInv, TypeOK, Packets, Ask, WaitMore, Defeated, files
<1>2. /\ searcher[g].query \in Query /\ searcher[g].budget \in Nat
      /\ searcher[g].budget + 1 \in Nat
  BY <1>1, SearcherFields
<1>3. net' \subseteq Packets
  <2>1. CASE Ask(g)
    <3>1. Share(g, peers[g], g, searcher[g].query, searcher[g].budget) \in SUBSET Packets
      BY <1>1, <1>2, Shared DEF Packets
    <3> QED BY <1>1, <2>1, <3>1, Sent DEF Ask
  <2>2. CASE WaitMore(g) \/ Defeated(g)
    BY <1>1, <2>2 DEF WaitMore, Defeated
  <2> QED BY <2>1, <2>2
<1>4. PICK s \in Searcher : searcher' = [searcher EXCEPT ![g] = s] /\ s.phase # "got"
  <2>1. CASE Ask(g) \/ WaitMore(g)
    <3> DEFINE s == [searcher[g] EXCEPT !.budget = @ + 1]
    <3>1. s \in Searcher /\ s.phase = "waiting"
      BY <1>1, <1>2 DEF Searcher
    <3>2. searcher' = [searcher EXCEPT ![g] = s]
      BY <2>1 DEF Ask, WaitMore
    <3> QED BY <3>1, <3>2
  <2>2. CASE Defeated(g)
    <3> DEFINE s == [searcher[g] EXCEPT !.phase = "ending"]
    <3>1. s \in Searcher /\ s.phase = "ending"
      BY <1>1 DEF Searcher
    <3>2. searcher' = [searcher EXCEPT ![g] = s]
      BY <2>2 DEF Defeated
    <3> QED BY <3>1, <3>2
  <2> QED BY <2>1, <2>2
<1> QED BY <1>1, <1>3, <1>4, SearcherMoved

(***************************************************************************)
(* AddFullMatch for each result: matches stay matches, none is lost, and   *)
(* no file counts twice for an origin. A file that is new has one name     *)
(* picked for it, and one that is not new is left out.                     *)
(***************************************************************************)
LEMMA MatchesAdded ==
  ASSUME NEW ms \in SUBSET FullMatch, NEW o \in Gossiper, NEW rs \in SUBSET SearchResult,
         \A m1, m2 \in ms : m1.origin = m2.origin /\ m1.file = m2.file => m1 = m2,
         NEW added \in AddFullMatches(ms, o, rs)
  PROVE  /\ added \in SUBSET FullMatch /\ ms \subseteq added
         /\ \A m1, m2 \in added : m1.origin = m2.origin /\ m1.file = m2.file => m1 = m2
<1> DEFINE full == {r \in rs : IsFullMatch(r)}
           new == {r.file : r \in full} \ {m.file : m \in {x \in ms : x.origin = o}}
<1>1. PICK pick \in [new -> full] :
        /\ \A f \in new : pick[f].file = f
        /\ added = ms \cup {[origin |-> o, name |-> pick[f].name, file |-> f] : f \in new}
  BY DEF AddFullMatches
<1>2. \A r \in full : r.name \in Name /\ r.file \in File
  BY DEF SearchResult
<1>3. \A m \in ms : m.origin = o => m.file \notin new
  OBVIOUS
<1>4. \A f \in new : f \in File /\ pick[f].name \in Name
  BY <1>2
<1> HIDE DEF full, new
<1> DEFINE match(f) == [origin |-> o, name |-> pick[f].name, file |-> f]
<1>5. \A f \in new : /\ match(f) \in FullMatch
                     /\ match(f).origin = o /\ match(f).file = f
  BY <1>4 DEF FullMatch
<1>6. added = ms \cup {match(f) : f \in new}
  BY <1>1
<1> HIDE DEF match
<1>7. ASSUME NEW m1 \in added, NEW m2 \in added, m1.origin = m2.origin, m1.file = m2.file
      PROVE  m1 = m2
  <2>1. CASE m1 \in ms /\ m2 \in ms
    BY <1>7, <2>1
  <2>2. ASSUME NEW m \in ms, NEW f \in new PROVE ~(m.origin = o /\ m.file = f)
    BY <1>3
  <2>3. CASE m1 \in ms /\ m2 \notin ms
    <3>1. PICK f \in new : m2 = match(f)
      BY <1>6, <2>3
    <3>2. m1.origin = o /\ m1.file = f
      BY <1>5, <1>7, <3>1
    <3> QED BY <2>2, <2>3, <3>2
  <2>4. CASE m1 \notin ms /\ m2 \in ms
    <3>1. PICK f \in new : m1 = match(f)
      BY <1>6, <2>4
    <3>2. m2.origin = o /\ m2.file = f
      BY <1>5, <1>7, <3>1
    <3> QED BY <2>2, <2>4, <3>2
  <2>5. CASE m1 \notin ms /\ m2 \notin ms
    <3>1. PICK f \in new : m1 = match(f)
      BY <1>6, <2>5
    <3>2. PICK e \in new : m2 = match(e)
      BY <1>6, <2>5
    <3>3. f = e
      BY <1>5, <1>7, <3>1, <3>2
    <3> QED BY <3>1, <3>2, <3>3
  <2> QED BY <2>1, <2>3, <2>4, <2>5
<1>8. added \in SUBSET FullMatch /\ ms \subseteq added
  BY <1>5, <1>6
<1>9. \A m1, m2 \in added : m1.origin = m2.origin /\ m1.file = m2.file => m1 = m2
  BY <1>7
<1> QED BY <1>8, <1>9

(***************************************************************************)
(* A turn that changes a request and its goroutine keeps the invariant if  *)
(* the request is alive just when the goroutine goes on and counts its     *)
(* matches once.                                                           *)
(***************************************************************************)
LEMMA SearchTurned ==
  ASSUME IInv, NEW g \in Gossiper, NEW c \in Request, NEW s \in Searcher \cup {None},
         current' = [current EXCEPT ![g] = c], searcher' = [searcher EXCEPT ![g] = s],
         c.isAlive <=> s # None,
         s # None => s.phase # "got",
         \A m1, m2 \in c.fullMatches :
           m1.origin = m2.origin /\ m1.file = m2.file => m1 = m2,
         UNCHANGED <<peers, recent, downloading, downloaded, processor, net>>
  PROVE  IInv'
<1>1. /\ current \in [Gossiper -> Request \cup {None}]
      /\ searcher \in [Gossiper -> Searcher \cup {None}]
  BY DEF IInv, TypeOK
<1>2. /\ current' \in [Gossiper -> Request \cup {None}]
      /\ searcher' \in [Gossiper -> Searcher \cup {None}]
      /\ \A h \in Gossiper : /\ current'[h] = IF h = g THEN c ELSE current[h]
                             /\ searcher'[h] = IF h = g THEN s ELSE searcher[h]
  BY <1>1
<1>3. c # None
  BY NoRequestAssumption
<1>4. TypeOK'
  BY <1>2 DEF IInv, TypeOK
<1>5. AliveWhileSearching'
  BY <1>2, <1>3 DEF IInv, AliveWhileSearching, IsAlive
<1>6. MatchesCountOnce'
  BY <1>2 DEF IInv, MatchesCountOnce
<1>7. ReplyAtHand'
  BY <1>2 DEF IInv, ReplyAtHand
<1> QED BY <1>4, <1>5, <1>6, <1>7 DEF IInv

(***************************************************************************)
(* What a search goroutine may rely on.                                    *)
(***************************************************************************)
LEMMA InSearch ==
  ASSUME IInv, NEW g \in Gossiper, searcher[g] # None
  PROVE  /\ searcher[g] \in Searcher /\ current[g] \in Request
         /\ current[g].isAlive = TRUE /\ current[g].fullMatches \in SUBSET FullMatch
         /\ \A m1, m2 \in current[g].fullMatches :
               m1.origin = m2.origin /\ m1.file = m2.file => m1 = m2
         /\ searcher[g].phase = "got" => searcher[g].got \in SearchReply
<1>1. searcher[g] \in Searcher /\ IsAlive(g) /\ current[g] \in Request
  BY DEF IInv, TypeOK, AliveWhileSearching, IsAlive
<1>2. current[g].isAlive \in BOOLEAN /\ current[g].fullMatches \in SUBSET FullMatch
  BY <1>1 DEF Request
<1> QED BY <1>1, <1>2 DEF IsAlive, IInv, MatchesCountOnce, ReplyAtHand

(***************************************************************************)
(* Taking a reply keeps the invariant.                                     *)
(***************************************************************************)
LEMMA ReplyTaken ==
  ASSUME IInv, NEW g \in Gossiper, searcher[g] # None, TakeReply(g)
  PROVE  IInv'
<1> DEFINE m == searcher[g].got
<1>1. /\ searcher[g] \in Searcher /\ current[g] \in Request
      /\ current[g].isAlive = TRUE /\ current[g].fullMatches \in SUBSET FullMatch
      /\ \A m1, m2 \in current[g].fullMatches :
            m1.origin = m2.origin /\ m1.file = m2.file => m1 = m2
      /\ m \in SearchReply
  BY InSearch DEF TakeReply
<1>2. m.src \in Gossiper /\ m.results \in SUBSET SearchResult
  BY <1>1 DEF SearchReply
<1>3. PICK ms \in AddFullMatches(current[g].fullMatches, m.src, m.results) :
        /\ current' = [current EXCEPT ![g].fullMatches = ms]
        /\ searcher' = [searcher EXCEPT ![g].got = None,
             ![g].phase = IF Cardinality(ms) >= Threshold THEN "ending" ELSE "waiting"]
        /\ UNCHANGED <<peers, recent, downloading, downloaded, processor, net>>
  BY DEF TakeReply, files
<1> HIDE DEF m
<1>4. /\ ms \in SUBSET FullMatch
      /\ \A m1, m2 \in ms : m1.origin = m2.origin /\ m1.file = m2.file => m1 = m2
  BY <1>1, <1>2, <1>3, MatchesAdded
<1>5. PICK phase \in {"waiting", "ending"} :
        phase = IF Cardinality(ms) >= Threshold THEN "ending" ELSE "waiting"
  OBVIOUS
<1> DEFINE c == [current[g] EXCEPT !.fullMatches = ms]
           s == [searcher[g] EXCEPT !.got = None, !.phase = phase]
<1>6. c \in Request /\ c.isAlive = TRUE /\ c.fullMatches = ms
  BY <1>1, <1>4 DEF Request
<1>7. s \in Searcher /\ s.phase # "got" /\ s # None
  <2>1. s \in Searcher /\ s.phase = phase
    BY <1>1 DEF Searcher
  <2> QED BY <2>1, SearcherFields
<1>8. current' = [current EXCEPT ![g] = c] /\ searcher' = [searcher EXCEPT ![g] = s]
  <2>1. searcher \in [Gossiper -> Searcher \cup {None}]
    BY DEF IInv, TypeOK
  <2> QED BY <1>3, <1>5, <2>1
<1>9. UNCHANGED <<peers, recent, downloading, downloaded, processor, net>>
  BY <1>3
<1> HIDE DEF c, s
<1>10. /\ \A m1, m2 \in c.fullMatches :
            m1.origin = m2.origin /\ m1.file = m2.file => m1 = m2
       /\ c.isAlive <=> s # None
  BY <1>4, <1>6, <1>7
<1>11. c \in Request /\ s \in Searcher \cup {None} /\ (s # None => s.phase # "got")
  BY <1>6, <1>7
<1> QED BY <1>8, <1>9, <1>10, <1>11, SearchTurned

(***************************************************************************)
(* Shutting the request down keeps the invariant: the goroutine is gone in *)
(* the same turn.                                                          *)
(***************************************************************************)
LEMMA ShutDown ==
  ASSUME IInv, NEW g \in Gossiper, searcher[g] # None, Shutdown(g)
  PROVE  IInv'
<1> DEFINE c == [current[g] EXCEPT !.isAlive = FALSE]
<1>1. /\ current[g] \in Request
      /\ \A m1, m2 \in current[g].fullMatches :
            m1.origin = m2.origin /\ m1.file = m2.file => m1 = m2
  BY InSearch
<1>2. c \in Request /\ c.isAlive = FALSE /\ c.fullMatches = current[g].fullMatches
  BY <1>1 DEF Request
<1>3. /\ current' = [current EXCEPT ![g] = c]
      /\ searcher' = [searcher EXCEPT ![g] = None]
      /\ UNCHANGED <<peers, recent, downloading, downloaded, processor, net>>
  BY DEF Shutdown, files
<1> HIDE DEF c
<1> QED BY <1>1, <1>2, <1>3, SearchTurned

-----------------------------------------------------------------------------
\* The theorems

(***************************************************************************)
(* The initial states satisfy the invariant.                               *)
(***************************************************************************)
LEMMA InitOK == Init => IInv
<1> SUFFICES ASSUME Init PROVE IInv
  OBVIOUS
<1>1. TypeOK
  BY PeersAssumption, SharedAssumption DEF Init, TypeOK
<1>2. AliveWhileSearching /\ MatchesCountOnce /\ ReplyAtHand
  BY DEF Init, AliveWhileSearching, IsAlive, MatchesCountOnce, ReplyAtHand
<1> QED BY <1>1, <1>2 DEF IInv

(***************************************************************************)
(* Every step keeps the invariant.                                         *)
(***************************************************************************)
LEMMA StepOK == IInv /\ [Next]_vars => IInv'
<1> SUFFICES ASSUME IInv, [Next]_vars PROVE IInv'
  OBVIOUS
<1>1. CASE UNCHANGED vars
  <2>1. TypeOK'
    BY <1>1 DEF vars, IInv, TypeOK
  <2> QED BY <1>1, <2>1, SameSearches DEF vars
<1>2. CASE \E s \in Searches : ClientToSearch(s[1], s[2], s[3])
  BY <1>2, QueryAssumption, SearchStarted
<1>3. CASE \E d \in Downloads : \/ \E f \in File : DownloadFileByHash(d[1], f, d[2])
                                \/ DownloadFileByName(d[1], d[2])
                                \/ CrashOnDownload(d[1], d[2])
  <2>1. PICK d \in Downloads : \/ \E f \in File : DownloadFileByHash(d[1], f, d[2])
                               \/ DownloadFileByName(d[1], d[2])
                               \/ CrashOnDownload(d[1], d[2])
    BY <1>3
  <2>2. d[1] \in Gossiper /\ d[2] \in Name
    BY ClientAssumption
  <2>3. CASE \E f \in File : DownloadFileByHash(d[1], f, d[2])
    BY <2>2, <2>3, DownloadSent
  <2>4. CASE DownloadFileByName(d[1], d[2])
    <3>1. current[d[1]] # None /\ \E match \in current[d[1]].fullMatches : TRUE
      BY <2>4 DEF DownloadFileByName
    <3>2. current[d[1]] \in Request
      BY <2>2, <3>1 DEF IInv, TypeOK
    <3>3. \E f \in File : TRUE
      BY <3>1, <3>2 DEF Request, FullMatch
    <3> QED BY <2>2, <2>4, <3>3, DownloadSent
  <2>5. CASE CrashOnDownload(d[1], d[2])
    BY <2>2, <2>5, Crashed DEF CrashOnDownload
  <2> QED BY <2>1, <2>3, <2>4, <2>5
<1>4. CASE \E c \in NewPeers : AddPeer(c[1], c[2])
  BY <1>4, ClientAssumption, PeerAdded
<1>5. CASE \E g \in Gossiper : \E m \in net :
             \/ ReceiveSearchRequest(g, m) \/ DropSearchRequest(g, m)
             \/ HandSearchReply(g, m) \/ DropSearchReply(g, m)
             \/ BlockOnSearchReply(g, m) \/ ClientToDownload(g, m)
  BY <1>5, RequestReceived, RequestDropped, ReplyHanded, ReplyDropped, DownloadAsked
<1>6. CASE \E g \in Gossiper : \E k \in recent[g] : Forget(g, k)
  BY <1>6, RequestForgotten
<1>7. CASE \E g, o \in Gossiper : DataArrives(g, o) \/ GiveUp(g, o)
  BY <1>7, DataArrived, GivenUp
<1>8. CASE \E g \in Gossiper : Search(g)
  <2> SUFFICES ASSUME NEW g \in Gossiper, Search(g) PROVE IInv'
    BY <1>8
  <2>1. searcher[g] # None
    BY DEF Search
  <2>2. CASE Ask(g) \/ WaitMore(g) \/ Defeated(g)
    BY <2>1, <2>2, Asked
  <2>3. CASE AskNobody(g)
    BY <2>3, Crashed DEF AskNobody
  <2>4. CASE TakeReply(g)
    BY <2>1, <2>4, ReplyTaken
  <2>5. CASE Shutdown(g)
    BY <2>1, <2>5, ShutDown
  <2> QED BY <2>2, <2>3, <2>4, <2>5 DEF Search
<1> QED BY <1>1, <1>2, <1>3, <1>4, <1>5, <1>6, <1>7, <1>8 DEF Next

(***************************************************************************)
(* The invariant holds in every reachable state.                           *)
(***************************************************************************)
LEMMA Invariance == Spec => []IInv
BY InitOK, StepOK, PTL DEF Spec

(***************************************************************************)
(* Every variable keeps its type, packets in flight and the results they   *)
(* carry included (processSearchRequest, processSearchReply).              *)
(***************************************************************************)
THEOREM TypeCorrect == Spec => []TypeOK
<1>1. IInv => TypeOK
  BY DEF IInv
<1> QED BY <1>1, Invariance, PTL

(***************************************************************************)
(* A request stands for a search in progress exactly while a goroutine     *)
(* works on it, whatever replies come and whatever blocks or crashes       *)
(* (startFileSearchingGoroutine, ForwardSearchReply).                      *)
(***************************************************************************)
THEOREM AliveIffSearching == Spec => []AliveWhileSearching
<1>1. IInv => AliveWhileSearching
  BY DEF IInv
<1> QED BY <1>1, Invariance, PTL

(***************************************************************************)
(* A file counts once for each origin towards the threshold, however many  *)
(* replies name it and under how many names (AddFullMatch).                *)
(***************************************************************************)
THEOREM CountedOnce == Spec => []MatchesCountOnce
<1>1. IInv => MatchesCountOnce
  BY DEF IInv
<1> QED BY <1>1, Invariance, PTL

-----------------------------------------------------------------------------
\* What a request has left

(***************************************************************************)
(* A part of a budget, with one more of what is left over if it is one of  *)
(* the first, is no more than the budget.                                  *)
(***************************************************************************)
LEMMA PartOfBudget ==
  ASSUME NEW b \in Nat, NEW k \in Nat \ {0}, NEW i \in Nat \ {0}
  PROVE  (b \div k) + (IF i <= b % k THEN 1 ELSE 0) <= b
<1>1. PICK q \in Nat, r \in Nat : q = b \div k /\ r = b % k /\ b = k * q + r
  OBVIOUS
<1>2. q <= k * q
  BY SMT
<1> QED BY <1>1, <1>2

(***************************************************************************)
(* Nobody gets more than the budget that is shared out.                    *)
(***************************************************************************)
LEMMA SharesOfBudget ==
  ASSUME NEW g \in Gossiper, NEW ps \in Seq(Gossiper), NEW o \in Gossiper, NEW q \in Query,
         NEW budget \in Nat, NEW n \in Share(g, ps, o, q, budget)
  PROVE  n.src = g /\ n.origin = o /\ n.query = q /\ n.budget <= budget
<1>1. PICK i \in DOMAIN ps :
        n = [kind |-> "request", src |-> g, dst |-> ps[i], origin |-> o, query |-> q,
             budget |-> (budget \div Len(ps)) + (IF i <= budget % Len(ps) THEN 1 ELSE 0)]
  BY DEF Share
<1>2. Len(ps) \in Nat \ {0} /\ i \in Nat \ {0}
  BY <1>1, LenProperties
<1>3. (budget \div Len(ps)) + (IF i <= budget % Len(ps) THEN 1 ELSE 0) <= budget
  BY <1>2, PartOfBudget
<1> QED BY <1>1, <1>3

(***************************************************************************)
(* No step makes a request of another kind.                                *)
(***************************************************************************)
LEMMA LessPassedOn ==
  ASSUME IInv, [Next]_vars
  PROVE  Dwindling
<1>0. /\ net \subseteq Packets /\ peers \in [Gossiper -> Seq(Gossiper)]
      /\ searcher \in [Gossiper -> Searcher \cup {None}]
  BY DEF IInv, TypeOK, Packets
<1>1. ASSUME \A n \in net' \ net : n.kind # "request" PROVE Dwindling
  BY <1>1 DEF Dwindling
<1>2. ASSUME NEW g \in Gossiper, NEW m \in net, ReceiveSearchRequest(g, m)
      PROVE  Dwindling
  <2>1. m \in SearchRequest /\ m.kind = "request" /\ m.dst = g
    BY <1>0, <1>2, PacketFields DEF ReceiveSearchRequest
  <2>2. m.origin \in Gossiper /\ m.query \in Query /\ m.budget \in Nat
    BY <2>1 DEF SearchRequest
  <2>3. PICK ps \in Seq(Gossiper) : ps = PeersWith(g, m.src)
    BY <2>1, Forwarded DEF IInv
  <2>4. net' \subseteq net \cup Answer(g, m) \cup Onward(g, m, ps)
    BY <1>2, <2>3 DEF ReceiveSearchRequest, Send
  <2>5. \A n \in Answer(g, m) : n.kind = "reply"
    BY DEF Answer
  <2>6. ASSUME NEW n \in Onward(g, m, ps)
        PROVE  /\ n.src = g /\ n.origin = m.origin /\ n.query = m.query
               /\ IF g = m.origin THEN n.budget <= m.budget ELSE n.budget < m.budget
    <3>1. CASE g = m.origin
      <4>1. n \in Share(g, ps, m.origin, m.query, m.budget)
        BY <2>6, <3>1 DEF Onward
      <4> QED BY <2>2, <3>1, <4>1, SharesOfBudget
    <3>2. CASE g # m.origin
      <4>1. m.budget - 1 \in Nat /\ n \in Share(g, ps, m.origin, m.query, m.budget - 1)
        BY <2>2, <2>6, <3>2 DEF Onward
      <4>2. /\ n.src = g /\ n.origin = m.origin /\ n.query = m.query
            /\ n.budget <= m.budget - 1
        BY <2>2, <4>1, SharesOfBudget
      <4>3. n.budget \in Nat
        BY <2>2, <4>1, Shared DEF SearchRequest
      <4> QED BY <2>2, <3>2, <4>2, <4>3
    <3> QED BY <3>1, <3>2
  <2> QED BY <2>1, <2>4, <2>5, <2>6 DEF Dwindling
<1>3. ASSUME NEW g \in Gossiper, Search(g) PROVE Dwindling
  <2>1. searcher[g] # None /\ searcher[g] \in Searcher
    BY <1>0, <1>3 DEF Search
  <2>2. CASE Ask(g)
    <3>1. /\ AsksAgain(g)
          /\ net' \subseteq net \cup Share(g, peers[g], g, searcher[g].query, searcher[g].budget)
      BY <1>0, <2>1, <2>2 DEF Ask, AsksAgain, Send
    <3>2. \A n \in net' \ net : n.src = g /\ n.origin = g
      BY <3>1 DEF Share
    <3> QED BY <3>1, <3>2 DEF Dwindling
  <2>3. CASE ~Ask(g)
    <3>1. net' = net
      BY <1>3, <2>3 DEF Search, AskNobody, WaitMore, Defeated, TakeReply, Shutdown
    <3> QED BY <1>1, <3>1
  <2> QED BY <2>2, <2>3
<1>4. CASE \E s \in Searches : ClientToSearch(s[1], s[2], s[3])
  BY <1>1, <1>4 DEF ClientToSearch
<1>5. CASE \E d \in Downloads : \/ \E f \in File : DownloadFileByHash(d[1], f, d[2])
                                \/ DownloadFileByName(d[1], d[2])
                                \/ CrashOnDownload(d[1], d[2])
  <2>1. PICK d \in Downloads : \/ \E f \in File : DownloadFileByHash(d[1], f, d[2])
                               \/ DownloadFileByName(d[1], d[2])
                               \/ CrashOnDownload(d[1], d[2])
    BY <1>5
  <2>2. CASE CrashOnDownload(d[1], d[2])
    BY <1>1, <2>2 DEF CrashOnDownload
  <2>3. CASE ~CrashOnDownload(d[1], d[2])
    <3>1. PICK x : Send(net, {[kind |-> "download", dst |-> d[1], match |-> x]})
      BY <2>1, <2>3 DEF DownloadFileByHash, DownloadFileByName
    <3>2. \A n \in net' \ net : n.kind # "request"
      BY <3>1 DEF Send
    <3> QED BY <1>1, <3>2
  <2> QED BY <2>2, <2>3
<1>6. CASE \E c \in NewPeers : AddPeer(c[1], c[2])
  BY <1>1, <1>6 DEF AddPeer
<1>7. CASE \E g \in Gossiper : \E m \in net :
             \/ DropSearchRequest(g, m) \/ HandSearchReply(g, m) \/ DropSearchReply(g, m)
             \/ BlockOnSearchReply(g, m) \/ ClientToDownload(g, m)
  <2>1. net' \ net = {}
    BY <1>7 DEF DropSearchRequest, HandSearchReply, DropSearchReply, BlockOnSearchReply,
                ClientToDownload
  <2> QED BY <1>1, <2>1
<1>8. CASE \E g \in Gossiper : \E k \in recent[g] : Forget(g, k)
  BY <1>1, <1>8 DEF Forget
<1>9. CASE \E g, o \in Gossiper : DataArrives(g, o) \/ GiveUp(g, o)
  BY <1>1, <1>9 DEF DataArrives, GiveUp
<1>10. CASE UNCHANGED vars
  BY <1>1, <1>10 DEF vars
<1> QED BY <1>2, <1>3, <1>4, <1>5, <1>6, <1>7, <1>8, <1>9, <1>10 DEF Next

(***************************************************************************)
(* A search spreads by its own goroutine's asking; everywhere else a       *)
(* request leaves behind only parts of itself, each smaller than it was    *)
(* unless it came home, in any network (processSearchRequest).             *)
(***************************************************************************)
THEOREM BudgetsShrink == Spec => PassedOnIsLess
<1>1. IInv /\ [Next]_vars => [Dwindling]_vars
  BY LessPassedOn
<1> QED BY <1>1, Invariance, PTL DEF Spec, PassedOnIsLess
===============================================================================
