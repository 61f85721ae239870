-------------------------- MODULE FileDownloadProofs --------------------------
(***************************************************************************)
(* Proofs about FileDownload, for any number of gossipers, any files and   *)
(* chunks, repeated and none at all among them, and any limit of time-outs.*)
(*                                                                         *)
(* A goroutine, its channel and its entry in the manager's map come and go *)
(* together.  Only the goroutine changes its entry, between a reply it was *)
(* handed and the request it notes as its latest, so what it asks for      *)
(* again is what the entry still wants; and a chunk leaves the set of      *)
(* those wanted in the step that writes it.                                *)
(***************************************************************************)
EXTENDS FileDownload, FileSharingProofs, TLAPS

\* A time-out is still left unless the last has come; and until the metafile is
\* there it is what was asked for.
DownloaderOK(g, o) ==
  goroutine[g][o] # None =>
    /\ goroutine[g][o].timeouts = 0 <=> goroutine[g][o].phase = "expired"
    /\ ~downloading[g][o].hasMetafile =>
          /\ goroutine[g][o].latest = downloading[g][o].metaHash
          /\ downloading[g][o].chunksToDownload = {}
    /\ \/ goroutine[g][o].latest \in downloading[g][o].chunksToDownload
       \/ /\ goroutine[g][o].latest = downloading[g][o].metaHash
          /\ downloading[g][o].chunksToDownload
               \in {{}, ChunkSet(downloading[g][o].metaHash)}

Downloaders == \A g, o \in Gossiper : DownloaderOK(g, o)

\* The chunks of a download are on disk but for those it still waits for.
UnfinishedKept(g, o) ==
  downloading[g][o] # None /\ downloading[g][o].hasMetafile =>
    \A c \in ChunkSet(downloading[g][o].metaHash) \ downloading[g][o].chunksToDownload :
       <<downloading[g][o].name, c>> \in disk[g]

FinishedKept(g, f) ==
  downloaded[g][f] # None =>
    /\ \A c \in ChunkSet(f) : <<downloaded[g][f], c>> \in disk[g]
    /\ written[g][downloaded[g][f]] # None

Kept == \A g \in Gossiper : /\ \A o \in Gossiper : UnfinishedKept(g, o)
                            /\ \A f \in File : FinishedKept(g, f)

IInv == TypeOK /\ MapsAgree /\ Downloaders /\ Kept

-----------------------------------------------------------------------------
\* Packets

(***************************************************************************)
(* Of what is sent some arrives.                                           *)
(***************************************************************************)
LEMMA Sent ==
  ASSUME NEW rest, NEW ps, rest \subseteq Packet, ps \subseteq Packet, Send(rest, ps)
  PROVE  net' \subseteq Packet
BY DEF Send

(***************************************************************************)
(* Requests and replies are packets.                                       *)
(***************************************************************************)
LEMMA PacketTypes ==
  ASSUME NEW g \in Gossiper, NEW o \in Gossiper, NEW h \in Hash
  PROVE  Request(g, o, h) \in Packet /\ DataReply(g, o, h) \in Packet
BY DEF Request, DataReply, Packet

-----------------------------------------------------------------------------
\* A turn that leaves the files alone

(***************************************************************************)
(* What the local variables of a goroutine are.                            *)
(***************************************************************************)
LEMMA GoroutineFields ==
  ASSUME NEW d \in Goroutine
  PROVE  /\ d.phase \in {"starting", "waiting", "expired", "got"}
         /\ d.latest \in Hash /\ d.timeouts \in 0..TimeoutsLimit
         /\ d.reply \in Hash \cup {None} /\ d # None
BY NoGoroutineAssumption DEF Goroutine

(***************************************************************************)
(* A goroutine that runs has its entry in both maps.                       *)
(***************************************************************************)
LEMMA Held ==
  ASSUME IInv, NEW g \in Gossiper, NEW o \in Gossiper, goroutine[g][o] # None
  PROVE  /\ goroutine[g][o] \in Goroutine
         /\ downloading[g][o] \in DownloadingFile
         /\ o \in channels[g]
BY DEF IInv, TypeOK, MapsAgree

(***************************************************************************)
(* What only takes packets off the network, or blocks the processor, keeps *)
(* the invariant.                                                          *)
(***************************************************************************)
LEMMA SameGoroutines ==
  ASSUME IInv, UNCHANGED <<files, channels, goroutine>>,
         wedged' \in [Gossiper -> BOOLEAN], net' \subseteq Packet
  PROVE  IInv'
<1>1. UNCHANGED <<shared, downloading, downloaded, dirs, disk, written>>
  BY DEF files
<1>2. TypeOK'
  BY <1>1 DEF IInv, TypeOK
<1>3. MapsAgree' /\ Downloaders'
  BY <1>1 DEF IInv, MapsAgree, Downloaders, DownloaderOK
<1>4. Kept'
  BY <1>1 DEF IInv, Kept, UnfinishedKept, FinishedKept
<1> QED BY <1>2, <1>3, <1>4 DEF IInv

(***************************************************************************)
(* A turn in which a goroutine changes neither its latest request nor any  *)
(* file keeps the invariant.                                               *)
(***************************************************************************)
LEMMA Turned ==
  ASSUME IInv, UNCHANGED <<files, channels, wedged>>,
         NEW g \in Gossiper, NEW o \in Gossiper, goroutine[g][o] # None,
         NEW d \in Goroutine, goroutine' = [goroutine EXCEPT ![g][o] = d],
         d.latest = goroutine[g][o].latest,
         d.timeouts = 0 <=> d.phase = "expired",
         net' \subseteq Packet
  PROVE  IInv'
<1>1. UNCHANGED <<shared, downloading, downloaded, dirs, disk, written>>
  BY DEF files
<1>2. goroutine \in [Gossiper -> [Gossiper -> Goroutine \cup {None}]]
  BY DEF IInv, TypeOK
<1>3. /\ goroutine' \in [Gossiper -> [Gossiper -> Goroutine \cup {None}]]
      /\ \A h, p \in Gossiper :
            goroutine'[h][p] = IF h = g /\ p = o THEN d ELSE goroutine[h][p]
  BY <1>2
<1>4. d # None
  BY GoroutineFields
<1>5. TypeOK'
  BY <1>1, <1>3 DEF IInv, TypeOK
<1>6. MapsAgree'
  BY <1>1, <1>3, <1>4 DEF IInv, MapsAgree
<1>7. Downloaders'
  <2> SUFFICES ASSUME NEW h \in Gossiper, NEW p \in Gossiper PROVE DownloaderOK(h, p)'
    BY DEF Downloaders
  <2>1. DownloaderOK(h, p)
    BY DEF IInv, Downloaders
  <2>2. CASE h = g /\ p = o
    BY <1>1, <1>3, <2>1, <2>2 DEF DownloaderOK
  <2>3. CASE ~(h = g /\ p = o)
    BY <1>1, <1>3, <2>1, <2>3 DEF DownloaderOK
  <2> QED BY <2>2, <2>3
<1>8. Kept'
  BY <1>1 DEF IInv, Kept, UnfinishedKept, FinishedKept
<1> QED BY <1>5, <1>6, <1>7, <1>8 DEF IInv

(***************************************************************************)
(* Answering a request keeps the invariant.                                *)
(***************************************************************************)
LEMMA Answered ==
  ASSUME IInv, NEW g \in Gossiper, NEW m \in net, ReceiveDataRequest(g, m)
  PROVE  IInv'
<1>1. m \in Packet /\ net \subseteq Packet
  BY DEF IInv, TypeOK
<1>2. m.src \in Gossiper /\ m.hash \in Hash
  BY <1>1 DEF Packet
<1>3. DataReply(g, m.src, m.hash) \in Packet
  BY <1>2, PacketTypes
<1>4. net' \subseteq Packet
  BY <1>1, <1>3 DEF ReceiveDataRequest, Send
<1> QED BY <1>4, SameGoroutines DEF IInv, TypeOK, ReceiveDataRequest

(***************************************************************************)
(* Dropping a reply nobody waits for keeps the invariant.                  *)
(***************************************************************************)
LEMMA ReplyDropped ==
  ASSUME IInv, NEW g \in Gossiper, NEW m \in net, DropDataReply(g, m)
  PROVE  IInv'
BY SameGoroutines DEF IInv, TypeOK, DropDataReply

(***************************************************************************)
(* A processor that blocks on a channel keeps the invariant.               *)
(***************************************************************************)
LEMMA ProcessorBlocked ==
  ASSUME IInv, NEW g \in Gossiper, NEW m \in net, BlockOnDataReply(g, m)
  PROVE  IInv'
<1>1. wedged' \in [Gossiper -> BOOLEAN] /\ net' \subseteq Packet
  BY DEF IInv, TypeOK, BlockOnDataReply
<1> QED BY <1>1, SameGoroutines DEF BlockOnDataReply

(***************************************************************************)
(* Handing a reply to a goroutine that waits keeps the invariant: its      *)
(* entry is in the channel map, so the goroutine is there.                 *)
(***************************************************************************)
LEMMA ReplyHanded ==
  ASSUME IInv, NEW g \in Gossiper, NEW m \in net, HandDataReply(g, m)
  PROVE  IInv'
<1> DEFINE o == m.src
           d == [goroutine[g][o] EXCEPT !.phase = "got", !.reply = m.hash]
<1>1. m \in Packet /\ net \subseteq Packet
  BY DEF IInv, TypeOK
<1>2. m.src \in Gossiper /\ m.hash \in Hash
  BY <1>1 DEF Packet
<1>3. o \in channels[g] /\ goroutine[g][o].phase = "waiting"
  BY DEF HandDataReply
<1>4. goroutine[g][o] # None /\ goroutine[g][o] \in Goroutine /\ DownloaderOK(g, o)
  BY <1>2, <1>3 DEF IInv, TypeOK, MapsAgree, Downloaders
<1>5. /\ d \in Goroutine /\ d.latest = goroutine[g][o].latest
      /\ d.phase = "got" /\ d.timeouts = goroutine[g][o].timeouts
  BY <1>2, <1>4 DEF Goroutine
<1>6. d.timeouts = 0 <=> d.phase = "expired"
  BY <1>3, <1>4, <1>5 DEF DownloaderOK
<1>7. goroutine \in [Gossiper -> [Gossiper -> Goroutine \cup {None}]]
  BY DEF IInv, TypeOK
<1>8. goroutine' = [goroutine EXCEPT ![g][o] = d]
  BY <1>2, <1>7 DEF HandDataReply
<1>9. net' \subseteq Packet
  BY <1>1 DEF HandDataReply
<1> HIDE DEF d
<1> QED BY <1>2, <1>4, <1>5, <1>6, <1>8, <1>9, Turned DEF HandDataReply

(***************************************************************************)
(* A goroutine that starts to wait keeps the invariant.                    *)
(***************************************************************************)
LEMMA WaitStarted ==
  ASSUME IInv, NEW g \in Gossiper, NEW o \in Gossiper, goroutine[g][o] # None,
         StartWaiting(g, o)
  PROVE  IInv'
<1> DEFINE d == [goroutine[g][o] EXCEPT !.phase = "waiting"]
<1>1. /\ goroutine[g][o].phase = "starting"
      /\ goroutine' = [goroutine EXCEPT ![g][o] = d]
      /\ net' = net /\ net \subseteq Packet
  BY DEF IInv, TypeOK, StartWaiting
<1>2. goroutine[g][o] \in Goroutine /\ DownloaderOK(g, o)
  BY DEF IInv, TypeOK, Downloaders
<1>3. /\ d \in Goroutine /\ d.latest = goroutine[g][o].latest
      /\ d.phase = "waiting" /\ d.timeouts = goroutine[g][o].timeouts
  BY <1>2 DEF Goroutine
<1>4. d.timeouts = 0 <=> d.phase = "expired"
  BY <1>1, <1>2, <1>3 DEF DownloaderOK
<1> HIDE DEF d
<1> QED BY <1>1, <1>3, <1>4, Turned DEF StartWaiting

(***************************************************************************)
(* A time-out keeps the invariant: while the goroutine waits some time-out *)
(* is left, so that the count does not go below zero.                      *)
(***************************************************************************)
LEMMA TimedOut ==
  ASSUME IInv, NEW g \in Gossiper, NEW o \in Gossiper, goroutine[g][o] # None,
         Timeout(g, o)
  PROVE  IInv'
<1> DEFINE left == goroutine[g][o].timeouts - 1
           phase == IF left = 0 THEN "expired" ELSE "waiting"
           d == [goroutine[g][o] EXCEPT !.timeouts = left, !.phase = phase]
<1>1. goroutine[g][o] \in Goroutine /\ DownloaderOK(g, o) /\ net \subseteq Packet
  BY DEF IInv, TypeOK, Downloaders
<1>2. /\ goroutine[g][o].phase = "waiting"
      /\ Send(net, IF left = 0 THEN {} ELSE {Request(g, o, goroutine[g][o].latest)})
  BY DEF Timeout
<1>3. goroutine[g][o].latest \in Hash /\ goroutine[g][o].timeouts \in 0..TimeoutsLimit
  BY <1>1, GoroutineFields
<1>4. goroutine[g][o].timeouts # 0
  BY <1>1, <1>2 DEF DownloaderOK
<1>5. left \in 0..TimeoutsLimit
  BY <1>3, <1>4, LimitAssumption
<1>6. goroutine \in [Gossiper -> [Gossiper -> Goroutine \cup {None}]]
  BY DEF IInv, TypeOK
<1>7. goroutine' = [goroutine EXCEPT ![g][o] = d]
  BY <1>2, <1>6 DEF Timeout
<1>8. net' \subseteq Packet
  BY <1>1, <1>2, <1>3, Sent, PacketTypes
<1> HIDE DEF left
<1>9. phase \in {"expired", "waiting"}
  OBVIOUS
<1>10. /\ d \in Goroutine /\ d.latest = goroutine[g][o].latest
       /\ d.timeouts = left /\ d.phase = phase
  BY <1>1, <1>5, <1>9 DEF Goroutine
<1>11. d.timeouts = 0 <=> d.phase = "expired"
  BY <1>10
<1>12. UNCHANGED <<files, channels, wedged>>
  BY DEF Timeout
<1> HIDE DEF d
<1> QED BY <1>7, <1>8, <1>10, <1>11, <1>12, Turned

-----------------------------------------------------------------------------
\* A turn that changes the files

(***************************************************************************)
(* Sharing a file keeps the invariant.                                     *)
(***************************************************************************)
LEMMA FileShared ==
  ASSUME IInv, NEW g \in Gossiper, NEW n \in Name, NEW f \in File, ClientToShare(g, n, f)
  PROVE  IInv'
<1>1. shared[g] \in SharedFiles
  BY DEF IInv, TypeOK
<1>2. shared[g].name \in [File -> Name \cup {None}] /\ shared[g].dirs \in SUBSET Name
  BY <1>1 DEF SharedFiles
<1>3. [shared[g].name EXCEPT ![f] = n] \in [File -> Name \cup {None}]
  BY <1>2
<1>4. ShareFile(shared[g], n, f) \in SharedFiles
  BY <1>1, <1>2, <1>3 DEF ShareFile, SharedFiles
<1>5. TypeOK'
  BY <1>4 DEF IInv, TypeOK, ClientToShare
<1>6. MapsAgree' /\ Downloaders'
  BY DEF IInv, MapsAgree, Downloaders, DownloaderOK, ClientToShare
<1>7. Kept'
  BY DEF IInv, Kept, UnfinishedKept, FinishedKept, ClientToShare
<1> QED BY <1>5, <1>6, <1>7 DEF IInv

(***************************************************************************)
(* A new download keeps the invariant: entry, channel and goroutine are    *)
(* made in one step, and the metafile is what is asked for.                *)
(***************************************************************************)
LEMMA DownloadAsked ==
  ASSUME IInv, NEW g \in Gossiper, NEW o \in Gossiper, NEW n \in Name, NEW f \in File,
         ClientToDownload(g, o, n, f)
  PROVE  IInv'
<1> DEFINE df == InitDownloadingFile(n, f)
           d == [phase |-> "starting", latest |-> f, timeouts |-> TimeoutsLimit, reply |-> None]
<1>1. /\ downloading' = [downloading EXCEPT ![g][o] = df]
      /\ goroutine' = [goroutine EXCEPT ![g][o] = d]
      /\ channels' = [channels EXCEPT ![g] = @ \cup {o}]
      /\ Send(net, {Request(g, o, f)})
      /\ UNCHANGED <<shared, downloaded, dirs, disk, written, wedged>>
  BY DEF ClientToDownload
<1>2. /\ df \in DownloadingFile /\ df # None /\ df.name = n /\ df.metaHash = f
      /\ df.hasMetafile = FALSE /\ df.chunksToDownload = {}
  <2>1. df \in DownloadingFile
    BY DEF InitDownloadingFile, DownloadingFile
  <2> QED BY <2>1, NoFileAssumption DEF InitDownloadingFile
<1>3. f \in Hash
  BY DEF Hash
<1>4. /\ d \in Goroutine /\ d # None /\ d.latest = f
      /\ d.timeouts # 0 /\ d.phase # "expired"
  <2>1. d \in Goroutine
    BY <1>3, LimitAssumption DEF Goroutine
  <2> QED BY <2>1, LimitAssumption, NoGoroutineAssumption
<1>5. net' \subseteq Packet
  BY <1>1, <1>3, Sent, PacketTypes DEF IInv, TypeOK
<1> HIDE DEF df, d
<1>6. /\ downloading \in [Gossiper -> [Gossiper -> DownloadingFile \cup {None}]]
      /\ goroutine \in [Gossiper -> [Gossiper -> Goroutine \cup {None}]]
      /\ channels \in [Gossiper -> SUBSET Gossiper]
  BY DEF IInv, TypeOK
<1>7. /\ downloading' \in [Gossiper -> [Gossiper -> DownloadingFile \cup {None}]]
      /\ goroutine' \in [Gossiper -> [Gossiper -> Goroutine \cup {None}]]
      /\ channels' \in [Gossiper -> SUBSET Gossiper]
  BY <1>1, <1>2, <1>4, <1>6
<1>8. \A h, p \in Gossiper :
        /\ downloading'[h][p] = IF h = g /\ p = o THEN df ELSE downloading[h][p]
        /\ goroutine'[h][p] = IF h = g /\ p = o THEN d ELSE goroutine[h][p]
        /\ p \in channels'[h] <=> p \in channels[h] \/ (h = g /\ p = o)
  BY <1>1, <1>6
<1>9. TypeOK'
  BY <1>1, <1>5, <1>7 DEF IInv, TypeOK
<1>10. MapsAgree'
  BY <1>2, <1>4, <1>8 DEF IInv, MapsAgree
<1>11. Downloaders'
  <2> SUFFICES ASSUME NEW h \in Gossiper, NEW p \in Gossiper PROVE DownloaderOK(h, p)'
    BY DEF Downloaders
  <2>1. DownloaderOK(h, p)
    BY DEF IInv, Downloaders
  <2>2. CASE h = g /\ p = o
    BY <1>2, <1>4, <1>8, <2>2 DEF DownloaderOK
  <2>3. CASE ~(h = g /\ p = o)
    BY <1>8, <2>1, <2>3 DEF DownloaderOK
  <2> QED BY <2>2, <2>3
<1>12. Kept'
  BY <1>1, <1>2, <1>8 DEF IInv, Kept, UnfinishedKept, FinishedKept
<1> QED BY <1>9, <1>10, <1>11, <1>12 DEF IInv

(***************************************************************************)
(* Giving up keeps the invariant: entry, channel and goroutine go in one   *)
(* step.                                                                   *)
(***************************************************************************)
LEMMA GivenUp ==
  ASSUME IInv, NEW g \in Gossiper, NEW o \in Gossiper, GiveUp(g, o)
  PROVE  IInv'
<1>1. /\ downloading' = [downloading EXCEPT ![g][o] = None]
      /\ goroutine' = [goroutine EXCEPT ![g][o] = None]
      /\ channels' = [channels EXCEPT ![g] = @ \ {o}]
      /\ UNCHANGED <<shared, downloaded, dirs, disk, written, wedged, net>>
  BY DEF GiveUp
<1>2. /\ downloading \in [Gossiper -> [Gossiper -> DownloadingFile \cup {None}]]
      /\ goroutine \in [Gossiper -> [Gossiper -> Goroutine \cup {None}]]
      /\ channels \in [Gossiper -> SUBSET Gossiper]
  BY DEF IInv, TypeOK
<1>3. /\ downloading' \in [Gossiper -> [Gossiper -> DownloadingFile \cup {None}]]
      /\ goroutine' \in [Gossiper -> [Gossiper -> Goroutine \cup {None}]]
      /\ channels' \in [Gossiper -> SUBSET Gossiper]
  BY <1>1, <1>2
<1>4. \A h, p \in Gossiper :
        /\ downloading'[h][p] = IF h = g /\ p = o THEN None ELSE downloading[h][p]
        /\ goroutine'[h][p] = IF h = g /\ p = o THEN None ELSE goroutine[h][p]
        /\ p \in channels'[h] <=> p \in channels[h] /\ ~(h = g /\ p = o)
  BY <1>1, <1>2
<1>5. TypeOK'
  BY <1>1, <1>3 DEF IInv, TypeOK
<1>6. MapsAgree'
  BY <1>4 DEF IInv, MapsAgree
<1>7. Downloaders'
  BY <1>4 DEF IInv, Downloaders, DownloaderOK
<1>8. Kept'
  BY <1>1, <1>4 DEF IInv, Kept, UnfinishedKept, FinishedKept
<1> QED BY <1>5, <1>6, <1>7, <1>8 DEF IInv

(***************************************************************************)
(* A goroutine that goes on with the same download keeps the invariant, if *)
(* its next request is for something the entry wants and what the entry no *)
(* longer wants is on disk.                                                *)
(***************************************************************************)
LEMMA WentOn ==
  ASSUME IInv, NEW g \in Gossiper, NEW o \in Gossiper, goroutine[g][o] # None,
         NEW df \in DownloadingFile, NEW d \in Goroutine,
         downloading' = [downloading EXCEPT ![g][o] = df],
         goroutine' = [goroutine EXCEPT ![g][o] = d],
         d.timeouts = 0 <=> d.phase = "expired",
         ~df.hasMetafile => d.latest = df.metaHash /\ df.chunksToDownload = {},
         \/ d.latest \in df.chunksToDownload
         \/ d.latest = df.metaHash /\ df.chunksToDownload \in {{}, ChunkSet(df.metaHash)},
         df.hasMetafile =>
           \A c \in ChunkSet(df.metaHash) \ df.chunksToDownload : <<df.name, c>> \in disk'[g],
         dirs' \in [Gossiper -> SUBSET Name],
         disk' \in [Gossiper -> SUBSET (Name \X Chunk)],
         \A h \in Gossiper : disk[h] \subseteq disk'[h],
         UNCHANGED <<shared, downloaded, written, channels, wedged>>,
         net' \subseteq Packet
  PROVE  IInv'
<1>1. /\ downloading \in [Gossiper -> [Gossiper -> DownloadingFile \cup {None}]]
      /\ goroutine \in [Gossiper -> [Gossiper -> Goroutine \cup {None}]]
  BY DEF IInv, TypeOK
<1>2. /\ downloading' \in [Gossiper -> [Gossiper -> DownloadingFile \cup {None}]]
      /\ goroutine' \in [Gossiper -> [Gossiper -> Goroutine \cup {None}]]
      /\ \A h, p \in Gossiper :
           /\ downloading'[h][p] = IF h = g /\ p = o THEN df ELSE downloading[h][p]
           /\ goroutine'[h][p] = IF h = g /\ p = o THEN d ELSE goroutine[h][p]
  BY <1>1
<1>3. df # None /\ d # None
  BY DownloadFields, GoroutineFields
<1>4. TypeOK'
  BY <1>2 DEF IInv, TypeOK
<1>5. MapsAgree'
  BY <1>2, <1>3 DEF IInv, MapsAgree
<1>6. Downloaders'
  <2> SUFFICES ASSUME NEW h \in Gossiper, NEW p \in Gossiper PROVE DownloaderOK(h, p)'
    BY DEF Downloaders
  <2>1. DownloaderOK(h, p)
    BY DEF IInv, Downloaders
  <2>2. CASE h = g /\ p = o
    <3>1. downloading'[h][p] = df /\ goroutine'[h][p] = d
      BY <1>2, <2>2
    <3> QED BY <3>1 DEF DownloaderOK
  <2>3. CASE ~(h = g /\ p = o)
    BY <1>2, <2>1, <2>3 DEF DownloaderOK
  <2> QED BY <2>2, <2>3
<1>7. Kept'
  <2>1. ASSUME NEW h \in Gossiper, NEW p \in Gossiper PROVE UnfinishedKept(h, p)'
    <3>1. UnfinishedKept(h, p)
      BY DEF IInv, Kept
    <3>2. CASE h = g /\ p = o
      BY <1>2, <3>2 DEF UnfinishedKept
    <3>3. CASE ~(h = g /\ p = o)
      BY <1>2, <3>1, <3>3 DEF UnfinishedKept
    <3> QED BY <3>2, <3>3
  <2>2. ASSUME NEW h \in Gossiper, NEW f \in File PROVE FinishedKept(h, f)'
    BY DEF IInv, Kept, FinishedKept
  <2> QED BY <2>1, <2>2 DEF Kept
<1> QED BY <1>4, <1>5, <1>6, <1>7 DEF IInv

(***************************************************************************)
(* A finished download keeps the invariant: with all of its chunks on disk *)
(* finishDownloading writes the file.                                      *)
(***************************************************************************)
LEMMA Finished ==
  ASSUME IInv, NEW g \in Gossiper, NEW o \in Gossiper,
         NEW df \in DownloadingFile, Finish(g, o, df),
         \A c \in ChunkSet(df.metaHash) : <<df.name, c>> \in disk'[g],
         dirs' \in [Gossiper -> SUBSET Name],
         disk' \in [Gossiper -> SUBSET (Name \X Chunk)],
         \A h \in Gossiper : disk[h] \subseteq disk'[h],
         UNCHANGED <<shared, wedged>>
  PROVE  IInv'
<1>1. /\ downloading' = [downloading EXCEPT ![g][o] = None]
      /\ goroutine' = [goroutine EXCEPT ![g][o] = None]
      /\ channels' = [channels EXCEPT ![g] = @ \ {o}]
      /\ downloaded' = [downloaded EXCEPT ![g][df.metaHash] = df.name]
      /\ written' = [written EXCEPT ![g][df.name] = df.metaHash]
      /\ net' = net
  BY DEF Finish
<1>2. /\ downloading \in [Gossiper -> [Gossiper -> DownloadingFile \cup {None}]]
      /\ goroutine \in [Gossiper -> [Gossiper -> Goroutine \cup {None}]]
      /\ channels \in [Gossiper -> SUBSET Gossiper]
      /\ downloaded \in [Gossiper -> [File -> Name \cup {None}]]
      /\ written \in [Gossiper -> [Name -> File \cup {None}]]
  BY DEF IInv, TypeOK
<1>3. df.name \in Name /\ df.metaHash \in File /\ df.metaHash # None
  BY DownloadFields, NoneAssumption
<1>4. /\ downloading' \in [Gossiper -> [Gossiper -> DownloadingFile \cup {None}]]
      /\ goroutine' \in [Gossiper -> [Gossiper -> Goroutine \cup {None}]]
      /\ channels' \in [Gossiper -> SUBSET Gossiper]
  BY <1>1, <1>2
<1>5. /\ downloaded' \in [Gossiper -> [File -> Name \cup {None}]]
      /\ written' \in [Gossiper -> [Name -> File \cup {None}]]
  BY <1>1, <1>2, <1>3
<1>6. \A h, p \in Gossiper :
        /\ downloading'[h][p] = IF h = g /\ p = o THEN None ELSE downloading[h][p]
        /\ goroutine'[h][p] = IF h = g /\ p = o THEN None ELSE goroutine[h][p]
        /\ p \in channels'[h] <=> p \in channels[h] /\ ~(h = g /\ p = o)
  BY <1>1, <1>2
<1>7. /\ \A h \in Gossiper : \A f \in File :
           downloaded'[h][f] = IF h = g /\ f = df.metaHash THEN df.name ELSE downloaded[h][f]
      /\ \A h \in Gossiper : \A n \in Name :
           written'[h][n] = IF h = g /\ n = df.name THEN df.metaHash ELSE written[h][n]
  BY <1>1, <1>2, <1>3
<1>8. TypeOK'
  BY <1>1, <1>4, <1>5 DEF IInv, TypeOK
<1>9. MapsAgree'
  BY <1>6 DEF IInv, MapsAgree
<1>10. Downloaders'
  BY <1>6 DEF IInv, Downloaders, DownloaderOK
<1>11. Kept'
  <2>1. ASSUME NEW h \in Gossiper, NEW p \in Gossiper PROVE UnfinishedKept(h, p)'
    BY <1>6 DEF IInv, Kept, UnfinishedKept
  <2>2. ASSUME NEW h \in Gossiper, NEW f \in File PROVE FinishedKept(h, f)'
    <3>1. FinishedKept(h, f) /\ downloaded[h][f] \in Name \cup {None}
      BY <1>2 DEF IInv, Kept
    <3>2. CASE h = g /\ f = df.metaHash
      BY <1>3, <1>7, <3>2 DEF FinishedKept
    <3>3. CASE ~(h = g /\ f = df.metaHash)
      BY <1>3, <1>7, <3>1, <3>3 DEF FinishedKept
    <3> QED BY <3>2, <3>3
  <2> QED BY <2>1, <2>2 DEF Kept
<1> QED BY <1>8, <1>9, <1>10, <1>11 DEF IInv

(***************************************************************************)
(* A reply taken keeps the invariant, whatever it is: late, repeated, or   *)
(* refused because the directory is there.                                 *)
(***************************************************************************)
LEMMA ReplyTaken ==
  ASSUME IInv, NEW g \in Gossiper, NEW o \in Gossiper, goroutine[g][o] # None,
         TakeReply(g, o)
  PROVE  IInv'
<1> DEFINE df == downloading[g][o]
           old == goroutine[g][o]
<1>1. PICK r : r = ProcessDataReply(df, old.reply, dirs[g])
  OBVIOUS
<1>2. /\ old.phase = "got"
      /\ dirs' = [dirs EXCEPT ![g] = r.dirs]
      /\ disk' = [disk EXCEPT ![g] = @ \cup r.saved]
      /\ \/ r.result = "finished" /\ Finish(g, o, r.df)
         \/ /\ r.result # "finished"
            /\ downloading' = [downloading EXCEPT ![g][o] = r.df]
            /\ \/ r.result = "more" /\ AskForNext(g, o, r.df)
               \/ r.result = "error" /\ AskAgain(g, o)
            /\ UNCHANGED <<downloaded, written, channels>>
      /\ UNCHANGED <<shared, wedged>>
  BY <1>1 DEF TakeReply
<1>3. /\ df \in DownloadingFile /\ old \in Goroutine /\ df # None
      /\ dirs \in [Gossiper -> SUBSET Name]
      /\ disk \in [Gossiper -> SUBSET (Name \X Chunk)]
      /\ goroutine \in [Gossiper -> [Gossiper -> Goroutine \cup {None}]]
      /\ net \subseteq Packet
      /\ UnfinishedKept(g, o)
  BY Held, DownloadFields DEF IInv, TypeOK, Kept
<1>4. /\ old.timeouts # 0
      /\ ~df.hasMetafile => old.latest = df.metaHash /\ df.chunksToDownload = {}
      /\ \/ old.latest \in df.chunksToDownload
         \/ old.latest = df.metaHash /\ df.chunksToDownload \in {{}, ChunkSet(df.metaHash)}
  BY <1>2 DEF IInv, Downloaders, DownloaderOK
<1>5. /\ old.latest \in Hash /\ old.timeouts \in 0..TimeoutsLimit
  BY <1>3, GoroutineFields
<1>6. \A c \in ChunkSet(df.metaHash) \ df.chunksToDownload :
         df.hasMetafile => <<df.name, c>> \in disk[g]
  BY <1>3 DEF UnfinishedKept
<1> HIDE DEF df, old
<1>7. /\ r.df \in DownloadingFile
      /\ r.df.name = df.name /\ r.df.metaHash = df.metaHash
      /\ r.result \in Reply /\ r.dirs \in SUBSET Name
      /\ r.saved \subseteq {df.name} \X Chunk
      /\ \/ r.df = df /\ r.result # "finished"
         \/ /\ ~df.hasMetafile /\ r.df.hasMetafile /\ r.result # "finished"
            /\ r.df.chunksToDownload = ChunkSet(df.metaHash)
         \/ /\ df.hasMetafile /\ r.df.hasMetafile
            /\ old.reply \in df.chunksToDownload
            /\ r.df.chunksToDownload = df.chunksToDownload \ {old.reply}
            /\ r.saved = {<<df.name, old.reply>>}
            /\ r.result = IF r.df.chunksToDownload = {} THEN "finished" ELSE "more"
      /\ r.result = "more" => r.df.hasMetafile
  <2>1. dirs[g] \in SUBSET Name
    BY <1>3
  <2> QED BY <1>1, <1>3, <2>1, Replied
<1>8. df.name \in Name /\ r.df.chunksToDownload \in SUBSET Chunk
  BY <1>3, <1>7, DownloadFields
<1>9. /\ dirs' \in [Gossiper -> SUBSET Name]
      /\ disk' \in [Gossiper -> SUBSET (Name \X Chunk)]
      /\ \A h \in Gossiper : disk[h] \subseteq disk'[h]
      /\ disk'[g] = disk[g] \cup r.saved
  <2>1. r.saved \subseteq Name \X Chunk
    BY <1>7, <1>8
  <2> QED BY <1>2, <1>3, <1>7, <2>1
<1>10. r.df.hasMetafile =>
         \A c \in ChunkSet(r.df.metaHash) \ r.df.chunksToDownload : <<r.df.name, c>> \in disk'[g]
  BY <1>6, <1>7, <1>9
<1>11. CASE r.result = "finished"
  <2>1. r.df.hasMetafile /\ r.df.chunksToDownload = {}
    BY <1>7, <1>11
  <2>2. Finish(g, o, r.df)
    BY <1>2, <1>11
  <2> QED BY <1>2, <1>7, <1>9, <1>10, <2>1, <2>2, Finished
<1>12. CASE r.result = "more"
  <2>1. /\ downloading' = [downloading EXCEPT ![g][o] = r.df]
        /\ AskForNext(g, o, r.df)
        /\ UNCHANGED <<shared, downloaded, written, channels, wedged>>
    BY <1>2, <1>12
  <2> DEFINE again(h) == [phase |-> "waiting", latest |-> h,
                          timeouts |-> TimeoutsLimit, reply |-> None]
  <2>2. \A h \in Hash : /\ again(h) \in Goroutine /\ again(h).latest = h
                        /\ again(h).timeouts # 0 /\ again(h).phase # "expired"
    BY LimitAssumption DEF Goroutine
  <2>3. PICK h \in Hash :
          /\ goroutine' = [goroutine EXCEPT ![g][o] = again(h)]
          /\ net' \subseteq Packet
          /\ \/ h \in r.df.chunksToDownload
             \/ h = old.latest /\ r.df.chunksToDownload = {}
    <3>1. CASE GetDataRequests(r.df) = {}
      <4>1. r.df.chunksToDownload = {}
        BY <3>1 DEF GetDataRequests
      <4>2. goroutine' = [goroutine EXCEPT ![g][o] = again(old.latest)] /\ net' = net
        BY <2>1, <3>1 DEF AskForNext, old
      <4> QED BY <1>3, <1>5, <4>1, <4>2
    <3>2. CASE GetDataRequests(r.df) # {}
      <4>1. PICK h \in r.df.chunksToDownload :
              /\ goroutine' = [goroutine EXCEPT ![g][o] = again(h)]
              /\ Send(net, {Request(g, o, h)})
        BY <2>1, <3>2 DEF AskForNext, GetDataRequests
      <4>2. h \in Hash
        BY <1>8 DEF Hash
      <4>3. net' \subseteq Packet
        BY <1>3, <4>1, <4>2, Sent, PacketTypes
      <4> QED BY <4>1, <4>2, <4>3
    <3> QED BY <3>1, <3>2
  <2> DEFINE d == again(h)
  <2>4. /\ d \in Goroutine /\ d.latest = h
        /\ d.timeouts # 0 /\ d.phase # "expired"
    BY <2>2
  <2> HIDE DEF d, again
  <2>5. \/ d.latest \in r.df.chunksToDownload
        \/ /\ d.latest = r.df.metaHash
           /\ r.df.chunksToDownload \in {{}, ChunkSet(r.df.metaHash)}
    <3>1. CASE h \in r.df.chunksToDownload
      BY <2>4, <3>1
    <3>2. CASE h = old.latest /\ r.df.chunksToDownload = {}
      <4>1. h = r.df.metaHash
        <5>1. CASE r.df = df
          BY <1>4, <1>7, <3>2, <5>1
        <5>2. CASE ~df.hasMetafile
          BY <1>4, <1>7, <3>2, <5>2
        <5>3. CASE r.df # df /\ df.hasMetafile
          <6>1. r.result = IF r.df.chunksToDownload = {} THEN "finished" ELSE "more"
            BY <1>7, <5>3, Zenon
          <6> QED BY <1>12, <3>2, <6>1
        <5> QED BY <5>1, <5>2, <5>3
      <4> QED BY <2>4, <3>2, <4>1
    <3> QED BY <2>3, <3>1, <3>2
  <2>6. goroutine' = [goroutine EXCEPT ![g][o] = d]
    BY <2>3 DEF d
  <2>7. /\ d.timeouts = 0 <=> d.phase = "expired"
        /\ ~r.df.hasMetafile => /\ d.latest = r.df.metaHash
                                /\ r.df.chunksToDownload = {}
        /\ net' \subseteq Packet /\ r.df \in DownloadingFile
    BY <1>7, <1>12, <2>3, <2>4
  <2>8. d \in Goroutine
    BY <2>4
  <2> QED BY <1>9, <1>10, <2>1, <2>5, <2>6, <2>7, <2>8, WentOn
<1>13. CASE r.result = "error"
  <2>1. /\ downloading' = [downloading EXCEPT ![g][o] = r.df]
        /\ AskAgain(g, o)
        /\ UNCHANGED <<shared, downloaded, written, channels, wedged>>
    BY <1>2, <1>13
  <2> DEFINE d == [old EXCEPT !.phase = "waiting", !.reply = None]
  <2>2. goroutine' = [goroutine EXCEPT ![g][o] = d] /\ Send(net, {Request(g, o, old.latest)})
    BY <1>3, <2>1 DEF AskAgain, old
  <2>3. net' \subseteq Packet
    BY <1>3, <1>5, <2>2, Sent, PacketTypes
  <2>4. /\ d \in Goroutine /\ d.latest = old.latest
        /\ d.timeouts = old.timeouts /\ d.phase = "waiting"
    BY <1>3 DEF Goroutine
  <2> HIDE DEF d
  <2>5. /\ ~r.df.hasMetafile => d.latest = r.df.metaHash /\ r.df.chunksToDownload = {}
        /\ \/ d.latest \in r.df.chunksToDownload
           \/ /\ d.latest = r.df.metaHash
              /\ r.df.chunksToDownload \in {{}, ChunkSet(r.df.metaHash)}
    BY <1>4, <1>7, <1>13, <2>4
  <2> QED BY <1>4, <1>7, <1>9, <1>10, <2>1, <2>2, <2>3, <2>4, <2>5, WentOn
<1> QED BY <1>7, <1>11, <1>12, <1>13 DEF Reply

-----------------------------------------------------------------------------
\* The theorems

(***************************************************************************)
(* Every gossiper starts with no files and no goroutines.                  *)
(***************************************************************************)
LEMMA InitOK == Init => IInv
<1> SUFFICES ASSUME Init PROVE IInv
  OBVIOUS
<1>1. InitSharedFiles \in SharedFiles
  BY DEF InitSharedFiles, SharedFiles
<1>2. TypeOK
  BY <1>1 DEF Init, TypeOK
<1>3. MapsAgree /\ Downloaders /\ Kept
  BY DEF Init, MapsAgree, Downloaders, DownloaderOK, Kept, UnfinishedKept, FinishedKept
<1> QED BY <1>2, <1>3 DEF IInv

(***************************************************************************)
(* Every step of Next keeps the invariant.                                 *)
(***************************************************************************)
LEMMA StepOK == IInv /\ [Next]_vars => IInv'
<1> SUFFICES ASSUME IInv, [Next]_vars PROVE IInv'
  OBVIOUS
<1>1. CASE UNCHANGED vars
  BY <1>1, SameGoroutines DEF vars, files, IInv, TypeOK
<1>2. CASE \E s \in Sharable : ClientToShare(s[1], s[2], s[3])
  BY <1>2, SharableAssumption, FileShared
<1>3. CASE \E w \in Wanted : ClientToDownload(w[1], w[2], w[3], w[4])
  BY <1>3, WantedAssumption, DownloadAsked
<1>4. CASE \E g \in Gossiper : \E m \in net : ReceiveDataRequest(g, m)
  BY <1>4, Answered
<1>5. CASE \E g \in Gossiper : \E m \in net : DropDataReply(g, m)
  BY <1>5, ReplyDropped
<1>6. CASE \E g \in Gossiper : \E m \in net : HandDataReply(g, m)
  BY <1>6, ReplyHanded
<1>7. CASE \E g \in Gossiper : \E m \in net : BlockOnDataReply(g, m)
  BY <1>7, ProcessorBlocked
<1>8. CASE \E g, o \in Gossiper : Downloader(g, o)
  <2> SUFFICES ASSUME NEW g \in Gossiper, NEW o \in Gossiper, Downloader(g, o) PROVE IInv'
    BY <1>8
  <2>1. /\ goroutine[g][o] # None
        /\ StartWaiting(g, o) \/ Timeout(g, o) \/ GiveUp(g, o) \/ TakeReply(g, o)
    BY DEF Downloader
  <2> QED BY <2>1, WaitStarted, TimedOut, GivenUp, ReplyTaken
<1> QED BY <1>1, <1>2, <1>3, <1>4, <1>5, <1>6, <1>7, <1>8 DEF Next

(***************************************************************************)
(* The invariant holds in every state of every behaviour.                  *)
(***************************************************************************)
LEMMA Invariance == Spec => []IInv
BY InitOK, StepOK, PTL DEF Spec

(***************************************************************************)
(* What is kept of finished and unfinished downloads is all that           *)
(* getChunkOrMetafile looks for on disk: a metafile is no chunk.           *)
(***************************************************************************)
LEMMA KeptIsOnDisk == IInv => HeldChunksAreOnDisk
<1> SUFFICES ASSUME IInv, NEW g \in Gossiper, NEW df \in DownloadsOf(g), NEW c \in Chunk,
                    FileHasDownloadedChunk(df, c)
             PROVE  <<df.name, c>> \in disk[g]
  BY DEF HeldChunksAreOnDisk
<1>1. CASE \E o \in Gossiper : downloading[g][o] # None /\ df = downloading[g][o]
  <2>1. PICK o \in Gossiper : downloading[g][o] # None /\ df = downloading[g][o]
    BY <1>1
  <2>2. df.metaHash \in File /\ UnfinishedKept(g, o)
    BY <2>1, DownloadFields DEF IInv, TypeOK, Kept
  <2>3. df.hasMetafile /\ c \in ChunkSet(df.metaHash) \ df.chunksToDownload
    BY <2>2, HashAssumption DEF FileHasDownloadedChunk
  <2> QED BY <2>1, <2>2, <2>3 DEF UnfinishedKept
<1>2. CASE \E f \in File : /\ downloaded[g][f] # None
                           /\ df = [name |-> downloaded[g][f], metaHash |-> f,
                                    hasMetafile |-> TRUE, chunksToDownload |-> {}]
  <2>1. PICK f \in File : /\ downloaded[g][f] # None
                          /\ df.name = downloaded[g][f] /\ df.metaHash = f
    BY <1>2
  <2>2. c \in ChunkSet(f)
    BY <2>1, HashAssumption DEF FileHasDownloadedChunk
  <2>3. FinishedKept(g, f)
    BY DEF IInv, Kept
  <2> QED BY <2>1, <2>2, <2>3 DEF FinishedKept
<1> QED BY <1>1, <1>2 DEF DownloadsOf

(***************************************************************************)
(* Every variable keeps its type: in particular no goroutine's count of    *)
(* time-outs falls below zero, and no entry lists a chunk that is none.    *)
(***************************************************************************)
THEOREM TypeCorrect == Spec => []TypeOK
<1>1. IInv => TypeOK
  BY DEF IInv
<1> QED BY <1>1, Invariance, PTL

(***************************************************************************)
(* Channel map, manager's map and goroutines agree at every moment:        *)
(* neither "whaaat, map is not clean!" nor "some terrible race condition   *)
(* occured" is ever logged.                                                *)
(***************************************************************************)
THEOREM MapsStayClean == Spec => []MapsAgree
<1>1. IInv => MapsAgree
  BY DEF IInv
<1> QED BY <1>1, Invariance, PTL

(***************************************************************************)
(* A chunk offered from a download, finished or not, is on disk under that *)
(* download's name (fileHasDownloadedChunk, getChunkOrMetafile).           *)
(***************************************************************************)
THEOREM OfferedIsOnDisk == Spec => []HeldChunksAreOnDisk
BY KeptIsOnDisk, Invariance, PTL

(***************************************************************************)
(* A file counted as downloaded has been put together under its name       *)
(* (finishDownloading never finds a chunk missing).                        *)
(***************************************************************************)
THEOREM CountedIsWritten == Spec => []DownloadedIsWritten
<1>1. IInv => DownloadedIsWritten
  BY DEF IInv, Kept, FinishedKept, DownloadedIsWritten
<1> QED BY <1>1, Invariance, PTL

(***************************************************************************)
(* What a time-out asks for again is still missing, or the metafile        *)
(* (latestRequestedHash), also while a reply waits to be taken.            *)
(***************************************************************************)
THEOREM RepeatsAreUseful == Spec => []ResendIsUseful
<1>1. IInv => ResendIsUseful
  BY DEF IInv, Downloaders, DownloaderOK, ResendIsUseful
<1> QED BY <1>1, Invariance, PTL
===============================================================================
