----------------------------- MODULE FileDownload -----------------------------
(***************************************************************************)
(* Gossipers that share files and download them from each other            *)
(* (gossiper/Gossiper.go): the message processor's handlers of data        *)
(* requests and replies and of the client's requests to share and to       *)
(* download, and the file-downloading goroutine, one for each origin       *)
(* that a gossiper downloads from, with its time-outs and repeated         *)
(* requests.                                                               *)
(*                                                                         *)
(* An action is one turn of the goroutine it names, up to its next         *)
(* blocking point.  A packet travels over next hops, and may get lost,     *)
(* late or overtaken on the way; `net' is the set of those in flight.      *)
(* Requests are repeated, so that replies come twice; UDP itself doubles   *)
(* packets in Messaging alone.                                             *)
(***************************************************************************)
EXTENDS FileSharing, FiniteSets

CONSTANTS Gossiper,
          Sharable,       \* <<g, n, f>>: g has file f on its disk under name n
          Wanted,         \* <<g, o, n, f>>: g's client may ask for f, from o, as n
          TimeoutsLimit,  \* FileDownloadTimeoutsLimit
          MaxInFlight     \* bound: packets in flight, further ones are lost

ASSUME SharableAssumption == Sharable \subseteq Gossiper \X Name \X File
ASSUME WantedAssumption ==
  Wanted \subseteq {w \in Gossiper \X Gossiper \X Name \X File : w[1] # w[2]}
ASSUME LimitAssumption == TimeoutsLimit \in Nat \ {0} /\ MaxInFlight \in Nat

VARIABLES shared,       \* Gossiper.sharedFilesManager
          downloading,  \* downloadingFiles: origin -> downloadingFile
          downloaded,   \* downloadedFiles: metahash -> the name it was given
          dirs,         \* the directories under _Downloads/chunks
          disk,         \* the chunk files in them
          written,      \* _Downloads: name -> the file put together there
          channels,     \* the keys of downloadingFilesChannels
          goroutine,    \* origin -> its file-downloading goroutine
          wedged,       \* message-processor blocked forever in `ch <- drpmsg'
          net           \* packets in flight

files == <<shared, downloading, downloaded, dirs, disk, written>>
vars == <<shared, downloading, downloaded, dirs, disk, written,
          channels, goroutine, wedged, net>>

\* starting: the lock at the head of the goroutine not yet taken.  waiting:
\* blocked in select.  expired: the last time-out has come, got: a reply was
\* received, and in both the lock is not yet taken.
Goroutine == [phase : {"starting", "waiting", "expired", "got"},
              latest : Hash,                \* latestRequestedHash
              timeouts : 0..TimeoutsLimit,  \* timeoutsLimit
              reply : Hash \cup {None}]

ASSUME NoGoroutineAssumption == None \notin Goroutine

Packet == [kind : {"request", "reply"}, src : Gossiper, dst : Gossiper, hash : Hash]

TypeOK ==
  /\ shared \in [Gossiper -> SharedFiles]
  /\ downloading \in [Gossiper -> [Gossiper -> DownloadingFile \cup {None}]]
  /\ downloaded \in [Gossiper -> [File -> Name \cup {None}]]
  /\ dirs \in [Gossiper -> SUBSET Name]
  /\ disk \in [Gossiper -> SUBSET (Name \X Chunk)]
  /\ written \in [Gossiper -> [Name -> File \cup {None}]]
  /\ channels \in [Gossiper -> SUBSET Gossiper]
  /\ goroutine \in [Gossiper -> [Gossiper -> Goroutine \cup {None}]]
  /\ wedged \in [Gossiper -> BOOLEAN]
  /\ net \subseteq Packet

Init ==
  /\ shared = [g \in Gossiper |-> InitSharedFiles]
  /\ downloading = [g \in Gossiper |-> [o \in Gossiper |-> None]]
  /\ downloaded = [g \in Gossiper |-> [f \in File |-> None]]
  /\ dirs = [g \in Gossiper |-> {}]
  /\ disk = [g \in Gossiper |-> {}]
  /\ written = [g \in Gossiper |-> [n \in Name |-> None]]
  /\ channels = [g \in Gossiper |-> {}]
  /\ goroutine = [g \in Gossiper |-> [o \in Gossiper |-> None]]
  /\ wedged = [g \in Gossiper |-> FALSE]
  /\ net = {}

-----------------------------------------------------------------------------
Request(g, o, h) == [kind |-> "request", src |-> g, dst |-> o, hash |-> h]
DataReply(g, o, h) == [kind |-> "reply", src |-> g, dst |-> o, hash |-> h]

Send(rest, ps) ==
  \E kept \in SUBSET ps :
    /\ Cardinality(rest \cup kept) <= MaxInFlight
    /\ net' = rest \cup kept

-----------------------------------------------------------------------------
\* message-processor

ClientToShare(g, n, f) ==
  /\ ~wedged[g]
  /\ shared' = [shared EXCEPT ![g] = ShareFile(shared[g], n, f)]
  /\ UNCHANGED <<downloading, downloaded, dirs, disk, written, channels,
                 goroutine, wedged, net>>

\* One download at a time from an origin
ClientToDownload(g, o, n, f) ==
  /\ ~wedged[g]
  /\ downloading[g][o] = None
  /\ downloading' = [downloading EXCEPT ![g][o] = InitDownloadingFile(n, f)]
  /\ channels' = [channels EXCEPT ![g] = @ \cup {o}]
  /\ goroutine' = [goroutine EXCEPT ![g][o] =
                     [phase |-> "starting", latest |-> f,
                      timeouts |-> TimeoutsLimit, reply |-> None]]
  /\ Send(net, {Request(g, o, f)})
  /\ UNCHANGED <<shared, downloaded, dirs, disk, written, wedged>>

\* The files of DownloadingFilesManager.GetChunkOrMetafile: those downloaded
\* are no longer waiting for anything.
DownloadsOf(g) ==
  {downloading[g][o] : o \in {p \in Gossiper : downloading[g][p] # None}}
  \cup {[name |-> downloaded[g][f], metaHash |-> f, hasMetafile |-> TRUE,
         chunksToDownload |-> {}] : f \in {e \in File : downloaded[g][e] # None}}

HasData(g, h) ==
  \/ h \in SharedHashes(shared[g])
  \/ \E df \in DownloadsOf(g) : FileHasDownloadedChunk(df, h)

ReceiveDataRequest(g, m) ==
  /\ ~wedged[g]
  /\ m.kind = "request" /\ m.dst = g
  /\ Send(net \ {m}, IF HasData(g, m.hash) THEN {DataReply(g, m.src, m.hash)} ELSE {})
  /\ UNCHANGED <<files, channels, goroutine, wedged>>

\* A reply from an origin that nothing is downloaded from
DropDataReply(g, m) ==
  /\ ~wedged[g]
  /\ m.kind = "reply" /\ m.dst = g
  /\ m.src \notin channels[g]
  /\ net' = net \ {m}
  /\ UNCHANGED <<files, channels, goroutine, wedged>>

HandDataReply(g, m) ==
  /\ ~wedged[g]
  /\ m.kind = "reply" /\ m.dst = g
  /\ m.src \in channels[g] /\ goroutine[g][m.src].phase = "waiting"
  /\ goroutine' = [goroutine EXCEPT ![g][m.src].phase = "got",
                                    ![g][m.src].reply = m.hash]
  /\ net' = net \ {m}
  /\ UNCHANGED <<files, channels, wedged>>

\* The goroutine is about to take the lock that the processor holds while it
\* waits for the goroutine to read the channel.
BlockOnDataReply(g, m) ==
  /\ ~wedged[g]
  /\ m.kind = "reply" /\ m.dst = g
  /\ m.src \in channels[g] /\ goroutine[g][m.src].phase # "waiting"
  /\ wedged' = [wedged EXCEPT ![g] = TRUE]
  /\ net' = net \ {m}
  /\ UNCHANGED <<files, channels, goroutine>>

-----------------------------------------------------------------------------
\* file-downloading goroutine of g for origin o

StartWaiting(g, o) ==
  /\ ~wedged[g]
  /\ goroutine[g][o].phase = "starting"
  /\ goroutine' = [goroutine EXCEPT ![g][o].phase = "waiting"]
  /\ UNCHANGED <<files, channels, wedged, net>>

\* Mutated: the count is compared before the last time-out is counted.
TimeoutBelowZero(g, o) ==
  /\ goroutine[g][o].phase = "waiting"
  /\ LET left == goroutine[g][o].timeouts - 1
     IN  /\ goroutine' = [goroutine EXCEPT ![g][o].timeouts = left,
                                           ![g][o].phase = IF left < 0 THEN "expired" ELSE @]
         /\ Send(net, IF left < 0 THEN {} ELSE {Request(g, o, goroutine[g][o].latest)})
  /\ UNCHANGED <<files, channels, wedged>>

Timeout(g, o) ==
  /\ goroutine[g][o].phase = "waiting"
  /\ LET left == goroutine[g][o].timeouts - 1
     IN  /\ goroutine' = [goroutine EXCEPT ![g][o].timeouts = left,
                                           ![g][o].phase = IF left = 0 THEN "expired" ELSE @]
         /\ Send(net, IF left = 0 THEN {} ELSE {Request(g, o, goroutine[g][o].latest)})
  /\ UNCHANGED <<files, channels, wedged>>

\* Mutated: the channel stays in the map.
GiveUpKeepingChannel(g, o) ==
  /\ ~wedged[g]
  /\ goroutine[g][o].phase = "expired"
  /\ goroutine' = [goroutine EXCEPT ![g][o] = None]
  /\ downloading' = [downloading EXCEPT ![g][o] = None]
  /\ UNCHANGED <<shared, downloaded, dirs, disk, written, channels, wedged, net>>

GiveUp(g, o) ==
  /\ ~wedged[g]
  /\ goroutine[g][o].phase = "expired"
  /\ goroutine' = [goroutine EXCEPT ![g][o] = None]
  /\ channels' = [channels EXCEPT ![g] = @ \ {o}]
  /\ downloading' = [downloading EXCEPT ![g][o] = None]
  /\ UNCHANGED <<shared, downloaded, dirs, disk, written, wedged, net>>

\* finishDownloading puts the file together from the chunk files of its
\* directory, and leaves it when one is missing.
Finish(g, o, df) ==
  /\ downloading' = [downloading EXCEPT ![g][o] = None]
  /\ downloaded' = [downloaded EXCEPT ![g][df.metaHash] = df.name]
  /\ written' = IF \A c \in ChunkSet(df.metaHash) : <<df.name, c>> \in disk'[g]
                THEN [written EXCEPT ![g][df.name] = df.metaHash]
                ELSE written
  /\ channels' = [channels EXCEPT ![g] = @ \ {o}]
  /\ goroutine' = [goroutine EXCEPT ![g][o] = None]
  /\ UNCHANGED net

\* Mutated: the next request is not noted as the latest.
AskForNextUnnoted(g, o, df) ==
  /\ goroutine' = [goroutine EXCEPT ![g][o].phase = "waiting",
                                    ![g][o].timeouts = TimeoutsLimit,
                                    ![g][o].reply = None]
  /\ \/ GetDataRequests(df) = {} /\ UNCHANGED net
     \/ \E h \in GetDataRequests(df) : Send(net, {Request(g, o, h)})

\* After a reply that is no error the goroutine asks for any missing chunk.
AskForNext(g, o, df) ==
  LET again(h) == [phase |-> "waiting", latest |-> h,
                   timeouts |-> TimeoutsLimit, reply |-> None]
  IN  IF GetDataRequests(df) = {}
      THEN /\ goroutine' = [goroutine EXCEPT ![g][o] = again(@.latest)]
           /\ UNCHANGED net
      ELSE \E h \in GetDataRequests(df) :
             /\ goroutine' = [goroutine EXCEPT ![g][o] = again(h)]
             /\ Send(net, {Request(g, o, h)})

AskAgain(g, o) ==
  /\ goroutine' = [goroutine EXCEPT ![g][o].phase = "waiting", ![g][o].reply = None]
  /\ Send(net, {Request(g, o, goroutine[g][o].latest)})

TakeReply(g, o) ==
  /\ ~wedged[g]
  /\ goroutine[g][o].phase = "got"
  /\ LET r == ProcessDataReply(downloading[g][o], goroutine[g][o].reply, dirs[g])
     IN  /\ dirs' = [dirs EXCEPT ![g] = r.dirs]
         /\ disk' = [disk EXCEPT ![g] = @ \cup r.saved]
         /\ \/ r.result = "finished" /\ Finish(g, o, r.df)
            \/ /\ r.result # "finished"
               /\ downloading' = [downloading EXCEPT ![g][o] = r.df]
               /\ \/ r.result = "more" /\ AskForNext(g, o, r.df)
                  \/ r.result = "error" /\ AskAgain(g, o)
               /\ UNCHANGED <<downloaded, written, channels>>
  /\ UNCHANGED <<shared, wedged>>

Downloader(g, o) ==
  /\ goroutine[g][o] # None
  /\ StartWaiting(g, o) \/ Timeout(g, o) \/ GiveUp(g, o) \/ TakeReply(g, o)

Next ==
  \/ \E s \in Sharable : ClientToShare(s[1], s[2], s[3])
  \/ \E w \in Wanted : ClientToDownload(w[1], w[2], w[3], w[4])
  \/ \E g \in Gossiper : \E m \in net :
       \/ ReceiveDataRequest(g, m)
       \/ DropDataReply(g, m) \/ HandDataReply(g, m) \/ BlockOnDataReply(g, m)
  \/ \E g, o \in Gossiper : Downloader(g, o)

Spec == Init /\ [][Next]_vars

\* The goroutines run and their timers fire; of the network nothing is asked.
FairSpec == Spec /\ \A g \in Gossiper : \A o \in Gossiper \ {g} : WF_vars(Downloader(g, o))

-----------------------------------------------------------------------------
(***************************************************************************)
(* The channel map, the manager's map and the goroutines agree: what       *)
(* Gossiper.go logs as "whaaat, map is not clean!" and "some terrible race *)
(* condition occured" never happens.                                       *)
(***************************************************************************)
MapsAgree ==
  \A g, o \in Gossiper :
    /\ o \in channels[g] <=> downloading[g][o] # None
    /\ o \in channels[g] <=> goroutine[g][o] # None

(***************************************************************************)
(* A chunk that a gossiper offers from a download, finished or not, is a   *)
(* file in the directory of that download's name: "existing chunk cannot   *)
(* be found!!!" is never logged, whoever else downloads under that name    *)
(* (fileHasDownloadedChunk, getChunkOrMetafile).                           *)
(***************************************************************************)
HeldChunksAreOnDisk ==
  \A g \in Gossiper : \A df \in DownloadsOf(g) : \A c \in Chunk :
    FileHasDownloadedChunk(df, c) => <<df.name, c>> \in disk[g]

(***************************************************************************)
(* A file counted as downloaded was put together: under its name there is  *)
(* a file in _Downloads (ProcessDataReply, finishDownloading).             *)
(***************************************************************************)
DownloadedIsWritten ==
  \A g \in Gossiper : \A f \in File :
    downloaded[g][f] # None => written[g][downloaded[g][f]] # None

(***************************************************************************)
(* What a time-out asks for again is of use: a chunk that is missing, or   *)
(* the metafile, until the first chunk has been asked for; never a chunk   *)
(* received since (latestRequestedHash).                                   *)
(***************************************************************************)
ResendIsUseful ==
  \A g, o \in Gossiper :
    goroutine[g][o] # None =>
      \/ goroutine[g][o].latest \in downloading[g][o].chunksToDownload
      \/ /\ goroutine[g][o].latest = downloading[g][o].metaHash
         /\ downloading[g][o].chunksToDownload
              \in {{}, ChunkSet(downloading[g][o].metaHash)}

(***************************************************************************)
(* A download ends, finished or given up, unless the message processor has *)
(* blocked: time-outs are counted and every reply that starts the count    *)
(* again brings the file nearer (startFileDownloadingGoroutine).           *)
(* GossiperConfig.go:10 says of the limit "number of times requests are    *)
(* resent".                                                                *)
(***************************************************************************)
DownloadsEnd ==
  \A g \in Gossiper : \A o \in Gossiper \ {g} :
    downloading[g][o] # None ~> (downloading[g][o] = None \/ wedged[g])

===============================================================================
