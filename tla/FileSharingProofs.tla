--------------------------- MODULE FileSharingProofs ---------------------------
(***************************************************************************)
(* Facts about FileSharing that the proofs about downloads and searches    *)
(* share, for any files and chunks, repeated and none at all among them.   *)
(***************************************************************************)
EXTENDS FileSharing, FiniteSetTheorems, SequenceTheorems, TLAPS

(***************************************************************************)
(* The chunks of a file are chunks.                                        *)
(***************************************************************************)
LEMMA ChunkSets ==
  ASSUME NEW f \in File
  PROVE  ChunkSet(f) \in SUBSET Chunk
<1>1. Chunks[f] \in Seq(Chunk)
  BY ChunksAssumption
<1>2. \A i \in 1..Len(Chunks[f]) : Chunks[f][i] \in Chunk
  BY <1>1, ElementOfSeq
<1> QED BY <1>2 DEF ChunkSet

(***************************************************************************)
(* What the fields of a downloadingFile are.                               *)
(***************************************************************************)
LEMMA DownloadFields ==
  ASSUME NEW df \in DownloadingFile
  PROVE  /\ df.name \in Name /\ df.metaHash \in File
         /\ df.hasMetafile \in BOOLEAN
         /\ df.chunksToDownload \in SUBSET Chunk
         /\ df # None
BY NoFileAssumption DEF DownloadingFile

(***************************************************************************)
(* What processDataReply may do: nothing to the file; fill in the          *)
(* metafile, with all chunks missing; or take one missing chunk off the    *)
(* set and write it, which finishes the download if it was the last.       *)
(***************************************************************************)
LEMMA Replied ==
  ASSUME NEW df \in DownloadingFile, NEW h, NEW ds \in SUBSET Name,
         NEW r, r = ProcessDataReply(df, h, ds)
  PROVE  /\ r.df \in DownloadingFile
         /\ r.df.name = df.name /\ r.df.metaHash = df.metaHash
         /\ r.result \in Reply /\ r.dirs \in SUBSET Name
         /\ r.saved \subseteq {df.name} \X Chunk
         /\ \/ r.df = df /\ r.result # "finished"
            \/ /\ ~df.hasMetafile /\ r.df.hasMetafile /\ r.result # "finished"
               /\ r.df.chunksToDownload = ChunkSet(df.metaHash)
            \/ /\ df.hasMetafile /\ r.df.hasMetafile
               /\ h \in df.chunksToDownload
               /\ r.df.chunksToDownload = df.chunksToDownload \ {h}
               /\ r.saved = {<<df.name, h>>}
               /\ r.result = IF r.df.chunksToDownload = {} THEN "finished" ELSE "more"
         /\ r.result = "more" => r.df.hasMetafile
<1>1. /\ df.name \in Name /\ df.metaHash \in File /\ df.hasMetafile \in BOOLEAN
      /\ df.chunksToDownload \in SUBSET Chunk
  BY DownloadFields
<1>2. CASE ~df.hasMetafile /\ h = df.metaHash
  <2>1. r = GotMetafile(df, ds)
    BY <1>2 DEF ProcessDataReply
  <2>2. ChunkSet(df.metaHash) \in SUBSET Chunk
    BY <1>1, ChunkSets
  <2>3. /\ r.df = [df EXCEPT !.hasMetafile = TRUE,
                             !.chunksToDownload = ChunkSet(df.metaHash)]
        /\ r.result = IF df.name \in ds THEN "error" ELSE "more"
        /\ r.dirs = ds \cup {df.name} /\ r.saved = {}
    BY <2>1 DEF GotMetafile
  <2>4. /\ r.df \in DownloadingFile
        /\ r.df.name = df.name /\ r.df.metaHash = df.metaHash
        /\ r.df.hasMetafile /\ r.df.chunksToDownload = ChunkSet(df.metaHash)
    BY <2>2, <2>3 DEF DownloadingFile
  <2> QED BY <1>1, <1>2, <2>3, <2>4 DEF Reply
<1>3. CASE ~df.hasMetafile /\ h # df.metaHash
  <2>1. r = Unchanged(df, "error", ds)
    BY <1>3 DEF ProcessDataReply
  <2> QED BY <2>1 DEF Unchanged, Reply
<1>4. CASE df.hasMetafile /\ h \in df.chunksToDownload
  <2>1. r = GotChunk(df, h, ds)
    BY <1>4 DEF ProcessDataReply
  <2>2. /\ r.df = [df EXCEPT !.chunksToDownload = df.chunksToDownload \ {h}]
        /\ r.result = IF df.chunksToDownload \ {h} = {} THEN "finished" ELSE "more"
        /\ r.dirs = ds /\ r.saved = {<<df.name, h>>}
    BY <2>1 DEF GotChunk
  <2>3. /\ r.df \in DownloadingFile
        /\ r.df.name = df.name /\ r.df.metaHash = df.metaHash
        /\ r.df.hasMetafile /\ r.df.chunksToDownload = df.chunksToDownload \ {h}
    BY <1>4, <2>2 DEF DownloadingFile
  <2> QED BY <1>1, <1>4, <2>2, <2>3 DEF Reply
<1>5. CASE df.hasMetafile /\ h \notin df.chunksToDownload
  <2>1. r = Unchanged(df, "more", ds)
    BY <1>5 DEF ProcessDataReply
  <2> QED BY <1>5, <2>1 DEF Unchanged, Reply
<1> QED BY <1>1, <1>2, <1>3, <1>4, <1>5

(***************************************************************************)
(* A file has no more different chunks than chunks: as few as make a       *)
(* number to count up to.                                                  *)
(***************************************************************************)
LEMMA FewChunks ==
  ASSUME NEW f \in File
  PROVE  /\ Len(Chunks[f]) \in Nat
         /\ IsFiniteSet(ChunkSet(f)) /\ Cardinality(ChunkSet(f)) \in Nat
<1> DEFINE places == 1..Len(Chunks[f])
           at == [i \in places |-> Chunks[f][i]]
<1>1. Len(Chunks[f]) \in Nat
  BY ChunksAssumption, LenProperties
<1>2. at \in Surjection(places, ChunkSet(f))
  BY DEF Surjection, ChunkSet
<1>3. IsFiniteSet(places)
  BY <1>1, FS_Interval
<1> HIDE DEF places, at
<1>4. IsFiniteSet(ChunkSet(f))
  BY <1>2, <1>3, FS_Surjection
<1> QED BY <1>1, <1>4, FS_CardinalityType

(***************************************************************************)
(* What a search finds is well formed: every place of a chunk is a number, *)
(* and the name is one of those asked for.                                 *)
(***************************************************************************)
LEMMA SearchFinds ==
  ASSUME NEW names \in SUBSET Name, NEW sfm \in SharedFiles, NEW dfs \in SUBSET DownloadingFile
  PROVE  /\ SharedResults(sfm, names) \subseteq SearchResult
         /\ DownloadResults(dfs, names) \subseteq SearchResult
<1>1. ASSUME NEW r \in SharedResults(sfm, names) PROVE r \in SearchResult
  <2>1. PICK f \in File :
          /\ sfm.name[f] \in names
          /\ r = [name |-> sfm.name[f], file |-> f, chunkCount |-> Cardinality(ChunkSet(f)),
                  chunkMap |-> 1..Cardinality(ChunkSet(f))]
    BY DEF SharedResults
  <2>2. Cardinality(ChunkSet(f)) \in Nat
    BY FewChunks
  <2>3. 1..Cardinality(ChunkSet(f)) \in SUBSET Nat
    BY <2>2
  <2> QED BY <2>1, <2>2, <2>3 DEF SearchResult
<1>2. ASSUME NEW r \in DownloadResults(dfs, names) PROVE r \in SearchResult
  <2> DEFINE count(df) == IF df.hasMetafile THEN Len(Chunks[df.metaHash]) ELSE 0
  <2>1. PICK df \in dfs :
          /\ df.name \in names
          /\ r = [name |-> df.name, file |-> df.metaHash, chunkCount |-> count(df),
                  chunkMap |-> {i \in 1..count(df) :
                                  Chunks[df.metaHash][i] \notin df.chunksToDownload}]
    BY DEF DownloadResults
  <2>2. df.metaHash \in File
    BY DownloadFields
  <2>3. count(df) \in Nat
    BY <2>2, FewChunks
  <2> DEFINE places == {i \in 1..count(df) : Chunks[df.metaHash][i] \notin df.chunksToDownload}
  <2>4. places \in SUBSET Nat
    BY <2>3
  <2>5. r = [name |-> df.name, file |-> df.metaHash, chunkCount |-> count(df),
             chunkMap |-> places]
    BY <2>1
  <2> HIDE DEF count, places
  <2> QED BY <2>1, <2>2, <2>3, <2>4, <2>5 DEF SearchResult
<1> QED BY <1>1, <1>2

(***************************************************************************)
(* What a full match is worth: a download whose metafile has come is one   *)
(* if and only if none of its chunks is missing; one whose metafile has    *)
(* not come always is, with 0 of 0 chunks (DownloadingFile's search reply, *)
(* AddFullMatch).                                                          *)
(***************************************************************************)
THEOREM FullMatchOfDownload ==
  ASSUME NEW df \in DownloadingFile, NEW names, NEW r \in DownloadResults({df}, names)
  PROVE  IsFullMatch(r) <=>
           (df.hasMetafile => ChunkSet(df.metaHash) \cap df.chunksToDownload = {})
<1> DEFINE count == IF df.hasMetafile THEN Len(Chunks[df.metaHash]) ELSE 0
           places == {i \in 1..count : Chunks[df.metaHash][i] \notin df.chunksToDownload}
<1>1. r.chunkMap = places /\ r.chunkCount = count
  BY DEF DownloadResults
<1>2. df.metaHash \in File
  BY DownloadFields
<1>3. count \in Nat
  BY <1>2, FewChunks
<1>4. IsFiniteSet(1..count) /\ Cardinality(1..count) = count
  BY <1>3, FS_Interval
<1>5. places \subseteq 1..count
  OBVIOUS
<1>6. IsFullMatch(r) <=> Cardinality(places) = count
  BY <1>1 DEF IsFullMatch
<1> HIDE DEF places
<1>7. Cardinality(places) = count <=> places = 1..count
  BY <1>4, <1>5, FS_Subset
<1>8. CASE df.hasMetafile
  <2>1. places = 1..count <=>
          \A i \in 1..Len(Chunks[df.metaHash]) : Chunks[df.metaHash][i] \notin df.chunksToDownload
    BY <1>8 DEF places
  <2> QED BY <1>6, <1>7, <1>8, <2>1 DEF ChunkSet
<1>9. CASE ~df.hasMetafile
  <2>1. count = 0
    BY <1>9
  <2>2. places = 1..count
    BY <2>1 DEF places
  <2> QED BY <1>6, <1>7, <1>9, <2>2
<1> QED BY <1>8, <1>9
===============================================================================
