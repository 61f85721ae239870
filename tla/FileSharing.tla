----------------------------- MODULE FileSharing -----------------------------
(***************************************************************************)
(* The files of one gossiper (models/filesharing: SharedFilesManager,      *)
(* SharedFile, DownloadingFilesManager, DownloadingFile) as operators on   *)
(* records.  The managers' methods run under their mutexes, so each is one *)
(* operator here.                                                          *)
(*                                                                         *)
(* Hashes do not collide: a chunk stands for its bytes and for its hash, a *)
(* file for its bytes, for its metafile and for its metahash.              *)
(***************************************************************************)
EXTENDS Naturals, Sequences, FiniteSets

CONSTANTS File,
          Chunk,
          Chunks,    \* the chunks of each file in their order, maybe repeated
          TooBig,    \* the files longer than MaxFileSize
          Name,      \* file names
          None       \* an absent entry of a map

ASSUME ChunksAssumption == Chunks \in [File -> Seq(Chunk)]
ASSUME HashAssumption == File \cap Chunk = {}
ASSUME TooBigAssumption == TooBig \subseteq File
ASSUME NoneAssumption == None \notin Name \cup File

Hash == File \cup Chunk

ChunkSet(f) == {Chunks[f][i] : i \in 1..Len(Chunks[f])}

-----------------------------------------------------------------------------
\* SharedFilesManager: the name of each shared file, and the directories under
\* _SharedFiles/chunks, which stay when a file is refused after they were made.
SharedFiles == [name : [File -> Name \cup {None}], dirs : SUBSET Name]

InitSharedFiles == [name |-> [f \in File |-> None], dirs |-> {}]

ShareFile(sfm, n, f) ==
  IF n \in sfm.dirs
  THEN sfm
  ELSE [name |-> IF f \in TooBig \/ sfm.name[f] # None THEN sfm.name
                 ELSE [sfm.name EXCEPT ![f] = n],
        dirs |-> sfm.dirs \cup {n}]

\* The hashes SharedFilesManager.GetChunkOrMetafile finds data for
SharedHashes(sfm) ==
  UNION {{f} \cup ChunkSet(f) : f \in {e \in File : sfm.name[e] # None}}

-----------------------------------------------------------------------------
\* downloadingFile; its chunks are files in the directory of its name
DownloadingFile == [name : Name, metaHash : File, hasMetafile : BOOLEAN,
                    chunksToDownload : SUBSET Chunk]

ASSUME NoFileAssumption == None \notin DownloadingFile

InitDownloadingFile(n, f) ==
  [name |-> n, metaHash |-> f, hasMetafile |-> FALSE, chunksToDownload |-> {}]

FileHasDownloadedChunk(df, h) ==
  /\ df.hasMetafile
  /\ h = df.metaHash \/ h \in ChunkSet(df.metaHash) \ df.chunksToDownload

\* The results of processDataReply: nil, a pointer to false, a pointer to true
Reply == {"error", "more", "finished"}

\* gotMetafile fills in the structure even when it then reports a failure,
\* because the directory of this name exists.
GotMetafile(df, dirs) ==
  [df     |-> [df EXCEPT !.hasMetafile = TRUE,
                         !.chunksToDownload = ChunkSet(df.metaHash)],
   result |-> IF df.name \in dirs THEN "error" ELSE "more",
   dirs   |-> dirs \cup {df.name},
   saved  |-> {}]

\* Mutated: the chunk is counted but not written.
GotChunkUnsaved(df, h, dirs) ==
  LET left == df.chunksToDownload \ {h}
  IN  [df |-> [df EXCEPT !.chunksToDownload = left],
       result |-> IF left = {} THEN "finished" ELSE "more",
       dirs |-> dirs, saved |-> {}]

GotChunk(df, h, dirs) ==
  LET left == df.chunksToDownload \ {h}
  IN  [df |-> [df EXCEPT !.chunksToDownload = left],
       result |-> IF left = {} THEN "finished" ELSE "more",
       dirs |-> dirs, saved |-> {<<df.name, h>>}]

Unchanged(df, result, dirs) ==
  [df |-> df, result |-> result, dirs |-> dirs, saved |-> {}]

ProcessDataReply(df, h, dirs) ==
  CASE ~df.hasMetafile /\ h = df.metaHash -> GotMetafile(df, dirs)
    [] ~df.hasMetafile /\ h # df.metaHash -> Unchanged(df, "error", dirs)
    [] df.hasMetafile /\ h \in df.chunksToDownload -> GotChunk(df, h, dirs)
    [] df.hasMetafile /\ h \notin df.chunksToDownload -> Unchanged(df, "more", dirs)

\* Mutated: any chunk of the file, missing or not.
AnyDataRequests(df) == IF df.hasMetafile THEN ChunkSet(df.metaHash) ELSE {}

\* getDataRequest returns any of these; nil when there is none.
GetDataRequests(df) == df.chunksToDownload

-----------------------------------------------------------------------------
\* What a search finds: a file with the places of the chunks held and their
\* number.  A shared file counts each chunk once, a download as often as the
\* metafile lists it; without a metafile it has 0 of 0.
SearchResult == [name : Name, file : File, chunkMap : SUBSET Nat, chunkCount : Nat]

SharedResults(sfm, names) ==
  {[name |-> sfm.name[f], file |-> f, chunkCount |-> Cardinality(ChunkSet(f)),
    chunkMap |-> 1..Cardinality(ChunkSet(f))] : f \in {e \in File : sfm.name[e] \in names}}

DownloadResults(dfs, names) ==
  LET count(df) == IF df.hasMetafile THEN Len(Chunks[df.metaHash]) ELSE 0
  IN  {[name |-> df.name, file |-> df.metaHash, chunkCount |-> count(df),
        chunkMap |-> {i \in 1..count(df) :
                        Chunks[df.metaHash][i] \notin df.chunksToDownload}] :
         df \in {d \in dfs : d.name \in names}}

IsFullMatch(r) == Cardinality(r.chunkMap) = r.chunkCount
===============================================================================
