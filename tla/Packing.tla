------------------------------ MODULE Packing ------------------------------
(***************************************************************************)
(* Making a release of a folder: what PublishService does between reading  *)
(* the folder and having something to announce.  ManifestBuilder lists the *)
(* folder and describes its files one after another, the manifest is       *)
(* encoded and sealed, and VirtualChunkSetTorrent reads every chunk from   *)
(* the folder again to hash it.  The author may write files in between:    *)
(* the folder is locked by nobody, a file only while it is described.      *)
(*                                                                         *)
(* Publishing models the rest of a publish (names, versions, keys, the     *)
(* announce and the records); here is the content it is about.             *)
(***************************************************************************)
EXTENDS Chunking, ManifestDocument, TLC

CONSTANTS
    Names,          \* paths of the files an author's folder may hold
    Contents,       \* what a file may hold
    Says,           \* what a metadata file of that content says: its description
    Approved,       \* contents that are approved extension libraries
    Publisher,      \* the publisher's key
    ModName,
    Arts,           \* what the two pictures of the folder may be
    MaxFiles,       \* bounds: files the folder starts with,
    MaxEdits        \* and writes of the author

ASSUME PackingAssumption ==
    /\ Names \subseteq PathRecord /\ IsFiniteSet(Names)
    /\ Contents \subseteq Seq(Nat)
    /\ Says \in [Contents -> Descriptions]
    /\ Approved \subseteq Contents
    /\ MaxFiles \in Nat /\ MaxEdits \in Nat

VARIABLES
    folder,         \* the author's files: content by path
    art,            \* the pictures beside them
    edits,          \* writes so far
    step,           \* where the publisher is
    todo,           \* paths listed and not yet described
    files,          \* what is described
    stale,          \* paths written since they were described
    manifest,       \* the manifest in the making
    toHash,         \* digests the torrent has no hashes for
    pieces,         \* piece roots by digest
    sealed          \* the sealed document, if there is one

packingVars == <<folder, art, edits, step, todo, files, stale, manifest, toHash, pieces, sealed>>

NoManifest == <<>>

\* a table with a value under a key, whether it had one or not
With(table, key, value) ==
    [k \in DOMAIN table \cup {key} |-> IF k = key THEN value ELSE table[k]]

PackingInit ==
    /\ \E held \in {some \in SUBSET Names: Cardinality(some) <= MaxFiles}: folder \in [held -> Contents]
    /\ art \in Arts
    /\ edits = 0
    /\ step = "idle"
    /\ todo = <<>> /\ files = <<>> /\ stale = {}
    /\ manifest = NoManifest /\ sealed = NoManifest
    /\ toHash = {} /\ pieces = <<>>

Described == {files[k].path: k \in 1 .. Len(files)}

(***************************************************************************)
(* The author.                                                             *)
(***************************************************************************)
\* a path of the manifest is a file of the folder under its own spelling
Spelled(path) == {n \in Names: Acceptable(n) /\ Normalise(n) = path}

Touch(name) == stale' = stale \cup {path \in Described: name \in Spelled(path)}

AuthorMayWrite == step \notin {"failed", "sealed", "announced"} /\ edits < MaxEdits /\ edits' = edits + 1

Write(name, content) ==
    /\ AuthorMayWrite
    /\ folder' = With(folder, name, content)
    /\ folder' # folder
    /\ Touch(name)
    /\ UNCHANGED <<art, step, todo, files, manifest, toHash, pieces, sealed>>

Delete(name) ==
    /\ AuthorMayWrite
    /\ name \in DOMAIN folder
    /\ folder' = [n \in DOMAIN folder \ {name} |-> folder[n]]
    /\ Touch(name)
    /\ UNCHANGED <<art, step, todo, files, manifest, toHash, pieces, sealed>>

(***************************************************************************)
(* ManifestBuilder.                                                        *)
(***************************************************************************)
Fail ==
    /\ step' = "failed"
    /\ UNCHANGED <<folder, art, edits, todo, files, stale, manifest, toHash, pieces, sealed>>

\* CollectPaths_: the two pictures are skipped, any other file must be acceptable
CollectPaths ==
    LET listed == {Normalise(n): n \in DOMAIN folder}
        refused == \/ \E n \in DOMAIN folder: ~Acceptable(n)
                   \/ Cardinality({n \in DOMAIN folder: Normalise(n) = ExtensionPath}) > 1
    IN  /\ step = "idle"
        /\ IF refused \/ listed = {}
           THEN Fail
           ELSE /\ step' = "describing"
                /\ todo' = SetToSeq(listed)
                /\ UNCHANGED <<folder, art, edits, files, stale, manifest, toHash, pieces, sealed>>

\* FileChunkLister.Describe
Describe(path, content) ==
    LET spans == Split(content)
    IN  [path |-> path, size |-> Len(content),
         chunks |-> [k \in 1 .. Len(spans) |->
            [digest |-> Slice(content, spans[k].offset, spans[k].length),
             offset |-> spans[k].offset, length |-> spans[k].length]]]

\* ApprovedExtensionFile.Open, held open while the file is described
ApprovedExtension(content) ==
    content \in Approved /\ Len(content) \in MinPackage .. MaxPackage

ChunksOf(described) ==
    SumOf([k \in 1 .. Len(described) |-> Len(described[k].chunks)])

\* one file of the loop: gone, unapproved or one chunk too many ends the build
DescribeFile ==
    LET path == Head(todo)
    IN  /\ step = "describing" /\ todo # <<>>
        /\ IF Spelled(path) \cap DOMAIN folder = {}
           THEN Fail
           ELSE \E name \in Spelled(path) \cap DOMAIN folder:
                  LET described == Append(files, Describe(path, folder[name]))
                  IN  IF \/ path = ExtensionPath /\ ~ApprovedExtension(folder[name])
                         \/ ChunksOf(described) > ChunkCount
                      THEN Fail
                      ELSE /\ files' = described
                           /\ todo' = Tail(todo)
                           /\ UNCHANGED <<folder, art, edits, step, stale, manifest, toHash, pieces, sealed>>

\* PreviewImageReader: a picture that is there must be a small enough PNG
ReadPreviews ==
    /\ step = "describing" /\ todo = <<>>
    /\ IF "broken" \in {art.thumbnail, art.image}
       THEN Fail
       ELSE /\ step' = "describing text"
            /\ UNCHANGED <<folder, art, edits, todo, files, stale, manifest, toHash, pieces, sealed>>

\* ModMetadataReader: read again, and cut at the limit
DescriptionNow ==
    IF MetadataPath \in DOMAIN folder
    THEN LET text == Says[folder[MetadataPath]] IN IF text = "long" THEN "cut" ELSE text
    ELSE ""

ReadDescription ==
    /\ step = "describing text"
    /\ manifest' = [publisher |-> Publisher, mod |-> ModName, version |-> 1, files |-> files,
                    description |-> DescriptionNow, art |-> art]
    /\ step' = "built"
    /\ UNCHANGED <<folder, art, edits, todo, files, stale, toHash, pieces, sealed>>

(***************************************************************************)
(* Publish, from the manifest on.                                          *)
(***************************************************************************)
AllChunks == UNION {Range(files[k].chunks): k \in 1 .. Len(files)}
Digests == {chunk.digest: chunk \in AllChunks}

\* ManifestCodec.Encode, ManifestSigner.Seal, and the layout of the chunk set:
\* one file for each digest
SealManifest ==
    LET envelope == Seal(Publisher, <<Encode(manifest)>>)
    IN  /\ step = "built"
        /\ IF Weight(envelope) > EnvelopeBytes \/ Digests = {}
           THEN Fail
           ELSE /\ sealed' = envelope
                /\ toHash' = Digests
                /\ step' = "hashing"
                /\ UNCHANGED <<folder, art, edits, todo, files, stale, manifest, pieces>>

\* IndexSources: the first file of the manifest that holds the chunk, and where
SourceOf(digest) ==
    LET holders == {k \in 1 .. Len(files): \E c \in Range(files[k].chunks): c.digest = digest}
        file == files[Min(holders)]
        places == {k \in 1 .. Len(file.chunks): file.chunks[k].digest = digest}
    IN  [path |-> file.path, offset |-> file.chunks[Min(places)].offset]

\* ReadRange, of the file as it is by now; fewer bytes where the file ends earlier
ReadRange(name, source, length) == Slice(folder[name], source.offset, length)

\* The piece roots of one entry; the entries' order is that of their digests,
\* which is as good as any
HashEntry(digest) ==
    LET source == SourceOf(digest)
        held == Spelled(source.path) \cap DOMAIN folder
        whole == {name \in held: Len(folder[name]) >= source.offset + Len(digest)}
    IN  /\ step = "hashing" /\ digest \in toHash
        /\ IF whole = {}
           THEN Fail
           ELSE \E name \in whole:
                  /\ pieces' = With(pieces, digest, PieceRoots(ReadRange(name, source, Len(digest))))
                  /\ toHash' = toHash \ {digest}
                  /\ step' = IF toHash' = {} THEN "sealed" ELSE "hashing"
                  /\ UNCHANGED <<folder, art, edits, todo, files, stale, manifest, sealed>>

PackingNext ==
    \/ \E name \in Names: (\E content \in Contents: Write(name, content)) \/ Delete(name)
    \/ CollectPaths \/ DescribeFile \/ ReadPreviews \/ ReadDescription \/ SealManifest
    \/ \E digest \in toHash: HashEntry(digest)

(***************************************************************************)
(* Properties.                                                             *)
(***************************************************************************)
Concatenated(chunks) == FoldSeq(LAMBDA chunk, rest: chunk.digest \o rest, <<>>, chunks)

(***************************************************************************)
(* A manifest rebuilds the folder: the chunks of a described file, put one *)
(* after another, are the file, however its bytes were cut; none is larger *)
(* than the largest chunk and only the last smaller than the smallest.     *)
(* Files the author has written since are no longer what was described.    *)
(* ManifestBuilder, FileChunkLister and FastCdcChunker.                    *)
(***************************************************************************)
ManifestRebuildsTheFolder ==
    \A k \in 1 .. Len(files):
        LET file == files[k]
            chunks == file.chunks
        IN  /\ file.path \notin stale =>
                 \E name \in Spelled(file.path) \cap DOMAIN folder:
                    Concatenated(chunks) = folder[name]
            /\ \A j \in 1 .. Len(chunks):
                 /\ chunks[j].length <= Maximum
                 /\ j < Len(chunks) => chunks[j].length >= Minimum

\* a folder of Windows holds no two files that differ in letters' case or separators only
SpelledApart ==
    \A one, two \in Names:
        (Acceptable(one) /\ Acceptable(two) /\ Normalise(one) = Normalise(two)) => one = two

\* what Chunking computes of each content: where its chunks lie, and their hashes
ChunkingIsSound ==
    \A content \in Contents:
        LET spans == Split(content)
        IN  /\ spans \in Seq([offset: Nat, length: Nat])
            /\ \A k \in 1 .. Len(spans):
                 LET digest == Slice(content, spans[k].offset, spans[k].length)
                 IN  PieceRoots(digest) = FileTreeNodes(digest)

(***************************************************************************)
(* The torrent is the manifest's: when it is complete, each chunk has the  *)
(* roots a v2 torrent of a file with that digest has, or the file it was   *)
(* read from was written after it was described.  VirtualChunkSetTorrent   *)
(* hashes ranges of the folder where ChunkSetTorrent would hash files.     *)
(***************************************************************************)
TorrentIsTheManifests ==
    step = "sealed" =>
        \A digest \in Digests:
            SourceOf(digest).path \in stale \/ pieces[digest] = FileTreeNodes(digest)
=============================================================================
