-------------------------- MODULE ManifestDocument --------------------------
(***************************************************************************)
(* The document a release travels as: ManifestCodec writes and reads the   *)
(* manifest, ManifestEnvelope wraps it with its signature, and             *)
(* ManifestAuthenticator asks the key registry before the signature.       *)
(*                                                                         *)
(* A field of a JSON document is a sequence: empty when the field is not   *)
(* there, one value when it has the type the codec wants, two when it has  *)
(* another.  A payload is empty when it is no JSON object at all.          *)
(***************************************************************************)
EXTENDS PayloadPath, FiniteSets, SequencesExt

CONSTANTS
    ChunkCount,         \* limits: chunks of a manifest,
    ChunkLength,        \* bytes of a chunk,
    FileBytes,          \* bytes of a file,
    MinPackage,         \* bytes of an extension library,
    MaxPackage,
    EnvelopeBytes       \* and the size of the sealed document

ASSUME LimitsAssumption ==
    /\ {ChunkCount, ChunkLength, FileBytes, MinPackage, MaxPackage, EnvelopeBytes} \subseteq Nat
    /\ MinPackage <= MaxPackage

Missing == <<>>
Given(value) == <<value>>
WrongType == <<0, 0>>
IsGiven(field) == Len(field) = 1
Unparsable == <<>>

\* texts: "nul" holds a zero byte, "long" is over the limit; images: "png" is a
\* picture within its limit and "none" an empty one
Descriptions == {"", "plain", "nul", "long", "cut"}
Pictures == {"none", "png", "broken"}
NoArt == [thumbnail |-> "none", image |-> "none"]

\* no text is this key, no bytes have this digest
NoPublisher == "no key"
NoDigest == <<>>

SumOf(lengths) == FoldSeq(LAMBDA a, b: a + b, 0, lengths)

(***************************************************************************)
(* ManifestCodec.                                                          *)
(***************************************************************************)
EncodeChunk(chunk) == [digest |-> Given(chunk.digest), length |-> Given(chunk.length)]

EncodeFile(file) ==
    [path |-> Given(file.path), size |-> Given(file.size),
     chunks |-> Given([k \in 1 .. Len(file.chunks) |-> EncodeChunk(file.chunks[k])])]

Encode(manifest) ==
    [publisher |-> Given(manifest.publisher), mod |-> Given(manifest.mod),
     version |-> Given(manifest.version), description |-> Given(manifest.description),
     thumbnail |-> IF manifest.art = NoArt THEN Missing ELSE Given(manifest.art.thumbnail),
     preview |-> IF manifest.art = NoArt THEN Missing ELSE Given(manifest.art.image),
     files |-> Given([k \in 1 .. Len(manifest.files) |-> EncodeFile(manifest.files[k])])]

ReadableHead(document) ==
    /\ IsGiven(document.publisher) /\ document.publisher[1] # NoPublisher
    /\ IsGiven(document.mod)
    /\ IsGiven(document.version)
    /\ IsGiven(document.files) /\ document.files[1] # <<>>

ReadablePicture(field) ==
    field # Missing => IsGiven(field) /\ field[1] # "broken"

ReadableText(field) ==
    field # Missing => IsGiven(field) /\ field[1] \notin {"nul", "long"}

ReadableChunk(chunk) ==
    /\ IsGiven(chunk.digest) /\ chunk.digest[1] # NoDigest
    /\ IsGiven(chunk.length) /\ chunk.length[1] \in 1 .. ChunkLength

\* the chunks follow one another from the start to the end of the file
ValidateChunkLayout(file) ==
    file.size[1] = SumOf([k \in 1 .. Len(file.chunks[1]) |-> file.chunks[1][k].length[1]])

IsExtension(file) == Normalise(file.path[1]) = ExtensionPath

ReadableFile(file) ==
    /\ IsGiven(file.path) /\ IsGiven(file.size) /\ IsGiven(file.chunks)
    /\ Acceptable(file.path[1])
    /\ IsExtension(file) => file.size[1] \in MinPackage .. MaxPackage
    /\ file.size[1] <= FileBytes
    /\ \A k \in 1 .. Len(file.chunks[1]): ReadableChunk(file.chunks[1][k])
    /\ ValidateChunkLayout(file)

ReadableFiles(files) ==
    /\ \A k \in 1 .. Len(files): ReadableFile(files[k])
    /\ SumOf([k \in 1 .. Len(files) |-> Len(files[k].chunks[1])]) <= ChunkCount
    /\ Cardinality({k \in 1 .. Len(files): IsExtension(files[k])}) <= 1

Readable(document) ==
    /\ ReadableHead(document)
    /\ ReadablePicture(document.thumbnail)
    /\ ReadablePicture(document.preview)
    /\ ReadableText(document.description)
    /\ ReadableFiles(document.files[1])

\* offsets are not in the document: each is where the chunks before it end
DecodeFile(file) ==
    LET chunks == file.chunks[1]
        Before(k) == SumOf([j \in 1 .. (k - 1) |-> chunks[j].length[1]])
    IN  [path |-> Normalise(file.path[1]), size |-> file.size[1],
         chunks |-> [k \in 1 .. Len(chunks) |->
            [digest |-> chunks[k].digest[1], offset |-> Before(k), length |-> chunks[k].length[1]]]]

Otherwise(field, value) == IF field = Missing THEN value ELSE field[1]

Decode(document) ==
    [publisher |-> document.publisher[1], mod |-> document.mod[1],
     version |-> document.version[1],
     description |-> Otherwise(document.description, ""),
     art |-> [thumbnail |-> Otherwise(document.thumbnail, "none"),
              image |-> Otherwise(document.preview, "none")],
     files |-> [k \in 1 .. Len(document.files[1]) |-> DecodeFile(document.files[1][k])]]

(***************************************************************************)
(* ManifestEnvelope, ManifestSigner and ManifestAuthenticator.             *)
(***************************************************************************)
\* Seal: the signature is over the payload, the header names the signer's key
Seal(key, payload) ==
    [magic |-> TRUE, format |-> TRUE, whole |-> TRUE, fingerprint |-> key, payload |-> payload,
     signature |-> [by |-> key, over |-> payload]]

\* what a sealed document weighs: its chunks
Weight(envelope) ==
    IF envelope.payload = Unparsable \/ ~IsGiven(envelope.payload[1].files)
    THEN 0
    ELSE LET files == envelope.payload[1].files[1]
         IN  SumOf([k \in 1 .. Len(files) |->
                IF IsGiven(files[k].chunks) THEN Len(files[k].chunks[1]) ELSE 0])

\* too large, too short or of another length than it declares, another magic or
\* format
WellWrapped(envelope) ==
    /\ Weight(envelope) <= EnvelopeBytes
    /\ envelope.magic /\ envelope.format /\ envelope.whole

\* Broken: the signature's key is not compared with the one the header names.
Authentic_AnyKey(envelope, keys) ==
    /\ WellWrapped(envelope)
    /\ keys[envelope.fingerprint] = "usable"
    /\ envelope.signature.over = envelope.payload

\* the registry holds the key, it is not revoked, and it made the signature
Authentic(envelope, keys) ==
    /\ WellWrapped(envelope)
    /\ keys[envelope.fingerprint] = "usable"
    /\ envelope.signature = [by |-> envelope.fingerprint, over |-> envelope.payload]
=============================================================================
