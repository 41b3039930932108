------------------------------ MODULE Delivery ------------------------------
(***************************************************************************)
(* A release's document on its way: what Packing sealed, or a document     *)
(* another program sealed with a publisher's key, is announced; a          *)
(* subscriber fetches it with the torrent, FetchedManifestAdopter checks   *)
(* and stores it, and everything that later needs the manifest loads,      *)
(* authenticates and decodes the stored copy again.  What is fetched may   *)
(* be another file than the announced one, and what is stored may be torn: *)
(* ManifestStore writes in place.  The store goes by the digest alone, and *)
(* the document it holds may have been adopted for an earlier announce.    *)
(***************************************************************************)
EXTENDS Packing

CONSTANTS
    Signers,        \* keys that sign documents
    Registries,     \* what the subscriber's registry may hold of them
    MaxAnnounced,   \* bound: the highest version announced
    MaxTears        \* bound: stored documents that are torn

ASSUME DeliveryAssumption ==
    /\ Publisher \in Signers
    /\ Registries \subseteq [Signers -> {"unknown", "usable", "revoked"}]
    /\ MaxAnnounced \in Nat /\ MaxTears \in Nat

VARIABLES
    offer,      \* the announced document with what the announce says of it
    keys,           \* the subscriber's registry
    staged,         \* the fetched document, if any
    kept,           \* the store's document under the announced digest, if any
    adopted,        \* observed: the announce the document kept was adopted for, if any
    inUse,          \* the manifest the subscriber works from, if any
    tears           \* how often the store was torn so far

deliveryVars == <<offer, keys, staged, kept, adopted, inUse, tears>>
vars == <<packingVars, deliveryVars>>

None == <<>>

Init ==
    /\ PackingInit
    /\ offer = None
    /\ keys \in Registries
    /\ staged = None /\ kept = None /\ adopted = None /\ inUse = None
    /\ tears = 0

(***************************************************************************)
(* What is announced: a digest, which is the document, and an identity.    *)
(* The subscriber hears of it when it can check the publisher's signature. *)
(***************************************************************************)
Announcement(envelope, publisher, version) ==
    [document |-> envelope, publisher |-> publisher, mod |-> ModName, version |-> version]

\* what is announced no longer depends on the author's side: a state less to tell apart
LeaveAuthor ==
    /\ step' = "announced"
    /\ folder' = <<>> /\ art' = NoArt /\ edits' = 0
    /\ todo' = <<>> /\ files' = <<>> /\ stale' = {}
    /\ manifest' = NoManifest /\ toHash' = {} /\ pieces' = <<>> /\ sealed' = NoManifest

AnnounceRelease ==
    /\ step = "sealed" /\ offer = None /\ keys[Publisher] = "usable"
    /\ offer' = <<Announcement(sealed, Publisher, 1)>>
    /\ LeaveAuthor
    /\ UNCHANGED <<keys, staged, kept, adopted, inUse, tears>>

\* documents that are none of this program's: one part of a good one is missing, of
\* another type or out of bounds
OddFiles(list) ==
    LET first == list[1]
        chunks == first.chunks[1]
        OddFirst == {
            [first EXCEPT !.path = Missing],
            [first EXCEPT !.size = WrongType],
            [first EXCEPT !.size = Given(first.size[1] + 1)],
            [first EXCEPT !.path = Given([first.path[1] EXCEPT !.back = TRUE])],
            [first EXCEPT !.path = Given([first.path[1] EXCEPT !.parts = <<Plain("other")>>])],
            [first EXCEPT !.path = Given([first.path[1] EXCEPT !.parts =
                <<[Plain("dat") EXCEPT !.shape = "dots"]>> \o @])],
            [first EXCEPT !.path = Given(ExtensionPath)]}
        OddChunks == IF chunks = <<>> THEN {} ELSE {
            [first EXCEPT !.chunks[1][1].digest = Given(NoDigest)],
            [first EXCEPT !.chunks[1][1].length = Missing],
            [first EXCEPT !.chunks[1][1].length = Given(0)],
            [first EXCEPT !.chunks[1] = Tail(@)]}
    IN  {<<odd>> \o Tail(list): odd \in OddFirst \cup OddChunks}
            \cup {<<>>, list \o list, <<[first EXCEPT !.path = Given(ExtensionPath)]>> \o list}

OddDocuments(document) ==
    {[document EXCEPT !.publisher = Given(NoPublisher)],
     [document EXCEPT !.mod = Missing],
     [document EXCEPT !.version = WrongType],
     [document EXCEPT !.version = Given(2)],
     [document EXCEPT !.description = Given("nul")],
     [document EXCEPT !.description = Given("long")],
     [document EXCEPT !.thumbnail = Given("broken")],
     [document EXCEPT !.files = Missing]}
    \cup {[document EXCEPT !.files = Given(odd)]: odd \in OddFiles(document.files[1])}

\* Another program of a publisher announces what it likes, sealed by whom it likes
AnnounceOddDocument(signer, publisher) ==
    /\ step = "sealed" /\ offer = None /\ keys[publisher] = "usable"
    /\ \E document \in OddDocuments(sealed.payload[1]):
         offer' = <<Announcement(Seal(signer, <<document>>), publisher, 1)>>
    /\ LeaveAuthor
    /\ UNCHANGED <<keys, staged, kept, adopted, inUse, tears>>

(***************************************************************************)
(* The subscriber.                                                         *)
(***************************************************************************)
Revoke(signer) ==
    /\ offer # None /\ keys[signer] = "usable"
    /\ keys' = [keys EXCEPT ![signer] = "revoked"]
    /\ UNCHANGED <<packingVars, offer, staged, kept, adopted, inUse, tears>>

\* A newer announce of the same document, which may be a publisher's who has not sealed it;
\* the subscriber turns to it, and what was worked from is forgotten. Before a document is
\* kept this would be as if nothing had been announced earlier.
AnnounceAgain(publisher, version) ==
    /\ kept # None
    /\ keys[publisher] = "usable" /\ version > offer[1].version
    /\ offer' = <<Announcement(offer[1].document, publisher, version)>>
    /\ inUse' = None
    /\ UNCHANGED <<packingVars, keys, staged, kept, adopted, tears>>

\* a document damaged in one place
Damaged(envelope) ==
    {[envelope EXCEPT !.magic = FALSE], [envelope EXCEPT !.format = FALSE],
     [envelope EXCEPT !.whole = FALSE], [envelope EXCEPT !.payload = Unparsable]}
    \cup {[envelope EXCEPT !.fingerprint = signer]: signer \in Signers \ {envelope.fingerprint}}

\* the manifest's file of the torrent is fetched while the store does not hold it
Fetch ==
    /\ offer # None /\ staged = None /\ kept = None
    /\ LET document == offer[1].document
       IN  \E copy \in {document} \cup Damaged(document): staged' = <<copy>>
    /\ UNCHANGED <<packingVars, offer, keys, kept, adopted, inUse, tears>>

Usable(document) ==
    /\ Authentic(document, keys)
    /\ document.payload # Unparsable
    /\ Readable(document.payload[1])

\* what Adopt asks of a fetched document: the announced bytes, a good signature, and
\* the identity the announce gave it
Adoptable(document) ==
    /\ document = offer[1].document
    /\ Usable(document)
    /\ LET decoded == Decode(document.payload[1])
       IN  /\ decoded.publisher = offer[1].publisher /\ decoded.mod = offer[1].mod
           /\ decoded.version = offer[1].version

\* FetchedManifestAdopter.Adopt: the document is stored under the announced digest
Adopt ==
    /\ staged # None
    /\ staged' = None
    /\ IF Adoptable(staged[1])
       THEN kept' = staged /\ adopted' = offer /\ inUse' = <<Decode(staged[1].payload[1])>>
       ELSE UNCHANGED <<kept, adopted, inUse>>
    /\ UNCHANGED <<packingVars, offer, keys, tears>>

\* Save truncates and writes in place: the end of the program in between, or another
\* program, leaves a damaged copy
Tear ==
    /\ kept # None /\ tears < MaxTears
    /\ tears' = tears + 1
    /\ \E copy \in Damaged(kept[1]): kept' = <<copy>>
    /\ inUse' = None
    /\ UNCHANGED <<packingVars, offer, keys, staged, adopted>>

\* DecodeStoredManifest_: whatever is stored under the digest is asked again, but not for
\* the identity the announce gives
UseStored ==
    /\ kept # None
    /\ inUse' = IF Usable(kept[1]) THEN <<Decode(kept[1].payload[1])>> ELSE None
    /\ UNCHANGED <<packingVars, offer, keys, staged, kept, adopted, tears>>

DeliveryNext ==
    \/ AnnounceRelease
    \/ \E signer, publisher \in Signers: AnnounceOddDocument(signer, publisher)
    \/ \E publisher \in Signers, version \in 1 .. MaxAnnounced: AnnounceAgain(publisher, version)
    \/ \E signer \in Signers: Revoke(signer)
    \/ Fetch \/ Adopt \/ Tear \/ UseStored

Next ==
    \/ PackingNext /\ UNCHANGED deliveryVars
    \/ DeliveryNext

Spec == Init /\ [][Next]_vars

(***************************************************************************)
(* Properties.                                                             *)
(***************************************************************************)
(***************************************************************************)
(* A manifest the subscriber works from is read from a copy that is the    *)
(* announced document to the last field, and is of the identity that the   *)
(* announce it was adopted for gave it, however the fetched and the stored *)
(* copies were damaged, whoever sealed it and whoever announced it again   *)
(* since.  FetchedManifestAdopter, DecodeStoredManifest_,                  *)
(* ManifestAuthenticator.                                                  *)
(***************************************************************************)
IdentityOf(release) == [publisher |-> release.publisher, mod |-> release.mod,
                      version |-> release.version]

UsedIsAnnounced ==
    inUse # None =>
        LET document == offer[1].document
        IN  /\ kept = <<document>> /\ inUse = <<Decode(document.payload[1])>>
            /\ adopted[1].document = document
            /\ IdentityOf(inUse[1]) = IdentityOf(adopted[1])

(***************************************************************************)
(* And it can be worked from: every file lies under an accepted path, its  *)
(* chunks fill it without a gap, and there is one extension library at the *)
(* most.  The installer places chunks by these offsets unchecked.          *)
(* ManifestCodec.Decode.                                                   *)
(***************************************************************************)
UsedIsWellFormed ==
    inUse # None =>
        LET list == inUse[1].files
        IN  \A k \in 1 .. Len(list):
              /\ Acceptable(list[k].path) /\ Normalise(list[k].path) = list[k].path
              /\ \A j \in 1 .. Len(list[k].chunks):
                   LET chunk == list[k].chunks[j]
                       next == IF j = Len(list[k].chunks)
                               THEN list[k].size ELSE list[k].chunks[j + 1].offset
                   IN  chunk.length > 0 /\ chunk.offset + chunk.length = next
              /\ list[k].path = ExtensionPath =>
                   \A other \in 1 .. Len(list): list[other].path = ExtensionPath => other = k

(***************************************************************************)
(* What is published can be read: a subscriber that knows the key adopts   *)
(* the document the builder made, and gets the manifest it was made from.  *)
(* ManifestBuilder and ManifestCodec.Encode against ManifestCodec.Decode.  *)
(***************************************************************************)
BuiltIsReadable ==
    (step = "sealed" /\ keys[Publisher] = "usable") =>
        Usable(sealed) /\ Decode(sealed.payload[1]) = manifest

(***************************************************************************)
(* For running by hand.  A release that was published is true to its       *)
(* manifest even when the author wrote in between: it is not, and its      *)
(* chunks fail their digests wherever they are installed.                  *)
(***************************************************************************)
TorrentIsTrue ==
    step = "sealed" => \A digest \in Digests: pieces[digest] = FileTreeNodes(digest)

(***************************************************************************)
(* For running by hand.  The manifest worked from has the identity of the  *)
(* announce it is worked from for: a document kept under the digest        *)
(* already is not asked, as CatalogService and FetchedManifestAdopter do.  *)
(***************************************************************************)
UsedIsOffered == inUse # None => IdentityOf(inUse[1]) = IdentityOf(offer[1])

(***************************************************************************)
(* For running by hand.  What the store holds of an adoptable release can  *)
(* be used: a torn copy is held, rejected, and not fetched again.          *)
(***************************************************************************)
HeldIsUsable ==
    (kept # None /\ Adoptable(offer[1].document)) => Usable(kept[1])
=============================================================================
