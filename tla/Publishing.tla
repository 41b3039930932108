------------------------------ MODULE Publishing ------------------------------
(***************************************************************************)
(* A publisher's keys and the publishing of a mod folder. The window       *)
(* creates, unlocks and locks keys (SigningKeyStore) while a worker thread *)
(* publishes: PublishService::Publish takes the identity of the key in use *)
(* and then asks the key store again each time something is signed. A      *)
(* release is known by <<publisher, mod name>>; there is one mod folder,   *)
(* so that a release of another key has its name. The way announces travel *)
(* is in Gossip, the registry folder in Registry.                          *)
(***************************************************************************)
EXTENDS Naturals, FiniteSets, Sequences

CONSTANTS
  Keys,
  NoKey,
  MaxVersion,  \* bound: the highest version number
  MaxEvents,   \* bound: what the user does, announces that arrive, failures, restarts
  LosesTails   \* whether a file's last bytes may be lost when its stream closes unchecked

ASSUME PublishingBounds ==
  NoKey \notin Keys /\ MaxVersion \in Nat /\ MaxEvents \in Nat /\ LosesTails \in BOOLEAN

VARIABLES
  keyFile,    \* the sealed key files: "none", "torn" or "whole", one path per key
  submission, \* what lies beside a key file for the index: registration, revocation
  unlocked,   \* SigningKeyStore::_secretKey, and with it PublishService::_publisher
  registry,   \* the key registry: "absent", "usable" or "revoked"
  pc,         \* where the worker is; "idle" means _busy is false
  job,        \* the locals of Publish
  phase,      \* _progress.phase: Idle, Hashing and what follows as "busy", Done, Failed
  versions,   \* _versions
  history,    \* _history
  catalogue,  \* AnnounceReceiver::_retained
  records,    \* AnnounceStore: the announces on disk, NoAnnounce where none can be read
  unsaved,    \* observed: the keys of which a record was once not kept as it was accepted
  stored,     \* the envelopes ManifestStore holds whole
  installed,  \* InstalledReleaseStore: the version on record, 0 with none that can be read
  announced,  \* observed: the announces Publish had accepted
  events

keyVars     == <<keyFile, submission, unlocked, registry>>
workerVars  == <<pc, job, phase, versions, history>>
recordVars  == <<catalogue, records, unsaved, stored, installed, announced>>
publishVars == <<keyVars, workerVars, recordVars, events>>

-----------------------------------------------------------------------------
(* What is signed *)

Nobody == "garbled"   \* a signature made while the key was being replaced

NoJob == [publisher |-> NoKey, version |-> 0, sealer |-> NoKey, sealedBy |-> NoKey,
          signedBy |-> NoKey, raced |-> FALSE]

\* ManifestSigner::Seal puts the fingerprint of the key in use before the manifest, which
\* names its publisher itself. An envelope stands for its digest: that of an unchanged
\* folder, under the same version, is the same.
Envelope(j) == [publisher |-> j.publisher, version |-> j.version,
                sealer |-> j.sealer, sealedBy |-> j.sealedBy]

Announce(j) == [publisher |-> j.publisher, version |-> j.version, manifest |-> Envelope(j),
                signedBy |-> j.signedBy]

NoAnnounce == Announce(NoJob)

Foreign(k, v) == Announce([NoJob EXCEPT !.publisher = k, !.version = v, !.sealer = k,
                                        !.sealedBy = k, !.signedBy = k])

\* SigningKeyStore::Identity, derived again from the key in use whenever it is asked for.
Identity == unlocked

\* SigningKeyStore::Sign copies nothing: while it runs, Lock and Adopt_ in the window's
\* thread clear and replace the bytes it signs with.
Signatures == {unlocked} \cup (IF job.raced THEN {Nobody} ELSE {})

-----------------------------------------------------------------------------
(* The window's thread: keys *)

Happens == events < MaxEvents /\ events' = events + 1

\* The key in use changes under a signature that is being made.
Uses(k) ==
  /\ unlocked' = k
  /\ job' = [job EXCEPT !.raced = pc \in {"seal_sign", "announce_sign"}]

\* TrustLocally_: the export may fail.
Trusts(k) == \/ registry' = [registry EXCEPT ![k] = IF @ = "absent" THEN "usable" ELSE @]
             \/ UNCHANGED registry

\* PassphraseKeyCodec::Seal: the document its Open takes, with the passphrase it was sealed
\* under. A passphrase too short or a name it rejects makes none, and nothing changes.
Sealed == "whole"
Torn   == "torn"

\* WriteSealed_ does not see what is lost when its stream closes.
Written == {Sealed} \cup (IF LosesTails THEN {Torn} ELSE {})

\* What WriteRegistration_ and WriteRevocation_, the certificate signed with the new key,
\* leave in the submission folder; each export may fail.
Registration == {{}, {"registration"}}
Revocation   == {{}, {"revocation"}}

WritesSubmission(k) ==
  \E r \in Registration, c \in Revocation : submission' = [submission EXCEPT ![k] = r \cup c]

\* CreateKey: SigningKeyStore::Create refuses a path that exists, and the file must be
\* written before the key is used.
CreateKey(k) ==
  /\ Happens /\ keyFile[k] = "none"
  /\ \E written \in Written : keyFile' = [keyFile EXCEPT ![k] = written]
  /\ Uses(k) /\ WritesSubmission(k) /\ Trusts(k)
  /\ UNCHANGED <<pc, phase, versions, history, recordVars>>

\* ... or the file cannot be opened, or not be written to its end.
CreateFails(k) ==
  /\ Happens /\ keyFile[k] = "none"
  /\ keyFile' = [keyFile EXCEPT ![k] = Torn]
  /\ UNCHANGED <<submission, unlocked, registry, workerVars, recordVars>>

\* ReadSealed_: what the key file holds, if it is there and not too large.
ReadSealed(k) == keyFile[k]

\* Open: a file that is torn has the wrong size, or does not authenticate.
Opens(k) == ReadSealed(k) = Sealed

\* SigningKeyStore::Unlock: with a file that does not open, or a wrong passphrase, nothing
\* changes, or else the key takes the place of the one in use.
Unlocks(k) == Opens(k) /\ Uses(k)

\* UnlockKey, its key trusted unless the registry has it.
UnlockKey(k) ==
  /\ Happens /\ unlocked = NoKey /\ Unlocks(k)
  /\ IF registry[k] = "absent" THEN Trusts(k) ELSE UNCHANGED registry
  /\ UNCHANGED <<keyFile, submission, pc, phase, versions, history, recordVars>>

LockKey ==
  /\ Happens /\ unlocked # NoKey
  /\ Uses(NoKey)
  /\ UNCHANGED <<keyFile, submission, registry, pc, phase, versions, history, recordVars>>

-----------------------------------------------------------------------------
(* The worker's thread: Publish *)

\* StartPublish, from a button that needs an unlocked key and no publish under way.
StartPublish ==
  /\ Happens /\ unlocked # NoKey /\ pc = "idle" /\ phase # "busy"
  /\ pc' = "identity" /\ phase' = "busy" /\ job' = NoJob
  /\ UNCHANGED <<keyVars, versions, history, recordVars>>

Goes(from, to) == pc = from /\ pc' = to /\ UNCHANGED phase

\* Publish returns an error: the worker shows it and is done.
Fails(from) == pc = from /\ pc' = "idle" /\ phase' = "failed" /\ UNCHANGED job

\* InstalledReleaseStore::LoadAll: the records that can be read.
InstalledReleases == {k \in Keys : installed[k] > 0}

\* ModNameOwnership::Conflicts: another publisher's release has the name.
Conflicts(k) ==
  \E other \in Keys \ {k} : catalogue[other].version > 0 \/ other \in InstalledReleases

\* NextVersion_
NextVersion(k) ==
  1 + IF versions[k] > catalogue[k].version THEN versions[k] ELSE catalogue[k].version

TakeIdentity ==
  /\ pc = "identity"
  /\ IF Identity = NoKey \/ Conflicts(Identity)
     THEN Fails("identity")
     ELSE /\ Goes("identity", "build") /\ NextVersion(Identity) <= MaxVersion
          /\ job' = [job EXCEPT !.publisher = Identity, !.version = NextVersion(Identity)]
  /\ UNCHANGED <<keyVars, versions, history, recordVars, events>>

\* BuildObserved, which reads the whole folder, and the second look at the name.
BuildManifest ==
  /\ pc = "build"
  /\ IF Conflicts(job.publisher) THEN Fails("build") ELSE Goes("build", "seal") /\ UNCHANGED job
  /\ UNCHANGED <<keyVars, versions, history, recordVars, events>>

\* Seal: the identity, and then the signature, of the key in use at that time.
SealIdentity ==
  /\ pc = "seal"
  /\ IF Identity = NoKey THEN Fails("seal")
     ELSE Goes("seal", "seal_sign") /\ job' = [job EXCEPT !.sealer = Identity, !.raced = FALSE]
  /\ UNCHANGED <<keyVars, versions, history, recordVars, events>>

SealSign ==
  /\ pc = "seal_sign"
  /\ \E s \in Signatures :
       IF s = NoKey THEN Fails("seal_sign")
       ELSE Goes("seal_sign", "announce") /\ job' = [job EXCEPT !.sealedBy = s]
  /\ UNCHANGED <<keyVars, versions, history, recordVars, events>>

\* Announce refuses a key that is not the manifest's publisher.
AnnounceIdentity ==
  /\ pc = "announce"
  /\ IF Identity # job.publisher THEN Fails("announce")
     ELSE Goes("announce", "announce_sign") /\ job' = [job EXCEPT !.raced = FALSE]
  /\ UNCHANGED <<keyVars, versions, history, recordVars, events>>

AnnounceSign ==
  /\ pc = "announce_sign"
  /\ \E s \in Signatures :
       IF s = NoKey THEN Fails("announce_sign")
       ELSE Goes("announce_sign", "store") /\ job' = [job EXCEPT !.signedBy = s]
  /\ UNCHANGED <<keyVars, versions, history, recordVars, events>>

\* ManifestStore::Save writes in place.
SaveOpens ==
  /\ Goes("store", "save")
  /\ stored' = stored \ {Envelope(job)}
  /\ UNCHANGED <<keyVars, job, versions, history, catalogue, records, unsaved, installed, announced, events>>

\* Broken: a write that failed is not reported.
SaveEnds_Unchecked ==
  /\ Goes("save", "accept")
  /\ stored' = stored \cup {Envelope(job)} \/ UNCHANGED stored
  /\ UNCHANGED <<keyVars, job, versions, history, catalogue, records, unsaved, installed, announced, events>>

SaveEnds ==
  /\ Goes("save", "accept")
  /\ \/ stored' = stored \cup {Envelope(job)}
     \/ LosesTails /\ UNCHANGED stored
  /\ UNCHANGED <<keyVars, job, versions, history, catalogue, records, unsaved, installed, announced, events>>

\* Broken: what this program signed is taken as signed.
Admissible_Unverified(a) ==
  registry[a.publisher] = "usable" /\ a.version > catalogue[a.publisher].version

\* AnnounceReceiver::Accept, on an announce of a publisher's key.
Genuine(a) == registry[a.publisher] = "usable" /\ a.signedBy = a.publisher

Admissible(a) == Genuine(a) /\ a.version > catalogue[a.publisher].version

\* AnnounceStore::Save truncates the old record before it writes the new one. Accept ignores
\* whether it did: what is not kept on disk is in the catalogue until the program ends.
Keeps(k) == records' = [records EXCEPT ![k] = catalogue'[k]] /\ UNCHANGED unsaved

Loses(k) ==
  /\ records' = records \/ records' = [records EXCEPT ![k] = NoAnnounce]
  /\ unsaved' = unsaved \cup {k}

AcceptAnnounce ==
  /\ pc = "accept"
  /\ IF Admissible(Announce(job))
     THEN /\ Goes("accept", "record") /\ UNCHANGED job
          /\ catalogue' = [catalogue EXCEPT ![job.publisher] = Announce(job)]
          /\ (Keeps(job.publisher) /\ UNCHANGED events) \/ (Loses(job.publisher) /\ Happens)
          /\ announced' = announced \cup {Announce(job)}
          /\ versions' = [versions EXCEPT ![job.publisher] = job.version]
     ELSE Fails("accept") /\ UNCHANGED <<catalogue, records, unsaved, announced, versions, events>>
  /\ UNCHANGED <<keyVars, history, stored, installed>>

\* InstalledReleaseStore::Save opens the record and writes it in place.
RecordOpens ==
  /\ Goes("record", "finish")
  /\ installed' = [installed EXCEPT ![job.publisher] = 0]
  /\ UNCHANGED <<keyVars, job, versions, history, catalogue, records, unsaved, stored, announced, events>>

FinishPublish ==
  /\ pc = "finish" /\ pc' = "idle" /\ phase' = "done" /\ UNCHANGED job
  /\ installed' = [installed EXCEPT ![job.publisher] = job.version]
  /\ history' = Append(history, Announce(job))
  /\ UNCHANGED <<keyVars, versions, catalogue, records, unsaved, stored, announced, events>>

\* The manifest cannot be built, the torrent cannot be built, or a file cannot be written.
WorkFails ==
  /\ Happens
  /\ \E from \in {"build", "announce", "store", "save", "record", "finish"} : Fails(from)
  /\ UNCHANGED <<keyVars, versions, history, recordVars>>

-----------------------------------------------------------------------------
(* The rest of the program *)

\* Another machine's announce arrives.
AnnounceArrives ==
  /\ Happens
  /\ \E k \in Keys, v \in 1..MaxVersion :
       /\ Admissible(Foreign(k, v))
       /\ catalogue' = [catalogue EXCEPT ![k] = Foreign(k, v)]
       /\ Keeps(k) \/ Loses(k)
  /\ UNCHANGED <<keyVars, workerVars, stored, installed, announced>>

\* The registry's next Reload finds a certificate for a key.
KeyRevoked ==
  /\ Happens
  /\ \E k \in Keys : registry[k] = "usable" /\ registry' = [registry EXCEPT ![k] = "revoked"]
  /\ UNCHANGED <<keyFile, submission, unlocked, workerVars, recordVars>>

\* AnnounceReceiver::Restore accepts every record that can be read as if it arrived now, and
\* so saves it again. The registry has been loaded by then.
Restored == {k \in Keys : records[k].version > 0 /\ Genuine(records[k])}

\* The program dies, at any point, and starts again.
Restart ==
  /\ Happens
  /\ unlocked' = NoKey /\ pc' = "idle" /\ job' = NoJob /\ phase' = "idle"
  /\ versions' = [k \in Keys |-> 0] /\ history' = <<>>
  /\ catalogue' = [k \in Keys |-> IF k \in Restored THEN records[k] ELSE NoAnnounce]
  /\ \E torn \in SUBSET Restored :
       /\ records' = [k \in Keys |-> IF k \in torn THEN NoAnnounce ELSE records[k]]
       /\ unsaved' = unsaved \cup torn
  /\ UNCHANGED <<keyFile, submission, registry, stored, installed, announced>>

PublishingInit ==
  /\ keyFile = [k \in Keys |-> "none"] /\ unlocked = NoKey
  /\ submission = [k \in Keys |-> {}]
  /\ registry = [k \in Keys |-> "absent"]
  /\ pc = "idle" /\ job = NoJob /\ phase = "idle"
  /\ versions = [k \in Keys |-> 0] /\ history = <<>>
  /\ catalogue = [k \in Keys |-> NoAnnounce] /\ records = catalogue /\ unsaved = {}
  /\ stored = {}
  /\ installed = [k \in Keys |-> 0] /\ announced = {}
  /\ events = 0

PublishStep ==
  \/ TakeIdentity \/ BuildManifest \/ SealIdentity \/ SealSign \/ AnnounceIdentity
  \/ AnnounceSign \/ SaveOpens \/ SaveEnds \/ AcceptAnnounce \/ RecordOpens \/ FinishPublish

PublishingNext ==
  \/ \E k \in Keys : CreateKey(k) \/ CreateFails(k) \/ UnlockKey(k)
  \/ LockKey \/ StartPublish \/ PublishStep \/ WorkFails
  \/ AnnounceArrives \/ KeyRevoked \/ Restart

PublishingSpec == PublishingInit /\ [][PublishingNext]_publishVars

-----------------------------------------------------------------------------
(* Properties *)

\* What the program announced of a key it may no longer know: the key was revoked, or a record
\* of it was once not kept. Its numbers may then start again.
Lapsed(k) == k \in unsaved \/ registry[k] = "revoked"

\* Whoever is told of a release can be given its manifest: an envelope whose announce the
\* catalogue took, and so offers to peers, is in the manifest store, through failed writes
\* and restarts. ManifestStore::Save truncates what it replaces, so this takes that no
\* number is given out again.
AnnouncedIsStored == \A a \in announced : Lapsed(a.publisher) \/ a.manifest \in stored

\* A publisher has one release of a version: what the program announces is newer than all it
\* announced before, although the version is chosen long before, and again after each restart.
VersionIsNew ==
  pc = "accept" /\ pc' = "record" =>
    \A a \in announced : a.publisher = job.publisher => a.version < job.version \/ Lapsed(a.publisher)

\* The catalogue goes back to an older release, or to none, of such a key only.
CatalogueGrows ==
  \A k \in Keys : catalogue'[k].version >= catalogue[k].version \/ Lapsed(k)

\* The catalogue keeps no announce that other programs would refuse: each is signed by the
\* publisher it names, although the user may lock the key and unlock another one between
\* any two steps of the worker, or in the middle of a signature.
CatalogueIsAuthentic ==
  \A k \in Keys : catalogue[k].version > 0 =>
    catalogue[k].publisher = k /\ catalogue[k].signedBy = k

\* What the history shows as published is published: its envelope is stored, the catalogue
\* has it or a newer one, and the release is on record as the one installed.
HistoryIsBacked ==
  \A i \in DOMAIN history :
    /\ history[i].manifest \in stored
    /\ catalogue[history[i].publisher].version >= history[i].version
    /\ (i = Len(history) /\ pc = "idle" /\ phase = "done") =>
         installed[history[i].publisher] = history[i].version

\* The key in use can be unlocked again: a key that is lost takes the publisher's name with
\* it, since releases of a new key are of another publisher.
KeyInUseIsKept == unlocked # NoKey => keyFile[unlocked] = "whole"

-----------------------------------------------------------------------------
(* By hand *)

\* The code keeps none of these.

\* A release that was announced is not published over, and its number not given out again.
EveryAnnouncedIsStored == \A a \in announced : a.manifest \in stored
NumbersAreNew ==
  [][pc = "accept" /\ pc' = "record" => \A a \in announced : a.publisher = job.publisher => a.version < job.version]_publishVars

\* The manifest announced is sealed by the publisher it names.
ManifestIsSealedByPublisher ==
  \A a \in announced : a.manifest.sealer = a.publisher /\ a.manifest.sealedBy = a.publisher
=============================================================================
