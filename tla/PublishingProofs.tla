--------------------------- MODULE PublishingProofs ---------------------------
(***************************************************************************)
(* What a publisher announces is signed by the publisher, for every set of *)
(* keys and however long the program is used: the user may lock, create    *)
(* and unlock keys between any two steps of the worker, and the program    *)
(* may die at any point. It is stored, and newer than all it announced     *)
(* before, unless its key was revoked or a record of it was not kept.      *)
(* Then the document a release travels as, and its torrent: what a         *)
(* subscriber works from is what was announced, and what is hashed is what *)
(* was described, although the author goes on writing.                     *)
(***************************************************************************)
EXTENDS Delivery, Publishing, WellFoundedInduction, TLAPS

Writers == Keys \cup {NoKey, Nobody}

Envelopes == [publisher : Keys \cup {NoKey}, version : Nat,
              sealer : Keys \cup {NoKey}, sealedBy : Writers]

Announces == [publisher : Keys \cup {NoKey}, version : Nat, manifest : Envelopes,
              signedBy : Writers]

Jobs == [publisher : Keys \cup {NoKey}, version : Nat, sealer : Keys \cup {NoKey},
         sealedBy : Writers, signedBy : Writers, raced : BOOLEAN]

KeysOK ==
  /\ keyFile \in [Keys -> {"none", Torn, Sealed}]
  /\ unlocked \in Keys \cup {NoKey}
  /\ registry \in [Keys -> {"absent", "usable", "revoked"}]

WorkerOK ==
  /\ job \in Jobs
  /\ versions \in [Keys -> Nat]
  /\ history \in Seq(Announces)

RecordsOK ==
  /\ catalogue \in [Keys -> Announces]
  /\ records \in [Keys -> Announces]
  /\ installed \in [Keys -> Nat]
  /\ announced \subseteq Announces

PublishingTypeOK == KeysOK /\ WorkerOK /\ RecordsOK

(* The steps in which a release has a version and is not announced yet.    *)
Before == {"build", "seal", "seal_sign", "announce", "announce_sign", "store", "save", "accept"}

(* The steps in which it is stored, those in which it is announced.        *)
Kept == {"accept", "record", "finish"}
Told == {"record", "finish"}

(* What a restart brings back: a record on disk is one that is accepted    *)
(* again, and the catalogue's, unless one of the key was not kept.         *)
SavedOK ==
  \A k \in Keys :
    /\ Lapsed(k) \/ records[k].version = catalogue[k].version
    /\ registry[k] = "absent" => catalogue[k].version = 0
    /\ records[k].version > 0 => records[k].publisher = k /\ records[k].signedBy = k

(* An announce carries its own manifest, and the catalogue has it or a     *)
(* newer one, unless its key lapsed.                                       *)
AnnouncesOK ==
  \A a \in announced :
    /\ a.publisher \in Keys
    /\ a.manifest.publisher = a.publisher /\ a.manifest.version = a.version
    /\ Lapsed(a.publisher) \/ a.version <= catalogue[a.publisher].version

(* What the worker is about to announce is newer than what was announced,  *)
(* and, its key lapsed or not, than what this session announced.           *)
JobIsNew ==
  pc \in Before =>
    /\ job.publisher \in Keys
    /\ job.version > versions[job.publisher]
    /\ \A a \in announced : a.publisher = job.publisher => Lapsed(a.publisher) \/ a.version < job.version

JobIsAnnounced ==
  pc \in Told => /\ job.publisher \in Keys /\ Announce(job) \in announced
                 /\ job.version <= versions[job.publisher]

VersionsOK == \A k \in Keys : versions[k] <= catalogue[k].version

HistoryOK ==
  /\ \A i \in DOMAIN history :
       history[i] \in announced /\ history[i].version <= versions[history[i].publisher]
  /\ pc = "idle" /\ phase = "done" => history # <<>>

LastIsInstalled ==
  pc = "idle" /\ phase = "done" =>
    installed[history[Len(history)].publisher] = history[Len(history)].version

JobIsKept == pc \in Kept => Envelope(job) \in stored

PublishingInv ==
  PublishingTypeOK /\ SavedOK /\ AnnouncesOK /\ JobIsNew /\ JobIsAnnounced /\ VersionsOK
    /\ HistoryOK /\ LastIsInstalled /\ CatalogueIsAuthentic

HistoryIsKept == \A i \in DOMAIN history : history[i].manifest \in stored

StoredInv == PublishingInv /\ JobIsKept /\ AnnouncedIsStored /\ HistoryIsKept

-----------------------------------------------------------------------------
(* What the steps do *)

(* An announce and an envelope made of a job are what their types say.     *)
LEMMA JobForms ==
  ASSUME NEW j \in Jobs
  PROVE  /\ Envelope(j) \in Envelopes /\ Announce(j) \in Announces
         /\ Announce(j).publisher = j.publisher /\ Announce(j).version = j.version
         /\ Announce(j).manifest = Envelope(j) /\ Announce(j).signedBy = j.signedBy
         /\ Envelope(j).publisher = j.publisher /\ Envelope(j).version = j.version
BY DEF Jobs, Envelope, Announce, Envelopes, Announces

(* The first announces of the catalogue, and those of other machines.      *)
LEMMA ForeignForms ==
  /\ NoJob \in Jobs /\ NoAnnounce \in Announces /\ NoAnnounce.version = 0
  /\ \A k \in Keys, v \in Nat :
       /\ Foreign(k, v) \in Announces
       /\ Foreign(k, v).publisher = k /\ Foreign(k, v).version = v /\ Foreign(k, v).signedBy = k
<1>1. NoJob \in Jobs /\ NoJob.version = 0
  BY DEF NoJob, Jobs, Writers
<1>2. ASSUME NEW k \in Keys, NEW v \in Nat
      PROVE  /\ Foreign(k, v) \in Announces
             /\ Foreign(k, v).publisher = k /\ Foreign(k, v).version = v /\ Foreign(k, v).signedBy = k
  <2> DEFINE j == [NoJob EXCEPT !.publisher = k, !.version = v, !.sealer = k,
                                !.sealedBy = k, !.signedBy = k]
  <2>1. j \in Jobs /\ j.publisher = k /\ j.version = v /\ j.signedBy = k
    BY DEF NoJob, Jobs, Writers
  <2>2. Foreign(k, v) = Announce(j)
    BY DEF Foreign
  <2> HIDE DEF j
  <2> QED
    BY <2>1, <2>2, JobForms
<1>3. NoAnnounce \in Announces /\ NoAnnounce.version = 0
  BY <1>1, JobForms DEF NoAnnounce
<1> QED
  BY <1>1, <1>2, <1>3

(* NextVersion_ is above what the catalogue and this session have of it.   *)
LEMMA NextVersionIsNew ==
  ASSUME PublishingTypeOK, NEW k \in Keys
  PROVE  NextVersion(k) \in Nat /\ NextVersion(k) > catalogue[k].version /\ NextVersion(k) > versions[k]
BY DEF PublishingTypeOK, WorkerOK, RecordsOK, Announces, NextVersion

(* The publisher and the version of the release under way, as a step of the *)
(* program leaves them.                                                     *)
SameJob == /\ job'.publisher = job.publisher /\ job'.version = job.version
           /\ job'.sealer = job.sealer /\ job'.sealedBy = job.sealedBy
           /\ job'.signedBy = job.signedBy

(* A step of the window or the rest of the program leaves the worker where *)
(* it is.                                                                  *)
Outside ==
  \/ \E k \in Keys : CreateKey(k) \/ CreateFails(k) \/ UnlockKey(k)
  \/ LockKey \/ AnnounceArrives \/ KeyRevoked

(* Steps that leave the job at its publisher and version.                  *)
LEMMA OutsideSteps ==
  ASSUME PublishingTypeOK, Outside
  PROVE  /\ job' \in Jobs /\ SameJob
         /\ UNCHANGED <<pc, phase, versions, history, stored, installed, announced>>
<1>1. ASSUME NEW k, Uses(k)  PROVE job' \in Jobs /\ SameJob
  <2>1. job \in Jobs
    BY DEF PublishingTypeOK, WorkerOK
  <2>2. (pc \in {"seal_sign", "announce_sign"}) \in BOOLEAN
    OBVIOUS
  <2> QED
    BY <1>1, <2>1, <2>2 DEF Uses, Jobs, SameJob
<1>2. job \in Jobs
  BY DEF PublishingTypeOK, WorkerOK
<1>3. ASSUME NEW k \in Keys, CreateKey(k) \/ UnlockKey(k)
      PROVE  /\ job' \in Jobs /\ SameJob
             /\ UNCHANGED <<pc, phase, versions, history, stored, installed, announced>>
  BY <1>1, <1>3 DEF CreateKey, UnlockKey, Unlocks, recordVars
<1>4. ASSUME LockKey
      PROVE  /\ job' \in Jobs /\ SameJob
             /\ UNCHANGED <<pc, phase, versions, history, stored, installed, announced>>
  BY <1>1, <1>4 DEF LockKey, recordVars
<1>5. ASSUME UNCHANGED job  PROVE job' \in Jobs /\ SameJob
  BY <1>2, <1>5 DEF SameJob
<1>6. ASSUME NEW k \in Keys, CreateFails(k)
      PROVE  UNCHANGED <<job, pc, phase, versions, history, stored, installed, announced>>
  BY <1>6 DEF CreateFails, workerVars, recordVars
<1>7. ASSUME AnnounceArrives \/ KeyRevoked
      PROVE  UNCHANGED <<job, pc, phase, versions, history, stored, installed, announced>>
  BY <1>7 DEF AnnounceArrives, KeyRevoked, workerVars, recordVars
<1> QED
  BY <1>3, <1>4, <1>5, <1>6, <1>7 DEF Outside

(* The steps before a release is announced keep its publisher and version. *)
LEMMA SigningSteps ==
  ASSUME PublishingTypeOK,
         BuildManifest \/ SealIdentity \/ SealSign \/ AnnounceIdentity \/ AnnounceSign
  PROVE  /\ job' \in Jobs
         /\ job'.publisher = job.publisher /\ job'.version = job.version
         /\ pc \in Before
         /\ pc' \in Before \ Kept \/ (pc' = "idle" /\ phase' = "failed")
         /\ UNCHANGED <<keyVars, versions, history, recordVars>>
<1>1. job \in Jobs /\ unlocked \in Keys \cup {NoKey}
  BY DEF PublishingTypeOK, WorkerOK, KeysOK
<1> USE DEF Before, Kept, Fails, Goes
<1>2. CASE BuildManifest
  BY <1>1, <1>2 DEF BuildManifest
<1>3. CASE SealIdentity
  <2>1. \/ UNCHANGED job
        \/ job' = [job EXCEPT !.sealer = Identity, !.raced = FALSE]
    BY <1>3 DEF SealIdentity
  <2>2. job' \in Jobs /\ job'.publisher = job.publisher /\ job'.version = job.version
    BY <1>1, <2>1 DEF Jobs, Identity
  <2> QED
    BY <1>3, <2>2 DEF SealIdentity
<1>4. CASE SealSign
  <2>1. \E s \in Writers : UNCHANGED job \/ job' = [job EXCEPT !.sealedBy = s]
    BY <1>1, <1>4 DEF SealSign, Signatures, Writers
  <2>2. job' \in Jobs /\ job'.publisher = job.publisher /\ job'.version = job.version
    BY <1>1, <2>1 DEF Jobs
  <2> QED
    BY <1>4, <2>2 DEF SealSign
<1>5. CASE AnnounceIdentity
  <2>1. UNCHANGED job \/ job' = [job EXCEPT !.raced = FALSE]
    BY <1>5 DEF AnnounceIdentity
  <2>2. job' \in Jobs /\ job'.publisher = job.publisher /\ job'.version = job.version
    BY <1>1, <2>1 DEF Jobs
  <2> QED
    BY <1>5, <2>2 DEF AnnounceIdentity
<1>6. CASE AnnounceSign
  <2>1. \E s \in Writers : UNCHANGED job \/ job' = [job EXCEPT !.signedBy = s]
    BY <1>1, <1>6 DEF AnnounceSign, Signatures, Writers
  <2>2. job' \in Jobs /\ job'.publisher = job.publisher /\ job'.version = job.version
    BY <1>1, <2>1 DEF Jobs
  <2> QED
    BY <1>6, <2>2 DEF AnnounceSign
<1> QED
  BY <1>2, <1>3, <1>4, <1>5, <1>6

-----------------------------------------------------------------------------
(* The types *)

(* The variables of the key store keep their types.                        *)
LEMMA KeysStep ==
  ASSUME PublishingTypeOK, [PublishingNext]_publishVars
  PROVE  KeysOK'
<1>1. KeysOK
  BY DEF PublishingTypeOK
<1>2. ASSUME UNCHANGED keyVars  PROVE KeysOK'
  BY <1>1, <1>2 DEF keyVars, KeysOK
<1>3. ASSUME NEW k \in Keys, CreateKey(k) \/ CreateFails(k) \/ UnlockKey(k)  PROVE KeysOK'
  BY <1>1, <1>3 DEF CreateKey, CreateFails, UnlockKey, Unlocks, Uses, Trusts, Written, KeysOK, Torn, Sealed
<1>4. CASE LockKey
  BY <1>1, <1>4 DEF LockKey, Uses, KeysOK
<1>5. CASE PublishStep
  BY <1>2, <1>5 DEF PublishStep, TakeIdentity, BuildManifest, SealIdentity, SealSign,
     AnnounceIdentity, AnnounceSign, SaveOpens, SaveEnds, AcceptAnnounce, RecordOpens, FinishPublish
<1>6. CASE StartPublish \/ WorkFails \/ AnnounceArrives
  BY <1>2, <1>6 DEF StartPublish, WorkFails, AnnounceArrives
<1>7. CASE KeyRevoked \/ Restart
  BY <1>1, <1>7 DEF KeyRevoked, Restart, KeysOK
<1>8. CASE UNCHANGED publishVars
  BY <1>2, <1>8 DEF publishVars
<1> QED
  BY <1>3, <1>4, <1>5, <1>6, <1>7, <1>8 DEF PublishingNext

(* The variables of the worker keep their types.                           *)
LEMMA WorkerStep ==
  ASSUME PublishingTypeOK, [PublishingNext]_publishVars
  PROVE  WorkerOK'
<1>1. WorkerOK /\ unlocked \in Keys \cup {NoKey}
  BY DEF PublishingTypeOK, KeysOK
<1>2. ASSUME job' \in Jobs, UNCHANGED <<versions, history>>  PROVE WorkerOK'
  BY <1>1, <1>2 DEF WorkerOK
<1>3. CASE Outside
  BY <1>2, <1>3, OutsideSteps
<1>4. CASE BuildManifest \/ SealIdentity \/ SealSign \/ AnnounceIdentity \/ AnnounceSign
  BY <1>2, <1>4, SigningSteps
<1>5. CASE TakeIdentity
  <2>1. UNCHANGED <<versions, history>>
    BY <1>5 DEF TakeIdentity
  <2>2. CASE UNCHANGED job
    BY <1>1, <1>2, <2>1, <2>2 DEF WorkerOK
  <2>3. CASE /\ Identity # NoKey
             /\ job' = [job EXCEPT !.publisher = Identity, !.version = NextVersion(Identity)]
    <3>1. Identity \in Keys
      BY <1>1, <2>3 DEF Identity
    <3>2. NextVersion(Identity) \in Nat
      BY <3>1, NextVersionIsNew
    <3> QED
      BY <1>1, <1>2, <2>1, <2>3, <3>1, <3>2 DEF WorkerOK, Jobs
  <2> QED
    BY <1>5, <2>2, <2>3 DEF TakeIdentity, Fails
<1>6. CASE SaveOpens \/ SaveEnds \/ RecordOpens \/ WorkFails
  BY <1>1, <1>6 DEF SaveOpens, SaveEnds, RecordOpens, WorkFails, Fails, WorkerOK
<1>7. CASE AcceptAnnounce
  BY <1>1, <1>7 DEF AcceptAnnounce, Fails, WorkerOK, Jobs
<1>8. CASE FinishPublish
  <2>1. job \in Jobs
    BY <1>1 DEF WorkerOK
  <2>2. Announce(job) \in Announces
    BY <2>1, JobForms
  <2> QED
    BY <1>1, <1>8, <2>2 DEF FinishPublish, WorkerOK
<1>9. CASE StartPublish
  BY <1>1, <1>2, <1>9, ForeignForms DEF StartPublish
<1>10. CASE Restart
  <2>1. job' \in Jobs
    BY <1>10, ForeignForms DEF Restart
  <2> QED
    BY <1>10, <2>1 DEF Restart, WorkerOK
<1>11. CASE UNCHANGED publishVars
  BY <1>1, <1>11 DEF publishVars, workerVars, WorkerOK
<1> QED
  BY <1>3, <1>4, <1>5, <1>6, <1>7, <1>8, <1>9, <1>10, <1>11 DEF PublishingNext, PublishStep, Outside

(* Keys enter the registry and are revoked there, and what lapsed stays so. *)
LEMMA LapsedStays ==
  ASSUME PublishingTypeOK, [PublishingNext]_publishVars
  PROVE  /\ \A k \in Keys : Lapsed(k) => Lapsed(k)'
         /\ \A k \in Keys : registry'[k] = "absent" => registry[k] = "absent"
<1>1. registry \in [Keys -> {"absent", "usable", "revoked"}]
  BY DEF PublishingTypeOK, KeysOK
<1>2. /\ \A k \in Keys : registry'[k] = "absent" => registry[k] = "absent"
      /\ \A k \in Keys : registry[k] = "revoked" => registry'[k] = "revoked"
  <2>1. CASE UNCHANGED registry
    BY <2>1
  <2>2. ASSUME NEW k \in Keys, Trusts(k) \/ (registry[k] = "usable" /\ registry' = [registry EXCEPT ![k] = "revoked"])
        PROVE  /\ \A j \in Keys : registry'[j] = "absent" => registry[j] = "absent"
               /\ \A j \in Keys : registry[j] = "revoked" => registry'[j] = "revoked"
    BY <1>1, <2>2 DEF Trusts
  <2>3. CASE \E k \in Keys : CreateKey(k) \/ CreateFails(k) \/ UnlockKey(k)
    <3>1. PICK k \in Keys : CreateKey(k) \/ CreateFails(k) \/ UnlockKey(k)
      BY <2>3
    <3>2. CASE UNCHANGED registry
      BY <2>1, <3>2
    <3>3. CASE ~UNCHANGED registry
      <4>1. Trusts(k)
        BY <3>1, <3>3 DEF CreateKey, CreateFails, UnlockKey
      <4> QED
        BY <2>2, <4>1
    <3> QED
      BY <3>2, <3>3
  <2>4. CASE KeyRevoked
    BY <2>2, <2>4 DEF KeyRevoked
  <2>5. CASE LockKey \/ StartPublish \/ PublishStep \/ WorkFails \/ AnnounceArrives \/ Restart \/ UNCHANGED publishVars
    BY <2>1, <2>5 DEF LockKey, StartPublish, PublishStep, WorkFails, AnnounceArrives, Restart, publishVars,
       TakeIdentity, BuildManifest, SealIdentity, SealSign, AnnounceIdentity, AnnounceSign, SaveOpens,
       SaveEnds, AcceptAnnounce, RecordOpens, FinishPublish, keyVars
  <2> QED
    BY <2>3, <2>4, <2>5 DEF PublishingNext
<1>3. unsaved \subseteq unsaved'
  <2>1. CASE \/ \E k \in Keys : CreateKey(k) \/ CreateFails(k) \/ UnlockKey(k)
             \/ LockKey \/ KeyRevoked \/ StartPublish \/ WorkFails \/ UNCHANGED publishVars
    BY <2>1 DEF CreateKey, CreateFails, UnlockKey, LockKey, KeyRevoked, StartPublish, WorkFails,
                recordVars, publishVars
  <2>2. CASE PublishStep
    BY <2>2 DEF PublishStep, TakeIdentity, BuildManifest, SealIdentity, SealSign, AnnounceIdentity,
       AnnounceSign, SaveOpens, SaveEnds, AcceptAnnounce, Keeps, Loses, RecordOpens, FinishPublish, recordVars
  <2>3. CASE AnnounceArrives \/ Restart
    BY <2>3 DEF AnnounceArrives, Restart, Keeps, Loses
  <2> QED
    BY <2>1, <2>2, <2>3 DEF PublishingNext
<1> QED
  BY <1>2, <1>3 DEF Lapsed

(* An announce that is accepted is in the record afterwards, or the record *)
(* was not kept.                                                           *)
LEMMA SavesOne ==
  ASSUME catalogue \in [Keys -> Announces], records \in [Keys -> Announces],
         NEW k \in Keys, NEW a \in Announces,
         catalogue' = [catalogue EXCEPT ![k] = a], Keeps(k) \/ Loses(k)
  PROVE  /\ catalogue' \in [Keys -> Announces] /\ records' \in [Keys -> Announces]
         /\ catalogue'[k] = a /\ (records'[k] = a \/ k \in unsaved')
         /\ records'[k] \in {a, records[k], NoAnnounce}
         /\ \A j \in Keys \ {k} : catalogue'[j] = catalogue[j] /\ records'[j] = records[j]
         /\ unsaved' \subseteq unsaved \cup {k} /\ unsaved \subseteq unsaved'
BY ForeignForms DEF Keeps, Loses

(* The catalogue and the records on disk keep their types.                 *)
LEMMA RecordsStep ==
  ASSUME PublishingTypeOK, [PublishingNext]_publishVars
  PROVE  RecordsOK'
<1>1. RecordsOK /\ job \in Jobs
  BY DEF PublishingTypeOK, WorkerOK
<1>2. ASSUME UNCHANGED <<catalogue, records, installed, announced>>  PROVE RecordsOK'
  BY <1>1, <1>2 DEF RecordsOK
<1>3. ASSUME NEW k \in Keys, CreateKey(k) \/ CreateFails(k) \/ UnlockKey(k)  PROVE RecordsOK'
  BY <1>2, <1>3 DEF CreateKey, CreateFails, UnlockKey, recordVars
<1>4. CASE LockKey \/ KeyRevoked \/ StartPublish \/ WorkFails
  BY <1>2, <1>4 DEF LockKey, KeyRevoked, StartPublish, WorkFails, recordVars
<1>5. CASE TakeIdentity \/ SaveOpens \/ SaveEnds
  BY <1>2, <1>5 DEF TakeIdentity, SaveOpens, SaveEnds, recordVars
<1>6. CASE BuildManifest \/ SealIdentity \/ SealSign \/ AnnounceIdentity \/ AnnounceSign
  BY <1>2, <1>6, SigningSteps DEF recordVars
<1>7. CASE AcceptAnnounce
  <2>1. Announce(job) \in Announces
    BY <1>1, JobForms
  <2>2. CASE Admissible(Announce(job))
    <3>1. /\ catalogue' = [catalogue EXCEPT ![job.publisher] = Announce(job)]
          /\ Keeps(job.publisher) \/ Loses(job.publisher)
      BY <1>7, <2>2 DEF AcceptAnnounce
    <3>2. catalogue' \in [Keys -> Announces]
      BY <1>1, <2>1, <3>1 DEF RecordsOK
    <3>3. records' \in [Keys -> Announces]
      BY <1>1, <2>1, <3>1, <3>2, ForeignForms DEF RecordsOK, Keeps, Loses
    <3> QED
      BY <1>1, <1>7, <2>1, <3>2, <3>3 DEF AcceptAnnounce, RecordsOK
  <2>3. CASE ~Admissible(Announce(job))
    BY <1>2, <1>7, <2>3 DEF AcceptAnnounce
  <2> QED
    BY <2>2, <2>3
<1>8. CASE RecordOpens \/ FinishPublish
  <2>1. job.version \in Nat
    BY <1>1 DEF Jobs
  <2> QED
    BY <1>1, <1>8, <2>1 DEF RecordOpens, FinishPublish, RecordsOK
<1>9. CASE AnnounceArrives
  <2>1. PICK k \in Keys, v \in 1..MaxVersion :
          catalogue' = [catalogue EXCEPT ![k] = Foreign(k, v)] /\ (Keeps(k) \/ Loses(k))
    BY <1>9 DEF AnnounceArrives
  <2>2. Foreign(k, v) \in Announces
    BY ForeignForms, PublishingBounds
  <2>3. catalogue' \in [Keys -> Announces] /\ records' \in [Keys -> Announces]
    BY <1>1, <2>1, <2>2, SavesOne DEF RecordsOK
  <2> QED
    BY <1>1, <1>9, <2>3 DEF AnnounceArrives, RecordsOK
<1>11. CASE Restart
  BY <1>1, <1>11, ForeignForms DEF Restart, RecordsOK
<1>10. CASE UNCHANGED publishVars
  BY <1>2, <1>10 DEF publishVars, recordVars
<1> QED
  BY <1>3, <1>4, <1>5, <1>6, <1>7, <1>8, <1>9, <1>10, <1>11 DEF PublishingNext, PublishStep

(* The variables keep their types.                                         *)
LEMMA PublishingTypeStep ==
  ASSUME PublishingTypeOK, [PublishingNext]_publishVars
  PROVE  PublishingTypeOK'
BY KeysStep, WorkerStep, RecordsStep DEF PublishingTypeOK

-----------------------------------------------------------------------------
(* The announces *)

(* The worker's announce is accepted.                                      *)
Accepts == AcceptAnnounce /\ Admissible(Announce(job))

(* Only an announce that is accepted, one that arrives and a restart       *)
(* change the catalogue and its records, only the first what was announced. *)
LEMMA CatalogueSteps ==
  ASSUME PublishingTypeOK, [PublishingNext]_publishVars
  PROVE  Accepts \/ AnnounceArrives \/ Restart \/ UNCHANGED <<catalogue, records, unsaved, announced>>
<1>1. CASE \/ \E k \in Keys : CreateKey(k) \/ CreateFails(k) \/ UnlockKey(k)
           \/ LockKey \/ KeyRevoked \/ StartPublish \/ WorkFails
  BY <1>1 DEF CreateKey, CreateFails, UnlockKey, LockKey, KeyRevoked, StartPublish, WorkFails,
              recordVars
<1>2. CASE TakeIdentity \/ SaveOpens \/ SaveEnds \/ RecordOpens \/ FinishPublish
  BY <1>2 DEF TakeIdentity, SaveOpens, SaveEnds, RecordOpens, FinishPublish, recordVars
<1>3. CASE BuildManifest \/ SealIdentity \/ SealSign \/ AnnounceIdentity \/ AnnounceSign
  BY <1>3, SigningSteps DEF recordVars
<1>4. CASE AcceptAnnounce
  BY <1>4 DEF AcceptAnnounce, Accepts
<1>5. CASE UNCHANGED publishVars
  BY <1>5 DEF publishVars, recordVars
<1> QED
  BY <1>1, <1>2, <1>3, <1>4, <1>5 DEF PublishingNext, PublishStep

(* What an accepted announce does.                                         *)
LEMMA AcceptStep ==
  ASSUME PublishingInv, Accepts
  PROVE  /\ pc = "accept" /\ pc' = "record" /\ UNCHANGED <<job, history, stored, installed>>
         /\ job.publisher \in Keys /\ job.signedBy = job.publisher
         /\ job.version > catalogue[job.publisher].version
         /\ catalogue' = [catalogue EXCEPT ![job.publisher] = Announce(job)]
         /\ Keeps(job.publisher) \/ Loses(job.publisher)
         /\ registry' = registry /\ registry[job.publisher] = "usable"
         /\ announced' = announced \cup {Announce(job)}
         /\ versions' = [versions EXCEPT ![job.publisher] = job.version]
<1>1. job \in Jobs
  BY DEF PublishingInv, PublishingTypeOK, WorkerOK
<1>2. job.publisher \in Keys
  BY DEF Accepts, AcceptAnnounce, PublishingInv, JobIsNew, Before
<1> QED
  BY <1>1, <1>2, JobForms DEF Accepts, AcceptAnnounce, Admissible, Genuine, Goes, keyVars

(* What another machine's announce does.                                   *)
LEMMA ArriveStep ==
  ASSUME AnnounceArrives
  PROVE  /\ UNCHANGED <<announced, workerVars, stored, installed, registry>>
         /\ \E k \in Keys, v \in Nat :
              /\ v > catalogue[k].version /\ registry[k] = "usable"
              /\ catalogue' = [catalogue EXCEPT ![k] = Foreign(k, v)]
              /\ Keeps(k) \/ Loses(k)
<1>1. PICK k \in Keys, v \in 1..MaxVersion :
        /\ Admissible(Foreign(k, v)) /\ catalogue' = [catalogue EXCEPT ![k] = Foreign(k, v)]
        /\ Keeps(k) \/ Loses(k)
  BY DEF AnnounceArrives
<1>2. v \in Nat
  BY PublishingBounds
<1>3. Foreign(k, v).publisher = k /\ Foreign(k, v).version = v
  BY <1>2, ForeignForms
<1>4. v > catalogue[k].version /\ registry[k] = "usable"
  BY <1>1, <1>3 DEF Admissible, Genuine
<1>5. UNCHANGED <<announced, workerVars, stored, installed, registry>>
  BY DEF AnnounceArrives, keyVars
<1> QED
  BY <1>1, <1>2, <1>4, <1>5

(* What a restart does: of a key that has not lapsed all comes back.       *)
LEMMA RestartStep ==
  ASSUME PublishingInv, Restart
  PROVE  /\ announced' = announced /\ registry' = registry /\ pc' = "idle" /\ phase' = "idle"
         /\ \A k \in Keys : Lapsed(k) \/ catalogue'[k].version = catalogue[k].version
         /\ \A k \in Keys : catalogue'[k] = records[k] \/ catalogue'[k].version = 0
         /\ \A k \in Keys : records'[k] = records[k] \/ (k \in unsaved' /\ records'[k].version = 0)
<1>1. /\ catalogue \in [Keys -> Announces] /\ records \in [Keys -> Announces]
      /\ registry \in [Keys -> {"absent", "usable", "revoked"}]
      /\ \A k \in Keys : catalogue[k].version \in Nat /\ records[k].version \in Nat
  BY DEF PublishingInv, PublishingTypeOK, KeysOK, RecordsOK, Announces
<1>2. /\ catalogue' = [k \in Keys |-> IF k \in Restored THEN records[k] ELSE NoAnnounce]
      /\ announced' = announced /\ registry' = registry /\ pc' = "idle" /\ phase' = "idle"
  BY DEF Restart
<1>3. ASSUME NEW k \in Keys, ~Lapsed(k)  PROVE catalogue'[k].version = catalogue[k].version
  <2>1. records[k].version = catalogue[k].version
    BY <1>3 DEF PublishingInv, SavedOK
  <2>2. CASE catalogue[k].version = 0
    BY <1>2, <2>1, <2>2, ForeignForms DEF Restored
  <2>3. CASE catalogue[k].version > 0
    <3>1. registry[k] = "usable"
      BY <1>1, <1>3, <2>3 DEF PublishingInv, SavedOK, Lapsed
    <3>2. k \in Restored
      BY <2>1, <2>3, <3>1 DEF Restored, Genuine, PublishingInv, SavedOK
    <3> QED
      BY <1>2, <2>1, <3>2
  <2> QED
    BY <1>1, <2>2, <2>3
<1>4. \A k \in Keys : catalogue'[k] = records[k] \/ catalogue'[k].version = 0
  BY <1>2, ForeignForms
<1>5. \A k \in Keys : records'[k] = records[k] \/ (k \in unsaved' /\ records'[k].version = 0)
  BY ForeignForms DEF Restart
<1> QED
  BY <1>2, <1>3, <1>4, <1>5

(* The catalogue's version of a publisher goes down only if its key lapsed. *)
LEMMA CatalogueGrowsStep ==
  ASSUME PublishingInv, [PublishingNext]_publishVars
  PROVE  CatalogueGrows
<1>1. \A k \in Keys : catalogue[k].version \in Nat /\ k \in DOMAIN catalogue
  BY DEF PublishingInv, PublishingTypeOK, RecordsOK, Announces
<1>2. PublishingTypeOK /\ job \in Jobs
  BY DEF PublishingInv, PublishingTypeOK, WorkerOK
<1>3. CASE Accepts
  <2>1. job.version \in Nat /\ Announce(job).version = job.version
    BY <1>2, JobForms DEF Jobs
  <2> QED
    BY <1>1, <1>3, <2>1, AcceptStep DEF CatalogueGrows
<1>4. CASE AnnounceArrives
  <2>1. PICK k \in Keys, v \in Nat :
          v > catalogue[k].version /\ catalogue' = [catalogue EXCEPT ![k] = Foreign(k, v)]
    BY <1>4, ArriveStep
  <2>2. Foreign(k, v).version = v
    BY ForeignForms
  <2> QED
    BY <1>1, <2>1, <2>2 DEF CatalogueGrows
<1>5. CASE UNCHANGED catalogue
  BY <1>1, <1>5 DEF CatalogueGrows
<1>6. CASE Restart
  BY <1>1, <1>6, RestartStep DEF CatalogueGrows
<1> QED
  BY <1>2, <1>3, <1>4, <1>5, <1>6, CatalogueSteps

(* The records stay what a restart can bring back.                         *)
LEMMA SavedStep ==
  ASSUME PublishingInv, [PublishingNext]_publishVars
  PROVE  SavedOK'
<1>1. /\ PublishingTypeOK /\ SavedOK /\ job \in Jobs
      /\ catalogue \in [Keys -> Announces] /\ records \in [Keys -> Announces]
  BY DEF PublishingInv, PublishingTypeOK, WorkerOK, RecordsOK
<1>2. /\ \A k \in Keys : Lapsed(k) => Lapsed(k)'
      /\ \A k \in Keys : registry'[k] = "absent" => registry[k] = "absent"
  BY <1>1, LapsedStays
<1>3. ASSUME NEW k \in Keys, NEW a \in Announces, a.publisher = k, a.signedBy = k,
             catalogue' = [catalogue EXCEPT ![k] = a], Keeps(k) \/ Loses(k),
             registry' = registry, registry[k] = "usable"
      PROVE  SavedOK'
  <2>1. /\ catalogue'[k] = a /\ (records'[k] = a \/ k \in unsaved')
        /\ records'[k] \in {a, records[k], NoAnnounce}
        /\ \A j \in Keys \ {k} : catalogue'[j] = catalogue[j] /\ records'[j] = records[j]
    BY <1>1, <1>3, SavesOne
  <2>2. Lapsed(k)' \/ records'[k].version = catalogue'[k].version
    BY <2>1, SavesOne, <1>1, <1>3 DEF Lapsed
  <2>3. records'[k].version > 0 => records'[k].publisher = k /\ records'[k].signedBy = k
    BY <1>1, <1>3, <2>1, ForeignForms DEF SavedOK
  <2> QED
    BY <1>1, <1>2, <1>3, <2>1, <2>2, <2>3 DEF SavedOK
<1>4. CASE Accepts
  <2>1. Announce(job) \in Announces /\ Announce(job).publisher = job.publisher /\ Announce(job).signedBy = job.signedBy
    BY <1>1, JobForms
  <2> QED
    BY <1>3, <1>4, <2>1, AcceptStep
<1>5. CASE AnnounceArrives
  <2>1. PICK k \in Keys, v \in Nat :
          /\ catalogue' = [catalogue EXCEPT ![k] = Foreign(k, v)] /\ registry[k] = "usable"
          /\ Keeps(k) \/ Loses(k)
    BY <1>5, ArriveStep
  <2>2. Foreign(k, v) \in Announces /\ Foreign(k, v).publisher = k /\ Foreign(k, v).signedBy = k
    BY ForeignForms
  <2>3. registry' = registry
    BY <1>5, ArriveStep
  <2> QED
    BY <1>3, <2>1, <2>2, <2>3
<1>6. CASE Restart
  <2>1. /\ \A k \in Keys : Lapsed(k) \/ catalogue'[k].version = catalogue[k].version
        /\ \A k \in Keys : catalogue'[k] = records[k] \/ catalogue'[k].version = 0
        /\ \A k \in Keys : records'[k] = records[k] \/ (k \in unsaved' /\ records'[k].version = 0)
        /\ registry' = registry
    BY <1>6, RestartStep
  <2> SUFFICES ASSUME NEW k \in Keys
               PROVE  /\ Lapsed(k)' \/ records'[k].version = catalogue'[k].version
                      /\ registry'[k] = "absent" => catalogue'[k].version = 0
                      /\ records'[k].version > 0 => records'[k].publisher = k /\ records'[k].signedBy = k
    BY DEF SavedOK
  <2>2. Lapsed(k)' \/ records'[k].version = catalogue'[k].version
    BY <1>1, <1>2, <2>1 DEF SavedOK, Lapsed
  <2>3. registry'[k] = "absent" => catalogue'[k].version = 0
    <3>1. catalogue' = [j \in Keys |-> IF j \in Restored THEN records[j] ELSE NoAnnounce]
      BY <1>6 DEF Restart
    <3>2. k \in Restored => registry[records[k].publisher] = "usable" /\ records[k].publisher = k
      BY <1>1 DEF Restored, Genuine, SavedOK
    <3> QED
      BY <2>1, <3>1, <3>2, ForeignForms
  <2>4. records'[k].version > 0 => records'[k].publisher = k /\ records'[k].signedBy = k
    BY <1>1, <2>1 DEF SavedOK
  <2> QED
    BY <2>2, <2>3, <2>4
<1>7. CASE UNCHANGED <<catalogue, records>>
  BY <1>1, <1>2, <1>7 DEF SavedOK
<1> QED
  BY <1>1, <1>4, <1>5, <1>6, <1>7, CatalogueSteps

(* An announce stays as it was made, and the catalogue has it or a newer   *)
(* one.                                                                    *)
LEMMA AnnouncesStep ==
  ASSUME PublishingInv, [PublishingNext]_publishVars
  PROVE  AnnouncesOK'
<1>1. PublishingTypeOK /\ AnnouncesOK /\ job \in Jobs
  BY DEF PublishingInv, PublishingTypeOK, WorkerOK
<1>2. CatalogueGrows /\ PublishingTypeOK'
  BY <1>1, CatalogueGrowsStep, PublishingTypeStep
<1>3. \A k \in Keys : catalogue[k].version \in Nat /\ catalogue'[k].version \in Nat
  BY <1>1, <1>2 DEF PublishingTypeOK, RecordsOK, Announces
<1>4. \A a \in announced : a.version \in Nat
  BY <1>1 DEF PublishingTypeOK, RecordsOK, Announces
<1>5. ASSUME NEW a \in announced
      PROVE  /\ a.publisher \in Keys
             /\ a.manifest.publisher = a.publisher /\ a.manifest.version = a.version
             /\ Lapsed(a.publisher)' \/ a.version <= catalogue'[a.publisher].version
  <2>1. Lapsed(a.publisher) => Lapsed(a.publisher)'
    BY <1>1, LapsedStays DEF AnnouncesOK
  <2> QED
    BY <1>1, <1>2, <1>3, <1>4, <2>1 DEF AnnouncesOK, CatalogueGrows
<1>6. CASE Accepts
  <2>1. /\ Announce(job).publisher \in Keys
        /\ Announce(job).manifest.publisher = Announce(job).publisher
        /\ Announce(job).manifest.version = Announce(job).version
        /\ Announce(job).version \in Nat
        /\ Announce(job).publisher = job.publisher
    BY <1>1, <1>6, AcceptStep, JobForms DEF Jobs
  <2>2. catalogue'[job.publisher] = Announce(job)
    BY <1>1, <1>6, AcceptStep DEF PublishingTypeOK, RecordsOK
  <2> QED
    BY <1>5, <1>6, <2>1, <2>2, AcceptStep DEF AnnouncesOK
<1>7. CASE ~Accepts
  <2>1. announced' = announced
    BY <1>1, <1>7, CatalogueSteps, ArriveStep, RestartStep
  <2> QED
    BY <1>5, <2>1 DEF AnnouncesOK
<1> QED
  BY <1>6, <1>7

(* The catalogue stays authentic.                                          *)
LEMMA AuthenticStep ==
  ASSUME PublishingInv, [PublishingNext]_publishVars
  PROVE  CatalogueIsAuthentic'
<1>1. PublishingTypeOK /\ CatalogueIsAuthentic /\ job \in Jobs
  BY DEF PublishingInv, PublishingTypeOK, WorkerOK
<1>2. catalogue \in [Keys -> Announces]
  BY <1>1 DEF PublishingTypeOK, RecordsOK
<1>3. CASE Accepts
  BY <1>1, <1>2, <1>3, AcceptStep, JobForms DEF CatalogueIsAuthentic
<1>4. CASE AnnounceArrives
  BY <1>1, <1>2, <1>4, ArriveStep, ForeignForms DEF CatalogueIsAuthentic
<1>5. CASE UNCHANGED catalogue
  BY <1>1, <1>5 DEF CatalogueIsAuthentic
<1>6. CASE Restart
  BY <1>6, RestartStep DEF CatalogueIsAuthentic, PublishingInv, SavedOK
<1> QED
  BY <1>1, <1>3, <1>4, <1>5, <1>6, CatalogueSteps

-----------------------------------------------------------------------------
(* The worker *)

(* What is about to be announced stays newer than what was.                *)
LEMMA JobStep ==
  ASSUME PublishingInv, [PublishingNext]_publishVars
  PROVE  JobIsNew' /\ JobIsAnnounced'
<1>1. PublishingTypeOK /\ AnnouncesOK /\ JobIsNew /\ JobIsAnnounced /\ job \in Jobs
  BY DEF PublishingInv, PublishingTypeOK, WorkerOK
<1>0. \A a \in announced : Lapsed(a.publisher) => Lapsed(a.publisher)'
  BY <1>1, LapsedStays DEF AnnouncesOK
<1> USE DEF Before, Told
<1>2. ASSUME pc' = "idle" \/ pc' = "identity"  PROVE JobIsNew' /\ JobIsAnnounced'
  BY <1>2 DEF JobIsNew, JobIsAnnounced
<1>3. ASSUME job'.publisher = job.publisher, job'.version = job.version,
             announced' = announced, versions' = versions, pc \in Before, pc' \in Before
      PROVE  JobIsNew' /\ JobIsAnnounced'
  BY <1>0, <1>1, <1>3 DEF JobIsNew, JobIsAnnounced
<1>4. CASE Outside
  <2>1. /\ pc' = pc /\ announced' = announced /\ versions' = versions /\ SameJob
    BY <1>1, <1>4, OutsideSteps
  <2>2. Announce(job') = Announce(job)
    BY <2>1 DEF SameJob, Announce, Envelope
  <2> QED
    BY <1>0, <1>1, <2>1, <2>2 DEF JobIsNew, JobIsAnnounced, SameJob
<1>5. CASE BuildManifest \/ SealIdentity \/ SealSign \/ AnnounceIdentity \/ AnnounceSign
  BY <1>1, <1>2, <1>3, <1>5, SigningSteps DEF recordVars
<1>6. CASE TakeIdentity
  <2>1. CASE /\ Identity # NoKey /\ pc' = "build"
             /\ job' = [job EXCEPT !.publisher = Identity, !.version = NextVersion(Identity)]
    <3>1. Identity \in Keys
      BY <1>1, <2>1 DEF Identity, PublishingTypeOK, KeysOK
    <3>2. job'.publisher = Identity /\ job'.version = NextVersion(Identity)
      BY <1>1, <2>1 DEF Jobs
    <3>3. /\ NextVersion(Identity) \in Nat /\ NextVersion(Identity) > catalogue[Identity].version
          /\ NextVersion(Identity) > versions[Identity]
      BY <1>1, <3>1, NextVersionIsNew
    <3>4. catalogue[Identity].version \in Nat /\ \A a \in announced : a.version \in Nat
      BY <1>1, <3>1 DEF PublishingTypeOK, RecordsOK, Announces
    <3>5. announced' = announced /\ versions' = versions
      BY <1>6 DEF TakeIdentity, recordVars
    <3> QED
      BY <1>0, <1>1, <2>1, <3>1, <3>2, <3>3, <3>4, <3>5 DEF JobIsNew, JobIsAnnounced, AnnouncesOK
  <2> QED
    BY <1>2, <1>6, <2>1 DEF TakeIdentity, Fails, Goes
<1>7. CASE SaveOpens \/ SaveEnds
  BY <1>3, <1>7 DEF SaveOpens, SaveEnds, Goes
<1>8. CASE Accepts
  <2>1. job.version \in Nat /\ versions \in [Keys -> Nat]
    BY <1>1 DEF Jobs, PublishingTypeOK, WorkerOK
  <2>2. versions'[job.publisher] = job.version
    BY <1>8, <2>1, AcceptStep
  <2> QED
    BY <1>8, <2>1, <2>2, AcceptStep DEF JobIsNew, JobIsAnnounced
<1>9. CASE RecordOpens
  BY <1>1, <1>9 DEF RecordOpens, Goes, JobIsNew, JobIsAnnounced
<1>10. CASE FinishPublish \/ WorkFails \/ Restart \/ StartPublish \/ (AcceptAnnounce /\ ~Accepts)
  BY <1>2, <1>10 DEF FinishPublish, WorkFails, Fails, Restart, StartPublish, AcceptAnnounce, Accepts
<1>11. CASE UNCHANGED publishVars
  BY <1>0, <1>1, <1>11 DEF publishVars, workerVars, recordVars, JobIsNew, JobIsAnnounced
<1> QED
  BY <1>4, <1>5, <1>6, <1>7, <1>8, <1>9, <1>10, <1>11 DEF PublishingNext, PublishStep, Outside

(* The catalogue has what this session announced, or newer.                *)
LEMMA VersionsStep ==
  ASSUME PublishingInv, [PublishingNext]_publishVars
  PROVE  /\ VersionsOK'
         /\ Restart \/ \A k \in Keys : versions[k] <= versions'[k]
<1>1. /\ PublishingTypeOK /\ VersionsOK /\ job \in Jobs /\ versions \in [Keys -> Nat]
      /\ \A k \in Keys : k \in DOMAIN catalogue /\ catalogue[k].version \in Nat
  BY DEF PublishingInv, PublishingTypeOK, WorkerOK, RecordsOK, Announces
<1>2. CASE Accepts
  <2>1. Announce(job).version = job.version /\ job.version \in Nat
    BY <1>1, JobForms DEF Jobs
  <2>2. /\ catalogue' = [catalogue EXCEPT ![job.publisher] = Announce(job)]
        /\ versions' = [versions EXCEPT ![job.publisher] = job.version]
        /\ job.version > catalogue[job.publisher].version /\ job.publisher \in Keys
    BY <1>2, AcceptStep
  <2> QED
    BY <1>1, <2>1, <2>2 DEF VersionsOK
<1>3. CASE AnnounceArrives
  <2>1. PICK k \in Keys, v \in Nat :
          v > catalogue[k].version /\ catalogue' = [catalogue EXCEPT ![k] = Foreign(k, v)]
    BY <1>3, ArriveStep
  <2>2. Foreign(k, v).version = v /\ versions' = versions
    BY <1>3, ArriveStep, ForeignForms DEF workerVars
  <2> QED
    BY <1>1, <2>1, <2>2 DEF VersionsOK
<1>4. CASE Restart
  <2>1. PublishingTypeOK'
    BY <1>1, PublishingTypeStep
  <2>2. \A k \in Keys : versions'[k] = 0 /\ catalogue'[k].version \in Nat
    BY <1>4, <2>1 DEF Restart, PublishingTypeOK, RecordsOK, Announces
  <2> QED
    BY <1>4, <2>2 DEF VersionsOK
<1>5. CASE ~Accepts /\ ~AnnounceArrives /\ ~Restart
  <2>1. catalogue' = catalogue
    BY <1>1, <1>5, CatalogueSteps
  <2>2. versions' = versions
    <3>1. CASE Outside
      BY <1>1, <3>1, OutsideSteps
    <3>2. CASE BuildManifest \/ SealIdentity \/ SealSign \/ AnnounceIdentity \/ AnnounceSign
      BY <1>1, <3>2, SigningSteps
    <3>3. CASE TakeIdentity \/ SaveOpens \/ SaveEnds \/ RecordOpens \/ FinishPublish \/ StartPublish \/ WorkFails
      BY <3>3 DEF TakeIdentity, SaveOpens, SaveEnds, RecordOpens, FinishPublish, StartPublish, WorkFails
    <3>4. CASE AcceptAnnounce
      BY <1>5, <3>4 DEF AcceptAnnounce, Accepts
    <3>5. CASE UNCHANGED publishVars
      BY <3>5 DEF publishVars, workerVars
    <3> QED
      BY <1>5, <3>1, <3>2, <3>3, <3>4, <3>5 DEF PublishingNext, PublishStep, Outside
  <2> QED
    BY <1>1, <2>1, <2>2 DEF VersionsOK
<1> QED
  BY <1>2, <1>3, <1>4, <1>5

(* What the history has was announced, and its last release is installed.  *)
LEMMA HistoryStep ==
  ASSUME PublishingInv, [PublishingNext]_publishVars
  PROVE  HistoryOK' /\ LastIsInstalled'
<1>1. /\ PublishingTypeOK /\ JobIsAnnounced /\ HistoryOK /\ LastIsInstalled /\ job \in Jobs
      /\ history \in Seq(Announces) /\ installed \in [Keys -> Nat]
  BY DEF PublishingInv, PublishingTypeOK, WorkerOK, RecordsOK
<1>0. /\ \A i \in DOMAIN history : history[i].publisher \in Keys /\ history[i].version \in Nat
      /\ versions \in [Keys -> Nat] /\ versions' \in [Keys -> Nat]
      /\ ~Restart => \A k \in Keys : versions[k] <= versions'[k]
  <2>1. versions \in [Keys -> Nat] /\ versions' \in [Keys -> Nat]
    BY <1>1, PublishingTypeStep DEF PublishingTypeOK, WorkerOK
  <2>2. \A i \in DOMAIN history : history[i] \in announced
    BY <1>1 DEF HistoryOK
  <2>3. \A a \in announced : a.publisher \in Keys /\ a.version \in Nat
    BY DEF PublishingInv, AnnouncesOK, PublishingTypeOK, RecordsOK, Announces
  <2> QED
    BY <2>1, <2>2, <2>3, VersionsStep
<1>2. ASSUME history' = history, announced \subseteq announced', pc' # "idle" \/ phase' # "done", ~Restart
      PROVE  HistoryOK' /\ LastIsInstalled'
  <2>1. \A i \in DOMAIN history : history[i].version <= versions'[history[i].publisher]
    BY <1>0, <1>1, <1>2 DEF HistoryOK
  <2> QED
    BY <1>1, <1>2, <2>1 DEF HistoryOK, LastIsInstalled
<1>3. ASSUME UNCHANGED <<pc, phase, history, announced, installed>>, ~Restart
      PROVE  HistoryOK' /\ LastIsInstalled'
  <2>1. \A i \in DOMAIN history : history[i].version <= versions'[history[i].publisher]
    BY <1>0, <1>1, <1>3 DEF HistoryOK
  <2> QED
    BY <1>1, <1>3, <2>1 DEF HistoryOK, LastIsInstalled
<1>4. CASE Outside /\ ~Restart
  BY <1>1, <1>3, <1>4, OutsideSteps
<1>5. CASE ~Restart /\ (BuildManifest \/ SealIdentity \/ SealSign \/ AnnounceIdentity \/ AnnounceSign)
  BY <1>1, <1>2, <1>5, SigningSteps DEF recordVars, Before
<1>6. CASE ~Restart /\ (TakeIdentity \/ SaveOpens \/ SaveEnds \/ StartPublish \/ RecordOpens \/ WorkFails)
  BY <1>2, <1>6 DEF TakeIdentity, SaveOpens, SaveEnds, StartPublish, RecordOpens, WorkFails,
                    Goes, Fails, recordVars
<1>7. CASE AcceptAnnounce /\ ~Restart
  <2>1. history' = history /\ (pc' # "idle" \/ phase' # "done")
    BY <1>7 DEF AcceptAnnounce, Goes, Fails
  <2>2. announced \subseteq announced'
    BY <1>7 DEF AcceptAnnounce
  <2> QED
    BY <1>2, <1>7, <2>1, <2>2
<1>8. CASE Restart
  BY <1>8 DEF Restart, HistoryOK, LastIsInstalled
<1>9. CASE FinishPublish
  <2>1. /\ history' = Append(history, Announce(job)) /\ announced' = announced
        /\ installed' = [installed EXCEPT ![job.publisher] = job.version]
    BY <1>9 DEF FinishPublish
  <2>2. job.publisher \in Keys /\ Announce(job) \in announced /\ job.version <= versions[job.publisher]
    BY <1>1, <1>9 DEF FinishPublish, JobIsAnnounced, Told
  <2>3. Announce(job).publisher = job.publisher /\ Announce(job).version = job.version
    BY <1>1, JobForms
  <2>4. Announce(job) \in Announces
    BY <1>1, JobForms
  <2>5. /\ history' # <<>> /\ history'[Len(history')] = Announce(job)
        /\ \A i \in DOMAIN history' : history'[i] = Announce(job) \/ (i \in DOMAIN history /\ history'[i] = history[i])
    BY <1>1, <2>1, <2>4
  <2>6. HistoryOK'
    <3>1. versions' = versions
      BY <1>9 DEF FinishPublish
    <3> QED
      BY <1>1, <2>1, <2>2, <2>3, <2>5, <3>1 DEF HistoryOK
  <2>7. LastIsInstalled'
    BY <1>1, <2>1, <2>2, <2>3, <2>5 DEF LastIsInstalled
  <2> QED
    BY <2>6, <2>7
<1>10. CASE UNCHANGED publishVars /\ ~Restart
  BY <1>3, <1>10 DEF publishVars, workerVars, recordVars
<1> QED
  BY <1>4, <1>5, <1>6, <1>7, <1>8, <1>9, <1>10 DEF PublishingNext, PublishStep, Outside

-----------------------------------------------------------------------------
(* The theorems *)

(* The program starts with no key and nothing published.                   *)
LEMMA PublishingInitially == PublishingInit => PublishingInv
<1> SUFFICES ASSUME PublishingInit PROVE PublishingInv
  OBVIOUS
<1>1. KeysOK
  BY DEF PublishingInit, KeysOK
<1>2. WorkerOK
  BY ForeignForms DEF PublishingInit, WorkerOK
<1>3. RecordsOK
  BY ForeignForms DEF PublishingInit, RecordsOK
<1>4. AnnouncesOK /\ JobIsNew /\ JobIsAnnounced /\ HistoryOK /\ LastIsInstalled
  BY DEF PublishingInit, AnnouncesOK, JobIsNew, JobIsAnnounced, HistoryOK, LastIsInstalled,
     Before, Told
<1>6. SavedOK /\ VersionsOK
  BY ForeignForms DEF PublishingInit, SavedOK, VersionsOK
<1>5. CatalogueIsAuthentic
  BY ForeignForms DEF PublishingInit, CatalogueIsAuthentic
<1> QED
  BY <1>1, <1>2, <1>3, <1>4, <1>5, <1>6 DEF PublishingInv, PublishingTypeOK

(* Every step keeps the invariant.                                         *)
LEMMA PublishingInductive ==
  PublishingInv /\ [PublishingNext]_publishVars => PublishingInv'
<1> SUFFICES ASSUME PublishingInv, [PublishingNext]_publishVars PROVE PublishingInv'
  OBVIOUS
<1>1. PublishingTypeOK
  BY DEF PublishingInv
<1> QED
  BY <1>1, PublishingTypeStep, SavedStep, AnnouncesStep, AuthenticStep, JobStep, VersionsStep,
     HistoryStep DEF PublishingInv

(* The invariant holds in every state.                                     *)
LEMMA PublishingInvariant == PublishingSpec => []PublishingInv
BY PublishingInitially, PublishingInductive, PTL DEF PublishingSpec

(* The catalogue keeps no announce another program would refuse, whatever  *)
(* is done to the keys while the worker seals and signs                    *)
(* (PublishService::Publish, AnnounceReceiver::Accept).                    *)
THEOREM CatalogueStaysAuthentic == PublishingSpec => []CatalogueIsAuthentic
<1>1. PublishingInv => CatalogueIsAuthentic
  BY DEF PublishingInv
<1> QED
  BY <1>1, PublishingInvariant, PTL

(* A publisher's release in the catalogue is only replaced by a newer one, *)
(* restarts included, unless its key was revoked or a record of it was not *)
(* kept (AnnounceReceiver::Accept, Restore).                               *)
THEOREM CatalogueOnlyGrows == PublishingSpec => [][CatalogueGrows]_publishVars
<1>1. PublishingInv /\ [PublishingNext]_publishVars => CatalogueGrows
  BY CatalogueGrowsStep
<1> QED
  BY <1>1, PublishingInvariant, PTL DEF PublishingSpec

(* Storing an envelope takes none away that was announced, of a key that   *)
(* has not lapsed, or in this session: its version is a new one.           *)
LEMMA OpeningKeepsTheAnnounced ==
  ASSUME PublishingInv, AnnouncedIsStored, HistoryIsKept, SaveOpens
  PROVE  AnnouncedIsStored' /\ HistoryIsKept'
<1>1. /\ job \in Jobs /\ \A a \in announced : a.version \in Nat
      /\ versions \in [Keys -> Nat]
  BY DEF PublishingInv, PublishingTypeOK, WorkerOK, RecordsOK, Announces
<1>2. /\ stored' = stored \ {Envelope(job)} /\ pc = "store"
      /\ UNCHANGED <<announced, history, unsaved, registry>>
  BY DEF SaveOpens, Goes, keyVars
<1>3. ASSUME NEW a \in announced, a.publisher = job.publisher => a.version < job.version
      PROVE  a.manifest # Envelope(job)
  <2>1. a.manifest.publisher = a.publisher /\ a.manifest.version = a.version
    BY DEF PublishingInv, AnnouncesOK
  <2>2. Envelope(job).publisher = job.publisher /\ Envelope(job).version = job.version
    BY <1>1, JobForms
  <2>3. job.version \in Nat
    BY <1>1 DEF Jobs
  <2> QED
    BY <1>1, <1>3, <2>1, <2>2, <2>3
<1>4. AnnouncedIsStored'
  <2>1. ASSUME NEW a \in announced, ~Lapsed(a.publisher)  PROVE a.manifest \in stored'
    <3>1. a.publisher = job.publisher => a.version < job.version
      BY <1>2, <2>1 DEF PublishingInv, JobIsNew, Before
    <3> QED
      BY <1>2, <1>3, <2>1, <3>1 DEF AnnouncedIsStored
  <2> QED
    BY <1>2, <2>1 DEF AnnouncedIsStored, Lapsed
<1>5. HistoryIsKept'
  <2>1. ASSUME NEW i \in DOMAIN history  PROVE history[i].manifest \in stored'
    <3>1. history[i] \in announced /\ history[i].version <= versions[history[i].publisher]
      BY DEF PublishingInv, HistoryOK
    <3>2. job.version > versions[job.publisher] /\ job.version \in Nat /\ job.publisher \in Keys
      BY <1>1, <1>2 DEF PublishingInv, JobIsNew, Before, Jobs
    <3>3. history[i].publisher = job.publisher => history[i].version < job.version
      BY <1>1, <3>1, <3>2
    <3> QED
      BY <1>2, <1>3, <3>1, <3>3 DEF HistoryIsKept
  <2> QED
    BY <1>2, <2>1 DEF HistoryIsKept
<1> QED
  BY <1>4, <1>5

(* Steps that do not open an envelope's file take no envelope away.        *)
LEMMA StoredGrows ==
  ASSUME PublishingTypeOK, [PublishingNext]_publishVars, ~SaveOpens
  PROVE  stored \subseteq stored'
<1>1. CASE Outside
  BY <1>1, OutsideSteps
<1>2. CASE BuildManifest \/ SealIdentity \/ SealSign \/ AnnounceIdentity \/ AnnounceSign
  BY <1>2, SigningSteps DEF recordVars
<1>3. CASE TakeIdentity \/ SaveEnds \/ AcceptAnnounce \/ RecordOpens \/ FinishPublish
  BY <1>3 DEF TakeIdentity, SaveEnds, AcceptAnnounce, RecordOpens, FinishPublish, recordVars
<1>4. CASE StartPublish \/ WorkFails \/ Restart
  BY <1>4 DEF StartPublish, WorkFails, Restart, recordVars
<1>5. CASE UNCHANGED publishVars
  BY <1>5 DEF publishVars, recordVars
<1> QED
  BY <1>1, <1>2, <1>3, <1>4, <1>5 DEF PublishingNext, PublishStep, Outside

(* An envelope stays stored from the end of its writing until it is        *)
(* announced.                                                              *)
LEMMA KeptStep ==
  ASSUME ~LosesTails, PublishingInv, JobIsKept, [PublishingNext]_publishVars
  PROVE  JobIsKept'
<1>1. PublishingTypeOK /\ job \in Jobs
  BY DEF PublishingInv, PublishingTypeOK, WorkerOK
<1> USE DEF Kept
<1>2. ASSUME pc' \notin Kept  PROVE JobIsKept'
  BY <1>2 DEF JobIsKept
<1>3. ASSUME pc \in Kept, Envelope(job') = Envelope(job), ~SaveOpens  PROVE JobIsKept'
  BY <1>1, <1>3, StoredGrows DEF JobIsKept
<1>4. CASE Outside
  <2>1. pc' = pc /\ SameJob
    BY <1>1, <1>4, OutsideSteps
  <2>2. Envelope(job') = Envelope(job)
    BY <2>1 DEF SameJob, Envelope
  <2>3. pc \in Kept => ~SaveOpens
    BY DEF SaveOpens, Goes
  <2> QED
    BY <1>2, <1>3, <2>1, <2>2, <2>3
<1>5. CASE BuildManifest \/ SealIdentity \/ SealSign \/ AnnounceIdentity \/ AnnounceSign
  BY <1>1, <1>2, <1>5, SigningSteps DEF Before
<1>6. CASE TakeIdentity \/ SaveOpens \/ StartPublish \/ FinishPublish \/ WorkFails \/ Restart
  BY <1>2, <1>6 DEF TakeIdentity, SaveOpens, StartPublish, FinishPublish, WorkFails, Restart,
                    Goes, Fails
<1>7. CASE SaveEnds
  BY <1>7 DEF SaveEnds, JobIsKept
<1>8. CASE AcceptAnnounce \/ RecordOpens
  <2>1. pc \in Kept /\ UNCHANGED job
    BY <1>8 DEF AcceptAnnounce, RecordOpens, Goes, Fails
  <2>2. ~SaveOpens
    BY <1>8 DEF SaveOpens, Goes, AcceptAnnounce, RecordOpens
  <2> QED
    BY <1>3, <2>1, <2>2
<1>9. CASE UNCHANGED publishVars
  BY <1>9 DEF publishVars, workerVars, recordVars, JobIsKept
<1> QED
  BY <1>4, <1>5, <1>6, <1>7, <1>8, <1>9 DEF PublishingNext, PublishStep, Outside

(* With streams that lose nothing every step keeps what is stored.         *)
LEMMA StoredInductive ==
  ASSUME ~LosesTails
  PROVE  StoredInv /\ [PublishingNext]_publishVars => StoredInv'
<1> SUFFICES ASSUME StoredInv, [PublishingNext]_publishVars PROVE StoredInv'
  OBVIOUS
<1>1. /\ PublishingInv /\ JobIsKept /\ AnnouncedIsStored /\ HistoryIsKept
      /\ PublishingTypeOK /\ job \in Jobs /\ history \in Seq(Announces)
  BY DEF StoredInv, PublishingInv, PublishingTypeOK, WorkerOK
<1>2. PublishingInv' /\ JobIsKept'
  BY <1>1, PublishingInductive, KeptStep
<1>3. CASE SaveOpens
  BY <1>1, <1>2, <1>3, OpeningKeepsTheAnnounced DEF StoredInv
<1>4. CASE ~SaveOpens
  <2>1. stored \subseteq stored'
    BY <1>1, <1>4, StoredGrows
  <2>2. \A a \in announced : Lapsed(a.publisher)' \/ a.manifest \in stored'
    <3>1. \A a \in announced : a.publisher \in Keys
      BY <1>1 DEF PublishingInv, AnnouncesOK
    <3> QED
      BY <1>1, <2>1, <3>1, LapsedStays DEF AnnouncedIsStored
  <2>3. AnnouncedIsStored'
    <3>1. CASE Accepts
      <4>1. Envelope(job) \in stored /\ Announce(job).manifest = Envelope(job)
        BY <1>1, <3>1, AcceptStep, JobForms DEF JobIsKept, Kept
      <4> QED
        BY <1>1, <2>1, <2>2, <3>1, <4>1, AcceptStep DEF AnnouncedIsStored
    <3>2. CASE ~Accepts
      <4>1. announced' = announced
        BY <1>1, <3>2, CatalogueSteps, ArriveStep, RestartStep
      <4> QED
        BY <2>2, <4>1 DEF AnnouncedIsStored
    <3> QED
      BY <3>1, <3>2
  <2>4. HistoryIsKept'
    <3>1. CASE history' = history
      BY <1>1, <2>1, <3>1 DEF HistoryIsKept
    <3>2. CASE history' = <<>>
      BY <3>2 DEF HistoryIsKept
    <3>3. CASE FinishPublish
      <4>1. /\ history' = Append(history, Announce(job)) /\ pc = "finish" /\ stored' = stored
        BY <3>3 DEF FinishPublish
      <4>2. Announce(job).manifest \in stored /\ Announce(job) \in Announces
        BY <1>1, <4>1, JobForms DEF JobIsKept, Kept
      <4> QED
        BY <1>1, <4>1, <4>2 DEF HistoryIsKept
    <3>4. history' = history \/ history' = <<>> \/ FinishPublish
      <4>1. CASE Outside
        BY <1>1, <4>1, OutsideSteps
      <4>2. CASE BuildManifest \/ SealIdentity \/ SealSign \/ AnnounceIdentity \/ AnnounceSign
        BY <1>1, <4>2, SigningSteps
      <4>3. CASE \/ TakeIdentity \/ SaveOpens \/ SaveEnds \/ RecordOpens \/ AcceptAnnounce \/ StartPublish
                 \/ WorkFails \/ Restart
        BY <4>3 DEF TakeIdentity, SaveOpens, SaveEnds, RecordOpens, AcceptAnnounce, StartPublish, WorkFails,
                    Restart
      <4>4. CASE UNCHANGED publishVars
        BY <4>4 DEF publishVars, workerVars
      <4> QED
        BY <4>1, <4>2, <4>3, <4>4 DEF PublishingNext, PublishStep, Outside
    <3> QED
      BY <3>1, <3>2, <3>3, <3>4
  <2> QED
    BY <1>2, <2>3, <2>4 DEF StoredInv
<1> QED
  BY <1>3, <1>4

(* With streams that close with all their bytes, every announce the        *)
(* catalogue took has its envelope in the manifest store, through failed   *)
(* writes and restarts, unless the record of an announce of its key was    *)
(* not kept, or the key revoked, and its numbers may start again           *)
(* (PublishService::Publish, ManifestStore::Save, AnnounceStore::Save).    *)
THEOREM AnnouncedStaysStored == ~LosesTails => (PublishingSpec => []AnnouncedIsStored)
<1> SUFFICES ASSUME ~LosesTails PROVE PublishingSpec => []AnnouncedIsStored
  OBVIOUS
<1>1. PublishingInit => StoredInv
  BY PublishingInitially DEF PublishingInit, StoredInv, JobIsKept, Kept, AnnouncedIsStored, HistoryIsKept
<1>2. StoredInv /\ [PublishingNext]_publishVars => StoredInv'
  BY StoredInductive
<1>3. StoredInv => AnnouncedIsStored
  BY DEF StoredInv
<1> QED
  BY <1>1, <1>2, <1>3, PTL DEF PublishingSpec

(* What the history shows as published is stored, in the catalogue or      *)
(* replaced there by a newer release, and installed                        *)
(* (PublishService::History).                                              *)
THEOREM HistoryStaysBacked == ~LosesTails => (PublishingSpec => []HistoryIsBacked)
<1> SUFFICES ASSUME ~LosesTails PROVE PublishingSpec => []HistoryIsBacked
  OBVIOUS
<1>1. PublishingInit => StoredInv
  BY PublishingInitially DEF PublishingInit, StoredInv, JobIsKept, Kept, AnnouncedIsStored, HistoryIsKept
<1>2. StoredInv /\ [PublishingNext]_publishVars => StoredInv'
  BY StoredInductive
<1>3. ASSUME StoredInv  PROVE HistoryIsBacked
  <2>1. /\ \A i \in DOMAIN history : history[i] \in announced
        /\ pc = "idle" /\ phase = "done" =>
             installed[history[Len(history)].publisher] = history[Len(history)].version
    BY <1>3 DEF StoredInv, PublishingInv, HistoryOK, LastIsInstalled
  <2>2. \A a \in announced : a.publisher \in Keys /\ a.version \in Nat
    BY <1>3 DEF StoredInv, PublishingInv, AnnouncesOK, PublishingTypeOK, RecordsOK, Announces
  <2>3. \A k \in Keys : catalogue[k].version \in Nat /\ versions[k] \in Nat /\ versions[k] <= catalogue[k].version
    BY <1>3 DEF StoredInv, PublishingInv, PublishingTypeOK, WorkerOK, RecordsOK, Announces, VersionsOK
  <2>4. \A i \in DOMAIN history : history[i].version <= versions[history[i].publisher] /\ history[i].manifest \in stored
    BY <1>3 DEF StoredInv, HistoryIsKept, PublishingInv, HistoryOK
  <2>5. \A i \in DOMAIN history : catalogue[history[i].publisher].version >= history[i].version
    BY <2>1, <2>2, <2>3, <2>4
  <2> QED
    BY <2>1, <2>4, <2>5 DEF HistoryIsBacked
<1> QED
  BY <1>1, <1>2, <1>3, PTL DEF PublishingSpec

(* A publisher announces one manifest under a version, in all sessions:    *)
(* what is announced is newer than all that was, unless the key was        *)
(* revoked or a record of it was not kept (NextVersion_, Accept).          *)
THEOREM VersionsAreUsedOnce == PublishingSpec => [][VersionIsNew]_publishVars
<1>1. PublishingInv /\ [PublishingNext]_publishVars => VersionIsNew
  BY DEF PublishingInv, JobIsNew, Before, VersionIsNew
<1> QED
  BY <1>1, PublishingInvariant, PTL DEF PublishingSpec

(* The key in use can be unlocked again after a restart: its file is whole *)
(* from before it is used, and nothing writes to it afterwards             *)
(* (SigningKeyStore::Create, Unlock).                                      *)
THEOREM KeysAreKept == ~LosesTails => (PublishingSpec => []KeyInUseIsKept)
<1> SUFFICES ASSUME ~LosesTails PROVE PublishingSpec => []KeyInUseIsKept
  OBVIOUS
<1>1. PublishingInit => KeyInUseIsKept
  BY DEF PublishingInit, KeyInUseIsKept
<1>2. ASSUME PublishingInv, KeyInUseIsKept, [PublishingNext]_publishVars  PROVE KeyInUseIsKept'
  <2>1. KeysOK /\ PublishingTypeOK
    BY <1>2 DEF PublishingInv, PublishingTypeOK
  <2>2. ASSUME UNCHANGED <<keyFile, unlocked>>  PROVE KeyInUseIsKept'
    BY <1>2, <2>2 DEF KeyInUseIsKept
  <2>3. ASSUME NEW k \in Keys, CreateKey(k) \/ CreateFails(k) \/ UnlockKey(k)  PROVE KeyInUseIsKept'
    BY <1>2, <2>1, <2>3 DEF CreateKey, CreateFails, UnlockKey, Unlocks, Opens, ReadSealed, Uses,
                            Written, Sealed, KeysOK, KeyInUseIsKept
  <2>4. CASE LockKey \/ Restart
    BY <2>4 DEF LockKey, Uses, Restart, KeyInUseIsKept
  <2>5. CASE PublishStep
    BY <2>2, <2>5 DEF PublishStep, TakeIdentity, BuildManifest, SealIdentity, SealSign, keyVars,
       AnnounceIdentity, AnnounceSign, SaveOpens, SaveEnds, AcceptAnnounce, RecordOpens, FinishPublish
  <2>6. CASE StartPublish \/ WorkFails \/ AnnounceArrives \/ KeyRevoked
    BY <2>2, <2>6 DEF StartPublish, WorkFails, AnnounceArrives, KeyRevoked, keyVars
  <2>7. CASE UNCHANGED publishVars
    BY <2>2, <2>7 DEF publishVars, keyVars
  <2> QED
    BY <1>2, <2>3, <2>4, <2>5, <2>6, <2>7 DEF PublishingNext
<1> QED
  BY <1>1, <1>2, PublishingInvariant, PTL DEF PublishingSpec

(***************************************************************************)
(* The document on its way.                                                *)
(*                                                                         *)
(* Between two checks a stored copy may be damaged, and damaged again; but *)
(* no damage forges a signature, so a copy that passes Authentic can only  *)
(* be the announced document.  What a manifest says is opaque here: Decode *)
(* and Readable are applied and never looked into.                         *)
(***************************************************************************)
IsSealed(document) == document = Seal(document.fingerprint, document.payload)

IsEnvelope(copy) ==
  /\ copy = [magic |-> copy.magic, format |-> copy.format, whole |-> copy.whole,
             fingerprint |-> copy.fingerprint, payload |-> copy.payload,
             signature |-> copy.signature]
  /\ copy.magic \in BOOLEAN /\ copy.format \in BOOLEAN /\ copy.whole \in BOOLEAN

(* What is announced was sealed with some key. *)
SealedOK == step \in {"hashing", "sealed"} => IsSealed(sealed)

OfferOK == offer # None => IsSealed(offer[1].document)

FetchOK == staged # None => offer # None /\ staged = <<staged[1]>>

(* What is stored was adopted once: it carries the announced signature,    *)
(* and the announced document, which stays the announced one, is of the    *)
(* identity it was announced with then.                                    *)
StoreOK ==
  kept # None =>
    LET document == offer[1].document
    IN  /\ offer # None
        /\ kept = <<kept[1]>>
        /\ IsEnvelope(kept[1])
        /\ kept[1].signature = document.signature
        /\ adopted[1].document = document
        /\ IdentityOf(Decode(document.payload[1])) = IdentityOf(adopted[1])

InUseOK ==
  inUse # None =>
    /\ kept # None
    /\ kept = <<offer[1].document>>
    /\ inUse = <<Decode(offer[1].document.payload[1])>>

DeliveryInv == SealedOK /\ OfferOK /\ FetchOK /\ StoreOK /\ InUseOK

(* Seal makes a sealed document, and a sealed document is an envelope. *)
LEMMA SealIsSealed ==
  ASSUME NEW key, NEW payload
  PROVE  IsSealed(Seal(key, payload))
BY DEF IsSealed, Seal

LEMMA SealedIsEnvelope ==
  ASSUME NEW document, IsSealed(document)
  PROVE  IsEnvelope(document)
<1>1. /\ document.magic = TRUE /\ document.format = TRUE /\ document.whole = TRUE
      /\ document.signature = [by |-> document.fingerprint, over |-> document.payload]
  BY DEF IsSealed, Seal
<1>2. document = [magic |-> document.magic, format |-> document.format, whole |-> document.whole,
                  fingerprint |-> document.fingerprint, payload |-> document.payload,
                  signature |-> document.signature]
  BY <1>1 DEF IsSealed, Seal
<1> QED
  BY <1>1, <1>2 DEF IsEnvelope

(* ManifestAuthenticator: an envelope that passes is as it was sealed. *)
LEMMA AuthenticIsSealed ==
  ASSUME NEW copy, NEW held, IsEnvelope(copy), Authentic(copy, held)
  PROVE  IsSealed(copy)
<1>1. copy.magic = TRUE /\ copy.format = TRUE /\ copy.whole = TRUE
  BY DEF IsEnvelope, Authentic, WellWrapped
<1>2. copy.signature = [by |-> copy.fingerprint, over |-> copy.payload]
  BY DEF Authentic
<1> QED
  BY <1>1, <1>2 DEF IsEnvelope, IsSealed, Seal

(* The signature of a sealed document tells its key and payload, and these *)
(* the rest: two sealed documents with one signature are one.              *)
LEMMA SignatureTells ==
  ASSUME NEW document, IsSealed(document)
  PROVE  /\ document.fingerprint = document.signature.by
         /\ document.payload = document.signature.over
<1>1. document.signature = [by |-> document.fingerprint, over |-> document.payload]
  BY DEF IsSealed, Seal
<1> QED
  BY <1>1

LEMMA SignatureDetermines ==
  ASSUME NEW one, NEW two, IsSealed(one), IsSealed(two), one.signature = two.signature
  PROVE  one = two
<1>1. one.fingerprint = two.fingerprint /\ one.payload = two.payload
  BY SignatureTells
<1> QED
  BY <1>1 DEF IsSealed

(* ManifestStore.Save cut or written over: the signature is not forged. *)
LEMMA DamageKeepsSignature ==
  ASSUME NEW document, IsEnvelope(document), NEW copy \in Damaged(document)
  PROVE  IsEnvelope(copy) /\ copy.signature = document.signature
<1>1. CASE copy = [document EXCEPT !.magic = FALSE]
  BY <1>1 DEF IsEnvelope
<1>2. CASE copy = [document EXCEPT !.format = FALSE]
  BY <1>2 DEF IsEnvelope
<1>3. CASE copy = [document EXCEPT !.whole = FALSE]
  BY <1>3 DEF IsEnvelope
<1>4. CASE copy = [document EXCEPT !.payload = Unparsable]
  BY <1>4 DEF IsEnvelope
<1>5. CASE \E signer \in Signers : copy = [document EXCEPT !.fingerprint = signer]
  BY <1>5 DEF IsEnvelope
<1> QED
  BY <1>1, <1>2, <1>3, <1>4, <1>5 DEF Damaged

LEMMA DeliveryInitially == Init => DeliveryInv
BY DEF Init, PackingInit, DeliveryInv, SealedOK, OfferOK, FetchOK, StoreOK, InUseOK

(* The author's side touches nothing of the subscriber's. *)
LEMMA AuthorStep ==
  ASSUME DeliveryInv, PackingNext /\ UNCHANGED deliveryVars
  PROVE  DeliveryInv'
<1>1. SealedOK'
  <2>1. CASE SealManifest
    BY <2>1, SealIsSealed DEF SealManifest, Fail, DeliveryInv, SealedOK
  <2>2. CASE \E digest \in toHash : HashEntry(digest)
    BY <2>2 DEF HashEntry, Fail, DeliveryInv, SealedOK
  <2>3. CASE \E name \in Names : (\E content \in Contents : Write(name, content)) \/ Delete(name)
    BY <2>3 DEF Write, Delete, DeliveryInv, SealedOK
  <2>4. CASE CollectPaths \/ DescribeFile \/ ReadPreviews \/ ReadDescription
    BY <2>4 DEF CollectPaths, DescribeFile, ReadPreviews, ReadDescription, Fail, DeliveryInv, SealedOK
  <2> QED
    BY <2>1, <2>2, <2>3, <2>4 DEF PackingNext
<1>2. (OfferOK /\ FetchOK /\ StoreOK /\ InUseOK)'
  BY DEF DeliveryInv, OfferOK, FetchOK, StoreOK, InUseOK, deliveryVars
<1> QED
  BY <1>1, <1>2 DEF DeliveryInv

(* Something is announced once, and before it nothing is fetched. *)
LEMMA AnnounceSomething ==
  ASSUME DeliveryInv, offer = None, NEW document, NEW publisher, NEW version,
         IsSealed(document), LeaveAuthor,
         offer' = <<Announcement(document, publisher, version)>>,
         UNCHANGED <<keys, staged, kept, adopted, inUse, tears>>
  PROVE  DeliveryInv'
<1>1. offer'[1].document = document
  BY DEF Announcement
<1>2. step' = "announced"
  BY DEF LeaveAuthor
<1>3. staged' = None /\ kept' = None /\ inUse' = None
  BY DEF DeliveryInv, FetchOK, StoreOK, InUseOK
<1> QED
  BY <1>1, <1>2, <1>3 DEF DeliveryInv, SealedOK, OfferOK, FetchOK, StoreOK, InUseOK

LEMMA DeliveryStep ==
  ASSUME DeliveryInv, [Next]_vars
  PROVE  DeliveryInv'
<1> USE DEF DeliveryInv
<1>1. CASE PackingNext /\ UNCHANGED deliveryVars
  BY <1>1, AuthorStep
<1>2. CASE AnnounceRelease
  BY <1>2, AnnounceSomething DEF AnnounceRelease, SealedOK
<1>3. CASE \E signer, publisher \in Signers : AnnounceOddDocument(signer, publisher)
  <2>1. PICK signer \in Signers, publisher \in Signers : AnnounceOddDocument(signer, publisher)
    BY <1>3
  <2>2. PICK document \in OddDocuments(sealed.payload[1]) :
          offer' = <<Announcement(Seal(signer, <<document>>), publisher, 1)>>
    BY <2>1 DEF AnnounceOddDocument
  <2> QED
    BY <2>1, <2>2, SealIsSealed, AnnounceSomething DEF AnnounceOddDocument
<1>4. CASE \E signer \in Signers : Revoke(signer)
  BY <1>4 DEF Revoke, packingVars, SealedOK, OfferOK, FetchOK, StoreOK, InUseOK
<1>5. CASE Fetch
  BY <1>5 DEF Fetch, packingVars, SealedOK, OfferOK, FetchOK, StoreOK, InUseOK
<1>6. CASE Adopt
  <2>1. UNCHANGED <<step, sealed, offer>> /\ staged' = None /\ staged # None
    BY <1>6 DEF Adopt, packingVars
  <2>2. CASE ~Adoptable(staged[1])
    BY <1>6, <2>1, <2>2 DEF Adopt, SealedOK, OfferOK, FetchOK, StoreOK, InUseOK
  <2>3. CASE Adoptable(staged[1])
    <3> DEFINE document == offer[1].document
    <3>1. offer # None /\ staged = <<document>> /\ staged[1] = document
      BY <2>1, <2>3 DEF FetchOK, Adoptable
    <3>2. kept' = <<document>> /\ adopted' = offer /\ inUse' = <<Decode(document.payload[1])>>
      BY <1>6, <2>3, <3>1 DEF Adopt
    <3>3. IsSealed(document) /\ IsEnvelope(document)
      BY <3>1, SealedIsEnvelope DEF OfferOK
    <3>4. IdentityOf(Decode(document.payload[1])) = IdentityOf(offer[1])
      BY <2>3, <3>1 DEF Adoptable, IdentityOf
    <3> HIDE DEF document
    <3>5. kept'[1] = document /\ document = offer[1].document /\ document = offer'[1].document
      BY <2>1, <3>2 DEF document
    <3>6. StoreOK' /\ InUseOK'
      BY <2>1, <3>1, <3>2, <3>3, <3>4, <3>5 DEF StoreOK, InUseOK, None
    <3> QED
      BY <2>1, <3>6 DEF SealedOK, OfferOK, FetchOK
  <2> QED
    BY <2>2, <2>3
<1>7. CASE Tear
  <2>1. PICK copy \in Damaged(kept[1]) : kept' = <<copy>>
    BY <1>7 DEF Tear
  <2>2. IsEnvelope(kept[1])
    BY <1>7 DEF Tear, StoreOK
  <2>3. IsEnvelope(copy) /\ copy.signature = kept[1].signature
    BY <2>2, DamageKeepsSignature
  <2> QED
    BY <1>7, <2>1, <2>3 DEF Tear, packingVars, SealedOK, OfferOK, FetchOK, StoreOK, InUseOK
<1>8. CASE UseStored
  <2>1. kept # None /\ UNCHANGED <<step, sealed, offer, staged, kept, adopted>>
    BY <1>8 DEF UseStored, packingVars
  <2>2. CASE ~Usable(kept[1])
    BY <1>8, <2>1, <2>2 DEF UseStored, SealedOK, OfferOK, FetchOK, StoreOK, InUseOK
  <2>3. CASE Usable(kept[1])
    <3>1. IsSealed(kept[1])
      BY <2>1, <2>3, AuthenticIsSealed DEF StoreOK, Usable
    <3>2. kept[1] = offer[1].document
      BY <2>1, <3>1, SignatureDetermines DEF StoreOK, OfferOK
    <3>3. inUse' = <<Decode(kept[1].payload[1])>>
      BY <1>8, <2>3 DEF UseStored
    <3> QED
      BY <2>1, <3>2, <3>3 DEF SealedOK, OfferOK, FetchOK, StoreOK, InUseOK
  <2> QED
    BY <2>2, <2>3
<1>9. CASE \E publisher \in Signers, version \in 1 .. MaxAnnounced : AnnounceAgain(publisher, version)
  <2>1. PICK publisher \in Signers, version \in 1 .. MaxAnnounced : AnnounceAgain(publisher, version)
    BY <1>9
  <2>2. /\ kept # None /\ inUse' = None
        /\ UNCHANGED <<step, sealed, staged, kept, adopted>>
    BY <2>1 DEF AnnounceAgain, packingVars
  <2>3. offer' # None /\ offer'[1].document = offer[1].document
    BY <2>1 DEF AnnounceAgain, Announcement, None
  <2> QED
    BY <2>2, <2>3 DEF SealedOK, OfferOK, FetchOK, StoreOK, InUseOK
<1>10. CASE UNCHANGED vars
  BY <1>10 DEF vars, packingVars, deliveryVars, SealedOK, OfferOK, FetchOK, StoreOK, InUseOK
<1> QED
  BY <1>1, <1>2, <1>3, <1>4, <1>5, <1>6, <1>7, <1>8, <1>9, <1>10 DEF Next, DeliveryNext

(***************************************************************************)
(* A manifest the subscriber works from is of the announced document, to   *)
(* the last field, and has the identity of the announce the document was   *)
(* adopted for, whatever another program seals or announces again with     *)
(* its key, however often stored copies are damaged and keys are revoked.  *)
(* That it has the identity of the announce it is worked from for is not   *)
(* so (UsedIsOffered).                                                     *)
(* FetchedManifestAdopter, DecodeStoredManifest_, ManifestAuthenticator.   *)
(***************************************************************************)
THEOREM TheAnnouncedIsUsed == Spec => []UsedIsAnnounced
<1>1. DeliveryInv => UsedIsAnnounced
  BY DEF DeliveryInv, StoreOK, InUseOK, UsedIsAnnounced
<1> QED
  BY <1>1, DeliveryInitially, DeliveryStep, PTL DEF Spec

(***************************************************************************)
(* The torrent.                                                            *)
(*                                                                         *)
(* A described file is either as it was described or known to be stale, so *)
(* what HashEntry reads at a chunk's place is the chunk.  What the chunker *)
(* and the hasher compute is a hypothesis: ChunkingIsSound.                *)
(***************************************************************************)
FolderOK == \A name \in DOMAIN folder : folder[name] \in Contents

FilesOK == files \in Seq({files[k] : k \in 1 .. Len(files)})

(* A file that was not written since it was described is as described. *)
FreshOK ==
  \A k \in 1 .. Len(files) :
    \/ files[k].path \in stale
    \/ \A name \in Spelled(files[k].path) \cap DOMAIN folder :
         files[k] = Describe(files[k].path, folder[name])

(* What the torrent has of a chunk is right, or its source was written. *)
RootOK(digest) ==
  /\ digest \in DOMAIN pieces
  /\ SourceOf(digest).path \in stale \/ pieces[digest] = FileTreeNodes(digest)

HashedOK ==
  /\ step \in {"hashing", "sealed"} => \A digest \in Digests \ toHash : RootOK(digest)
  /\ step = "sealed" => toHash = {}

PackingInv == FolderOK /\ FilesOK /\ FreshOK /\ HashedOK

(* A set of numbers that is not empty has a least one. *)
LEMMA LeastIsOne ==
  ASSUME NEW T \in SUBSET Nat, T # {}
  PROVE  Min(T) \in T
<1>1. PICK m \in T : \A k \in T : <<k, m>> \notin OpToRel(<, Nat)
  BY NatLessThanWellFounded, WFMin, Zenon
<1>2. \A k \in T : ~(k < m)
  BY <1>1 DEF OpToRel
<1>3. \A k \in T : m <= k
  BY <1>2
<1> QED
  BY <1>3 DEF Min

(* Reading as many bytes as a slice has, from where it begins, is the slice. *)
LEMMA SliceAgain ==
  ASSUME NEW data \in Seq(Nat), NEW offset \in Nat, NEW length \in Nat
  PROVE  Slice(data, offset, Len(Slice(data, offset, length))) = Slice(data, offset, length)
<1> DEFINE last == Lesser(offset + length, Len(data))
<1>1. last \in Nat /\ last <= Len(data)
  BY DEF Lesser
<1> HIDE DEF last
<1>2. Slice(data, offset, length) = SubSeq(data, offset + 1, last)
  BY DEF Slice, last
<1>3. CASE offset + 1 <= last
  <2>1. Len(SubSeq(data, offset + 1, last)) = last - offset
    BY <1>1, <1>3
  <2>2. offset + (last - offset) = last /\ Lesser(last, Len(data)) = last
    BY <1>1 DEF Lesser
  <2> QED
    BY <1>2, <2>1, <2>2 DEF Slice
<1>4. CASE ~(offset + 1 <= last)
  <2>1. SubSeq(data, offset + 1, last) = <<>>
    BY <1>1, <1>4
  <2>2. Slice(data, offset, 0) = SubSeq(data, offset + 1, Lesser(offset, Len(data)))
    <3>1. offset + 0 = offset
      OBVIOUS
    <3> QED
      BY <3>1 DEF Slice
  <2>3. Lesser(offset, Len(data)) \in Nat /\ Lesser(offset, Len(data)) <= offset
    BY DEF Lesser
  <2>4. Slice(data, offset, 0) = <<>>
    BY <2>2, <2>3
  <2>5. Slice(data, offset, length) = << >> /\ Len(<< >>) = 0
    BY <1>2, <2>1
  <2>6. Len(Slice(data, offset, length)) = 0
    BY <2>5, Zenon
  <2> QED
    BY <2>4, <2>5, <2>6, Zenon
<1> QED
  BY <1>3, <1>4

(* IndexSources: where a chunk is read from, a file has it by its description. *)
LEMMA SourceHasChunk ==
  ASSUME FilesOK, FreshOK, FolderOK, ChunkingIsSound, NEW digest \in Digests,
         NEW name \in Spelled(SourceOf(digest).path) \cap DOMAIN folder,
         SourceOf(digest).path \notin stale
  PROVE  /\ ReadRange(name, SourceOf(digest), Len(digest)) = digest
         /\ PieceRoots(digest) = FileTreeNodes(digest)
<1> DEFINE holders == {k \in 1 .. Len(files) : \E c \in Range(files[k].chunks) : c.digest = digest}
           file == files[Min(holders)]
           places == {k \in 1 .. Len(file.chunks) : file.chunks[k].digest = digest}
           content == folder[name]
           spans == Split(content)
<1>1. Min(holders) \in holders
  <2>1. Len(files) \in Nat
    BY DEF FilesOK
  <2>2. holders \in SUBSET Nat /\ holders # {}
    BY <2>1 DEF Digests, AllChunks
  <2> HIDE DEF holders
  <2> QED
    BY <2>2, LeastIsOne
<1>2. SourceOf(digest) = [path |-> file.path, offset |-> file.chunks[Min(places)].offset]
  BY DEF SourceOf
<1>3. /\ Min(holders) \in 1 .. Len(files)
      /\ \E c \in Range(file.chunks) : c.digest = digest
  BY <1>1
<1> HIDE DEF holders
<1>4. name \in Spelled(file.path) \cap DOMAIN folder /\ file.path \notin stale
  BY <1>2
<1>5. file = Describe(file.path, content)
  BY <1>3, <1>4 DEF FreshOK
<1>6. /\ content \in Contents /\ content \in Seq(Nat)
      /\ spans \in Seq([offset : Nat, length : Nat])
      /\ \A k \in 1 .. Len(spans) :
           LET piece == Slice(content, spans[k].offset, spans[k].length)
           IN  PieceRoots(piece) = FileTreeNodes(piece)
  BY <1>4, PackingAssumption DEF FolderOK, ChunkingIsSound
<1> HIDE DEF file, content, spans
<1>7. file.chunks = [k \in 1 .. Len(spans) |->
        [digest |-> Slice(content, spans[k].offset, spans[k].length),
         offset |-> spans[k].offset, length |-> spans[k].length]]
  BY <1>5 DEF Describe, spans
<1>8. Min(places) \in 1 .. Len(spans) /\ file.chunks[Min(places)].digest = digest
  <2>1. Len(spans) \in Nat
    BY <1>6
  <2>2. DOMAIN file.chunks = 1 .. Len(spans) /\ Len(file.chunks) = Len(spans)
    BY <1>7, <2>1
  <2>3. places \in SUBSET Nat /\ places # {}
    BY <1>3, <2>1, <2>2 DEF Range
  <2>4. Min(places) \in places
    <3> HIDE DEF places
    <3> QED
      BY <2>3, LeastIsOne
  <2> QED
    BY <2>2, <2>4
<1> DEFINE p == Min(places)
<1>9. p \in 1 .. Len(spans) /\ file.chunks[p].digest = digest
  BY <1>8
<1>10. SourceOf(digest).offset = file.chunks[p].offset
  BY <1>2
<1> HIDE DEF p, places
<1>11. file.chunks[p] = [digest |-> Slice(content, spans[p].offset, spans[p].length),
                       offset |-> spans[p].offset, length |-> spans[p].length]
  BY <1>7, <1>9
<1>12. spans[p].offset \in Nat /\ spans[p].length \in Nat
  <2> DEFINE Spans == [offset : Nat, length : Nat]
  <2>1. spans[p] \in Spans
    <3>1. spans \in Seq(Spans) /\ p \in 1 .. Len(spans)
      BY <1>6, <1>9
    <3> HIDE DEF Spans
    <3> QED
      BY <3>1
  <2> QED
    BY <2>1
<1>13. /\ digest = Slice(content, spans[p].offset, spans[p].length)
       /\ file.chunks[p].offset = spans[p].offset
  BY <1>9, <1>11
<1>14. SourceOf(digest).offset = spans[p].offset
  BY <1>10, <1>13
<1>15. ReadRange(name, SourceOf(digest), Len(digest)) = Slice(content, spans[p].offset, Len(digest))
  BY <1>14 DEF ReadRange, content
<1> QED
  <2>1. PieceRoots(digest) = FileTreeNodes(digest)
    BY <1>6, <1>9, <1>13
  <2>2. Slice(content, spans[p].offset, Len(Slice(content, spans[p].offset, spans[p].length)))
          = Slice(content, spans[p].offset, spans[p].length)
    BY <1>6, <1>12, SliceAgain
  <2> QED
    BY <1>13, <1>15, <2>1, <2>2

LEMMA PackingInitially == Init => PackingInv
<1> SUFFICES ASSUME Init  PROVE PackingInv
  OBVIOUS
<1>1. FolderOK
  BY DEF Init, PackingInit, FolderOK
<1>2. files = <<>> /\ step = "idle" /\ files \in Seq({})
  BY DEF Init, PackingInit
<1>3. Len(files) = 0
  BY <1>2
<1> QED
  BY <1>1, <1>2, <1>3 DEF PackingInv, FilesOK, FreshOK, HashedOK

(* With the files of the manifest and the hashes as they were, and no file *)
(* less stale than it was, what is hashed stays right.                     *)
LEMMA HashesStay ==
  ASSUME HashedOK, stale \subseteq stale', UNCHANGED <<files, pieces, toHash, step>>
  PROVE  HashedOK'
<1>1. Digests' = Digests
  BY DEF Digests, AllChunks
<1>2. ASSUME NEW digest, RootOK(digest)  PROVE RootOK(digest)'
  <2>1. SourceOf(digest)' = SourceOf(digest)
    BY DEF SourceOf
  <2> QED
    BY <1>2, <2>1 DEF RootOK
<1> QED
  BY <1>1, <1>2 DEF HashedOK

(* The author: what is written or deleted is stale from then on. *)
LEMMA AuthorKeepsPacking ==
  ASSUME PackingInv, NEW name \in Names,
         (\E content \in Contents : Write(name, content)) \/ Delete(name)
  PROVE  PackingInv'
<1>1. /\ UNCHANGED <<step, files, toHash, pieces>>
      /\ stale' = stale \cup {path \in Described : name \in Spelled(path)}
  BY DEF Write, Delete, Touch
<1>2. /\ FolderOK'
      /\ \A n \in DOMAIN folder' : n # name => n \in DOMAIN folder /\ folder'[n] = folder[n]
  <2>1. CASE \E content \in Contents : Write(name, content)
    <3>1. PICK content \in Contents : folder' = With(folder, name, content)
      BY <2>1 DEF Write
    <3>2. /\ DOMAIN folder' = DOMAIN folder \cup {name}
          /\ folder'[name] = content
          /\ \A n \in DOMAIN folder \ {name} : folder'[n] = folder[n]
      BY <3>1 DEF With
    <3> QED
      BY <3>2 DEF PackingInv, FolderOK
  <2>2. CASE Delete(name)
    BY <2>2 DEF Delete, PackingInv, FolderOK
  <2> QED
    BY <2>1, <2>2
<1>3. FilesOK'
  BY <1>1 DEF PackingInv, FilesOK
<1>4. FreshOK'
  <2> SUFFICES ASSUME NEW k \in 1 .. Len(files), files[k].path \notin stale',
                      NEW n \in Spelled(files[k].path), n \in DOMAIN folder'
               PROVE  files[k] = Describe(files[k].path, folder'[n])
    BY <1>1 DEF FreshOK, Spelled
  <2>1. files[k].path \in Described
    BY DEF Described
  <2>2. name \notin Spelled(files[k].path) /\ files[k].path \notin stale
    BY <1>1, <2>1
  <2>3. n \in DOMAIN folder /\ folder'[n] = folder[n]
    BY <1>2, <2>2
  <2> QED
    BY <2>2, <2>3 DEF PackingInv, FreshOK
<1>5. HashedOK'
  BY <1>1, HashesStay DEF PackingInv
<1> QED
  BY <1>2, <1>3, <1>4, <1>5 DEF PackingInv

(* A step that leaves the folder, the files and what is stale. *)
LEMMA FilesStay ==
  ASSUME PackingInv, UNCHANGED <<folder, files, stale>>
  PROVE  (FolderOK /\ FilesOK /\ FreshOK)'
BY DEF PackingInv, FolderOK, FilesOK, FreshOK, Spelled

(* ManifestBuilder describes the one file that has this path. *)
LEMMA DescribeKeepsPacking ==
  ASSUME PackingInv, SpelledApart, DescribeFile
  PROVE  PackingInv'
<1>1. CASE Fail
  BY <1>1, FilesStay DEF Fail, PackingInv, HashedOK
<1>2. CASE ~Fail
  <2> DEFINE path == Head(todo)
  <2>1. PICK name \in Spelled(path) \cap DOMAIN folder :
          files' = Append(files, Describe(path, folder[name]))
    BY <1>2 DEF DescribeFile
  <2>2. UNCHANGED <<folder, step, stale>> /\ step = "describing"
    BY <1>2 DEF DescribeFile
  <2> DEFINE new == Describe(path, folder[name])
             old == {files[k] : k \in 1 .. Len(files)}
  <2>3. new.path = path
    BY DEF Describe
  <2> HIDE DEF path, new
  <2>4. files \in Seq(old \cup {new}) /\ files' = Append(files, new)
    BY <2>1 DEF PackingInv, FilesOK, new, path
  <2> HIDE DEF old
  <2>5. /\ Len(files) \in Nat /\ Len(files') = Len(files) + 1
        /\ \A k \in 1 .. Len(files) : files'[k] = files[k]
        /\ files'[Len(files) + 1] = new
    BY <2>4
  <2>6. FilesOK'
    <3> DEFINE now == {files'[k] : k \in 1 .. Len(files')}
    <3>1. old \cup {new} \subseteq now
      BY <2>5 DEF old
    <3>2. files' \in Seq(old \cup {new})
      BY <2>4
    <3>3. files' \in Seq(now)
      <4> HIDE DEF now
      <4> QED
        BY <3>1, <3>2
    <3> QED
      BY <3>3 DEF FilesOK
  <2>7. \A n \in Spelled(path) \cap DOMAIN folder : n = name
    BY <2>1 DEF Spelled, SpelledApart, path
  <2>8. FreshOK'
    <3> SUFFICES ASSUME NEW k \in 1 .. Len(files'), files'[k].path \notin stale,
                        NEW n \in Spelled(files'[k].path), n \in DOMAIN folder
                 PROVE  files'[k] = Describe(files'[k].path, folder[n])
      BY <2>2 DEF FreshOK, Spelled
    <3>1. CASE k \in 1 .. Len(files)
      BY <2>5, <3>1 DEF PackingInv, FreshOK
    <3>2. CASE k = Len(files) + 1
      BY <2>3, <2>5, <2>7, <3>2 DEF new
    <3> QED
      BY <2>5, <3>1, <3>2
  <2>9. FolderOK' /\ HashedOK'
    BY <2>2 DEF PackingInv, FolderOK, HashedOK
  <2> QED
    BY <2>6, <2>8, <2>9 DEF PackingInv
<1> QED
  BY <1>1, <1>2

(* VirtualChunkSetTorrent: an entry is hashed from a file as it is by now. *)
LEMMA HashKeepsPacking ==
  ASSUME PackingInv, SpelledApart, ChunkingIsSound, NEW digest \in toHash, HashEntry(digest)
  PROVE  PackingInv'
<1>1. CASE Fail
  BY <1>1, FilesStay DEF Fail, PackingInv, HashedOK
<1>2. CASE ~Fail
  <2> DEFINE source == SourceOf(digest)
  <2>1. PICK name \in Spelled(source.path) \cap DOMAIN folder :
          pieces' = With(pieces, digest, PieceRoots(ReadRange(name, source, Len(digest))))
    BY <1>2 DEF HashEntry
  <2>2. /\ UNCHANGED <<folder, files, stale>> /\ step = "hashing"
        /\ toHash' = toHash \ {digest}
        /\ step' = IF toHash' = {} THEN "sealed" ELSE "hashing"
    BY <1>2 DEF HashEntry
  <2>3. /\ digest \in DOMAIN pieces'
        /\ pieces'[digest] = PieceRoots(ReadRange(name, source, Len(digest)))
        /\ \A d \in DOMAIN pieces : d # digest => d \in DOMAIN pieces' /\ pieces'[d] = pieces[d]
    BY <2>1 DEF With
  <2>4. Digests' = Digests /\ \A d : SourceOf(d)' = SourceOf(d)
    BY <2>2 DEF Digests, AllChunks, SourceOf
  <2>5. ASSUME NEW d \in Digests \ toHash'  PROVE RootOK(d)'
    <3>1. CASE d = digest
      <4>1. source.path \in stale \/ pieces'[digest] = FileTreeNodes(digest)
        BY <2>1, <2>3, <2>5, <3>1, SourceHasChunk DEF PackingInv
      <4> QED
        BY <2>2, <2>3, <2>4, <3>1, <4>1 DEF RootOK
    <3>2. CASE d # digest
      <4>1. RootOK(d)
        BY <2>2, <2>5, <3>2 DEF PackingInv, HashedOK
      <4> QED
        BY <2>2, <2>3, <2>4, <3>2, <4>1 DEF RootOK
    <3> QED
      BY <3>1, <3>2
  <2>6. HashedOK'
    BY <2>2, <2>4, <2>5 DEF HashedOK
  <2> QED
    BY <2>2, <2>6, FilesStay DEF PackingInv
<1> QED
  BY <1>1, <1>2

LEMMA PackingStep ==
  ASSUME PackingInv, SpelledApart, ChunkingIsSound, [Next]_vars
  PROVE  PackingInv'
<1>1. CASE \E name \in Names : (\E content \in Contents : Write(name, content)) \/ Delete(name)
  BY <1>1, AuthorKeepsPacking
<1>2. CASE DescribeFile
  BY <1>2, DescribeKeepsPacking
<1>3. CASE SealManifest
  <2>1. UNCHANGED <<folder, files, stale>>
    BY <1>3 DEF SealManifest, Fail
  <2>2. step' = "failed" \/ (step' = "hashing" /\ toHash' = Digests)
    BY <1>3 DEF SealManifest, Fail
  <2>3. Digests' = Digests
    BY <2>1 DEF Digests, AllChunks
  <2> QED
    BY <2>1, <2>2, <2>3, FilesStay DEF PackingInv, HashedOK
<1>4. CASE CollectPaths \/ ReadPreviews \/ ReadDescription
  <2>1. UNCHANGED <<folder, files, stale>> /\ step' \notin {"hashing", "sealed"}
    BY <1>4 DEF CollectPaths, ReadPreviews, ReadDescription, Fail
  <2> QED
    BY <2>1, FilesStay DEF PackingInv, HashedOK
<1>5. CASE \E digest \in toHash : HashEntry(digest)
  BY <1>5, HashKeepsPacking
<1>6. CASE LeaveAuthor
  <2>1. folder' = <<>> /\ files' = <<>> /\ step' = "announced"
    BY <1>6 DEF LeaveAuthor
  <2>2. Len(files') = 0 /\ files' \in Seq({}) /\ DOMAIN folder' = {}
    BY <2>1
  <2> QED
    BY <2>1, <2>2 DEF PackingInv, FolderOK, FilesOK, FreshOK, HashedOK
<1>7. CASE UNCHANGED packingVars
  <2>1. UNCHANGED <<folder, files, stale, step, toHash, pieces>>
    BY <1>7 DEF packingVars
  <2> QED
    BY <2>1, FilesStay, HashesStay DEF PackingInv
<1>8. [Next]_vars => \/ PackingNext \/ LeaveAuthor \/ UNCHANGED packingVars
  BY DEF Next, DeliveryNext, AnnounceRelease, AnnounceOddDocument, AnnounceAgain, Revoke, Fetch,
         Adopt, Tear, UseStored, vars
<1> QED
  BY <1>1, <1>2, <1>3, <1>4, <1>5, <1>6, <1>7, <1>8 DEF PackingNext

(***************************************************************************)
(* The torrent is the manifest's, whatever the author writes while the     *)
(* release is described, sealed and hashed: each chunk has the hashes of   *)
(* its digest, or the file it was read from was written in between.        *)
(* ManifestBuilder, VirtualChunkSetTorrent.                                *)
(***************************************************************************)
THEOREM TorrentStaysTheManifests ==
  SpelledApart /\ ChunkingIsSound => (Spec => []TorrentIsTheManifests)
<1> SUFFICES ASSUME SpelledApart, ChunkingIsSound  PROVE Spec => []TorrentIsTheManifests
  OBVIOUS
<1>1. PackingInv => TorrentIsTheManifests
  BY DEF PackingInv, HashedOK, RootOK, TorrentIsTheManifests
<1>2. PackingInv /\ [Next]_vars => PackingInv'
  BY PackingStep
<1> QED
  BY <1>1, <1>2, PackingInitially, PTL DEF Spec
=============================================================================
