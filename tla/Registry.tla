------------------------------- MODULE Registry -------------------------------
(***************************************************************************)
(* The registry of publisher keys. RegistryUpdateService polls an index on *)
(* the web in a worker thread and downloads its keys and its revocations   *)
(* over the files of the registry folder; DirectoryKeyRegistry merges the  *)
(* keys compiled into the program with the folder's and lets the folder's  *)
(* certificates revoke them. PublishService adds the user's own key to the *)
(* same folder from the window's thread, and reloads as well. A key stands *)
(* for its fingerprint and for the name of its files.                      *)
(***************************************************************************)
EXTENDS Naturals, FiniteSets, Https

CONSTANTS
  Keys,
  Shipped,         \* domain::registry::KEYS
  ShippedRevoked,  \* ... whose entry says revoked
  OwnKeys,         \* the keys the user creates or unlocks
  MaxEvents        \* bound: index changes, outages, restarts, own keys trusted

ASSUME RegistryBounds ==
  /\ Shipped \subseteq Keys /\ OwnKeys \subseteq Keys /\ ShippedRevoked \subseteq Shipped
  /\ IsFiniteSet(Keys) /\ MaxEvents \in Nat

KeyFolders == {"keys", "revoked"}   \* KEYS_FOLDER and REVOKED_FOLDER
Threads == {"worker", "window"}
States  == {"absent", "usable", "revoked"}

\* A thread that writes the file of a key is at that key, which is no other step's name.
ASSUME StepNames ==
  Keys \cap {"idle", "list", "open", "read_keys", "read_revoked", "assign", "finish"} = {}

VARIABLES
  index,    \* external: what the index lists, per folder
  working,  \* external: requests are answered and files can be written
  disk,     \* the registry folder: per folder and key "none", "torn" or "whole"
  keys,     \* DirectoryKeyRegistry::_keys: the state of each key
  merged,   \* the local of a Reload, per thread
  pc,       \* where each thread is; the worker at "idle" means _busy is false
  polling,  \* the worker's locals: its folder, the entries left, those written
  phase,    \* _status.phase
  polled,   \* _polled
  since,    \* which of RETRY_INTERVAL and REFRESH_INTERVAL have passed since _lastPoll
  crossed,  \* observed: the window trusted a key during the last or running poll
  events

pollVars     == <<polling, phase, polled, since>>
registryVars == <<index, working, disk, keys, merged, pc, pollVars, crossed, events>>

-----------------------------------------------------------------------------
(* DirectoryKeyRegistry *)

\* Baseline, then every key file that can be read and is not in the baseline.
ReadKeys(files) ==
  [k \in Keys |-> IF k \in ShippedRevoked THEN "revoked"
                  ELSE IF k \in Shipped \/ files[k] = "whole" THEN "usable" ELSE "absent"]

\* RevocationCertificateReader: what was cut short is no document, hence no certificate.
IsCertificate(file) == file = "whole"

\* ApplyRevocations_: a certificate that can be read and is of the key revokes it.
ApplyRevocations(found, certificates) ==
  [k \in Keys |-> IF found[k] = "usable" /\ IsCertificate(certificates[k]) THEN "revoked" ELSE found[k]]

Loaded == ApplyRevocations(ReadKeys(disk["keys"]), disk["revoked"])

\* Reload reads the keys, then the certificates, and takes the lock only to put the result
\* in place.
ReloadReadsKeys(t) ==
  /\ pc[t] = "read_keys"
  /\ merged' = [merged EXCEPT ![t] = ReadKeys(disk["keys"])]
  /\ pc' = [pc EXCEPT ![t] = "read_revoked"]
  /\ UNCHANGED <<index, working, disk, keys, pollVars, crossed, events>>

ReloadReadsRevoked(t) ==
  /\ pc[t] = "read_revoked"
  /\ merged' = [merged EXCEPT ![t] = ApplyRevocations(@, disk["revoked"])]
  /\ pc' = [pc EXCEPT ![t] = "assign"]
  /\ UNCHANGED <<index, working, disk, keys, pollVars, crossed, events>>

ReloadAssigns(t) ==
  /\ pc[t] = "assign"
  /\ keys' = merged[t]
  /\ pc' = [pc EXCEPT ![t] = IF t = "worker" THEN "finish" ELSE "idle"]
  /\ UNCHANGED <<index, working, disk, merged, pollVars, crossed, events>>

-----------------------------------------------------------------------------
(* RegistryUpdateService *)

\* Broken: a poll that failed is never tried again by itself.
Due_NoRetry == IF polled THEN since = "refresh" ELSE phase # "failed"

\* Due_
Due == IF polled THEN since = "refresh" ELSE phase # "failed" \/ since # "none"

NoPoll == [folder |-> "keys", todo |-> {}, written |-> [f \in KeyFolders |-> 0]]

\* Poll: not while a worker is busy.
StartPoll ==
  /\ pc["worker"] = "idle"
  /\ phase' = "polling"
  /\ polling' = NoPoll
  /\ pc' = [pc EXCEPT !["worker"] = "list"]
  /\ crossed' = FALSE
  /\ UNCHANGED <<index, working, disk, keys, merged, polled, since, events>>

\* Tick, once a frame.
Tick == pc["window"] = "idle" /\ Due /\ StartPoll

\* The button of the trust settings, which is off while a poll runs.
PollNow == pc["window"] = "idle" /\ phase # "polling" /\ StartPoll

\* Broken: a poll that fetched nothing ends without a reload, and says it failed.
NextStep_FailsEarly(folder, todo) ==
  IF todo # {} THEN "open" ELSE IF folder = "keys" THEN "list"
  ELSE IF \A f \in KeyFolders : polling.written[f] = 0 THEN "finish" ELSE "read_keys"

\* Where FetchFolder_ and RunPoll_ go once the entries in `todo' are left.
NextStep(folder, todo) ==
  IF todo # {} THEN "open" ELSE IF folder = "keys" THEN "list" ELSE "read_keys"

Continue(todo, written) ==
  /\ polling' = [polling EXCEPT !.todo = todo, !.written[polling.folder] = written,
                                !.folder = IF todo = {} THEN "revoked" ELSE @]
  /\ pc' = [pc EXCEPT !["worker"] = NextStep(polling.folder, todo)]

\* List and ParseListing: the files with a registry file name, from an accepted host and of
\* an accepted size; other entries are skipped, so they are no part of `index'.
NamesListed(answer, folder) == IF Readable(answer) THEN index[folder] ELSE {}

\* FetchFolder_ lists a folder; without a list, or a folder to write to, it fetches nothing.
ListFolder ==
  /\ pc["worker"] = "list"
  /\ \E answer \in Answers(working) : Continue(NamesListed(answer, polling.folder), 0)
  /\ UNCHANGED <<index, working, disk, keys, merged, phase, polled, since, crossed, events>>

\* Download opens the file of an entry.
OpenEntry ==
  /\ pc["worker"] = "open"
  /\ \E k \in polling.todo :
       /\ disk' = [disk EXCEPT ![polling.folder][k] = Opened]
       /\ pc' = [pc EXCEPT !["worker"] = k]
  /\ UNCHANGED <<index, working, keys, merged, pollVars, crossed, events>>

\* ... or cannot, and leaves the file as it was.
CannotOpenEntry ==
  /\ pc["worker"] = "open" /\ ~working
  /\ \E k \in polling.todo : Continue(polling.todo \ {k}, polling.written[polling.folder])
  /\ UNCHANGED <<index, working, disk, keys, merged, phase, polled, since, crossed, events>>

\* ... and ends with what the request came to.
ReceiveEntry(k) ==
  /\ pc["worker"] = k
  /\ \E answer \in Answers(working) :
       /\ disk' = [disk EXCEPT ![polling.folder][k] = FileAfter(answer)]
       /\ Continue(polling.todo \ {k},
                   polling.written[polling.folder] + (IF Downloaded(answer) THEN 1 ELSE 0))
  /\ UNCHANGED <<index, working, keys, merged, phase, polled, since, crossed, events>>

\* The end of RunPoll_, under the lock. A poll that wrote nothing failed; it does not set
\* _polled, and does not clear it.
FinishPoll ==
  /\ pc["worker"] = "finish"
  /\ IF \A f \in KeyFolders : polling.written[f] = 0
     THEN phase' = "failed" /\ UNCHANGED polled
     ELSE phase' = "fresh" /\ polled' = TRUE
  /\ since' = "none"
  /\ pc' = [pc EXCEPT !["worker"] = "idle"]
  /\ UNCHANGED <<index, working, disk, keys, merged, polling, crossed, events>>

TimePasses ==
  /\ since # "refresh"
  /\ since' = IF since = "none" THEN "retry" ELSE "refresh"
  /\ UNCHANGED <<index, working, disk, keys, merged, pc, polling, phase, polled, crossed, events>>

-----------------------------------------------------------------------------
(* PublishService::TrustLocally_, for a key just created, or unlocked and not found in the
   registry. It runs in the window's thread. *)

ExportOpens(k) ==
  /\ events < MaxEvents /\ pc["window"] = "idle" /\ keys[k] = "absent"
  /\ disk' = [disk EXCEPT !["keys"][k] = Opened]
  /\ pc' = [pc EXCEPT !["window"] = k]
  /\ crossed' = (crossed \/ pc["worker"] # "idle")
  /\ events' = events + 1
  /\ UNCHANGED <<index, working, keys, merged, pollVars>>

ExportEnds(k) ==
  /\ pc["window"] = k
  /\ \/ /\ disk' = [disk EXCEPT !["keys"][k] = "whole"]
        /\ pc' = [pc EXCEPT !["window"] = "read_keys"]
     \/ /\ ~working   \* without a reload
        /\ pc' = [pc EXCEPT !["window"] = "idle"]
        /\ UNCHANGED disk
  /\ UNCHANGED <<index, working, keys, merged, pollVars, crossed, events>>

-----------------------------------------------------------------------------
(* The index, the network and the program's life *)

IndexChanges ==
  /\ events < MaxEvents /\ events' = events + 1
  /\ \E f \in KeyFolders : \E k \in Keys \ index[f] : index' = [index EXCEPT ![f] = @ \cup {k}]
  /\ UNCHANGED <<working, disk, keys, merged, pc, pollVars, crossed>>

NetworkChanges ==
  /\ events < MaxEvents /\ events' = events + 1
  /\ working' = ~working
  /\ UNCHANGED <<index, disk, keys, merged, pc, pollVars, crossed>>

\* The program dies or is closed, and starts again: the constructors reload the folder and
\* have never polled.
Restart ==
  /\ events < MaxEvents /\ events' = events + 1
  /\ keys' = Loaded
  /\ pc' = [t \in Threads |-> "idle"]
  /\ merged' = [t \in Threads |-> [k \in Keys |-> "absent"]]
  /\ polling' = NoPoll /\ phase' = "never" /\ polled' = FALSE /\ since' = "refresh" /\ crossed' = FALSE
  /\ UNCHANGED <<index, working, disk>>

RegistryInit ==
  /\ index = [f \in KeyFolders |-> IF f = "keys" THEN Shipped ELSE {}]
  /\ working = TRUE
  /\ disk = [f \in KeyFolders |-> [k \in Keys |-> "none"]]
  /\ keys = Loaded
  /\ merged = [t \in Threads |-> [k \in Keys |-> "absent"]]
  /\ pc = [t \in Threads |-> "idle"]
  /\ polling = NoPoll /\ phase = "never" /\ polled = FALSE /\ since = "refresh" /\ crossed = FALSE
  /\ events = 0

WorkerStep ==
  \/ ListFolder \/ OpenEntry \/ CannotOpenEntry \/ \E k \in Keys : ReceiveEntry(k)
  \/ ReloadReadsKeys("worker") \/ ReloadReadsRevoked("worker") \/ ReloadAssigns("worker")
  \/ FinishPoll

WindowStep ==
  \/ \E k \in OwnKeys : ExportEnds(k)
  \/ ReloadReadsKeys("window") \/ ReloadReadsRevoked("window") \/ ReloadAssigns("window")

RegistryNext ==
  \/ Tick \/ PollNow \/ WorkerStep \/ WindowStep \/ TimePasses
  \/ \E k \in OwnKeys : ExportOpens(k)
  \/ IndexChanges \/ NetworkChanges \/ Restart

RegistrySpec == RegistryInit /\ [][RegistryNext]_registryVars

\* Both threads run, a frame calls Tick, and time passes; nothing is assumed of the network,
\* of the user or of the index.
FairRegistrySpec ==
  /\ RegistrySpec
  /\ WF_registryVars(WorkerStep) /\ WF_registryVars(WindowStep)
  /\ WF_registryVars(Tick) /\ WF_registryVars(TimePasses)
-----------------------------------------------------------------------------
(* Properties *)

\* What the program trusts is what its folder says: with no thread at work, and no key
\* trusted while a poll ran, the keys in memory are those a fresh start would load. It holds
\* after a poll that failed half way through as after one that wrote everything, because
\* RunPoll_ reloads in every case.
MemoryMatchesDisk ==
  (\A t \in Threads : pc[t] = "idle") /\ ~crossed => keys = Loaded

\* A revocation takes hold: once the index lists a certificate and the network stays up, the
\* key stops being usable, also when an earlier poll deleted its certificate with a download
\* that failed, or a reload of the window read the file while it was being replaced.
RevocationTakesHold ==
  <>[]working => \A k \in Keys : [](k \in index["revoked"] => <>(keys[k] # "usable"))

\* A key file that stays in the folder is loaded: the user's own key comes back when the
\* worker's Reload, which had read the folder earlier, put its result over the window's.
KeyFilesAreLoaded ==
  \A k \in Keys : disk["keys"][k] = "whole" ~> (keys[k] # "absent" \/ disk["keys"][k] # "whole")

-----------------------------------------------------------------------------
(* By hand *)

\* A key once revoked stays revoked. The code does not keep this.
RevokedStaysRevoked == [][\A k \in Keys : keys[k] = "revoked" => keys'[k] = "revoked"]_registryVars
=============================================================================
