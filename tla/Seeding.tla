------------------------------- MODULE Seeding -------------------------------
(***************************************************************************)
(* What this machine seeds. The window loop ("ui") refreshes the catalogue *)
(* row by row (CatalogService::Refresh and Seed_), switches seeding on and *)
(* off and removes mods; the installer's thread ("worker") withdraws the   *)
(* seed of the mod it repairs or updates, fetches, swaps, records and      *)
(* attests. Both use TorrentSession's seeds: a roster, the placements of   *)
(* the ChunkLocator, the attestations and the info hashes present, each    *)
(* behind a mutex of its own. The player edits files; the program restarts.*)
(***************************************************************************)
EXTENDS Integers, FiniteSets

CONSTANTS
  Mods,
  MaxVersion,   \* bound: releases announced per mod
  MaxWrites,    \* bound: how often the content of a mod folder changes
  MaxRestarts,  \* bound: how often the program ends
  MaxToggles,   \* bound: how often seeding is switched
  Overlap       \* whether the worker may withdraw a seed while the window
                \* handles the catalogue row of the same mod

ASSUME SeedBounds ==
  /\ MaxVersion \in Nat /\ MaxWrites \in Nat /\ MaxRestarts \in Nat /\ MaxToggles \in Nat
  /\ Overlap \in BOOLEAN

VARIABLES
  announced,  \* AnnounceReceiver: the newest release of each mod, 0 for none
  revoked,    \* the mods whose publisher's key is revoked
  rec,        \* InstalledReleaseStore: the release recorded, 0 for none
  content,    \* the release in the mod folder, Absent or Edited
  written,    \* the modification time of the mod folder
  enabled,    \* TorrentSession::_enabled
  saved,      \* SeedingSwitch: what its file says
  roster,     \* SeedRoster: the torrents seeded
  paused,     \* the seeds whose handle is paused
  mounted,    \* the seeds whose storage was mounted as StorageRole::SeedRead
  located,    \* ChunkLocator::_locations: the mods with placements
  attested,   \* SeedAttestations
  present,    \* PresentHashSet
  session,    \* libtorrent: the torrents of the session
  stamps,     \* SeedStampStore: the modification time stamped, per release
  cache,      \* TorrentCache: what is cached, per release
  rows,       \* CatalogService::_rows: the release each row shows
  row,        \* the row the window handles: mod, release, what Describe_ found
  job,        \* the mod the worker installs, and its release
  pc,         \* the step each thread is at
  removed,    \* StopSeeding: the seed each thread took from the roster
  after,      \* StopSeeding: the step each thread goes on with
  restarts, toggles

Threads == {"ui", "worker"}
Versions == 1..MaxVersion
Absent == 0
Edited == -1

(* A torrent is built from what is in the mod folder: intact is whether    *)
(* that was the release, which is what the announce's info hash is of.     *)
Seed == [mod : Mods, version : Versions, intact : BOOLEAN]
AnnouncedHash(m, v) == [mod |-> m, version |-> v, intact |-> TRUE]

Seeds(m) == {s \in roster : s.mod = m}

catalogVars == <<announced, revoked, rows>>
folderVars  == <<rec, content, written>>
switchVars  == <<enabled, saved, toggles>>
seedVars    == <<roster, paused, mounted, located, attested, present, session>>
savedVars   == <<stamps, cache>>
stepVars    == <<row, job, pc, removed, after>>
stopVars    == <<removed, after>>
vars        == <<catalogVars, folderVars, switchVars, seedVars, savedVars, stepVars, restarts>>

SeedInit ==
  /\ announced = [m \in Mods |-> 0] /\ revoked = {}
  /\ rec = [m \in Mods |-> 0] /\ content = [m \in Mods |-> Absent] /\ written = [m \in Mods |-> 0]
  /\ enabled = TRUE /\ saved = TRUE /\ toggles = 0
  /\ roster = {} /\ paused = {} /\ mounted = {} /\ located = {} /\ attested = {}
  /\ present = {} /\ session = {}
  /\ stamps = [m \in Mods |-> [v \in Versions |-> 0]]
  /\ cache = [m \in Mods |-> [v \in Versions |-> {}]]
  /\ rows = [m \in Mods |-> 0]
  /\ row \in Mods \X {0} \X {"none"} /\ job \in Mods \X {0}
  /\ pc = [t \in Threads |-> "idle"] /\ removed = [t \in Threads |-> {}]
  /\ after = [t \in Threads |-> "idle"]
  /\ restarts = 0

Goto(t, step) == pc' = [pc EXCEPT ![t] = step]
At(t, step)   == pc[t] = step

UiMod == row[1]
WorkerMod == job[1]

Steps == {"idle", "judge", "contains", "register", "stamp", "prepare", "add", "roster",
          "record", "compare", "erase", "withdraw", "begin", "fetch", "swap", "save",
          "attest", "warm", "warmed", "unseed", "displace", "unattest", "unrecord"}

-----------------------------------------------------------------------------
(* TorrentSession::StopSeeding, which goes on with "next".                 *)

StopSeeding(t, m, next) ==
  IF Seeds(m) = {} THEN Goto(t, next) /\ UNCHANGED <<roster, stopVars>>
  ELSE /\ roster' = roster \ Seeds(m)
       /\ removed' = [removed EXCEPT ![t] = Seeds(m)]
       /\ after' = [after EXCEPT ![t] = next]
       /\ Goto(t, "unseed")

StopUnseeds(t) ==
  /\ At(t, "unseed")
  /\ session' = session \ removed[t]
  /\ paused' = paused \ removed[t]
  /\ mounted' = mounted \ removed[t]
  /\ Goto(t, "displace")
  /\ UNCHANGED <<catalogVars, folderVars, switchVars, savedVars, row, job, stopVars, restarts,
                 roster, located, attested, present>>

StopForgetsPlacements(t) ==
  /\ At(t, "displace")
  /\ located' = located \ {s.mod : s \in removed[t]}
  /\ Goto(t, "unattest")
  /\ UNCHANGED <<catalogVars, folderVars, switchVars, savedVars, row, job, stopVars, restarts,
                 roster, paused, mounted, attested, present, session>>

StopForgetsAttestation(t) ==
  /\ At(t, "unattest")
  /\ attested' = attested \ {s.mod : s \in removed[t]}
  /\ Goto(t, "unrecord")
  /\ UNCHANGED <<catalogVars, folderVars, switchVars, savedVars, row, job, stopVars, restarts,
                 roster, paused, mounted, located, present, session>>

StopForgetsPresence(t) ==
  /\ At(t, "unrecord")
  /\ present' = present \ removed[t]
  /\ removed' = [removed EXCEPT ![t] = {}]
  /\ Goto(t, after[t])
  /\ UNCHANGED <<catalogVars, folderVars, switchVars, savedVars, row, job, after, restarts,
                 roster, paused, mounted, located, attested, session>>

Stopping(t) ==
  \/ StopUnseeds(t) \/ StopForgetsPlacements(t)
  \/ StopForgetsAttestation(t) \/ StopForgetsPresence(t)

-----------------------------------------------------------------------------
(* A catalogue row: CatalogService::Describe_ and Seed_, and               *)
(* TorrentSession::Announce.                                               *)

Withdrawing(m) ==
  WorkerMod = m /\ pc["worker"] \in {"unseed", "displace", "unattest", "unrecord"}

(* Broken: the installed release is not compared with the announced one. *)
Unseedable_AnyVersion(m, v) == m \in revoked \/ rec[m] = 0 \/ content[m] = Absent

Unseedable(m, v) == m \in revoked \/ rec[m] # v \/ content[m] = Absent

(* The row keeps what it found; the manifest may not be stored.            *)
Describe(m) ==
  /\ At("ui", "idle") /\ announced[m] # 0
  /\ Overlap \/ ~Withdrawing(m)
  /\ \E found \in IF Unseedable(m, announced[m]) THEN {"unseedable"} ELSE {"unheld", "seedable"} :
       row' = <<m, announced[m], found>>
  /\ rows' = [rows EXCEPT ![m] = announced[m]]
  /\ Goto("ui", "judge")
  /\ UNCHANGED <<announced, revoked, folderVars, switchVars, seedVars, savedVars, job, stopVars, restarts>>

Mismatched(m, v) == Seeds(m) # {} /\ AnnouncedHash(m, v) \notin roster

Judge ==
  /\ At("ui", "judge")
  /\ \/ /\ ~enabled \/ row[3] = "unheld"
        /\ Goto("ui", "idle") /\ UNCHANGED <<roster, stopVars>>
     \/ /\ enabled /\ row[3] = "unseedable"
        /\ StopSeeding("ui", UiMod, "idle")
     \/ /\ enabled /\ row[3] = "seedable"
        /\ IF Mismatched(UiMod, row[2]) THEN StopSeeding("ui", UiMod, "contains")
           ELSE Goto("ui", "contains") /\ UNCHANGED <<roster, stopVars>>
  /\ UNCHANGED <<catalogVars, folderVars, switchVars, savedVars, row, job, restarts,
                 paused, mounted, located, attested, present, session>>

(* Announce finds the mod seeded already, or the stored manifest is gone.  *)
AnnounceDeclined ==
  /\ At("ui", "contains")
  /\ Goto("ui", "idle")
  /\ UNCHANGED <<catalogVars, folderVars, switchVars, seedVars, savedVars, row, job, stopVars, restarts>>

(* Broken: the placements of the mod are not registered. *)
AnnounceRegisters_Nothing ==
  /\ At("ui", "contains") /\ Seeds(UiMod) = {}
  /\ Goto("ui", "stamp")
  /\ UNCHANGED <<catalogVars, folderVars, switchVars, savedVars, row, job, stopVars, restarts, seedVars>>

AnnounceRegisters ==
  /\ At("ui", "contains") /\ Seeds(UiMod) = {}
  /\ Overlap \/ ~Withdrawing(UiMod)
  /\ located' = located \cup {UiMod}
  /\ Goto("ui", "stamp")
  /\ UNCHANGED <<catalogVars, folderVars, switchVars, savedVars, row, job, stopVars, restarts,
                 roster, paused, mounted, attested, present, session>>

Stamped(m, v) == stamps[m][v] = written[m]

\* SeedStampStore::Save, which may fail.
SavesStamp(m, v) == stamps' \in {stamps, [stamps EXCEPT ![m][v] = written[m]]}

AnnounceStamps ==
  /\ At("ui", "stamp")
  /\ LET m == UiMod
         v == row[2] IN
     \/ Stamped(m, v) /\ attested' = attested \cup {m} /\ UNCHANGED stamps
     \/ /\ ~Stamped(m, v)
        /\ attested' = attested \ {m}
        /\ SavesStamp(m, v)
  /\ Goto("ui", "prepare")
  /\ UNCHANGED <<catalogVars, folderVars, switchVars, cache, row, job, stopVars, restarts,
                 roster, paused, mounted, located, present, session>>

(* SeedTorrentAssembler::Assemble_: a cached torrent is compared in size   *)
(* only; else one is built from the folder, and cached if that succeeds.   *)
Assembled(m, v) == IF cache[m][v] # {} THEN cache[m][v] ELSE {content[m] = v}
Caches(m, v) == cache' \in {cache, [cache EXCEPT ![m][v] = Assembled(m, v)]}

AnnouncePrepares ==
  /\ At("ui", "prepare")
  /\ Caches(UiMod, row[2])
  /\ Goto("ui", "add")
  /\ UNCHANGED <<catalogVars, folderVars, switchVars, stamps, seedVars, row, job, stopVars, restarts>>

(* The torrent cannot be built, or the session rejects it.                 *)
AnnounceFails ==
  /\ At("ui", "prepare") \/ At("ui", "add")
  /\ located' = located \ {UiMod}
  /\ Goto("ui", "idle")
  /\ UNCHANGED <<catalogVars, folderVars, switchVars, savedVars, row, job, stopVars, restarts,
                 roster, paused, mounted, attested, present, session>>

(* libtorrent mounts the storage, whose role is read from the placements.  *)
AnnounceAdds ==
  /\ At("ui", "add")
  /\ \E intact \in Assembled(UiMod, row[2]) :
       LET s == [mod |-> UiMod, version |-> row[2], intact |-> intact] IN
         /\ s \notin session
         /\ session' = session \cup {s}
         /\ mounted' = IF UiMod \in located THEN mounted \cup {s} ELSE mounted
         /\ roster' = roster \cup {s}
  /\ Goto("ui", "record")
  /\ UNCHANGED <<catalogVars, folderVars, switchVars, savedVars, row, job, stopVars, restarts,
                 paused, located, attested, present>>

AnnounceRecords ==
  /\ At("ui", "record")
  /\ present' = present \cup Seeds(UiMod)
  /\ Goto("ui", "compare")
  /\ UNCHANGED <<catalogVars, folderVars, switchVars, savedVars, row, job, stopVars, restarts,
                 roster, paused, mounted, located, attested, session>>

(* Broken: a torrent that is not the announced one goes on being seeded. *)
Compare_Keeps ==
  /\ At("ui", "compare")
  /\ Goto("ui", "idle")
  /\ UNCHANGED <<catalogVars, folderVars, switchVars, savedVars, row, job, restarts,
                 seedVars, stopVars>>

Compare ==
  /\ At("ui", "compare")
  /\ IF Mismatched(UiMod, row[2]) THEN StopSeeding("ui", UiMod, "idle")
     ELSE Goto("ui", "idle") /\ UNCHANGED <<roster, stopVars>>
  /\ UNCHANGED <<catalogVars, folderVars, switchVars, savedVars, row, job, restarts,
                 paused, mounted, located, attested, present, session>>

Row ==
  \/ \E m \in Mods : Describe(m)
  \/ Judge \/ AnnounceDeclined \/ AnnounceRegisters \/ AnnounceStamps \/ AnnouncePrepares
  \/ AnnounceFails \/ AnnounceAdds \/ AnnounceRecords \/ Compare

-----------------------------------------------------------------------------
(* TorrentSession::SetEnabled, and ModRemovalService::Remove.              *)

SetEnabled ==
  /\ At("ui", "idle") /\ toggles < MaxToggles
  /\ toggles' = toggles + 1
  /\ enabled' = ~enabled
  /\ saved' \in {saved, ~enabled}
  /\ paused' = IF enabled THEN roster ELSE {}
  /\ UNCHANGED <<catalogVars, folderVars, savedVars, stepVars, restarts,
                 roster, mounted, located, attested, present, session>>

Remove(m) ==
  /\ At("ui", "idle") /\ At("worker", "idle")
  /\ rec[m] # 0 /\ content[m] # Absent
  /\ written[m] < MaxWrites
  /\ row' = <<m, 0, "none">>
  /\ StopSeeding("ui", m, "erase")
  /\ UNCHANGED <<catalogVars, folderVars, switchVars, savedVars, job, restarts,
                 paused, mounted, located, attested, present, session>>

(* A file that cannot be deleted leaves the rest deleted and the record.   *)
Erase ==
  /\ At("ui", "erase")
  /\ written' = [written EXCEPT ![UiMod] = @ + 1]
  /\ \/ content' = [content EXCEPT ![UiMod] = Absent] /\ rec' = [rec EXCEPT ![UiMod] = 0]
     \/ content' = [content EXCEPT ![UiMod] = Edited] /\ UNCHANGED rec
  /\ Goto("ui", "idle")
  /\ UNCHANGED <<catalogVars, switchVars, seedVars, savedVars, row, job, stopVars, restarts>>

-----------------------------------------------------------------------------
(* The installer: InstallService::StartFetch_ and RunInstall_.             *)

Install(m) ==
  /\ At("ui", "idle") /\ At("worker", "idle")
  /\ announced[m] # 0
  /\ rec[m] # 0 \/ content[m] = Absent
  /\ written[m] < MaxWrites
  /\ job' = <<m, announced[m]>>
  /\ Goto("worker", "withdraw")
  /\ UNCHANGED <<catalogVars, folderVars, switchVars, seedVars, savedVars, row, stopVars, restarts>>

RowOf(m) == UiMod = m /\ ~At("ui", "idle")

WithdrawSeed ==
  /\ At("worker", "withdraw")
  /\ Overlap \/ ~RowOf(WorkerMod)
  /\ StopSeeding("worker", WorkerMod, "begin")
  /\ UNCHANGED <<catalogVars, folderVars, switchVars, savedVars, row, job, restarts,
                 paused, mounted, located, attested, present, session>>

FetchHash == AnnouncedHash(WorkerMod, job[2])

(* Begin refuses an info hash that is present, libtorrent one it has.      *)
FetchRefused ==
  /\ At("worker", "begin")
  /\ Goto("worker", "idle")
  /\ UNCHANGED <<catalogVars, folderVars, switchVars, seedVars, savedVars, row, job, stopVars, restarts>>

FetchBegins ==
  /\ At("worker", "begin")
  /\ FetchHash \notin present /\ FetchHash \notin session
  /\ session' = session \cup {FetchHash}
  /\ Goto("worker", "fetch")
  /\ UNCHANGED <<catalogVars, folderVars, switchVars, savedVars, row, job, stopVars, restarts,
                 roster, paused, mounted, located, attested, present>>

FetchUnneeded ==
  /\ At("worker", "begin")
  /\ Goto("worker", "swap")
  /\ UNCHANGED <<catalogVars, folderVars, switchVars, seedVars, savedVars, row, job, stopVars, restarts>>

FetchEnds ==
  /\ At("worker", "fetch")
  /\ session' = session \ {FetchHash}
  /\ Goto("worker", "swap") \/ Goto("worker", "idle")
  /\ UNCHANGED <<catalogVars, folderVars, switchVars, savedVars, row, job, stopVars, restarts,
                 roster, paused, mounted, located, attested, present>>

(* ContentInstaller::Materialise_ swaps file by file.                      *)
Swap ==
  /\ At("worker", "swap")
  /\ written[WorkerMod] < MaxWrites
  /\ written' = [written EXCEPT ![WorkerMod] = @ + 1]
  /\ \/ content' = [content EXCEPT ![WorkerMod] = job[2]] /\ Goto("worker", "save")
     \/ content' = [content EXCEPT ![WorkerMod] = Edited] /\ Goto("worker", "idle")
  /\ UNCHANGED <<catalogVars, rec, switchVars, seedVars, savedVars, row, job, stopVars, restarts>>

SwapFails ==
  /\ At("worker", "swap")
  /\ Goto("worker", "idle")
  /\ UNCHANGED <<catalogVars, folderVars, switchVars, seedVars, savedVars, row, job, stopVars, restarts>>

(* The result of Save is ignored. *)
SaveRecord ==
  /\ At("worker", "save")
  /\ rec' \in {rec, [rec EXCEPT ![WorkerMod] = job[2]]}
  /\ Goto("worker", "attest")
  /\ UNCHANGED <<catalogVars, content, written, switchVars, seedVars, savedVars, row, job, stopVars, restarts>>

AttestContent ==
  /\ At("worker", "attest")
  /\ \/ /\ stamps' = [stamps EXCEPT ![WorkerMod][job[2]] = written[WorkerMod]]
        /\ attested' = attested \cup {WorkerMod}
     \/ UNCHANGED <<stamps, attested>>
  /\ Goto("worker", "warm")
  /\ UNCHANGED <<catalogVars, folderVars, switchVars, cache, row, job, stopVars, restarts,
                 roster, paused, mounted, located, present, session>>

PrepareSeed ==
  /\ At("worker", "warm")
  /\ Caches(WorkerMod, job[2])
  /\ Goto("worker", "warmed")
  /\ UNCHANGED <<catalogVars, folderVars, switchVars, stamps, seedVars, row, job, stopVars, restarts>>

InstallEnds ==
  /\ At("worker", "warmed")
  /\ Goto("worker", "idle")
  /\ UNCHANGED <<catalogVars, folderVars, switchVars, seedVars, savedVars, row, job, stopVars, restarts>>

Installer ==
  \/ \E m \in Mods : Install(m)
  \/ WithdrawSeed \/ FetchRefused \/ FetchBegins \/ FetchUnneeded \/ FetchEnds
  \/ Swap \/ SwapFails \/ SaveRecord \/ AttestContent \/ PrepareSeed \/ InstallEnds

-----------------------------------------------------------------------------
(* The world: gossip, the key registry, the player, the end of the program.*)

NewRelease(m) ==
  /\ announced[m] < MaxVersion
  /\ announced' = [announced EXCEPT ![m] = @ + 1]
  /\ UNCHANGED <<revoked, rows, folderVars, switchVars, seedVars, savedVars, stepVars, restarts>>

Revoke(m) ==
  /\ m \notin revoked
  /\ revoked' = revoked \cup {m}
  /\ UNCHANGED <<announced, rows, folderVars, switchVars, seedVars, savedVars, stepVars, restarts>>

Edit(m) ==
  /\ content[m] # Absent /\ written[m] < MaxWrites
  /\ content' = [content EXCEPT ![m] = Edited]
  /\ written' = [written EXCEPT ![m] = @ + 1]
  /\ UNCHANGED <<catalogVars, rec, switchVars, seedVars, savedVars, stepVars, restarts>>

(* What is saved survives; RestoreSeedingPreference reads the switch.      *)
Restart ==
  /\ restarts < MaxRestarts
  /\ restarts' = restarts + 1
  /\ enabled' = saved
  /\ roster' = {} /\ paused' = {} /\ mounted' = {} /\ located' = {} /\ attested' = {}
  /\ present' = {} /\ session' = {}
  /\ rows' = [m \in Mods |-> 0]
  /\ pc' = [t \in Threads |-> "idle"] /\ removed' = [t \in Threads |-> {}]
  /\ after' = [t \in Threads |-> "idle"]
  /\ UNCHANGED <<announced, revoked, folderVars, saved, toggles, savedVars, row, job>>

World ==
  \/ \E m \in Mods : NewRelease(m) \/ Revoke(m) \/ Edit(m)
  \/ Restart

SeedNext ==
  \/ Row \/ Installer \/ World
  \/ SetEnabled \/ Erase
  \/ \E m \in Mods : Remove(m)
  \/ \E t \in Threads : Stopping(t)

SeedSpec == SeedInit /\ [][SeedNext]_vars

-----------------------------------------------------------------------------
SeedTypeOK ==
  /\ announced \in [Mods -> 0..MaxVersion] /\ revoked \subseteq Mods
  /\ rec \in [Mods -> 0..MaxVersion] /\ content \in [Mods -> Edited..MaxVersion]
  /\ written \in [Mods -> 0..MaxWrites + 1]
  /\ enabled \in BOOLEAN /\ saved \in BOOLEAN
  /\ roster \subseteq Seed /\ paused \subseteq Seed /\ mounted \subseteq Seed
  /\ located \subseteq Mods /\ attested \subseteq Mods
  /\ present \subseteq Seed /\ session \subseteq Seed
  /\ stamps \in [Mods -> [Versions -> 0..MaxWrites + 1]]
  /\ cache \in [Mods -> [Versions -> SUBSET BOOLEAN]]
  /\ rows \in [Mods -> 0..MaxVersion]
  /\ row \in Mods \X (0..MaxVersion) \X {"none", "unseedable", "unheld", "seedable"} /\ job \in Mods \X (0..MaxVersion)
  /\ pc \in [Threads -> Steps] /\ removed \in [Threads -> SUBSET Seed]
  /\ after \in [Threads -> Steps]
  /\ restarts \in 0..MaxRestarts /\ toggles \in 0..MaxToggles

(* A seed can answer its peers: its storage reads the mod folder and the   *)
(* placements of its chunks are known.                                     *)
SeedsAreServed == \A s \in roster : s.mod \in located /\ s \in mounted

(* The info hashes Begin refuses are those of the seeds: none is left over *)
(* that would refuse a repair until the next start of the program.         *)
PresentMatchesRoster ==
  /\ \A h \in present : h \in roster \/ \E t \in Threads : h \in removed[t]
  /\ \A s \in roster : s \in present \/ (UiMod = s.mod /\ At("ui", "record"))

(* A seed is of the release recorded as installed: updates and removals    *)
(* leave no seed of an older release behind.                               *)
SeedIsOfRecord == \A s \in roster : s.version = rec[s.mod]

(* A torrent that is not the announced one, because the files were edited, *)
(* is seeded no longer than it takes to compare it.                        *)
MismatchIsWithdrawn ==
  \A s \in roster : ~s.intact => UiMod = s.mod /\ pc["ui"] \in {"record", "compare"}

(* Placements are known only of mods that are seeded or about to be.       *)
PlacementsAreSeeded ==
  \A m \in located :
    \/ Seeds(m) # {}
    \/ UiMod = m /\ pc["ui"] \in {"stamp", "prepare", "add"}
    \/ \E t \in Threads : \E s \in removed[t] : s.mod = m

(* A seed that is running is of the release its catalogue row shows.       *)
RunningSeedsAreCurrent ==
  At("ui", "idle") => \A s \in roster \ paused : rows[s.mod] = s.version

(* After an install has put the release in place, the torrent it prepares  *)
(* for seeding is of that release.                                         *)
InstalledModIsSeedable ==
  At("worker", "warmed") => cache[WorkerMod][job[2]] \subseteq {TRUE} \/ content[WorkerMod] = Edited
=============================================================================
