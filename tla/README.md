# Formal models of the WGRD mod manager

TLA+ models of the program's core logic, the TLC runs that check them on small
instances, and TLAPS proofs. Paths are relative to the repository; `downloader/`,
`manager/`, `gui/`, `app/` and `domain/` are directories of its `src/`.

## Running

    tlc -workers 2 -config MCFetchSession.cfg MCFetchSession
    tlc -workers 2 -config FindClearWindow.cfg MCInstallFlow    # ends in a violation
    tlapm InstallFlowProofs.tla       # and each of the other ...Proofs modules

`PROJECT.json` names every run, its module and its configuration, the source lines
each definition stands for, and for each property a mutant: a plausible bug in one
definition that makes TLC find the property violated. The mutated definitions
(`..._KeepsTorrent`, `..._IgnoresBacklog`, ...) stand next to the originals, after a
comment that begins with "Broken:", and no specification uses them.

## The system

A desktop program that installs, updates, verifies, publishes and seeds mods of a
game over BitTorrent. There is no server: signed *announces* gossip between peers,
each naming a release (version, manifest digest, info hash); a *manifest* lists
the payload files and their content-defined chunks; an *envelope* signs both.

### Threads

| thread | started by | does |
| --- | --- | --- |
| window loop | `Application::Run` (`gui/Application.cpp:96`) | each frame: `TorrentSession::Poll`, `InstallService::Poll`, adopts finished installs (`CatalogService::Refresh`), registry tick, mirror poll, screens |
| install worker | `InstallService`, one at a time | plans, waits for the baseline index, stages, begins the content fetch; later installs and records; or audits |
| disk worker | `StorageJobQueue` | reads, writes and checks of `InstalledFolderStorage` |
| libtorrent | the session | pieces, metadata, alerts, gossip plugin callbacks |
| baseline worker | `BaselineIndexService` | indexes the game's packs |
| short-lived workers | publish, patcher, registry, application update | one job each, joined before the next |

The composition root is `app/session/ManagerSession.cpp:57`: it builds each service,
hands the swarm to the catalogue, the installer, removal and publishing, and wires
the load order's change handler to `ProfileService::SyncActive` (line 110).

### Components

**Fetch session** (`downloader/transfer`, `downloader/storage`). State: the fetch
(phase, wanted files, torrent handle, confirmations, removals awaited, the pending
clear) under the mutex of `FetchState`; destinations and the staging folder in
`ChunkLocator`; the disk queue; the backlog of tracked writes. Operations: `Begin`,
`Cancel`, `Poll`. Hard: `Begin` and `Cancel` run on two threads and take the mutex
several times each; a torrent goes on writing after it is removed; completion is
inferred from libtorrent's counters while writes are still queued. Correct when: a
completed fetch has every wanted byte on disk; every torrent added is followed until
it is removed; no destination outlives its fetch; a postponed clear happens.

**Storage** (`downloader/storage/InstalledFolderStorage.cpp`, `OpenFileCache`,
`StorageJobQueue`). State: a table of slots with the role each torrent was given, a
queue with one sleeping worker, the backlog, open handles by path. Operations: mount,
read, write, check, stop a torrent, release handles, clear destinations, abort. Hard:
slots are reused while jobs of the old torrent wait; a handle is found by its path and
stays on the file that had it. Correct when: no job or handle touches another release's
file, a seed serves what it announced, the backlog drains.

**Peers and rates** (`PeerDialer`, `TransferBudget`, `ControlSwarmStarter`,
`AnnounceExchange`'s table of budgets). State: manual and noted peers, the budget and
its file, the ceiling of each torrent; per peer a bucket and a ladder of blocks. Hard:
the worker begins a fetch in steps while the window changes the budget or adds peers.
Correct when: every torrent has every peer and the current ceiling, and a block is
served to its end.

**Install service** (`manager/service/InstallService.cpp`, `manager/service/install`).
State: `InstallProgress`, `_target`, `_plan`, `_awaitingManifest`, `_detailsOnly`,
the atomics `_busy`, `_abandoned`, `_settled`. Operations: `Start`, `FetchDetails`,
`Verify`, `Cancel`, `Poll` on the window loop, planning, staging, installing and
auditing on the worker. Hard: an attempt moves between two threads four times and can
be cancelled in each; its outcome must be counted once. Correct when: attempts never
overlap, content is installed only when its chunks are there, a preview installs
nothing, a cancel comes back.

**Installed content** (`manager/install`, `manager/manifest/ManifestBuilder.cpp`,
`downloader/storage/ChunkRangeIo.cpp`). State: the mod folder, staged copies beside
the files they replace, the installed record. Operations: diff or audit, stage,
check resumed files, write chunks, fill staged files, swap, remove, record. Hard:
sources of chunks are the very files that get replaced; the program can end anywhere
and the next attempt takes up what is there.

**Seeding and catalogue** (`manager/service/CatalogService.cpp`,
`manager/service/ModRemovalService.cpp`, `downloader/transfer`). State: the roster,
placements, attestations, present info hashes and libtorrent's torrents, each behind
a mutex of its own; stamps, cached torrents and the switch on disk. Operations:
refresh a row, announce, stop, attest, switch, remove. Hard: five tables must agree
although no lock covers two; the installer withdraws a seed while the window may
announce it.

**Announce gossip, receiver and store** (`downloader/announce`, `manager/announce`).
State per peer: what was wanted and not yet answered, an allowance and penalties;
globally the newest announce per mod, and its file. Operations: offer, want, record,
accept, save, restore. Hard: bounded offers, duplicates, a peer that must not be
penalised for honest traffic, versions that must not go back across restarts.

**Publishing and keys** (`manager/service/PublishService.cpp`, `manager/publish`).
State: the key files, the key in use, the manifest store, the catalogue, the installed
record. A worker builds, seals, announces and records a release while the window may
lock the key or unlock another. Correct when: what is announced is signed by whom it
names and can be loaded by whoever is told of it.

**Manifests, chunking and torrents** (`manager/manifest`, `manager/payload`,
`downloader/chunk`, `downloader/torrent`, `manager/trust/ManifestEnvelope.cpp`). From a
folder to a document and a torrent, and from the fetched document back to a plan. Hard:
the folder is read twice while the author may save it; a stored document may be torn;
encoder and decoder are written apart. Correct when: the torrent is of the chunks the
manifest names, and nothing but the announced document is ever used, for the announce it was made for.

**Trust and registry updates** (`manager/trust`, `RegistryUpdateService`). Keys and
revocations in a directory, reloaded after a download. Hard: a download in place that
fails; two threads reloading. Correct when: memory is what the folder says, and a
revocation takes hold.

**Baseline index** (`manager/baseline`). A background catalogue of the game's packs
from which an install can take chunks. Hard: the installer waits for it on its worker;
packs are patched while they are read; records are written in place.

**Load order and profiles** (`manager/order`, `manager/profile`, their services). State:
the order file (enabled folders only), the entries shown and an undo history of up to 64;
per account the profile files, a copy of the game's own profile beside each, and a file
that names the active profile. All on the window loop. Operations: enable, move, undo,
refresh; capture, clone, activate, remove, set default. Hard: a switch changes four files
that belong together, one after the other; the order file and the live game profile
belong to the game and change outside the program. Correct when: what is shown is what the
game loads, and no profile takes over what belongs to another.

**Updates and patcher** (`UpdateService`, `PatcherService`, `manager/update`). Check,
download, swap of the running executable, relaunch; the patcher's library copied into the
game. Hard: two renames with an undo; a download that ends early; a marker written apart
from the files it speaks of. Correct when: a program that starts is left, and "up to date"
is true.

**Mirroring** (`MirrorService`). With its switch on, installs one wanted mod after another.

**Session and window** (`app/session`, `gui/Application.cpp`, `gui/platform`). Builds and
destroys the services, runs the loop, asks before it leaves work behind, starts again in
another game folder. Correct when: no thread uses a service that is not alive.

**Domain types, extensions, previews, screens.** Values, small files, drawing.

### How they interact

* The window loop calls the installer and the swarm from one thread; the installer's
  worker calls the swarm from a second. `FetchState`'s mutex is the only thing they
  share there.
* `InstallService::Poll` reads the fetch's progress and cancels the fetch on every
  outcome except its failure. The worker reads the staged files the fetch wrote.
* The installer withdraws the seed of the mod it changes, and attests the folder when
  it has recorded it. The catalogue's next refresh announces it again.
* The catalogue reads the receiver's announces; the gossip and the publisher fill the
  receiver; the receiver and the loader of manifests ask the key registry.
* The mirror calls the installer; the installer's worker waits for the baseline index.
* The registry's poll, on its worker, and publishing, on the window loop, both reload the key
  registry.

## The modules

| module | models | state and actions |
| --- | --- | --- |
| `FetchSession` | the fetch session | The variables of `FetchState` under their own names, `dest` and `staging` for the locator, `jobs`/`pending` for the queue and backlog, one record per torrent for libtorrent. One action per critical section of `Begin`/`Cancel` (`Check`, `Retire`, `Release`, `Reserve`, `AbandonPendingClear`, `Register`, `SetFetchStaging`, `GiveUp`, `AddTorrent`, `Adopt`), for each of two threads; `Poll` as `Route` (or `RouteReads` and `RouteActs`, when the other thread steps in between), `ClearConfirmed`, `Refresh`, `ApplyPriorities`, `Update`; libtorrent's and the disk thread's steps in `Swarm` |
| `InstallFlow` | install service over `FetchSession` (EXTENDS it) | `iphase`, `_busy`, `_abandoned`, `_settled`, what is stored, and where each of the two threads stands. Calls into the session are `CallBegin`/`CallCancel` and interleave step by step |
| `InstallFlowProofs` | | theorems about `FetchSession`, and about `InstallFlow` and its contract |
| `InstallContract` | what a caller of the service may rely on: one attempt at a time, each with one outcome and counted once; a mod goes on record only by an attempt at it that ends well and is no preview | `InstallFlow` is shown to implement it with `status <- IF busy THEN "running" ELSE iphase` |
| `ContentInstall` | the bytes | Files are sequences of slots, each holding a chunk's digest or junk. One action per loop iteration of staging, writing, filling, swapping, removing; the process can end after each and inside a copy or a write |
| `ReplacementProofs` | | theorems about `ContentInstall` and `Updates` |
| `Storage` | the disk under libtorrent, below the install cycle of one mod | `slots`, the job queue with its worker's steps (take, check the slot, open, read or write, settle), open handles, files apart from the paths that name them; seeds and fetches are added and stopped around `Swap`; the session may end |
| `StorageProofs` | | theorems about `Storage` |
| `Seeding` | seeding and catalogue | One table per mutex, one action per critical section, on two threads; edits of the folder and restarts |
| `Swarm` | who is dialled, and how fast torrents run | The control torrent's start, `AnnounceSeed`, `BeginFetch`/`CapFetch`/`AdoptFetch`/`DialBegun` on the worker against `AddGossipPeer`, `SetLinkBudget`, the polls and noted peers on the others |
| `Throttle` | budgets of peers | The bucket, the ladder of blocks, the table with its eviction, against a clock |
| `SessionProofs` | | theorems about `Seeding`, `Swarm`, `Throttle` and `Session` |
| `Gossip` | announce gossip, receiver, store, version numbers | A link `<<p, n>>` is one direction of a connection; what `n`'s plugin keeps about `p` (wants, budget, block) is indexed by it. One action per message handler, `TickOffers`/`TickRefreshes` for the tick, `Publish...` for the stages of a publication, and connections, restarts, key changes |
| `GossipProofs` | | theorems about `Gossip` |
| `Publishing` | keys and the stages of a publish | `keyFile`, `unlocked`, `registry`, the worker's `pc` and `job`, the catalogue and its records on disk, store, installed record. One action per step of `Publish` between two uses of shared state; keys are created, unlocked and locked in between; each write may fail or be torn, that of a record in the announce store without anyone noticing (`Loses`), and a start takes back what is left (`Restored`) |
| `PublishingProofs` | | theorems about `Publishing`, `Delivery` and `Packing` |
| `Chunking` | `FastCdcChunker`, `ChunkSizes`, `ChunkMerkleHasher` | Operators on sequences of bytes, with the widths, masks and sizes as constants: `NextBoundary`, `Split`, block and piece roots, with symbolic hashes |
| `PayloadPath` | `PayloadPathPolicy` | A path is the record of what the policy asks of it |
| `ManifestDocument` | `ManifestCodec`, `ManifestEnvelope`, `ManifestAuthenticator` | `Encode`, `Decode` with every rejection, `Seal`, `Authentic` |
| `Packing` | making a release of a folder | EXTENDS the three above. `CollectPaths`, `DescribeFile`, `ReadPreviews`, `ReadDescription`, `SealManifest`, `HashEntry`, while the author writes and deletes files |
| `Delivery` | the document on its way | EXTENDS `Packing`. Announced, fetched, adopted, torn on disk, loaded again, announced again, its key revoked, or made by another program |
| `Https` | what a download comes to | `Answers`: whole, cut or failed, used by the next two |
| `Registry` | `DirectoryKeyRegistry`, `RegistryUpdateService` | `disk`, `keys`, a `pc` per thread; a poll is one action per file, each download opens the old file, then writes or deletes it; a reload reads keys, reads revocations, assigns |
| `Updates` | `UpdateService`, `ExecutableSwapper`, `PatcherService` | `place` says where each service's worker stands; one action per file operation, each of which may fail; crashes |
| `Baseline` | `BaselineIndexService` and what it keeps | The worker's steps (restore, take a pack, stamp it, read it, stamp it again, adopt, record), the waiter's, closing and crashing, and the game changing packs |
| `Mirror` | `MirrorService`, `MirrorSwitch` | EXTENDS `Baseline`: an installation is one of its waiters. `Poll`, `InstallEnds`, `InstallFails`, `SetEnabled`, and what the user and the catalogue do to rows. `target` is the release an installation began with |
| `BaselineProofs` | | theorems about `Baseline`, under `Mirror`'s installations |
| `Session` | the composition root and the window loop | `at` for the main thread, `alive` for the services, `todo` per worker: what each of its next steps uses. `Build` and `Destroy` one service at a time, the rounds of the loop, the dialog, the tray, choosing a folder |
| `LoadOrder` | `OrderService` and the order file | `entries`, `undo`, `installed` as in the service, `file` on disk; one operator per operation, with the outcome of its write as a parameter |
| `Profiles` | `ProfileService` and its files over `LoadOrder` (EXTENDS it), adopted installs and removal of mods | One action per operation of the profiles screen; `Activate` is four (`Activate`, `RestoreGame`, `ApplyOrder`, `MarkActive`), since the program may end between its writes; each write and copy may fail, those `Windows` names only in the findings; `End`, `Start`, the game (`Plays`) and other programs (`Outside`). `meant` and `progress` remember what the user and the game last made of each profile, and are read by properties only |
| `LocalFilesProofs` | | theorems about `Registry`, and about `LoadOrder` and `Profiles` |
| `MC...` | | values of constants for TLC. `MCPublishing` (`Delivery`, `Publishing`), `MCDownloads` (`Registry`, `Updates`) and `MCSession` (`Session`, `Seeding`, `Swarm`, `Throttle`) hold specifications that share no state; a behaviour of theirs is one of a part (`Explored` says which), so their states add up and do not multiply |

How they fit together: `InstallFlow` abstracts the bytes of `ContentInstall` to "these
chunks landed" and the disk of `Storage` to tracked writes; `Seeding` abstracts all three
to "the folder now holds this release". `ContentInstall` abstracts the fetch to pieces
that arrive in any order. `Publishing` abstracts the document and the torrent of `Packing`
to an envelope, `Packing` the keys of `Publishing` to a signer. `Gossip` takes one
publisher and its numbers from `Publishing`; `Throttle` refines its budgets with time and
a table. `Mirror` abstracts `InstallFlow` to an attempt that ends or fails.

### What the models take for granted

* libtorrent (external): a piece counts when it is received, its write is queued at
  that moment; a torrent in error stops; the removal of a torrent is always announced
  by an alert; alerts popped together are routed in one step; a removed torrent's
  storage is stopped after the jobs it had submitted.
* A drain (`StorageBacklog::AwaitDrain`) may time out, so it promises nothing. In `Storage`,
  too, it may give up (`DrainGivesUp`), and the live file is safe all the same: one worker takes
  the jobs in order, and handles are closed again before the swap.
* Files of `ContentInstall` have slots of one length; files are handled in the order
  of their numbers, as the manifest's order is; the player edits only between attempts
  (`Edit`). A file of `Storage` holds one block.
* In `Seeding` a folder's stamp is its modification time, and an edited folder is of
  one kind. A torrent is *intact* if the folder held the release when it was built.
* `Gossip` has one publisher, peers of one wire revision, and keys that arrive once and
  are then only revoked. Time is a refill interval that has passed or a block that has
  ended. Identifiers are numbers in their order. Budgets are never evicted (`Throttle`
  does that), and a connection comes and goes as libtorrent likes. With `SavesTear` a save
  may leave the old record, none, or the new one.
* A download over HTTPS that is interrupted may count as complete (`Https`): the body ends
  at the first empty read and is compared with no announced length, except for the packages
  whose size the release list gives (`Sized`).
* Signing is uninterruptible except for the secret key it uses in place, which the window
  may replace: the signature is then of the key that was in use, or of nobody.
* `Packing`: a file is locked while it is described, the folder never; an extension library
  is a file of one name, and its approval is a constant.
* Stamps (`Baseline`) change with every change of a pack. A pack may become unreadable.
* `Session` has one step of a worker per service it uses, in the order of the code, and
  counts the network thread as using what gossip was given for as long as the swarm lives.
* `LoadOrder` and `Profiles` have one account and the game located, and folders are
  scanned in the order of their numbers. The order file has no line twice, and its
  replacement is atomic, as `rename` is. The game does not run while a profile is switched.
  A forced switch to the active profile is meant to go back to its saved copy. What another
  program makes of the order while a profile is active may or may not become the profile's.
  A torn copy of a game profile keeps its first bytes, which is all that is verified.
* Data a property does not tell apart (names, digests, hashes, paths) are model values.

## The runs

| run | shows | bounds |
| --- | --- | --- |
| `fetch_session` | The session on its own, with any sequence of calls by both threads: a pending clear always has a removal to wait for and happens, a live torrent is the fetch, is being adopted or is awaited, destinations outlive no fetch | 2 torrents, 1 chunk and the manifest, 2 queued writes, 1 confirmation, every preemption window open |
| `install_safety` | The installer over the session: content is whole when it is installed, and the service keeps its contract | 2 attempts of one mod, 2 torrents; the windows "clear" and "refresh" closed (see findings), "route" open |
| `install_liveness` | A cancel returns; an attempt that does not wait for peers ends | the same with every window open, no confirmations |
| `install_content` | Content recorded is whole, sources survive until they are used, live files change whole, an update removes what it dropped | three releases of up to three files, of which chunks are kept, moved, repeated, shared and new, and a file of no bytes; three attempts ended anywhere, copies that fail, an edit, a file that cannot be deleted |
| `storage` | The live file is the installed release, a seed serves its own bytes, through reused slots and handles on renamed files, and the backlog drains | one mod, two releases, three torrents, a read per seed, a write per fetch, drains may give up, the session may end |
| `gossip` | A version number stands for one content everywhere, and what is published reaches a peer that trusts the publisher | a publisher and one peer, one mod, two releases, limits of one, two events among key changes, expired wants, lost connections and restarts; saves whole |
| `publishing` | The torrent is of the manifest's chunks, a subscriber works from the announced document only; what is announced is stored, and what is held is signed by whom it names | five names, four contents, two files and one edit while the folder is read, two signers, one torn document, two announced versions; two keys, two versions, six events among keys, failures, foreign announces and restarts |
| `downloads` | Memory and the registry folder agree, a revocation takes hold; an update leaves a program that starts, and "up to date" is true | a shipped and an own key, four events; three releases of program and patcher, four upsets |
| `mirror` | What the index locates is there, a waiting installation comes out of its wait, mirroring catches up | two packs that share a chunk, two versions, three events; one mod, two releases |
| `session` | No thread uses a service that is not alive; seeds are served, of the recorded release, and withdrawn when they mismatch; every torrent has every peer and the ceiling of the budget; a block is served | two folders, two starts of work per run of the program; one mod, two releases, three changes of its folder, one restart, one use of the switch, `Overlap = FALSE`; two peers, two releases, three budgets, five changes; three peers in a table of two, blocks of 2 and 4 in 3 steps of time |
| `profiles` | What is shown is on disk, a profile's order is what the user last made of it, and what the game made of a profile is in its saved copy or, while it is active, in the live file | two mod folders, two profiles, five operations by the user and other programs, two sessions of play, one fault (a write that fails or an end of the program), a history of one; the windows below closed |
| `find_clear_window` | a violation, see findings | as `install_safety`, with the window open between a confirmed removal and its clear |

Why these bounds are enough to meet the interesting cases: two torrents give a fetch
its predecessor, whose late writes and alerts are what the session must survive; a
third adds no new kind of predecessor, since what is awaited is a set. Two attempts
let the state one leaves be used by the next. `storage` has three torrents: a seed, the
fetch that takes its slot, and the seed of the new release. In `gossip` two events make
every pair meet (a restart after a revocation, a lost connection after an expired want),
and limits of one put every budget and list at its end; a third node would only add a
relay, which holds records as the peer does. In `publishing` two files and one edit are a
file and the one that is changed under it, contents are cut by the least, the marked and
the largest boundary, and six events let a key be created, switched while a release is
signed, and a second release follow a failed one. In `downloads` four events are an
outage and its end around a change of the index and a restart. In `session` two releases
and three changes of a folder make an installed, an edited and an updated one; the table
of budgets is full with one peer to evict. In `profiles` two profiles make an outgoing and
an incoming one, and five operations fill both, switch and switch back; a history of one is
at its limit after one edit. Each mutant is found within the bounds of the run it belongs
to. The largest runs have 3.5 million (`profiles`), 2.8 million (`publishing`) and 2.5 million
(`session`) states.

`CHECK_DEADLOCK FALSE` is given only where a bound ends the behaviours (`ContentInstall`,
`Profiles`, `Mirror`, `Storage`, `MCPublishing`, `MCDownloads`): every attempt, write, event or
operation has been used. In `MCSession` the program itself may not stop before it has ended;
its other parts end in a step that changes nothing. The other runs check deadlock.

### Fairness

* `FetchSession`: weak fairness of each thread inside a call (a call runs on), of
  `Poll` (the window loop never stops), of the removal of a torrent libtorrent was
  asked to remove; strong fairness of `Route` and `RouteReads`, the start of a poll: between
  two frames the other thread may be inside a call, but the loop routes whenever it comes
  round. Nothing makes peers send anything.
* `InstallFlow`: weak fairness of the worker, of the window loop's next step in what
  it is doing, of the calls in progress and of `Poll`. None for the user, for peers or
  for metadata.
* `Storage`: weak fairness of the disk worker, of `Submit` (libtorrent submits what it has
  queued) and of the stop of a torrent that was removed. None for what is asked.
* `Registry`: weak fairness of the two threads inside what they do, of the frame's tick and
  of time. None for the index, the network or the user; `RevocationTakesHold` assumes in
  its own hypothesis that the network is up from some time on.
* `Mirror`: weak fairness of the index worker, of the waiter (`wait_for` wakes it by
  itself), of an installation that can end, of the frame's `Poll` and of closing. None for
  the game or for failures, of which `MaxEvents` allows a few.
* `Gossip`: weak fairness of receiving on each link, of refill intervals and blocks
  coming to their end, and of connecting (peers find each other again). Strong fairness
  of the tick: libtorrent calls it every second whatever is on the way, and only the bound
  `MaxQueue` makes the model hold it back now and then. None for publishing, keys,
  restarts or lost connections.

## Findings

`find_clear_window` (`FindClearWindow.cfg`) is a run that ends in a violation, against what
the repository says of the program: a fetch completes although its chunks were not written
where they belong. `Poll` confirms a removal under the fetch's lock and clears the
destinations after releasing it; a `Begin` in between registers destinations that are then
lost.

Others are found by hand, from the configuration of a run with the changes below and the
one property. Each property is stated in its module, above it what the code does.

| configuration | change | property | shows |
| --- | --- | --- | --- |
| `FindClearWindow.cfg` | `Windows = {"refresh"}` | `InstallsWholeContent` | as above, by way of the handle `Poll` read before the other thread began a new fetch |
| `MCInstallFlow` | | `FailuresAreOwn` | `AlertRouter::Route` reads the active handle once: the failure of the torrent before is counted, with the handle it read, against the fetch the other thread has reserved since |
| `MCInstallFlow` | `MaxStarts = 1` | `CancelStopsTheFetch` | a cancel during the audit stops no fetch, then waits for a worker that begins one |
| `MCInstallFlow` | `MaxAttempts = 1`, `MaxStarts = 1` | `RetryIsAccepted` | a first install that fails leaves a folder without a record, and the retry is refused over it |
| `MCInstallFlow` | `Mods = {a, b}` | `FetchJudgedAsWhatItIs` | `Verify` leaves the flag of an earlier preview set: the repair's content is judged as a manifest |
| `MCContentInstall` | | `CopiedIsThere` | when the live file cannot be copied, an empty staged copy is created without an error; what should have stayed in place is never written, and the file is swapped in and recorded as installed |
| `MCContentInstall` | | `FetchedIsWritten` | the check of a resumed fetch reads a chunk at its first destination only; a second one left unwritten is recorded as installed |
| `MCContentInstall` | | `RecordedFilesExist` | the audit counts damage by chunk, so a file of no bytes that is missing or has bytes is never damaged, and the repair records the release without it |
| `MCContentInstall` | `Locked = {}` | `DroppedFilesGo` | a staged copy left behind makes the folder indescribable, and the next update removes nothing it dropped |
| `MCSession` | `Explored = {"seeding"}`, `MaxVersion = 1`, `MaxRestarts = 0`, `MaxToggles = 0`, `Overlap = TRUE` | `SeedsAreServed` | the installer's `StopSeeding` forgets the placements an `Announce` of the same mod has just registered; the torrent serves nothing |
| `MCSession` | `Explored = {"seeding"}`, `MaxRestarts = 0`, `MaxToggles = 2` | `RunningSeedsAreCurrent` | an outdated seed is not withdrawn while seeding is off, and resumes when it is switched on |
| `MCSession` | `Explored = {"seeding"}`, `MaxVersion = 1`, `MaxToggles = 0` | `InstalledModIsSeedable` | a torrent built from edited files stays cached and keeps the repaired mod from being seeded |
| `MCSession` | `Explored = {"program"}`, `Judged = {"publish"}` | `UsedIsAlive` | the publishing worker is joined after the swarm it broadcasts to is gone |
| `MCSession` | `Explored = {"program"}` | `AloneOnTheData` | the updated program has started, and this one still installs or publishes in the same data folder |
| `MCSession` | `Explored = {"swarm"}`, `Races = TRUE` | `CeilingsFollowTheBudget` | a budget set after a fetch was limited and before it is adopted does not reach it |
| `MCSession` | `Explored = {"swarm"}` | `BudgetIsRemembered` | the budget's file is written in place, unchecked |
| `MCSession` | `Explored = {"swarm"}` | `ReserveIsLeft` | each torrent is given the whole ceiling, so several together leave no reserve for the control channel |
| `MCSession` | `Explored = {"throttle"}`, `Crowded = TRUE`, `MaxTime = 4` | `BlockIsServed` | a peer that breaks the protocol while the table is full of blocked ones gets no budget, and is not blocked |
| `MCGossip` | `MaxEvents = 0`, `SPECIFICATION GossipSpec` | `HonestPeersAreNotBlocked` | two offers before the first record make a peer ask twice, take the second record as unsolicited, and block a sender that followed the protocol |
| `MCGossip` | `SavesTear = TRUE`, `SPECIFICATION GossipSpec` | `AgreeOnVersion` | a save cut short loses the publisher's newest number, and the next release gets it again |
| `MCGossip` | `Mods = {1, 2}`, `MaxWants = 2`, `MaxRetained = 2`, `MaxQueue = 1`, `MaxEvents = 0` | `ReleasesSpread` | an offer is always the first 64 of the retained announces; the mods that sort after them do not spread |
| `MCPublishing` | `Explored = {"document"}` | `TorrentIsTrue` | a file saved between manifest and torrent makes a torrent that is not the manifest's, and it is announced |
| `MCPublishing` | `Explored = {"document"}` | `HeldIsUsable` | a manifest torn in the store keeps its digest from being fetched again |
| `MCPublishing` | `Explored = {"document"}`, `Says <- SaysNul` | `BuiltIsReadable` | a description with a NUL is encoded and then refused by every reader |
| `MCPublishing` | `Explored = {"document"}` | `UsedIsOffered` | a manifest held under an announce's digest is installed from although it names another publisher or version, which the catalogue and the fetch would refuse |
| `MCPublishing` | `Explored = {"record"}` | `NumbersAreNew` (PROPERTY) | the save of an announce fails unnoticed, the next start does not know it, and the publisher announces another release under its number |
| `MCPublishing` | `Explored = {"record"}` | `EveryAnnouncedIsStored` | as above, and the release published over truncates the manifest of the announced one, in a store that may then fail to be written |
| `MCPublishing` | `Explored = {"record"}`, `MaxVersion = 1` | `ManifestIsSealedByPublisher` | a key switched during a publish leaves an envelope of one key signed by another |
| `MCPublishing` | `Explored = {"record"}`, `LosesTails = TRUE` | `KeyInUseIsKept` | a key file that loses its tail on close is used and cannot be opened again |
| `MCDownloads` | `Explored = {"registry"}` | `RevokedStaysRevoked` (PROPERTY) | a failed download deletes a certificate, and the key is usable until a later poll |
| `MCDownloads` | `Explored = {"updates"}`, `HardLuck = TRUE` | `ProgramCanStart` | a swap ended between its two renames, or whose undo fails, leaves no program |
| `MCDownloads` | `Explored = {"updates"}`, `Withdraws = {"patcher"}` | `CurrentIsInstalled` | after a release is withdrawn the marker speaks of a patcher that is not the one found |
| `MCMirror` | | `AnyPlanSourceIsThere` | the index worker compares a pack's stamps, the game changes it, and it is catalogued after the install discarded what had changed |
| `MCMirror` | | `SwitchIsKept` | the switch's file is written in place, unchecked |
| `MCMirror` | `MaxEvents = 1`, `Mods = {1, 2}`, `Unseeded = {1}` | `MirrorCatchesUp` | a release nobody offers is tried for ever, and the one behind it never |
| `MCProfiles` | `Windows = {"default"}` | `GameProfilesAreKept` | a default set while the default is active is not restored, and the next switch overwrites it with the live file |
| `MCProfiles` | `MaxCommands = 3`, `Windows = {"activation"}` | `GameProfilesAreKept` | a switch exchanges the live game profile and then cannot write the order; the next switch keeps the incoming profile's file as the outgoing one's |
| `MCProfiles` | `MaxCommands = 4`, `Windows = {"removal"}` | `GameProfilesAreKept` | removing the active profile makes the default active without its game profile; the next switch keeps the removed profile's as the default's |
| `MCProfiles` | `Windows = {"restoring"}` | `GameProfilesAreKept` | a copy over the live game profile that fails half-way leaves it torn, and the next switch keeps that as the active profile's |
| `MCProfiles` | `Windows = {"activation"}` | `OrdersAreKept` | a switch ended between the order and the marker: the next start saves the incoming profile's order to the outgoing one |
| `MCProfiles` | `Windows = {"removal"}` | `OrdersAreKept` | removing the active profile makes the default active without its order, and the next start saves the removed profile's order, or one written outside, to the default |
| `MCProfiles` | `Windows = {"saving"}` | `OrdersAreKept` | a profile is saved in place: a save cut short loses it |
| `MCProfiles` | `Unreadable = TRUE` | `ShownIsOnDisk` | the list shows nothing enabled of an order file that is there and cannot be read |
| `MCProfiles` | `Unreadable = TRUE` | `OrdersAreKept` | an order file that cannot be read counts as empty, and the next start saves that to the active profile |

Because of the windows "clear" and "refresh" of `Poll`, `InstallsWholeContent` does not hold
in the code. `install_safety` shows that within the bounds it fails for no other reason; it
has the third window, "route", open. The theorem has that one closed too. The constants `Windows` of `Profiles`, `Overlap`, `Races`, `Crowded`,
`HardLuck`, `LosesTails`, `SavesTear`, `Unseeded` and `Judged` do the same:
the runs close them, and the rows above open one each.

Each module also states invariants that hold and are not in a run. They can be checked by
hand with its configuration, and those marked * are theorems: the type invariants
`FlowTypeOK`*, `ContentTypeOK`*, `SeedTypeOK`*, `StorageTypeOK`* (in `StorageProofs`),
`ProfilesTypeOK`*; `BacklogCountsQueue`*, `OneAttemptAtATime`*, `FetchingIsAlone`*,
`PreviewInstallsNothing`*, `PresentMatchesRoster`, `PlacementsAreSeeded`, `WantsAreInFlight`,
`UndoIsOneChange`, `HistoryIsBacked`*, `UpdatesGoForward`*, `KeyFilesAreLoaded`,
`PlanSourcesAreThere`*, `AwaitedIsLocated`*, `WaitIsAnswered`*,
`ManifestRebuildsTheFolder`, `UsedIsWellFormed`, `FetchesCanWrite`*, `PiecesAreDecided`, `LeavingIsAskedFor`, `RateIsBounded`*.

## Proofs

The eight proofs modules are checked by `tlapm` with SMT (Z3), Zenon and, for temporal steps,
LS4. Each theorem holds for every value of the constants that the module's named assumptions
admit, however long the program runs. Where a theorem has a hypothesis, the hypothesis closes
a window that a row of the findings opens: without it the property is false, and the row says
how. The other theorems need none. Some properties themselves leave out what the code does not
keep, and by hand a stronger one fails: `VersionIsNew`, `CatalogueGrows` and
`AnnouncedIsStored` except keys that were revoked or of which a record was once not kept
(`Lapsed`), `UsedIsAnnounced` asks for the identity of the announce the manifest was adopted
for, and `SavedContentIsWhole` and `LiveFilesChangeWhole` leave out what a copy that failed
and a check that was never made leave behind.

| theorem | states | hypothesis | without it |
| --- | --- | --- | --- |
| `InstallFlowProofs`: `TypeCorrect`, `PendingClearSafe`, `NoOrphanTorrent`, `NoLeak`, `BacklogIsExact` | `TypeOK`, `PendingClearHasRemoval`, `LiveTorrentTracked`, `NoLeakedDestinations`, `BacklogCountsQueue` | | |
| `FlowTypeCorrect`, `WorkerIsAlone`, `PreviewsInstallNothing` | `FlowTypeOK`, `OneAttemptAtATime /\ FetchingIsAlone`, `PreviewInstallsNothing` | | |
| `KeepsItsContract` | `FlowSpec => ContractSpec` | | |
| `ContentIsWhole` | `InstallsWholeContent` | `Windows = {}`, `Confirmations # 0` | `find_clear_window`; a fetch must be seen complete once before it is one |
| `ReplacementProofs`: `ContentTypeCorrect`, `SourcesSurvive`, `UpdateTidiesUp`, `LiveFilesStayWhole`, `RecordedContentIsWhole` | `ContentTypeOK`, `PlannedSourcesSurvive`, `UpdateLeavesTheRelease`, `LiveFilesChangeWhole`, `SavedContentIsWhole` | | |
| `ProgramGoesForward` | `UpdatesGoForward` | | |
| `ProgramCanAlwaysStart` | `ProgramCanStart` | `Sized`, `~HardLuck` | a cut download counts as whole; the row `HardLuck` |
| `CurrentIsAlwaysInstalled` | `CurrentIsInstalled` | `Sized`, `"patcher" \notin Withdraws` | a cut download; the row `Withdraws` |
| `StorageProofs`: `StorageTypeCorrect`, `TheLiveFileIsTheInstalled`, `PeersAreServedTheTruth`, `FetchesAreWritable` | `StorageTypeOK`, `LiveIsInstalled`, `ServedIsTrue`, `FetchesCanWrite` | | |
| `SessionProofs`: `EveryPeerIsDialled` | `PeersAreDialled` | | |
| `RatesFollowTheBudget` | `CeilingsFollowTheBudget` | `~Races` | the row `Races` |
| `PeersAreHeardAtTheRate` | `RateIsBounded` | | |
| `BlocksAreServed` | `BlockIsServed` | `~Crowded` | the row `Crowded` |
| `SeedTypeCorrect`, `SeedsAreOfTheRecord`, `MismatchesAreWithdrawn` | `SeedTypeOK`, `SeedIsOfRecord`, `MismatchIsWithdrawn` | | |
| `SeedsStayServed` | `SeedsAreServed` | `~Overlap` | the row `Overlap` |
| `ServicesAreAlive` | `UsedIsAlive` | `Judged \subseteq Workers \ {"publish"}` | the row `Judged` |
| `GossipProofs`: `GossipTypes` | `GossipTypeOK` | | |
| `OneContentPerVersion`, `NoWayBack` | `AgreeOnVersion`, `StoreNeverGoesBack` | `~SavesTear` | the row `SavesTear` |
| `PublishingProofs`: `CatalogueStaysAuthentic`, `CatalogueOnlyGrows`, `VersionsAreUsedOnce` | `CatalogueIsAuthentic`; `CatalogueGrows` and `VersionIsNew` at every step | | |
| `AnnouncedStaysStored`, `HistoryStaysBacked`, `KeysAreKept` | `AnnouncedIsStored`, `HistoryIsBacked`, `KeyInUseIsKept` | `~LosesTails` | the row `LosesTails` |
| `TheAnnouncedIsUsed` | `UsedIsAnnounced` | | |
| `TorrentStaysTheManifests` | `TorrentIsTheManifests` | `SpelledApart`, `ChunkingIsSound` | another file would be read under a path; an unsound hasher is what the run's mutant has |
| `BaselineProofs`: `LocatedIsHeldAlways`, `PlanSourcesAreThereAlways`, `AwaitedIsLocatedAlways`, `WaitIsAnsweredAlways` | `LocatedIsHeld`, `PlanSourcesAreThere`, `AwaitedIsLocated`, `WaitIsAnswered` | | |
| `LocalFilesProofs`: `MemoryStaysTheDisks`, `LibraryTypes` | `MemoryMatchesDisk`, `ProfilesTypeOK` | | |
| `ShownStaysOnDisk` | `ShownIsOnDisk` | `~Unreadable` | the row `Unreadable` |
| `OrdersStayKept` | `OrdersAreKept` | `~Unreadable`, `Windows \subseteq {"restoring", "default"}` | the rows `Unreadable`, `activation`, `removal` and `saving` |
| `GameProfilesStayKept` | `GameProfilesAreKept` | `Windows = {}` | the rows `restoring`, `activation`, `removal` and `default`; a torn save |

The named assumptions say that bounds are numbers, limits are positive and sets of names do
not overlap. Three say more than that: `StepNames` (a key is not named like a step of the
registry, whose `pc` holds either), `SwarmBounds` (the control torrent and the fetch are not
seeds) and `ReleasesAssumption` (a release is a function from numbers to sequences).

### Fetch session and install service

None of the session's properties is inductive alone. `IInv` adds `CallOK`, which says where a
call stands: at most one `Begin` runs, a thread's step and its operation agree, a `Begin`
past `Retire` has no torrent of its own yet and one attempt left. With it, each action's
effect on each conjunct follows from the conjunct and the place of the calls:
`LiveTorrentTracked` needs that `Adopt` overwrites no other handle, `NoLeakedDestinations`
that a clear in progress is owed. There is a lemma per conjunct, with one step per action.
`BacklogIsExact` counts positions of the queue, so that removing its head is a bijection and
no induction is needed.

`InstallFlowProofs` shows that the service drives the session as the session's own
specification allows (`SessionSteps`), so `IInv` carries over, and adds `ThreadsOK`: which
call each thread is in for each place it stands at. From there `KeepsItsContract` is the
refinement of `InstallContract`, action by action; that a preview is never recorded takes
`PreviewOK`, which says that its fetch completes into a manifest only. `ContentIsWhole` follows the attempt's
torrent through `Begin` and the fetch (`ContentInv`): once it is added, each piece of the plan
that libtorrent counts has landed or its write is in the queue (`FetchOK`); seen complete once,
a piece is missing only of a torrent in error, and seen complete again with nothing left to
write, everything has landed (`SettledOK`). A call that steps into `Poll` is what would take
its destinations away.

### Content

`BasicInv` follows an attempt from stage to stage, and says for each what the next one needs:
planned sources stay where they were found until the last staged file is written
(`SourcesOK`), a staged file has its copied slots right from the moment it is opened
(`StagedOK`). No assumption on what an earlier attempt left: everything is established anew.
`WrittenInv` adds that every piece that counts is at its destinations (`LandedOK`), that a
written file is the release's (`AppliedOK`), and that files not in the plan are whole
(`KeptOK`). None of it is true of the slots in `assumed`, which the attempt counts as there
and never looks at: what a failed copy of the live file should have brought, and the further
destinations of a chunk that the check of a resumed fetch found at its first. The properties
allow a recorded file to be wrong there and nowhere else; the rows `CopiedIsThere` and
`FetchedIsWritten` show that it is. `KeptOK` leaves out the empty files a repair overlooks
(`RecordedFilesExist`).

### Disk

`StorageInv` ties slots, jobs and handles to the torrent they are for. A torrent that is
mounted keeps its slot with its role (`MountsOK`), and a job of one is for that slot
(`JobsOK`); of the fetch there is one write or hash in the queue at a time (`OrderOK`), so when
its piece has passed nobody is left who would write the staged file (`LandedOK`). No handle
that can be written through is on the live file, and between the last release of handles and
the swap none is open that matters (`FilesOK`). The drain promises nothing, and the theorems
hold through `DrainGivesUp`.

### Peers, rates, seeds

`DialInv` says who is dialled in the middle of a call: the torrent being announced, and the
fetch between `Adopt` and its dialling, are the exceptions. `RateInv` is the same for
ceilings. `BucketInv` relates a bucket's tokens to the time since the peer was first tracked,
by whole intervals (`WholeIntervals` is the fact about division it rests on); `DebtInv` says
that an owed block is in the table.

`SeedInv` says where the two threads stand and what each may have left half done. A row that
is announced is of the recorded release, and of the one an install of that mod is of
(`RecordsOK`); once the installer has withdrawn a mod's seed, another is of the release it
installs (`SeedsOfRecord`); a mod has one seed (`OneSeedEach`). With `Overlap` excluded, what a
thread takes from the roster is of its own mod, and placements stay while a seed is added
(`ServedOK`).

### Services

While the loop runs every service stands, which is why most of the proof is about the two
queues: what a constructor is given is built before it (`BuiltInOrder`), and what a service
holds is destroyed after it (`DestroyedInOrder`). What is left is who may still be at work
then, service by service (`SessionInv`): the installer works only inside the loop (`WorkOK`),
the network thread only while the swarm that owns it stands, and its receiver is gone before what it calls
(`GossipOK`). The publishing worker has no such place, which is the row `Judged`.

### Gossip

The argument is about the releases in *circulation*: held, stored, or in a record on its
way. `Circulation` shows that only the end of a publication brings one in; every other step
moves what is there, or forgets it. `IInv` then says that no number in circulation is
above the number of publications (`NumbersOK`, which the type of a release needs), that
a machine which trusts the publisher holds what it has on disk (`HoldOK`), that the
publisher, while trusted, has the newest of everything (`PublisherLeads`), and that
version zero is no release (`NoneIsZero`). A new release passes the receiver only above
the publisher's newest, hence above everything in circulation; a restart restores what
was held, so nothing older is acceptable afterwards. `StoreNeverGoesBack` is a theorem
only: with one publisher and one peer no plausible slip can violate it, and with three
nodes the state space is beyond a run.

### Publishing and downloads

`PublishingInv` says that what the worker is about to announce is newer than everything its
publisher announced (`JobIsNew`), and that each announce carries its own manifest and is in the
catalogue or replaced there (`AnnouncesOK`), both unless the key lapsed, which it stays
(`LapsedStays`); and that a record is the catalogue's announce, or the key lapsed (`SavedOK`),
which is what a restart may start from. `StoredInv` adds that from `accept` on the
envelope is in the store (`JobIsKept`).

`DeliveryInv` leaves what a manifest says opaque. A stored copy may be damaged between any two
checks, and again, but it carries the announced signature (`StoreOK`); one that passes
`Authentic` is sealed (`AuthenticIsSealed`), and two sealed documents with one signature are
one (`SignatureDetermines`). Its identity was compared once, when it was adopted.

`PackingInv` says that a described file is as it was described or stale (`FreshOK`): what
`HashEntry` reads at a chunk's place is then the chunk (`SourceHasChunk`). The theorem's
hypotheses are about data alone: `SpelledApart`, that a Windows folder does not hold two files
whose names differ in letters' case or separators only, and `ChunkingIsSound`, what `Split`,
`PieceRoots` and `FileTreeNodes` compute of one content, which would take induction over data.
Added to `MCPublishing` as an `ASSUME`, TLC evaluates both to true for its names and contents;
the module does without it, so that a wrong hash shows as a wrong torrent.

`RegistryInv` says how far each thread's reload is (`Reloading`) and what a key that is being
added may look like until it is whole (`Adding`), unless the two crossed (`crossed`, the
condition of `MemoryMatchesDisk`). This proof did not go through at first, because one step of a
new key did not set `crossed`: the model was wrong, not the code. `SwapOK`, `ForwardOK` and `PatchOK` say for each step of a
swap and of the patcher which of the files are whole and how old they are.

### Index of the game's packs

`IndexInv` says of a record, of a catalogued pack and of what the worker has described that a
stamp *vouches* for the chunks: the pack had the stamp once, and has these chunks at it
(`Vouched`). Stamps only grow, so it vouches for ever (`VouchedStays`). While the worker reads a
pack, its stamp is no younger than the content, and the second look at the stamp makes them
equal (`WorkerOK`). `ScannedOK` is why an answered wait is worth something: a pack that is as
the scan saw it, could be read and is not pending has the scan's stamp in the catalogue, since
a stamp taken in between can be neither older nor newer. `QueueOK` (a pending pack is queued or
at the worker) shows that an index that has run out of work has indexed everything
(`RunOutIsIndexed`), and that the worker no longer touches the packs a plan is made from
(`AnswerStands`), which is what `AnyPlanSourceIsThere` lacks.

### Load order and profiles

`LoadOrder` defines a scan, and what is enabled of a list, by ranks: the `k`-th of a set of
numbers is the one with `k` members up to it (`ScannedIs`), so nothing needs induction. What
`Refresh` makes of the file it has just read shows exactly the file as enabled
(`RefreshShowsTheFile`): what the list had disabled, and what the scan adds, comes behind it
and is off. Every edit goes through `Commit_`, which changes entries and file together or
neither, hence `ShownStaysOnDisk`.

For profiles, `MarkersInv` says that the program and the disk name the same active profile,
and that it loads, as does the one a switch goes to. `KeptInv` adds that the file is
what the active profile is remembered by, except between the order and the marker of a switch,
when it is the incoming profile's. `GamesInv` says where the game's own profile is
at each step of a switch: every profile but the active one has its copy (`CopiesKept`), the
active one's is live until another is restored (`ActiveIsLive`), and from then on that one's
is (`IncomingIsLive`), while the outgoing one was kept by `Activate`. `Windows` names the steps
that break one of these; each of them refutes one of the two properties, as the findings
show, and only `OrdersStayKept` survives a failed copy or a default set while it is active.

### Model-checked only

All liveness. What `Chunking` computes (`ChunkingIsSound`), which is induction over data.
`PresentMatchesRoster`,
`PlacementsAreSeeded`, `WantsAreInFlight`, `UndoIsOneChange`, `KeyFilesAreLoaded`,
`PiecesAreDecided`, `LeavingIsAskedFor`,
`ManifestRebuildsTheFolder` and `UsedIsWellFormed`, which are not in a run either.

## Not modelled

* Cryptography and hash functions: signatures, digests and derived keys are model values,
  or symbolic where a property is about how they are combined.
* libtorrent and WinHTTP beyond the behaviour named above; the settings handed to them.
* Drawing and layout (`gui/design`, `gui/screens`, `gui/render`, `gui/shell`), the frame of
  the window, DPI: no state another part reads. The order of the calls a frame makes is in
  `Session`.
* `manager/extensions` (approval of native code is a signature and a dialog),
  `manager/preview`, `manager/environment`, `manager/preferences`, `manager/text`: small
  reads and writes that nothing else depends on.
* Several accounts in `Profiles`, older wire revisions in `Gossip`, unequal chunk sizes in
  `ContentInstall`, clock skew of announces.
* `SwarmNode`, which only tests use; the build and scripts.

## Plan

1. Theorems for the invariants that are in no run: `PresentMatchesRoster` and
   `PlacementsAreSeeded` (`Seeding`), `WantsAreInFlight` (`Gossip`), `KeyFilesAreLoaded`
   (`Registry`), `PreviewInstallsNothing` (`InstallFlow`), `LeavingIsAskedFor` (`Session`).
2. `UndoIsOneChange` needs the history to end where the list is now, which an outside change
   breaks until the next refresh: what `Refresh` forgets is the heart of that proof.
3. Where a theorem closes several windows together, what is left of its property with one of
   them open.
