-------------------------------- MODULE Storage --------------------------------
(***************************************************************************)
(* The disk under libtorrent: InstalledFolderStorage with its mounts and   *)
(* role per slot, the StorageJobQueue and its worker thread, the backlog   *)
(* of fetch writes and the OpenFileCache, below the install cycle of one   *)
(* mod: its seed is withdrawn, the next content is fetched into a staged   *)
(* file, the staged file is renamed over the live one, and the mod is      *)
(* seeded again. Handles stay open on a file that is renamed or replaced,  *)
(* so files are numbered apart from the paths that name them. The content  *)
(* of a file is one block, of a release.                                   *)
(***************************************************************************)
EXTENDS Naturals, FiniteSets, Sequences

CONSTANTS
  MaxRelease,   \* releases of the mod
  MaxTorrents,  \* bound: torrents added
  MaxReads,     \* bound: reads libtorrent asks for per seed
  MaxWrites,    \* bound: writes it asks for per fetch
  DrainGivesUp, \* whether a drain may run into WRITE_DRAIN_TIMEOUT
  MayAbort      \* whether the session may end while jobs wait

ASSUME StorageBounds ==
  /\ MaxRelease \in Nat /\ MaxTorrents \in Nat /\ MaxReads \in Nat /\ MaxWrites \in Nat
  /\ {DrainGivesUp, MayAbort} \subseteq BOOLEAN

Torrents == 1..MaxTorrents
Releases == 1..MaxRelease
Files    == 1..4
Paths    == {"live", "staged"}

VARIABLES
  torrents,  \* external: libtorrent's torrents, what each is for and how far it is
  added,     \* external: how many were added
  slots,     \* InstalledFolderStorage::_torrents: which torrent, its role, mounted or not
  jobs, ready,  \* StorageJobQueue's two queues
  stopping,  \* StorageJobQueue::_stopping
  worker,    \* the worker thread: its step, its job, and the path the job resolved to
  pending,   \* StorageBacklog::_pending
  located,   \* ChunkLocator::_locations: releases whose chunk is in the live file
  destined,  \* ChunkLocator::_destinations: releases whose chunk goes to the staged file
  names,     \* external: the file each path names, 0 with none
  content,   \* external: the release each file holds the block of, 0 with none
  handles,   \* OpenFileCache: per path, the file it has open, 0 with none, and for what
  app,       \* the services above: the step, the release at hand, the torrents of its own
  installed, \* the release the record says is installed, 0 with none
  served     \* history: torrents whose read was answered with another release's block

queueVars == <<jobs, ready, stopping, worker, pending>>
diskVars  == <<names, content, handles>>
tableVars == <<located, destined>>
appVars   == <<app, installed>>
storageVars == <<torrents, added, slots, queueVars, tableVars, diskVars, appVars, served>>

NoHandle == [file |-> 0, writable |-> FALSE]
NoJob    == [kind |-> "none", of |-> 0, slot |-> 0, block |-> 0, tracked |-> FALSE]
Idle     == [step |-> "asleep", job |-> NoJob, path |-> "none"]

Open(f, w) == [file |-> f, writable |-> w]
NoTorrent  == [kind |-> "none", release |-> 0, state |-> "none", slot |-> 0, piece |-> "missing",
               asked |-> 0]
Gone       == [NoTorrent EXCEPT !.state = "gone"]
NewFile    == CHOOSE f \in Files :
                /\ \A p \in Paths : names[p] # f /\ handles[p].file # f
                /\ \A g \in 1..(f - 1) : \E p \in Paths : names[p] = g \/ handles[p].file = g

-----------------------------------------------------------------------------
(* Mounts, in libtorrent's network thread *)

\* ClassifyRole_: a torrent whose files are all located is read from them.
Role(r) == IF r \in located THEN "SeedRead" ELSE "FetchWrite"

\* new_torrent takes the first slot that is not mounted, or a new one.
FreeSlot == CHOOSE i \in 1..(Len(slots) + 1) :
              /\ i = Len(slots) + 1 \/ ~slots[i].mounted
              /\ \A j \in 1..(i - 1) : slots[j].mounted

\* A torrent that was added is mounted, unless it was removed before. async_check_files says
\* whether its piece is to be checked: of a seed unless its files are attested, of a fetch when
\* what its staging holds is to be verified; unchecked, a seed has the piece and a fetch has not.
Mount(t, checked) ==
  /\ torrents[t].state = "added" /\ ~stopping
  /\ LET mount == [of |-> t, role |-> Role(torrents[t].release), mounted |-> TRUE] IN
       slots' = IF FreeSlot > Len(slots) THEN Append(slots, mount)
                ELSE [slots EXCEPT ![FreeSlot] = mount]
  /\ torrents' = [torrents EXCEPT ![t].state = "mounted", ![t].slot = FreeSlot,
                    ![t].piece = IF checked THEN "full"
                                 ELSE IF Role(torrents[t].release) = "SeedRead" THEN "passed"
                                 ELSE "missing"]
  /\ UNCHANGED <<added, queueVars, tableVars, diskVars, appVars, served>>

\* Broken: handles stay open when a torrent goes or a fetch is cancelled.
Released_Kept == handles

\* ReleaseHandles, or Clear: every handle is closed.
Released == [p \in Paths |-> NoHandle]

\* async_stop_torrent when a torrent is removed: its handler is called at once, whatever jobs
\* the torrent has in the queue, and libtorrent lets go of the storage: remove_torrent.
StopTorrent(t) ==
  /\ torrents[t].state = "removed" /\ ~stopping
  /\ torrents' = [torrents EXCEPT ![t] = Gone]
  /\ slots' = [slots EXCEPT ![torrents[t].slot].mounted = FALSE]
  /\ handles' = Released
  /\ UNCHANGED <<added, queueVars, tableVars, names, content, appVars, served>>

\* Mounted_: the torrent a slot is mounted for, 0 with none.
Mounted(s) == IF s \in DOMAIN slots /\ slots[s].mounted THEN slots[s].of ELSE 0

-----------------------------------------------------------------------------
(* Jobs. A failure is counted in StorageFaults too, which nobody reads. *)

\* async_read for a peer, of a piece a seed has; async_write for a block that came, counted in
\* the backlog while the torrent writes into the staging of the fetch; async_hash of a piece
\* that is full.
Ask(t, kind) ==
  /\ torrents[t].state = "mounted" /\ ~stopping
  /\ CASE kind = "read"  -> /\ torrents[t].kind = "seed" /\ torrents[t].piece = "passed"
                            /\ torrents[t].asked < MaxReads
       [] kind = "write" -> /\ torrents[t].kind = "fetch" /\ torrents[t].piece = "missing"
                            /\ torrents[t].asked < MaxWrites
       [] kind = "hash"  -> torrents[t].piece = "full"
  /\ LET tracked == kind = "write" IN
       /\ jobs' = Append(jobs, [kind |-> kind, of |-> t, slot |-> torrents[t].slot,
                                block |-> torrents[t].release, tracked |-> tracked])
       /\ pending' = IF tracked THEN pending + 1 ELSE pending
  /\ torrents' = [torrents EXCEPT ![t].asked = IF kind = "hash" THEN @ ELSE @ + 1,
                    ![t].piece = IF kind = "read" THEN @ ELSE "asked"]
  /\ UNCHANGED <<added, slots, ready, stopping, worker, tableVars, diskVars, appVars,
                 served>>

\* A worker that sleeps on the condition is woken.
Notified == [worker EXCEPT !.step = IF @ = "asleep" THEN "look" ELSE @]

\* submit_jobs
Submit ==
  /\ jobs # <<>> /\ ready' = ready \o jobs /\ jobs' = <<>>
  /\ worker' = Notified
  /\ UNCHANGED <<torrents, added, slots, stopping, pending, tableVars, diskVars,
                 appVars, served>>

\* abort, or the destructor, when the program ends, which waits for the install at work to be
\* cancelled: Stop lets the worker finish what was submitted and joins it.
Abort ==
  /\ MayAbort /\ ~stopping /\ app.step = "free" /\ stopping' = TRUE
  /\ worker' = Notified
  /\ UNCHANGED <<torrents, added, slots, jobs, ready, pending, tableVars, diskVars,
                 appVars, served>>

\* After a job the worker looks for the next, or sleeps on the condition.
Rested == [Idle EXCEPT !.step = IF ready' # <<>> \/ stopping THEN "look" ELSE "asleep"]

\* What became of a job: the block it read, 0 for a write, or that it failed or found no file.
Success(block) == [is |-> "success", block |-> block]
Fault  == [is |-> "fault", block |-> 0]
Absent == [is |-> "absent", block |-> 0]

\* The job's handler is posted to the network thread, and the torrent learns of it there.
Answers(j, outcome) ==
  LET t == j.of
      live == torrents[t].state = "mounted"
  IN
  /\ worker' = Rested
  /\ pending' = IF j.tracked THEN pending - 1 ELSE pending
  /\ served' = IF live /\ j.kind = "read" /\ outcome.is = "success"
                  /\ outcome.block # torrents[t].release
               THEN served \cup {t} ELSE served
  /\ torrents' =
       [torrents EXCEPT ![t].piece =
          CASE live /\ j.kind = "write" -> (IF outcome.is = "success" THEN "full" ELSE "missing")
            [] live /\ j.kind = "hash" ->
                 (IF outcome.block = torrents[t].release THEN "passed" ELSE "missing")
            [] OTHER -> @]

\* Broken: a write whose torrent is gone is not taken off the backlog.
AnswersUnmounted_Kept(j) == worker' = Rested /\ UNCHANGED <<torrents, pending, served>>

\* A job whose slot is not mounted fails.
AnswersUnmounted(j) == Answers(j, IF j.kind = "hash" THEN Absent ELSE Fault)

\* RunWorker_ takes a job, which looks up its mount and the file its chunk is in: a seed's in
\* the locator's table, a fetch's in its destination, and with none in the staging folder,
\* which no one else uses.
TakeJob ==
  /\ worker.step = "look" /\ ready # <<>>
  /\ ready' = Tail(ready)
  /\ LET j == Head(ready)
         m == Mounted(j.slot) IN
       IF m = 0 THEN AnswersUnmounted(j)
       ELSE LET r    == torrents[m].release
                role == slots[j.slot].role
                path == IF role = "SeedRead" THEN "live"
                        ELSE IF r \in destined THEN "staged" ELSE "aside" IN
            IF role = "SeedRead" /\ (r \notin located \/ j.kind = "write")
            THEN Answers(j, Fault)
            ELSE IF path = "aside" THEN Answers(j, IF j.kind = "write" THEN Success(0) ELSE Absent)
            ELSE /\ worker' = [step |-> "io", job |-> j, path |-> path]
                 /\ UNCHANGED <<torrents, pending, served>>
  /\ UNCHANGED <<added, slots, jobs, stopping, tableVars, diskVars, appVars>>

\* With nothing left to do after Stop, it ends.
WorkerEnds ==
  /\ worker.step = "look" /\ ready = <<>> /\ stopping
  /\ worker' = [worker EXCEPT !.step = "ended"]
  /\ UNCHANGED <<torrents, added, slots, jobs, ready, stopping, pending, tableVars, diskVars,
                 appVars, served>>

\* Acquire_ uses the handle it has when that is good enough and has not been pushed out by
\* others; or it opens the path, which for a write makes the file.
Reuses(p, w) == {handles[p].file # 0 /\ (handles[p].writable \/ ~w), FALSE}

DoRead ==
  LET p == worker.path IN
  \E reuses \in Reuses(p, FALSE) :
    LET f == IF reuses THEN handles[p].file ELSE names[p] IN
    /\ handles' = [handles EXCEPT ![p] = IF reuses THEN @
                                         ELSE IF f = 0 THEN NoHandle ELSE Open(f, FALSE)]
    /\ Answers(worker.job, IF f # 0 THEN Success(content[f])
                             ELSE IF p = "live" THEN Fault ELSE Absent)
    /\ UNCHANGED <<names, content>>

DoWrite ==
  LET p == worker.path IN
  \E reuses \in Reuses(p, TRUE) :
    LET f == IF reuses THEN handles[p].file
             ELSE IF names[p] # 0 THEN names[p] ELSE NewFile IN
    /\ content' = [content EXCEPT ![f] = worker.job.block]
    /\ names' = IF reuses THEN names ELSE [names EXCEPT ![p] = f]
    /\ handles' = [handles EXCEPT ![p] = Open(f, TRUE)]
    /\ Answers(worker.job, Success(0))

Io ==
  /\ worker.step = "io"
  /\ UNCHANGED <<added, slots, jobs, ready, stopping, tableVars, appVars>>
  /\ IF worker.job.kind = "write" THEN DoWrite ELSE DoRead

-----------------------------------------------------------------------------
(* The services above, one mod at a time *)

Steps(s) == app.step = s
AtRest   == [step |-> "free", release |-> 0, seed |-> 0, fetch |-> 0, then |-> "free"]

\* add_torrent
Adds(kind, r) ==
  /\ added < MaxTorrents /\ added' = added + 1
  /\ torrents' = [torrents EXCEPT ![added + 1] =
       [NoTorrent EXCEPT !.kind = kind, !.release = r, !.state = "added"]]

\* Announce registers the mod's chunks and adds its torrent.
Announce ==
  /\ Steps("free") /\ installed # 0 /\ app.seed = 0 /\ ~stopping
  /\ located' = located \cup {installed}
  /\ Adds("seed", installed)
  /\ app' = [app EXCEPT !.seed = added + 1]
  /\ UNCHANGED <<slots, queueVars, destined, diskVars, installed, served>>

\* Removes a torrent from the session; libtorrent acts on it later.
Removing(t) ==
  [torrents EXCEPT ![t] = IF @.state = "added" THEN Gone
                          ELSE [@ EXCEPT !.state = "removed", !.piece = "missing", !.asked = 0]]

\* An installation, a repair or an update begins with WithdrawSeed_: StopSeeding removes the
\* torrent ...
StartFetch(r) ==
  /\ Steps("free") /\ added < MaxTorrents /\ ~stopping
  /\ torrents' = IF app.seed = 0 THEN torrents ELSE Removing(app.seed)
  /\ app' = [app EXCEPT !.step = "forget", !.release = r]
  /\ UNCHANGED <<added, slots, queueVars, tableVars, diskVars, installed, served>>

\* ... and forgets its chunks.
StopForgets ==
  /\ Steps("forget")
  /\ located' = IF app.seed = 0 THEN located ELSE located \ {installed}
  /\ app' = [app EXCEPT !.step = "drain", !.seed = 0, !.then = "add"]
  /\ UNCHANGED <<torrents, added, slots, queueVars, destined, diskVars, installed,
                 served>>

\* Broken: the handles of the fetch stay open.
DrainAndClear_Open ==
  /\ Steps("drain") /\ (pending = 0 \/ DrainGivesUp) /\ UNCHANGED handles
  /\ app' = [app EXCEPT !.step = "retire"]
  /\ UNCHANGED <<torrents, added, slots, queueVars, tableVars, names, content, installed, served>>

\* TorrentSession::Cancel, which Begin calls too: once the backlog is drained the handles are
\* closed ...
DrainAndClear ==
  /\ Steps("drain") /\ (pending = 0 \/ DrainGivesUp)
  /\ handles' = Released
  /\ app' = [app EXCEPT !.step = "retire"]
  /\ UNCHANGED <<torrents, added, slots, queueVars, tableVars, names, content, installed, served>>

\* ... and then the fetch is removed.
Retire ==
  /\ Steps("retire")
  /\ torrents' = IF app.fetch = 0 THEN torrents ELSE Removing(app.fetch)
  /\ app' = IF app.then = "free" THEN AtRest ELSE [app EXCEPT !.step = app.then, !.fetch = 0]
  /\ UNCHANGED <<added, slots, queueVars, tableVars, diskVars, installed, served>>

\* Begin registers the destinations, after clearing those a removal has left, and adds.
BeginFetch ==
  /\ Steps("add") /\ ~stopping
  /\ destined' = {app.release}
  /\ Adds("fetch", app.release)
  /\ app' = [app EXCEPT !.step = "fetching", !.fetch = added + 1]
  /\ UNCHANGED <<slots, queueVars, located, diskVars, installed, served>>

\* The fetch is complete: its piece has passed and the backlog is empty. Or the user cancels.
FetchEnds ==
  /\ Steps("fetching")
  /\ \/ /\ torrents[app.fetch].piece = "passed" /\ pending = 0
        /\ app' = [app EXCEPT !.step = "drain", !.then = "swap"]
     \/ app' = [app EXCEPT !.step = "drain", !.then = "free"]
  /\ UNCHANGED <<torrents, added, slots, queueVars, tableVars, diskVars, installed,
                 served>>

\* Swap_: the staged file takes the live one's name; a file another handle is open on may stay.
Swap ==
  /\ Steps("swap")
  /\ \/ /\ names' = [names EXCEPT !["live"] = names["staged"], !["staged"] = 0]
        /\ installed' = app.release
     \/ (\E p \in Paths : handles[p].file # 0) /\ UNCHANGED <<names, installed>>
  /\ app' = AtRest
  /\ UNCHANGED <<torrents, added, slots, queueVars, tableVars, content, handles, served>>

\* The destinations of a fetch are cleared once its torrent is gone (FetchSession has how).
ClearDestinations ==
  /\ app.fetch = 0 /\ ~Steps("add") /\ destined # {} /\ destined' = {}
  /\ \A t \in Torrents : torrents[t].kind # "fetch"
  /\ UNCHANGED <<torrents, added, slots, queueVars, located, diskVars, appVars, served>>

StorageInit ==
  /\ torrents = [t \in Torrents |-> NoTorrent]
  /\ added = 0 /\ slots = <<>>
  /\ jobs = <<>> /\ ready = <<>> /\ stopping = FALSE /\ worker = Idle /\ pending = 0
  /\ located = {} /\ destined = {}
  /\ installed \in {0, 1}
  /\ names = [p \in Paths |-> IF p = "live" THEN installed ELSE 0]
  /\ content = [f \in Files |-> IF f = 1 THEN installed ELSE 0]
  /\ handles = [p \in Paths |-> NoHandle]
  /\ app = AtRest
  /\ served = {}

WorkerStep == TakeJob \/ Io \/ WorkerEnds
AppStep == StopForgets \/ DrainAndClear \/ Retire \/ BeginFetch \/ Swap

StorageNext ==
  \/ \E t \in Torrents :
       \/ (\E checked \in BOOLEAN : Mount(t, checked)) \/ StopTorrent(t)
       \/ \E kind \in {"read", "write", "hash"} : Ask(t, kind)
  \/ Submit \/ Abort \/ WorkerStep
  \/ Announce \/ (\E r \in Releases : StartFetch(r)) \/ FetchEnds \/ AppStep
  \/ ClearDestinations

\* The disk thread runs; libtorrent submits what it asked for and carries removals out.
StorageFairness ==
  /\ WF_storageVars(WorkerStep) /\ WF_storageVars(Submit)
  /\ WF_storageVars(\E t \in Torrents : StopTorrent(t))

StorageSpec == StorageInit /\ [][StorageNext]_storageVars /\ StorageFairness

-----------------------------------------------------------------------------
(* Properties *)

\* The live file always holds the release the record says is installed: a handle left open
\* on a staged file, which the swap makes the live one, is never
\* written through by the next fetch, and no fetch's block lands in another's file.
LiveIsInstalled ==
  installed # 0 => names["live"] # 0 /\ content[names["live"]] = installed

\* A peer of a seed is never answered with the bytes of another release: not from a handle on
\* a file that was replaced, and not through a slot that another torrent took over.
ServedIsTrue == served = {}

\* A fetch is never mounted as a seed, which could not be written: a repair fetches the very
\* chunks that were located until its seed was withdrawn.
FetchesCanWrite ==
  \A s \in DOMAIN slots :
    slots[s].mounted /\ torrents[slots[s].of].kind = "fetch" => slots[s].role = "FetchWrite"

\* The backlog that Cancel waits for drains by itself, also past torrents that are removed,
\* unless the session ends.
BacklogDrains == pending > 0 ~> (pending = 0 \/ stopping)

\* A piece libtorrent asked the disk about is decided, unless the torrent goes or the session
\* ends: no job is left in the queue with the worker asleep.
PiecesAreDecided ==
  \A t \in Torrents :
    torrents[t].piece = "asked" ~> (torrents[t].piece # "asked" \/ stopping)
=============================================================================
