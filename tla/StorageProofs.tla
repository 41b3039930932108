---------------------------- MODULE StorageProofs -----------------------------
(***************************************************************************)
(* The live file is the release on record, and a peer is served no bytes   *)
(* of another one, for every number of releases, torrents, reads and       *)
(* writes: over handles that outlive a rename, slots that are reused while *)
(* jobs for them wait, and a drain that gives up.                          *)
(***************************************************************************)
EXTENDS Storage, WellFoundedInduction, TLAPS

Kinds  == {"read", "write", "hash"}
Pieces == {"missing", "full", "asked", "passed"}

TorrentRecords ==
  [kind : {"none", "seed", "fetch"}, release : Nat,
   state : {"none", "added", "mounted", "removed", "gone"}, slot : Nat, piece : Pieces, asked : Nat]

SlotRecords == [of : Torrents, role : {"SeedRead", "FetchWrite"}, mounted : BOOLEAN]

JobRecords == [kind : Kinds, of : Nat, slot : Nat, block : Nat, tracked : BOOLEAN]

AppSteps == {"free", "forget", "drain", "retire", "add", "fetching", "swap"}

LibraryTypes ==
  /\ torrents \in [Torrents -> TorrentRecords]
  /\ added \in 0..MaxTorrents
  /\ slots \in Seq(SlotRecords)

QueueTypes ==
  /\ jobs \in Seq(JobRecords) /\ ready \in Seq(JobRecords)
  /\ worker \in [step : {"asleep", "look", "io", "ended"}, job : JobRecords \cup {NoJob},
                 path : Paths \cup {"none"}]
  /\ worker.step = "io" => worker.job \in JobRecords /\ worker.path \in Paths

FileTypes ==
  /\ names \in [Paths -> 0..4]
  /\ content \in [Files -> Nat]
  /\ handles \in [Paths -> [file : 0..4, writable : BOOLEAN]]
  /\ installed \in Nat

AppTypes ==
  app \in [step : AppSteps, release : Nat, seed : 0..MaxTorrents, fetch : 0..MaxTorrents,
           then : {"free", "add", "swap"}]

StorageTypeOK == LibraryTypes /\ QueueTypes /\ FileTypes /\ AppTypes

-----------------------------------------------------------------------------
(* The jobs in the order in which the worker does them, the one at work    *)
(* first.                                                                  *)
AtWork == IF worker.step = "io" THEN <<worker.job>> ELSE <<>>
Queue  == AtWork \o (ready \o jobs)

(* What a step does to the queue.                                          *)
LEMMA QueueForm ==
  ASSUME StorageTypeOK
  PROVE  Queue \in Seq(JobRecords)
<1>1. AtWork \in Seq(JobRecords)
  BY DEF StorageTypeOK, QueueTypes, AtWork
<1>2. ready \o jobs \in Seq(JobRecords)
  BY DEF StorageTypeOK, QueueTypes
<1> QED
  BY <1>1, <1>2 DEF Queue

(* The job at work is the first.                                           *)
LEMMA QueueFirst ==
  ASSUME StorageTypeOK, worker.step = "io"
  PROVE  Len(Queue) \in Nat /\ Len(Queue) >= 1 /\ Queue[1] = worker.job /\ Head(Queue) = worker.job
<1>1. ready \o jobs \in Seq(JobRecords) /\ worker.job \in JobRecords
  BY DEF StorageTypeOK, QueueTypes
<1>2. Queue = <<worker.job>> \o (ready \o jobs)
  BY DEF Queue, AtWork
<1>3. \A s \in Seq(JobRecords) :
        LET q == <<worker.job>> \o s IN
        Len(q) \in Nat /\ Len(q) >= 1 /\ q[1] = worker.job /\ Head(q) = worker.job
  BY <1>1
<1> QED
  BY <1>1, <1>2, <1>3

(* What leaves the jobs and the worker alone leaves the queue alone. *)
LEMMA QueueSame ==
  ASSUME UNCHANGED <<jobs, ready, worker>>
  PROVE  Queue' = Queue
BY DEF Queue, AtWork

(* Jobs that were asked for are submitted, in their order.                 *)
LEMMA QueueSubmitted ==
  ASSUME StorageTypeOK, Submit
  PROVE  Queue' = Queue
<1>1. ready' = ready \o jobs /\ jobs' = <<>> /\ worker' = Notified
  BY DEF Submit
<1>2. jobs \in Seq(JobRecords) /\ ready \in Seq(JobRecords)
  BY DEF StorageTypeOK, QueueTypes
<1>3. (worker.step = "io" <=> worker'.step = "io") /\ worker'.job = worker.job
  BY <1>1 DEF Notified, StorageTypeOK, QueueTypes
<1>4. AtWork' = AtWork
  BY <1>3 DEF AtWork
<1>5. ready' \o jobs' = ready \o jobs
  BY <1>1, <1>2
<1> QED
  BY <1>4, <1>5 DEF Queue

(* A job is asked for last.                                                *)
LEMMA QueueAsked ==
  ASSUME StorageTypeOK, NEW j \in JobRecords, jobs' = Append(jobs, j), UNCHANGED <<ready, worker>>
  PROVE  Queue' = Append(Queue, j)
<1>1. jobs \in Seq(JobRecords) /\ ready \in Seq(JobRecords) /\ AtWork \in Seq(JobRecords)
  BY DEF StorageTypeOK, QueueTypes, AtWork
<1>2. AtWork' = AtWork
  BY DEF AtWork
<1>3. ready' \o jobs' = Append(ready \o jobs, j)
  BY <1>1
<1>4. ready \o jobs \in Seq(JobRecords)
  BY <1>1
<1>5. \A a, b \in Seq(JobRecords) : a \o Append(b, j) = Append(a \o b, j)
  OBVIOUS
<1> QED
  BY <1>1, <1>2, <1>3, <1>4, <1>5 DEF Queue

(* The worker takes a job and keeps it: the order stays.                   *)
LEMMA QueueTaken ==
  ASSUME StorageTypeOK, worker.step = "look", ready # <<>>, ready' = Tail(ready), jobs' = jobs,
         worker'.step = "io", worker'.job = Head(ready)
  PROVE  Queue' = Queue /\ Queue # <<>> /\ Head(Queue) = Head(ready)
<1>1. jobs \in Seq(JobRecords) /\ ready \in Seq(JobRecords) /\ Head(ready) \in JobRecords
  BY DEF StorageTypeOK, QueueTypes
<1>2. AtWork = <<>> /\ AtWork' = <<Head(ready)>>
  BY DEF AtWork
<1>3. ready \o jobs \in Seq(JobRecords) /\ ready \o jobs = <<Head(ready)>> \o (Tail(ready) \o jobs)
  BY <1>1
<1>4. <<>> \o (ready \o jobs) = ready \o jobs
  BY <1>3
<1>5. ready \o jobs # <<>> /\ Head(ready \o jobs) = Head(ready)
  BY <1>1
<1> QED
  BY <1>2, <1>3, <1>4, <1>5 DEF Queue

(* The worker is done with the first job.                                  *)
Answered(j) == Queue # <<>> /\ Head(Queue) = j /\ Queue' = Tail(Queue)

(* A job refused because its slot is no longer its torrent's leaves the queue at its head. *)
LEMMA QueueRefused ==
  ASSUME StorageTypeOK, worker.step = "look", ready # <<>>, ready' = Tail(ready), jobs' = jobs,
         worker'.step # "io"
  PROVE  Answered(Head(ready))
<1>1. jobs \in Seq(JobRecords) /\ ready \in Seq(JobRecords) /\ Head(ready) \in JobRecords
  BY DEF StorageTypeOK, QueueTypes
<1>2. AtWork = <<>> /\ AtWork' = <<>>
  BY DEF AtWork
<1>3. ready \o jobs \in Seq(JobRecords) /\ Tail(ready) \o jobs \in Seq(JobRecords)
  BY <1>1
<1>4. Queue = ready \o jobs /\ Queue' = Tail(ready) \o jobs
  BY <1>2, <1>3 DEF Queue
<1>5. /\ ready \o jobs # <<>> /\ Head(ready \o jobs) = Head(ready)
      /\ Tail(ready \o jobs) = Tail(ready) \o jobs
  BY <1>1
<1> QED
  BY <1>4, <1>5 DEF Answered

(* A job whose work has ended leaves the queue at its head. *)
LEMMA QueueWorked ==
  ASSUME StorageTypeOK, worker.step = "io", UNCHANGED <<jobs, ready>>, worker'.step # "io"
  PROVE  Answered(worker.job)
<1>1. jobs \in Seq(JobRecords) /\ ready \in Seq(JobRecords) /\ worker.job \in JobRecords
  BY DEF StorageTypeOK, QueueTypes
<1>2. AtWork = <<worker.job>> /\ AtWork' = <<>>
  BY DEF AtWork
<1>3. ready \o jobs \in Seq(JobRecords)
  BY <1>1
<1>4. Queue = <<worker.job>> \o (ready \o jobs) /\ Queue' = ready \o jobs
  BY <1>2, <1>3 DEF Queue
<1>5. \A s \in Seq(JobRecords) :
        /\ <<worker.job>> \o s # <<>> /\ Head(<<worker.job>> \o s) = worker.job
        /\ Tail(<<worker.job>> \o s) = s
  BY <1>1
<1> QED
  BY <1>3, <1>4, <1>5 DEF Answered

-----------------------------------------------------------------------------
(* The inductive invariant, in parts. *)

State(t) == torrents[t].state
Live(t)  == State(t) = "mounted"
AtHand(t) == State(t) \in {"added", "mounted"}
Fetching == app.fetch # 0

(* A torrent that is in the session is the one the services know: a seed  *)
(* of what is installed, or the fetch at hand.                             *)
TorrentsOK ==
  /\ \A t \in Torrents : t > added => torrents[t] = NoTorrent
  /\ \A t \in Torrents : AtHand(t) => torrents[t].kind \in {"seed", "fetch"}
  /\ \A t \in Torrents : AtHand(t) /\ torrents[t].kind = "seed" =>
       app.seed = t /\ app.step = "free" /\ torrents[t].release = installed /\ installed # 0
  /\ \A t \in Torrents : AtHand(t) /\ torrents[t].kind = "fetch" => app.fetch = t
  /\ \A t \in Torrents : State(t) = "added" => torrents[t].piece = "missing"
  /\ app.step = "free" /\ app.seed # 0 => AtHand(app.seed) /\ torrents[app.seed].kind = "seed"
  /\ Fetching => /\ app.fetch \in 1..added /\ AtHand(app.fetch) /\ torrents[app.fetch].kind = "fetch"
                 /\ torrents[app.fetch].release = app.release

(* Where the services are, and what the locator's tables hold for them.    *)
AppOK ==
  /\ app.step \in {"free", "forget", "add", "swap"} => app.fetch = 0
  /\ app.step = "drain" /\ app.then = "add" => app.fetch = 0
  /\ app.step = "fetching" => app.fetch # 0
  /\ app.step \in {"drain", "retire"} /\ app.then = "swap" =>
       app.fetch # 0 /\ torrents[app.fetch].piece = "passed"
  /\ app.step \notin {"free", "forget"} => app.seed = 0
  /\ app.step # "free" => app.release \in Releases
  /\ app.seed <= added
  /\ located = IF app.seed = 0 THEN {} ELSE {installed}
  /\ Fetching => destined = {app.release}

(* A torrent libtorrent has not let go of keeps its slot, with the role of *)
(* what it is for, and a slot is mounted for such a torrent.               *)
MountsOK ==
  /\ \A t \in Torrents : State(t) \in {"mounted", "removed"} =>
       /\ torrents[t].slot \in DOMAIN slots
       /\ slots[torrents[t].slot].mounted /\ slots[torrents[t].slot].of = t
       /\ slots[torrents[t].slot].role = IF torrents[t].kind = "seed" THEN "SeedRead" ELSE "FetchWrite"
  /\ \A s \in DOMAIN slots : slots[s].mounted =>
       /\ slots[s].of \in Torrents
       /\ State(slots[s].of) \in {"mounted", "removed"} /\ torrents[slots[s].of].slot = s

(* A job is for a torrent that was mounted, and while it still is, for its *)
(* slot.                                                                   *)
JobFits(j) ==
  /\ j.of \in 1..added /\ State(j.of) # "added"
  /\ Live(j.of) => j.slot = torrents[j.of].slot
  /\ Live(j.of) /\ j.kind = "read" => torrents[j.of].kind = "seed"
JobsOK == \A i \in 1..Len(Queue) : JobFits(Queue[i])

(* The fetch at hand has one write or hash in the queue at a time, which   *)
(* its piece waits for, and no write stands behind its hash.               *)
Own(j) == j.kind \in {"write", "hash"} /\ j.of = app.fetch
OrderOK == Fetching =>
  /\ torrents[app.fetch].piece # "asked" => \A i \in 1..Len(Queue) : ~Own(Queue[i])
  /\ \A i, k \in 1..Len(Queue) : i < k /\ Own(Queue[i]) => ~Own(Queue[k])
  /\ \A i, k \in 1..Len(Queue) : i < k /\ Own(Queue[i]) /\ Queue[i].kind = "hash" => Queue[k].kind # "write"

(* A write is never on the live path, and the job of a mounted torrent is  *)
(* on the path of what it is for.                                          *)
IoOK == worker.step = "io" =>
  /\ worker.job.kind = "write" => worker.path = "staged"
  /\ Live(worker.job.of) =>
       worker.path = IF torrents[worker.job.of].kind = "seed" THEN "live" ELSE "staged"

(* Once the fetch's piece has passed, the staged file is the release's and *)
(* nobody is left who would write.                                         *)
Landed == app.step = "swap" \/ (Fetching /\ torrents[app.fetch].piece = "passed")
LandedOK == Landed =>
  /\ \A i \in 1..Len(Queue) : Queue[i].kind # "write"
  /\ names["staged"] # 0 /\ content[names["staged"]] = app.release
  /\ ~(worker.step = "io" /\ worker.path = "live")

(* No handle that can be written through is on the live file; from the     *)
(* first drain on, the staged path's handle is on the staged file; and     *)
(* between the last drain and the swap, nothing that matters is open.      *)
Cleared == app.step = "swap" \/ (app.step = "retire" /\ app.then = "swap")
Afresh  == app.step \notin {"free", "forget"} /\ ~(app.step = "drain" /\ app.then = "add")
FilesOK ==
  /\ names["live"] # 0 => names["live"] # names["staged"]
  /\ handles["staged"].writable => handles["staged"].file # names["live"] /\ handles["staged"].file # 0
  /\ handles["live"].file \in {0, names["live"]}
  /\ Afresh => handles["staged"].file \in {0, names["staged"]}
  /\ Cleared => ~handles["staged"].writable /\ handles["live"].file = 0

StorageInv ==
  /\ StorageTypeOK /\ TorrentsOK /\ AppOK /\ MountsOK /\ JobsOK /\ OrderOK /\ IoOK /\ LandedOK
  /\ FilesOK /\ LiveIsInstalled /\ ServedIsTrue
(* Initially nothing is mounted, queued or open, and the invariant holds. *)
LEMMA InvInitially == StorageInit => StorageInv
<1> SUFFICES ASSUME StorageInit PROVE StorageInv
  OBVIOUS
<1> USE StorageBounds DEF StorageInit
<1>1. Queue = <<>> /\ Len(Queue) = 0
  BY DEF Queue, AtWork, Idle
<1>2. StorageTypeOK
  <2>1. LibraryTypes
    BY DEF LibraryTypes, TorrentRecords, NoTorrent, Pieces
  <2>2. QueueTypes
    BY DEF QueueTypes, Idle, NoJob
  <2>3. FileTypes
    BY DEF FileTypes, NoHandle, Paths, Files
  <2>4. AppTypes
    BY DEF AppTypes, AtRest, AppSteps
  <2> QED
    BY <2>1, <2>2, <2>3, <2>4 DEF StorageTypeOK
<1>3. TorrentsOK
  BY DEF TorrentsOK, AtHand, State, NoTorrent, Fetching, AtRest
<1>4. AppOK
  BY DEF AppOK, AtRest, Fetching
<1>5. MountsOK
  BY DEF MountsOK, State, Live, NoTorrent
<1>6. JobsOK /\ OrderOK /\ IoOK /\ LandedOK
  BY <1>1 DEF JobsOK, OrderOK, IoOK, LandedOK, Landed, Fetching, AtRest, Idle
<1>7. FilesOK
  BY DEF FilesOK, NoHandle, Paths, AtRest, Cleared, Afresh
<1>8. LiveIsInstalled /\ ServedIsTrue
  BY DEF LiveIsInstalled, ServedIsTrue, Paths, Files
<1> QED
  BY <1>2, <1>3, <1>4, <1>5, <1>6, <1>7, <1>8 DEF StorageInv

-----------------------------------------------------------------------------
(* The slot new_torrent takes is not mounted.                              *)
LEMMA LeastIndex ==
  ASSUME NEW T, T \subseteq Nat, T # {}
  PROVE  \E m \in T : \A k \in T : ~(k < m)
<1>1. PICK m \in T : \A k \in T : <<k, m>> \notin OpToRel(<, Nat)
  BY WFMin, NatLessThanWellFounded, Zenon
<1> QED
  BY <1>1 DEF OpToRel

(* The slot a mount takes is a new one or an empty one. *)
LEMMA FreeSlotIsFree ==
  ASSUME LibraryTypes
  PROVE  /\ FreeSlot \in 1..(Len(slots) + 1)
         /\ FreeSlot = Len(slots) + 1 \/ ~slots[FreeSlot].mounted
<1>1. Len(slots) \in Nat
  BY DEF LibraryTypes
<1> DEFINE T == {i \in 1..(Len(slots) + 1) : i = Len(slots) + 1 \/ ~slots[i].mounted}
<1>2. T \subseteq Nat /\ Len(slots) + 1 \in T
  BY <1>1
<1>3. PICK m \in T : \A k \in T : ~(k < m)
  BY <1>2, LeastIndex, Zenon
<1>4. \A j \in 1..(m - 1) : slots[j].mounted
  <2> TAKE j \in 1..(m - 1)
  <2>1. j \in 1..(Len(slots) + 1) /\ j < m
    BY <1>1
  <2>2. j \notin T
    BY <1>3, <2>1
  <2> QED
    BY <2>1, <2>2
<1>5. \E i \in 1..(Len(slots) + 1) :
        /\ i = Len(slots) + 1 \/ ~slots[i].mounted
        /\ \A j \in 1..(i - 1) : slots[j].mounted
  BY <1>4
<1> QED
  BY <1>5 DEF FreeSlot
-----------------------------------------------------------------------------
(* The steps of the services above. None of them touches the queue.        *)

(* A seed is announced.                                                    *)
LEMMA AnnounceStep == ASSUME StorageInv, Announce PROVE StorageInv'
<1> USE DEF StorageInv
<1> DEFINE n == added + 1
<1>1. /\ app.step = "free" /\ installed # 0 /\ app.seed = 0 /\ added < MaxTorrents /\ added' = n
      /\ located' = located \cup {installed}
      /\ torrents' = [torrents EXCEPT ![n] = [NoTorrent EXCEPT !.kind = "seed", !.release = installed,
                                                !.state = "added"]]
      /\ app' = [app EXCEPT !.seed = n]
      /\ UNCHANGED <<slots, jobs, ready, worker, destined, names, content, handles, installed, served>>
  BY DEF Announce, Adds, Steps, queueVars, diskVars
<1>2. n \in Torrents /\ added \in Nat /\ MaxTorrents \in Nat /\ torrents[n] = NoTorrent
  BY <1>1, StorageBounds DEF StorageTypeOK, LibraryTypes, Torrents, TorrentsOK
<1>3. /\ torrents'[n] = [NoTorrent EXCEPT !.kind = "seed", !.release = installed, !.state = "added"]
      /\ \A t \in Torrents : t # n => torrents'[t] = torrents[t]
      /\ torrents'[n] \in TorrentRecords
  BY <1>1, <1>2 DEF StorageTypeOK, LibraryTypes, FileTypes, TorrentRecords, NoTorrent, Pieces
<1>4. /\ app'.step = "free" /\ app'.seed = n /\ app'.fetch = app.fetch /\ app'.release = app.release
      /\ app'.then = app.then /\ app.fetch = 0
  BY <1>1 DEF StorageTypeOK, AppTypes, AppOK
<1>5. Queue' = Queue
  BY <1>1, QueueSame
<1> HIDE DEF n
<1>6. StorageTypeOK'
  <2>1. LibraryTypes'
    BY <1>1, <1>2, <1>3 DEF StorageTypeOK, LibraryTypes, n
  <2>2. AppTypes'
    BY <1>1, <1>2, StorageBounds DEF StorageTypeOK, AppTypes, Torrents
  <2>3. QueueTypes' /\ FileTypes'
    BY <1>1 DEF StorageTypeOK, QueueTypes, FileTypes
  <2> QED
    BY <2>1, <2>2, <2>3 DEF StorageTypeOK
<1>7. TorrentsOK'
  <2>1. /\ torrents'[n].kind = "seed" /\ torrents'[n].release = installed
        /\ torrents'[n].state = "added" /\ torrents'[n].piece = "missing"
    BY <1>3 DEF NoTorrent
  <2>2. \A t \in Torrents : ~(AtHand(t) /\ torrents[t].kind \in {"seed", "fetch"})
    BY <1>1, <1>2, <1>4 DEF TorrentsOK, Torrents
  <2>3. \A t \in Torrents : t # n => ~AtHand(t)'
    BY <1>3, <2>2 DEF TorrentsOK, AtHand, State
  <2>4. \A t \in Torrents : t > added' => torrents'[t] = NoTorrent
    BY <1>1, <1>2, <1>3 DEF TorrentsOK, n, Torrents
  <2>5. ~Fetching'
    BY <1>4 DEF Fetching
  <2> QED
    BY <1>1, <1>4, <2>1, <2>3, <2>4, <2>5 DEF TorrentsOK, AtHand, State
<1>8. AppOK'
  BY <1>1, <1>2, <1>4 DEF AppOK, Fetching, n
<1>9. MountsOK'
  BY <1>1, <1>2, <1>3 DEF MountsOK, State, NoTorrent
<1>10. JobsOK'
  BY <1>1, <1>2, <1>3, <1>5 DEF JobsOK, JobFits, Live, State, n, Torrents
<1>11. OrderOK' /\ LandedOK'
  BY <1>4 DEF OrderOK, LandedOK, Landed, Fetching
<1>12. IoOK'
  <2>1. CASE worker.step = "io"
    <3>1. worker.job = Queue[1] /\ Len(Queue) >= 1
      BY <2>1, QueueFirst
    <3>2. worker.job.of \in 1..added
      BY <3>1, QueueForm DEF JobsOK, JobFits
    <3>3. worker.job.of \in Torrents /\ worker.job.of # n
      BY <3>2, <1>2, <1>1 DEF n, Torrents
    <3> QED
      BY <3>3, <1>1, <1>3 DEF IoOK, Live, State
  <2> QED
    BY <2>1, <1>1 DEF IoOK
<1>13. FilesOK' /\ LiveIsInstalled' /\ ServedIsTrue'
  BY <1>1, <1>4 DEF FilesOK, LiveIsInstalled, ServedIsTrue, Cleared, Afresh
<1> QED
  BY <1>6, <1>7, <1>8, <1>9, <1>10, <1>11, <1>12, <1>13
Keeps(u) == /\ State(u) = "mounted" /\ torrents'[u].state = "removed"
            /\ torrents'[u].slot = torrents[u].slot /\ torrents'[u].kind = torrents[u].kind

(* A torrent that is removed from the session is at hand no more.          *)
LEMMA Removal ==
  ASSUME StorageInv, NEW u \in Torrents, AtHand(u), torrents' = Removing(u)
  PROVE  /\ torrents' \in [Torrents -> TorrentRecords]
         /\ ~AtHand(u)'
         /\ Keeps(u) \/ (State(u) = "added" /\ torrents'[u] = Gone)
         /\ \A t \in Torrents : t # u => torrents'[t] = torrents[t]
<1>1. torrents \in [Torrents -> TorrentRecords]
  BY DEF StorageInv, StorageTypeOK, LibraryTypes
<1>2. \A t \in Torrents : t # u => torrents'[t] = torrents[t]
  BY <1>1 DEF Removing
<1>3. CASE torrents[u].state = "added"
  <2>1. torrents' = [torrents EXCEPT ![u] = Gone]
    BY <1>1, <1>3 DEF Removing
  <2>2. torrents'[u] = Gone /\ torrents'[u].state = "gone"
    BY <1>1, <2>1 DEF Gone, NoTorrent
  <2>3. torrents' \in [Torrents -> TorrentRecords]
    BY <1>1, <2>1 DEF Gone, NoTorrent, TorrentRecords, Pieces
  <2> QED
    BY <1>2, <1>3, <2>2, <2>3 DEF AtHand, State
<1>4. CASE torrents[u].state = "mounted"
  <2>1. torrents' = [torrents EXCEPT ![u] = [torrents[u] EXCEPT !.state = "removed", !.piece = "missing",
                                               !.asked = 0]]
    BY <1>1, <1>4 DEF Removing
  <2>2. torrents'[u] = [kind |-> torrents[u].kind, release |-> torrents[u].release, state |-> "removed",
                        slot |-> torrents[u].slot, piece |-> "missing", asked |-> 0]
    BY <1>1, <2>1 DEF TorrentRecords
  <2>3. torrents'[u] \in TorrentRecords
    BY <1>1, <2>2 DEF TorrentRecords, Pieces
  <2>4. torrents' \in [Torrents -> TorrentRecords]
    BY <1>1, <2>1, <2>2, <2>3
  <2> QED
    BY <1>2, <1>4, <2>2, <2>4 DEF AtHand, State, Keeps
<1> QED
  BY <1>3, <1>4 DEF AtHand, State

(* What a removal leaves of mounts, jobs and the job at work.              *)
LEMMA RemovalKeeps ==
  ASSUME StorageInv, NEW u \in Torrents, AtHand(u), torrents' = Removing(u),
         UNCHANGED <<added, slots, jobs, ready, worker>>
  PROVE  MountsOK' /\ JobsOK' /\ IoOK'
<1> USE DEF StorageInv
<1>1. /\ ~AtHand(u)'
      /\ Keeps(u) \/ (State(u) = "added" /\ torrents'[u] = Gone)
      /\ \A t \in Torrents : t # u => torrents'[t] = torrents[t]
  BY Removal
<1>2. Queue' = Queue
  BY QueueSame
<1>3. 1..added \subseteq Torrents
  BY StorageBounds DEF StorageTypeOK, LibraryTypes, Torrents
<1>4. MountsOK'
  BY <1>1 DEF MountsOK, State, Keeps, Gone, NoTorrent
<1>5. JobsOK'
  BY <1>1, <1>2, <1>3 DEF JobsOK, JobFits, AtHand, Live, State
<1>6. IoOK'
  <2>1. CASE worker.step = "io"
    <3>1. worker.job.of \in Torrents
      BY <2>1, <1>3, QueueFirst, QueueForm DEF JobsOK, JobFits
    <3> QED
      BY <3>1, <1>1 DEF IoOK, AtHand, Live, State
  <2> QED
    BY <2>1 DEF IoOK
<1> QED
  BY <1>4, <1>5, <1>6

(* An installation withdraws its seed.                                     *)
LEMMA StartFetchStep ==
  ASSUME StorageInv, NEW r \in Releases, StartFetch(r)
  PROVE  StorageInv'
<1> USE DEF StorageInv
<1>1. /\ app.step = "free" /\ torrents' = IF app.seed = 0 THEN torrents ELSE Removing(app.seed)
      /\ app' = [app EXCEPT !.step = "forget", !.release = r]
      /\ UNCHANGED <<added, slots, jobs, ready, worker, located, destined, names, content, handles,
                     installed, served>>
  BY DEF StartFetch, Steps, queueVars, diskVars, tableVars
<1>2. /\ app'.step = "forget" /\ app'.release = r /\ app'.seed = app.seed /\ app'.fetch = app.fetch
      /\ app'.then = app.then /\ app.fetch = 0
  BY <1>1 DEF StorageTypeOK, AppTypes, AppOK
<1>3. app.seed # 0 => app.seed \in Torrents /\ AtHand(app.seed)
  BY <1>1, StorageBounds DEF StorageTypeOK, AppTypes, Torrents, TorrentsOK
<1>4. Queue' = Queue
  BY <1>1, QueueSame
<1>5. /\ torrents' \in [Torrents -> TorrentRecords]
      /\ app.seed # 0 => ~AtHand(app.seed)'
      /\ \A t \in Torrents : t # app.seed => torrents'[t] = torrents[t]
  BY <1>1, <1>3, Removal DEF StorageTypeOK, LibraryTypes
<1>6. StorageTypeOK'
  <2>1. LibraryTypes'
    BY <1>1, <1>5 DEF StorageTypeOK, LibraryTypes
  <2>2. AppTypes'
    <3>1. app' = [step |-> "forget", release |-> r, seed |-> app.seed, fetch |-> app.fetch, then |-> app.then]
      BY <1>1 DEF StorageTypeOK, AppTypes
    <3> QED
      BY <3>1 DEF StorageTypeOK, AppTypes, Releases, AppSteps
  <2>3. QueueTypes' /\ FileTypes'
    BY <1>1 DEF StorageTypeOK, QueueTypes, FileTypes
  <2> QED
    BY <2>1, <2>2, <2>3 DEF StorageTypeOK
<1>7. TorrentsOK'
  <2>1. \A t \in Torrents : t # app.seed => ~AtHand(t)
    BY <1>1, <1>2 DEF TorrentsOK, Torrents
  <2>2. \A t \in Torrents : ~AtHand(t)'
    BY <1>2, <1>3, <1>5, <2>1 DEF AtHand, State, Torrents
  <2>3. \A t \in Torrents : t > added => t # app.seed
    BY StorageBounds DEF AppOK, StorageTypeOK, LibraryTypes, AppTypes, Torrents
  <2> QED
    BY <1>1, <1>2, <1>5, <2>2, <2>3 DEF TorrentsOK, AtHand, State, Fetching
<1>8. AppOK'
  BY <1>1, <1>2 DEF AppOK, Fetching
<1>9. MountsOK' /\ JobsOK' /\ IoOK'
  <2>1. CASE app.seed = 0
    BY <1>1, <1>4, <2>1 DEF MountsOK, JobsOK, IoOK, State, Live, JobFits
  <2>2. CASE app.seed # 0
    BY <1>1, <1>3, <2>2, RemovalKeeps
  <2> QED
    BY <2>1, <2>2
<1>10. OrderOK' /\ LandedOK'
  BY <1>2 DEF OrderOK, LandedOK, Landed, Fetching
<1>11. FilesOK' /\ LiveIsInstalled' /\ ServedIsTrue'
  BY <1>1, <1>2 DEF FilesOK, LiveIsInstalled, ServedIsTrue, Cleared, Afresh
<1> QED
  BY <1>6, <1>7, <1>8, <1>9, <1>10, <1>11

(* Torrents, slots and the queue as they were.                             *)
LEMMA LibraryStays ==
  ASSUME StorageInv, UNCHANGED <<torrents, added, slots, jobs, ready>>,
         UNCHANGED worker \/ (worker.step # "io" /\ worker'.step # "io")
  PROVE  MountsOK' /\ JobsOK' /\ IoOK' /\ Queue' = Queue
<1> USE DEF StorageInv
<1>1. Queue' = Queue
  BY DEF Queue, AtWork
<1>2. MountsOK'
  BY DEF MountsOK, State, Live
<1>3. JobsOK'
  BY <1>1 DEF JobsOK, JobFits, State, Live
<1>4. IoOK'
  BY DEF IoOK, State, Live
<1> QED
  BY <1>1, <1>2, <1>3, <1>4

(* Its chunks are forgotten.                                               *)
LEMMA StopForgetsStep ==
  ASSUME StorageInv, StopForgets
  PROVE  StorageInv'
<1> USE DEF StorageInv
<1>1. /\ app.step = "forget" /\ located' = IF app.seed = 0 THEN located ELSE located \ {installed}
      /\ app' = [app EXCEPT !.step = "drain", !.seed = 0, !.then = "add"]
      /\ UNCHANGED <<torrents, added, slots, jobs, ready, worker, destined, names, content, handles,
                     installed, served>>
  BY DEF StopForgets, Steps, queueVars, diskVars
<1>2. /\ app'.step = "drain" /\ app'.release = app.release /\ app'.seed = 0 /\ app'.fetch = app.fetch
      /\ app'.then = "add" /\ app.fetch = 0
  BY <1>1 DEF StorageTypeOK, AppTypes, AppOK
<1>3. MountsOK' /\ JobsOK' /\ IoOK' /\ Queue' = Queue
  BY <1>1, LibraryStays
<1>4. StorageTypeOK'
  <2>1. AppTypes'
    <3>1. app' = [step |-> "drain", release |-> app.release, seed |-> 0, fetch |-> app.fetch, then |-> "add"]
      BY <1>1 DEF StorageTypeOK, AppTypes
    <3> QED
      BY <3>1, StorageBounds DEF StorageTypeOK, AppTypes, AppSteps
  <2>2. LibraryTypes' /\ QueueTypes' /\ FileTypes'
    BY <1>1 DEF StorageTypeOK, LibraryTypes, QueueTypes, FileTypes
  <2> QED
    BY <2>1, <2>2 DEF StorageTypeOK
<1>5. TorrentsOK'
  <2>1. \A t \in Torrents : ~AtHand(t)
    BY <1>1, <1>2 DEF TorrentsOK, Torrents
  <2> QED
    BY <1>1, <1>2, <2>1 DEF TorrentsOK, AtHand, State, Fetching
<1>6. AppOK'
  BY <1>1, <1>2, StorageBounds DEF AppOK, Fetching, StorageTypeOK, LibraryTypes
<1>7. OrderOK' /\ LandedOK'
  BY <1>2 DEF OrderOK, LandedOK, Landed, Fetching
<1>8. FilesOK' /\ LiveIsInstalled' /\ ServedIsTrue'
  BY <1>1, <1>2 DEF FilesOK, LiveIsInstalled, ServedIsTrue, Cleared, Afresh
<1> QED
  BY <1>3, <1>4, <1>5, <1>6, <1>7, <1>8
(* The handles are closed.                                                 *)
LEMMA DrainAndClearStep ==
  ASSUME StorageInv, DrainAndClear
  PROVE  StorageInv'
<1> USE DEF StorageInv
<1>1. /\ app.step = "drain" /\ handles' = Released /\ app' = [app EXCEPT !.step = "retire"]
      /\ UNCHANGED <<torrents, added, slots, jobs, ready, worker, located, destined, names, content,
                     installed, served>>
  BY DEF DrainAndClear, Steps, queueVars, tableVars
<1>2. /\ app'.step = "retire" /\ app'.release = app.release /\ app'.seed = app.seed
      /\ app'.fetch = app.fetch /\ app'.then = app.then /\ app.seed = 0
  BY <1>1 DEF StorageTypeOK, AppTypes, AppOK
<1>3. MountsOK' /\ JobsOK' /\ IoOK' /\ Queue' = Queue
  BY <1>1, LibraryStays
<1>4. \A p \in Paths : handles'[p] = [file |-> 0, writable |-> FALSE]
  BY <1>1 DEF Released, NoHandle
<1>5. StorageTypeOK'
  <2>1. AppTypes'
    BY <1>1 DEF StorageTypeOK, AppTypes, AppSteps
  <2>2. FileTypes'
    BY <1>1, <1>4 DEF StorageTypeOK, FileTypes, Released, NoHandle
  <2>3. LibraryTypes' /\ QueueTypes'
    BY <1>1 DEF StorageTypeOK, LibraryTypes, QueueTypes
  <2> QED
    BY <2>1, <2>2, <2>3 DEF StorageTypeOK
<1>6. TorrentsOK'
  BY <1>1, <1>2 DEF TorrentsOK, AtHand, State, Fetching
<1>7. AppOK'
  BY <1>1, <1>2 DEF AppOK, Fetching
<1>8. OrderOK'
  BY <1>1, <1>2, <1>3 DEF OrderOK, Own, Fetching
<1>9. LandedOK'
  BY <1>1, <1>2, <1>3 DEF LandedOK, Landed, Fetching
<1>10. FilesOK'
  BY <1>1, <1>4 DEF FilesOK, Paths
<1>11. LiveIsInstalled' /\ ServedIsTrue'
  BY <1>1 DEF LiveIsInstalled, ServedIsTrue
<1> QED
  BY <1>3, <1>5, <1>6, <1>7, <1>8, <1>9, <1>10, <1>11

(* The fetch is removed.                                                   *)
LEMMA RetireStep ==
  ASSUME StorageInv, Retire
  PROVE  StorageInv'
<1> USE DEF StorageInv
<1>1. /\ app.step = "retire" /\ torrents' = IF app.fetch = 0 THEN torrents ELSE Removing(app.fetch)
      /\ app' = IF app.then = "free" THEN AtRest ELSE [app EXCEPT !.step = app.then, !.fetch = 0]
      /\ UNCHANGED <<added, slots, jobs, ready, worker, located, destined, names, content, handles,
                     installed, served>>
  BY DEF Retire, Steps, queueVars, diskVars, tableVars
<1>2. /\ app'.step = app.then /\ app'.seed = 0 /\ app'.fetch = 0 /\ app.seed = 0
      /\ app.then # "free" => app'.release = app.release
      /\ app.then \in {"free", "add", "swap"}
  BY <1>1 DEF StorageTypeOK, AppTypes, AppOK, AtRest
<1>3. app.fetch # 0 => app.fetch \in Torrents /\ AtHand(app.fetch)
  BY StorageBounds DEF StorageTypeOK, AppTypes, Torrents, TorrentsOK, Fetching
<1>4. Queue' = Queue
  BY <1>1, QueueSame
<1>5. /\ torrents' \in [Torrents -> TorrentRecords]
      /\ app.fetch # 0 => torrents'[app.fetch].state \notin {"added", "mounted"}
      /\ \A t \in Torrents : t # app.fetch => torrents'[t] = torrents[t]
  BY <1>1, <1>3, Removal DEF StorageTypeOK, LibraryTypes, AtHand, State
<1>6. StorageTypeOK'
  <2>1. LibraryTypes'
    BY <1>1, <1>5 DEF StorageTypeOK, LibraryTypes
  <2>2. AppTypes'
    <3>1. CASE app.then = "free"
      BY <1>1, <3>1, StorageBounds DEF AppTypes, AppSteps, AtRest
    <3>2. CASE app.then # "free"
      <4>1. app' = [step |-> app.then, release |-> app.release, seed |-> app.seed, fetch |-> 0,
                    then |-> app.then]
        BY <1>1, <3>2 DEF StorageTypeOK, AppTypes
      <4> QED
        BY <1>2, <4>1, StorageBounds DEF StorageTypeOK, AppTypes, AppSteps
    <3> QED
      BY <3>1, <3>2
  <2>3. QueueTypes' /\ FileTypes'
    BY <1>1 DEF StorageTypeOK, QueueTypes, FileTypes
  <2> QED
    BY <2>1, <2>2, <2>3 DEF StorageTypeOK
<1>7. TorrentsOK'
  <2>1. \A t \in Torrents : t # app.fetch => ~AtHand(t)
    BY <1>1, <1>2 DEF TorrentsOK, Torrents
  <2>2. \A t \in Torrents : ~AtHand(t)'
    BY <1>3, <1>5, <2>1 DEF AtHand, State, Torrents
  <2>3. \A t \in Torrents : t > added => t # app.fetch
    BY <1>3, StorageBounds DEF TorrentsOK, Fetching, StorageTypeOK, LibraryTypes, Torrents
  <2> QED
    BY <1>1, <1>2, <1>5, <2>2, <2>3 DEF TorrentsOK, AtHand, State, Fetching
<1>8. AppOK'
  <2>1. app'.step # "free" => app'.release \in Releases
    BY <1>1, <1>2 DEF AppOK
  <2> QED
    BY <1>1, <1>2, <2>1, StorageBounds DEF AppOK, Fetching, StorageTypeOK, LibraryTypes
<1>9. MountsOK' /\ JobsOK' /\ IoOK'
  <2>1. CASE app.fetch = 0
    BY <1>1, <1>4, <2>1 DEF MountsOK, JobsOK, IoOK, State, Live, JobFits
  <2>2. CASE app.fetch # 0
    BY <1>1, <1>3, <2>2, RemovalKeeps
  <2> QED
    BY <2>1, <2>2
<1>10. OrderOK'
  BY <1>2 DEF OrderOK, Fetching
<1>11. LandedOK'
  <2>1. Landed' => Landed /\ app.then = "swap"
    BY <1>1, <1>2 DEF Landed, Fetching, AppOK
  <2> QED
    BY <1>1, <1>2, <1>4, <2>1 DEF LandedOK
<1>12. FilesOK'
  <2>1. (Cleared' => Cleared) /\ (Afresh' => Afresh)
    BY <1>1, <1>2 DEF Cleared, Afresh
  <2> QED
    BY <1>1, <2>1 DEF FilesOK
<1>13. LiveIsInstalled' /\ ServedIsTrue'
  BY <1>1 DEF LiveIsInstalled, ServedIsTrue
<1> QED
  BY <1>6, <1>7, <1>8, <1>9, <1>10, <1>11, <1>12, <1>13

(* The fetch is complete, or the user cancels it.                          *)
LEMMA FetchEndsStep ==
  ASSUME StorageInv, FetchEnds
  PROVE  StorageInv'
<1> USE DEF StorageInv
<1>1. /\ app.step = "fetching"
      /\ \/ torrents[app.fetch].piece = "passed" /\ app' = [app EXCEPT !.step = "drain", !.then = "swap"]
         \/ app' = [app EXCEPT !.step = "drain", !.then = "free"]
      /\ UNCHANGED <<torrents, added, slots, jobs, ready, worker, located, destined, names, content,
                     handles, installed, served>>
  BY DEF FetchEnds, Steps, queueVars, tableVars, diskVars
<1>2. /\ app'.step = "drain" /\ app'.release = app.release /\ app'.seed = app.seed
      /\ app'.fetch = app.fetch /\ app.seed = 0 /\ app.fetch # 0
      /\ app'.then = "free" \/ (app'.then = "swap" /\ torrents[app.fetch].piece = "passed")
  BY <1>1 DEF StorageTypeOK, AppTypes, AppOK
<1>3. MountsOK' /\ JobsOK' /\ IoOK' /\ Queue' = Queue
  BY <1>1, LibraryStays
<1>4. StorageTypeOK'
  <2>1. AppTypes'
    <3>1. app' = [step |-> "drain", release |-> app.release, seed |-> app.seed, fetch |-> app.fetch,
                  then |-> app'.then]
      BY <1>1 DEF StorageTypeOK, AppTypes
    <3> QED
      BY <1>2, <3>1 DEF StorageTypeOK, AppTypes, AppSteps
  <2>2. LibraryTypes' /\ QueueTypes' /\ FileTypes'
    BY <1>1 DEF StorageTypeOK, LibraryTypes, QueueTypes, FileTypes
  <2> QED
    BY <2>1, <2>2 DEF StorageTypeOK
<1>5. TorrentsOK'
  BY <1>1, <1>2 DEF TorrentsOK, AtHand, State, Fetching
<1>6. AppOK'
  BY <1>1, <1>2 DEF AppOK, Fetching
<1>7. OrderOK'
  BY <1>1, <1>2, <1>3 DEF OrderOK, Own, Fetching
<1>8. LandedOK'
  BY <1>1, <1>2, <1>3 DEF LandedOK, Landed, Fetching
<1>9. FilesOK'
  BY <1>1, <1>2 DEF FilesOK, Cleared, Afresh
<1>10. LiveIsInstalled' /\ ServedIsTrue'
  BY <1>1 DEF LiveIsInstalled, ServedIsTrue
<1> QED
  BY <1>3, <1>4, <1>5, <1>6, <1>7, <1>8, <1>9, <1>10

(* The destinations are cleared when there is no fetch.                    *)
LEMMA ClearDestinationsStep ==
  ASSUME StorageInv, ClearDestinations
  PROVE  StorageInv'
<1> USE DEF StorageInv
<1>1. /\ app.fetch = 0
      /\ UNCHANGED <<torrents, added, slots, jobs, ready, worker, located, names, content, handles, app,
                     installed, served>>
  BY DEF ClearDestinations, queueVars, diskVars, appVars
<1>2. MountsOK' /\ JobsOK' /\ IoOK' /\ Queue' = Queue
  BY <1>1, LibraryStays
<1>3. StorageTypeOK'
  BY <1>1 DEF StorageTypeOK, LibraryTypes, QueueTypes, FileTypes, AppTypes
<1>4. TorrentsOK' /\ AppOK'
  BY <1>1 DEF TorrentsOK, AtHand, State, Fetching, AppOK
<1>5. OrderOK' /\ LandedOK'
  BY <1>1, <1>2 DEF OrderOK, Fetching, LandedOK, Landed
<1>6. FilesOK' /\ LiveIsInstalled' /\ ServedIsTrue'
  BY <1>1 DEF FilesOK, Cleared, Afresh, LiveIsInstalled, ServedIsTrue
<1> QED
  BY <1>2, <1>3, <1>4, <1>5, <1>6
(* A fetch is begun: its destination is the staged file.                   *)
LEMMA BeginFetchStep ==
  ASSUME StorageInv, BeginFetch
  PROVE  StorageInv'
<1> USE DEF StorageInv
<1> DEFINE n == added + 1
<1>1. /\ app.step = "add" /\ added < MaxTorrents /\ added' = n /\ destined' = {app.release}
      /\ torrents' = [torrents EXCEPT ![n] = [NoTorrent EXCEPT !.kind = "fetch", !.release = app.release,
                                                !.state = "added"]]
      /\ app' = [app EXCEPT !.step = "fetching", !.fetch = n]
      /\ UNCHANGED <<slots, jobs, ready, worker, located, names, content, handles, installed, served>>
  BY DEF BeginFetch, Adds, Steps, queueVars, diskVars
<1>2. n \in Torrents /\ added \in Nat /\ MaxTorrents \in Nat /\ torrents[n] = NoTorrent
  BY <1>1, StorageBounds DEF StorageTypeOK, LibraryTypes, Torrents, TorrentsOK
<1>3. /\ torrents'[n] = [NoTorrent EXCEPT !.kind = "fetch", !.release = app.release, !.state = "added"]
      /\ \A t \in Torrents : t # n => torrents'[t] = torrents[t]
      /\ torrents'[n] \in TorrentRecords
  BY <1>1, <1>2 DEF StorageTypeOK, LibraryTypes, AppTypes, TorrentRecords, NoTorrent, Pieces
<1>4. /\ app'.step = "fetching" /\ app'.seed = 0 /\ app'.fetch = n /\ app'.release = app.release
      /\ app'.then = app.then /\ app.fetch = 0 /\ app.seed = 0
  BY <1>1 DEF StorageTypeOK, AppTypes, AppOK
<1>5. Queue' = Queue
  BY <1>1, QueueSame
<1> HIDE DEF n
<1>6. StorageTypeOK'
  <2>1. LibraryTypes'
    BY <1>1, <1>2, <1>3 DEF StorageTypeOK, LibraryTypes, n
  <2>2. AppTypes'
    <3>1. app' = [step |-> "fetching", release |-> app.release, seed |-> app.seed, fetch |-> n,
                  then |-> app.then]
      BY <1>1 DEF StorageTypeOK, AppTypes
    <3> QED
      BY <1>2, <3>1, StorageBounds DEF StorageTypeOK, AppTypes, Torrents, AppSteps
  <2>3. QueueTypes' /\ FileTypes'
    BY <1>1 DEF StorageTypeOK, QueueTypes, FileTypes
  <2> QED
    BY <2>1, <2>2, <2>3 DEF StorageTypeOK
<1>7. /\ torrents'[n].kind = "fetch" /\ torrents'[n].release = app.release
      /\ torrents'[n].state = "added" /\ torrents'[n].piece = "missing"
  BY <1>3 DEF NoTorrent
<1>8. TorrentsOK'
  <2>1. \A t \in Torrents : ~AtHand(t)
    BY <1>1, <1>4 DEF TorrentsOK, Torrents
  <2>2. \A t \in Torrents : t # n => ~AtHand(t)'
    BY <1>3, <2>1 DEF AtHand, State
  <2>3. \A t \in Torrents : t > added' => torrents'[t] = NoTorrent
    BY <1>1, <1>2, <1>3 DEF TorrentsOK, n, Torrents
  <2>4. n \in 1..added'
    BY <1>1, <1>2 DEF n
  <2> QED
    BY <1>4, <1>7, <2>2, <2>3, <2>4 DEF TorrentsOK, AtHand, State, Fetching
<1>9. AppOK'
  BY <1>1, <1>2, <1>4 DEF AppOK, Fetching, n
<1>10. MountsOK'
  BY <1>1, <1>2, <1>3 DEF MountsOK, State, NoTorrent
<1>11. \A i \in 1..Len(Queue) : Queue[i].of \in 1..added
  BY DEF JobsOK, JobFits
<1>12. JobsOK'
  BY <1>1, <1>2, <1>3, <1>5 DEF JobsOK, JobFits, Live, State, n, Torrents
<1>13. OrderOK'
  <2>1. \A i \in 1..Len(Queue) : ~Own(Queue[i])'
    BY <1>2, <1>4, <1>5, <1>11 DEF Own, n
  <2> QED
    BY <1>5, <2>1 DEF OrderOK
<1>14. IoOK'
  <2>1. CASE worker.step = "io"
    <3>1. worker.job.of \in 1..added
      BY <1>11, <2>1, QueueFirst, QueueForm
    <3>2. worker.job.of \in Torrents /\ worker.job.of # n
      BY <3>1, <1>2, <1>1 DEF n, Torrents
    <3> QED
      BY <3>2, <1>1, <1>3 DEF IoOK, Live, State
  <2> QED
    BY <2>1, <1>1 DEF IoOK
<1>15. LandedOK'
  BY <1>4, <1>7 DEF LandedOK, Landed
<1>16. FilesOK' /\ LiveIsInstalled' /\ ServedIsTrue'
  BY <1>1, <1>4 DEF FilesOK, LiveIsInstalled, ServedIsTrue, Cleared, Afresh
<1> QED
  BY <1>6, <1>8, <1>9, <1>10, <1>12, <1>13, <1>14, <1>15, <1>16

(* The staged file takes the live one's name, or stays.                    *)
LEMMA SwapStep ==
  ASSUME StorageInv, Swap
  PROVE  StorageInv'
<1> USE DEF StorageInv
<1>1. /\ app.step = "swap" /\ app' = AtRest
      /\ \/ /\ names' = [names EXCEPT !["live"] = names["staged"], !["staged"] = 0]
            /\ installed' = app.release
         \/ UNCHANGED <<names, installed>>
      /\ UNCHANGED <<torrents, added, slots, jobs, ready, worker, located, destined, content, handles,
                     served>>
  BY DEF Swap, Steps, queueVars, tableVars
<1>2. /\ app'.step = "free" /\ app'.seed = 0 /\ app'.fetch = 0 /\ app'.then = "free"
      /\ app.seed = 0 /\ app.fetch = 0 /\ app.release \in Releases
  BY <1>1 DEF AtRest, AppOK
<1>3. MountsOK' /\ JobsOK' /\ IoOK' /\ Queue' = Queue
  BY <1>1, LibraryStays
<1>4. \/ names'["live"] = names["staged"] /\ names'["staged"] = 0 /\ installed' = app.release
      \/ UNCHANGED <<names, installed>>
  BY <1>1 DEF StorageTypeOK, FileTypes, Paths
<1>5. StorageTypeOK'
  <2>1. AppTypes'
    BY <1>1, StorageBounds DEF AppTypes, AppSteps, AtRest
  <2>2. FileTypes'
    BY <1>1, <1>2 DEF StorageTypeOK, FileTypes, Paths, Releases
  <2>3. LibraryTypes' /\ QueueTypes'
    BY <1>1 DEF StorageTypeOK, LibraryTypes, QueueTypes
  <2> QED
    BY <2>1, <2>2, <2>3 DEF StorageTypeOK
<1>6. TorrentsOK'
  <2>1. \A t \in Torrents : ~AtHand(t)
    BY <1>1, <1>2 DEF TorrentsOK, Torrents
  <2> QED
    BY <1>1, <1>2, <2>1 DEF TorrentsOK, AtHand, State, Fetching
<1>7. AppOK'
  BY <1>1, <1>2, StorageBounds DEF AppOK, Fetching, StorageTypeOK, LibraryTypes
<1>8. OrderOK' /\ LandedOK'
  BY <1>2 DEF OrderOK, LandedOK, Landed, Fetching
<1>9. Cleared /\ Landed
  BY <1>1 DEF Cleared, Landed
<1>10. FilesOK'
  BY <1>1, <1>2, <1>4, <1>9 DEF FilesOK, LandedOK, Cleared, Afresh
<1>11. LiveIsInstalled' /\ ServedIsTrue'
  BY <1>1, <1>4, <1>9 DEF LandedOK, LiveIsInstalled, ServedIsTrue
<1> QED
  BY <1>3, <1>5, <1>6, <1>7, <1>8, <1>10, <1>11

-----------------------------------------------------------------------------
(* The queue and its worker. *)

(* A step that moves no job and answers none.                              *)
LEMMA QuietStep ==
  ASSUME StorageInv, QueueTypes', Queue' = Queue,
         UNCHANGED <<torrents, added, slots, located, destined, names, content, handles, app, installed,
                     served>>,
         worker'.step = "io" <=> worker.step = "io",
         worker.step = "io" => worker'.job = worker.job /\ worker'.path = worker.path
  PROVE  StorageInv'
<1> USE DEF StorageInv
<1>1. StorageTypeOK'
  BY DEF StorageTypeOK, LibraryTypes, FileTypes, AppTypes
<1>2. TorrentsOK' /\ AppOK' /\ MountsOK'
  BY DEF TorrentsOK, AtHand, State, Live, Fetching, AppOK, MountsOK
<1>3. JobsOK'
  BY DEF JobsOK, JobFits, State, Live
<1>4. OrderOK'
  BY DEF OrderOK, Own, Fetching
<1>5. IoOK'
  BY DEF IoOK, State, Live
<1>6. LandedOK'
  BY DEF LandedOK, Landed, Fetching
<1>7. FilesOK' /\ LiveIsInstalled' /\ ServedIsTrue'
  BY DEF FilesOK, Cleared, Afresh, LiveIsInstalled, ServedIsTrue
<1> QED
  BY <1>1, <1>2, <1>3, <1>4, <1>5, <1>6, <1>7

(* Waking the worker only moves jobs within the queue. *)
LEMMA SubmitStep ==
  ASSUME StorageInv, Submit
  PROVE  StorageInv'
<1> USE DEF StorageInv
<1>1. /\ ready' = ready \o jobs /\ jobs' = <<>> /\ worker' = Notified
      /\ UNCHANGED <<torrents, added, slots, located, destined, names, content, handles, app, installed,
                     served>>
  BY DEF Submit, tableVars, diskVars, appVars
<1>2. Queue' = Queue
  BY QueueSubmitted
<1>3. QueueTypes' /\ (worker'.step = "io" <=> worker.step = "io") /\ worker'.job = worker.job
      /\ worker'.path = worker.path
  BY <1>1 DEF StorageTypeOK, QueueTypes, Notified
<1> QED
  BY <1>1, <1>2, <1>3, QuietStep

(* The abort of the session keeps the invariant. *)
LEMMA AbortStep ==
  ASSUME StorageInv, Abort
  PROVE  StorageInv'
<1> USE DEF StorageInv
<1>1. /\ worker' = Notified
      /\ UNCHANGED <<jobs, ready, torrents, added, slots, located, destined, names, content, handles, app,
                     installed, served>>
  BY DEF Abort, tableVars, diskVars, appVars
<1>2. QueueTypes' /\ (worker'.step = "io" <=> worker.step = "io") /\ worker'.job = worker.job
      /\ worker'.path = worker.path
  BY <1>1 DEF StorageTypeOK, QueueTypes, Notified
<1>3. Queue' = Queue
  BY <1>1, <1>2 DEF Queue, AtWork
<1> QED
  BY <1>1, <1>2, <1>3, QuietStep

(* The end of the worker keeps the invariant: nothing is left to do. *)
LEMMA WorkerEndsStep ==
  ASSUME StorageInv, WorkerEnds
  PROVE  StorageInv'
<1> USE DEF StorageInv
<1>1. /\ worker.step = "look" /\ worker' = [worker EXCEPT !.step = "ended"]
      /\ UNCHANGED <<jobs, ready, torrents, added, slots, located, destined, names, content, handles, app,
                     installed, served>>
  BY DEF WorkerEnds, tableVars, diskVars, appVars
<1>2. QueueTypes' /\ worker'.step # "io" /\ worker.step # "io"
  BY <1>1 DEF StorageTypeOK, QueueTypes
<1>3. Queue' = Queue
  BY <1>1, <1>2 DEF Queue, AtWork
<1> QED
  BY <1>1, <1>2, <1>3, QuietStep
(* What an answer does to its torrent: nothing when that is gone, and no   *)
(* more than to settle its piece.                                          *)
LEMMA AnswerEffect ==
  ASSUME StorageTypeOK, NEW j \in JobRecords, j.of \in Torrents, NEW outcome, Answers(j, outcome), jobs' = jobs,
         ready' \in Seq(JobRecords)
  PROVE  /\ worker'.step # "io" /\ QueueTypes'
         /\ torrents' \in [Torrents -> TorrentRecords]
         /\ \A t \in Torrents :
              /\ torrents'[t].kind = torrents[t].kind /\ torrents'[t].release = torrents[t].release
              /\ torrents'[t].state = torrents[t].state /\ torrents'[t].slot = torrents[t].slot
              /\ torrents'[t].piece # torrents[t].piece => t = j.of /\ Live(t) /\ j.kind \in {"write", "hash"}
              /\ torrents'[t].piece = "passed" /\ torrents[t].piece # "passed" =>
                   j.kind = "hash" /\ outcome.block = torrents[t].release
         /\ \A t \in Torrents : t # j.of => torrents'[t] = torrents[t]
<1>1. worker' = Rested
  BY DEF Answers
<1>2. worker'.step \in {"look", "asleep"} /\ worker' = [step |-> worker'.step, job |-> NoJob, path |-> "none"]
  BY <1>1 DEF Rested, Idle
<1>3. QueueTypes'
  BY <1>2 DEF QueueTypes, StorageTypeOK
<1>4. PICK x \in Pieces : torrents' = [torrents EXCEPT ![j.of].piece = x] /\
        (x # torrents[j.of].piece => Live(j.of) /\ j.kind \in {"write", "hash"}) /\
        (x = "passed" /\ torrents[j.of].piece # "passed" =>
           j.kind = "hash" /\ outcome.block = torrents[j.of].release)
  <2>1. torrents \in [Torrents -> TorrentRecords] /\ torrents[j.of].piece \in Pieces
    BY DEF StorageTypeOK, LibraryTypes, TorrentRecords
  <2> DEFINE x == CASE Live(j.of) /\ j.kind = "write" ->
                         (IF outcome.is = "success" THEN "full" ELSE "missing")
                    [] Live(j.of) /\ j.kind = "hash" ->
                         (IF outcome.block = torrents[j.of].release THEN "passed" ELSE "missing")
                    [] OTHER -> torrents[j.of].piece
  <2>2. torrents' = [torrents EXCEPT ![j.of].piece = x]
    BY <2>1 DEF Answers, Live, State
  <2>3. CASE ~Live(j.of)
    <3>1. x = torrents[j.of].piece
      BY <2>3 DEF Answers, Live, State
    <3> QED
      BY <2>1, <2>2, <3>1
  <2>4. CASE Live(j.of) /\ j.kind = "write"
    BY <2>1, <2>2, <2>4 DEF Pieces
  <2>5. CASE Live(j.of) /\ j.kind = "hash"
    BY <2>1, <2>2, <2>5 DEF Pieces
  <2>6. CASE Live(j.of) /\ j.kind \notin {"write", "hash"}
    BY <2>1, <2>2, <2>6
  <2> QED
    BY <2>3, <2>4, <2>5, <2>6
<1>5. torrents \in [Torrents -> TorrentRecords]
  BY DEF StorageTypeOK, LibraryTypes
<1>6. torrents' \in [Torrents -> TorrentRecords]
  <2>1. [torrents[j.of] EXCEPT !.piece = x] \in TorrentRecords
    BY <1>5 DEF TorrentRecords
  <2> QED
    BY <1>4, <1>5, <2>1
<1>7. \A t \in Torrents : t # j.of => torrents'[t] = torrents[t]
  BY <1>4, <1>5
<1>8. /\ torrents'[j.of].kind = torrents[j.of].kind /\ torrents'[j.of].release = torrents[j.of].release
      /\ torrents'[j.of].state = torrents[j.of].state /\ torrents'[j.of].slot = torrents[j.of].slot
      /\ torrents'[j.of].piece = x
  BY <1>4, <1>5 DEF TorrentRecords
<1> QED
  BY <1>2, <1>3, <1>4, <1>6, <1>7, <1>8
(* The parts of the invariant an answer keeps, whatever the disk did for   *)
(* it: its job was the first of the queue.                                 *)
LEMMA AnswerKeeps ==
  ASSUME StorageInv, NEW j \in JobRecords, NEW outcome, Answers(j, outcome), Answered(j), jobs' = jobs,
         ready' \in Seq(JobRecords), UNCHANGED <<added, slots, located, destined, app, installed>>
  PROVE  /\ LibraryTypes' /\ QueueTypes' /\ AppTypes'
         /\ TorrentsOK' /\ AppOK' /\ MountsOK' /\ JobsOK' /\ OrderOK' /\ IoOK'
<1> USE DEF StorageInv
<1>1. Queue \in Seq(JobRecords) /\ Queue # <<>> /\ Queue[1] = j /\ Queue' = Tail(Queue) /\ Len(Queue) \in Nat
  BY QueueForm DEF Answered
<1>2. /\ Len(Queue) >= 1 /\ Len(Queue') = Len(Queue) - 1
      /\ \A i \in 1..Len(Queue') : i + 1 \in 1..Len(Queue) /\ Queue'[i] = Queue[i + 1]
  BY <1>1
<1>3. JobFits(j)
  BY <1>1, <1>2 DEF JobsOK
<1>4. 1..added \subseteq Torrents /\ j.of \in Torrents
  BY <1>3, StorageBounds DEF JobFits, StorageTypeOK, LibraryTypes, Torrents
<1>5. /\ worker'.step # "io" /\ QueueTypes'
      /\ torrents' \in [Torrents -> TorrentRecords]
      /\ \A t \in Torrents :
           /\ torrents'[t].kind = torrents[t].kind /\ torrents'[t].release = torrents[t].release
           /\ torrents'[t].state = torrents[t].state /\ torrents'[t].slot = torrents[t].slot
           /\ torrents'[t].piece # torrents[t].piece => t = j.of /\ Live(t) /\ j.kind \in {"write", "hash"}
      /\ \A t \in Torrents : t # j.of => torrents'[t] = torrents[t]
  BY <1>4, AnswerEffect
<1>6. LibraryTypes' /\ QueueTypes' /\ AppTypes'
  BY <1>5 DEF StorageTypeOK, LibraryTypes, AppTypes
<1>7. j.of <= added /\ State(j.of) # "added"
  BY <1>3 DEF JobFits
<1>8. TorrentsOK'
  <2>1. \A t \in Torrents : t > added => torrents'[t] = NoTorrent
    BY <1>5, <1>7, StorageBounds DEF TorrentsOK, Torrents, StorageTypeOK, LibraryTypes
  <2>2. \A t \in Torrents : State(t)' = "added" => torrents'[t].piece = "missing"
    BY <1>5, <1>7 DEF TorrentsOK, State
  <2>3. app.seed # 0 => app.seed \in Torrents
    BY StorageBounds DEF StorageTypeOK, AppTypes, Torrents
  <2> QED
    BY <1>4, <1>5, <2>1, <2>2, <2>3 DEF TorrentsOK, AtHand, State, Fetching
<1>9. AppOK'
  <2>1. Fetching => app.fetch \in Torrents
    BY <1>4 DEF TorrentsOK
  <2>2. Fetching /\ torrents[app.fetch].piece = "passed" => torrents'[app.fetch].piece = "passed"
    <3>1. SUFFICES ASSUME Fetching, torrents[app.fetch].piece = "passed", torrents'[app.fetch].piece # "passed"
                   PROVE  FALSE
      OBVIOUS
    <3>2. j.of = app.fetch /\ j.kind \in {"write", "hash"}
      BY <1>5, <2>1, <3>1
    <3>3. Own(Queue[1])
      BY <1>1, <3>2 DEF Own
    <3> QED
      BY <1>2, <3>1, <3>3 DEF OrderOK
  <2> QED
    BY <2>1, <2>2 DEF AppOK, Fetching
<1>10. MountsOK'
  BY <1>5 DEF MountsOK, State, Live
<1>11. JobsOK'
  <2>1. SUFFICES ASSUME NEW i \in 1..Len(Queue') PROVE JobFits(Queue[i])'
    BY DEF JobsOK
  <2>2. JobFits(Queue[i + 1]) /\ Queue'[i] = Queue[i + 1]
    BY <1>2 DEF JobsOK
  <2>3. Queue[i + 1].of \in Torrents
    BY <1>4, <2>2 DEF JobFits
  <2> QED
    BY <1>5, <2>2, <2>3 DEF JobFits, State, Live
<1>12. OrderOK'
  <2>1. SUFFICES ASSUME Fetching PROVE OrderOK'
    BY DEF OrderOK, Fetching
  <2>2. \A i \in 1..Len(Queue') : Own(Queue[i])' <=> Own(Queue[i + 1])
    BY <1>2 DEF Own
  <2>3. app.fetch \in Torrents
    BY <1>4, <2>1 DEF TorrentsOK
  <2>4. torrents'[app.fetch].piece # "asked" => \A i \in 1..Len(Queue') : ~Own(Queue[i])'
    <3>1. CASE torrents[app.fetch].piece # "asked"
      BY <1>2, <2>1, <2>2, <3>1 DEF OrderOK
    <3>2. CASE torrents[app.fetch].piece = "asked" /\ torrents'[app.fetch].piece # "asked"
      <4>1. Own(Queue[1])
        BY <1>1, <1>5, <2>3, <3>2 DEF Own
      <4>2. \A k \in 2..Len(Queue) : ~Own(Queue[k])
        BY <1>2, <1>1, <2>1, <4>1 DEF OrderOK
      <4> QED
        BY <1>1, <1>2, <2>2, <4>2
    <3> QED
      BY <3>1, <3>2
  <2>5. \A i, k \in 1..Len(Queue') : i < k /\ Own(Queue[i])' => ~Own(Queue[k])'
    <3>1. \A i, k \in 1..Len(Queue) : i < k /\ Own(Queue[i]) => ~Own(Queue[k])
      BY <2>1 DEF OrderOK
    <3> TAKE i, k \in 1..Len(Queue')
    <3>2. i + 1 \in 1..Len(Queue) /\ k + 1 \in 1..Len(Queue) /\ (i < k => i + 1 < k + 1)
      BY <1>2
    <3> QED
      BY <2>2, <3>1, <3>2
  <2>6. \A i, k \in 1..Len(Queue') :
          i < k /\ Own(Queue[i])' /\ Queue'[i].kind = "hash" => Queue'[k].kind # "write"
    BY <1>2, <2>1, <2>2 DEF OrderOK
  <2> QED
    BY <2>4, <2>5, <2>6 DEF OrderOK, Fetching
<1>13. IoOK'
  BY <1>5 DEF IoOK
<1> QED
  BY <1>6, <1>8, <1>9, <1>10, <1>11, <1>12, <1>13

(* What the disk found decides whether a fetch has landed: the bytes that  *)
(* pass are in the staged file, and no write is left to change them.       *)
LEMMA AnswerLands ==
  ASSUME StorageInv, NEW j \in JobRecords, NEW outcome, Answers(j, outcome), Answered(j), jobs' = jobs,
         ready' \in Seq(JobRecords), UNCHANGED <<added, app, installed>>,
         j.kind # "write" => UNCHANGED <<names, content>>,
         Live(j.of) /\ torrents[j.of].kind = "fetch" /\ j.kind = "hash" /\ outcome.block # 0 =>
           names["staged"] # 0 /\ content[names["staged"]] = outcome.block
  PROVE  LandedOK'
<1> USE DEF StorageInv
<1> SUFFICES ASSUME Landed' PROVE LandedOK'
  BY DEF LandedOK
<1>1. Queue \in Seq(JobRecords) /\ Queue # <<>> /\ Queue[1] = j /\ Queue' = Tail(Queue) /\ Len(Queue) \in Nat
  BY QueueForm DEF Answered
<1>2. /\ Len(Queue) >= 1 /\ Len(Queue') = Len(Queue) - 1
      /\ \A i \in 1..Len(Queue') : i + 1 \in 1..Len(Queue) /\ Queue'[i] = Queue[i + 1]
  BY <1>1
<1>3. j.of \in 1..added /\ 1..added \subseteq Torrents
  BY <1>1, <1>2, StorageBounds DEF JobsOK, JobFits, StorageTypeOK, LibraryTypes, Torrents
<1>4. worker'.step # "io"
  BY <1>3, AnswerEffect
<1>5. CASE Landed
  <2>1. /\ \A i \in 1..Len(Queue) : Queue[i].kind # "write"
        /\ names["staged"] # 0 /\ content[names["staged"]] = app.release
    BY <1>5 DEF LandedOK
  <2>2. j.kind # "write"
    BY <1>1, <1>2, <2>1
  <2> QED
    BY <1>2, <1>4, <2>1, <2>2 DEF LandedOK
<1>6. CASE ~Landed
  <2>1. Fetching /\ torrents[app.fetch].piece # "passed" /\ torrents'[app.fetch].piece = "passed"
    BY <1>6 DEF Landed, Fetching
  <2>2. app.fetch \in Torrents /\ torrents[app.fetch].kind = "fetch" /\ torrents[app.fetch].release = app.release
    BY <1>3, <2>1 DEF TorrentsOK
  <2>3. j.of = app.fetch /\ Live(j.of) /\ j.kind = "hash" /\ outcome.block = app.release
    BY <1>3, <2>1, <2>2, AnswerEffect
  <2>4. app.release # 0
    BY <2>1 DEF Fetching, AppOK, Releases
  <2>5. names'["staged"] # 0 /\ content'[names'["staged"]] = app.release
    BY <2>2, <2>3, <2>4
  <2>6. Own(Queue[1]) /\ Queue[1].kind = "hash"
    BY <1>1, <2>3 DEF Own
  <2>7. \A k \in 2..Len(Queue) : Queue[k].kind # "write"
    BY <1>1, <1>2, <2>1, <2>6 DEF OrderOK
  <2>8. \A i \in 1..Len(Queue') : Queue'[i].kind # "write"
    BY <1>1, <1>2, <2>7
  <2> QED
    BY <1>4, <2>5, <2>8 DEF LandedOK
<1> QED
  BY <1>5, <1>6

(* A peer that is answered gets the release of its torrent.                *)
LEMMA AnswerServes ==
  ASSUME StorageInv, NEW j \in JobRecords, NEW outcome, Answers(j, outcome),
         Live(j.of) /\ j.kind = "read" /\ outcome.is = "success" => outcome.block = torrents[j.of].release
  PROVE  ServedIsTrue'
<1>1. served' = served
  BY DEF Answers, Live, State
<1> QED
  BY <1>1 DEF StorageInv, ServedIsTrue
(* A job whose mount is gone, or whose file is not to be found, is         *)
(* answered at once; any other is at work on the path of its torrent.      *)
LEMMA TakeJobCases ==
  ASSUME StorageInv, TakeJob
  PROVE  \/ \E outcome : /\ Answers(Head(ready), outcome) /\ outcome.block = 0
                         /\ outcome.is = "success" => Head(ready).kind = "write"
         \/ /\ worker' = [step |-> "io", job |-> Head(ready), path |-> worker'.path]
            /\ worker'.path \in Paths /\ UNCHANGED <<torrents, served>>
            /\ LET role == slots[Head(ready).slot].role IN
                 /\ role = "SeedRead" => Head(ready).kind # "write" /\ located # {}
                 /\ worker'.path = IF role = "SeedRead" THEN "live" ELSE "staged"
<1> DEFINE j == Head(ready)
           m == Mounted(j.slot)
           r == torrents[m].release
           role == slots[j.slot].role
           path == IF role = "SeedRead" THEN "live" ELSE IF r \in destined THEN "staged" ELSE "aside"
<1>1. IF m = 0 THEN AnswersUnmounted(j)
      ELSE IF role = "SeedRead" /\ (r \notin located \/ j.kind = "write") THEN Answers(j, Fault)
      ELSE IF path = "aside" THEN Answers(j, IF j.kind = "write" THEN Success(0) ELSE Absent)
      ELSE worker' = [step |-> "io", job |-> j, path |-> path] /\ UNCHANGED <<torrents, pending, served>>
  BY DEF TakeJob
<1> HIDE DEF m, r, role, j
<1>2. CASE m = 0
  <2>1. Answers(j, Absent) \/ Answers(j, Fault)
    BY <1>1, <1>2 DEF AnswersUnmounted
  <2> QED
    BY <2>1 DEF Absent, Fault, j
<1>3. CASE m # 0 /\ role = "SeedRead" /\ (r \notin located \/ j.kind = "write")
  BY <1>1, <1>3 DEF Fault, j
<1>4. CASE m # 0 /\ ~(role = "SeedRead" /\ (r \notin located \/ j.kind = "write")) /\ path = "aside"
  <2>1. (j.kind = "write" /\ Answers(j, Success(0))) \/ Answers(j, Absent)
    BY <1>1, <1>4
  <2> QED
    BY <2>1 DEF Success, Absent, j
<1>5. CASE m # 0 /\ ~(role = "SeedRead" /\ (r \notin located \/ j.kind = "write")) /\ path # "aside"
  <2>1. worker' = [step |-> "io", job |-> j, path |-> path] /\ UNCHANGED <<torrents, served>>
    BY <1>1, <1>5
  <2> QED
    BY <1>5, <2>1 DEF j, m, role, Paths
<1> QED
  BY <1>2, <1>3, <1>4, <1>5

(* A job is refused, or its handle is found or opened, on the file its path names at that moment. *)
LEMMA TakeJobStep ==
  ASSUME StorageInv, TakeJob
  PROVE  StorageInv'
<1> USE DEF StorageInv
<1> DEFINE j == Head(ready)
<1>1. /\ worker.step = "look" /\ ready # <<>> /\ ready' = Tail(ready) /\ jobs' = jobs
      /\ UNCHANGED <<added, slots, located, destined, names, content, handles, app, installed>>
  BY DEF TakeJob, tableVars, diskVars, appVars
<1>2. j \in JobRecords /\ ready' \in Seq(JobRecords)
  BY <1>1 DEF StorageTypeOK, QueueTypes
<1>3. FileTypes' /\ FilesOK' /\ LiveIsInstalled'
  BY <1>1 DEF StorageTypeOK, FileTypes, FilesOK, Cleared, Afresh, LiveIsInstalled
<1>4. ASSUME NEW outcome, Answers(j, outcome), outcome.block = 0, outcome.is = "success" => j.kind = "write"
      PROVE  StorageInv'
  <2>1. worker'.step # "io"
    BY <1>4 DEF Answers, Rested, Idle
  <2>2. Answered(j)
    BY <1>1, <2>1, QueueRefused
  <2>3. /\ LibraryTypes' /\ QueueTypes' /\ AppTypes'
        /\ TorrentsOK' /\ AppOK' /\ MountsOK' /\ JobsOK' /\ OrderOK' /\ IoOK'
    BY <1>1, <1>2, <1>4, <2>2, AnswerKeeps
  <2>4. LandedOK'
    BY <1>1, <1>2, <1>4, <2>2, AnswerLands
  <2>5. j.kind = "write" => j.kind # "read"
    OBVIOUS
  <2>6. ServedIsTrue'
    BY <1>2, <1>4, <2>5, AnswerServes
  <2> QED
    BY <1>3, <2>3, <2>4, <2>6 DEF StorageTypeOK
<1>5. ASSUME worker' = [step |-> "io", job |-> j, path |-> worker'.path], worker'.path \in Paths,
             UNCHANGED <<torrents, served>>,
             slots[j.slot].role = "SeedRead" => j.kind # "write" /\ located # {},
             worker'.path = IF slots[j.slot].role = "SeedRead" THEN "live" ELSE "staged"
      PROVE  StorageInv'
  <2>1. Queue' = Queue /\ Queue # <<>> /\ Head(Queue) = j
    BY <1>1, <1>5, QueueTaken
  <2>2. Queue[1] = j /\ 1 \in 1..Len(Queue)
    BY <2>1, QueueForm
  <2>3. JobFits(j)
    BY <2>2 DEF JobsOK
  <2>4. QueueTypes'
    BY <1>1, <1>2, <1>5 DEF StorageTypeOK, QueueTypes
  <2>5. StorageTypeOK'
    BY <1>1, <1>3, <1>5, <2>4 DEF StorageTypeOK, LibraryTypes, AppTypes
  <2>6. TorrentsOK' /\ AppOK' /\ MountsOK'
    BY <1>1, <1>5 DEF TorrentsOK, AtHand, State, Live, Fetching, AppOK, MountsOK
  <2>7. JobsOK'
    BY <1>1, <1>5, <2>1 DEF JobsOK, JobFits, State, Live
  <2>8. OrderOK'
    BY <1>1, <1>5, <2>1 DEF OrderOK, Own, Fetching
  <2>9. j.of \in Torrents
    BY <2>3, StorageBounds DEF JobFits, StorageTypeOK, LibraryTypes, Torrents
  <2>10. IoOK'
    <3>1. Live(j.of) => slots[j.slot].role = IF torrents[j.of].kind = "seed" THEN "SeedRead" ELSE "FetchWrite"
      BY <2>3, <2>9 DEF JobFits, MountsOK, Live, State
    <3> QED
      BY <1>5, <3>1 DEF IoOK, Live, State
  <2>11. LandedOK'
    <3>1. SUFFICES ASSUME Landed' PROVE LandedOK'
      BY DEF LandedOK
    <3>2. Landed /\ app.seed = 0 /\ located = {}
      BY <1>1, <1>5, <3>1 DEF Landed, Fetching, AppOK
    <3>3. worker'.path # "live"
      BY <1>5, <3>2
    <3> QED
      BY <1>1, <1>5, <2>1, <3>2, <3>3 DEF LandedOK
  <2>12. ServedIsTrue'
    BY <1>5 DEF ServedIsTrue
  <2> QED
    BY <1>3, <2>5, <2>6, <2>7, <2>8, <2>10, <2>11, <2>12
<1> QED
  BY <1>4, <1>5, TakeJobCases
(* A read, of a peer or for a hash, answers what the file holds that the   *)
(* path's handle is on or that the path names, and writes nothing.         *)
LEMMA ReadEffect ==
  ASSUME FileTypes, NEW p \in Paths, p = worker.path, DoRead
  PROVE  \E f \in {handles[p].file, names[p]} :
           /\ Answers(worker.job, IF f # 0 THEN Success(content[f])
                                  ELSE IF p = "live" THEN Fault ELSE Absent)
           /\ UNCHANGED <<names, content>>
           /\ \A q \in Paths : q # p => handles'[q] = handles[q]
           /\ handles'[p] \in {handles[p], NoHandle, Open(names[p], FALSE)}
           /\ handles' \in [Paths -> [file : 0..4, writable : BOOLEAN]]
<1>1. PICK reuses \in Reuses(p, FALSE) :
        LET f == IF reuses THEN handles[p].file ELSE names[p] IN
        /\ handles' = [handles EXCEPT ![p] = IF reuses THEN @ ELSE IF f = 0 THEN NoHandle ELSE Open(f, FALSE)]
        /\ Answers(worker.job, IF f # 0 THEN Success(content[f]) ELSE IF p = "live" THEN Fault ELSE Absent)
        /\ UNCHANGED <<names, content>>
  BY DEF DoRead
<1>2. handles \in [Paths -> [file : 0..4, writable : BOOLEAN]] /\ names[p] \in 0..4
  BY DEF FileTypes
<1>3. NoHandle \in [file : 0..4, writable : BOOLEAN] /\ Open(names[p], FALSE) \in [file : 0..4, writable : BOOLEAN]
  BY <1>2 DEF NoHandle, Open
<1>4. CASE reuses
  <2>1. handles' = [handles EXCEPT ![p] = handles[p]]
    BY <1>1, <1>4
  <2>2. Answers(worker.job, IF handles[p].file # 0 THEN Success(content[handles[p].file])
                            ELSE IF p = "live" THEN Fault ELSE Absent)
    BY <1>1, <1>4
  <2>3. handles' = handles
    BY <1>2, <2>1
  <2> QED
    BY <1>1, <1>2, <2>2, <2>3
<1>5. CASE ~reuses
  <2>1. handles' = [handles EXCEPT ![p] = IF names[p] = 0 THEN NoHandle ELSE Open(names[p], FALSE)]
    BY <1>1, <1>5
  <2>2. Answers(worker.job, IF names[p] # 0 THEN Success(content[names[p]])
                            ELSE IF p = "live" THEN Fault ELSE Absent)
    BY <1>1, <1>5
  <2>3. /\ \A q \in Paths : q # p => handles'[q] = handles[q]
        /\ handles'[p] \in {handles[p], NoHandle, Open(names[p], FALSE)}
        /\ handles' \in [Paths -> [file : 0..4, writable : BOOLEAN]]
    BY <1>2, <1>3, <2>1
  <2> QED
    BY <1>1, <2>2, <2>3
<1> QED
  BY <1>4, <1>5

(* A file that is made is no file a path names or a handle is on.          *)
LEMMA NewFileIsNew ==
  ASSUME FileTypes, names["staged"] = 0
  PROVE  NewFile \in Files /\ \A p \in Paths : names[p] # NewFile /\ handles[p].file # NewFile
<1> DEFINE Used == {names["live"], handles["live"].file, handles["staged"].file}
<1>1. \E f \in Files : f \notin Used /\ \A g \in 1..(f - 1) : g \in Used
  <2>1. CASE 1 \notin Used
    BY <2>1 DEF Files
  <2>2. CASE 1 \in Used /\ 2 \notin Used
    BY <2>2 DEF Files
  <2>3. CASE 1 \in Used /\ 2 \in Used /\ 3 \notin Used
    BY <2>3 DEF Files
  <2>4. CASE 1 \in Used /\ 2 \in Used /\ 3 \in Used
    <3>1. 4 \notin Used
      BY <2>4
    <3> QED
      BY <2>4, <3>1 DEF Files
  <2> QED
    BY <2>1, <2>2, <2>3, <2>4
<1>2. \A f \in Files : f \in Used <=> \E p \in Paths : names[p] = f \/ handles[p].file = f
  BY DEF Paths, Files
<1>3. \E f \in Files :
        /\ \A p \in Paths : names[p] # f /\ handles[p].file # f
        /\ \A g \in 1..(f - 1) : \E p \in Paths : names[p] = g \/ handles[p].file = g
  <2>1. PICK f \in Files : f \notin Used /\ \A g \in 1..(f - 1) : g \in Used
    BY <1>1
  <2>2. \A p \in Paths : names[p] # f /\ handles[p].file # f
    BY <1>2, <2>1
  <2>3. \A g \in 1..(f - 1) : g \in Files
    BY DEF Files
  <2>4. \A g \in 1..(f - 1) : \E p \in Paths : names[p] = g \/ handles[p].file = g
    BY <1>2, <2>1, <2>3
  <2> QED
    BY <2>2, <2>4
<1> QED
  BY <1>3 DEF NewFile

(* A write leaves its block in the file the path's handle is on, or that   *)
(* the path names, or in one that is new.                                  *)
LEMMA WriteEffect ==
  ASSUME FileTypes, FilesOK, worker.path = "staged", DoWrite
  PROVE  \E f \in Files :
           /\ Answers(worker.job, Success(0))
           /\ \/ handles["staged"].writable /\ f = handles["staged"].file /\ names' = names
              \/ f = names["staged"] /\ names' = names
              \/ /\ \A p \in Paths : names[p] # f
                 /\ names["staged"] = 0 /\ names' = [names EXCEPT !["staged"] = f]
           /\ content' = [content EXCEPT ![f] = worker.job.block]
           /\ handles' = [handles EXCEPT !["staged"] = Open(f, TRUE)]
<1>1. PICK reuses \in Reuses("staged", TRUE) :
        LET f == IF reuses THEN handles["staged"].file
                 ELSE IF names["staged"] # 0 THEN names["staged"] ELSE NewFile IN
        /\ content' = [content EXCEPT ![f] = worker.job.block]
        /\ names' = IF reuses THEN names ELSE [names EXCEPT !["staged"] = f]
        /\ handles' = [handles EXCEPT !["staged"] = Open(f, TRUE)]
        /\ Answers(worker.job, Success(0))
  BY DEF DoWrite
<1>2. /\ names \in [Paths -> 0..4] /\ "staged" \in Paths
      /\ handles["staged"].file \in 0..4 /\ names["staged"] \in 0..4
  BY DEF FileTypes, Paths
<1>3. CASE reuses
  <2>1. reuses = (handles["staged"].file # 0 /\ (handles["staged"].writable \/ ~TRUE)) \/ reuses = FALSE
    BY Zenon DEF Reuses
  <2>2. handles["staged"].file # 0 /\ handles["staged"].writable
    BY <1>3, <2>1, Zenon
  <2>3. handles["staged"].file \in Files
    BY <1>2, <2>2 DEF Files
  <2> QED
    BY <1>1, <1>3, <2>2, <2>3
<1>4. CASE ~reuses /\ names["staged"] # 0
  <2>1. names["staged"] \in Files
    BY <1>2, <1>4 DEF Files
  <2>2. [names EXCEPT !["staged"] = names["staged"]] = names
    BY <1>2
  <2> QED
    BY <1>1, <1>4, <2>1, <2>2
<1>5. CASE ~reuses /\ names["staged"] = 0
  BY <1>1, <1>5, NewFileIsNew
<1> QED
  BY <1>3, <1>4, <1>5
(* A read or a check answers with the bytes of the file its handle has. *)
LEMMA ReadStep ==
  ASSUME StorageInv, Io, worker.job.kind # "write"
  PROVE  StorageInv'
<1> USE DEF StorageInv
<1> DEFINE j == worker.job
           p == worker.path
<1>1. /\ worker.step = "io" /\ DoRead
      /\ UNCHANGED <<added, slots, jobs, ready, located, destined, app, installed>>
  BY DEF Io, tableVars, appVars
<1>2. j \in JobRecords /\ p \in Paths /\ ready' \in Seq(JobRecords)
  BY <1>1 DEF StorageTypeOK, QueueTypes
<1> HIDE DEF j, p
<1>3. PICK f \in {handles[p].file, names[p]} :
        /\ Answers(j, IF f # 0 THEN Success(content[f]) ELSE IF p = "live" THEN Fault ELSE Absent)
        /\ UNCHANGED <<names, content>>
        /\ \A q \in Paths : q # p => handles'[q] = handles[q]
        /\ handles'[p] \in {handles[p], NoHandle, Open(names[p], FALSE)}
        /\ handles' \in [Paths -> [file : 0..4, writable : BOOLEAN]]
  BY <1>1, <1>2, ReadEffect DEF StorageTypeOK, j, p
<1> DEFINE outcome == IF f # 0 THEN Success(content[f]) ELSE IF p = "live" THEN Fault ELSE Absent
<1>4. /\ outcome.is = "success" => f # 0 /\ outcome.block = content[f]
      /\ outcome.block # 0 => f # 0 /\ outcome.block = content[f]
  BY DEF Success, Fault, Absent
<1> HIDE DEF outcome
<1>5. Answers(j, outcome) /\ worker'.step # "io"
  BY <1>3 DEF outcome, Answers, Rested, Idle
<1>6. Answered(j)
  BY <1>1, <1>5, QueueWorked DEF j
<1>7. JobFits(j) /\ j.of \in Torrents
  <2>1. Queue[1] = j /\ 1 \in 1..Len(Queue)
    BY <1>1, QueueFirst DEF j
  <2> QED
    BY <2>1, StorageBounds DEF JobsOK, JobFits, StorageTypeOK, LibraryTypes, Torrents
<1>8. Live(j.of) => p = IF torrents[j.of].kind = "seed" THEN "live" ELSE "staged"
  BY <1>1 DEF IoOK, j, p
<1>9. /\ LibraryTypes' /\ QueueTypes' /\ AppTypes'
      /\ TorrentsOK' /\ AppOK' /\ MountsOK' /\ JobsOK' /\ OrderOK' /\ IoOK'
  BY <1>1, <1>2, <1>5, <1>6, AnswerKeeps
<1>10. LandedOK'
  <2>1. ASSUME Live(j.of), torrents[j.of].kind = "fetch", j.kind = "hash", outcome.block # 0
        PROVE  names["staged"] # 0 /\ content[names["staged"]] = outcome.block
    <3>1. app.fetch = j.of /\ app.fetch # 0
      BY <1>7, <2>1 DEF TorrentsOK, AtHand, Live, State, Torrents
    <3>2. Afresh
      BY <3>1 DEF Afresh, AppOK
    <3>3. p = "staged"
      BY <1>8, <2>1
    <3>4. f = names["staged"]
      BY <1>4, <2>1, <3>2, <3>3 DEF FilesOK
    <3> QED
      BY <1>4, <2>1, <3>4
  <2> QED
    BY <1>1, <1>2, <1>3, <1>5, <1>6, <2>1, AnswerLands
<1>11. ServedIsTrue'
  <2>1. ASSUME Live(j.of), j.kind = "read", outcome.is = "success"
        PROVE  outcome.block = torrents[j.of].release
    <3>1. torrents[j.of].kind = "seed" /\ p = "live"
      BY <1>7, <1>8, <2>1 DEF JobFits
    <3>2. torrents[j.of].release = installed /\ installed # 0
      BY <1>7, <2>1, <3>1 DEF TorrentsOK, AtHand, Live, State
    <3>3. f = names["live"]
      BY <1>4, <2>1, <3>1 DEF FilesOK
    <3> QED
      BY <1>4, <2>1, <3>2, <3>3 DEF LiveIsInstalled
  <2> QED
    BY <1>2, <1>5, <2>1, AnswerServes
<1>12. FilesOK'
  <2>1. Cleared => p = "staged"
    <3>1. Cleared => Landed
      BY DEF Cleared, Landed, AppOK, Fetching
    <3> QED
      BY <1>1, <1>2, <3>1 DEF LandedOK, Paths, p
  <2>2. names["live"] # 0 => names["live"] # names["staged"]
    BY DEF FilesOK
  <2>3. handles'["staged"] = handles["staged"] \/ ~handles'["staged"].writable
    BY <1>2, <1>3 DEF Paths, NoHandle, Open
  <2>4. handles'["live"].file \in {0, names["live"]}
    BY <1>2, <1>3 DEF FilesOK, Paths, NoHandle, Open
  <2>5. Afresh => handles'["staged"].file \in {0, names["staged"]}
    BY <1>2, <1>3 DEF FilesOK, Paths, NoHandle, Open
  <2>6. Cleared => ~handles'["staged"].writable /\ handles'["live"].file = 0
    BY <1>2, <1>3, <2>1, <2>3 DEF FilesOK, Paths
  <2>7. (Cleared' <=> Cleared) /\ (Afresh' <=> Afresh)
    BY <1>1 DEF Cleared, Afresh
  <2>8. handles'["staged"].writable => handles'["staged"].file # names["live"] /\ handles'["staged"].file # 0
    BY <2>3 DEF FilesOK
  <2> QED
    BY <1>3, <2>2, <2>4, <2>5, <2>6, <2>7, <2>8 DEF FilesOK
<1>13. FileTypes' /\ LiveIsInstalled'
  BY <1>1, <1>3 DEF StorageTypeOK, FileTypes, LiveIsInstalled
<1> QED
  BY <1>9, <1>10, <1>11, <1>12, <1>13 DEF StorageTypeOK

(* A write goes to the file its handle has, which is the staged one. *)
LEMMA WriteStep ==
  ASSUME StorageInv, Io, worker.job.kind = "write"
  PROVE  StorageInv'
<1> USE DEF StorageInv
<1> DEFINE j == worker.job
<1>1. /\ worker.step = "io" /\ DoWrite
      /\ UNCHANGED <<added, slots, jobs, ready, located, destined, app, installed>>
  BY DEF Io, tableVars, appVars
<1>2. j \in JobRecords /\ ready' \in Seq(JobRecords) /\ j.block \in Nat
  BY <1>1 DEF StorageTypeOK, QueueTypes, JobRecords
<1> HIDE DEF j
<1>3. PICK f \in Files :
        /\ Answers(j, Success(0))
        /\ \/ handles["staged"].writable /\ f = handles["staged"].file /\ names' = names
           \/ f = names["staged"] /\ names' = names
           \/ /\ \A p \in Paths : names[p] # f
              /\ names["staged"] = 0 /\ names' = [names EXCEPT !["staged"] = f]
        /\ content' = [content EXCEPT ![f] = j.block]
        /\ handles' = [handles EXCEPT !["staged"] = Open(f, TRUE)]
  BY <1>1, WriteEffect DEF StorageTypeOK, IoOK, j
<1>4. worker'.step # "io"
  BY <1>3 DEF Answers, Rested, Idle
<1>5. Answered(j)
  BY <1>1, <1>4, QueueWorked DEF j
<1>6. j.kind = "write" /\ ~Landed
  <2>1. Queue[1] = j /\ 1 \in 1..Len(Queue)
    BY <1>1, QueueFirst DEF j
  <2> QED
    BY <2>1 DEF LandedOK, j
<1>7. ~Cleared
  BY <1>6 DEF Cleared, Landed, AppOK, Fetching
<1>8. /\ names'["live"] = names["live"] /\ f # names["live"] /\ f # 0
      /\ names' \in [Paths -> 0..4]
  <2>1. names \in [Paths -> 0..4] /\ f # 0 /\ f \in 0..4
    BY DEF StorageTypeOK, FileTypes, Files
  <2>2. CASE handles["staged"].writable /\ f = handles["staged"].file /\ names' = names
    BY <2>1, <2>2 DEF FilesOK
  <2>3. CASE f = names["staged"] /\ names' = names
    BY <2>1, <2>3 DEF FilesOK
  <2>4. CASE (\A p \in Paths : names[p] # f) /\ names["staged"] = 0 /\ names' = [names EXCEPT !["staged"] = f]
    BY <2>1, <2>4 DEF Paths
  <2> QED
    BY <1>3, <2>2, <2>3, <2>4
<1>9. Afresh => names'["staged"] = f
  <2>1. CASE handles["staged"].writable /\ f = handles["staged"].file /\ names' = names
    BY <1>8, <2>1 DEF FilesOK
  <2>2. CASE f = names["staged"] /\ names' = names
    BY <2>2
  <2>3. CASE names' = [names EXCEPT !["staged"] = f]
    BY <2>3 DEF StorageTypeOK, FileTypes, Paths
  <2> QED
    BY <1>3, <2>1, <2>2, <2>3
<1>10. names'["live"] # 0 => names'["live"] # names'["staged"]
  <2>1. names'["staged"] \in {names["staged"], f}
    BY <1>3 DEF StorageTypeOK, FileTypes, Paths
  <2> QED
    BY <1>8, <2>1 DEF FilesOK
<1>11. /\ handles'["staged"].file = f /\ handles'["live"] = handles["live"]
       /\ handles' \in [Paths -> [file : 0..4, writable : BOOLEAN]]
  BY <1>3 DEF StorageTypeOK, FileTypes, Paths, Open, Files
<1>12. /\ LibraryTypes' /\ QueueTypes' /\ AppTypes'
       /\ TorrentsOK' /\ AppOK' /\ MountsOK' /\ JobsOK' /\ OrderOK' /\ IoOK'
  BY <1>1, <1>2, <1>3, <1>5, AnswerKeeps
<1>13. LandedOK'
  BY <1>1, <1>2, <1>3, <1>5, <1>6, AnswerLands
<1>14. ServedIsTrue'
  BY <1>2, <1>3, <1>6, AnswerServes
<1>15. FilesOK'
  <2>1. (Cleared' <=> Cleared) /\ (Afresh' <=> Afresh)
    BY <1>1 DEF Cleared, Afresh
  <2>2. handles'["live"].file \in {0, names'["live"]}
    BY <1>8, <1>11 DEF FilesOK
  <2> QED
    BY <1>7, <1>8, <1>9, <1>10, <1>11, <2>1, <2>2 DEF FilesOK
<1>16. FileTypes'
  BY <1>1, <1>2, <1>3, <1>8, <1>11 DEF StorageTypeOK, FileTypes
<1>17. LiveIsInstalled'
  BY <1>1, <1>3, <1>8 DEF LiveIsInstalled, StorageTypeOK, FileTypes, Files
<1> QED
  BY <1>12, <1>13, <1>14, <1>15, <1>16, <1>17 DEF StorageTypeOK
-----------------------------------------------------------------------------
(* libtorrent's steps.                                                     *)

(* It asks for a job.                                                      *)
LEMMA AskStep ==
  ASSUME StorageInv, NEW t \in Torrents, NEW kind \in Kinds, Ask(t, kind)
  PROVE  StorageInv'
<1> USE DEF StorageInv
<1> DEFINE w == kind = "write"
           j == [kind |-> kind, of |-> t, slot |-> torrents[t].slot, block |-> torrents[t].release,
                 tracked |-> w]
           x == IF kind = "read" THEN torrents[t].piece ELSE "asked"
           n == IF kind = "hash" THEN torrents[t].asked ELSE torrents[t].asked + 1
<1>0. /\ Live(t) /\ jobs' = Append(jobs, j)
      /\ torrents' = [torrents EXCEPT ![t].asked = n, ![t].piece = x]
  BY DEF Ask, Live, State, Kinds
<1>1. /\ Live(t)
      /\ kind = "read" => torrents[t].kind = "seed" /\ torrents[t].piece = "passed"
      /\ kind = "write" => torrents[t].kind = "fetch" /\ torrents[t].piece = "missing"
      /\ kind = "hash" => torrents[t].piece = "full"
      /\ UNCHANGED <<added, slots, ready, worker, located, destined, names, content, handles, app, installed,
                     served>>
  BY DEF Ask, Live, State, Kinds, tableVars, diskVars, appVars
<1>2. torrents \in [Torrents -> TorrentRecords] /\ torrents[t] \in TorrentRecords
  BY DEF StorageTypeOK, LibraryTypes
<1>3. j \in JobRecords
  <2>1. w \in BOOLEAN
    OBVIOUS
  <2> HIDE DEF w
  <2> QED
    BY <1>2, <2>1 DEF JobRecords, TorrentRecords, Torrents
<1>4. x \in Pieces /\ n \in Nat
  BY <1>2 DEF TorrentRecords, Pieces
<1> HIDE DEF x, n
<1>5. torrents'[t] = [kind |-> torrents[t].kind, release |-> torrents[t].release, state |-> torrents[t].state,
                      slot |-> torrents[t].slot, piece |-> x, asked |-> n]
  BY <1>0, <1>2 DEF TorrentRecords
<1>6. /\ torrents' \in [Torrents -> TorrentRecords]
      /\ \A u \in Torrents : u # t => torrents'[u] = torrents[u]
  <2>1. torrents'[t] \in TorrentRecords
    BY <1>2, <1>4, <1>5 DEF TorrentRecords
  <2>2. torrents' = [torrents EXCEPT ![t] = torrents'[t]]
    BY <1>0, <1>2
  <2> QED
    BY <1>2, <2>1, <2>2
<1>7. \A u \in Torrents :
        /\ torrents'[u].kind = torrents[u].kind /\ torrents'[u].release = torrents[u].release
        /\ torrents'[u].state = torrents[u].state /\ torrents'[u].slot = torrents[u].slot
        /\ u # t => torrents'[u].piece = torrents[u].piece
  BY <1>5, <1>6
<1>8. Queue' = Append(Queue, j) /\ Queue \in Seq(JobRecords) /\ Len(Queue) \in Nat
  BY <1>0, <1>1, <1>3, QueueAsked, QueueForm
<1>9. /\ Len(Queue') = Len(Queue) + 1 /\ Queue'[Len(Queue) + 1] = j
      /\ \A i \in 1..Len(Queue) : Queue'[i] = Queue[i]
  BY <1>3, <1>8
<1>10. t <= added /\ added \in Nat /\ t \in 1..added /\ 1..added \subseteq Torrents
  BY <1>1, StorageBounds DEF TorrentsOK, Live, State, NoTorrent, Torrents, StorageTypeOK,
     LibraryTypes
<1>11. torrents[t].kind = "fetch" => app.fetch = t
  BY <1>1 DEF TorrentsOK, AtHand, Live, State
<1>12. /\ j.of = t /\ j.kind = kind /\ j.slot = torrents[t].slot
  OBVIOUS
<1> HIDE DEF j
<1>13. StorageTypeOK'
  <2>1. LibraryTypes' /\ FileTypes' /\ AppTypes'
    BY <1>1, <1>6 DEF StorageTypeOK, LibraryTypes, FileTypes, AppTypes
  <2>2. QueueTypes'
    BY <1>0, <1>1, <1>3 DEF StorageTypeOK, QueueTypes
  <2> QED
    BY <2>1, <2>2 DEF StorageTypeOK
<1>14. TorrentsOK'
  <2>1. \A u \in Torrents : u > added' => torrents'[u] = NoTorrent
    BY <1>1, <1>6, <1>10 DEF TorrentsOK, Torrents
  <2>2. \A u \in Torrents : State(u)' = "added" => torrents'[u].piece = "missing"
    BY <1>1, <1>7 DEF TorrentsOK, State, Live
  <2>3. app.seed # 0 => app.seed \in Torrents
    BY StorageBounds DEF StorageTypeOK, AppTypes, Torrents
  <2>4. \A u \in Torrents : AtHand(u)' <=> AtHand(u)
    BY <1>7 DEF AtHand, State
  <2>5. /\ \A u \in Torrents : AtHand(u)' => torrents'[u].kind \in {"seed", "fetch"}
        /\ \A u \in Torrents : AtHand(u)' /\ torrents'[u].kind = "seed" =>
             app.seed = u /\ app.step = "free" /\ torrents'[u].release = installed /\ installed # 0
        /\ \A u \in Torrents : AtHand(u)' /\ torrents'[u].kind = "fetch" => app.fetch = u
    BY <1>7, <2>4 DEF TorrentsOK
  <2>6. app.step = "free" /\ app.seed # 0 => AtHand(app.seed)' /\ torrents'[app.seed].kind = "seed"
    BY <1>1, <1>7, <2>3 DEF TorrentsOK, AtHand, State
  <2>7. Fetching => /\ app.fetch \in 1..added /\ AtHand(app.fetch)' /\ torrents'[app.fetch].kind = "fetch"
                    /\ torrents'[app.fetch].release = app.release
    BY <1>1, <1>7, <1>10 DEF TorrentsOK, AtHand, State
  <2> QED
    BY <1>1, <2>1, <2>2, <2>5, <2>6, <2>7 DEF TorrentsOK, Fetching
<1>15. Fetching /\ torrents[app.fetch].piece = "passed" => torrents'[app.fetch].piece = "passed"
  <2>1. SUFFICES ASSUME Fetching, torrents[app.fetch].piece = "passed" PROVE torrents'[app.fetch].piece = "passed"
    OBVIOUS
  <2>2. app.fetch \in Torrents /\ torrents[app.fetch].kind = "fetch"
    BY <1>10, <2>1 DEF TorrentsOK
  <2>3. app.fetch = t => kind \notin {"read", "write", "hash"}
    BY <1>1, <2>1, <2>2
  <2> QED
    BY <1>7, <2>1, <2>2, <2>3 DEF Kinds
<1>16. AppOK'
  BY <1>1, <1>15 DEF AppOK, Fetching
<1>17. MountsOK'
  BY <1>1, <1>7 DEF MountsOK, State, Live
<1>18. JobsOK'
  <2>1. SUFFICES ASSUME NEW i \in 1..Len(Queue') PROVE JobFits(Queue[i])'
    BY DEF JobsOK
  <2>2. CASE i \in 1..Len(Queue)
    <3>1. JobFits(Queue[i]) /\ Queue'[i] = Queue[i]
      BY <1>9, <2>2 DEF JobsOK
    <3>2. Queue[i].of \in Torrents
      BY <1>10, <3>1 DEF JobFits
    <3> QED
      BY <1>1, <1>7, <3>1, <3>2 DEF JobFits, State, Live
  <2>3. CASE i = Len(Queue) + 1
    BY <1>1, <1>7, <1>9, <1>10, <1>12, <2>3 DEF JobFits, State, Live
  <2> QED
    BY <1>8, <1>9, <2>2, <2>3
<1>19. \A i \in 1..Len(Queue) : Queue'[i] = Queue[i] /\ (Own(Queue[i])' <=> Own(Queue[i]))
  BY <1>1, <1>9 DEF Own
<1>20. OrderOK'
  <2>1. SUFFICES ASSUME Fetching PROVE OrderOK'
    BY <1>1 DEF OrderOK, Fetching
  <2>2. app.fetch \in Torrents /\ torrents[app.fetch].kind = "fetch"
    BY <1>10, <2>1 DEF TorrentsOK
  <2>3. CASE t = app.fetch
    <3>1. x = "asked" /\ torrents[t].piece # "asked"
      BY <1>1, <2>2, <2>3 DEF Kinds, x
    <3>2. \A i \in 1..Len(Queue) : ~Own(Queue[i])'
      BY <1>19, <2>1, <2>3, <3>1 DEF OrderOK
    <3>3. \A i \in 1..Len(Queue') : Own(Queue[i])' => i = Len(Queue')
      BY <1>8, <1>9, <3>2
    <3>4. torrents'[app.fetch].piece = "asked"
      BY <1>5, <2>2, <2>3, <3>1
    <3> QED
      BY <1>1, <1>8, <1>9, <3>3, <3>4 DEF OrderOK
  <2>4. CASE t # app.fetch
    <3>1. \A i \in 1..Len(Queue') : Own(Queue[i])' => i \in 1..Len(Queue) /\ Own(Queue[i])
      BY <1>1, <1>8, <1>9, <1>12, <1>19, <2>4 DEF Own
    <3>2. kind # "write"
      BY <1>1, <1>11, <2>4
    <3>3. torrents'[app.fetch].piece = torrents[app.fetch].piece
      BY <1>7, <2>2, <2>4
    <3>4. torrents'[app.fetch].piece # "asked" => \A i \in 1..Len(Queue') : ~Own(Queue[i])'
      BY <2>1, <3>1, <3>3 DEF OrderOK
    <3>5. \A i, k \in 1..Len(Queue') : i < k /\ Own(Queue[i])' => ~Own(Queue[k])'
      BY <2>1, <3>1 DEF OrderOK
    <3>6. \A i, k \in 1..Len(Queue') :
            i < k /\ Own(Queue[i])' /\ Queue'[i].kind = "hash" => Queue'[k].kind # "write"
      <4>1. \A i \in 1..Len(Queue') : Queue'[i].kind = "write" => i \in 1..Len(Queue)
        BY <1>8, <1>9, <1>12, <3>2
      <4>2. \A i, k \in 1..Len(Queue) : i < k /\ Own(Queue[i]) /\ Queue[i].kind = "hash" => Queue[k].kind # "write"
        BY <2>1 DEF OrderOK
      <4> QED
        BY <1>9, <3>1, <4>1, <4>2
    <3> QED
      BY <1>1, <3>4, <3>5, <3>6 DEF OrderOK, Fetching
  <2> QED
    BY <2>3, <2>4
<1>21. IoOK'
  <2>1. CASE worker.step = "io"
    <3>1. worker.job.of \in Torrents
      <4>1. Queue[1] = worker.job /\ 1 \in 1..Len(Queue)
        BY <2>1, QueueFirst
      <4> QED
        BY <1>10, <4>1 DEF JobsOK, JobFits
    <3> QED
      BY <1>1, <1>7, <3>1 DEF IoOK, State, Live
  <2> QED
    BY <1>1, <2>1 DEF IoOK
<1>22. LandedOK'
  <2>1. SUFFICES ASSUME Landed' PROVE LandedOK'
    BY DEF LandedOK
  <2>2. Landed /\ kind # "write"
    <3>1. CASE app.step = "swap"
      <4>1. app.fetch = 0
        BY <3>1 DEF AppOK
      <4>2. kind # "write"
        BY <1>1, <1>11, <4>1, StorageBounds DEF Torrents
      <4> QED
        BY <3>1, <4>2 DEF Landed
    <3>2. CASE app.step # "swap"
      <4>1. Fetching /\ torrents'[app.fetch].piece = "passed"
        BY <1>1, <2>1, <3>2 DEF Landed, Fetching
      <4>2. app.fetch \in Torrents /\ torrents[app.fetch].kind = "fetch"
        BY <1>10, <4>1 DEF TorrentsOK
      <4>3. app.fetch # t
        BY <1>1, <1>5, <4>1, <4>2 DEF Kinds, x
      <4> QED
        BY <1>1, <1>7, <1>11, <4>1, <4>2, <4>3 DEF Landed
    <3> QED
      BY <3>1, <3>2
  <2> QED
    BY <1>1, <1>8, <1>9, <1>12, <2>2 DEF LandedOK
<1>23. FilesOK' /\ LiveIsInstalled' /\ ServedIsTrue'
  BY <1>1 DEF FilesOK, Cleared, Afresh, LiveIsInstalled, ServedIsTrue
<1> QED
  BY <1>13, <1>14, <1>16, <1>17, <1>18, <1>20, <1>21, <1>22, <1>23
(* A torrent is mounted, as what it is for.                                *)
LEMMA MountStep ==
  ASSUME StorageInv, NEW t \in Torrents, NEW checked \in BOOLEAN, Mount(t, checked)
  PROVE  StorageInv'
<1> USE DEF StorageInv
<1> DEFINE i == FreeSlot
           n == Len(slots)
           mount == [of |-> t, role |-> Role(torrents[t].release), mounted |-> TRUE]
<1>1. /\ State(t) = "added"
      /\ slots' = IF i > n THEN Append(slots, mount) ELSE [slots EXCEPT ![i] = mount]
      /\ UNCHANGED <<added, jobs, ready, worker, located, destined, names, content, handles, app, installed,
                     served>>
  BY DEF Mount, State, queueVars, tableVars, diskVars, appVars
<1>2. PICK x \in {"full", "passed", "missing"} :
        /\ torrents' = [torrents EXCEPT ![t].state = "mounted", ![t].slot = i, ![t].piece = x]
        /\ x = "passed" => Role(torrents[t].release) = "SeedRead"
  <2>1. CASE checked
    BY <2>1 DEF Mount
  <2>2. CASE ~checked /\ Role(torrents[t].release) = "SeedRead"
    BY <2>2 DEF Mount
  <2>3. CASE ~checked /\ Role(torrents[t].release) # "SeedRead"
    BY <2>3 DEF Mount
  <2> QED
    BY <2>1, <2>2, <2>3
<1>3. /\ i \in 1..(n + 1) /\ n \in Nat /\ slots \in Seq(SlotRecords)
      /\ i = n + 1 \/ ~slots[i].mounted
  BY FreeSlotIsFree DEF StorageTypeOK, LibraryTypes
<1>4. mount \in SlotRecords
  BY DEF Role, SlotRecords
<1> HIDE DEF i, n, mount
<1>5. /\ slots' \in Seq(SlotRecords) /\ slots'[i] = mount /\ i \in DOMAIN slots' /\ i \in Nat
      /\ \A s \in DOMAIN slots : s \in DOMAIN slots' /\ (s # i => slots'[s] = slots[s])
      /\ \A s \in DOMAIN slots' : s # i => s \in DOMAIN slots
  <2>1. CASE i > n
    <3>1. slots' = Append(slots, mount) /\ i = n + 1
      BY <1>1, <1>3, <2>1
    <3> QED
      BY <1>3, <1>4, <3>1 DEF n
  <2>2. CASE ~(i > n)
    <3>1. slots' = [slots EXCEPT ![i] = mount] /\ i \in 1..n
      BY <1>1, <1>3, <2>2
    <3> QED
      BY <1>3, <1>4, <3>1 DEF n
  <2> QED
    BY <2>1, <2>2
<1>6. \A s \in DOMAIN slots : slots[s].mounted => s # i
  BY <1>3 DEF n
<1>7. torrents \in [Torrents -> TorrentRecords] /\ torrents[t] \in TorrentRecords
  BY DEF StorageTypeOK, LibraryTypes
<1>8. torrents'[t] = [kind |-> torrents[t].kind, release |-> torrents[t].release, state |-> "mounted",
                      slot |-> i, piece |-> x, asked |-> torrents[t].asked]
  BY <1>2, <1>7 DEF TorrentRecords
<1>9. /\ torrents' \in [Torrents -> TorrentRecords]
      /\ \A u \in Torrents : u # t => torrents'[u] = torrents[u]
  <2>1. torrents'[t] \in TorrentRecords
    BY <1>5, <1>7, <1>8 DEF TorrentRecords, Pieces
  <2>2. torrents' = [torrents EXCEPT ![t] = torrents'[t]]
    BY <1>2, <1>7
  <2> QED
    BY <1>7, <2>1, <2>2
<1>10. \A u \in Torrents : torrents'[u].kind = torrents[u].kind /\ torrents'[u].release = torrents[u].release
  BY <1>8, <1>9
<1>11. torrents'[t].state = "mounted" /\ torrents'[t].slot = i /\ torrents'[t].piece = x
  BY <1>8
<1>12. /\ t <= added /\ torrents[t].piece = "missing" /\ added \in Nat /\ 1..added \subseteq Torrents
       /\ torrents[t].kind \in {"seed", "fetch"}
  BY <1>1, StorageBounds DEF TorrentsOK, AtHand, State, NoTorrent, Torrents, StorageTypeOK,
     LibraryTypes
<1>13. mount.role = (IF torrents[t].kind = "seed" THEN "SeedRead" ELSE "FetchWrite") /\ mount.mounted
       /\ mount.of = t
  <2>1. CASE torrents[t].kind = "seed"
    <3>1. app.seed = t /\ torrents[t].release = installed
      BY <1>1, <2>1 DEF TorrentsOK, AtHand
    <3>2. located = {installed}
      BY <3>1, StorageBounds DEF AppOK, Torrents
    <3> QED
      BY <2>1, <3>1, <3>2 DEF mount, Role
  <2>2. CASE torrents[t].kind = "fetch"
    <3>1. app.fetch = t /\ app.fetch # 0
      BY <1>1, <2>2, StorageBounds DEF TorrentsOK, AtHand, Torrents
    <3>2. located = {}
      BY <3>1 DEF AppOK
    <3> QED
      BY <2>2, <3>2 DEF mount, Role
  <2> QED
    BY <1>12, <2>1, <2>2
<1>14. Queue' = Queue
  BY <1>1, QueueSame
<1>15. StorageTypeOK'
  <2>1. LibraryTypes'
    BY <1>1, <1>5, <1>9 DEF StorageTypeOK, LibraryTypes
  <2>2. QueueTypes' /\ FileTypes' /\ AppTypes'
    BY <1>1 DEF StorageTypeOK, QueueTypes, FileTypes, AppTypes
  <2> QED
    BY <2>1, <2>2 DEF StorageTypeOK
<1>16. \A u \in Torrents : AtHand(u)' <=> AtHand(u)
  BY <1>1, <1>9, <1>11 DEF AtHand, State
<1>17. TorrentsOK'
  <2>1. \A u \in Torrents : u > added' => torrents'[u] = NoTorrent
    BY <1>1, <1>9, <1>12 DEF TorrentsOK, Torrents
  <2>2. \A u \in Torrents : State(u)' = "added" => torrents'[u].piece = "missing"
    BY <1>9, <1>11 DEF TorrentsOK, State
  <2>3. app.seed # 0 => app.seed \in Torrents
    BY StorageBounds DEF StorageTypeOK, AppTypes, Torrents
  <2>4. /\ \A u \in Torrents : AtHand(u)' => torrents'[u].kind \in {"seed", "fetch"}
        /\ \A u \in Torrents : AtHand(u)' /\ torrents'[u].kind = "seed" =>
             app.seed = u /\ app.step = "free" /\ torrents'[u].release = installed /\ installed # 0
        /\ \A u \in Torrents : AtHand(u)' /\ torrents'[u].kind = "fetch" => app.fetch = u
    BY <1>10, <1>16 DEF TorrentsOK
  <2>5. app.step = "free" /\ app.seed # 0 => AtHand(app.seed)' /\ torrents'[app.seed].kind = "seed"
    BY <1>1, <1>10, <1>16, <2>3 DEF TorrentsOK
  <2>6. Fetching => /\ app.fetch \in 1..added /\ AtHand(app.fetch)' /\ torrents'[app.fetch].kind = "fetch"
                    /\ torrents'[app.fetch].release = app.release
    BY <1>1, <1>10, <1>12, <1>16 DEF TorrentsOK
  <2> QED
    BY <1>1, <2>1, <2>2, <2>4, <2>5, <2>6 DEF TorrentsOK, Fetching
<1>18. \A u \in Torrents : u # t \/ torrents[u].kind = "fetch" =>
         /\ torrents'[u].piece = "passed" <=> torrents[u].piece = "passed"
         /\ torrents'[u].piece = "asked" <=> torrents[u].piece = "asked"
  BY <1>2, <1>9, <1>11, <1>12, <1>13 DEF mount
<1>19. Fetching => app.fetch \in Torrents /\ torrents[app.fetch].kind = "fetch"
  BY <1>12 DEF TorrentsOK
<1>20. AppOK'
  BY <1>1, <1>18, <1>19 DEF AppOK, Fetching
<1>21. MountsOK'
  <2>1. \A u \in Torrents : u # t /\ State(u) \in {"mounted", "removed"} =>
          torrents[u].slot \in DOMAIN slots /\ torrents[u].slot # i
    BY <1>6 DEF MountsOK
  <2>2. \A u \in Torrents : State(u)' \in {"mounted", "removed"} =>
          /\ torrents'[u].slot \in DOMAIN slots'
          /\ slots'[torrents'[u].slot].mounted /\ slots'[torrents'[u].slot].of = u
          /\ slots'[torrents'[u].slot].role = IF torrents'[u].kind = "seed" THEN "SeedRead" ELSE "FetchWrite"
    <3> TAKE u \in Torrents
    <3>1. CASE u = t
      BY <1>5, <1>10, <1>11, <1>13, <3>1
    <3>2. CASE u # t
      BY <1>5, <1>9, <2>1, <3>2 DEF MountsOK, State
    <3> QED
      BY <3>1, <3>2
  <2>3. \A s \in DOMAIN slots : slots[s].mounted =>
          /\ slots[s].of \in Torrents /\ slots[s].of # t
          /\ State(slots[s].of) \in {"mounted", "removed"} /\ torrents[slots[s].of].slot = s
    BY <1>1 DEF MountsOK
  <2>4. \A s \in DOMAIN slots' : slots'[s].mounted =>
          /\ slots'[s].of \in Torrents
          /\ State(slots[s].of)' \in {"mounted", "removed"} /\ torrents'[slots'[s].of].slot = s
    <3> TAKE s \in DOMAIN slots'
    <3>1. CASE s = i
      BY <1>5, <1>11, <1>13, <3>1 DEF State
    <3>2. CASE s # i
      BY <1>5, <1>9, <2>3, <3>2 DEF State
    <3> QED
      BY <3>1, <3>2
  <2> QED
    BY <2>2, <2>4 DEF MountsOK
<1>22. JobsOK'
  <2>1. SUFFICES ASSUME NEW k \in 1..Len(Queue) PROVE JobFits(Queue[k])'
    BY <1>14 DEF JobsOK
  <2>2. JobFits(Queue[k]) /\ Queue[k].of \in Torrents
    BY <1>12 DEF JobsOK, JobFits
  <2>3. Queue[k].of # t
    BY <1>1, <2>2 DEF JobFits
  <2> QED
    BY <1>1, <1>9, <1>14, <2>2, <2>3 DEF JobFits, State, Live
<1>23. OrderOK'
  <2>1. Fetching => (torrents'[app.fetch].piece = "asked" <=> torrents[app.fetch].piece = "asked")
    BY <1>18, <1>19
  <2> QED
    BY <1>1, <1>14, <2>1 DEF OrderOK, Own, Fetching
<1>24. IoOK'
  <2>1. CASE worker.step = "io"
    <3>1. worker.job.of \in Torrents /\ State(worker.job.of) # "added"
      <4>1. Queue[1] = worker.job /\ 1 \in 1..Len(Queue)
        BY <2>1, QueueFirst
      <4> QED
        BY <1>12, <4>1 DEF JobsOK, JobFits
    <3>2. worker.job.of # t
      BY <1>1, <3>1
    <3> QED
      BY <1>1, <1>9, <3>1, <3>2 DEF IoOK, State, Live
  <2> QED
    BY <1>1, <2>1 DEF IoOK
<1>25. LandedOK'
  <2>1. Landed' => Landed
    BY <1>1, <1>18, <1>19 DEF Landed, Fetching
  <2> QED
    BY <1>1, <1>14, <2>1 DEF LandedOK
<1>26. FilesOK' /\ LiveIsInstalled' /\ ServedIsTrue'
  BY <1>1 DEF FilesOK, Cleared, Afresh, LiveIsInstalled, ServedIsTrue
<1> QED
  BY <1>15, <1>17, <1>20, <1>21, <1>22, <1>23, <1>24, <1>25, <1>26
(* libtorrent lets go of a torrent that was removed.                       *)
LEMMA StopTorrentStep ==
  ASSUME StorageInv, NEW t \in Torrents, StopTorrent(t)
  PROVE  StorageInv'
<1> USE DEF StorageInv
<1> DEFINE i == torrents[t].slot
<1>1. /\ State(t) = "removed" /\ torrents' = [torrents EXCEPT ![t] = Gone]
      /\ slots' = [slots EXCEPT ![i].mounted = FALSE] /\ handles' = Released
      /\ UNCHANGED <<added, jobs, ready, worker, located, destined, names, content, app, installed, served>>
  BY DEF StopTorrent, State, queueVars, tableVars, appVars
<1>2. torrents \in [Torrents -> TorrentRecords] /\ slots \in Seq(SlotRecords)
  BY DEF StorageTypeOK, LibraryTypes
<1>3. i \in DOMAIN slots /\ slots[i].of = t
  BY <1>1 DEF MountsOK
<1> HIDE DEF i
<1>4. /\ slots' \in Seq(SlotRecords) /\ DOMAIN slots' = DOMAIN slots /\ ~slots'[i].mounted
      /\ \A s \in DOMAIN slots : s # i => slots'[s] = slots[s]
  <2>1. slots[i] \in SlotRecords
    BY <1>2, <1>3
  <2> DEFINE m == [slots[i] EXCEPT !.mounted = FALSE]
  <2>2. m \in SlotRecords /\ ~m.mounted
    BY <2>1 DEF SlotRecords
  <2>3. slots' = [slots EXCEPT ![i] = m]
    BY <1>1
  <2> HIDE DEF m
  <2> QED
    BY <1>2, <1>3, <2>2, <2>3
<1>5. /\ torrents' \in [Torrents -> TorrentRecords]
      /\ torrents'[t] = Gone /\ torrents'[t].state = "gone"
      /\ \A u \in Torrents : u # t => torrents'[u] = torrents[u]
  BY <1>1, <1>2 DEF Gone, NoTorrent, TorrentRecords, Pieces
<1>6. \A p \in Paths : handles'[p] = [file |-> 0, writable |-> FALSE]
  BY <1>1 DEF Released, NoHandle
<1>7. 1..added \subseteq Torrents /\ t <= added /\ added \in Nat
  BY <1>1, StorageBounds DEF TorrentsOK, State, NoTorrent, Torrents, StorageTypeOK, LibraryTypes
<1>8. Queue' = Queue
  BY <1>1, QueueSame
<1>9. /\ app.step = "free" /\ app.seed # 0 => app.seed \in Torrents /\ app.seed # t
      /\ Fetching => app.fetch \in Torrents /\ app.fetch # t
  <2>1. ~AtHand(t)
    BY <1>1 DEF AtHand, State
  <2>2. app.seed # 0 => app.seed \in Torrents
    BY StorageBounds DEF StorageTypeOK, AppTypes, Torrents
  <2> QED
    BY <1>7, <2>1, <2>2 DEF TorrentsOK
<1>10. StorageTypeOK'
  <2>1. LibraryTypes'
    BY <1>1, <1>4, <1>5 DEF StorageTypeOK, LibraryTypes
  <2>2. FileTypes'
    BY <1>1 DEF StorageTypeOK, FileTypes, Released, NoHandle
  <2>3. QueueTypes' /\ AppTypes'
    BY <1>1 DEF StorageTypeOK, QueueTypes, AppTypes
  <2> QED
    BY <2>1, <2>2, <2>3 DEF StorageTypeOK
<1>11. TorrentsOK'
  <2>1. \A u \in Torrents : u > added' => torrents'[u] = NoTorrent
    BY <1>1, <1>5, <1>7 DEF TorrentsOK, Torrents
  <2>2. \A u \in Torrents : AtHand(u)' => u # t /\ AtHand(u) /\ torrents'[u] = torrents[u]
    BY <1>5 DEF AtHand, State
  <2>3. \A u \in Torrents : State(u)' = "added" => torrents'[u].piece = "missing"
    BY <1>5 DEF TorrentsOK, State
  <2>4. /\ \A u \in Torrents : AtHand(u)' => torrents'[u].kind \in {"seed", "fetch"}
        /\ \A u \in Torrents : AtHand(u)' /\ torrents'[u].kind = "seed" =>
             app.seed = u /\ app.step = "free" /\ torrents'[u].release = installed /\ installed # 0
        /\ \A u \in Torrents : AtHand(u)' /\ torrents'[u].kind = "fetch" => app.fetch = u
    BY <2>2 DEF TorrentsOK
  <2>5. app.step = "free" /\ app.seed # 0 => AtHand(app.seed)' /\ torrents'[app.seed].kind = "seed"
    BY <1>1, <1>5, <1>9 DEF TorrentsOK, AtHand, State
  <2>6. Fetching => /\ app.fetch \in 1..added /\ AtHand(app.fetch)' /\ torrents'[app.fetch].kind = "fetch"
                    /\ torrents'[app.fetch].release = app.release
    BY <1>1, <1>5, <1>9 DEF TorrentsOK, AtHand, State
  <2> QED
    BY <1>1, <2>1, <2>3, <2>4, <2>5, <2>6 DEF TorrentsOK, Fetching
<1>12. AppOK'
  BY <1>1, <1>5, <1>9 DEF AppOK, Fetching
<1>13. MountsOK'
  <2>1. \A u \in Torrents : u # t /\ State(u) \in {"mounted", "removed"} => torrents[u].slot # i
    BY <1>3 DEF MountsOK
  <2>2. \A s \in DOMAIN slots : s # i /\ slots[s].mounted => slots[s].of # t
    BY DEF MountsOK, i
  <2>3. \A u \in Torrents : State(u)' \in {"mounted", "removed"} => u # t /\ torrents'[u] = torrents[u]
    BY <1>5 DEF State
  <2>4. \A s \in DOMAIN slots' : slots'[s].mounted =>
          /\ slots'[s].of \in Torrents
          /\ State(slots[s].of)' \in {"mounted", "removed"} /\ torrents'[slots'[s].of].slot = s
    BY <1>4, <1>5, <2>2 DEF MountsOK, State
  <2>5. \A u \in Torrents : State(u)' \in {"mounted", "removed"} =>
          /\ torrents'[u].slot \in DOMAIN slots'
          /\ slots'[torrents'[u].slot].mounted /\ slots'[torrents'[u].slot].of = u
          /\ slots'[torrents'[u].slot].role = IF torrents'[u].kind = "seed" THEN "SeedRead" ELSE "FetchWrite"
    BY <1>4, <2>1, <2>3 DEF MountsOK, State
  <2> QED
    BY <2>4, <2>5 DEF MountsOK
<1>14. JobsOK'
  <2>1. SUFFICES ASSUME NEW k \in 1..Len(Queue) PROVE JobFits(Queue[k])'
    BY <1>8 DEF JobsOK
  <2>2. JobFits(Queue[k]) /\ Queue[k].of \in Torrents
    BY <1>7 DEF JobsOK, JobFits
  <2> QED
    BY <1>1, <1>5, <1>8, <2>2 DEF JobFits, State, Live
<1>15. OrderOK'
  BY <1>1, <1>5, <1>8, <1>9 DEF OrderOK, Own, Fetching
<1>16. IoOK'
  <2>1. CASE worker.step = "io"
    <3>1. worker.job.of \in Torrents
      <4>1. Queue[1] = worker.job /\ 1 \in 1..Len(Queue)
        BY <2>1, QueueFirst
      <4> QED
        BY <1>7, <4>1 DEF JobsOK, JobFits
    <3> QED
      BY <1>1, <1>5, <3>1 DEF IoOK, State, Live
  <2> QED
    BY <1>1, <2>1 DEF IoOK
<1>17. LandedOK'
  <2>1. Landed' => Landed
    BY <1>1, <1>5, <1>9 DEF Landed, Fetching
  <2> QED
    BY <1>1, <1>8, <2>1 DEF LandedOK
<1>18. FilesOK' /\ LiveIsInstalled' /\ ServedIsTrue'
  BY <1>1, <1>6 DEF FilesOK, Paths, LiveIsInstalled, ServedIsTrue
<1> QED
  BY <1>10, <1>11, <1>12, <1>13, <1>14, <1>15, <1>16, <1>17, <1>18

-----------------------------------------------------------------------------
(* The theorems *)

(* Every step keeps every part of the invariant. *)
LEMMA StorageStep == StorageInv /\ [StorageNext]_storageVars => StorageInv'
<1> SUFFICES ASSUME StorageInv, [StorageNext]_storageVars PROVE StorageInv'
  OBVIOUS
<1>1. CASE \E t \in Torrents, checked \in BOOLEAN : Mount(t, checked)
  BY <1>1, MountStep
<1>2. CASE \E t \in Torrents : StopTorrent(t)
  BY <1>2, StopTorrentStep
<1>3. CASE \E t \in Torrents, kind \in {"read", "write", "hash"} : Ask(t, kind)
  BY <1>3, AskStep DEF Kinds
<1>4. CASE Submit
  BY <1>4, SubmitStep
<1>5. CASE Abort
  BY <1>5, AbortStep
<1>6. CASE WorkerStep
  BY <1>6, TakeJobStep, ReadStep, WriteStep, WorkerEndsStep DEF WorkerStep
<1>7. CASE Announce
  BY <1>7, AnnounceStep
<1>8. CASE \E r \in Releases : StartFetch(r)
  BY <1>8, StartFetchStep
<1>9. CASE FetchEnds
  BY <1>9, FetchEndsStep
<1>10. CASE AppStep
  BY <1>10, StopForgetsStep, DrainAndClearStep, RetireStep, BeginFetchStep, SwapStep DEF AppStep
<1>11. CASE ClearDestinations
  BY <1>11, ClearDestinationsStep
<1>12. CASE UNCHANGED storageVars
  <2>1. UNCHANGED <<torrents, added, slots, jobs, ready, worker, located, destined, names, content, handles,
                    app, installed, served>>
    BY <1>12 DEF storageVars, queueVars, tableVars, diskVars, appVars
  <2>2. Queue' = Queue /\ QueueTypes'
    BY <2>1, QueueSame DEF StorageInv, StorageTypeOK, QueueTypes
  <2> QED
    BY <2>1, <2>2, QuietStep
<1> QED
  BY <1>1, <1>2, <1>3, <1>4, <1>5, <1>6, <1>7, <1>8, <1>9, <1>10, <1>11, <1>12 DEF StorageNext

(* What the variables are, for every number of releases, torrents, reads   *)
(* and writes.                                                             *)
THEOREM StorageTypeCorrect == StorageSpec => []StorageTypeOK
<1>1. StorageInv => StorageTypeOK
  BY DEF StorageInv
<1> QED
  BY <1>1, InvInitially, StorageStep, PTL DEF StorageSpec

(* The live file is the release on record, whatever handles stay open over *)
(* the swap and whatever jobs are still queued for torrents that are gone: *)
(* RunWorker_, Acquire_ and the order of Cancel and Swap_.                 *)
THEOREM TheLiveFileIsTheInstalled == StorageSpec => []LiveIsInstalled
<1>1. StorageInv => LiveIsInstalled
  BY DEF StorageInv
<1> QED
  BY <1>1, InvInitially, StorageStep, PTL DEF StorageSpec

(* A peer is answered with the bytes of the release its torrent is of,     *)
(* though slots are reused and files are replaced under open handles.      *)
THEOREM PeersAreServedTheTruth == StorageSpec => []ServedIsTrue
<1>1. StorageInv => ServedIsTrue
  BY DEF StorageInv
<1> QED
  BY <1>1, InvInitially, StorageStep, PTL DEF StorageSpec

(* A fetch is mounted to be written: ClassifyRole_ never takes it for a    *)
(* seed, since the seed of the same chunks was withdrawn before.           *)
THEOREM FetchesAreWritable == StorageSpec => []FetchesCanWrite
<1>1. StorageInv => FetchesCanWrite
  BY DEF StorageInv, MountsOK, FetchesCanWrite
<1> QED
  BY <1>1, InvInitially, StorageStep, PTL DEF StorageSpec
=============================================================================
