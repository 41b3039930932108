---------------------------- MODULE FetchSession ----------------------------
(***************************************************************************)
(* One chunk fetch at a time over a swarm: TorrentSession::Begin, Cancel   *)
(* and Poll, the FetchState they share under a mutex, the destinations of  *)
(* the ChunkLocator, the disk queue and the backlog of fetch writes.       *)
(*                                                                         *)
(* Begin and Cancel take that mutex several times and run on two threads:  *)
(* the window loop ("ui", which also polls) and the installer's thread     *)
(* ("worker"). Each critical section is a step. libtorrent's own thread    *)
(* and the disk thread take steps of their own. An attempt is a torrent    *)
(* added by Begin, numbered in order; chunks are content-addressed, so the *)
(* same chunk fetched by two attempts has the same bytes.                  *)
(***************************************************************************)
EXTENDS Integers, Sequences, FiniteSets

CONSTANTS
  Chunks,         \* the chunk files a content fetch may want
  ManifestPiece,  \* the sealed manifest, the only file a manifest fetch wants
  MaxAttempts,    \* bound: how many torrents are added
  MaxJobs,        \* bound: how many disk writes wait at once
  Confirmations,  \* FetchState::COMPLETE_CONFIRMATIONS
  Windows         \* where Poll may be preempted between two critical sections

ASSUME BoundsAssumption ==
  /\ MaxAttempts \in Nat
  /\ MaxJobs \in Nat
  /\ Confirmations \in Nat
  /\ ManifestPiece \notin Chunks
  /\ Windows \subseteq {"route", "clear", "refresh"}

Attempts == 1..MaxAttempts
None     == 0
Handles  == 0..MaxAttempts
Pieces   == Chunks \cup {ManifestPiece}
Threads  == {"ui", "worker"}

Phases == {"Idle", "Metadata", "Downloading", "Complete", "Failed"}
Steps  == {"idle", "check", "retire", "release", "reserve", "abandon",
           "register", "add", "adopt", "refused", "begun",
           "route", "clear", "refresh", "apply", "update"}

VARIABLES
  phase, wanted, fetching, prioritised, settledPolls, removing, clearPending,
  dest,      \* ChunkLocator::_destinations, as <<attempt, chunk>> placements
  staging,   \* ChunkLocator::_fetchStaging is set
  torrent,   \* libtorrent: absent, live, removing or gone, per attempt
  metadata,  \* libtorrent: the torrents whose metadata has arrived
  prio,      \* libtorrent: the pieces each torrent is told to download
  counted,   \* libtorrent: the pieces counted in total_wanted_done
  alerts,    \* libtorrent: the alerts nobody has popped
  attempt,   \* the last torrent added
  jobs,      \* StorageJobQueue: the writes that wait for the disk thread
  pending,   \* StorageBacklog::_pending
  landed,    \* <<attempt, piece>> whose bytes are where the attempt wants them
  pc,        \* the step each thread is at
  op,        \* the call each thread is in
  request,   \* the arguments of the Begin in progress
  seen,      \* the handle a thread has read and not used yet
  seenPending, \* the backlog the window loop has read and not used yet
  clearNow   \* a thread has decided to clear the destinations and not done it

fetchVars   == <<phase, wanted, fetching, prioritised, settledPolls, removing, clearPending>>
locatorVars == <<dest, staging>>
swarmVars   == <<torrent, metadata, prio, counted, alerts, attempt>>
diskVars    == <<jobs, pending, landed>>
readVars    == <<seen, seenPending, clearNow>>
callVars    == <<pc, op, request, readVars>>
vars        == <<fetchVars, locatorVars, swarmVars, diskVars, callVars>>

Request   == [want : SUBSET Pieces, place : SUBSET Chunks]
NoRequest == [want |-> {}, place |-> {}]
ManifestRequest == [want |-> {ManifestPiece}, place |-> {}]
ContentRequest(chunks) == [want |-> chunks, place |-> chunks]

Job   == [of : Attempts, piece : Pieces, tracked : BOOLEAN]
Alert == [kind : {"removed", "failed"}, of : Attempts]

Busy == phase \in {"Metadata", "Downloading"}

Init ==
  /\ phase = "Idle" /\ wanted = {} /\ fetching = None /\ prioritised = FALSE
  /\ settledPolls = 0 /\ removing = {} /\ clearPending = FALSE
  /\ dest = {} /\ staging = FALSE
  /\ torrent = [a \in Attempts |-> "absent"] /\ metadata = {}
  /\ prio = [a \in Attempts |-> {}] /\ counted = [a \in Attempts |-> {}]
  /\ alerts = {} /\ attempt = 0
  /\ jobs = <<>> /\ pending = 0 /\ landed = {}
  /\ pc = [t \in Threads |-> "idle"] /\ op = [t \in Threads |-> "none"]
  /\ request = NoRequest /\ seen = [t \in Threads |-> None]
  /\ seenPending = 0 /\ clearNow = [t \in Threads |-> FALSE]

(* The window loop between two critical sections of Poll. Another thread   *)
(* steps there only when the window is open.                               *)
Preemptible(t) ==
  \A u \in Threads \ {t} :
    /\ pc[u] = "route" => "route" \in Windows
    /\ pc[u] = "clear" => "clear" \in Windows
    /\ pc[u] \in {"apply", "update"} => "refresh" \in Windows

At(t, step)    == pc[t] = step /\ Preemptible(t)
Goto(t, step)  == pc' = [pc EXCEPT ![t] = step]
Ends(t)        == Goto(t, "idle") /\ op' = [op EXCEPT ![t] = "none"]

-----------------------------------------------------------------------------
(* Begin and Cancel.                                                       *)

CallBegin(t, asked) ==
  /\ At(t, "idle")
  /\ \A u \in Threads : op[u] # "begin"
  /\ attempt < MaxAttempts
  /\ op' = [op EXCEPT ![t] = "begin"]
  /\ request' = asked
  /\ Goto(t, "check")
  /\ UNCHANGED <<fetchVars, locatorVars, swarmVars, diskVars, readVars>>

CallCancel(t) ==
  /\ At(t, "idle")
  /\ op' = [op EXCEPT ![t] = "cancel"]
  /\ Goto(t, "retire")
  /\ UNCHANGED <<fetchVars, locatorVars, swarmVars, diskVars, request, readVars>>

(* Begin refuses when busy, when nothing is wanted, and when the info hash *)
(* is one the session already seeds (another component's state: any time). *)
Check(t) ==
  /\ At(t, "check")
  /\ \/ Goto(t, "refused")
     \/ ~Busy /\ request.want # {} /\ Goto(t, "retire")
  /\ UNCHANGED <<fetchVars, locatorVars, swarmVars, diskVars, op, request, readVars>>

(* FetchState::Retire. The drain before it gives up after WRITE_DRAIN_-    *)
(* TIMEOUT, so it promises nothing about the jobs that are left.           *)
Retire(t) ==
  /\ At(t, "retire")
  /\ LET going == removing \cup ({fetching} \ {None}) IN
       /\ removing' = going
       /\ clearNow' = [clearNow EXCEPT ![t] = (going = {})]
       /\ clearPending' = (clearPending \/ going # {})
  /\ seen' = [seen EXCEPT ![t] = fetching]
  /\ fetching' = None
  /\ wanted' = {}
  /\ prioritised' = FALSE
  /\ settledPolls' = 0
  /\ phase' = IF Busy THEN "Idle" ELSE phase
  /\ Goto(t, "release")
  /\ UNCHANGED <<locatorVars, swarmVars, diskVars, op, request, seenPending>>

(* Broken: the torrent is forgotten and never removed. *)
Release_KeepsTorrent(t) ==
  /\ At(t, "release")
  /\ dest' = IF clearNow[t] THEN {} ELSE dest
  /\ staging' = (staging /\ ~clearNow[t])
  /\ seen' = [seen EXCEPT ![t] = None]
  /\ clearNow' = [clearNow EXCEPT ![t] = FALSE]
  /\ IF op[t] = "begin" THEN Goto(t, "reserve") /\ UNCHANGED op ELSE Ends(t)
  /\ UNCHANGED <<fetchVars, swarmVars, diskVars, request, seenPending>>

(* The rest of Cancel; Begin goes on from here. *)
Release(t) ==
  /\ At(t, "release")
  /\ torrent' = [a \in Attempts |-> IF a = seen[t] THEN "removing" ELSE torrent[a]]
  /\ dest' = IF clearNow[t] THEN {} ELSE dest
  /\ staging' = (staging /\ ~clearNow[t])
  /\ seen' = [seen EXCEPT ![t] = None]
  /\ clearNow' = [clearNow EXCEPT ![t] = FALSE]
  /\ IF op[t] = "begin" THEN Goto(t, "reserve") /\ UNCHANGED op ELSE Ends(t)
  /\ UNCHANGED <<fetchVars, metadata, prio, counted, alerts, attempt, diskVars, request, seenPending>>

Reserve(t) ==
  /\ At(t, "reserve")
  /\ \/ /\ Busy
        /\ Goto(t, "refused")
        /\ UNCHANGED <<phase, wanted, prioritised, settledPolls>>
     \/ /\ ~Busy
        /\ phase' = "Metadata"
        /\ wanted' = request.want
        /\ prioritised' = FALSE
        /\ settledPolls' = 0
        /\ Goto(t, "abandon")
  /\ UNCHANGED <<fetching, removing, clearPending, locatorVars, swarmVars, diskVars, op, request, readVars>>

AbandonPendingClear(t) ==
  /\ At(t, "abandon")
  /\ dest' = IF clearPending THEN {} ELSE dest
  /\ clearPending' = FALSE
  /\ Goto(t, "register")
  /\ UNCHANGED <<phase, wanted, fetching, prioritised, settledPolls, removing, staging,
                 swarmVars, diskVars, op, request, readVars>>

(* The placements of the torrent about to be added, one entry at a time. *)
Register(t) ==
  /\ At(t, "register")
  /\ \E c \in request.place :
       /\ dest' = dest \cup {<<attempt + 1, c>>}
       /\ request' = [request EXCEPT !.place = @ \ {c}]
  /\ UNCHANGED <<fetchVars, staging, swarmVars, diskVars, pc, op, readVars>>

SetFetchStaging(t) ==
  /\ At(t, "register")
  /\ request.place = {}
  /\ staging' = TRUE
  /\ Goto(t, "add")
  /\ UNCHANGED <<fetchVars, dest, swarmVars, diskVars, op, request, readVars>>

(* Broken: a rejected fetch leaves the destinations it had registered. *)
GiveUp_KeepsDestinations(t) ==
  /\ At(t, "register") \/ At(t, "add")
  /\ fetching' = None
  /\ wanted' = {}
  /\ prioritised' = FALSE
  /\ settledPolls' = 0
  /\ phase' = "Idle"
  /\ Goto(t, "refused")
  /\ UNCHANGED <<removing, clearPending, locatorVars, swarmVars, diskVars, op, request, readVars>>

(* A rejected destination, magnet or torrent undoes the reservation. *)
GiveUp(t) ==
  /\ At(t, "register") \/ At(t, "add")
  /\ dest' = {}
  /\ fetching' = None
  /\ wanted' = {}
  /\ prioritised' = FALSE
  /\ settledPolls' = 0
  /\ phase' = "Idle"
  /\ Goto(t, "refused")
  /\ UNCHANGED <<removing, clearPending, staging, swarmVars, diskVars, op, request, readVars>>

AddTorrent(t) ==
  /\ At(t, "add")
  /\ attempt' = attempt + 1
  /\ torrent' = [torrent EXCEPT ![attempt + 1] = "live"]
  /\ Goto(t, "adopt")
  /\ UNCHANGED <<fetchVars, locatorVars, metadata, prio, counted, alerts, diskVars, op, request, readVars>>

Adopt(t) ==
  /\ At(t, "adopt")
  /\ fetching' = attempt
  /\ Goto(t, "begun")
  /\ UNCHANGED <<phase, wanted, prioritised, settledPolls, removing, clearPending, locatorVars,
                 swarmVars, diskVars, op, request, readVars>>

Return(t) ==
  /\ At(t, "begun") \/ At(t, "refused")
  /\ Ends(t)
  /\ request' = NoRequest
  /\ UNCHANGED <<fetchVars, locatorVars, swarmVars, diskVars, readVars>>

Call(t) ==
  \/ Check(t) \/ Retire(t) \/ Release(t) \/ Reserve(t) \/ AbandonPendingClear(t)
  \/ Register(t) \/ SetFetchStaging(t) \/ GiveUp(t) \/ AddTorrent(t) \/ Adopt(t)

-----------------------------------------------------------------------------
(* Poll, on the window loop's thread. AlertRouter::Route reads the active  *)
(* handle and handles the popped alerts by it; each alert is a critical    *)
(* section of its own in the code.                                         *)

(* Broken: a confirmed removal does not consume the pending clear. *)
ConfirmRemoval_Never(gone) == FALSE

(* FetchState::ConfirmRemoval of each torrent gone: the last one it waits  *)
(* for lets the pending clear happen.                                      *)
ConfirmRemoval(gone) == removing \cap gone # {} /\ removing \subseteq gone /\ clearPending

(* FetchState::Fail, for an alert of the torrent Route takes for active.   *)
FetchFails(active) == Busy /\ [kind |-> "failed", of |-> active] \in alerts

HandleAlerts(active) ==
  /\ LET gone == {al.of : al \in {x \in alerts : x.kind = "removed"}} IN
       /\ removing' = removing \ gone
       /\ clearPending' = (clearPending /\ ~ConfirmRemoval(gone))
       /\ Goto("ui", IF ConfirmRemoval(gone) THEN "clear" ELSE "refresh")
  /\ phase' = IF FetchFails(active) THEN "Failed" ELSE phase
  /\ alerts' = {}
  /\ op' = [op EXCEPT !["ui"] = "poll"]
  /\ UNCHANGED <<wanted, fetching, prioritised, settledPolls, locatorVars, torrent, metadata,
                 prio, counted, attempt, diskVars, request>>

(* Broken: alerts are drained only while a fetch is on. *)
PollStarts_WhileBusy == At("ui", "idle") /\ Busy

PollStarts == At("ui", "idle")

Route == PollStarts /\ HandleAlerts(fetching) /\ UNCHANGED readVars

(* Route in two steps, with the other thread in between. An alert that     *)
(* comes between them is handled as one popped before the handle was read. *)
RouteReads ==
  /\ "route" \in Windows
  /\ PollStarts
  /\ seen' = [seen EXCEPT !["ui"] = fetching]
  /\ op' = [op EXCEPT !["ui"] = "poll"]
  /\ Goto("ui", "route")
  /\ UNCHANGED <<fetchVars, locatorVars, swarmVars, diskVars, request, seenPending, clearNow>>

RouteActs ==
  /\ At("ui", "route")
  /\ HandleAlerts(seen["ui"])
  /\ seen' = [seen EXCEPT !["ui"] = None]
  /\ UNCHANGED <<seenPending, clearNow>>

ClearConfirmed ==
  /\ At("ui", "clear")
  /\ dest' = {}
  /\ Goto("ui", "refresh")
  /\ UNCHANGED <<fetchVars, staging, swarmVars, diskVars, op, request, readVars>>

(* Poll returns early when the last status poll is recent. *)
Throttle ==
  /\ At("ui", "refresh")
  /\ Ends("ui")
  /\ UNCHANGED <<fetchVars, locatorVars, swarmVars, diskVars, request, readVars>>

(* The backlog is read before the handle, and both before the status. *)
Refresh ==
  /\ At("ui", "refresh")
  /\ seenPending' = pending
  /\ seen' = [seen EXCEPT !["ui"] = fetching]
  /\ IF fetching = None THEN Ends("ui") ELSE Goto("ui", "apply") /\ UNCHANGED op
  /\ UNCHANGED <<fetchVars, locatorVars, swarmVars, diskVars, request, clearNow>>

ApplyPriorities ==
  /\ At("ui", "apply")
  /\ \/ /\ prioritised \/ seen["ui"] \notin metadata
        /\ UNCHANGED <<prio, phase, prioritised>>
     \/ /\ ~prioritised /\ seen["ui"] \in metadata
        /\ prio' = [prio EXCEPT ![seen["ui"]] = wanted]
        /\ phase' = IF phase = "Metadata" THEN "Downloading" ELSE phase
        /\ prioritised' = TRUE
  /\ Goto("ui", "update")
  /\ UNCHANGED <<wanted, fetching, settledPolls, removing, clearPending, locatorVars, torrent,
                 metadata, counted, alerts, attempt, diskVars, op, request, readVars>>

(* FetchState::Update with the status of the handle that was read. Pieces  *)
(* are counted whole, so wantedComplete says nothing finished does not.    *)
Finished(a) == a \in metadata /\ prio[a] \subseteq counted[a]

UpdateWith(settled, limit) ==
  /\ At("ui", "update")
  /\ \/ ~Busy /\ UNCHANGED <<phase, settledPolls>>
     \/ Busy /\ ~settled /\ settledPolls' = 0 /\ UNCHANGED phase
     \/ /\ Busy /\ settled /\ settledPolls < limit
        /\ settledPolls' = settledPolls + 1 /\ UNCHANGED phase
     \/ /\ Busy /\ settled /\ settledPolls >= limit
        /\ phase' = "Complete" /\ UNCHANGED settledPolls
  /\ seen' = [seen EXCEPT !["ui"] = None]
  /\ seenPending' = 0
  /\ Ends("ui")
  /\ UNCHANGED <<wanted, fetching, prioritised, removing, clearPending, locatorVars, swarmVars,
                 diskVars, request, clearNow>>

(* Broken: one confirmation too many; writes that are not waited for. *)
Update_CountsOn == UpdateWith(prioritised /\ seenPending = 0 /\ Finished(seen["ui"]), Confirmations + 1)
Update_IgnoresBacklog == UpdateWith(prioritised /\ Finished(seen["ui"]), Confirmations)

Update == UpdateWith(prioritised /\ seenPending = 0 /\ Finished(seen["ui"]), Confirmations)

Poll == Route \/ RouteReads \/ RouteActs \/ ClearConfirmed \/ Throttle \/ Refresh \/ ApplyPriorities \/ Update

-----------------------------------------------------------------------------
(* libtorrent's network thread and the disk thread.                        *)

MetadataArrives(a) ==
  /\ torrent[a] = "live" /\ a \notin metadata
  /\ metadata' = metadata \cup {a}
  /\ UNCHANGED <<fetchVars, locatorVars, torrent, prio, counted, alerts, attempt, diskVars, callVars>>

(* A piece arrives: it is counted at once and its write is queued. The     *)
(* write is tracked when it is queued, by the staging folder of the moment.*)
(* libtorrent stops a torrent in error.                                    *)
Receive(a, p) ==
  /\ torrent[a] = "live" /\ a \in metadata
  /\ [kind |-> "failed", of |-> a] \notin alerts
  /\ p \in prio[a] \ counted[a]
  /\ Len(jobs) < MaxJobs
  /\ counted' = [counted EXCEPT ![a] = @ \cup {p}]
  /\ jobs' = Append(jobs, [of |-> a, piece |-> p, tracked |-> staging])
  /\ pending' = IF staging THEN pending + 1 ELSE pending
  /\ UNCHANGED <<fetchVars, locatorVars, torrent, metadata, prio, alerts, attempt, landed, callVars>>

(* Where the bytes of a piece end up: in every destination of the chunk;   *)
(* the manifest, which has none, in the staging folder.                    *)
Placements(job) ==
  IF job.piece = ManifestPiece THEN {<<job.of, ManifestPiece>>}
  ELSE {d \in dest : d[2] = job.piece}

Mounted(a) == torrent[a] \in {"live", "removing"}

RunWriteWith(given) ==
  /\ jobs # <<>>
  /\ jobs' = Tail(jobs)
  /\ pending' = pending - given
  /\ LET job == Head(jobs) IN
       \/ /\ Mounted(job.of)
          /\ landed' = landed \cup Placements(job)
          /\ UNCHANGED <<counted, alerts>>
       \/ /\ counted' = [counted EXCEPT ![job.of] = @ \ {job.piece}]
          /\ alerts' = IF Mounted(job.of) THEN alerts \cup {[kind |-> "failed", of |-> job.of]}
                       ELSE alerts
          /\ UNCHANGED landed
  /\ UNCHANGED <<fetchVars, locatorVars, torrent, metadata, prio, attempt, callVars>>

RunWrite == RunWriteWith(IF Head(jobs).tracked THEN 1 ELSE 0)

(* torrent_error and metadata_failed alerts. *)
TorrentFails(a) ==
  /\ torrent[a] = "live"
  /\ alerts' = alerts \cup {[kind |-> "failed", of |-> a]}
  /\ UNCHANGED <<fetchVars, locatorVars, torrent, metadata, prio, counted, attempt, diskVars, callVars>>

(* The storage is unmounted whatever jobs still wait for it. *)
TorrentRemoved(a) ==
  /\ torrent[a] = "removing"
  /\ torrent' = [torrent EXCEPT ![a] = "gone"]
  /\ alerts' = alerts \cup {[kind |-> "removed", of |-> a]}
  /\ UNCHANGED <<fetchVars, locatorVars, metadata, prio, counted, attempt, diskVars, callVars>>

Swarm ==
  \/ \E a \in Attempts :
       \/ MetadataArrives(a) \/ TorrentFails(a) \/ TorrentRemoved(a)
       \/ \E p \in Pieces : Receive(a, p)
  \/ RunWrite

-----------------------------------------------------------------------------
Next ==
  \/ \E chunks \in SUBSET Chunks : CallBegin("worker", ContentRequest(chunks))
  \/ CallBegin("ui", ManifestRequest)
  \/ \E t \in Threads : Call(t) \/ Return(t)
  \/ CallCancel("ui")
  \/ Poll
  \/ Swarm

(* Every turn of the window loop polls the swarm before it does anything   *)
(* else, so a Poll that can be started again and again is started.         *)
Fairness ==
  /\ SF_vars(Route \/ RouteReads)
  /\ WF_vars(Poll)
  /\ \A t \in Threads : WF_vars(Call(t)) /\ WF_vars(Return(t))
  /\ WF_vars(\E a \in Attempts : TorrentRemoved(a))

Spec == Init /\ [][Next]_vars
FairSpec == Spec /\ Fairness

-----------------------------------------------------------------------------
TypeOK ==
  /\ phase \in Phases
  /\ wanted \subseteq Pieces
  /\ fetching \in Handles
  /\ prioritised \in BOOLEAN
  /\ settledPolls \in 0..Confirmations
  /\ removing \subseteq Attempts
  /\ clearPending \in BOOLEAN
  /\ dest \subseteq Attempts \X Chunks
  /\ staging \in BOOLEAN
  /\ torrent \in [Attempts -> {"absent", "live", "removing", "gone"}]
  /\ metadata \subseteq Attempts
  /\ prio \in [Attempts -> SUBSET Pieces]
  /\ counted \in [Attempts -> SUBSET Pieces]
  /\ alerts \subseteq Alert
  /\ attempt \in Handles
  /\ jobs \in Seq(Job)
  /\ pending \in Int
  /\ landed \subseteq Attempts \X Pieces
  /\ pc \in [Threads -> Steps]
  /\ op \in [Threads -> {"none", "begin", "cancel", "poll"}]
  /\ request \in Request
  /\ seen \in [Threads -> Handles]
  /\ seenPending \in Int
  /\ clearNow \in [Threads -> BOOLEAN]

(* A clear that waits for removals (FetchState::_clearPending) always has  *)
(* a removal left to confirm it: it is never stranded.                     *)
PendingClearHasRemoval == clearPending => removing # {}

(* A torrent the session is downloading is known to FetchState, or to the  *)
(* one call that is about to adopt or remove it: no torrent is orphaned.   *)
LiveTorrentTracked ==
  \A a \in Attempts : torrent[a] = "live" =>
    \/ a = fetching
    \/ \E t \in Threads : pc[t] = "adopt" /\ a = attempt
    \/ \E t \in Threads : pc[t] = "release" /\ a = seen[t]

(* Destinations outlive their fetch only while someone is bound to clear   *)
(* them: no placement of a finished fetch is left for a later one.         *)
ClearIsDue ==
  \/ clearPending
  \/ pc["ui"] = "clear"
  \/ \E t \in Threads : pc[t] = "release" /\ clearNow[t]

NoLeakedDestinations ==
  dest # {} =>
    \/ fetching # None
    \/ \E t \in Threads : pc[t] \in {"register", "add", "adopt"}
    \/ ClearIsDue

(* Every tracked write is given back: an idle queue has an empty backlog,  *)
(* so the next Cancel does not wait out its drain timeout for nothing.     *)
BacklogCountsQueue ==
  pending = Cardinality({i \in 1..Len(jobs) : jobs[i].tracked})

(* A pending clear is carried out once the swarm has confirmed removals,   *)
(* or taken over by the Begin that follows.                                *)
PendingClearResolves == clearPending ~> ~clearPending

(* A fetch is failed by an alert of its own torrent, never by one of the   *)
(* torrent before it (AlertRouter: fetchOwns).                             *)
FailuresAreOwn ==
  [][phase' = "Failed" /\ phase # "Failed"
       => [kind |-> "failed", of |-> fetching] \in alerts]_vars
=============================================================================
