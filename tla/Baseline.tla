------------------------------- MODULE Baseline -------------------------------
(***************************************************************************)
(* The index of the game's own packs (BaselineIndexService): one worker    *)
(* thread restores the records of an earlier session, describes the packs  *)
(* whose stamp is not on record and puts each into the catalogue of held   *)
(* chunks; an installation waits for the packs it wants and then plans     *)
(* from the catalogue. The game may be patched at any moment, and the      *)
(* program may crash in the middle of a record. A pack's content and its   *)
(* stamp (size and time) are one number, its version.                      *)
(***************************************************************************)
EXTENDS Naturals, FiniteSets, Sequences

CONSTANTS
  Files,       \* packs below the game's pack root
  ChunksOf,    \* per pack and version, the digests of its two chunks
  MaxVersion,  \* bound: versions of one pack
  MaxEvents    \* bound: patches, unreadable files, failed saves, closes, crashes

ASSUME BaselineBounds ==
  /\ IsFiniteSet(Files) /\ MaxVersion \in Nat \ {0} /\ MaxEvents \in Nat
  /\ \A f \in Files, v \in 1..MaxVersion : Len(ChunksOf[f][v]) = 2

VARIABLES
  game,      \* external: per pack, its version and whether it is there
  records,   \* BaselineRecordStore: per pack, the file of its record
  session,   \* "closed", "open", "closing" (joining the install), "stopping" (in Stop)
  worker,    \* the worker thread: its step, the pack it is at, the stamp and chunks it read
  scanned,   \* Restore_'s entries: per pack, the stamp the scan saw, 0 when not there
  catalogue, \* BaselineChunkCatalogue: _filesByPath's stamps, _locations, _digestsByFile
  queue, pending, priority, failed,  \* under _guard; failed counts as _status.failedFiles
  flags,     \* _restored, _status.running and _stopping
  waiter,    \* the installation: its step in AwaitCounterparts, what it wants, the answer
  changed,   \* history: packs the game changed since the last DiscardChanged
  events

Digests == {ChunksOf[f][v][i] : f \in Files, v \in 1..MaxVersion, i \in 1..2}
DigestsAt(f, v) == {ChunksOf[f][v][i] : i \in 1..2}

NoRecord   == [state |-> "none", stamp |-> 0, chunks |-> {}]
TornRecord == [state |-> "torn", stamp |-> 0, chunks |-> {}]
Record(stamp, chunks) == [state |-> "whole", stamp |-> stamp, chunks |-> chunks]

NoWorker == [step |-> "off", file |-> CHOOSE f \in Files : TRUE, stamp |-> 0, chunks |-> {}]
NoWaiter == [step |-> "none", wanted |-> {}, indexed |-> FALSE, abandoned |-> FALSE]
EmptyCatalogue == [stamps  |-> [f \in Files |-> 0], located |-> {},
                   owned   |-> [f \in Files |-> {}]]

indexVars  == <<queue, pending, priority, failed, flags>>
worldVars  == <<game, changed>>
baselineVars == <<worldVars, records, session, worker, scanned, catalogue, indexVars, waiter,
                  events>>

Happens == events < MaxEvents /\ events' = events + 1

\* FileStampReader::Read
StampOf(f) == IF game[f].there THEN game[f].version ELSE 0

-----------------------------------------------------------------------------
(* The catalogue of held chunks *)

\* Forget_, of some packs: a pack's location of each digest it owns is erased.
Forget(c, files) ==
  [stamps  |-> [f \in Files |-> IF f \in files THEN 0 ELSE c.stamps[f]],
   located |-> {l \in c.located : ~(l[2] \in files /\ l[1] \in c.owned[l[2]])},
   owned   |-> [f \in Files |-> IF f \in files THEN {} ELSE c.owned[f]]]

\* Adopt, of some packs' records: a record's digests are located in its pack, once each.
Adopt(c, described) ==
  LET without == Forget(c, DOMAIN described) IN
  [stamps  |-> [f \in Files |-> IF f \in DOMAIN described THEN described[f].stamp
                                ELSE without.stamps[f]],
   located |-> without.located \cup UNION {described[f].chunks \X {f} : f \in DOMAIN described},
   owned   |-> [f \in Files |-> IF f \in DOMAIN described THEN described[f].chunks
                                ELSE without.owned[f]]]

\* DiscardChanged: packs that are gone or have another stamp are forgotten.
Discarded(c) == Forget(c, {f \in Files : c.stamps[f] # 0 /\ StampOf(f) # c.stamps[f]})

\* Prioritise_: awaited packs stand before the others; the order is that of the scan otherwise,
\* which is any.
Foremost == IF queue \cap priority # {} THEN queue \cap priority ELSE queue

-----------------------------------------------------------------------------
(* The session *)

\* Start: the index begins afresh and the worker thread starts.
OpenSession ==
  /\ session = "closed" /\ session' = "open"
  /\ worker' = [NoWorker EXCEPT !.step = "scan"]
  /\ catalogue' = EmptyCatalogue /\ scanned' = [f \in Files |-> 0]
  /\ queue' = {} /\ pending' = {} /\ priority' = {} /\ failed' = {}
  /\ flags' = [restored |-> FALSE, running |-> TRUE, stopping |-> FALSE]
  /\ waiter' = NoWaiter
  /\ UNCHANGED <<worldVars, records, events>>

\* The window closes: SettleTransfers_ abandons the installation and joins its thread ...
CloseSession ==
  /\ session = "open" /\ Happens /\ session' = "closing"
  /\ waiter' = [waiter EXCEPT !.abandoned = waiter.step # "none"]
  /\ UNCHANGED <<worldVars, records, worker, scanned, catalogue, indexVars>>

\* ... then the index is stopped ...
Stop ==
  /\ session = "closing" /\ waiter.step = "none"
  /\ session' = "stopping" /\ flags' = [flags EXCEPT !.stopping = TRUE]
  /\ UNCHANGED <<worldVars, records, worker, scanned, catalogue, queue, pending, priority,
                 failed, waiter, events>>

\* ... and its worker joined.
Joined ==
  /\ session = "stopping" /\ worker.step = "ended"
  /\ session' = "closed" /\ worker' = NoWorker
  /\ UNCHANGED <<worldVars, records, scanned, catalogue, indexVars, waiter, events>>

-----------------------------------------------------------------------------
(* The worker thread *)

At(step) == worker.step = step

\* BaselineFileScanner::Scan lists the packs with their stamps.
Scan ==
  /\ At("scan") /\ scanned' = [f \in Files |-> StampOf(f)]
  /\ worker' = [worker EXCEPT !.step = "restore"]
  /\ UNCHANGED <<worldVars, records, session, catalogue, indexVars, waiter, events>>

\* LoadAll and Decode: a record that does not parse, or does not cover its pack, is passed over.
Decoded(f) == records[f].state = "whole"

\* BaselineRecordStore::LoadAll
LoadAll == {f \in Files : Decoded(f)}

\* Restore_: records with the stamp the scan saw are adopted, the other records are removed,
\* and the packs without one are queued.
Restore ==
  LET current == {f \in LoadAll : scanned[f] # 0 /\ records[f].stamp = scanned[f]}
      left    == {f \in Files : scanned[f] # 0} \ current
  IN
  /\ At("restore")
  /\ catalogue' = Adopt(catalogue, [f \in current |-> records[f]])
  /\ records' = [f \in Files |-> IF f \in LoadAll \ current THEN NoRecord ELSE records[f]]
  /\ queue' = left /\ pending' = left /\ failed' = {} /\ UNCHANGED priority
  /\ flags' = [flags EXCEPT !.restored = TRUE]
  /\ worker' = [worker EXCEPT !.step = "claim"]
  /\ UNCHANGED <<worldVars, session, scanned, waiter, events>>

\* Claim_: one of the foremost of the queue, unless the index is stopping; the stamp is read
\* first.
Claim ==
  /\ At("claim") /\ ~flags.stopping
  /\ \E f \in Foremost :
       /\ queue' = queue \ {f}
       /\ worker' = [step |-> "read", file |-> f, stamp |-> StampOf(f), chunks |-> {}]
  /\ UNCHANGED <<worldVars, records, session, scanned, catalogue, pending, priority, failed,
                 flags, waiter, events>>

\* Nothing to claim: the worker ends.
End ==
  /\ At("claim") /\ (flags.stopping \/ queue = {})
  /\ flags' = [flags EXCEPT !.running = FALSE]
  /\ worker' = [worker EXCEPT !.step = "ended"]
  /\ UNCHANGED <<worldVars, records, session, scanned, catalogue, queue, pending, priority,
                 failed, waiter, events>>

\* FileChunkLister maps the pack and splits it; while it is mapped no other program can write
\* it. A pack that is not there, or that another program has open, is not described.
ReadPack ==
  /\ At("read")
  /\ \/ /\ game[worker.file].there
        /\ worker' = [worker EXCEPT !.step = "compare",
                        !.chunks = DigestsAt(worker.file, game[worker.file].version)]
        /\ UNCHANGED events
     \/ /\ (~game[worker.file].there /\ UNCHANGED events) \/ Happens
        /\ worker' = [worker EXCEPT !.step = "failed"]
  /\ UNCHANGED <<worldVars, records, session, scanned, catalogue, indexVars, waiter>>

\* Broken: a pack that changed between its stamp and its content is taken as described.
Unchanged_Trusted == TRUE

\* Describe compares the stamps read before and after.
Unchanged == worker.stamp # 0 /\ StampOf(worker.file) = worker.stamp

Compare ==
  /\ At("compare")
  /\ worker' = [worker EXCEPT !.step = IF Unchanged THEN "adopt" ELSE "failed"]
  /\ UNCHANGED <<worldVars, records, session, scanned, catalogue, indexVars, waiter, events>>

AdoptDescribed ==
  /\ At("adopt")
  /\ catalogue' = Adopt(catalogue, [f \in {worker.file} |-> Record(worker.stamp, worker.chunks)])
  /\ worker' = [worker EXCEPT !.step = "open"]
  /\ UNCHANGED <<worldVars, records, session, scanned, indexVars, waiter, events>>

\* Save opens the record, which empties it, and writes it; its answer is not looked at.
OpenRecord ==
  /\ At("open")
  /\ \/ /\ records' = [records EXCEPT ![worker.file] = TornRecord]
        /\ worker' = [worker EXCEPT !.step = "write"] /\ UNCHANGED events
     \/ /\ Happens /\ worker' = [worker EXCEPT !.step = "complete"] /\ UNCHANGED records
  /\ UNCHANGED <<worldVars, session, scanned, catalogue, indexVars, waiter>>

WriteRecord ==
  /\ At("write")
  /\ \/ /\ records' = [records EXCEPT ![worker.file] = Record(worker.stamp, worker.chunks)]
        /\ UNCHANGED events
     \/ Happens /\ UNCHANGED records
  /\ worker' = [worker EXCEPT !.step = "complete"]
  /\ UNCHANGED <<worldVars, session, scanned, catalogue, indexVars, waiter>>

\* Broken: a pack that could not be described is queued again.
Complete_Retried ==
  /\ At("complete") \/ At("failed")
  /\ IF At("failed") THEN queue' = queue \cup {worker.file} /\ UNCHANGED <<pending, failed>>
     ELSE pending' = pending \ {worker.file} /\ UNCHANGED <<queue, failed>>
  /\ worker' = [worker EXCEPT !.step = "claim"]
  /\ UNCHANGED <<worldVars, records, session, scanned, catalogue, priority, flags, waiter,
                 events>>

\* Complete_: the pack is no longer pending, described or not.
Complete ==
  /\ At("complete") \/ At("failed")
  /\ pending' = pending \ {worker.file}
  /\ failed' = IF At("failed") THEN failed \cup {worker.file} ELSE failed
  /\ worker' = [worker EXCEPT !.step = "claim"]
  /\ UNCHANGED <<worldVars, records, session, scanned, catalogue, queue, priority, flags,
                 waiter, events>>

WorkerStep ==
  \/ Scan \/ Restore \/ Claim \/ End \/ ReadPack \/ Compare \/ AdoptDescribed
  \/ OpenRecord \/ WriteRecord \/ Complete

-----------------------------------------------------------------------------
(* An installation, in its own thread *)

\* AwaitCounterparts asks for the packs its payload has counterparts of.
Await(wanted) ==
  /\ session = "open" /\ waiter.step = "none"
  /\ waiter' = [NoWaiter EXCEPT !.step = "waiting", !.wanted = wanted]
  /\ priority' = priority \cup wanted
  /\ UNCHANGED <<worldVars, records, session, worker, scanned, catalogue, queue, pending,
                 failed, flags>>

\* AllIndexed_
AllIndexed(wanted) == flags.restored /\ wanted \cap pending = {}

\* The wait ends when the packs are indexed, the index has ended, or the install is abandoned;
\* it is woken, or wakes every AWAIT_POLL, to see.
WaitEnds ==
  /\ waiter.step = "waiting"
  /\ \/ AllIndexed(waiter.wanted)
     \/ flags.stopping \/ ~flags.running
     \/ waiter.abandoned
  /\ waiter' = [waiter EXCEPT !.step = "discard", !.indexed = AllIndexed(waiter.wanted)]
  /\ UNCHANGED <<worldVars, records, session, worker, scanned, catalogue, indexVars, events>>

\* DiscardChanged, outside the index's lock, and then the plan is made; an abandoned install
\* makes none.
DiscardChanged ==
  /\ waiter.step = "discard"
  /\ catalogue' = Discarded(catalogue) /\ changed' = {}
  /\ waiter' = [waiter EXCEPT !.step = IF waiter.abandoned THEN "over" ELSE "plan"]
  /\ UNCHANGED <<game, records, session, worker, scanned, indexVars, events>>

\* Cancel sets _abandoned and then waits in the window's thread for the worker.
Abandon ==
  /\ session = "open" /\ waiter.step \in {"waiting", "discard"} /\ ~waiter.abandoned /\ Happens
  /\ waiter' = [waiter EXCEPT !.abandoned = TRUE]
  /\ UNCHANGED <<worldVars, records, session, worker, scanned, catalogue, indexVars>>

\* The install is over, by its own end or abandoned.
WaiterEnds ==
  /\ waiter.step \in {"plan", "over"} /\ waiter' = NoWaiter
  /\ UNCHANGED <<worldVars, records, session, worker, scanned, catalogue, indexVars, events>>

-----------------------------------------------------------------------------
(* The world *)

\* The game is patched: a pack gets a new content and a new stamp, or is removed.
GameChanges(f) ==
  /\ Happens
  /\ \/ /\ game[f].version < MaxVersion
        /\ game' = [game EXCEPT ![f] = [version |-> @.version + 1, there |-> TRUE]]
     \/ game[f].there /\ game' = [game EXCEPT ![f].there = FALSE]
  /\ changed' = changed \cup {f}
  /\ UNCHANGED <<records, session, worker, scanned, catalogue, indexVars, waiter>>

\* The process ends anywhere: what is on disk stays.
Crash ==
  /\ session # "closed" /\ Happens
  /\ session' = "closed" /\ worker' = NoWorker /\ waiter' = NoWaiter
  /\ UNCHANGED <<worldVars, records, scanned, catalogue, indexVars>>

BaselineInit ==
  /\ game = [f \in Files |-> [version |-> 1, there |-> TRUE]]
  /\ records = [f \in Files |-> NoRecord]
  /\ session = "closed" /\ worker = NoWorker /\ waiter = NoWaiter
  /\ scanned = [f \in Files |-> 0] /\ catalogue = EmptyCatalogue
  /\ queue = {} /\ pending = {} /\ priority = {} /\ failed = {}
  /\ flags = [restored |-> FALSE, running |-> FALSE, stopping |-> FALSE]
  /\ changed = {} /\ events = 0

\* Steps that concern the index alone.
IndexNext ==
  \/ CloseSession \/ Stop \/ Joined \/ WorkerStep \/ WaitEnds \/ DiscardChanged
  \/ Abandon \/ \E f \in Files : GameChanges(f)

-----------------------------------------------------------------------------
(* Properties *)

\* A chunk located in a pack is one the pack had when it carried the stamp the catalogue keeps
\* for it: neither a record cut by a crash nor a pack patched around its reading puts a
\* chunk into the catalogue that its stamp does not vouch for.
LocatedIsHeld ==
  session # "closed" =>
    \A l \in catalogue.located :
      /\ catalogue.stamps[l[2]] \in 1..MaxVersion
      /\ l[1] \in DigestsAt(l[2], catalogue.stamps[l[2]])

\* When a plan is made after a wait that was answered, every chunk of a wanted pack that has
\* not changed since the session began, and could be read, is located in it: no pack is left
\* out because its record was not restored yet, or forgotten with another that changed.
AwaitedIsLocated ==
  waiter.step = "plan" /\ waiter.indexed =>
    \A f \in waiter.wanted :
      scanned[f] # 0 /\ StampOf(f) = scanned[f] /\ f \notin failed
        => DigestsAt(f, scanned[f]) \X {f} \subseteq catalogue.located

\* What a plan takes from a pack the install waited for is in the pack, unless the game
\* changed it after DiscardChanged.
PlanSourcesAreThere ==
  waiter.step = "plan" /\ waiter.indexed =>
    \A l \in catalogue.located :
      l[2] \in waiter.wanted \ changed
        => StampOf(l[2]) # 0 /\ l[1] \in DigestsAt(l[2], game[l[2]].version)

\* The same for every pack of the catalogue. It does not hold: the worker may have compared
\* a pack's stamps before the game changed it and adopt it after the install's DiscardChanged.
AnyPlanSourceIsThere ==
  waiter.step = "plan" =>
    \A l \in catalogue.located :
      l[2] \notin changed => StampOf(l[2]) # 0 /\ l[1] \in DigestsAt(l[2], game[l[2]].version)

\* A wait that ends without its packs indexed was abandoned by the user: packs that cannot be read, and
\* an index that ran out of work, are an answer.
WaitIsAnswered ==
  waiter.step = "plan" /\ ~waiter.indexed => waiter.abandoned
=============================================================================
