---------------------------- MODULE BaselineProofs ----------------------------
(***************************************************************************)
(* The index of the game's packs, for any packs, chunks and number of      *)
(* patches: what it locates is what its stamps vouch for, and what an      *)
(* installation that waited for it plans from is there and complete.       *)
(***************************************************************************)
EXTENDS Mirror, TLAPS

Versions == 1..MaxVersion

GameOK ==
  /\ game \in [Files -> [version : Versions, there : BOOLEAN]]
  /\ scanned \in [Files -> Nat]
  /\ \A f \in Files : scanned[f] <= game[f].version

(* A stamp a pack has had, with the digests of its chunks at that stamp.   *)
Vouched(f, stamp, chunks) ==
  stamp \in Versions /\ stamp <= game[f].version /\ chunks = DigestsAt(f, stamp)

RecordsOK ==
  /\ DOMAIN records = Files
  /\ \A f \in Files : Decoded(f) => Vouched(f, records[f].stamp, records[f].chunks)

(* A catalogue locates in a pack exactly what it owns there.               *)
Sound(c) ==
  /\ c.stamps \in [Files -> Nat] /\ DOMAIN c.owned = Files
  /\ c.located = UNION {c.owned[f] \X {f} : f \in Files}

CatalogueOK ==
  /\ Sound(catalogue)
  /\ \A f \in Files :
       \/ catalogue.stamps[f] = 0 /\ catalogue.owned[f] = {}
       \/ Vouched(f, catalogue.stamps[f], catalogue.owned[f])

(* The steps between a claim and its completion, those in which the pack   *)
(* is described and those in which it is in the catalogue.                 *)
AtPack    == worker.step \in {"read", "compare", "failed", "adopt", "open", "write", "complete"}
Described == worker.step \in {"adopt", "open", "write", "complete"}
Adopted   == worker.step \in {"open", "write", "complete"}
Before    == worker.step \in {"scan", "restore"}

(* A pack that is being read has a stamp no younger than its content; once *)
(* the stamp was compared the content is the stamp's.                      *)
WorkerOK ==
  /\ DOMAIN worker = {"step", "file", "stamp", "chunks"}
  /\ worker.step \in {"off", "scan", "restore", "claim", "read", "compare", "failed", "adopt",
                      "open", "write", "complete", "ended"}
  /\ AtPack =>
       /\ worker.file \in Files /\ worker.stamp \in Nat
       /\ worker.stamp # 0 => scanned[worker.file] <= worker.stamp /\ worker.stamp <= game[worker.file].version
  /\ worker.step = "compare" =>
       \E v \in Versions : /\ worker.stamp <= v /\ v <= game[worker.file].version
                           /\ worker.chunks = DigestsAt(worker.file, v)
  /\ Described => worker.stamp # 0 /\ Vouched(worker.file, worker.stamp, worker.chunks)

(* A pack is pending while it is queued or the worker is at it.            *)
QueueOK ==
  /\ flags \in [restored : BOOLEAN, running : BOOLEAN, stopping : BOOLEAN]
  /\ queue \subseteq pending /\ pending \subseteq Files
  /\ Before => ~flags.restored /\ flags.running /\ queue = {} /\ pending = {}
  /\ AtPack => worker.file \in pending /\ worker.file \notin queue
  /\ worker.step \notin {"off", "scan", "restore"} =>
       /\ flags.restored
       /\ \A f \in pending : f \in queue \/ (AtPack /\ f = worker.file)
  /\ worker.step \in {"claim", "ended"} \/ AtPack => (flags.running <=> worker.step # "ended")
  /\ worker.step = "ended" => flags.stopping \/ queue = {}

(* A waiter is there while the session is open, or abandoned while it      *)
(* closes. What it was told is indexed is no longer pending, and what it   *)
(* plans from has not changed since it looked.                             *)
WaiterOK ==
  /\ waiter \in [step : {"none", "waiting", "discard", "plan", "over"}, wanted : SUBSET Files,
                 indexed : BOOLEAN, abandoned : BOOLEAN]
  /\ session \in {"open", "closing", "stopping", "closed"}
  /\ session \in {"open", "closing"} => ~flags.stopping /\ worker.step # "off"
  /\ waiter.step # "none" => session \in {"open", "closing"}
  /\ session = "closing" /\ waiter.step # "none" => waiter.abandoned
  /\ waiter.step \in {"discard", "plan"} /\ waiter.indexed =>
       flags.restored /\ waiter.wanted \cap pending = {}
  /\ waiter.step \in {"discard", "plan"} /\ ~waiter.indexed => waiter.abandoned
  /\ waiter.step = "plan" /\ waiter.indexed =>
       \A f \in waiter.wanted \ changed : catalogue.stamps[f] # 0 => StampOf(f) = catalogue.stamps[f]

(* A pack the scan saw, and that is as it was then, is in the catalogue    *)
(* unless it could not be read or the worker has still to come to it.      *)
AsScanned(f) == scanned[f] # 0 /\ StampOf(f) = scanned[f]
Settled(f)   == f \notin pending \/ (Adopted /\ worker.file = f)

ScannedOK ==
  flags.restored =>
    \A f \in Files \ failed : AsScanned(f) /\ Settled(f) => catalogue.stamps[f] = scanned[f]

IndexInv ==
  GameOK /\ RecordsOK /\ CatalogueOK /\ WorkerOK /\ QueueOK /\ WaiterOK /\ ScannedOK
-----------------------------------------------------------------------------
(* The installation's end, to the index.                                   *)
Leaves ==
  /\ waiter.step \in {"plan", "over"} /\ waiter' = NoWaiter
  /\ UNCHANGED <<worldVars, records, session, worker, scanned, catalogue, indexVars>>

IndexStays ==
  UNCHANGED <<worldVars, records, session, worker, scanned, catalogue, indexVars, waiter>>

(* Every step of the mirror is one of the index, or none to it.            *)
LEMMA StepCases ==
  ASSUME [MirrorNext]_allVars
  PROVE  \/ OpenSession \/ IndexNext \/ Crash
         \/ \E m \in Mods : Await(Counterparts[m])
         \/ Leaves \/ IndexStays
<1>1. OpensMirror => OpenSession
  BY DEF OpensMirror
<1>2. Poll => \E m \in Mods : Await(Counterparts[m])
  BY DEF Poll, Starts
<1>3. InstallEnds \/ InstallFails => Leaves
  BY DEF InstallEnds, WaiterEnds, InstallFails, Leaves
<1>4. ASSUME NEW on \in BOOLEAN, SetEnabled(on)  PROVE IndexStays
  BY <1>4 DEF SetEnabled, IndexStays
<1>5. ASSUME NEW m \in Mods, RowChanges(m)  PROVE IndexStays
  BY <1>5 DEF RowChanges, IndexStays
<1>6. ASSUME NEW m \in Mods, UserInstalls(m)  PROVE Await(Counterparts[m])
  BY <1>6 DEF UserInstalls, Starts
<1>7. UNCHANGED allVars => IndexStays
  BY DEF allVars, baselineVars, IndexStays
<1> QED
  BY <1>1, <1>2, <1>3, <1>4, <1>5, <1>6, <1>7 DEF MirrorNext

(* What is forgotten is no longer located, and the rest is as it was.      *)
LEMMA ForgetForm ==
  ASSUME NEW c, Sound(c), NEW files \in SUBSET Files
  PROVE  /\ Sound(Forget(c, files))
         /\ \A f \in files : Forget(c, files).stamps[f] = 0 /\ Forget(c, files).owned[f] = {}
         /\ \A f \in Files \ files : /\ Forget(c, files).stamps[f] = c.stamps[f]
                                     /\ Forget(c, files).owned[f] = c.owned[f]
<1> DEFINE d == Forget(c, files)
<1>1. /\ d.stamps = [f \in Files |-> IF f \in files THEN 0 ELSE c.stamps[f]]
      /\ d.located = {l \in c.located : ~(l[2] \in files /\ l[1] \in c.owned[l[2]])}
      /\ d.owned = [f \in Files |-> IF f \in files THEN {} ELSE c.owned[f]]
  BY DEF Forget
<1>2. d.located = UNION {d.owned[f] \X {f} : f \in Files}
  <2>1. c.located = UNION {c.owned[f] \X {f} : f \in Files}
    BY DEF Sound
  <2>2. ASSUME NEW l \in d.located  PROVE l \in UNION {d.owned[f] \X {f} : f \in Files}
    <3>1. PICK f \in Files : l \in c.owned[f] \X {f}
      BY <1>1, <2>1
    <3>2. l[1] \in c.owned[f] /\ l[2] = f /\ l = <<l[1], f>>
      BY <3>1
    <3>3. f \notin files
      BY <1>1, <3>2
    <3>4. d.owned[f] = c.owned[f]
      BY <1>1, <3>3
    <3> QED
      BY <3>1, <3>4
  <2>3. ASSUME NEW f \in Files, NEW l \in d.owned[f] \X {f}  PROVE l \in d.located
    <3>1. f \notin files /\ d.owned[f] = c.owned[f]
      BY <1>1
    <3>2. l \in c.located /\ l[2] = f
      BY <2>1, <3>1
    <3> QED
      BY <1>1, <3>1, <3>2
  <2> QED
    BY <2>2, <2>3
<1>3. d.stamps \in [Files -> Nat] /\ DOMAIN d.owned = Files
  BY <1>1 DEF Sound
<1>4. /\ \A f \in files : d.stamps[f] = 0 /\ d.owned[f] = {}
      /\ \A f \in Files \ files : d.stamps[f] = c.stamps[f] /\ d.owned[f] = c.owned[f]
  BY <1>1
<1> QED
  BY <1>2, <1>3, <1>4 DEF Sound

(* What is adopted is located, and the rest is as it was.                  *)
LEMMA AdoptForm ==
  ASSUME NEW c, Sound(c), NEW files \in SUBSET Files, NEW described, DOMAIN described = files,
         \A f \in files : described[f].stamp \in Nat
  PROVE  /\ Sound(Adopt(c, described))
         /\ \A f \in files : /\ Adopt(c, described).stamps[f] = described[f].stamp
                             /\ Adopt(c, described).owned[f] = described[f].chunks
         /\ \A f \in Files \ files : /\ Adopt(c, described).stamps[f] = c.stamps[f]
                                     /\ Adopt(c, described).owned[f] = c.owned[f]
<1> DEFINE w == Forget(c, files)
           d == Adopt(c, described)
<1>1. /\ d.stamps = [f \in Files |-> IF f \in files THEN described[f].stamp ELSE w.stamps[f]]
      /\ d.located = w.located \cup UNION {described[f].chunks \X {f} : f \in files}
      /\ d.owned = [f \in Files |-> IF f \in files THEN described[f].chunks ELSE w.owned[f]]
  BY DEF Adopt
<1>2. /\ w.stamps \in [Files -> Nat] /\ DOMAIN w.owned = Files
      /\ w.located = UNION {w.owned[f] \X {f} : f \in Files}
      /\ \A f \in files : w.owned[f] = {}
      /\ \A f \in Files \ files : w.stamps[f] = c.stamps[f] /\ w.owned[f] = c.owned[f]
  BY ForgetForm DEF Sound
<1> HIDE DEF w, d
<1>3. d.located = UNION {d.owned[f] \X {f} : f \in Files}
  <2>1. \A f \in files : d.owned[f] = described[f].chunks
    BY <1>1
  <2>2. \A f \in Files \ files : d.owned[f] = w.owned[f]
    BY <1>1
  <2>3. ASSUME NEW l \in w.located  PROVE l \in UNION {d.owned[f] \X {f} : f \in Files}
    <3>1. PICK f \in Files : l \in w.owned[f] \X {f}
      BY <1>2
    <3>2. f \notin files
      BY <1>2, <3>1
    <3> QED
      BY <2>2, <3>1, <3>2
  <2>4. ASSUME NEW f \in Files \ files, NEW l \in d.owned[f] \X {f}  PROVE l \in w.located
    BY <1>2, <2>2
  <2> QED
    BY <1>1, <2>1, <2>3, <2>4
<1>4. d.stamps \in [Files -> Nat] /\ DOMAIN d.owned = Files
  BY <1>1, <1>2
<1>5. /\ \A f \in files : d.stamps[f] = described[f].stamp /\ d.owned[f] = described[f].chunks
      /\ \A f \in Files \ files : d.stamps[f] = c.stamps[f] /\ d.owned[f] = c.owned[f]
  BY <1>1, <1>2
<1>6. Sound(d)
  BY <1>3, <1>4 DEF Sound
<1> QED
  BY <1>5, <1>6 DEF d


-----------------------------------------------------------------------------
(* The invariant holds initially: nothing is indexed. *)
LEMMA IndexInitially == MirrorInit => IndexInv
<1> SUFFICES ASSUME MirrorInit  PROVE IndexInv
  OBVIOUS
<1> USE BaselineBounds DEF MirrorInit, BaselineInit
<1>1. 1 \in Versions /\ 0 \in Nat
  BY DEF Versions
<1>2. GameOK
  BY <1>1 DEF GameOK
<1>3. RecordsOK
  BY DEF RecordsOK, Decoded, NoRecord
<1>4. /\ catalogue.stamps = [f \in Files |-> 0] /\ catalogue.located = {}
      /\ catalogue.owned = [f \in Files |-> {}]
  BY DEF EmptyCatalogue
<1>5. CatalogueOK
  BY <1>4 DEF CatalogueOK, Sound
<1>6. worker.step = "off" /\ DOMAIN worker = {"step", "file", "stamp", "chunks"}
  BY DEF NoWorker
<1>7. WorkerOK
  BY <1>6 DEF WorkerOK, AtPack, Described
<1>8. QueueOK
  BY <1>6 DEF QueueOK, AtPack, Before
<1>9. WaiterOK
  BY <1>6 DEF WaiterOK, NoWaiter
<1>10. ScannedOK
  BY DEF ScannedOK
<1> QED
  BY <1>2, <1>3, <1>5, <1>7, <1>8, <1>9, <1>10 DEF IndexInv

(* A pack that changes has a stamp it never had, or none. *)
LEMMA GameStep ==
  ASSUME GameOK, [MirrorNext]_allVars
  PROVE  /\ GameOK'
         /\ \A f \in Files : game[f].version <= game'[f].version
         /\ \A f \in Files : \/ game'[f] = game[f]
                             \/ /\ StampOf(f)' = 0 \/ StampOf(f)' = game[f].version + 1
                                /\ f \in changed'
<1> DEFINE Goes == /\ \A f \in Files : game[f].version <= game'[f].version
                   /\ \A f \in Files : \/ game'[f] = game[f]
                                       \/ /\ StampOf(f)' = 0 \/ StampOf(f)' = game[f].version + 1
                                          /\ f \in changed'
<1>t. /\ game \in [Files -> [version : Versions, there : BOOLEAN]]
      /\ \A f \in Files : game[f].version \in Nat
      /\ scanned \in [Files -> Nat] /\ \A f \in Files : scanned[f] <= game[f].version
  BY BaselineBounds DEF GameOK, Versions
<1>1. ASSUME UNCHANGED <<game, scanned>>  PROVE GameOK' /\ Goes
  BY <1>1, <1>t DEF GameOK
<1>2. CASE OpenSession
  <2>1. game' = game /\ scanned' = [f \in Files |-> 0]
    BY <1>2 DEF OpenSession, worldVars
  <2> QED
    BY <1>t, <2>1 DEF GameOK
<1>3. CASE Scan
  <2>1. game' = game /\ scanned' = [f \in Files |-> StampOf(f)]
    BY <1>3 DEF Scan, worldVars
  <2>2. \A f \in Files : StampOf(f) \in Nat /\ StampOf(f) <= game[f].version
    BY <1>t DEF StampOf
  <2> QED
    BY <1>t, <2>1, <2>2 DEF GameOK
<1>4. ASSUME NEW f \in Files, GameChanges(f)  PROVE GameOK' /\ Goes
  <2>1. scanned' = scanned /\ changed' = changed \cup {f}
    BY <1>4 DEF GameChanges
  <2>2. CASE game[f].version < MaxVersion /\ game' = [game EXCEPT ![f] = [version |-> @.version + 1, there |-> TRUE]]
    <3>1. /\ game'[f] = [version |-> game[f].version + 1, there |-> TRUE]
          /\ game' \in [Files -> [version : Versions, there : BOOLEAN]]
          /\ \A g \in Files \ {f} : game'[g] = game[g]
      <4>1. game[f].version + 1 \in Versions
        BY <1>t, <2>2, BaselineBounds DEF Versions
      <4> QED
        BY <1>t, <2>2, <4>1
    <3>2. game'[f].version = game[f].version + 1 /\ game'[f].there
      BY <3>1
    <3>3. StampOf(f)' = game[f].version + 1
      BY <3>2 DEF StampOf
    <3>4. \A g \in Files : game[g].version <= game'[g].version
      BY <1>t, <3>1, <3>2
    <3>5. \A g \in Files : scanned[g] <= game'[g].version
      BY <1>t, <3>1, <3>2
    <3> QED
      BY <1>t, <2>1, <3>1, <3>3, <3>4, <3>5 DEF GameOK
  <2>3. CASE game' = [game EXCEPT ![f].there = FALSE]
    <3>1. /\ game'[f].version = game[f].version /\ ~game'[f].there
          /\ game' \in [Files -> [version : Versions, there : BOOLEAN]]
          /\ \A g \in Files \ {f} : game'[g] = game[g]
      BY <1>t, <2>3
    <3>2. StampOf(f)' = 0
      BY <3>1 DEF StampOf
    <3> QED
      BY <1>t, <2>1, <3>1, <3>2 DEF GameOK
  <2> QED
    BY <1>4, <2>2, <2>3 DEF GameChanges
<1>5. OpenSession \/ Scan \/ (\E f \in Files : GameChanges(f)) \/ UNCHANGED <<game, scanned>>
  <2>1. CASE IndexNext
    BY <2>1 DEF IndexNext, WorkerStep, CloseSession, Stop, Joined, Restore, Claim, End, ReadPack, Compare,
                AdoptDescribed, OpenRecord, WriteRecord, Complete, WaitEnds, DiscardChanged, Abandon, worldVars
  <2>2. ASSUME NEW m \in Mods, Await(Counterparts[m])  PROVE UNCHANGED <<game, scanned>>
    BY <2>2 DEF Await, worldVars
  <2>3. Crash \/ Leaves \/ IndexStays => UNCHANGED <<game, scanned>>
    BY DEF Crash, Leaves, IndexStays, worldVars
  <2> QED
    BY <2>1, <2>2, <2>3, StepCases
<1> QED
  BY <1>1, <1>2, <1>3, <1>4, <1>5

(* What a stamp vouches for it vouches for ever: stamps only grow. *)
LEMMA VouchedStays ==
  ASSUME GameOK, [MirrorNext]_allVars, NEW f \in Files, NEW stamp, NEW chunks, Vouched(f, stamp, chunks)
  PROVE  stamp \in Versions /\ stamp <= game'[f].version /\ chunks = DigestsAt(f, stamp)
<1>1. game[f].version \in Nat /\ game'[f].version \in Nat /\ game[f].version <= game'[f].version
  BY GameStep, BaselineBounds DEF GameOK, Versions
<1>2. stamp \in Versions /\ stamp <= game[f].version /\ stamp \in Nat /\ chunks = DigestsAt(f, stamp)
  BY BaselineBounds DEF Vouched, Versions
<1> QED
  BY <1>1, <1>2

(* A record that can be read is of a stamp its pack had. *)
LEMMA RecordsKept ==
  ASSUME IndexInv, [MirrorNext]_allVars
  PROVE  RecordsOK'
<1>i. GameOK /\ RecordsOK /\ WorkerOK
  BY DEF IndexInv
<1>1. /\ DOMAIN records' = Files
      /\ \A f \in Files : \/ records'[f] = records[f]
                          \/ records'[f] \in {NoRecord, TornRecord}
                          \/ /\ worker.step = "write" /\ f = worker.file
                             /\ records'[f] = Record(worker.stamp, worker.chunks)
  <2>1. CASE Restore
    <3>1. records' = [f \in Files |-> IF f \in LoadAll \ {g \in LoadAll : scanned[g] # 0 /\ records[g].stamp = scanned[g]}
                                      THEN NoRecord ELSE records[f]]
      BY <2>1 DEF Restore
    <3> QED
      BY <3>1
  <2>2. CASE OpenRecord
    BY <1>i, <2>2 DEF OpenRecord, RecordsOK, At
  <2>3. CASE WriteRecord
    BY <1>i, <2>3 DEF WriteRecord, RecordsOK, At
  <2>4. CASE IndexNext /\ ~Restore /\ ~OpenRecord /\ ~WriteRecord
    <3>1. records' = records
      BY <2>4 DEF IndexNext, WorkerStep, CloseSession, Stop, Joined, Scan, Claim, End, ReadPack, Compare,
                  AdoptDescribed, Complete, WaitEnds, DiscardChanged, Abandon, GameChanges
    <3> QED
      BY <1>i, <3>1 DEF RecordsOK
  <2>5. ASSUME NEW m \in Mods, Await(Counterparts[m])  PROVE records' = records
    BY <2>5 DEF Await
  <2>6. OpenSession \/ Crash \/ Leaves \/ IndexStays => records' = records
    BY DEF OpenSession, Crash, Leaves, IndexStays
  <2> QED
    BY <1>i, <2>1, <2>2, <2>3, <2>4, <2>5, <2>6, StepCases DEF RecordsOK
<1>2. ASSUME NEW f \in Files, records'[f].state = "whole"
      PROVE  Vouched(f, records'[f].stamp, records'[f].chunks)
  <2>1. CASE records'[f] = records[f]
    BY <1>i, <1>2, <2>1 DEF RecordsOK, Decoded
  <2>2. CASE records'[f] \in {NoRecord, TornRecord}
    BY <1>2, <2>2 DEF NoRecord, TornRecord
  <2>3. CASE worker.step = "write" /\ f = worker.file /\ records'[f] = Record(worker.stamp, worker.chunks)
    BY <1>i, <2>3 DEF WorkerOK, Described, Record
  <2> QED
    BY <1>1, <2>1, <2>2, <2>3
<1>3. ASSUME NEW f \in Files, records'[f].state = "whole"
      PROVE  /\ records'[f].stamp \in Versions /\ records'[f].stamp <= game'[f].version
             /\ records'[f].chunks = DigestsAt(f, records'[f].stamp)
  BY <1>i, <1>2, <1>3, VouchedStays
<1> QED
  BY <1>1, <1>3 DEF RecordsOK, Decoded, Vouched

(* The catalogue adopts what was vouched for, and forgets. *)
LEMMA CatalogueForms ==
  ASSUME IndexInv, [MirrorNext]_allVars
  PROVE  /\ Sound(catalogue')
         /\ \A f \in Files :
              \/ catalogue'.stamps[f] = catalogue.stamps[f] /\ catalogue'.owned[f] = catalogue.owned[f]
              \/ catalogue'.stamps[f] = 0 /\ catalogue'.owned[f] = {}
              \/ Vouched(f, catalogue'.stamps[f], catalogue'.owned[f])
         /\ \A f \in Files :
              \/ catalogue'.stamps[f] = catalogue.stamps[f]
              \/ OpenSession \/ Restore
              \/ AdoptDescribed /\ f = worker.file
              \/ DiscardChanged /\ StampOf(f) # catalogue.stamps[f]
         /\ Restore => \A f \in Files : f \in pending' \/ scanned[f] = 0 \/ catalogue'.stamps[f] = scanned[f]
         /\ AdoptDescribed => catalogue'.stamps[worker.file] = worker.stamp
         /\ DiscardChanged => \A f \in Files : catalogue'.stamps[f] # 0 => StampOf(f) = catalogue'.stamps[f]
<1>i. GameOK /\ RecordsOK /\ WorkerOK /\ CatalogueOK /\ Sound(catalogue)
  BY DEF IndexInv, CatalogueOK
<1> DEFINE Form(f) ==
             \/ catalogue'.stamps[f] = catalogue.stamps[f] /\ catalogue'.owned[f] = catalogue.owned[f]
             \/ catalogue'.stamps[f] = 0 /\ catalogue'.owned[f] = {}
             \/ Vouched(f, catalogue'.stamps[f], catalogue'.owned[f])
           Whole == Sound(catalogue') /\ \A f \in Files : Form(f)
<1>1. ASSUME OpenSession  PROVE Whole
  <2>1. /\ catalogue'.stamps = [f \in Files |-> 0] /\ catalogue'.located = {}
        /\ catalogue'.owned = [f \in Files |-> {}]
    BY <1>1 DEF OpenSession, EmptyCatalogue
  <2> QED
    BY <1>1, <2>1 DEF Sound
<1>2. ASSUME Restore
      PROVE  Whole /\ \A f \in Files : f \in pending' \/ scanned[f] = 0 \/ catalogue'.stamps[f] = scanned[f]
  <2> DEFINE current == {f \in LoadAll : scanned[f] # 0 /\ records[f].stamp = scanned[f]}
             kept == [f \in current |-> records[f]]
  <2>1. catalogue' = Adopt(catalogue, kept) /\ pending' = {f \in Files : scanned[f] # 0} \ current
    BY <1>2 DEF Restore
  <2>2. /\ current \subseteq Files /\ DOMAIN kept = current
        /\ \A f \in current : /\ kept[f] = records[f] /\ kept[f].stamp = scanned[f]
                              /\ Vouched(f, kept[f].stamp, kept[f].chunks)
    BY <1>i DEF RecordsOK, LoadAll
  <2> HIDE DEF kept, current
  <2>3. \A f \in current : kept[f].stamp \in Nat
    <3> SUFFICES ASSUME NEW f \in current  PROVE kept[f].stamp \in Nat
      OBVIOUS
    <3>1. f \in Files /\ kept[f].stamp = scanned[f]
      BY <2>2
    <3> QED
      BY <1>i, <3>1 DEF GameOK
  <2>4. /\ Sound(Adopt(catalogue, kept))
        /\ \A f \in current : /\ Adopt(catalogue, kept).stamps[f] = kept[f].stamp
                              /\ Adopt(catalogue, kept).owned[f] = kept[f].chunks
        /\ \A f \in Files \ current : /\ Adopt(catalogue, kept).stamps[f] = catalogue.stamps[f]
                                      /\ Adopt(catalogue, kept).owned[f] = catalogue.owned[f]
    BY <1>i, <2>2, <2>3, AdoptForm
  <2> QED
    BY <1>2, <2>1, <2>2, <2>4
<1>3. ASSUME AdoptDescribed
      PROVE  /\ Whole /\ catalogue'.stamps[worker.file] = worker.stamp
             /\ \A f \in Files : catalogue'.stamps[f] = catalogue.stamps[f] \/ f = worker.file
  <2> DEFINE one == [f \in {worker.file} |-> Record(worker.stamp, worker.chunks)]
             own == {worker.file}
  <2>1. catalogue' = Adopt(catalogue, one) /\ worker.step = "adopt"
    BY <1>3 DEF AdoptDescribed, At
  <2>2. worker.file \in Files /\ Vouched(worker.file, worker.stamp, worker.chunks) /\ worker.stamp \in Nat
    BY <1>i, <2>1 DEF WorkerOK, AtPack, Described
  <2>3. /\ DOMAIN one = own /\ one[worker.file].stamp = worker.stamp
        /\ one[worker.file].chunks = worker.chunks
    BY DEF Record
  <2>4. own \subseteq Files /\ \A f \in own : f = worker.file
    BY <2>2
  <2>5. worker.file \in own
    OBVIOUS
  <2> HIDE DEF one, own
  <2>6. \A f \in own : one[f].stamp \in Nat
    BY <2>2, <2>3, <2>4
  <2>7. /\ Sound(Adopt(catalogue, one))
        /\ \A f \in own : /\ Adopt(catalogue, one).stamps[f] = one[f].stamp
                            /\ Adopt(catalogue, one).owned[f] = one[f].chunks
        /\ \A f \in Files \ own : /\ Adopt(catalogue, one).stamps[f] = catalogue.stamps[f]
                                    /\ Adopt(catalogue, one).owned[f] = catalogue.owned[f]
    <3>1. Sound(catalogue) /\ own \in SUBSET Files /\ DOMAIN one = own /\ \A f \in own : one[f].stamp \in Nat
      BY <1>i, <2>3, <2>4, <2>6
    <3> QED
      BY <3>1, AdoptForm, SMTT(30)
  <2> QED
    BY <1>3, <2>1, <2>2, <2>3, <2>4, <2>5, <2>7
<1>4. ASSUME DiscardChanged
      PROVE  /\ Whole
             /\ \A f \in Files : catalogue'.stamps[f] = catalogue.stamps[f] \/ StampOf(f) # catalogue.stamps[f]
             /\ \A f \in Files : catalogue'.stamps[f] # 0 => StampOf(f) = catalogue'.stamps[f]
  <2> DEFINE stale == {f \in Files : catalogue.stamps[f] # 0 /\ StampOf(f) # catalogue.stamps[f]}
  <2>1. catalogue' = Forget(catalogue, stale)
    BY <1>4 DEF DiscardChanged, Discarded
  <2>2. /\ Sound(Forget(catalogue, stale))
        /\ \A f \in stale : Forget(catalogue, stale).stamps[f] = 0 /\ Forget(catalogue, stale).owned[f] = {}
        /\ \A f \in Files \ stale : /\ Forget(catalogue, stale).stamps[f] = catalogue.stamps[f]
                                    /\ Forget(catalogue, stale).owned[f] = catalogue.owned[f]
    BY <1>i, ForgetForm
  <2> QED
    BY <1>4, <2>1, <2>2
<1>5. OpenSession \/ Restore \/ AdoptDescribed \/ DiscardChanged \/ catalogue' = catalogue
  <2>1. CASE IndexNext
    BY <2>1 DEF IndexNext, WorkerStep, CloseSession, Stop, Joined, Scan, Claim, End, ReadPack, Compare,
                OpenRecord, WriteRecord, Complete, WaitEnds, Abandon, GameChanges
  <2>2. ASSUME NEW m \in Mods, Await(Counterparts[m])  PROVE catalogue' = catalogue
    BY <2>2 DEF Await
  <2>3. Crash \/ Leaves \/ IndexStays => catalogue' = catalogue
    BY DEF Crash, Leaves, IndexStays
  <2> QED
    BY <2>1, <2>2, <2>3, StepCases
<1>6. Whole
  <2>1. catalogue' = catalogue => Whole
    BY <1>i
  <2> QED
    BY <1>1, <1>2, <1>3, <1>4, <1>5, <2>1
<1> QED
  BY <1>2, <1>3, <1>4, <1>5, <1>6

(* What the catalogue locates its stamps vouch for. *)
LEMMA CatalogueKept ==
  ASSUME IndexInv, [MirrorNext]_allVars
  PROVE  CatalogueOK'
<1>i. GameOK /\ CatalogueOK
  BY DEF IndexInv
<1>1. Sound(catalogue')
  BY CatalogueForms
<1>2. ASSUME NEW f \in Files
      PROVE  \/ catalogue'.stamps[f] = 0 /\ catalogue'.owned[f] = {}
             \/ Vouched(f, catalogue'.stamps[f], catalogue'.owned[f])
  BY <1>i, CatalogueForms DEF CatalogueOK
<1>3. ASSUME NEW f \in Files, Vouched(f, catalogue'.stamps[f], catalogue'.owned[f])
      PROVE  /\ catalogue'.stamps[f] \in Versions /\ catalogue'.stamps[f] <= game'[f].version
             /\ catalogue'.owned[f] = DigestsAt(f, catalogue'.stamps[f])
  BY <1>i, <1>3, VouchedStays
<1> QED
  BY <1>1, <1>2, <1>3 DEF CatalogueOK, Sound, Vouched

(* What each step does to the worker; the other steps leave it alone. *)
LEMMA WorkerSteps ==
  ASSUME IndexInv, [MirrorNext]_allVars
  PROVE  /\ \/ WorkerStep \/ worker' = worker
            \/ worker'.step = "scan" /\ OpenSession
            \/ worker'.step = "off" /\ (Joined \/ Crash)
         /\ Scan => worker'.step = "restore"
         /\ Restore => worker'.step = "claim"
         /\ End => worker'.step = "ended"
         /\ Complete => worker'.step = "claim"
         /\ ReadPack \/ Compare \/ AdoptDescribed \/ OpenRecord \/ WriteRecord =>
              worker'.file = worker.file /\ worker'.stamp = worker.stamp
         /\ ReadPack => \/ worker'.step = "failed"
                        \/ /\ worker'.step = "compare" /\ game[worker.file].there
                           /\ worker'.chunks = DigestsAt(worker.file, game[worker.file].version)
         /\ Compare => worker'.step = "failed" \/ (worker'.step = "adopt" /\ Unchanged)
         /\ AdoptDescribed => worker'.step = "open"
         /\ OpenRecord => worker'.step \in {"write", "complete"}
         /\ WriteRecord => worker'.step = "complete"
         /\ Compare \/ AdoptDescribed \/ OpenRecord \/ WriteRecord => worker'.chunks = worker.chunks
         /\ DOMAIN worker' = {"step", "file", "stamp", "chunks"}
<1>d. DOMAIN worker = {"step", "file", "stamp", "chunks"}
  BY DEF IndexInv, WorkerOK
<1>1. \/ WorkerStep \/ worker' = worker
      \/ worker'.step = "scan" /\ OpenSession
      \/ worker'.step = "off" /\ (Joined \/ Crash)
  <2>1. OpenSession => worker'.step = "scan"
    BY DEF OpenSession, NoWorker
  <2>2. Joined \/ Crash => worker'.step = "off"
    BY DEF Joined, Crash, NoWorker
  <2>3. IndexNext => WorkerStep \/ Joined \/ worker' = worker
    BY DEF IndexNext, CloseSession, Stop, WaitEnds, DiscardChanged, Abandon, GameChanges
  <2>4. ASSUME NEW m \in Mods, Await(Counterparts[m])  PROVE worker' = worker
    BY <2>4 DEF Await
  <2>5. Leaves \/ IndexStays => worker' = worker
    BY DEF Leaves, IndexStays
  <2> QED
    BY <2>1, <2>2, <2>3, <2>4, <2>5, StepCases
<1>2. Scan => worker'.step = "restore"
  BY <1>d DEF Scan
<1>3. Restore => worker'.step = "claim"
  BY <1>d DEF Restore
<1>4. End => worker'.step = "ended"
  BY <1>d DEF End
<1>5. Complete => worker'.step = "claim"
  BY <1>d DEF Complete
<1>6. ReadPack => /\ worker'.file = worker.file /\ worker'.stamp = worker.stamp
                  /\ \/ worker'.step = "failed"
                     \/ /\ worker'.step = "compare" /\ game[worker.file].there
                        /\ worker'.chunks = DigestsAt(worker.file, game[worker.file].version)
  BY <1>d DEF ReadPack
<1>7. Compare => /\ worker'.file = worker.file /\ worker'.stamp = worker.stamp /\ worker'.chunks = worker.chunks
                 /\ worker'.step = "failed" \/ (worker'.step = "adopt" /\ Unchanged)
  <2> DEFINE next == IF Unchanged THEN "adopt" ELSE "failed"
  <2>1. Compare => worker' = [worker EXCEPT !.step = next]
    BY DEF Compare
  <2>2. next = "failed" \/ (next = "adopt" /\ Unchanged)
    OBVIOUS
  <2> HIDE DEF next
  <2>3. Compare => /\ worker'.file = worker.file /\ worker'.stamp = worker.stamp /\ worker'.chunks = worker.chunks
                   /\ worker'.step = next
    BY <1>d, <2>1
  <2> QED
    BY <2>2, <2>3
<1>8. AdoptDescribed => /\ worker'.file = worker.file /\ worker'.stamp = worker.stamp
                        /\ worker'.chunks = worker.chunks /\ worker'.step = "open"
  BY <1>d DEF AdoptDescribed
<1>9. OpenRecord => /\ worker'.file = worker.file /\ worker'.stamp = worker.stamp
                    /\ worker'.chunks = worker.chunks /\ worker'.step \in {"write", "complete"}
  BY <1>d DEF OpenRecord
<1>10. WriteRecord => /\ worker'.file = worker.file /\ worker'.stamp = worker.stamp
                      /\ worker'.chunks = worker.chunks /\ worker'.step = "complete"
  BY <1>d DEF WriteRecord
<1>11. DOMAIN worker' = {"step", "file", "stamp", "chunks"}
  <2>1. OpenSession \/ Joined \/ Crash => DOMAIN worker' = {"step", "file", "stamp", "chunks"}
    BY DEF OpenSession, Joined, Crash, NoWorker
  <2>2. WorkerStep => DOMAIN worker' = {"step", "file", "stamp", "chunks"}
    BY <1>d DEF WorkerStep, Scan, Restore, Claim, End, ReadPack, Compare, AdoptDescribed, OpenRecord,
                WriteRecord, Complete
  <2> QED
    BY <1>1, <1>d, <2>1, <2>2
<1> QED
  BY <1>1, <1>2, <1>3, <1>4, <1>5, <1>6, <1>7, <1>8, <1>9, <1>10, <1>11

(* The worker's pack keeps a stamp that the scan does not overtake, and    *)
(* what the worker described is what that stamp vouches for.               *)
LEMMA WorkerKept ==
  ASSUME IndexInv, [MirrorNext]_allVars
  PROVE  WorkerOK'
<1>i. GameOK /\ WorkerOK /\ QueueOK
  BY DEF IndexInv
<1>d. DOMAIN worker' = {"step", "file", "stamp", "chunks"}
  BY WorkerSteps
<1>g. /\ \A f \in Files : /\ scanned[f] \in Nat /\ game[f].version \in Nat /\ game[f].version \in Versions
                          /\ game'[f].version \in Nat /\ game[f].version <= game'[f].version
                          /\ scanned[f] <= game[f].version
                          /\ StampOf(f) \in {0, game[f].version}
      /\ Versions \subseteq Nat
  <2>1. \A f \in Files : StampOf(f) \in {0, game[f].version}
    BY DEF StampOf
  <2> QED
    BY <1>i, <2>1, GameStep, BaselineBounds DEF GameOK, Versions
<1> DEFINE Same == worker'.file = worker.file /\ worker'.stamp = worker.stamp /\ game' = game /\ scanned' = scanned
<1>1. ASSUME worker' = worker, scanned' = scanned  PROVE WorkerOK'
  <2>1. AtPack =>
          /\ worker.file \in Files /\ worker.stamp \in Nat
          /\ worker.stamp # 0 => scanned[worker.file] <= worker.stamp /\ worker.stamp <= game'[worker.file].version
    BY <1>i, <1>g DEF WorkerOK
  <2>2. ASSUME worker.step = "compare"
        PROVE  \E v \in Versions : /\ worker.stamp <= v /\ v <= game'[worker.file].version
                                   /\ worker.chunks = DigestsAt(worker.file, v)
    <3>1. worker.file \in Files
      BY <1>i, <2>2 DEF WorkerOK, AtPack
    <3>2. PICK v \in Versions : /\ worker.stamp <= v /\ v <= game[worker.file].version
                                /\ worker.chunks = DigestsAt(worker.file, v)
      BY <1>i, <2>2 DEF WorkerOK
    <3>3. v <= game'[worker.file].version
      BY <1>g, <3>1, <3>2
    <3> QED
      BY <3>2, <3>3
  <2>3. ASSUME Described
        PROVE  /\ worker.stamp # 0 /\ worker.stamp \in Versions /\ worker.stamp <= game'[worker.file].version
               /\ worker.chunks = DigestsAt(worker.file, worker.stamp)
    <3>1. worker.file \in Files /\ worker.stamp # 0 /\ Vouched(worker.file, worker.stamp, worker.chunks)
      BY <1>i, <2>3 DEF WorkerOK, AtPack, Described
    <3> QED
      BY <1>i, <3>1, VouchedStays
  <2>4. /\ DOMAIN worker = {"step", "file", "stamp", "chunks"}
        /\ worker.step \in {"off", "scan", "restore", "claim", "read", "compare", "failed", "adopt",
                            "open", "write", "complete", "ended"}
    BY <1>i DEF WorkerOK
  <2> QED
    BY <1>1, <2>1, <2>2, <2>3, <2>4 DEF WorkerOK, AtPack, Described, Vouched
<1>2. ASSUME worker'.step \in {"off", "scan", "restore", "claim", "ended"}  PROVE WorkerOK'
  BY <1>2, <1>d DEF WorkerOK, AtPack, Described
<1>3. CASE Claim
  <2>1. PICK f \in queue : /\ worker' = [step |-> "read", file |-> f, stamp |-> StampOf(f), chunks |-> {}]
                           /\ game' = game /\ scanned' = scanned
    BY <1>3 DEF Claim, Foremost, worldVars
  <2>2. f \in Files
    BY <1>i DEF QueueOK
  <2>3. worker'.step = "read" /\ worker'.file = f /\ worker'.stamp = StampOf(f)
    BY <2>1
  <2>4. StampOf(f) \in Nat /\ (StampOf(f) # 0 => scanned[f] <= StampOf(f) /\ StampOf(f) <= game[f].version)
    BY <1>g, <2>2
  <2> QED
    BY <1>d, <2>1, <2>2, <2>3, <2>4 DEF WorkerOK, AtPack, Described
<1>4. CASE ReadPack
  <2>1. Same /\ AtPack /\ worker.step = "read"
    BY <1>4, WorkerSteps DEF ReadPack, worldVars, At, AtPack
  <2>2. /\ worker.file \in Files /\ worker.stamp \in Nat
        /\ worker.stamp # 0 => scanned[worker.file] <= worker.stamp /\ worker.stamp <= game[worker.file].version
    BY <1>i, <2>1 DEF WorkerOK
  <2>3. CASE worker'.step = "failed"
    BY <1>d, <2>1, <2>2, <2>3 DEF WorkerOK, AtPack, Described
  <2>4. CASE worker'.step = "compare" /\ worker'.chunks = DigestsAt(worker.file, game[worker.file].version)
    <3> DEFINE v == game[worker.file].version
    <3>1. v \in Versions /\ v \in Nat /\ v <= v /\ worker.stamp <= v
      BY <1>g, <2>2
    <3> HIDE DEF v
    <3>2. \E u \in Versions : /\ worker'.stamp <= u /\ u <= v
                              /\ worker'.chunks = DigestsAt(worker'.file, u)
      BY <2>1, <2>4, <3>1 DEF v
    <3> QED
      BY <1>d, <2>1, <2>2, <2>4, <3>2 DEF WorkerOK, AtPack, Described, v
  <2> QED
    BY <1>4, <2>3, <2>4, WorkerSteps
<1>5. CASE Compare
  <2>1. Same /\ AtPack /\ worker.step = "compare" /\ worker'.chunks = worker.chunks
    BY <1>5, WorkerSteps DEF Compare, worldVars, At, AtPack
  <2>2. /\ worker.file \in Files /\ worker.stamp \in Nat
        /\ worker.stamp # 0 => scanned[worker.file] <= worker.stamp /\ worker.stamp <= game[worker.file].version
    BY <1>i, <2>1 DEF WorkerOK
  <2>3. CASE worker'.step = "failed"
    BY <1>d, <2>1, <2>2, <2>3 DEF WorkerOK, AtPack, Described
  <2>4. CASE worker'.step = "adopt" /\ Unchanged
    <3>1. PICK v \in Versions : /\ worker.stamp <= v /\ v <= game[worker.file].version
                                /\ worker.chunks = DigestsAt(worker.file, v)
      BY <1>i, <2>1 DEF WorkerOK
    <3>2. worker.stamp # 0 /\ worker.stamp = game[worker.file].version
      BY <1>g, <2>2, <2>4 DEF Unchanged
    <3>3. v = worker.stamp
      BY <1>g, <2>2, <3>1, <3>2
    <3>4. Vouched(worker.file, worker.stamp, worker.chunks)
      BY <3>1, <3>3 DEF Vouched
    <3> QED
      BY <1>d, <2>1, <2>2, <2>4, <3>2, <3>4 DEF WorkerOK, AtPack, Described, Vouched
  <2> QED
    BY <1>5, <2>3, <2>4, WorkerSteps
<1>6. CASE AdoptDescribed \/ OpenRecord \/ WriteRecord
  <2>1. Same /\ AtPack /\ Described /\ worker'.chunks = worker.chunks
    BY <1>6, WorkerSteps DEF AdoptDescribed, OpenRecord, WriteRecord, worldVars, At, AtPack, Described
  <2>2. worker'.step \in {"open", "write", "complete"}
    BY <1>6, WorkerSteps
  <2>3. /\ worker.file \in Files /\ worker.stamp \in Nat /\ worker.stamp # 0
        /\ scanned[worker.file] <= worker.stamp /\ worker.stamp <= game[worker.file].version
        /\ Vouched(worker.file, worker.stamp, worker.chunks)
    BY <1>i, <2>1 DEF WorkerOK
  <2> QED
    BY <1>d, <2>1, <2>2, <2>3 DEF WorkerOK, AtPack, Described, Vouched
<1>7. worker' = worker => scanned' = scanned \/ worker'.step = "scan"
  <2>1. Scan => worker' # worker
    BY WorkerSteps DEF Scan, At
  <2>2. Restore \/ Claim \/ End \/ ReadPack \/ Compare \/ AdoptDescribed \/ OpenRecord \/ WriteRecord \/ Complete
          => scanned' = scanned
    BY DEF Restore, Claim, End, ReadPack, Compare, AdoptDescribed, OpenRecord, WriteRecord, Complete
  <2>3. CloseSession \/ Stop \/ Joined \/ WaitEnds \/ DiscardChanged \/ Abandon \/ (\E f \in Files : GameChanges(f))
          => scanned' = scanned
    BY DEF CloseSession, Stop, Joined, WaitEnds, DiscardChanged, Abandon, GameChanges
  <2>4. OpenSession => worker'.step = "scan"
    BY DEF OpenSession, NoWorker
  <2>5. ASSUME NEW m \in Mods, Await(Counterparts[m])  PROVE scanned' = scanned
    BY <2>5 DEF Await
  <2>6. Crash \/ Leaves \/ IndexStays => scanned' = scanned
    BY DEF Crash, Leaves, IndexStays
  <2> QED
    BY <2>1, <2>2, <2>3, <2>4, <2>5, <2>6, StepCases DEF IndexNext, WorkerStep
<1> QED
  BY <1>1, <1>2, <1>3, <1>4, <1>5, <1>6, <1>7, WorkerSteps DEF WorkerStep

(* What each step does to the queue; the other steps leave it alone. *)
LEMMA QueueSteps ==
  ASSUME IndexInv, [MirrorNext]_allVars
  PROVE  /\ \/ OpenSession \/ Stop \/ Restore \/ Claim \/ End \/ Complete
            \/ UNCHANGED <<queue, pending, flags>>
         /\ \/ OpenSession \/ Restore \/ Complete \/ failed' = failed
<1>1. CASE IndexNext
  BY <1>1 DEF IndexNext, WorkerStep, CloseSession, Joined, Stop, Scan, Claim, End, ReadPack, Compare,
              AdoptDescribed, OpenRecord, WriteRecord, WaitEnds, DiscardChanged, Abandon, GameChanges,
              indexVars
<1>2. ASSUME NEW m \in Mods, Await(Counterparts[m])  PROVE UNCHANGED <<queue, pending, flags, failed>>
  BY <1>2 DEF Await
<1>3. Crash \/ Leaves \/ IndexStays => UNCHANGED <<queue, pending, flags, failed>>
  BY DEF Crash, Leaves, IndexStays, indexVars
<1> QED
  BY <1>1, <1>2, <1>3, StepCases

(* A pack is pending as long as the queue or the worker has it. *)
LEMMA QueueKept ==
  ASSUME IndexInv, [MirrorNext]_allVars
  PROVE  QueueOK'
<1>i. WorkerOK /\ QueueOK /\ WaiterOK
  BY DEF IndexInv
<1>d. worker' = worker \/ DOMAIN worker' = {"step", "file", "stamp", "chunks"}
  BY WorkerSteps
<1>t. flags \in [restored : BOOLEAN, running : BOOLEAN, stopping : BOOLEAN]
  BY <1>i DEF QueueOK
<1>q. queue \subseteq pending /\ pending \subseteq Files
  BY <1>i DEF QueueOK
<1>1. CASE OpenSession
  <2>1. /\ queue' = {} /\ pending' = {} /\ worker'.step = "scan"
        /\ flags' = [restored |-> FALSE, running |-> TRUE, stopping |-> FALSE]
    BY <1>1 DEF OpenSession, NoWorker
  <2>2. flags' \in [restored : BOOLEAN, running : BOOLEAN, stopping : BOOLEAN] /\ ~flags'.restored /\ flags'.running
    BY <2>1
  <2> QED
    BY <2>1, <2>2 DEF QueueOK, Before, AtPack
<1>2. CASE Restore
  <2>1. /\ queue' = pending' /\ pending' \subseteq Files /\ worker.step = "restore" /\ worker'.step = "claim"
        /\ flags' = [flags EXCEPT !.restored = TRUE]
    BY <1>2, WorkerSteps DEF Restore, At
  <2>2. flags.running
    BY <1>i, <2>1 DEF QueueOK, Before
  <2>3. /\ flags' \in [restored : BOOLEAN, running : BOOLEAN, stopping : BOOLEAN]
        /\ flags'.restored /\ (flags'.running <=> flags.running)
    BY <1>t, <2>1
  <2> QED
    BY <2>1, <2>2, <2>3 DEF QueueOK, Before, AtPack
<1>3. CASE Claim
  <2>1. PICK f \in queue : /\ queue' = queue \ {f}
                           /\ worker' = [step |-> "read", file |-> f, stamp |-> StampOf(f), chunks |-> {}]
                           /\ pending' = pending /\ flags' = flags /\ worker.step = "claim"
    BY <1>3 DEF Claim, Foremost, At
  <2>2. worker'.step = "read" /\ worker'.file = f
    BY <2>1
  <2>3. flags.restored /\ flags.running /\ \A g \in pending : g \in queue
    BY <1>i, <2>1 DEF QueueOK, AtPack
  <2> QED
    BY <1>t, <1>q, <2>1, <2>2, <2>3 DEF QueueOK, Before, AtPack
<1>4. CASE End
  <2>1. /\ queue' = queue /\ pending' = pending /\ worker.step = "claim" /\ worker'.step = "ended"
        /\ flags' = [flags EXCEPT !.running = FALSE]
    BY <1>4, WorkerSteps DEF End, At
  <2>2. flags.stopping \/ queue = {}
    BY <1>4 DEF End
  <2>3. flags.restored /\ \A g \in pending : g \in queue
    BY <1>i, <2>1 DEF QueueOK, AtPack
  <2>4. /\ flags' \in [restored : BOOLEAN, running : BOOLEAN, stopping : BOOLEAN]
        /\ ~flags'.running /\ (flags'.restored <=> flags.restored) /\ (flags'.stopping <=> flags.stopping)
    BY <1>t, <2>1
  <2> QED
    BY <1>q, <2>1, <2>2, <2>3, <2>4 DEF QueueOK, Before, AtPack
<1>5. CASE Complete
  <2>1. /\ queue' = queue /\ pending' = pending \ {worker.file} /\ flags' = flags /\ AtPack
        /\ worker'.step = "claim" /\ worker.step # "ended"
    BY <1>5, WorkerSteps DEF Complete, At, AtPack
  <2>2. flags.restored /\ flags.running /\ worker.file \notin queue
    BY <1>i, <2>1 DEF QueueOK, AtPack
  <2>3. \A g \in pending : g \in queue \/ g = worker.file
    BY <1>i, <2>1 DEF QueueOK, AtPack
  <2> QED
    BY <1>t, <1>q, <2>1, <2>2, <2>3 DEF QueueOK, Before, AtPack
<1>6. CASE Stop
  <2>1. /\ queue' = queue /\ pending' = pending /\ worker' = worker
        /\ flags' = [flags EXCEPT !.stopping = TRUE]
    BY <1>6 DEF Stop
  <2>2. /\ flags' \in [restored : BOOLEAN, running : BOOLEAN, stopping : BOOLEAN]
        /\ (flags'.running <=> flags.running) /\ (flags'.restored <=> flags.restored) /\ flags'.stopping
    BY <1>t, <2>1
  <2> QED
    BY <1>i, <2>1, <2>2 DEF QueueOK, Before, AtPack
<1>7. CASE UNCHANGED <<queue, pending, flags>> /\ (Scan \/ worker' = worker \/ worker'.step = "off")
  <2>1. CASE Scan
    <3>1. worker.step = "scan" /\ worker'.step = "restore"
      BY <2>1, WorkerSteps DEF Scan, At
    <3> QED
      BY <1>i, <1>7, <3>1 DEF QueueOK, Before, AtPack
  <2>2. CASE worker' = worker
    BY <1>i, <1>7, <2>2 DEF QueueOK, Before, AtPack
  <2>3. CASE worker'.step = "off"
    BY <1>i, <1>7, <2>3 DEF QueueOK, Before, AtPack
  <2> QED
    BY <1>7, <2>1, <2>2, <2>3
<1>8. CASE /\ UNCHANGED <<queue, pending, flags>>
           /\ ReadPack \/ Compare \/ AdoptDescribed \/ OpenRecord \/ WriteRecord
  <2>1. AtPack /\ worker.step # "ended" /\ worker.step \notin {"off", "scan", "restore"}
    BY <1>8 DEF ReadPack, Compare, AdoptDescribed, OpenRecord, WriteRecord, At, AtPack
  <2>2. worker'.step \in {"compare", "failed", "adopt", "open", "write", "complete"} /\ worker'.file = worker.file
    BY <1>8, WorkerSteps
  <2>3. flags.restored /\ flags.running
    BY <1>i, <2>1 DEF QueueOK
  <2>4. /\ worker.file \in pending /\ worker.file \notin queue
        /\ \A f \in pending : f \in queue \/ f = worker.file
    BY <1>i, <2>1 DEF QueueOK
  <2> QED
    BY <1>t, <1>q, <1>8, <2>2, <2>3, <2>4 DEF QueueOK, Before, AtPack
<1> QED
  <2>1. \/ Restore \/ Claim \/ End \/ Complete \/ Scan \/ worker' = worker \/ worker'.step = "off" \/ OpenSession
        \/ ReadPack \/ Compare \/ AdoptDescribed \/ OpenRecord \/ WriteRecord
    BY WorkerSteps DEF WorkerStep
  <2> QED
    BY <1>1, <1>2, <1>3, <1>4, <1>5, <1>6, <1>7, <1>8, <2>1, QueueSteps

(* What each step does to the session and to the waiter. *)
LEMMA WaiterSteps ==
  ASSUME IndexInv, [MirrorNext]_allVars
  PROVE  /\ \/ OpenSession \/ CloseSession \/ Stop \/ Joined \/ Crash \/ session' = session
         /\ \/ waiter'.step = "none" /\ waiter' = NoWaiter
            \/ waiter' = waiter
            \/ waiter'.step = "waiting" /\ session = "open" /\ session' = session
            \/ CloseSession \/ WaitEnds \/ DiscardChanged \/ Abandon
         /\ CloseSession =>
              /\ waiter'.step = waiter.step /\ waiter'.wanted = waiter.wanted
              /\ waiter'.indexed = waiter.indexed /\ waiter'.abandoned = (waiter.step # "none")
         /\ WaitEnds =>
              /\ waiter.step = "waiting" /\ waiter'.step = "discard" /\ waiter'.wanted = waiter.wanted
              /\ waiter'.indexed = AllIndexed(waiter.wanted) /\ waiter'.abandoned = waiter.abandoned
         /\ DiscardChanged =>
              /\ waiter.step = "discard" /\ waiter'.step \in {"plan", "over"} /\ waiter'.wanted = waiter.wanted
              /\ waiter'.indexed = waiter.indexed /\ waiter'.abandoned = waiter.abandoned
         /\ Abandon =>
              /\ waiter'.step = waiter.step /\ waiter'.wanted = waiter.wanted
              /\ waiter'.indexed = waiter.indexed /\ waiter'.abandoned = TRUE
         /\ waiter' \in [step : {"none", "waiting", "discard", "plan", "over"}, wanted : SUBSET Files,
                         indexed : BOOLEAN, abandoned : BOOLEAN]
<1> DEFINE Waiters == [step : {"none", "waiting", "discard", "plan", "over"}, wanted : SUBSET Files,
                       indexed : BOOLEAN, abandoned : BOOLEAN]
<1>t. waiter \in Waiters /\ DOMAIN waiter = {"step", "wanted", "indexed", "abandoned"}
  BY DEF IndexInv, WaiterOK
<1>1. \/ OpenSession \/ CloseSession \/ Stop \/ Joined \/ Crash \/ session' = session
  <2>1. IndexNext => CloseSession \/ Stop \/ Joined \/ session' = session
    BY DEF IndexNext, WorkerStep, Scan, Restore, Claim, End, ReadPack, Compare, AdoptDescribed, OpenRecord,
           WriteRecord, Complete, WaitEnds, DiscardChanged, Abandon, GameChanges
  <2>2. ASSUME NEW m \in Mods, Await(Counterparts[m])  PROVE session' = session
    BY <2>2 DEF Await
  <2>3. Leaves \/ IndexStays => session' = session
    BY DEF Leaves, IndexStays
  <2> QED
    BY <2>1, <2>2, <2>3, StepCases
<1>n. waiter' = NoWaiter => waiter'.step = "none" /\ waiter' \in Waiters
  BY DEF NoWaiter
<1>2. ASSUME CloseSession
      PROVE  /\ waiter'.step = waiter.step /\ waiter'.wanted = waiter.wanted
             /\ waiter'.indexed = waiter.indexed /\ waiter'.abandoned = (waiter.step # "none")
             /\ waiter' \in Waiters
  <2> DEFINE there == waiter.step # "none"
  <2>1. waiter' = [waiter EXCEPT !.abandoned = there] /\ there \in BOOLEAN
    BY <1>2 DEF CloseSession
  <2> HIDE DEF there
  <2>2. /\ waiter'.step = waiter.step /\ waiter'.wanted = waiter.wanted
        /\ waiter'.indexed = waiter.indexed /\ waiter'.abandoned = there
        /\ waiter' \in Waiters
    BY <1>t, <2>1
  <2> QED
    BY <2>2 DEF there
<1>3. ASSUME WaitEnds
      PROVE  /\ waiter.step = "waiting" /\ waiter'.step = "discard" /\ waiter'.wanted = waiter.wanted
             /\ waiter'.indexed = AllIndexed(waiter.wanted) /\ waiter'.abandoned = waiter.abandoned
             /\ waiter' \in Waiters
  <2> DEFINE answer == AllIndexed(waiter.wanted)
             at == [waiter EXCEPT !.step = "discard"]
  <2>1. waiter' = [at EXCEPT !.indexed = answer] /\ waiter.step = "waiting"
    BY <1>3 DEF WaitEnds
  <2>2. answer \in BOOLEAN
    <3>1. flags.restored \in BOOLEAN
      BY DEF IndexInv, QueueOK
    <3> QED
      BY <3>1 DEF AllIndexed
  <2>3. at \in Waiters /\ at.step = "discard" /\ at.wanted = waiter.wanted /\ at.abandoned = waiter.abandoned
    BY <1>t
  <2> HIDE DEF answer, at
  <2>4. /\ waiter'.step = at.step /\ waiter'.wanted = at.wanted /\ waiter'.indexed = answer
        /\ waiter'.abandoned = at.abandoned /\ waiter' \in Waiters
    BY <2>1, <2>2, <2>3
  <2> QED
    BY <2>1, <2>3, <2>4 DEF answer
<1>4. ASSUME DiscardChanged
      PROVE  /\ waiter.step = "discard" /\ waiter'.step \in {"plan", "over"} /\ waiter'.wanted = waiter.wanted
             /\ waiter'.indexed = waiter.indexed /\ waiter'.abandoned = waiter.abandoned
             /\ waiter' \in Waiters
  <2> DEFINE next == IF waiter.abandoned THEN "over" ELSE "plan"
  <2>1. waiter' = [waiter EXCEPT !.step = next] /\ waiter.step = "discard"
    BY <1>4 DEF DiscardChanged
  <2>2. next \in {"over", "plan"}
    OBVIOUS
  <2> HIDE DEF next
  <2> QED
    BY <1>t, <2>1, <2>2
<1>5. ASSUME Abandon
      PROVE  /\ waiter'.step = waiter.step /\ waiter'.wanted = waiter.wanted
             /\ waiter'.indexed = waiter.indexed /\ waiter'.abandoned = TRUE
             /\ waiter' \in Waiters
  <2>1. waiter' = [waiter EXCEPT !.abandoned = TRUE]
    BY <1>5 DEF Abandon
  <2> QED
    BY <1>t, <2>1
<1>6. ASSUME NEW m \in Mods, Await(Counterparts[m])
      PROVE  /\ waiter'.step = "waiting" /\ session = "open" /\ session' = session
             /\ waiter' \in Waiters
  <2> DEFINE w == Counterparts[m]
  <2>1. w \in SUBSET Files
    BY MirrorBounds
  <2>2. waiter' = [NoWaiter EXCEPT !.step = "waiting", !.wanted = w] /\ session = "open" /\ session' = session
    BY <1>6 DEF Await
  <2> HIDE DEF w
  <2>3. waiter' = [step |-> "waiting", wanted |-> w, indexed |-> FALSE, abandoned |-> FALSE]
    BY <2>2 DEF NoWaiter
  <2>4. waiter'.step = "waiting"
    BY <2>3
  <2>5. waiter' \in Waiters
    BY <2>1, <2>3
  <2> QED
    BY <2>2, <2>4, <2>5
<1>7. OpenSession \/ Crash \/ Leaves => waiter' = NoWaiter
  BY DEF OpenSession, Crash, Leaves
<1>8. IndexNext => CloseSession \/ WaitEnds \/ DiscardChanged \/ Abandon \/ waiter' = waiter
  BY DEF IndexNext, WorkerStep, Stop, Joined, Scan, Restore, Claim, End, ReadPack, Compare, AdoptDescribed,
         OpenRecord, WriteRecord, Complete, GameChanges
<1>9. IndexStays => waiter' = waiter
  BY DEF IndexStays
<1>10. waiter' \in Waiters
  BY <1>t, <1>n, <1>2, <1>3, <1>4, <1>5, <1>6, <1>7, <1>8, <1>9, StepCases
<1>11. \/ waiter'.step = "none" /\ waiter' = NoWaiter
       \/ waiter' = waiter
       \/ waiter'.step = "waiting" /\ session = "open" /\ session' = session
       \/ CloseSession \/ WaitEnds \/ DiscardChanged \/ Abandon
  BY <1>n, <1>6, <1>7, <1>8, <1>9, StepCases
<1> QED
  BY <1>1, <1>2, <1>3, <1>4, <1>5, <1>10, <1>11

(* A waiter is answered when the index has run out of work, not only when  *)
(* it is done with what the waiter wants.                                  *)
LEMMA RunOutIsIndexed ==
  ASSUME IndexInv, waiter.step = "waiting", WaitEnds, ~waiter.abandoned
  PROVE  AllIndexed(waiter.wanted)
<1>i. WorkerOK /\ QueueOK /\ WaiterOK
  BY DEF IndexInv
<1>1. session \in {"open", "closing"} /\ ~flags.stopping /\ worker.step # "off"
  BY <1>i DEF WaiterOK
<1>2. AllIndexed(waiter.wanted) \/ ~flags.running
  BY <1>1 DEF WaitEnds
<1>3. CASE ~flags.running
  <2>1. worker.step = "ended"
    <3>1. ~Before
      BY <1>i, <1>3 DEF QueueOK
    <3>2. worker.step \in {"claim", "ended"} \/ AtPack
      BY <1>i, <1>1, <3>1 DEF WorkerOK, Before, AtPack
    <3> QED
      BY <1>i, <1>3, <3>2 DEF QueueOK
  <2>2. queue = {}
    BY <1>i, <1>1, <2>1 DEF QueueOK
  <2>3. flags.restored /\ pending = {}
    BY <1>i, <2>1, <2>2 DEF QueueOK, AtPack
  <2> QED
    BY <2>3 DEF AllIndexed
<1> QED
  BY <1>2, <1>3

(* A pack an answered waiter wants is not touched by the worker any more. *)
LEMMA AnswerStands ==
  ASSUME IndexInv, [MirrorNext]_allVars, waiter.step \in {"discard", "plan"}, waiter.indexed
  PROVE  /\ flags'.restored \/ waiter'.step = "none"
         /\ waiter.wanted \cap pending' = {} \/ waiter'.step = "none"
         /\ ~Restore
         /\ AdoptDescribed => worker.file \notin waiter.wanted
<1>i. QueueOK /\ WaiterOK
  BY DEF IndexInv
<1>1. flags.restored /\ waiter.wanted \cap pending = {}
  BY <1>i DEF WaiterOK
<1>2. ~Restore
  <2>1. Restore => Before
    BY DEF Restore, At, Before
  <2> QED
    BY <1>i, <1>1, <2>1 DEF QueueOK
<1>3. AdoptDescribed => worker.file \notin waiter.wanted
  <2>1. AdoptDescribed => AtPack
    BY DEF AdoptDescribed, At, AtPack
  <2> QED
    BY <1>i, <1>1, <2>1 DEF QueueOK
<1>4. OpenSession => waiter'.step = "none"
  BY DEF OpenSession, NoWaiter
<1>5. Stop \/ Claim \/ End \/ Complete => flags'.restored /\ pending' \subseteq pending
  <2>t. flags \in [restored : BOOLEAN, running : BOOLEAN, stopping : BOOLEAN]
    BY <1>i DEF QueueOK
  <2>1. Stop => flags'.restored /\ pending' \subseteq pending
    BY <1>1, <2>t DEF Stop
  <2>2. Claim => flags'.restored /\ pending' \subseteq pending
    BY <1>1 DEF Claim
  <2>3. End => flags'.restored /\ pending' \subseteq pending
    BY <1>1, <2>t DEF End
  <2>4. Complete => flags'.restored /\ pending' \subseteq pending
    BY <1>1 DEF Complete
  <2> QED
    BY <2>1, <2>2, <2>3, <2>4
<1> QED
  BY <1>1, <1>2, <1>3, <1>4, <1>5, QueueSteps

(* What a waiter was told stays true until it plans, and what it plans     *)
(* from stays as it was looked at, but for what the game changes.          *)
LEMMA WaiterKept ==
  ASSUME IndexInv, [MirrorNext]_allVars
  PROVE  WaiterOK'
<1>i. QueueOK /\ WaiterOK
  BY DEF IndexInv
<1>1. session' \in {"open", "closing", "stopping", "closed"}
  BY <1>i, WaiterSteps DEF WaiterOK, OpenSession, CloseSession, Stop, Joined, Crash
<1>2. ASSUME session' \in {"open", "closing"}  PROVE ~flags'.stopping /\ worker'.step # "off"
  <2>1. CASE OpenSession
    <3>1. flags' = [restored |-> FALSE, running |-> TRUE, stopping |-> FALSE] /\ worker'.step = "scan"
      BY <2>1 DEF OpenSession, NoWorker
    <3> QED
      BY <3>1
  <2>2. ASSUME ~OpenSession  PROVE /\ session \in {"open", "closing"} /\ ~flags.stopping /\ worker.step # "off"
                                   /\ ~Stop /\ ~Joined /\ ~Crash
    <3>1. ~Stop /\ ~Joined /\ ~Crash
      BY <1>2 DEF Stop, Joined, Crash
    <3>2. session \in {"open", "closing"}
      BY <1>2, <2>2, <3>1, WaiterSteps DEF CloseSession
    <3> QED
      BY <1>i, <3>1, <3>2 DEF WaiterOK
  <2>3. ASSUME ~OpenSession  PROVE ~flags'.stopping
    <3>t. flags \in [restored : BOOLEAN, running : BOOLEAN, stopping : BOOLEAN] /\ ~flags.stopping /\ ~Stop
      BY <1>i, <2>2, <2>3 DEF QueueOK
    <3>1. Restore => ~flags'.stopping
      BY <3>t DEF Restore
    <3>2. End => ~flags'.stopping
      BY <3>t DEF End
    <3>3. Claim \/ Complete => flags' = flags
      BY DEF Claim, Complete
    <3> QED
      BY <2>3, <3>t, <3>1, <3>2, <3>3, QueueSteps
  <2>4. ASSUME ~OpenSession  PROVE worker'.step # "off"
    <3>1. WorkerStep => worker'.step # "off"
      <4>1. Claim => worker'.step # "off"
        BY DEF Claim
      <4> QED
        BY <4>1, WorkerSteps DEF WorkerStep
    <3> QED
      BY <2>2, <2>4, <3>1, WorkerSteps
  <2> QED
    BY <2>1, <2>3, <2>4
<1>3. ASSUME waiter'.step # "none"  PROVE session' \in {"open", "closing"}
  <2>1. ~OpenSession /\ ~Crash
    BY <1>3 DEF OpenSession, Crash, NoWaiter
  <2>2. session \in {"open", "closing"}
    BY <1>i, <1>3, WaiterSteps DEF WaiterOK, CloseSession, WaitEnds, DiscardChanged, Abandon
  <2>3. ~Stop /\ ~Joined
    BY <1>3, <2>2 DEF Stop, Joined
  <2> QED
    BY <2>1, <2>2, <2>3, WaiterSteps DEF CloseSession
<1>4. ASSUME session' = "closing", waiter'.step # "none"  PROVE waiter'.abandoned
  <2>1. CASE CloseSession
    BY <1>4, <2>1, WaiterSteps
  <2>2. CASE ~CloseSession
    <3>1. session = "closing"
      BY <1>4, <2>2, WaiterSteps DEF OpenSession, Stop, Joined, Crash
    <3>2. CASE Abandon
      BY <3>2, WaiterSteps
    <3>3. CASE WaitEnds \/ DiscardChanged \/ waiter' = waiter
      <4>1. waiter.step # "none" /\ waiter'.abandoned = waiter.abandoned
        BY <1>4, <3>3, WaiterSteps
      <4> QED
        BY <1>i, <3>1, <4>1 DEF WaiterOK
    <3> QED
      BY <1>4, <2>2, <3>1, <3>2, <3>3, WaiterSteps
  <2> QED
    BY <2>1, <2>2
<1>5. ASSUME waiter'.step \in {"discard", "plan"}, waiter'.indexed
      PROVE  flags'.restored /\ waiter'.wanted \cap pending' = {}
  <2>1. CASE WaitEnds
    <3>1. AllIndexed(waiter.wanted) /\ waiter'.wanted = waiter.wanted
      BY <1>5, <2>1, WaiterSteps
    <3>2. flags' = flags /\ pending' = pending
      BY <2>1 DEF WaitEnds, indexVars
    <3> QED
      BY <3>1, <3>2 DEF AllIndexed
  <2>2. CASE ~WaitEnds
    <3>1. /\ waiter.step \in {"discard", "plan"} /\ waiter'.wanted = waiter.wanted
          /\ waiter'.indexed = waiter.indexed
      BY <1>5, <2>2, WaiterSteps
    <3>2. waiter.indexed
      BY <1>5, <3>1
    <3> QED
      BY <1>5, <3>1, <3>2, AnswerStands
  <2> QED
    BY <2>1, <2>2
<1>6. ASSUME waiter'.step \in {"discard", "plan"}, ~waiter'.indexed  PROVE waiter'.abandoned
  <2>1. CASE WaitEnds
    <3>1. waiter.step = "waiting" /\ ~AllIndexed(waiter.wanted) /\ waiter'.abandoned = waiter.abandoned
      BY <1>6, <2>1, WaiterSteps
    <3> QED
      BY <2>1, <3>1, RunOutIsIndexed
  <2>2. CASE CloseSession \/ Abandon
    BY <1>6, <2>2, WaiterSteps
  <2>3. CASE DiscardChanged \/ waiter' = waiter
    <3>1. /\ waiter.step \in {"discard", "plan"} /\ waiter'.indexed = waiter.indexed
          /\ waiter'.abandoned = waiter.abandoned
      BY <1>6, <2>3, WaiterSteps
    <3>2. ~waiter.indexed
      BY <1>6, <3>1
    <3>3. waiter.abandoned
      BY <1>i, <3>1, <3>2 DEF WaiterOK
    <3> QED
      BY <3>1, <3>3
  <2> QED
    BY <1>6, <2>1, <2>2, <2>3, WaiterSteps
<1>7. ASSUME waiter'.step = "plan", waiter'.indexed, NEW f \in waiter'.wanted \ changed', catalogue'.stamps[f] # 0
      PROVE  StampOf(f)' = catalogue'.stamps[f]
  <2>0. f \in Files
    BY WaiterSteps
  <2>1. CASE DiscardChanged
    <3>1. StampOf(f) = catalogue'.stamps[f]
      BY <1>7, <2>0, <2>1, CatalogueForms
    <3>2. game' = game
      BY <2>1 DEF DiscardChanged
    <3> QED
      BY <3>1, <3>2 DEF StampOf
  <2>2. CASE ~DiscardChanged
    <3>1. waiter.step = "plan" /\ waiter'.wanted = waiter.wanted /\ waiter'.indexed = waiter.indexed
      BY <1>7, <2>2, WaiterSteps
    <3>2. waiter.indexed
      BY <1>7, <3>1
    <3>3. /\ ~Restore /\ ~(AdoptDescribed /\ f = worker.file) /\ ~OpenSession
      <4>1. ~OpenSession
        BY <1>7 DEF OpenSession, NoWaiter
      <4> QED
        BY <1>7, <3>1, <3>2, <4>1, AnswerStands
    <3>4. catalogue'.stamps[f] = catalogue.stamps[f]
      BY <2>0, <2>2, <3>3, CatalogueForms
    <3>5. f \notin changed /\ game'[f] = game[f]
      <4>1. changed \subseteq changed' /\ (f \notin changed' => game'[f] = game[f])
        <5>1. CASE IndexNext
          <6>1. CASE \E g \in Files : GameChanges(g)
            <7>1. PICK g \in Files : GameChanges(g)
              BY <6>1
            <7>2. changed' = changed \cup {g}
              BY <7>1 DEF GameChanges
            <7>3. f # g => game'[f] = game[f]
              BY <2>0, <7>1 DEF GameChanges, IndexInv, GameOK
            <7> QED
              BY <7>2, <7>3
          <6>2. CASE ~\E g \in Files : GameChanges(g)
            BY <2>2, <5>1, <6>2 DEF IndexNext, WorkerStep, CloseSession, Stop, Joined, Scan, Restore, Claim, End,
                   ReadPack, Compare, AdoptDescribed, OpenRecord, WriteRecord, Complete, WaitEnds, Abandon, worldVars
          <6> QED
            BY <6>1, <6>2
        <5>2. ASSUME NEW m \in Mods, Await(Counterparts[m])  PROVE changed' = changed /\ game' = game
          BY <5>2 DEF Await, worldVars
        <5>3. OpenSession \/ Crash \/ Leaves \/ IndexStays => changed' = changed /\ game' = game
          BY DEF OpenSession, Crash, Leaves, IndexStays, worldVars
        <5> QED
          BY <5>1, <5>2, <5>3, StepCases
      <4> QED
        BY <4>1
    <3>6. StampOf(f) = catalogue.stamps[f]
      BY <1>i, <1>7, <3>1, <3>2, <3>4, <3>5 DEF WaiterOK
    <3> QED
      BY <3>4, <3>5, <3>6 DEF StampOf
  <2> QED
    BY <2>1, <2>2
<1>8. waiter' \in [step : {"none", "waiting", "discard", "plan", "over"}, wanted : SUBSET Files,
                   indexed : BOOLEAN, abandoned : BOOLEAN]
  BY WaiterSteps
<1> QED
  BY <1>1, <1>2, <1>3, <1>4, <1>5, <1>6, <1>7, <1>8 DEF WaiterOK

(* A pack that is as the scan saw it stays in the catalogue once the       *)
(* worker has put it there.                                                *)
LEMMA ScannedKept ==
  ASSUME IndexInv, [MirrorNext]_allVars
  PROVE  ScannedOK'
<1>i. GameOK /\ WorkerOK /\ QueueOK /\ ScannedOK /\ CatalogueOK
  BY DEF IndexInv
<1> SUFFICES ASSUME flags'.restored, NEW f \in Files \ failed',
                    scanned'[f] # 0, StampOf(f)' = scanned'[f],
                    f \notin pending' \/ (worker'.step \in {"open", "write", "complete"} /\ worker'.file = f)
             PROVE  catalogue'.stamps[f] = scanned'[f]
  BY DEF ScannedOK, AsScanned, Settled, Adopted
<1>g. /\ scanned[f] \in Nat /\ game[f].version \in Nat /\ scanned[f] <= game[f].version
      /\ StampOf(f) \in {0, game[f].version}
  <2>1. StampOf(f) \in {0, game[f].version}
    BY DEF StampOf
  <2> QED
    BY <1>i, <2>1, BaselineBounds DEF GameOK, Versions
<1>1. CASE OpenSession
  <2>1. flags' = [restored |-> FALSE, running |-> TRUE, stopping |-> FALSE]
    BY <1>1 DEF OpenSession
  <2> QED
    BY <2>1
<1>2. CASE Restore
  <2>1. worker'.step = "claim" /\ scanned' = scanned
    BY <1>2, WorkerSteps DEF Restore
  <2> QED
    BY <1>2, <2>1, CatalogueForms
<1>3. CASE Scan
  <2>1. ~flags.restored
    BY <1>i, <1>3 DEF Scan, At, QueueOK, Before
  <2>2. flags' = flags
    BY <1>3 DEF Scan, indexVars
  <2> QED
    BY <2>1, <2>2
<1> DEFINE Rest == ~OpenSession /\ ~Restore /\ ~Scan
<1>4. ASSUME Rest  PROVE scanned' = scanned /\ StampOf(f) = scanned[f] /\ StampOf(f)' = scanned[f]
  <2>1. scanned' = scanned
    <3>1. IndexNext => scanned' = scanned
      BY <1>4 DEF IndexNext, WorkerStep, CloseSession, Stop, Joined, Claim, End, ReadPack, Compare, AdoptDescribed,
             OpenRecord, WriteRecord, Complete, WaitEnds, DiscardChanged, Abandon, GameChanges
    <3>2. ASSUME NEW m \in Mods, Await(Counterparts[m])  PROVE scanned' = scanned
      BY <3>2 DEF Await
    <3>3. Crash \/ Leaves \/ IndexStays => scanned' = scanned
      BY DEF Crash, Leaves, IndexStays
    <3> QED
      BY <1>4, <3>1, <3>2, <3>3, StepCases
  <2>2. StampOf(f)' # 0 /\ StampOf(f)' # game[f].version + 1
    BY <1>g, <2>1
  <2>3. game'[f] = game[f]
    BY <1>i, <2>2, GameStep
  <2>4. StampOf(f)' = StampOf(f)
    BY <2>3 DEF StampOf
  <2> QED
    BY <2>1, <2>4
<1>5. ASSUME Rest  PROVE flags.restored
  <2>t. flags \in [restored : BOOLEAN, running : BOOLEAN, stopping : BOOLEAN]
    BY <1>i DEF QueueOK
  <2>1. Stop => (flags'.restored <=> flags.restored)
    BY <2>t DEF Stop
  <2>2. End => (flags'.restored <=> flags.restored)
    BY <2>t DEF End
  <2>3. Claim \/ Complete => flags' = flags
    BY DEF Claim, Complete
  <2> QED
    BY <1>5, <2>1, <2>2, <2>3, QueueSteps
<1>6. CASE AdoptDescribed /\ f = worker.file
  <2>1. Described /\ AtPack /\ worker.stamp # 0 /\ worker.stamp \in Nat /\ scanned[f] <= worker.stamp
        /\ worker.stamp <= game[f].version
    BY <1>i, <1>6 DEF AdoptDescribed, At, WorkerOK, Described, AtPack
  <2>2. Rest
    <3>1. worker.step = "adopt" /\ worker'.step = "open"
      BY <1>6, WorkerSteps DEF AdoptDescribed, At
    <3>2. worker.step # "restore" /\ worker.step # "scan" /\ worker'.step # "scan"
      BY <3>1
    <3> QED
      BY <3>2 DEF OpenSession, Restore, Scan, At, NoWorker
  <2>3. scanned' = scanned /\ StampOf(f) = scanned[f]
    BY <1>4, <2>2
  <2>4. worker.stamp = scanned[f]
    BY <1>g, <2>1, <2>3
  <2> QED
    BY <1>6, <2>3, <2>4, CatalogueForms
<1>7. CASE Rest /\ ~(AdoptDescribed /\ f = worker.file)
  <2>1. /\ scanned' = scanned /\ StampOf(f) = scanned[f] /\ flags.restored
    BY <1>4, <1>5, <1>7
  <2>2. f \notin failed /\ Settled(f)
    <3>1. CASE Complete
      <4>1. pending' = pending \ {worker.file} /\ worker'.step = "claim"
        BY <3>1, WorkerSteps DEF Complete
      <4>2. f \notin pending \/ f = worker.file
        BY <4>1
      <4>3. CASE worker.step = "failed"
        <5>1. failed' = failed \cup {worker.file}
          BY <3>1, <4>3 DEF Complete, At
        <5> QED
          BY <4>2, <5>1 DEF Settled
      <4>4. CASE worker.step = "complete"
        <5>1. failed' = failed
          BY <3>1, <4>4 DEF Complete, At
        <5> QED
          BY <4>2, <4>4, <5>1 DEF Settled, Adopted
      <4> QED
        BY <3>1, <4>3, <4>4 DEF Complete, At
    <3>2. CASE ~Complete
      <4>1. failed' = failed
        BY <1>7, <3>2, QueueSteps
      <4>2. pending' = pending
        BY <1>7, <3>2, QueueSteps DEF Stop, Claim, End
      <4>3. CASE worker'.step \in {"open", "write", "complete"} /\ worker'.file = f
        <5>1. CASE WorkerStep
          <6>1. ~Claim /\ ~End /\ ~ReadPack /\ ~Compare
            BY <4>3, WorkerSteps DEF Claim
          <6>2. AdoptDescribed \/ OpenRecord \/ WriteRecord
            BY <1>7, <3>2, <5>1, <6>1 DEF WorkerStep
          <6>3. worker.file = f
            BY <4>3, <6>2, WorkerSteps
          <6>4. OpenRecord \/ WriteRecord
            BY <1>7, <6>2, <6>3
          <6> QED
            BY <4>1, <6>3, <6>4 DEF Settled, Adopted, OpenRecord, WriteRecord, At
        <5>2. CASE worker' = worker
          BY <4>1, <4>3, <5>2 DEF Settled, Adopted
        <5> QED
          BY <4>3, <5>1, <5>2, WorkerSteps
      <4> QED
        BY <4>1, <4>2, <4>3 DEF Settled
    <3> QED
      BY <3>1, <3>2
  <2>3. catalogue.stamps[f] = scanned[f]
    BY <1>i, <2>1, <2>2 DEF ScannedOK, AsScanned
  <2> QED
    BY <1>7, <2>1, <2>3, CatalogueForms
<1> QED
  BY <1>1, <1>2, <1>3, <1>6, <1>7

(* The invariant is inductive. *)
LEMMA IndexStep == IndexInv /\ [MirrorNext]_allVars => IndexInv'
  BY GameStep, RecordsKept, CatalogueKept, WorkerKept, QueueKept, WaiterKept, ScannedKept DEF IndexInv

LEMMA IndexAlways == MirrorSpec => []IndexInv
  BY IndexInitially, IndexStep, PTL DEF MirrorSpec

-----------------------------------------------------------------------------
(* A chunk the index locates in a pack is one the pack had when it carried *)
(* the stamp the catalogue keeps for it, through patches, crashes in the   *)
(* middle of a record and restarts (BaselineChunkCatalogue,                *)
(* BaselineRecordStore and Describe).                                      *)
THEOREM LocatedIsHeldAlways == MirrorSpec => []LocatedIsHeld
<1>1. IndexInv => LocatedIsHeld
  <2> SUFFICES ASSUME IndexInv, NEW l \in catalogue.located
               PROVE  /\ catalogue.stamps[l[2]] \in 1..MaxVersion
                      /\ l[1] \in DigestsAt(l[2], catalogue.stamps[l[2]])
    BY DEF LocatedIsHeld
  <2>1. PICK f \in Files : l \in catalogue.owned[f] \X {f}
    BY DEF IndexInv, CatalogueOK, Sound
  <2>2. l[2] = f /\ l[1] \in catalogue.owned[f]
    BY <2>1
  <2>3. Vouched(f, catalogue.stamps[f], catalogue.owned[f])
    BY <2>2 DEF IndexInv, CatalogueOK
  <2> QED
    BY <2>2, <2>3 DEF Vouched, Versions
<1> QED
  BY <1>1, IndexAlways, PTL

(* What an answered install plans to take from a pack it waited for is in  *)
(* that pack, unless the game changed it since DiscardChanged.             *)
THEOREM PlanSourcesAreThereAlways == MirrorSpec => []PlanSourcesAreThere
<1>1. IndexInv => PlanSourcesAreThere
  <2> SUFFICES ASSUME IndexInv, waiter.step = "plan", waiter.indexed,
                      NEW l \in catalogue.located, l[2] \in waiter.wanted \ changed
               PROVE  StampOf(l[2]) # 0 /\ l[1] \in DigestsAt(l[2], game[l[2]].version)
    BY DEF PlanSourcesAreThere
  <2>1. PICK f \in Files : l \in catalogue.owned[f] \X {f}
    BY DEF IndexInv, CatalogueOK, Sound
  <2>2. l[2] = f /\ l[1] \in catalogue.owned[f]
    BY <2>1
  <2>3. catalogue.stamps[f] \in Versions /\ catalogue.owned[f] = DigestsAt(f, catalogue.stamps[f])
    BY <2>2 DEF IndexInv, CatalogueOK, Vouched
  <2>4. catalogue.stamps[f] # 0
    BY <2>3, BaselineBounds DEF Versions
  <2>5. StampOf(f) = catalogue.stamps[f]
    BY <2>2, <2>4 DEF IndexInv, WaiterOK
  <2>6. StampOf(f) = game[f].version
    BY <2>4, <2>5 DEF StampOf
  <2> QED
    BY <2>2, <2>3, <2>4, <2>5, <2>6
<1> QED
  BY <1>1, IndexAlways, PTL

(* A plan after an answered wait finds every chunk of a wanted pack that   *)
(* is as the session's scan saw it and could be read (AwaitCounterparts,   *)
(* AllIndexed_ and Complete_).                                             *)
THEOREM AwaitedIsLocatedAlways == MirrorSpec => []AwaitedIsLocated
<1>1. IndexInv => AwaitedIsLocated
  <2> SUFFICES ASSUME IndexInv, waiter.step = "plan", waiter.indexed, NEW f \in waiter.wanted,
                      scanned[f] # 0, StampOf(f) = scanned[f], f \notin failed
               PROVE  DigestsAt(f, scanned[f]) \X {f} \subseteq catalogue.located
    BY DEF AwaitedIsLocated
  <2>1. f \in Files /\ flags.restored /\ f \notin pending
    BY DEF IndexInv, WaiterOK
  <2>2. catalogue.stamps[f] = scanned[f]
    BY <2>1 DEF IndexInv, ScannedOK, AsScanned, Settled
  <2>3. catalogue.owned[f] = DigestsAt(f, scanned[f])
    BY <2>1, <2>2 DEF IndexInv, CatalogueOK, Vouched
  <2>4. catalogue.located = UNION {catalogue.owned[g] \X {g} : g \in Files}
    BY DEF IndexInv, CatalogueOK, Sound
  <2> QED
    BY <2>1, <2>3, <2>4
<1> QED
  BY <1>1, IndexAlways, PTL

(* A wait that ends unanswered was abandoned: neither a pack that cannot   *)
(* be read nor an index that ran out of work leaves an install without     *)
(* its answer.                                                             *)
THEOREM WaitIsAnsweredAlways == MirrorSpec => []WaitIsAnswered
<1>1. IndexInv => WaitIsAnswered
  BY DEF IndexInv, WaiterOK, WaitIsAnswered
<1> QED
  BY <1>1, IndexAlways, PTL
=============================================================================
