--------------------------- MODULE LocalFilesProofs ---------------------------
(***************************************************************************)
(* What the program holds of files that others write as well, for every    *)
(* set of keys, folders, profiles and however long it is used: the key     *)
(* registry in memory is the one on disk (Registry), the list shows as     *)
(* enabled what the game will load (LoadOrder), and a profile keeps the    *)
(* order and the game's own profile it was left with (Profiles).           *)
(***************************************************************************)
EXTENDS Profiles, Registry, FiniteSetTheorems, TLAPS

-----------------------------------------------------------------------------
(* The registry *)

PollSteps   == {"idle", "list", "open", "read_keys", "read_revoked", "assign", "finish"}
FileStates  == {"none", "torn", "whole"}
KeyFiles    == [Keys -> FileStates]

RegistryTypeOK ==
  /\ index \in [KeyFolders -> SUBSET Keys]
  /\ disk \in [KeyFolders -> KeyFiles]
  /\ keys \in [Keys -> States]
  /\ merged \in [Threads -> [Keys -> States]]
  /\ pc \in [Threads -> PollSteps \cup Keys]
  /\ polling \in [folder : KeyFolders, todo : SUBSET Keys, written : [KeyFolders -> Nat]]
  /\ crossed \in BOOLEAN

(* How far the reload of a thread is, as long as nothing else writes.      *)
Reloading(t) ==
  /\ pc[t] = "read_revoked" => merged[t] = ReadKeys(disk["keys"])
  /\ pc[t] = "assign" => merged[t] = Loaded
  /\ pc[t] = "finish" => keys = Loaded

(* The file of a key the window adds says nothing until it is whole.       *)
Adding(k) ==
  pc["window"] = k => keys[k] = "absent" /\ disk["keys"][k] # "whole" /\ keys = Loaded

Apart ==
  /\ pc["worker"] = "idle" \/ pc["window"] = "idle"
  /\ pc["worker"] = "idle" /\ pc["window"] = "idle" => keys = Loaded
  /\ \A k \in Keys : Adding(k)
  /\ \A t \in Threads : Reloading(t)

RegistryInv == RegistryTypeOK /\ (~crossed => Apart)

(* What the registry reads has the type of what it keeps.                  *)
LEMMA ReadForms ==
  /\ \A f \in KeyFiles : ReadKeys(f) \in [Keys -> States]
  /\ \A m \in [Keys -> States], r \in KeyFiles : ApplyRevocations(m, r) \in [Keys -> States]
BY DEF ReadKeys, ApplyRevocations, States, KeyFiles

(* What a reload reads is a state for each key. *)
LEMMA LoadedForm == RegistryTypeOK => Loaded \in [Keys -> States]
BY ReadForms DEF RegistryTypeOK, Loaded, KeyFolders

(* A file that is not whole adds no key.                                   *)
LEMMA TornAddsNothing ==
  ASSUME RegistryTypeOK, NEW k \in Keys, Loaded[k] = "absent",
         disk' = [disk EXCEPT !["keys"][k] = Opened]
  PROVE  disk["keys"][k] # "whole" /\ Loaded' = Loaded /\ disk'["keys"][k] # "whole"
<1>1. disk \in [KeyFolders -> [Keys -> FileStates]]
  BY DEF RegistryTypeOK, KeyFiles
<1>2. disk["keys"][k] # "whole" /\ k \notin Shipped
  BY RegistryBounds DEF Loaded, ApplyRevocations, ReadKeys, IsCertificate
<1>3. /\ disk'["revoked"] = disk["revoked"]
      /\ \A x \in Keys \ {k} : disk'["keys"][x] = disk["keys"][x]
      /\ disk'["keys"][k] = "torn"
  BY <1>1 DEF KeyFolders, Opened
<1>4. ReadKeys(disk'["keys"]) = ReadKeys(disk["keys"])
  BY <1>2, <1>3 DEF ReadKeys
<1> QED
  BY <1>2, <1>3, <1>4 DEF Loaded

(* Polling goes on with a folder's entries or with what follows them.      *)
LEMMA ContinueForm ==
  ASSUME RegistryTypeOK, NEW todo \in SUBSET Keys, NEW n \in Nat, Continue(todo, n)
  PROVE  /\ polling' \in [folder : KeyFolders, todo : SUBSET Keys, written : [KeyFolders -> Nat]]
         /\ pc' \in [Threads -> PollSteps \cup Keys]
         /\ pc'["worker"] \in {"open", "list", "read_keys"} /\ pc'["window"] = pc["window"]
<1>1. /\ polling \in [folder : KeyFolders, todo : SUBSET Keys, written : [KeyFolders -> Nat]]
      /\ pc \in [Threads -> PollSteps \cup Keys]
  BY DEF RegistryTypeOK
<1>2. NextStep(polling.folder, todo) \in {"open", "list", "read_keys"}
  BY DEF NextStep
<1>3. polling' = [polling EXCEPT !.todo = todo, !.written[polling.folder] = n,
                                 !.folder = IF todo = {} THEN "revoked" ELSE @]
  BY DEF Continue
<1>4. [polling.written EXCEPT ![polling.folder] = n] \in [KeyFolders -> Nat]
  BY <1>1
<1>5. polling' = [folder |-> IF todo = {} THEN "revoked" ELSE polling.folder, todo |-> todo,
                  written |-> [polling.written EXCEPT ![polling.folder] = n]]
  BY <1>1, <1>3
<1>6. polling' \in [folder : KeyFolders, todo : SUBSET Keys, written : [KeyFolders -> Nat]]
  BY <1>1, <1>4, <1>5 DEF KeyFolders
<1>7. pc' = [pc EXCEPT !["worker"] = NextStep(polling.folder, todo)]
  BY DEF Continue
<1>8. /\ pc' \in [Threads -> PollSteps \cup Keys]
      /\ pc'["worker"] \in {"open", "list", "read_keys"} /\ pc'["window"] = pc["window"]
  BY <1>1, <1>2, <1>7 DEF Threads, PollSteps
<1> QED
  BY <1>6, <1>8

(* The number of files written is a number.                                *)
LEMMA WrittenForm ==
  ASSUME RegistryTypeOK
  PROVE  polling.folder \in KeyFolders /\ polling.todo \subseteq Keys /\ polling.written[polling.folder] \in Nat
BY DEF RegistryTypeOK

(* What a download leaves of a file is one of its states.                  *)
LEMMA FileForms == \A a : FileAfter(a) \in FileStates /\ Opened \in FileStates
BY DEF FileAfter, Opened, FileStates

(* The variables of the registry keep their types.                         *)
LEMMA RegistryTypeStep ==
  RegistryTypeOK /\ [RegistryNext]_registryVars => RegistryTypeOK'
<1> SUFFICES ASSUME RegistryTypeOK, [RegistryNext]_registryVars PROVE RegistryTypeOK'
  OBVIOUS
<1>1. /\ index \in [KeyFolders -> SUBSET Keys] /\ disk \in [KeyFolders -> [Keys -> FileStates]]
      /\ keys \in [Keys -> States] /\ merged \in [Threads -> [Keys -> States]]
      /\ pc \in [Threads -> PollSteps \cup Keys]
      /\ polling \in [folder : KeyFolders, todo : SUBSET Keys, written : [KeyFolders -> Nat]]
  BY DEF RegistryTypeOK, KeyFiles
<1>2. crossed \in BOOLEAN
  BY DEF RegistryTypeOK
<1>3. SUFFICES
        /\ index' \in [KeyFolders -> SUBSET Keys] /\ disk' \in [KeyFolders -> [Keys -> FileStates]]
        /\ keys' \in [Keys -> States] /\ merged' \in [Threads -> [Keys -> States]]
        /\ pc' \in [Threads -> PollSteps \cup Keys]
        /\ polling' \in [folder : KeyFolders, todo : SUBSET Keys, written : [KeyFolders -> Nat]]
        /\ crossed' \in BOOLEAN
  BY Zenon DEF RegistryTypeOK, KeyFiles
<1>4. Loaded \in [Keys -> States]
  BY LoadedForm
<1>5. /\ "worker" \in Threads /\ "window" \in Threads /\ "keys" \in KeyFolders /\ "revoked" \in KeyFolders
      /\ NoPoll \in [folder : KeyFolders, todo : SUBSET Keys, written : [KeyFolders -> Nat]]
  BY DEF Threads, KeyFolders, NoPoll
<1>6. /\ \A files \in [Keys -> FileStates] : ReadKeys(files) \in [Keys -> States]
      /\ \A m \in [Keys -> States], files \in [Keys -> FileStates] :
           ApplyRevocations(m, files) \in [Keys -> States]
  BY ReadForms DEF KeyFiles
<1>7. CASE Tick \/ PollNow
  BY <1>1, <1>2, <1>5, <1>7 DEF Tick, PollNow, StartPoll, PollSteps
<1>8. CASE \E t \in Threads : ReloadReadsKeys(t)
  BY <1>1, <1>2, <1>5, <1>6, <1>8 DEF ReloadReadsKeys, pollVars, PollSteps
<1>9. CASE \E t \in Threads : ReloadReadsRevoked(t)
  BY <1>1, <1>2, <1>5, <1>6, <1>9 DEF ReloadReadsRevoked, pollVars, PollSteps
<1>10. CASE \E t \in Threads : ReloadAssigns(t)
  BY <1>1, <1>2, <1>5, <1>10 DEF ReloadAssigns, pollVars, PollSteps
<1>11. CASE ListFolder
  <2>1. PICK answer \in Answers(working) : Continue(NamesListed(answer, polling.folder), 0)
    BY <1>11 DEF ListFolder
  <2>2. NamesListed(answer, polling.folder) \in SUBSET Keys
    BY <1>1 DEF NamesListed
  <2>3. /\ polling' \in [folder : KeyFolders, todo : SUBSET Keys, written : [KeyFolders -> Nat]]
        /\ pc' \in [Threads -> PollSteps \cup Keys]
    BY <2>1, <2>2, ContinueForm
  <2> QED
    BY <1>1, <1>2, <1>11, <2>3 DEF ListFolder
<1>12. CASE OpenEntry
  <2>1. PICK k \in polling.todo : /\ disk' = [disk EXCEPT ![polling.folder][k] = Opened]
                                  /\ pc' = [pc EXCEPT !["worker"] = k]
    BY <1>12 DEF OpenEntry
  <2>2. k \in Keys
    BY <1>1
  <2>3. pc' \in [Threads -> PollSteps \cup Keys]
    BY <1>1, <1>5, <2>1, <2>2
  <2>4. disk' \in [KeyFolders -> [Keys -> FileStates]]
    BY <1>1, <2>1, <2>2, FileForms
  <2> QED
    BY <1>1, <1>2, <1>12, <2>3, <2>4 DEF OpenEntry, pollVars
<1>13. CASE CannotOpenEntry
  <2>1. PICK k \in polling.todo : Continue(polling.todo \ {k}, polling.written[polling.folder])
    BY <1>13 DEF CannotOpenEntry
  <2>2. polling.todo \ {k} \in SUBSET Keys /\ polling.written[polling.folder] \in Nat
    BY WrittenForm
  <2>3. /\ polling' \in [folder : KeyFolders, todo : SUBSET Keys, written : [KeyFolders -> Nat]]
        /\ pc' \in [Threads -> PollSteps \cup Keys]
    BY <2>1, <2>2, ContinueForm
  <2> QED
    BY <1>1, <1>2, <1>13, <2>3 DEF CannotOpenEntry
<1>14. ASSUME NEW k \in Keys, ReceiveEntry(k)
       PROVE  /\ index' \in [KeyFolders -> SUBSET Keys] /\ disk' \in [KeyFolders -> [Keys -> FileStates]]
              /\ keys' \in [Keys -> States] /\ merged' \in [Threads -> [Keys -> States]]
              /\ pc' \in [Threads -> PollSteps \cup Keys]
              /\ polling' \in [folder : KeyFolders, todo : SUBSET Keys, written : [KeyFolders -> Nat]]
              /\ crossed' \in BOOLEAN
  <2>1. PICK answer \in Answers(working) :
          /\ disk' = [disk EXCEPT ![polling.folder][k] = FileAfter(answer)]
          /\ Continue(polling.todo \ {k},
                      polling.written[polling.folder] + (IF Downloaded(answer) THEN 1 ELSE 0))
    BY <1>14 DEF ReceiveEntry
  <2>2. /\ polling.todo \ {k} \in SUBSET Keys
        /\ polling.written[polling.folder] + (IF Downloaded(answer) THEN 1 ELSE 0) \in Nat
    BY WrittenForm
  <2>3. /\ polling' \in [folder : KeyFolders, todo : SUBSET Keys, written : [KeyFolders -> Nat]]
        /\ pc' \in [Threads -> PollSteps \cup Keys]
    BY <2>1, <2>2, ContinueForm
  <2>4. disk' \in [KeyFolders -> [Keys -> FileStates]]
    BY <1>1, <2>1, FileForms
  <2> QED
    BY <1>1, <1>2, <1>14, <2>3, <2>4 DEF ReceiveEntry
<1>15. CASE FinishPoll
  BY <1>1, <1>2, <1>5, <1>15 DEF FinishPoll, PollSteps
<1>16. CASE TimePasses
  BY <1>1, <1>2, <1>16 DEF TimePasses
<1>17. ASSUME NEW k \in OwnKeys, ExportOpens(k)
       PROVE  /\ index' \in [KeyFolders -> SUBSET Keys] /\ disk' \in [KeyFolders -> [Keys -> FileStates]]
              /\ keys' \in [Keys -> States] /\ merged' \in [Threads -> [Keys -> States]]
              /\ pc' \in [Threads -> PollSteps \cup Keys]
              /\ polling' \in [folder : KeyFolders, todo : SUBSET Keys, written : [KeyFolders -> Nat]]
              /\ crossed' \in BOOLEAN
  <2>1. crossed' \in BOOLEAN
    BY <1>17, Zenon DEF ExportOpens
  <2>2. k \in Keys
    BY RegistryBounds
  <2>3. pc' \in [Threads -> PollSteps \cup Keys] /\ disk' \in [KeyFolders -> [Keys -> FileStates]]
    BY <1>1, <1>5, <1>17, <2>2, FileForms DEF ExportOpens
  <2> QED
    BY <1>1, <1>17, <2>1, <2>3 DEF ExportOpens, pollVars
<1>18. ASSUME NEW k \in OwnKeys, ExportEnds(k)
       PROVE  /\ index' \in [KeyFolders -> SUBSET Keys] /\ disk' \in [KeyFolders -> [Keys -> FileStates]]
              /\ keys' \in [Keys -> States] /\ merged' \in [Threads -> [Keys -> States]]
              /\ pc' \in [Threads -> PollSteps \cup Keys]
              /\ polling' \in [folder : KeyFolders, todo : SUBSET Keys, written : [KeyFolders -> Nat]]
              /\ crossed' \in BOOLEAN
  <2>1. k \in Keys
    BY RegistryBounds
  <2>2. pc' \in [Threads -> PollSteps \cup Keys]
    BY <1>1, <1>5, <1>18 DEF ExportEnds, PollSteps
  <2>3. disk' = disk \/ disk' = [disk EXCEPT !["keys"][k] = "whole"]
    BY <1>18 DEF ExportEnds
  <2>4. disk' \in [KeyFolders -> [Keys -> FileStates]]
    <3>1. "whole" \in FileStates
      BY DEF FileStates
    <3>2. CASE disk' = disk
      BY <1>1, <3>2
    <3>3. CASE disk' = [disk EXCEPT !["keys"][k] = "whole"]
      BY <1>1, <1>5, <2>1, <3>1, <3>3
    <3> QED
      BY <2>3, <3>2, <3>3
  <2> QED
    BY <1>1, <1>2, <1>18, <2>2, <2>4 DEF ExportEnds, pollVars
<1>19. CASE IndexChanges \/ NetworkChanges
  BY <1>1, <1>2, <1>19 DEF IndexChanges, NetworkChanges, pollVars
<1>20. CASE Restart
  BY <1>1, <1>4, <1>5, <1>20 DEF Restart, PollSteps, States
<1>21. CASE UNCHANGED registryVars
  BY <1>1, <1>2, <1>21 DEF registryVars, pollVars
<1> QED
  BY <1>5, <1>7, <1>8, <1>9, <1>10, <1>11, <1>12, <1>13, <1>14, <1>15, <1>16, <1>17, <1>18, <1>19,
     <1>20, <1>21 DEF RegistryNext, WorkerStep, WindowStep

(* A step's name is no key's.                                              *)
LEMMA NamesDiffer == \A k \in Keys : k \notin PollSteps
BY StepNames DEF PollSteps

(* A step that changes nothing the invariant speaks of.                    *)
LEMMA ApartUnchanged ==
  ASSUME Apart, UNCHANGED <<disk, keys, merged, pc>>
  PROVE  Apart'
BY DEF Apart, Adding, Reloading, Loaded

(* While a poll fetches files, no other thread is at work.                 *)
LEMMA ApartFetching ==
  ASSUME RegistryTypeOK', pc'["window"] = "idle",
         pc'["worker"] \in {"list", "open", "read_keys"} \cup Keys
  PROVE  Apart'
<1>1. /\ pc'["worker"] # "idle" /\ pc'["worker"] # "read_revoked"
      /\ pc'["worker"] # "assign" /\ pc'["worker"] # "finish"
  BY NamesDiffer DEF PollSteps
<1>2. \A k \in Keys : pc'["window"] # k
  BY NamesDiffer DEF PollSteps
<1> QED
  BY <1>1, <1>2 DEF Apart, Adding, Reloading, Threads

(* The worker's own steps: it fetches, reloads and ends.                   *)
LEMMA ApartWorker ==
  ASSUME RegistryTypeOK, RegistryTypeOK', Apart, WorkerStep
  PROVE  Apart'
<1>1. pc \in [Threads -> PollSteps \cup Keys] /\ merged \in [Threads -> [Keys -> States]]
  BY DEF RegistryTypeOK
<1>2. ASSUME pc["worker"] # "idle"  PROVE pc["window"] = "idle"
  BY <1>2 DEF Apart
<1>3. ASSUME NEW k \in Keys  PROVE k # "idle"
  BY NamesDiffer DEF PollSteps
<1>4. CASE ListFolder
  <2>1. PICK answer \in Answers(working) : Continue(NamesListed(answer, polling.folder), 0)
    BY <1>4 DEF ListFolder
  <2>2. NamesListed(answer, polling.folder) \in SUBSET Keys
    BY DEF NamesListed, RegistryTypeOK
  <2>3. pc'["worker"] \in {"open", "list", "read_keys"} /\ pc'["window"] = pc["window"]
    BY <2>1, <2>2, ContinueForm
  <2> QED
    BY <1>2, <1>4, <2>3, ApartFetching DEF ListFolder
<1>5. CASE OpenEntry
  <2>1. PICK k \in polling.todo : pc' = [pc EXCEPT !["worker"] = k]
    BY <1>5 DEF OpenEntry
  <2>2. k \in Keys
    BY WrittenForm
  <2>3. pc'["worker"] = k /\ pc'["window"] = pc["window"]
    BY <1>1, <2>1 DEF Threads
  <2> QED
    BY <1>2, <1>5, <2>2, <2>3, ApartFetching DEF OpenEntry
<1>6. CASE CannotOpenEntry
  <2>1. PICK k \in polling.todo : Continue(polling.todo \ {k}, polling.written[polling.folder])
    BY <1>6 DEF CannotOpenEntry
  <2>2. polling.todo \ {k} \in SUBSET Keys /\ polling.written[polling.folder] \in Nat
    BY WrittenForm
  <2>3. pc'["worker"] \in {"open", "list", "read_keys"} /\ pc'["window"] = pc["window"]
    BY <2>1, <2>2, ContinueForm
  <2> QED
    BY <1>2, <1>6, <2>3, ApartFetching DEF CannotOpenEntry
<1>7. ASSUME NEW k \in Keys, ReceiveEntry(k)  PROVE Apart'
  <2>1. PICK answer \in Answers(working) :
          Continue(polling.todo \ {k},
                   polling.written[polling.folder] + (IF Downloaded(answer) THEN 1 ELSE 0))
    BY <1>7 DEF ReceiveEntry
  <2>2. /\ polling.todo \ {k} \in SUBSET Keys
        /\ polling.written[polling.folder] + (IF Downloaded(answer) THEN 1 ELSE 0) \in Nat
    BY WrittenForm
  <2>3. pc'["worker"] \in {"open", "list", "read_keys"} /\ pc'["window"] = pc["window"]
    BY <2>1, <2>2, ContinueForm
  <2> QED
    BY <1>2, <1>3, <1>7, <2>3, ApartFetching DEF ReceiveEntry
<1>8. CASE ReloadReadsKeys("worker")
  BY <1>1, <1>2, <1>8, NamesDiffer
     DEF ReloadReadsKeys, Apart, Adding, Reloading, Loaded, Threads, PollSteps
<1>9. CASE ReloadReadsRevoked("worker")
  BY <1>1, <1>2, <1>9, NamesDiffer
     DEF ReloadReadsRevoked, Apart, Adding, Reloading, Loaded, Threads, PollSteps
<1>10. CASE ReloadAssigns("worker")
  BY <1>1, <1>2, <1>10, NamesDiffer
     DEF ReloadAssigns, Apart, Adding, Reloading, Loaded, Threads, PollSteps
<1>11. CASE FinishPoll
  BY <1>1, <1>2, <1>11, NamesDiffer
     DEF FinishPoll, Apart, Adding, Reloading, Loaded, Threads, PollSteps
<1> QED
  BY <1>4, <1>5, <1>6, <1>7, <1>8, <1>9, <1>10, <1>11 DEF WorkerStep

(* The window adds a key and reloads, with no poll under way.              *)
LEMMA ApartWindow ==
  ASSUME RegistryTypeOK, Apart, WindowStep
  PROVE  Apart'
<1>1. pc \in [Threads -> PollSteps \cup Keys] /\ merged \in [Threads -> [Keys -> States]]
  BY DEF RegistryTypeOK
<1>2. ASSUME pc["window"] # "idle"  PROVE pc["worker"] = "idle"
  BY <1>2 DEF Apart
<1>3. CASE ReloadReadsKeys("window")
  BY <1>1, <1>2, <1>3, NamesDiffer
     DEF ReloadReadsKeys, Apart, Adding, Reloading, Loaded, Threads, PollSteps
<1>4. CASE ReloadReadsRevoked("window")
  BY <1>1, <1>2, <1>4, NamesDiffer
     DEF ReloadReadsRevoked, Apart, Adding, Reloading, Loaded, Threads, PollSteps
<1>5. CASE ReloadAssigns("window")
  BY <1>1, <1>2, <1>5, NamesDiffer
     DEF ReloadAssigns, Apart, Adding, Reloading, Loaded, Threads, PollSteps
<1>6. ASSUME NEW k \in OwnKeys, ExportEnds(k)  PROVE Apart'
  <2>1. k \in Keys /\ pc["window"] = k /\ k \notin PollSteps
    BY <1>6, RegistryBounds, NamesDiffer DEF ExportEnds
  <2>2. pc["worker"] = "idle" /\ keys = Loaded
    BY <1>2, <2>1 DEF Apart, Adding, PollSteps
  <2>3. CASE pc' = [pc EXCEPT !["window"] = "read_keys"]
    BY <1>1, <1>6, <2>2, <2>3, NamesDiffer DEF Apart, Adding, Reloading, Threads, PollSteps
  <2>4. CASE pc' = [pc EXCEPT !["window"] = "idle"] /\ UNCHANGED disk
    BY <1>1, <1>6, <2>2, <2>4, NamesDiffer
       DEF ExportEnds, Apart, Adding, Reloading, Loaded, Threads, PollSteps
  <2> QED
    BY <1>6, <2>3, <2>4 DEF ExportEnds
<1> QED
  BY <1>3, <1>4, <1>5, <1>6 DEF WindowStep

(* A key's file is opened while the two threads are idle.                  *)
LEMMA ApartExport ==
  ASSUME RegistryTypeOK, Apart, NEW k \in OwnKeys, ExportOpens(k), pc["worker"] = "idle"
  PROVE  Apart'
<1>1. pc \in [Threads -> PollSteps \cup Keys] /\ k \in Keys
  BY RegistryBounds DEF RegistryTypeOK
<1>2. keys = Loaded /\ keys[k] = "absent" /\ disk' = [disk EXCEPT !["keys"][k] = Opened]
  BY DEF ExportOpens, Apart
<1>3. Loaded' = Loaded /\ disk'["keys"][k] # "whole"
  BY <1>1, <1>2, TornAddsNothing
<1>4. pc'["window"] = k /\ pc'["worker"] = "idle" /\ keys' = keys
  BY <1>1 DEF ExportOpens, Threads
<1>5. k \notin PollSteps
  BY <1>1, NamesDiffer
<1> QED
  BY <1>1, <1>2, <1>3, <1>4, <1>5 DEF Apart, Adding, Reloading, Threads, PollSteps

(* The threads stay apart as long as no key is added during a poll.        *)
LEMMA ApartStep ==
  ASSUME RegistryInv, RegistryTypeOK', [RegistryNext]_registryVars, ~crossed'
  PROVE  Apart'
<1>1. RegistryTypeOK /\ (~crossed => Apart) /\ pc \in [Threads -> PollSteps \cup Keys]
  BY DEF RegistryInv, RegistryTypeOK
<1>2. CASE Tick \/ PollNow
  <2>1. pc'["window"] = "idle" /\ pc'["worker"] = "list"
    BY <1>1, <1>2 DEF Tick, PollNow, StartPoll, Threads
  <2> QED
    BY <2>1, ApartFetching
<1>3. CASE WorkerStep
  <2>1. crossed' = crossed
    BY <1>3 DEF WorkerStep, ListFolder, OpenEntry, CannotOpenEntry, ReceiveEntry, ReloadReadsKeys,
                ReloadReadsRevoked, ReloadAssigns, FinishPoll
  <2> QED
    BY <1>1, <1>3, <2>1, ApartWorker
<1>4. CASE WindowStep
  <2>1. crossed' = crossed
    BY <1>4 DEF WindowStep, ExportEnds, ReloadReadsKeys, ReloadReadsRevoked, ReloadAssigns
  <2> QED
    BY <1>1, <1>4, <2>1, ApartWindow
<1>5. CASE TimePasses \/ IndexChanges \/ NetworkChanges
  BY <1>1, <1>5, ApartUnchanged DEF TimePasses, IndexChanges, NetworkChanges
<1>6. ASSUME NEW k \in OwnKeys, ExportOpens(k)  PROVE Apart'
  <2>1. ~crossed /\ pc["worker"] = "idle"
    BY <1>6 DEF ExportOpens
  <2> QED
    BY <1>1, <1>6, <2>1, ApartExport
<1>7. CASE Restart
  <2>1. keys' = Loaded' /\ pc'["worker"] = "idle" /\ pc'["window"] = "idle"
    BY <1>7 DEF Restart, Loaded, Threads
  <2> QED
    BY <2>1, NamesDiffer DEF Apart, Adding, Reloading, Threads, PollSteps
<1>8. CASE UNCHANGED registryVars
  BY <1>1, <1>8, ApartUnchanged DEF registryVars
<1> QED
  BY <1>2, <1>3, <1>4, <1>5, <1>6, <1>7, <1>8 DEF RegistryNext

(* The keys in memory are those of the folder whenever both threads are    *)
(* idle and no key was added while a poll ran: a poll that failed half way *)
(* reloads as well (RegistryUpdateService::RunPoll_,                       *)
(* DirectoryKeyRegistry::Reload, PublishService::TrustLocally_).           *)
THEOREM MemoryStaysTheDisks == RegistrySpec => []MemoryMatchesDisk
<1>1. RegistryInit => RegistryInv
  <2> SUFFICES ASSUME RegistryInit PROVE RegistryInv
    OBVIOUS
  <2>1. disk \in [KeyFolders -> KeyFiles]
    BY DEF RegistryInit, KeyFiles, FileStates
  <2>2. /\ NoPoll \in [folder : KeyFolders, todo : SUBSET Keys, written : [KeyFolders -> Nat]]
        /\ index \in [KeyFolders -> SUBSET Keys]
    BY RegistryBounds DEF RegistryInit, KeyFolders, NoPoll
  <2>3. ReadKeys(disk["keys"]) \in [Keys -> States]
    BY <2>1, ReadForms DEF KeyFolders
  <2>4. Loaded \in [Keys -> States]
    BY <2>1, <2>3, ReadForms DEF Loaded, KeyFolders
  <2>5. pc \in [Threads -> PollSteps \cup Keys] /\ merged \in [Threads -> [Keys -> States]]
    BY DEF RegistryInit, PollSteps, States
  <2>6. RegistryTypeOK
    BY <2>1, <2>2, <2>4, <2>5 DEF RegistryInit, RegistryTypeOK
  <2>7. Apart
    BY NamesDiffer DEF RegistryInit, Apart, Adding, Reloading, Threads, PollSteps
  <2> QED
    BY <2>6, <2>7 DEF RegistryInv
<1>2. RegistryInv /\ [RegistryNext]_registryVars => RegistryInv'
  BY RegistryTypeStep, ApartStep DEF RegistryInv
<1>3. RegistryInv => MemoryMatchesDisk
  BY DEF RegistryInv, Apart, MemoryMatchesDisk, Threads
<1> QED
  BY <1>1, <1>2, <1>3, PTL DEF RegistrySpec

(***************************************************************************)
(* Sets in order, and what is enabled of a list.                           *)
(***************************************************************************)
OnPlaces(s) == {i \in DOMAIN s : s[i].enabled}

(* A finite set of numbers has, for each rank, the number of that rank. *)
LEMMA ScannedIs ==
  ASSUME NEW S \in SUBSET Nat, IsFiniteSet(S)
  PROVE  /\ Cardinality(S) \in Nat
         /\ Scanned(S) \in [1..Cardinality(S) -> S]
         /\ \A k \in 1..Cardinality(S) : Cardinality({m \in S : m <= Scanned(S)[k]}) = k
<1> DEFINE upTo(n) == {m \in S : m <= n}
           rank == [n \in S |-> Cardinality(upTo(n))]
           c == Cardinality(S)
<1>1. c \in Nat
  BY FS_CardinalityType
<1>2. ASSUME NEW n \in S  PROVE IsFiniteSet(upTo(n)) /\ Cardinality(upTo(n)) \in 1..c
  <2>1. IsFiniteSet(upTo(n)) /\ Cardinality(upTo(n)) <= c
    <3>1. upTo(n) \in SUBSET S
      OBVIOUS
    <3> HIDE DEF upTo
    <3> QED
      BY <3>1, FS_Subset
  <2>2. n \in upTo(n)
    OBVIOUS
  <2> HIDE DEF upTo
  <2>3. Cardinality(upTo(n)) \in Nat /\ Cardinality(upTo(n)) # 0
    BY <2>1, <2>2, FS_CardinalityType, FS_EmptySet
  <2> QED
    BY <1>1, <2>1, <2>3
<1>3. ASSUME NEW n \in S, NEW m \in S, n < m  PROVE Cardinality(upTo(n)) # Cardinality(upTo(m))
  <2>1. upTo(n) \in SUBSET upTo(m) /\ m \in upTo(m) /\ m \notin upTo(n)
    <3>1. n \in Nat /\ m \in Nat /\ n < m /\ ~(m <= n) /\ m <= m
      BY <1>3
    <3>2. ASSUME NEW k \in S, k <= n  PROVE k <= m
      <4>1. k \in Nat
        OBVIOUS
      <4> QED
        BY <3>1, <3>2, <4>1
    <3>3. upTo(n) \in SUBSET upTo(m)
      BY <3>2
    <3>4. m \in upTo(m) /\ m \notin upTo(n)
      BY <3>1
    <3> QED
      BY <3>3, <3>4
  <2>2. IsFiniteSet(upTo(m))
    BY <1>2
  <2> HIDE DEF upTo
  <2> QED
    BY <2>1, <2>2, FS_Subset
<1> HIDE DEF upTo, c
<1>4. rank \in Injection(S, 1..c)
  <2>1. rank \in [S -> 1..c]
    BY <1>2
  <2>2. ASSUME NEW n \in S, NEW m \in S, rank[n] = rank[m]  PROVE n = m
    <3>1. ~(n < m) /\ ~(m < n)
      BY <1>3, <2>2
    <3> QED
      BY <3>1
  <2> QED
    BY <2>1, <2>2 DEF Injection, IsInjective
<1>5. IsFiniteSet(1..c) /\ Cardinality(1..c) = c
  BY <1>1, FS_Interval
<1>6. rank \in Surjection(S, 1..c)
  BY <1>4, <1>5, FS_Injection DEF c
<1>7. ASSUME NEW k \in 1..c  PROVE \E n \in S : Cardinality(upTo(n)) = k
  <2>1. \E n \in S : rank[n] = k
    BY <1>6, <1>7 DEF Surjection
  <2> QED
    BY <2>1
<1>8. Scanned(S) = [k \in 1..c |-> CHOOSE n \in S : Cardinality(upTo(n)) = k]
  BY DEF Scanned, c, upTo
<1>9. ASSUME NEW k \in 1..c  PROVE Scanned(S)[k] \in S /\ Cardinality(upTo(Scanned(S)[k])) = k
  BY <1>7, <1>8, <1>9
<1>10. Scanned(S) \in [1..c -> S]
  BY <1>8, <1>9
<1> QED
  BY <1>1, <1>9, <1>10 DEF c, upTo

(* The first n numbers are in order. *)
LEMMA ScannedFront ==
  ASSUME NEW n \in Nat
  PROVE  Cardinality(1..n) = n /\ Scanned(1..n) = [k \in 1..n |-> k]
<1>1. IsFiniteSet(1..n) /\ Cardinality(1..n) = n
  BY FS_Interval
<1>2. /\ Scanned(1..n) \in [1..n -> 1..n]
      /\ \A k \in 1..n : Cardinality({m \in 1..n : m <= Scanned(1..n)[k]}) = k
  <2> DEFINE S == 1..n
  <2>1. S \in SUBSET Nat /\ IsFiniteSet(S) /\ Cardinality(S) = n
    BY <1>1
  <2> HIDE DEF S
  <2>2. /\ Scanned(S) \in [1..n -> S]
        /\ \A k \in 1..n : Cardinality({m \in S : m <= Scanned(S)[k]}) = k
    BY <2>1, ScannedIs
  <2> QED
    BY <2>2 DEF S
<1>3. ASSUME NEW k \in 1..n  PROVE Scanned(1..n)[k] = k
  <2> DEFINE x == Scanned(1..n)[k]
  <2>1. x \in 1..n
    BY <1>2
  <2>2. {m \in 1..n : m <= x} = 1..x
    BY <2>1
  <2>3. Cardinality(1..x) = x
    BY <2>1, FS_Interval
  <2> QED
    BY <1>2, <2>2, <2>3
<1> QED
  BY <1>1, <1>2, <1>3

(* The places of a list that are enabled, as a set to scan. *)
LEMMA PlacesFinite ==
  ASSUME NEW n \in Nat, NEW S \in SUBSET (1..n)
  PROVE  IsFiniteSet(S) /\ S \in SUBSET Nat
<1> DEFINE whole == 1..n
<1>1. IsFiniteSet(whole) /\ whole \subseteq Nat
  BY FS_Interval
<1>2. S \in SUBSET whole
  OBVIOUS
<1> HIDE DEF whole
<1>3. IsFiniteSet(S)
  BY <1>1, <1>2, FS_Subset
<1> QED
  BY <1>1, <1>2, <1>3

(* What is enabled of a list, by the ranks of its enabled places. *)
LEMMA EnabledIs ==
  ASSUME NEW s
  PROVE  Enabled(s) = [k \in 1..Cardinality(OnPlaces(s)) |-> s[Scanned(OnPlaces(s))[k]].folder]
BY DEF Enabled, AtPlaces, OnPlaces

(* What is enabled depends on the enabled places and what is there. *)
LEMMA SamePlacesEnabled ==
  ASSUME NEW s \in Orders, NEW t, OnPlaces(t) = OnPlaces(s),
         \A i \in OnPlaces(s) : t[i].folder = s[i].folder
  PROVE  Enabled(t) = Enabled(s)
<1> DEFINE on == OnPlaces(s)
<1>1. Len(s) \in Nat /\ on \in SUBSET (1..Len(s))
  BY DEF Orders, OnPlaces
<1> HIDE DEF on
<1>2. \A k \in 1..Cardinality(on) : Scanned(on)[k] \in on
  BY <1>1, PlacesFinite, ScannedIs
<1>3. Enabled(s) = [k \in 1..Cardinality(on) |-> s[Scanned(on)[k]].folder]
  BY EnabledIs DEF on
<1>4. Enabled(t) = [k \in 1..Cardinality(on) |-> t[Scanned(on)[k]].folder]
  BY EnabledIs DEF on
<1>5. \A k \in 1..Cardinality(on) : t[Scanned(on)[k]].folder = s[Scanned(on)[k]].folder
  BY <1>2 DEF on
<1> QED
  BY <1>3, <1>4, <1>5

(* What is enabled of a list is a list of folders. *)
LEMMA EnabledType ==
  ASSUME NEW s \in Orders
  PROVE  Enabled(s) \in Seq(Folders)
<1> DEFINE on == OnPlaces(s)
<1>1. Len(s) \in Nat /\ on \in SUBSET (1..Len(s))
  BY DEF Orders, OnPlaces
<1> HIDE DEF on
<1>2. Cardinality(on) \in Nat /\ \A k \in 1..Cardinality(on) : Scanned(on)[k] \in on
  BY <1>1, PlacesFinite, ScannedIs
<1>3. \A i \in 1..Len(s) : s[i].folder \in Folders
  <2> DEFINE E == [folder : Folders, enabled : BOOLEAN]
  <2>1. \A e \in E : e.folder \in Folders
    OBVIOUS
  <2>2. s \in Seq(E)
    BY DEF Orders
  <2> HIDE DEF E
  <2> QED
    BY <2>1, <2>2
<1>4. Enabled(s) = [k \in 1..Cardinality(on) |-> s[Scanned(on)[k]].folder]
  BY EnabledIs DEF on
<1>5. \A k \in 1..Cardinality(on) : s[Scanned(on)[k]].folder \in Folders
  BY <1>1, <1>2, <1>3
<1> QED
  BY <1>2, <1>4, <1>5

(* What comes behind and is disabled changes nothing. *)
LEMMA DisabledBehind ==
  ASSUME NEW s \in Orders, NEW t \in Orders, \A i \in DOMAIN t : t[i].enabled = FALSE
  PROVE  s \o t \in Orders /\ Enabled(s \o t) = Enabled(s)
<1> DEFINE both == s \o t
<1>1. /\ Len(s) \in Nat /\ Len(t) \in Nat /\ both \in Orders
      /\ DOMAIN s = 1..Len(s) /\ DOMAIN t = 1..Len(t) /\ DOMAIN both = 1..(Len(s) + Len(t))
  BY DEF Orders
<1>2. \A i \in DOMAIN s : both[i] = s[i]
  BY DEF Orders
<1>3. \A i \in DOMAIN both : i \notin DOMAIN s => i - Len(s) \in DOMAIN t /\ both[i] = t[i - Len(s)]
  BY DEF Orders
<1> HIDE DEF both
<1>4. OnPlaces(both) = OnPlaces(s)
  <2>1. ASSUME NEW i \in OnPlaces(both)  PROVE i \in OnPlaces(s)
    <3>1. i \in DOMAIN both /\ both[i].enabled
      BY <2>1 DEF OnPlaces
    <3>2. CASE i \in DOMAIN s
      <4>1. both[i] = s[i]
        BY <1>2, <3>2
      <4>2. s[i].enabled
        BY <3>1, <4>1, Zenon
      <4> QED
        BY <3>2, <4>2 DEF OnPlaces
    <3>3. CASE i \notin DOMAIN s
      <4>1. i - Len(s) \in DOMAIN t /\ both[i] = t[i - Len(s)]
        BY <1>3, <3>1, <3>3
      <4>2. both[i].enabled = FALSE
        BY <4>1, Zenon
      <4> QED
        BY <3>1, <4>2, Zenon
    <3> QED
      BY <3>2, <3>3
  <2>2. ASSUME NEW i \in OnPlaces(s)  PROVE i \in OnPlaces(both)
    <3>1. i \in DOMAIN s /\ s[i].enabled
      BY <2>2 DEF OnPlaces
    <3>2. both[i] = s[i] /\ i \in DOMAIN both
      BY <1>1, <1>2, <3>1
    <3>3. both[i].enabled
      BY <3>1, <3>2, Zenon
    <3> QED
      BY <3>2, <3>3 DEF OnPlaces
  <2> QED
    BY <2>1, <2>2
<1>5. \A i \in OnPlaces(s) : both[i].folder = s[i].folder
  BY <1>2 DEF OnPlaces
<1>6. Enabled(both) = Enabled(s)
  BY <1>4, <1>5, SamePlacesEnabled
<1> QED
  BY <1>1, <1>6 DEF both

(* A file that is read is a list with everything enabled. *)
LEMMA ReadIsEnabled ==
  ASSUME NEW read \in Seq(Folders)
  PROVE  LET listed == [i \in DOMAIN read |-> Entry(read[i], TRUE)]
         IN  listed \in Orders /\ Enabled(listed) = read
<1> DEFINE listed == [i \in DOMAIN read |-> Entry(read[i], TRUE)]
           n == Len(read)
<1>1. n \in Nat /\ DOMAIN read = 1..n /\ \A i \in 1..n : read[i] \in Folders
  OBVIOUS
<1>2. \A i \in 1..n : listed[i] = [folder |-> read[i], enabled |-> TRUE]
  BY <1>1 DEF Entry
<1>3. DOMAIN listed = 1..n
  BY <1>1
<1> HIDE DEF n
<1>4. listed \in Orders
  <2>1. \A i \in 1..n : Entry(read[i], TRUE) \in [folder : Folders, enabled : BOOLEAN]
    BY <1>1 DEF Entry
  <2> DEFINE E == [folder : Folders, enabled : BOOLEAN]
  <2>2. listed \in [1..n -> E]
    BY <1>1, <2>1
  <2> HIDE DEF E, listed
  <2>3. listed \in Seq(E)
    BY <1>1, <2>2
  <2> QED
    BY <2>3 DEF Orders, E
<1> HIDE DEF listed
<1>5. ASSUME NEW i \in 1..n  PROVE listed[i].folder = read[i] /\ listed[i].enabled
  <2>1. listed[i] = [folder |-> read[i], enabled |-> TRUE]
    BY <1>2
  <2>2. listed[i].folder = read[i]
    BY <2>1
  <2>3. [folder |-> read[i], enabled |-> TRUE].enabled
    OBVIOUS
  <2>4. listed[i].enabled
    BY <2>1, <2>3, Zenon
  <2> QED
    BY <2>2, <2>4
<1>6. OnPlaces(listed) = 1..n
  BY <1>3, <1>5 DEF OnPlaces
<1>7. Enabled(listed) = [k \in 1..n |-> listed[k].folder]
  <2>1. Cardinality(1..n) = n /\ Scanned(1..n) = [k \in 1..n |-> k]
    BY <1>1, ScannedFront
  <2>2. Enabled(listed) = [k \in 1..n |-> listed[Scanned(1..n)[k]].folder]
    BY <1>6, <2>1, EnabledIs
  <2>3. \A k \in 1..n : Scanned(1..n)[k] = k
    BY <2>1
  <2> QED
    BY <2>2, <2>3
<1>8. Enabled(listed) = read
  BY <1>1, <1>5, <1>7
<1> QED
  BY <1>4, <1>8 DEF listed

(* Mod folders behind the list are all disabled. *)
LEMMA OffIsOff ==
  ASSUME NEW found \in SUBSET Folders
  PROVE  /\ Off(Scanned(found)) \in Orders
         /\ \A i \in DOMAIN Off(Scanned(found)) : Off(Scanned(found))[i].enabled = FALSE
<1> DEFINE c == Cardinality(found)
           scan == Scanned(found)
           E == [folder : Folders, enabled : BOOLEAN]
<1>1. IsFiniteSet(found) /\ found \in SUBSET Nat
  BY OrderBounds, FS_Subset
<1>2. c \in Nat /\ scan \in [1..c -> found]
  BY <1>1, ScannedIs
<1> HIDE DEF c, scan
<1>3. Off(scan) = [i \in 1..c |-> [folder |-> scan[i], enabled |-> FALSE]]
  BY <1>2 DEF Off, Entry
<1>4. \A i \in 1..c : [folder |-> scan[i], enabled |-> FALSE] \in E
  BY <1>2
<1> HIDE DEF E
<1>5. Off(scan) \in Seq(E)
  <2>1. Off(scan) \in [1..c -> E]
    BY <1>3, <1>4
  <2> QED
    BY <1>2, <2>1
<1>6. ASSUME NEW i \in 1..c  PROVE Off(scan)[i].enabled = FALSE
  <2>1. Off(scan)[i] = [folder |-> scan[i], enabled |-> FALSE]
    BY <1>3
  <2> QED
    BY <2>1
<1>7. DOMAIN Off(scan) = 1..c
  BY <1>3
<1> QED
  BY <1>5, <1>6, <1>7 DEF scan, E, Orders

(* OrderService: what an order is completed with leaves what is enabled. *)
LEMMA CompletedKeepsEnabled ==
  ASSUME NEW s \in Orders, NEW found \in SUBSET Folders
  PROVE  WithInstalled(s, found) \in Orders /\ Enabled(WithInstalled(s, found)) = Enabled(s)
<1>1. found \ Listed(s) \in SUBSET Folders
  OBVIOUS
<1> QED
  BY <1>1, OffIsOff, DisabledBehind DEF WithInstalled

(* A part of a list is a list. *)
LEMMA PartIsOrder ==
  ASSUME NEW s \in Orders, NEW places \in SUBSET (DOMAIN s)
  PROVE  /\ AtPlaces(s, places) \in Orders
         /\ \A k \in DOMAIN AtPlaces(s, places) : \E i \in places : AtPlaces(s, places)[k] = s[i]
<1> DEFINE c == Cardinality(places)
           E == [folder : Folders, enabled : BOOLEAN]
<1>1. s \in Seq(E)
  BY DEF Orders
<1> HIDE DEF E
<1>2. Len(s) \in Nat /\ places \in SUBSET (1..Len(s))
  BY <1>1
<1>3. c \in Nat /\ Scanned(places) \in [1..c -> places]
  BY <1>2, PlacesFinite, ScannedIs
<1> HIDE DEF c
<1>4. AtPlaces(s, places) = [k \in 1..c |-> s[Scanned(places)[k]]]
  BY DEF AtPlaces, c
<1>5. ASSUME NEW k \in 1..c  PROVE \E i \in places : AtPlaces(s, places)[k] = s[i]
  BY <1>3, <1>4
<1>6. \A k \in 1..c : s[Scanned(places)[k]] \in E
  BY <1>1, <1>2, <1>3
<1>7. AtPlaces(s, places) \in Seq(E)
  <2>1. AtPlaces(s, places) \in [1..c -> E]
    BY <1>4, <1>6
  <2> QED
    BY <1>3, <2>1
<1>8. DOMAIN AtPlaces(s, places) = 1..c
  BY <1>4
<1> QED
  BY <1>5, <1>7, <1>8 DEF E, Orders

(* OrderService::Refresh: what is shown as enabled is what was read. *)
LEMMA RefreshShowsTheFile ==
  ASSUME NEW read \in Seq(Folders), NEW previous \in Orders, NEW found \in SUBSET Folders
  PROVE  Refreshed(read, previous, found) \in Orders /\ Enabled(Refreshed(read, previous, found)) = read
<1> DEFINE listed == [i \in DOMAIN read |-> Entry(read[i], TRUE)]
           places == {i \in DOMAIN previous :
                        ~previous[i].enabled /\ previous[i].folder \notin Listed(listed)}
           off == AtPlaces(previous, places)
<1>1. listed \in Orders /\ Enabled(listed) = read
  BY ReadIsEnabled
<1> HIDE DEF listed
<1>2. places \in SUBSET (DOMAIN previous)
  OBVIOUS
<1>3. \A i \in places : ~previous[i].enabled
  OBVIOUS
<1> HIDE DEF places
<1>4. /\ off \in Orders
      /\ \A k \in DOMAIN off : \E i \in places : off[k] = previous[i]
  BY <1>2, PartIsOrder
<1> HIDE DEF off
<1>5. ASSUME NEW k \in DOMAIN off  PROVE off[k].enabled = FALSE
  <2> DEFINE E == [folder : Folders, enabled : BOOLEAN]
  <2>1. PICK i \in places : off[k] = previous[i]
    BY <1>4
  <2>2. ~off[k].enabled
    BY <1>3, <2>1, Zenon
  <2>3. off \in Seq(E) /\ \A e \in E : e.enabled \in BOOLEAN
    BY <1>4 DEF Orders
  <2> HIDE DEF E
  <2>4. off[k] \in E
    BY <2>3
  <2>5. off[k].enabled \in BOOLEAN
    BY <2>3, <2>4, Zenon
  <2> QED
    BY <2>2, <2>5, Zenon
<1>6. listed \o off \in Orders /\ Enabled(listed \o off) = read
  BY <1>1, <1>4, <1>5, DisabledBehind
<1>7. Refreshed(read, previous, found) = WithInstalled(listed \o off, found)
  BY DEF Refreshed, listed, off, places
<1> QED
  BY <1>6, <1>7, CompletedKeepsEnabled

(***************************************************************************)
(* The order.                                                              *)
(***************************************************************************)
(* What Write does not touch of the order. *)
HistoryOK(history) == history \in Seq(Orders) /\ Len(history) <= HistoryLimit

ShownOK == ~foreign => file = Enabled(entries)

OrderOK == OrderTypeOK /\ ShownOK

(* A row of the list with its switch turned. *)
LEMMA ToggledIsOrder ==
  ASSUME entries \in Orders, NEW f \in Folders
  PROVE  Toggled(f) \in Orders
<1> DEFINE E == [folder : Folders, enabled : BOOLEAN]
           first(i) == entries[i].folder = f /\ \A j \in 1..i - 1 : entries[j].folder # f
           turned(i) == Entry(f, ~entries[i].enabled)
<1>1. entries \in Seq(E)
  BY DEF Orders
<1>2. \A b \in BOOLEAN : [folder |-> f, enabled |-> b] \in E
  OBVIOUS
<1>3. \A i : turned(i) \in E
  <2> TAKE i
  <2>1. (~entries[i].enabled) \in BOOLEAN
    BY Zenon
  <2> QED
    BY <1>2, <2>1, Zenon DEF Entry
<1>4. Toggled(f) = [i \in DOMAIN entries |-> IF first(i) THEN turned(i) ELSE entries[i]]
  BY DEF Toggled
<1> HIDE DEF E, first, turned
<1>5. Len(entries) \in Nat /\ DOMAIN entries = 1..Len(entries) /\ \A i \in DOMAIN entries : entries[i] \in E
  BY <1>1
<1>6. Toggled(f) \in [1..Len(entries) -> E]
  BY <1>3, <1>4, <1>5
<1>7. Toggled(f) \in Seq(E)
  BY <1>5, <1>6
<1> QED
  BY <1>7 DEF E, Orders

(* A row of the list in another place. *)
LEMMA MovedIsOrder ==
  ASSUME entries \in Orders, NEW from \in DOMAIN entries, NEW to \in DOMAIN entries
  PROVE  Moved(from, to) \in Orders
<1> DEFINE E == [folder : Folders, enabled : BOOLEAN]
           rest == SubSeq(entries, 1, from - 1) \o SubSeq(entries, from + 1, Len(entries))
<1>1. entries \in Seq(E)
  BY DEF Orders
<1> HIDE DEF E
<1>2. from \in 1..Len(entries) /\ to \in 1..Len(entries) /\ Len(entries) \in Nat
  BY <1>1
<1>3. entries[from] \in E
  BY <1>1, <1>2
<1>4. SubSeq(entries, 1, from - 1) \in Seq(E) /\ Len(SubSeq(entries, 1, from - 1)) = from - 1
  BY <1>1, <1>2
<1>5. SubSeq(entries, from + 1, Len(entries)) \in Seq(E)
  BY <1>1, <1>2
<1>6. Len(SubSeq(entries, from + 1, Len(entries))) = Len(entries) - from
  BY <1>1, <1>2
<1>7. rest \in Seq(E) /\ Len(rest) = Len(entries) - 1
  <2> DEFINE before == SubSeq(entries, 1, from - 1)
             after == SubSeq(entries, from + 1, Len(entries))
  <2>1. before \in Seq(E) /\ after \in Seq(E)
    BY <1>4, <1>5
  <2>2. Len(before) = from - 1 /\ Len(after) = Len(entries) - from
    BY <1>4, <1>6
  <2> HIDE DEF before, after
  <2>3. before \o after \in Seq(E)
    BY <2>1
  <2>4. Len(before \o after) = Len(before) + Len(after)
    BY <2>1
  <2>5. Len(before \o after) = Len(entries) - 1
    BY <1>2, <2>2, <2>4
  <2> QED
    BY <2>3, <2>5 DEF before, after
<1> HIDE DEF rest
<1>8. SubSeq(rest, 1, to - 1) \in Seq(E) /\ SubSeq(rest, to, Len(rest)) \in Seq(E)
  BY <1>2, <1>7
<1>9. <<entries[from]>> \in Seq(E)
  BY <1>3
<1>10. SubSeq(rest, 1, to - 1) \o <<entries[from]>> \o SubSeq(rest, to, Len(rest)) \in Seq(E)
  BY <1>8, <1>9
<1> QED
  BY <1>10 DEF Moved, rest, E, Orders

(* The history keeps its limit. *)
LEMMA RememberedIsHistory ==
  ASSUME OrderTypeOK
  PROVE  HistoryOK(Remembered)
<1>1. /\ undo \in Seq(Orders) /\ Len(undo) \in Nat /\ Len(undo) <= HistoryLimit
      /\ HistoryLimit \in Nat \ {0} /\ entries \in Orders
  BY OrderBounds DEF OrderTypeOK
<1>2. CASE Len(undo) = HistoryLimit
  <2>1. Tail(undo) \in Seq(Orders) /\ Len(Tail(undo)) = Len(undo) - 1
    BY <1>1, <1>2
  <2> QED
    BY <1>1, <1>2, <2>1 DEF Remembered, HistoryOK
<1>3. CASE Len(undo) # HistoryLimit
  BY <1>1, <1>3 DEF Remembered, HistoryOK
<1> QED
  BY <1>2, <1>3

(* Every edit of the order is a commit of another list. *)
LEMMA EditsCommit ==
  ASSUME OrderTypeOK, NEW ok \in BOOLEAN, Edits(ok)
  PROVE  \E new \in Orders : \E history : HistoryOK(history) /\ Commit(new, history, ok)
<1>1. entries \in Orders /\ undo \in Seq(Orders) /\ Len(undo) <= HistoryLimit /\ installed \in SUBSET Folders
  BY DEF OrderTypeOK
<1>2. CASE \E f \in Folders : SetEnabled(f, ok)
  BY <1>1, <1>2, ToggledIsOrder, RememberedIsHistory DEF SetEnabled
<1>3. CASE \E i, j \in DOMAIN entries : Move(i, j, ok)
  BY <1>1, <1>3, MovedIsOrder, RememberedIsHistory DEF Move
<1>4. CASE Undo(ok)
  <2>1. undo # <<>> /\ Len(undo) \in Nat \ {0} /\ HistoryLimit \in Nat
    BY <1>1, <1>4, OrderBounds DEF Undo
  <2>2. undo[Len(undo)] \in Orders
    BY <1>1, <2>1
  <2>3. WithInstalled(undo[Len(undo)], installed) \in Orders
    BY <1>1, <2>2, CompletedKeepsEnabled
  <2>4. HistoryOK(SubSeq(undo, 1, Len(undo) - 1))
    BY <1>1, <2>1 DEF HistoryOK
  <2> QED
    BY <1>4, <2>3, <2>4 DEF Undo
<1> QED
  BY <1>2, <1>3, <1>4 DEF Edits

(* OrderService::Write, as the list and as the file have it afterwards. *)
LEMMA CommitStep ==
  ASSUME OrderTypeOK, NEW new \in Orders, NEW history, HistoryOK(history), NEW ok \in BOOLEAN,
         Commit(new, history, ok)
  PROVE  /\ file' \in Seq(Folders) /\ entries' \in Orders
         /\ undo' \in Seq(Orders) /\ Len(undo') <= HistoryLimit /\ foreign' \in BOOLEAN
         /\ ok => file' = Enabled(new) /\ entries' = new /\ foreign' = FALSE
         /\ ~ok => UNCHANGED <<file, entries, undo, foreign>>
         /\ ShownOK => ShownOK'
<1>1. CASE ok
  <2>1. /\ file' = Enabled(new) /\ entries' = new /\ undo' = history /\ foreign' = FALSE
    BY <1>1 DEF Commit, WriteFile
  <2>2. Enabled(entries') = Enabled(new)
    BY <2>1
  <2>3. ShownOK'
    BY <2>1 DEF ShownOK
  <2> QED
    BY <1>1, <2>1, <2>3, EnabledType DEF HistoryOK
<1>2. CASE ~ok
  <2>1. UNCHANGED <<file, entries, undo, foreign>>
    BY <1>2 DEF Commit, WriteFile
  <2> QED
    BY <1>2, <2>1 DEF OrderTypeOK, ShownOK
<1> QED
  BY <1>1, <1>2

(* An empty history is one. *)
LEMMA NoHistory == HistoryOK(<<>>)
<1>1. <<>> \in Seq(Orders) /\ Len(<<>>) = 0
  OBVIOUS
<1> QED
  BY <1>1, OrderBounds DEF HistoryOK

(* OrderService::Refresh. *)
LEMMA RefreshStep ==
  ASSUME OrderTypeOK, NEW found \in SUBSET Folders, Refresh(found)
  PROVE  /\ entries' \in Orders /\ installed' = found /\ foreign' = FALSE
         /\ undo' \in Seq(Orders) /\ Len(undo') <= HistoryLimit
         /\ ~Unreadable => Enabled(entries') = file
<1>1. PICK read \in Reads(file) :
        /\ entries' = Refreshed(read, entries, found)
        /\ installed' = found /\ foreign' = FALSE
        /\ undo' = IF Enabled(entries') # Enabled(entries) THEN <<>> ELSE undo
  BY DEF Refresh
<1>2. file \in Seq(Folders) /\ entries \in Orders /\ read \in Seq(Folders) /\ (~Unreadable => read = file)
  <2>1. file \in Seq(Folders) /\ entries \in Orders /\ <<>> \in Seq(Folders)
    BY DEF OrderTypeOK
  <2> QED
    BY <2>1 DEF Reads
<1>3. entries' \in Orders /\ Enabled(entries') = read
  BY <1>1, <1>2, RefreshShowsTheFile
<1>4. undo' \in Seq(Orders) /\ Len(undo') <= HistoryLimit
  BY <1>1, NoHistory DEF HistoryOK, OrderTypeOK
<1> QED
  BY <1>1, <1>2, <1>3, <1>4

(* Nothing of the order moves. *)
LEMMA OrderStays ==
  ASSUME ProfilesTypeOK, UNCHANGED orderVars, step # Ended \/ step' = Ended,
         commands' \in 0..MaxCommands, faults' \in 0..MaxFaults
  PROVE  OrderTypeOK' /\ (ShownIsOnDisk => ShownIsOnDisk')
<1>1. OrderTypeOK' 
  BY DEF ProfilesTypeOK, OrderTypeOK, orderVars
<1>2. Enabled(entries') = Enabled(entries)
  BY DEF orderVars
<1> QED
  BY <1>1, <1>2 DEF orderVars, ShownIsOnDisk

(* The list is read again from a file that stays. *)
LEMMA OrderRead ==
  ASSUME ProfilesTypeOK, NEW found \in SUBSET Folders, Refresh(found), UNCHANGED file,
         mods' \in SUBSET Folders, commands' \in 0..MaxCommands, faults' \in 0..MaxFaults
  PROVE  OrderTypeOK' /\ (~Unreadable => ShownIsOnDisk')
<1>1. OrderTypeOK
  BY DEF ProfilesTypeOK
<1>2. /\ entries' \in Orders /\ installed' = found /\ foreign' = FALSE
      /\ undo' \in Seq(Orders) /\ Len(undo') <= HistoryLimit
      /\ ~Unreadable => Enabled(entries') = file
  BY <1>1, RefreshStep
<1>3. OrderTypeOK'
  BY <1>1, <1>2 DEF OrderTypeOK
<1> QED
  BY <1>2, <1>3 DEF ShownIsOnDisk

(* Every step works within its bounds. *)
LEMMA BoundsHold ==
  ASSUME ProfilesTypeOK, [LibraryNext]_libraryVars
  PROVE  commands' \in 0..MaxCommands /\ faults' \in 0..MaxFaults
<1>1. commands \in 0..MaxCommands /\ faults \in 0..MaxFaults /\ MaxCommands \in Nat /\ MaxFaults \in Nat
  BY OrderBounds DEF ProfilesTypeOK, OrderTypeOK
<1>2. (Command \/ UNCHANGED commands) => commands' \in 0..MaxCommands
  BY <1>1 DEF Command
<1>3. (Fault \/ UNCHANGED faults) => faults' \in 0..MaxFaults
  BY <1>1 DEF Fault
<1>4. \A ok \in BOOLEAN : Works(ok) => (Fault \/ UNCHANGED faults)
  BY DEF Works
<1>5. Command \/ UNCHANGED commands
  BY DEF LibraryNext, Start, EditOrder, End, Plays, Outside, AdoptInstall, RemoveMod, CaptureCurrent,
     RemoveProfile, Clone, Activate, RestoreGame, ApplyOrder, MarkActive, SetDefault, libraryVars
<1>6. Fault \/ UNCHANGED faults
  <2>1. CASE EditOrder
    BY <1>4, <2>1 DEF EditOrder
  <2>2. CASE \E f \in Folders : RemoveMod(f)
    BY <1>4, <2>2 DEF RemoveMod
  <2>3. CASE \E p \in Names : CaptureCurrent(p) \/ Activate(p) \/ RestoreGame(p) \/ ApplyOrder(p) \/ MarkActive(p)
    BY <1>4, <2>3 DEF CaptureCurrent, Activate, RestoreGame, ApplyOrder, MarkActive
  <2>4. CASE \/ \E p \in Names : RemoveProfile(p) \/ (\E s \in Names : Clone(s, p))
             \/ \E c \in Contents : SetDefault(c)
    BY <1>4, <2>4 DEF RemoveProfile, Clone, SetDefault
  <2>5. CASE \/ Start \/ End \/ Plays \/ Outside \/ \E f \in Folders : AdoptInstall(f)
             \/ UNCHANGED libraryVars
    BY <2>5 DEF Start, End, Plays, Outside, AdoptInstall, libraryVars
  <2> QED
    BY <2>1, <2>2, <2>3, <2>4, <2>5 DEF LibraryNext
<1> QED
  BY <1>2, <1>3, <1>5, <1>6

(* Every step keeps the order's types, and the list on disk. *)
LEMMA OrderMoves ==
  ASSUME ProfilesTypeOK, [LibraryNext]_libraryVars
  PROVE  OrderTypeOK' /\ (~Unreadable /\ ShownIsOnDisk => ShownIsOnDisk')
<1>1. /\ OrderTypeOK
      /\ mods \in SUBSET Folders /\ installed \in SUBSET Folders /\ entries \in Orders
  BY DEF ProfilesTypeOK, OrderTypeOK
<1>2. commands' \in 0..MaxCommands /\ faults' \in 0..MaxFaults
  BY BoundsHold
<1>3. CASE Start
  BY <1>1, <1>2, <1>3, OrderRead DEF Start
<1>4. CASE EditOrder
  <2>1. PICK ok \in BOOLEAN : Edits(ok)
    BY <1>4 DEF EditOrder
  <2>2. UNCHANGED <<mods, installed, step>> /\ step = Idle
    BY <1>4 DEF EditOrder
  <2>3. PICK new \in Orders : \E history : HistoryOK(history) /\ Commit(new, history, ok)
    BY <1>1, <2>1, EditsCommit
  <2>4. /\ file' \in Seq(Folders) /\ entries' \in Orders
        /\ undo' \in Seq(Orders) /\ Len(undo') <= HistoryLimit /\ foreign' \in BOOLEAN
        /\ ShownOK => ShownOK'
    BY <1>1, <2>3, CommitStep
  <2>5. OrderTypeOK'
    BY <1>1, <1>2, <2>2, <2>4 DEF OrderTypeOK
  <2>6. step # Ended
    BY <2>2 DEF Idle, Ended, At
  <2> QED
    BY <2>2, <2>4, <2>5, <2>6 DEF ShownOK, ShownIsOnDisk
<1>5. ASSUME NEW f \in Folders, AdoptInstall(f)
      PROVE  OrderTypeOK' /\ (~Unreadable => ShownIsOnDisk')
  <2> DEFINE found == mods'
  <2>1. Refresh(found) /\ UNCHANGED file /\ found \in SUBSET Folders
    BY <1>1, <1>5 DEF AdoptInstall
  <2> QED
    BY <1>2, <2>1, OrderRead
<1>6. ASSUME NEW f \in Folders, RemoveMod(f)
      PROVE  OrderTypeOK' /\ (~Unreadable => ShownIsOnDisk')
  <2>1. mods' \in SUBSET Folders
    BY <1>1, <1>6 DEF RemoveMod
  <2>2. CASE Refresh(mods) /\ UNCHANGED file
    BY <1>1, <1>2, <2>1, <2>2, OrderRead
  <2>3. CASE ~(Refresh(mods) /\ UNCHANGED file)
    <3> DEFINE new == Toggled(f)
    <3>1. PICK read \in Reads(file') :
            /\ file' = Enabled(new) /\ undo' = Remembered /\ foreign' = FALSE
            /\ entries' = Refreshed(read, new, mods) /\ installed' = mods
      BY <1>6, <2>3 DEF RemoveMod
    <3>2. new \in Orders
      BY <1>1, ToggledIsOrder
    <3> HIDE DEF new
    <3>3. file' \in Seq(Folders) /\ <<>> \in Seq(Folders)
      BY <3>1, <3>2, EnabledType
    <3>4. read \in Seq(Folders) /\ (~Unreadable => read = file')
      BY <3>3 DEF Reads
    <3>5. entries' \in Orders /\ Enabled(entries') = read
      BY <1>1, <3>1, <3>2, <3>4, RefreshShowsTheFile
    <3>6. undo' \in Seq(Orders) /\ Len(undo') <= HistoryLimit
      BY <1>1, <3>1, RememberedIsHistory DEF HistoryOK
    <3>7. OrderTypeOK'
      BY <1>1, <1>2, <2>1, <3>1, <3>3, <3>5, <3>6 DEF OrderTypeOK
    <3> QED
      BY <3>1, <3>4, <3>5, <3>7 DEF ShownIsOnDisk
  <2> QED
    BY <2>2, <2>3
<1>7. ASSUME NEW p \in Names, ApplyOrder(p)
      PROVE  OrderTypeOK' /\ (ShownIsOnDisk => ShownIsOnDisk')
  <2> DEFINE new == WithInstalled(profiles[p].order, installed)
  <2>1. PICK ok \in BOOLEAN : Commit(new, <<>>, ok)
    BY <1>7 DEF ApplyOrder, Apply
  <2>2. profiles[p].order \in Orders
    BY DEF ProfilesTypeOK
  <2>3. new \in Orders
    BY <1>1, <2>2, CompletedKeepsEnabled
  <2> HIDE DEF new
  <2>4. /\ file' \in Seq(Folders) /\ entries' \in Orders
        /\ undo' \in Seq(Orders) /\ Len(undo') <= HistoryLimit /\ foreign' \in BOOLEAN
        /\ ShownOK => ShownOK'
    BY <1>1, <2>1, <2>3, NoHistory, CommitStep
  <2>5. UNCHANGED <<mods, installed>> /\ step # Ended
    BY <1>7 DEF ApplyOrder, Ended, At
  <2>6. OrderTypeOK'
    BY <1>1, <1>2, <2>4, <2>5 DEF OrderTypeOK
  <2> QED
    BY <2>4, <2>5, <2>6 DEF ShownOK, ShownIsOnDisk
<1>8. ASSUME NEW p \in Names, MarkActive(p)
      PROVE  OrderTypeOK' /\ (~Unreadable /\ ShownIsOnDisk => ShownIsOnDisk')
  <2>1. UNCHANGED <<mods, file>> /\ step # Ended
    BY <1>8 DEF MarkActive, Ended, At
  <2>2. CASE Refresh(mods)
    BY <1>1, <1>2, <2>1, <2>2, OrderRead
  <2>3. CASE ~Refresh(mods)
    <3>1. UNCHANGED orderVars
      BY <1>8, <2>1, <2>3 DEF MarkActive, orderVars
    <3> QED
      BY <1>2, <2>1, <3>1, OrderStays
  <2> QED
    BY <2>2, <2>3
<1>9. CASE End
  <2>1. /\ entries' = <<>> /\ installed' = {} /\ undo' = <<>> /\ step' = Ended
        /\ UNCHANGED <<mods, file, foreign>>
    BY <1>9 DEF End
  <2>2. <<>> \in Orders
    BY DEF Orders
  <2>3. OrderTypeOK'
    BY <1>1, <1>2, <2>1, <2>2, NoHistory DEF OrderTypeOK, HistoryOK
  <2> QED
    BY <2>1, <2>3 DEF ShownIsOnDisk
<1>10. CASE Outside
  <2>1. foreign' = TRUE /\ UNCHANGED <<mods, entries, installed, undo>>
    BY <1>10 DEF Outside, WrittenOutside
  <2>2. PICK n \in 0..Cardinality(Folders) : file' \in [1..n -> Folders]
    BY <1>10 DEF Outside, WrittenOutside
  <2>3. Cardinality(Folders) \in Nat
    BY OrderBounds, FS_CardinalityType
  <2>4. file' \in Seq(Folders)
    BY <2>2, <2>3
  <2>5. OrderTypeOK'
    BY <1>1, <1>2, <2>1, <2>4 DEF OrderTypeOK
  <2> QED
    BY <2>1, <2>5 DEF ShownIsOnDisk
<1>11. ASSUME \/ Plays
              \/ \E p \in Names : \/ CaptureCurrent(p) \/ RemoveProfile(p) \/ Activate(p) \/ RestoreGame(p)
                                 \/ \E s \in Names : Clone(s, p)
              \/ \E c \in Contents : SetDefault(c)
              \/ UNCHANGED libraryVars
       PROVE  OrderTypeOK' /\ (ShownIsOnDisk => ShownIsOnDisk')
  <2>1. UNCHANGED orderVars
    BY <1>11 DEF Plays, CaptureCurrent, RemoveProfile, Activate, RestoreGame, Clone, SetDefault, libraryVars
  <2>2. step # Ended \/ step' = Ended
    <3>1. Idle # Ended /\ \A p \in Names : At("restore", p) # Ended
      BY DEF Idle, Ended, At
    <3>2. CASE Plays \/ UNCHANGED libraryVars
      BY <3>2 DEF Plays, libraryVars, profileVars
    <3>3. CASE ~(Plays \/ UNCHANGED libraryVars)
      BY <1>11, <3>1, <3>3 DEF CaptureCurrent, RemoveProfile, Activate, RestoreGame, Clone, SetDefault
    <3> QED
      BY <3>2, <3>3
  <2> QED
    BY <1>2, <2>1, <2>2, OrderStays
<1> QED
  BY <1>3, <1>4, <1>5, <1>6, <1>7, <1>8, <1>9, <1>10, <1>11 DEF LibraryNext

(***************************************************************************)
(* Types of the profiles.                                                  *)
(***************************************************************************)
ProfileRecords == [state : {"ok", "none", "torn"}, order : Orders]
Markers == Names \cup {NoName}

(* A name is no profile's, a profile's name is one. *)
LEMMA NamesAreNames == NoName \notin Names /\ Default \in Names /\ \A p : Loads(p) /\ p \in Markers => p \in Names
BY ProfileBounds DEF Markers, Loads

(* What a save leaves, no file and a torn one are records of profiles. *)
LEMMA RecordTypes ==
  /\ \A order \in Orders : Saved(order) \in ProfileRecords
  /\ NoProfile \in ProfileRecords /\ TornProfile \in ProfileRecords
<1>1. <<>> \in Orders
  BY DEF Orders
<1> QED
  BY <1>1 DEF Saved, NoProfile, TornProfile, ProfileRecords

(* ProfileStore: Save leaves a profile, its old self, or a torn one. *)
LEMMA SaveTypes ==
  ASSUME profiles \in [Names -> ProfileRecords], NEW p \in Names, NEW order \in Orders,
         NEW ok \in BOOLEAN, Save(p, order, ok)
  PROVE  profiles' \in [Names -> ProfileRecords]
<1>1. PICK left \in ProfileRecords : profiles' = [profiles EXCEPT ![p] = left]
  BY RecordTypes DEF Save
<1> QED
  BY <1>1

(* ProfileService::SyncActive. *)
LEMMA SyncTypes ==
  ASSUME profiles \in [Names -> ProfileRecords], marker \in Markers, active \in Markers,
         NEW order \in Orders, NEW ok \in BOOLEAN, SyncActive(order, ok)
  PROVE  profiles' \in [Names -> ProfileRecords] /\ active' \in Markers
<1>1. CASE Loads(active)
  BY <1>1, NamesAreNames, SaveTypes DEF SyncActive, ReadActive
<1>2. CASE ~Loads(active)
  BY <1>2 DEF SyncActive
<1> QED
  BY <1>1, <1>2

(* Every step leaves profiles in the folder, and names of them. *)
LEMMA ProfileTypes ==
  ASSUME ProfilesTypeOK, OrderTypeOK', [LibraryNext]_libraryVars
  PROVE  profiles' \in [Names -> ProfileRecords] /\ active' \in Markers /\ marker' \in Markers
<1>1. /\ profiles \in [Names -> ProfileRecords] /\ active \in Markers /\ marker \in Markers
      /\ entries \in Orders /\ Default \in Names /\ NoName \in Markers /\ Names \subseteq Markers
  BY ProfileBounds DEF ProfilesTypeOK, OrderTypeOK, ProfileRecords, Markers
<1>2. entries' \in Orders
  BY DEF OrderTypeOK
<1>3. CASE Start
  <2> DEFINE name == IF LoadAll = {} THEN Default ELSE ReadActive
             fresh == LoadAll = {}
             written == name # NoName /\ (fresh \/ Loads(name))
  <2>1. /\ marker' = name /\ active' = name
        /\ profiles' = IF written THEN [profiles EXCEPT ![name] = Saved(entries')] ELSE profiles
    BY <1>3 DEF Start
  <2>2. name \in Markers
    BY <1>1 DEF ReadActive
  <2>3. written => name \in Names
    BY <2>2 DEF Markers
  <2>4. Saved(entries') \in ProfileRecords
    BY <1>2, RecordTypes
  <2> HIDE DEF name, written, fresh
  <2> QED
    BY <1>1, <2>1, <2>2, <2>3, <2>4
<1>4. CASE EditOrder
  <2>1. /\ marker' = marker
        /\ \/ UNCHANGED <<profiles, active>>
           \/ \E synced \in BOOLEAN : SyncActive(entries', synced)
    BY <1>4 DEF EditOrder
  <2>2. ASSUME NEW synced \in BOOLEAN, SyncActive(entries', synced)
        PROVE  profiles' \in [Names -> ProfileRecords] /\ active' \in Markers
    BY <1>1, <1>2, <2>2, SyncTypes
  <2> QED
    BY <1>1, <2>1, <2>2
<1>5. ASSUME NEW f \in Folders, RemoveMod(f)
      PROVE  profiles' \in [Names -> ProfileRecords] /\ active' \in Markers /\ marker' = marker
  <2>1. /\ marker' = marker
        /\ \/ UNCHANGED <<profiles, active>>
           \/ \E synced \in BOOLEAN : SyncActive(Toggled(f), synced)
    BY <1>5 DEF RemoveMod
  <2>2. ASSUME NEW synced \in BOOLEAN, SyncActive(Toggled(f), synced)
        PROVE  profiles' \in [Names -> ProfileRecords] /\ active' \in Markers
    BY <1>1, <2>2, ToggledIsOrder, SyncTypes
  <2> QED
    BY <1>1, <2>1, <2>2
<1>6. ASSUME NEW p \in Names, CaptureCurrent(p)
      PROVE  profiles' \in [Names -> ProfileRecords] /\ active' \in Markers /\ marker' \in Markers
  <2>1. \/ UNCHANGED profiles
        \/ \E saved \in BOOLEAN : Save(p, entries, saved)
    BY <1>6 DEF CaptureCurrent
  <2>2. \/ UNCHANGED <<marker, active>>
        \/ marker' \in {p, marker, NoName} /\ active' = marker'
    BY <1>6 DEF CaptureCurrent, WriteActive
  <2> QED
    BY <1>1, <2>1, <2>2, SaveTypes
<1>7. ASSUME NEW p \in Names, MarkActive(p)
      PROVE  profiles' \in [Names -> ProfileRecords] /\ active' \in Markers /\ marker' \in Markers
  <2>1. UNCHANGED profiles /\ marker' \in {p, marker, NoName} /\ active' \in {marker', active}
    BY <1>7 DEF MarkActive, WriteActive
  <2> QED
    BY <1>1, <2>1
<1>8. ASSUME NEW p \in Names, RemoveProfile(p) \/ \E s \in Names : Clone(s, p)
      PROVE  profiles' \in [Names -> ProfileRecords] /\ active' \in Markers /\ marker' \in Markers
  <2>1. CASE RemoveProfile(p)
    <3>1. \/ UNCHANGED profiles
          \/ profiles' = [profiles EXCEPT ![p] = NoProfile]
      BY <2>1 DEF RemoveProfile
    <3>2. \/ UNCHANGED <<marker, active>>
          \/ marker' \in {Default, marker, NoName} /\ active' = marker'
      BY <2>1 DEF RemoveProfile, WriteActive
    <3> QED
      BY <1>1, <3>1, <3>2, RecordTypes
  <2>2. ASSUME NEW s \in Names, Clone(s, p)
        PROVE  profiles' \in [Names -> ProfileRecords] /\ active' \in Markers /\ marker' \in Markers
    <3>1. \/ UNCHANGED profiles
          \/ \E saved \in BOOLEAN : Save(p, profiles[s].order, saved)
      BY <2>2 DEF Clone
    <3>2. marker' = marker /\ active' \in {active, marker}
      BY <2>2 DEF Clone, ReadActive
    <3>3. profiles[s].order \in Orders
      BY <1>1 DEF ProfileRecords
    <3> QED
      BY <1>1, <3>1, <3>2, <3>3, SaveTypes
  <2> QED
    BY <1>8, <2>1, <2>2
<1>9. ASSUME NEW c \in Contents, SetDefault(c)
      PROVE  profiles' \in [Names -> ProfileRecords] /\ active' \in Markers /\ marker' = marker
  <2> DEFINE order == IF Loads(Default) THEN profiles[Default].order ELSE entries
  <2>1. \/ UNCHANGED profiles
        \/ \E saved \in BOOLEAN : Save(Default, order, saved)
    BY <1>9 DEF SetDefault
  <2>2. marker' = marker /\ active' \in {active, marker}
    BY <1>9 DEF SetDefault, ReadActive
  <2>3. order \in Orders
    BY <1>1 DEF ProfileRecords
  <2> HIDE DEF order
  <2> QED
    BY <1>1, <2>1, <2>2, <2>3, SaveTypes
<1>10. CASE \/ End \/ Plays \/ Outside \/ \E f \in Folders : AdoptInstall(f)
            \/ \E p \in Names : Activate(p) \/ RestoreGame(p) \/ ApplyOrder(p)
            \/ UNCHANGED libraryVars
  <2>1. UNCHANGED <<profiles, marker>> /\ active' \in {active, marker, NoName}
    BY <1>10 DEF End, Plays, Outside, AdoptInstall, Activate, RestoreGame, ApplyOrder, libraryVars,
       profileVars, ReadActive
  <2> QED
    BY <1>1, <2>1
<1> QED
  BY <1>1, <1>3, <1>4, <1>5, <1>6, <1>7, <1>8, <1>9, <1>10 DEF LibraryNext

(* With gives one more name its value. *)
LEMMA WithIs ==
  ASSUME NEW f, NEW p, NEW x
  PROVE  /\ DOMAIN With(f, p, x) = DOMAIN f \cup {p} /\ With(f, p, x)[p] = x
         /\ \A q \in DOMAIN f : q # p => With(f, p, x)[q] = f[q]
BY DEF With

(* What is remembered of one more profile is remembered of names. *)
LEMMA WithNames ==
  ASSUME NEW f, DOMAIN f \subseteq Names, NEW p \in Names, NEW x
  PROVE  DOMAIN With(f, p, x) \subseteq Names
<1>1. DOMAIN With(f, p, x) = DOMAIN f \cup {p}
  BY WithIs
<1> QED
  BY <1>1

(* What the game wrote, and the step the program stands at. *)
Where == [at : {"idle", "ended", "restore", "apply", "mark"}, name : Markers]

(* Where a switch stands, and where none is under way. *)
LEMMA PlacesTypes ==
  /\ Idle \in Where /\ Ended \in Where
  /\ \A p \in Names : At("restore", p) \in Where /\ At("apply", p) \in Where /\ At("mark", p) \in Where
BY DEF Idle, Ended, At, Where, Markers

(* A copy of a game profile is one, whole or torn. *)
LEMMA CopyTypes ==
  ASSUME NEW from \in Games, NEW to \in Games, NEW ok \in BOOLEAN
  PROVE  Copied(from, to, ok) \subseteq Games
BY ProfileBounds DEF Copied, Games, TornGame

(* Every step leaves game profiles, and remembers of profiles only. *)
LEMMA GameTypes ==
  ASSUME ProfilesTypeOK, [LibraryNext]_libraryVars
  PROVE  /\ games' \in [Names -> Games] /\ live' \in Games /\ progress' \in [Names -> Games]
         /\ plays' \in 0..MaxPlays /\ step' \in Where /\ DOMAIN meant' \subseteq Names
<1>1. /\ games \in [Names -> Games] /\ live \in Games /\ progress \in [Names -> Games]
      /\ plays \in 0..MaxPlays /\ step \in Where /\ DOMAIN meant \subseteq Names
      /\ active \in Markers /\ marker \in Markers /\ Default \in Names
  BY ProfileBounds DEF ProfilesTypeOK, Where, Markers
<1>2. NoGame \in Games /\ Contents \subseteq Games /\ MaxPlays \in Nat
  BY ProfileBounds DEF NoGame, Games, TornGame, Contents
<1>3. Loads(active) => active \in Names
  BY <1>1, NamesAreNames
<1> USE DEF ReadActive
<1> HIDE DEF Where
<1>4. CASE Start
  <2> DEFINE name == IF LoadAll = {} THEN Default ELSE marker
  <2>1. DOMAIN meant' \subseteq Names
    <3>1. name # NoName => name \in Names
      BY <1>1 DEF Markers
    <3>2. meant' = meant \/ (name # NoName /\ meant' = With(meant, name, Enabled(entries')))
      BY <1>4 DEF Start
    <3> HIDE DEF name
    <3>3. CASE meant' = meant
      BY <1>1, <3>3
    <3>4. CASE name # NoName /\ meant' = With(meant, name, Enabled(entries'))
      BY <1>1, <3>1, <3>4, WithNames
    <3> QED
      BY <3>2, <3>3, <3>4
  <2>2. games' = games \/ games' = [games EXCEPT ![Default] = live]
    BY <1>4 DEF Start
  <2>3. progress' = progress \/ progress' = [progress EXCEPT ![Default] = live]
    BY <1>4 DEF Start
  <2>4. UNCHANGED <<live, plays>> /\ step' = Idle
    BY <1>4 DEF Start
  <2> QED
    BY <1>1, <2>1, <2>2, <2>3, <2>4, PlacesTypes
<1>5. CASE EditOrder \/ Outside \/ \E f \in Folders : AdoptInstall(f) \/ RemoveMod(f)
  <2>1. UNCHANGED <<games, live, progress, plays, step>>
    BY <1>5 DEF EditOrder, Outside, AdoptInstall, RemoveMod
  <2>2. \/ meant' = meant \/ DOMAIN meant' \subseteq DOMAIN meant
        \/ Loads(active) /\ \E order : meant' = With(meant, active, order)
    BY <1>5 DEF EditOrder, Outside, AdoptInstall, RemoveMod
  <2>3. DOMAIN meant' \subseteq Names
    <3>1. CASE meant' = meant \/ DOMAIN meant' \subseteq DOMAIN meant
      BY <1>1, <3>1
    <3>2. ASSUME NEW order, Loads(active), meant' = With(meant, active, order)
          PROVE  DOMAIN meant' \subseteq Names
      BY <1>1, <1>3, <3>2, WithNames
    <3> QED
      BY <2>2, <3>1, <3>2
  <2> QED
    BY <1>1, <2>1, <2>3
<1>6. CASE End \/ Plays
  <2>1. CASE End
    BY <1>1, <2>1, PlacesTypes DEF End
  <2>2. CASE Plays
    <3>1. plays' = plays + 1 /\ plays < MaxPlays /\ live' = plays' /\ UNCHANGED <<games, step, meant>>
      BY <2>2 DEF Plays
    <3>2. live' \in Games /\ plays' \in 0..MaxPlays
      BY <1>1, <1>2, <3>1 DEF Games, TornGame
    <3>3. progress' = progress \/ \E p \in Markers : progress' = [progress EXCEPT ![p] = live']
      BY <1>1, <2>2 DEF Plays
    <3> QED
      BY <1>1, <3>1, <3>2, <3>3
  <2> QED
    BY <1>6, <2>1, <2>2
<1>7. ASSUME NEW p \in Names, CaptureCurrent(p)
      PROVE  /\ games' \in [Names -> Games] /\ progress' \in [Names -> Games]
             /\ UNCHANGED <<live, plays, step>> /\ DOMAIN meant' \subseteq Names
  <2>1. games' = games \/ \E ok \in BOOLEAN : Capture(p, ok)
    BY <1>7 DEF CaptureCurrent
  <2>2. games' = games \/ \E copy \in Games : games' = [games EXCEPT ![p] = copy]
    BY <1>1, <2>1, CopyTypes DEF Capture
  <2>3. \/ progress' = progress
        \/ progress' = [q \in Names |-> IF q = p THEN live
                                        ELSE IF q = active /\ active' # active THEN games[q] ELSE progress[q]]
    BY <1>7 DEF CaptureCurrent
  <2>4. meant' = meant \/ meant' = With(meant, p, Enabled(entries))
    BY <1>7 DEF CaptureCurrent
  <2>5. UNCHANGED <<live, plays, step>>
    BY <1>7 DEF CaptureCurrent
  <2>6. DOMAIN meant' \subseteq Names
    <3>1. CASE meant' = meant
      BY <1>1, <3>1
    <3>2. CASE meant' = With(meant, p, Enabled(entries))
      BY <1>1, <3>2, WithNames
    <3> QED
      BY <2>4, <3>1, <3>2
  <2> QED
    BY <1>1, <2>1, <2>2, <2>3, <2>4, <2>5, <2>6
<1>8. ASSUME NEW p \in Names, NEW s \in Names, Clone(s, p)
      PROVE  /\ games' \in [Names -> Games] /\ progress' \in [Names -> Games]
             /\ UNCHANGED <<live, plays, step>> /\ DOMAIN meant' \subseteq Names
  <2>1. games' = games \/ \E ok \in BOOLEAN : \E copy \in Copied(games[s], games[p], ok) :
                             games' = [games EXCEPT ![p] = copy]
    BY <1>8 DEF Clone
  <2>2. games' \in [Names -> Games]
    BY <1>1, <2>1, CopyTypes
  <2>5. /\ progress' = progress \/ progress' = [progress EXCEPT ![p] = games[s]]
        /\ UNCHANGED <<live, plays, step>>
    BY <1>8 DEF Clone
  <2>3. meant' = meant \/ meant' = With(meant, p, meant[s])
    BY <1>8 DEF Clone
  <2>4. DOMAIN meant' \subseteq Names
    <3>1. CASE meant' = meant
      BY <1>1, <3>1
    <3>2. CASE meant' = With(meant, p, meant[s])
      BY <1>1, <3>2, WithNames
    <3> QED
      BY <2>3, <3>1, <3>2
  <2> QED
    BY <1>1, <2>2, <2>4, <2>5
<1>9. ASSUME NEW p \in Names, RemoveProfile(p)
      PROVE  /\ games' \in [Names -> Games] /\ progress' \in [Names -> Games]
             /\ UNCHANGED <<live, plays, step>> /\ DOMAIN meant' \subseteq Names
  <2>1. games' = games \/ games' = [games EXCEPT ![p] = NoGame]
    BY <1>9 DEF RemoveProfile
  <2>2. progress' = progress \/ progress' = [progress EXCEPT ![p] = NoGame]
    BY <1>9 DEF RemoveProfile
  <2>3. meant' = meant \/ meant' = [q \in DOMAIN meant \ {p} |-> meant[q]]
    BY <1>9 DEF RemoveProfile
  <2>4. DOMAIN meant' \subseteq Names
    BY <1>1, <2>3
  <2>5. UNCHANGED <<live, plays, step>>
    BY <1>9 DEF RemoveProfile
  <2> QED
    BY <1>1, <1>2, <2>1, <2>2, <2>4, <2>5
<1>10. ASSUME NEW p \in Names, Activate(p)
       PROVE  /\ games' \in [Names -> Games] /\ step' \in Where
              /\ UNCHANGED <<live, plays, progress, meant>>
  <2>1. games' = games \/ (Loads(active) /\ \E ok \in BOOLEAN : Capture(active, ok))
    BY <1>10 DEF Activate, KeepLive
  <2>2. games' = games \/ \E copy \in Games : games' = [games EXCEPT ![active] = copy]
    BY <1>1, <1>3, <2>1, CopyTypes DEF Capture
  <2>3. UNCHANGED <<live, plays, progress, meant>> /\ step' \in {At("restore", p), Idle}
    BY <1>10 DEF Activate
  <2> QED
    BY <1>1, <2>2, <2>3, PlacesTypes
<1>11. ASSUME NEW p \in Names, RestoreGame(p)
       PROVE  /\ live' \in Games /\ step' \in Where /\ progress' \in [Names -> Games]
              /\ UNCHANGED <<games, plays, meant>>
  <2>1. live' = live \/ \E ok \in BOOLEAN : live' \in Copied(games[p], live, ok)
    BY <1>11 DEF RestoreGame
  <2>2. progress' = progress \/ progress' = [progress EXCEPT ![p] = games[p]]
    BY <1>11 DEF RestoreGame
  <2>3. UNCHANGED <<games, plays, meant>> /\ step' \in {At("apply", p), Idle}
    BY <1>11 DEF RestoreGame
  <2> QED
    BY <1>1, <2>1, <2>2, <2>3, CopyTypes, PlacesTypes
<1>12. ASSUME NEW p \in Names, ApplyOrder(p) \/ MarkActive(p)
       PROVE  step' \in Where /\ UNCHANGED <<games, live, progress, plays, meant>>
  BY <1>12, PlacesTypes DEF ApplyOrder, MarkActive
<1>13. ASSUME NEW c \in Contents, SetDefault(c)
       PROVE  /\ games' \in [Names -> Games] /\ progress' \in [Names -> Games]
              /\ UNCHANGED <<live, plays, step>> /\ DOMAIN meant' \subseteq Names
  <2>1. meant' = meant \/ meant' = With(meant, Default, Enabled(entries))
    BY <1>13 DEF SetDefault
  <2>2. /\ \E ok \in BOOLEAN : \E copy \in Copied(c, games[Default], ok) :
             games' = [games EXCEPT ![Default] = copy]
        /\ progress' = progress \/ progress' = [progress EXCEPT ![Default] = c]
        /\ UNCHANGED <<live, plays, step>>
    BY <1>13 DEF SetDefault
  <2>3. DOMAIN meant' \subseteq Names
    <3>1. CASE meant' = meant
      BY <1>1, <3>1
    <3>2. CASE meant' = With(meant, Default, Enabled(entries))
      BY <1>1, <3>2, WithNames
    <3> QED
      BY <2>1, <3>1, <3>2
  <2> QED
    BY <1>1, <1>2, <2>2, <2>3, CopyTypes
<1>14. CASE UNCHANGED libraryVars
  BY <1>1, <1>14 DEF libraryVars, profileVars
<1> QED
  BY <1>1, <1>4, <1>5, <1>6, <1>7, <1>8, <1>9, <1>10, <1>11, <1>12, <1>13, <1>14 DEF LibraryNext

(* The library keeps its types. *)
THEOREM LibraryTypes ==
  LibrarySpec => []ProfilesTypeOK
<1>1. LibraryInit => ProfilesTypeOK
  <2> SUFFICES ASSUME LibraryInit  PROVE ProfilesTypeOK
    OBVIOUS
  <2>1. OrderTypeOK
    <3>1. <<>> \in Orders /\ <<>> \in Seq(Folders)
      BY DEF Orders
    <3>2. 0 \in 0..MaxCommands /\ 0 \in 0..MaxFaults
      BY OrderBounds
    <3> QED
      BY <3>1, <3>2, NoHistory DEF LibraryInit, OrderTypeOK, HistoryOK
  <2>2. NoProfile \in ProfileRecords /\ NoGame \in Games /\ 0 \in 0..MaxPlays
    BY RecordTypes, ProfileBounds DEF NoGame, Games, TornGame
  <2>3. DOMAIN meant = {}
    BY DEF LibraryInit
  <2>4. Ended \in Where
    BY PlacesTypes
  <2> QED
    BY <2>1, <2>2, <2>3, <2>4 DEF LibraryInit, ProfilesTypeOK, ProfileRecords, Where, Markers
<1>2. ProfilesTypeOK /\ [LibraryNext]_libraryVars => ProfilesTypeOK'
  <2> SUFFICES ASSUME ProfilesTypeOK, [LibraryNext]_libraryVars  PROVE ProfilesTypeOK'
    OBVIOUS
  <2>1. OrderTypeOK'
    BY OrderMoves
  <2>2. profiles' \in [Names -> ProfileRecords] /\ active' \in Markers /\ marker' \in Markers
    BY <2>1, ProfileTypes
  <2>3. /\ games' \in [Names -> Games] /\ live' \in Games /\ progress' \in [Names -> Games]
        /\ plays' \in 0..MaxPlays /\ step' \in Where /\ DOMAIN meant' \subseteq Names
    BY GameTypes
  <2> QED
    BY <2>1, <2>2, <2>3 DEF ProfilesTypeOK, ProfileRecords, Markers, Where
<1> QED
  BY <1>1, <1>2, PTL DEF LibrarySpec

(* OrderService: while every read of the file succeeds, the list shows as  *)
(* enabled what the file holds, whatever is edited, adopted, removed,      *)
(* activated or written outside, and whichever write fails.                *)
THEOREM ShownStaysOnDisk == ~Unreadable => (LibrarySpec => []ShownIsOnDisk)
<1> SUFFICES ASSUME ~Unreadable  PROVE LibrarySpec => []ShownIsOnDisk
  OBVIOUS
<1>1. LibraryInit => ShownIsOnDisk
  BY DEF LibraryInit, ShownIsOnDisk
<1>2. ProfilesTypeOK /\ ShownIsOnDisk /\ [LibraryNext]_libraryVars => ShownIsOnDisk'
  BY OrderMoves
<1> QED
  BY <1>1, <1>2, LibraryTypes, PTL DEF LibrarySpec

(***************************************************************************)
(* The markers.                                                            *)
(***************************************************************************)
Switching == {"restore", "apply", "mark"}

(* The program and the disk name the same active profile, which loads, and *)
(* so does the one it is switching to.                                     *)
MarkersInv ==
  /\ step # Ended => active = marker
  /\ marker # NoName => Loads(marker)
  /\ step.at \in Switching => Loads(step.name)

(* Without the windows, a save works. *)
LEMMA SaveWorks ==
  ASSUME profiles \in [Names -> ProfileRecords], "saving" \notin Windows,
         NEW p \in Names, NEW order, NEW ok \in BOOLEAN, Save(p, order, ok)
  PROVE  ok /\ profiles' = [profiles EXCEPT ![p] = Saved(order)]
BY DEF Save

(* Whether a profile loads after the step. *)
LoadsNext(p) == p # NoName /\ profiles'[p].state = "ok"

(* Between switches, the marker is what the program holds, and loads. *)
LEMMA NextMarkers ==
  ASSUME step'.at \notin Switching, active' = marker', marker' # NoName => LoadsNext(marker')
  PROVE  MarkersInv'
BY DEF MarkersInv, Loads, LoadsNext

(* A profile loads once it is saved, and the others as before. *)
LEMMA SavedLoads ==
  ASSUME profiles \in [Names -> ProfileRecords], NEW p \in Names, NEW order,
         profiles' = [profiles EXCEPT ![p] = Saved(order)]
  PROVE  /\ \A q \in Names : (q = p \/ Loads(q)) => Loads(q)' /\ LoadsNext(q)
         /\ profiles'[p].order = order
         /\ \A q \in Names \ {p} : profiles'[q] = profiles[q] /\ Loads(q)' = Loads(q)
<1>1. profiles'[p] = Saved(order)
  OBVIOUS
<1>2. \A q \in Names \ {p} : profiles'[q] = profiles[q]
  OBVIOUS
<1>3. \A q \in Names : q # NoName
  BY NamesAreNames
<1>4. Saved(order).state = "ok" /\ Saved(order).order = order
  BY DEF Saved
<1> QED
  BY <1>1, <1>2, <1>3, <1>4 DEF Loads, LoadsNext

(* The parts of a place. *)
LEMMA Steps ==
  /\ Idle.at = "idle" /\ Ended.at = "ended" /\ Idle # Ended /\ Idle.at \notin Switching /\ Ended.at \notin Switching
  /\ \A p : /\ At("restore", p).at = "restore" /\ At("apply", p).at = "apply" /\ At("mark", p).at = "mark"
            /\ At("restore", p).name = p /\ At("apply", p).name = p /\ At("mark", p).name = p
            /\ Ended \notin {At("restore", p), At("apply", p), At("mark", p)}
BY DEF Idle, Ended, At, Switching

(***************************************************************************)
(* Saved orders.                                                           *)
(***************************************************************************)
(* What is remembered of an order is what its profile holds; of the active *)
(* profile's, it is what the game will load, until the file is another's;  *)
(* and from then it is that one's.                                         *)
OrdersSaved == \A p \in DOMAIN meant : Loads(p) /\ Enabled(profiles[p].order) = meant[p]

ActiveIsTheFile  == step.at # "mark" /\ marker \in DOMAIN meant => meant[marker] = file
AppliedIsTheFile == step.at = "mark" => file = Enabled(profiles[step.name].order)

KeptInv == OrdersSaved /\ ActiveIsTheFile /\ AppliedIsTheFile

(* A profile saved with the order that is remembered of it. *)
LEMMA SaveKeepsOrders ==
  ASSUME profiles \in [Names -> ProfileRecords], DOMAIN meant \subseteq Names, OrdersSaved,
         NEW p \in Names, NEW order, profiles' = [profiles EXCEPT ![p] = Saved(order)],
         \/ meant' = With(meant, p, Enabled(order))
         \/ meant' = meant /\ (p \in DOMAIN meant => meant[p] = Enabled(order))
  PROVE  OrdersSaved'
<1>1. /\ \A q \in Names : (q = p \/ Loads(q)) => Loads(q)'
      /\ profiles'[p].order = order
      /\ \A q \in Names \ {p} : profiles'[q] = profiles[q]
  BY SavedLoads
<1>2. Enabled(profiles'[p].order) = Enabled(order)
  BY <1>1
<1>3. CASE meant' = With(meant, p, Enabled(order))
  <2>1. /\ DOMAIN meant' = DOMAIN meant \cup {p} /\ meant'[p] = Enabled(order)
        /\ \A q \in DOMAIN meant : q # p => meant'[q] = meant[q]
    <3> DEFINE more == With(meant, p, Enabled(order))
    <3>1. /\ DOMAIN more = DOMAIN meant \cup {p} /\ more[p] = Enabled(order)
          /\ \A q \in DOMAIN meant : q # p => more[q] = meant[q]
      BY DEF With
    <3> HIDE DEF more
    <3>2. meant' = more
      BY <1>3 DEF more
    <3> QED
      BY <3>1, <3>2
  <2>2. ASSUME NEW q \in DOMAIN meant', q # p  PROVE Loads(q)' /\ Enabled(profiles'[q].order) = meant'[q]
    <3>1. q \in DOMAIN meant /\ q \in Names /\ meant'[q] = meant[q]
      BY <2>1, <2>2
    <3>2. Loads(q) /\ Enabled(profiles[q].order) = meant[q]
      BY <3>1 DEF OrdersSaved
    <3>3. profiles'[q] = profiles[q]
      BY <1>1, <2>2, <3>1
    <3>4. Enabled(profiles'[q].order) = Enabled(profiles[q].order)
      BY <3>3
    <3> QED
      BY <1>1, <3>1, <3>2, <3>4
  <2>3. Loads(p)' /\ Enabled(profiles'[p].order) = meant'[p]
    BY <1>1, <1>2, <2>1
  <2> QED
    BY <2>2, <2>3 DEF OrdersSaved
<1>4. CASE meant' = meant /\ (p \in DOMAIN meant => meant[p] = Enabled(order))
  <2>1. ASSUME NEW q \in DOMAIN meant  PROVE Loads(q)' /\ Enabled(profiles'[q].order) = meant[q]
    <3>1. q \in Names /\ Loads(q) /\ Enabled(profiles[q].order) = meant[q]
      BY <2>1 DEF OrdersSaved
    <3>2. CASE q = p
      BY <1>1, <1>2, <1>4, <3>2
    <3>3. CASE q # p
      <4>1. profiles'[q] = profiles[q]
        BY <1>1, <3>1, <3>3
      <4>2. Enabled(profiles'[q].order) = Enabled(profiles[q].order)
        BY <4>1
      <4> QED
        BY <1>1, <3>1, <4>2
    <3> QED
      BY <3>2, <3>3
  <2> QED
    BY <1>4, <2>1 DEF OrdersSaved
<1> QED
  BY <1>3, <1>4

(* Profiles that stay hold what is remembered of them. *)
LEMMA StayKeepsOrders ==
  ASSUME OrdersSaved, UNCHANGED profiles, NEW gone, meant' = [q \in DOMAIN meant \ gone |-> meant[q]]
  PROVE  OrdersSaved'
<1>1. ASSUME NEW q \in DOMAIN meant \ gone  PROVE Loads(q)' /\ Enabled(profiles'[q].order) = meant'[q]
  <2>1. Loads(q) /\ Enabled(profiles[q].order) = meant[q] /\ meant'[q] = meant[q]
    BY <1>1 DEF OrdersSaved
  <2>2. Enabled(profiles'[q].order) = Enabled(profiles[q].order)
    OBVIOUS
  <2> QED
    BY <2>1, <2>2 DEF Loads
<1> QED
  BY <1>1 DEF OrdersSaved

(* Nothing saved and nothing meant: the saved orders are as meant. *)
LEMMA SameKeepsOrders ==
  ASSUME OrdersSaved, UNCHANGED <<profiles, meant>>
  PROVE  OrdersSaved'
<1>1. ASSUME NEW q \in DOMAIN meant  PROVE Loads(q)' /\ Enabled(profiles'[q].order) = meant'[q]
  <2>1. Loads(q) /\ Enabled(profiles[q].order) = meant[q]
    BY <1>1 DEF OrdersSaved
  <2>2. Enabled(profiles'[q].order) = Enabled(profiles[q].order)
    OBVIOUS
  <2> QED
    BY <2>1, <2>2 DEF Loads
<1> QED
  BY <1>1 DEF OrdersSaved

(* An order that is written and saved to the active profile. *)
SyncedWith(new) ==
  /\ file' = Enabled(new)
  /\ IF Loads(active)
     THEN /\ profiles' = [profiles EXCEPT ![active] = Saved(new)]
          /\ meant' = With(meant, active, Enabled(new)) /\ active' = marker
     ELSE UNCHANGED <<profiles, meant, active>>

LibraryIdle == step = Idle /\ UNCHANGED <<marker, step>>

(* Whichever way it fails, an edit or a removal leaves the order alone, or *)
(* everything agrees on the new one.                                       *)
LEMMA EditIsSynced ==
  ASSUME ProfilesTypeOK, Windows \subseteq {"restoring", "default"}, EditOrder
  PROVE  LibraryIdle /\ (UNCHANGED <<file, profiles, active, meant>> \/ \E new : SyncedWith(new))
<1>1. PICK ok \in BOOLEAN, synced \in BOOLEAN :
        /\ Edits(ok)
        /\ IF ok THEN SyncActive(entries', synced) ELSE synced /\ UNCHANGED <<profiles, active>>
        /\ meant' = IF ok /\ Loads(active) THEN With(meant, active, Enabled(entries')) ELSE meant
  BY DEF EditOrder
<1>2. OrderTypeOK /\ profiles \in [Names -> ProfileRecords] /\ active \in Markers
  BY DEF ProfilesTypeOK, ProfileRecords, Markers
<1>3. PICK new \in Orders : \E history : HistoryOK(history) /\ Commit(new, history, ok)
  BY <1>1, <1>2, EditsCommit
<1>4. /\ ok => file' = Enabled(new) /\ entries' = new
      /\ ~ok => UNCHANGED file
  BY <1>2, <1>3, CommitStep
<1>5. CASE ok
  <2>1. file' = Enabled(new) /\ Enabled(entries') = Enabled(new) /\ SyncActive(new, synced)
    BY <1>1, <1>4, <1>5
  <2>2. CASE Loads(active)
    <3>1. active \in Names
      BY <1>2, <2>2, NamesAreNames
    <3>2. Save(active, new, synced) /\ active' = IF synced THEN marker ELSE active
      BY <2>1, <2>2 DEF SyncActive, ReadActive
    <3>3. synced /\ profiles' = [profiles EXCEPT ![active] = Saved(new)]
      BY <1>2, <3>1, <3>2, SaveWorks
    <3>4. meant' = With(meant, active, Enabled(new))
      BY <1>1, <1>5, <2>1, <2>2
    <3> QED
      BY <2>1, <2>2, <3>2, <3>3, <3>4 DEF SyncedWith, EditOrder, LibraryIdle
  <2>3. CASE ~Loads(active)
    BY <1>1, <2>1, <2>3 DEF SyncActive, SyncedWith, EditOrder, LibraryIdle
  <2> QED
    BY <2>2, <2>3
<1>6. CASE ~ok
  BY <1>1, <1>4, <1>6 DEF EditOrder, LibraryIdle
<1> QED
  BY <1>5, <1>6

(* ModRemovalService::Remove: nothing, or an order saved to the active profile. *)
LEMMA RemovalIsSynced ==
  ASSUME ProfilesTypeOK, Windows \subseteq {"restoring", "default"}, NEW f \in Folders, RemoveMod(f)
  PROVE  LibraryIdle /\ (UNCHANGED <<file, profiles, active, meant>> \/ \E new : SyncedWith(new))
<1>1. profiles \in [Names -> ProfileRecords] /\ active \in Markers
  BY DEF ProfilesTypeOK, ProfileRecords, Markers
<1>2. LibraryIdle
  BY DEF RemoveMod, LibraryIdle
<1>3. CASE UNCHANGED <<file, profiles, active, meant>>
  BY <1>2, <1>3
<1>4. CASE ~UNCHANGED <<file, profiles, active, meant>>
  <2> DEFINE new == Toggled(f)
  <2>1. PICK synced \in BOOLEAN :
          /\ file' = Enabled(new) /\ SyncActive(new, synced)
          /\ meant' = IF Loads(active) THEN With(meant, active, file') ELSE meant
    BY <1>4 DEF RemoveMod
  <2> HIDE DEF new
  <2>2. CASE Loads(active)
    <3>1. active \in Names
      BY <1>1, <2>2, NamesAreNames
    <3>2. Save(active, new, synced) /\ active' = IF synced THEN marker ELSE active
      BY <2>1, <2>2 DEF SyncActive, ReadActive
    <3>3. synced /\ profiles' = [profiles EXCEPT ![active] = Saved(new)]
      BY <1>1, <3>1, <3>2, SaveWorks
    <3>4. meant' = With(meant, active, Enabled(new))
      BY <2>1, <2>2
    <3> QED
      BY <1>2, <2>1, <2>2, <3>2, <3>3, <3>4 DEF SyncedWith
  <2>3. CASE ~Loads(active)
    BY <1>2, <2>1, <2>3 DEF SyncActive, SyncedWith
  <2> QED
    BY <2>2, <2>3
<1> QED
  BY <1>3, <1>4

(* No profile stops loading but the one that is removed. *)
LEMMA LoadedStay ==
  ASSUME ProfilesTypeOK, Windows \subseteq {"restoring", "default"}, [LibraryNext]_libraryVars
  PROVE  \A q \in Names :
           Loads(q) => LoadsNext(q) \/ (RemoveProfile(q) /\ q # active /\ progress'[q] = NoGame)
<1>1. profiles \in [Names -> ProfileRecords] /\ active \in Markers /\ marker \in Markers /\ Default \in Names
  BY NamesAreNames DEF ProfilesTypeOK, ProfileRecords, Markers
<1> DEFINE stay == \A q \in Names : Loads(q) => LoadsNext(q)
<1>2. UNCHANGED profiles => stay
  BY DEF Loads, LoadsNext
<1>3. ASSUME NEW p \in Names, NEW order, profiles' = [profiles EXCEPT ![p] = Saved(order)]
      PROVE  stay
  BY <1>1, <1>3, SavedLoads
<1>4. (\E new : SyncedWith(new)) => stay
  BY <1>1, <1>2, <1>3, NamesAreNames DEF SyncedWith
<1> HIDE DEF stay
<1>5. CASE Start
  <2> DEFINE name == IF LoadAll = {} THEN Default ELSE marker
  <2>1. UNCHANGED profiles \/ (name # NoName /\ profiles' = [profiles EXCEPT ![name] = Saved(entries')])
    BY <1>5 DEF Start, ReadActive
  <2>2. name # NoName => name \in Names
    BY <1>1 DEF Markers
  <2> HIDE DEF name
  <2>3. stay
    BY <1>2, <1>3, <2>1, <2>2
  <2> QED
    BY <2>3 DEF stay
<1>6. CASE EditOrder \/ \E f \in Folders : RemoveMod(f)
  <2>1. stay
    BY <1>2, <1>4, <1>6, EditIsSynced, RemovalIsSynced
  <2> QED
    BY <2>1 DEF stay
<1>7. ASSUME NEW p \in Names, CaptureCurrent(p)  PROVE stay
  <2>1. UNCHANGED profiles \/ \E saved \in BOOLEAN : Save(p, entries, saved)
    BY <1>7 DEF CaptureCurrent
  <2>2. UNCHANGED profiles \/ profiles' = [profiles EXCEPT ![p] = Saved(entries)]
    BY <1>1, <2>1, SaveWorks
  <2> QED
    BY <1>2, <1>3, <2>2
<1>8. ASSUME NEW p \in Names, NEW s \in Names, Clone(s, p)  PROVE stay
  <2> DEFINE order == profiles[s].order
  <2>1. UNCHANGED profiles \/ \E saved \in BOOLEAN : Save(p, order, saved)
    BY <1>8 DEF Clone
  <2> HIDE DEF order
  <2>2. UNCHANGED profiles \/ profiles' = [profiles EXCEPT ![p] = Saved(order)]
    BY <1>1, <2>1, SaveWorks
  <2> QED
    BY <1>2, <1>3, <2>2
<1>9. ASSUME NEW c \in Contents, SetDefault(c)  PROVE stay
  <2> DEFINE order == IF Loads(Default) THEN profiles[Default].order ELSE entries
  <2>1. UNCHANGED profiles \/ \E saved \in BOOLEAN : Save(Default, order, saved)
    BY <1>9 DEF SetDefault
  <2> HIDE DEF order
  <2>2. UNCHANGED profiles \/ profiles' = [profiles EXCEPT ![Default] = Saved(order)]
    BY <1>1, <2>1, SaveWorks
  <2> QED
    BY <1>1, <1>2, <1>3, <2>2
<1>10. ASSUME NEW p \in Names, RemoveProfile(p)
       PROVE  stay \/ (p # active /\ progress'[p] = NoGame /\ \A q \in Names \ {p} : Loads(q) => LoadsNext(q))
  <2>1. CASE UNCHANGED profiles
    BY <1>2, <2>1
  <2>2. CASE ~UNCHANGED profiles
    <3>1. profiles' = [profiles EXCEPT ![p] = NoProfile] /\ progress' = [progress EXCEPT ![p] = NoGame]
      BY <1>10, <2>2 DEF RemoveProfile
    <3>2. p # active /\ progress \in [Names -> Games]
      BY <1>10 DEF RemoveProfile, ProfilesTypeOK
    <3>3. \A q \in Names \ {p} : Loads(q) => LoadsNext(q)
      BY <1>1, <3>1 DEF Loads, LoadsNext
    <3> QED
      BY <3>1, <3>2, <3>3
  <2> QED
    BY <2>1, <2>2
<1>11. CASE \/ End \/ Plays \/ Outside \/ UNCHANGED libraryVars \/ (\E f \in Folders : AdoptInstall(f))
            \/ \E p \in Names : Activate(p) \/ RestoreGame(p) \/ ApplyOrder(p) \/ MarkActive(p)
  <2>1. UNCHANGED profiles
    BY <1>11 DEF End, Plays, Outside, AdoptInstall, Activate, RestoreGame, ApplyOrder, MarkActive, libraryVars,
       profileVars
  <2> QED
    BY <1>2, <2>1 DEF stay
<1> QED
  BY <1>5, <1>6, <1>7, <1>8, <1>9, <1>10, <1>11 DEF LibraryNext, stay

(* Every step keeps the markers. *)
LEMMA MarkersStep ==
  ASSUME ProfilesTypeOK, MarkersInv, Windows \subseteq {"restoring", "default"}, [LibraryNext]_libraryVars
  PROVE  MarkersInv'
<1>1. /\ profiles \in [Names -> ProfileRecords] /\ marker \in Markers /\ Default \in Names /\ NoName \notin Names
      /\ \A q \in Names : Loads(q) => LoadsNext(q) \/ q # active
  BY NamesAreNames, LoadedStay DEF ProfilesTypeOK, ProfileRecords, Markers
<1>2. marker # NoName => marker \in Names /\ Loads(marker)
  BY <1>1 DEF MarkersInv, Markers
<1>3. active = marker /\ marker # NoName => LoadsNext(marker)
  BY <1>1, <1>2
<1>4. CASE Start
  <2> DEFINE fresh == LoadAll = {}
             name == IF fresh THEN Default ELSE marker
  <2>1. step' = Idle /\ marker' = name /\ active' = name
    BY <1>4 DEF Start, ReadActive
  <2>2. name # NoName => name \in Names /\ profiles' = [profiles EXCEPT ![name] = Saved(entries')]
    BY <1>1, <1>2, <1>4 DEF Start, ReadActive
  <2> HIDE DEF name
  <2>3. name # NoName => LoadsNext(name)
    BY <1>1, <2>2, SavedLoads
  <2> QED
    BY <2>1, <2>3, Steps, NextMarkers
<1>5. CASE EditOrder \/ \E f \in Folders : RemoveMod(f)
  <2>1. LibraryIdle /\ (active' = active \/ active' = marker)
    BY <1>5, EditIsSynced, RemovalIsSynced DEF SyncedWith
  <2>2. step' = Idle /\ marker' = marker /\ active' = marker /\ active = marker
    BY <2>1, Steps DEF LibraryIdle, MarkersInv
  <2> QED
    BY <1>3, <2>2, Steps, NextMarkers
<1>6. ASSUME NEW p \in Names, CaptureCurrent(p)  PROVE MarkersInv'
  <2>1. step = Idle /\ step' = Idle /\ active = marker
    BY <1>6, Steps DEF CaptureCurrent, MarkersInv
  <2>2. PICK copied \in BOOLEAN, saved \in BOOLEAN, marked \in BOOLEAN :
          /\ IF copied THEN Save(p, entries, saved) ELSE saved /\ UNCHANGED profiles
          /\ IF copied /\ saved THEN WriteActive(p, marked) /\ active' = marker'
             ELSE UNCHANGED <<marker, active>>
    BY <1>6 DEF CaptureCurrent
  <2>3. CASE copied
    <3>1. saved /\ profiles' = [profiles EXCEPT ![p] = Saved(entries)]
      BY <1>1, <2>2, <2>3, SaveWorks
    <3>2. marker' \in {p, marker, NoName} /\ active' = marker'
      BY <2>2, <2>3, <3>1 DEF WriteActive
    <3>3. LoadsNext(p)
      BY <1>1, <3>1, SavedLoads
    <3> QED
      BY <1>3, <2>1, <3>2, <3>3, Steps, NextMarkers
  <2>4. CASE ~copied
    BY <1>3, <2>1, <2>2, <2>4, Steps, NextMarkers
  <2> QED
    BY <2>3, <2>4
<1>7. CASE \/ \E p, s \in Names : Clone(s, p)
           \/ \E p \in Names : RemoveProfile(p)
           \/ \E c \in Contents : SetDefault(c)
           \/ \E f \in Folders : AdoptInstall(f)
  <2>1. step = Idle /\ step' = Idle /\ marker' = marker /\ active' \in {active, marker}
    BY <1>7 DEF Clone, RemoveProfile, SetDefault, AdoptInstall, ReadActive
  <2>2. active = marker
    BY <2>1, Steps DEF MarkersInv
  <2> QED
    BY <1>3, <2>1, <2>2, Steps, NextMarkers
<1>8. ASSUME NEW p \in Names, Activate(p) \/ RestoreGame(p) \/ ApplyOrder(p)  PROVE MarkersInv'
  <2>1. UNCHANGED <<profiles, marker, active>> /\ step # Ended
    BY <1>8, Steps DEF Activate, RestoreGame, ApplyOrder
  <2>2. Loads(p) /\ (step'.at \in Switching => step'.name = p)
    BY <1>8, Steps DEF Activate, RestoreGame, ApplyOrder, MarkersInv, Switching
  <2> QED
    BY <2>1, <2>2 DEF MarkersInv, Loads
<1>9. ASSUME NEW p \in Names, MarkActive(p)  PROVE MarkersInv'
  <2>1. UNCHANGED profiles /\ step = At("mark", p) /\ step' = Idle /\ marker' = p /\ active' = p
    BY <1>9 DEF MarkActive, WriteActive
  <2>2. Loads(p)
    BY <2>1, Steps DEF MarkersInv, Switching
  <2> QED
    BY <2>1, <2>2, Steps, NextMarkers DEF Loads, LoadsNext
<1>10. CASE End \/ Plays \/ Outside \/ UNCHANGED libraryVars
  <2>1. UNCHANGED <<profiles, marker>> /\ (step' = Ended \/ UNCHANGED <<step, active>>)
    BY <1>10 DEF End, Plays, Outside, libraryVars, profileVars
  <2> QED
    BY <2>1, Steps DEF MarkersInv, Loads
<1> QED
  BY <1>4, <1>5, <1>6, <1>7, <1>8, <1>9, <1>10 DEF LibraryNext

(* What is written agrees with what is saved. *)
LEMMA SyncKeeps ==
  ASSUME ProfilesTypeOK, MarkersInv, KeptInv, LibraryIdle,
         UNCHANGED <<file, profiles, active, meant>> \/ \E new : SyncedWith(new)
  PROVE  KeptInv'
<1>1. /\ profiles \in [Names -> ProfileRecords] /\ DOMAIN meant \subseteq Names /\ marker \in Markers
      /\ active = marker /\ step = Idle /\ step' = Idle /\ marker' = marker
  BY Steps DEF ProfilesTypeOK, ProfileRecords, Markers, MarkersInv, LibraryIdle
<1>2. CASE UNCHANGED <<file, profiles, active, meant>>
  <2>1. OrdersSaved'
    BY <1>2, SameKeepsOrders DEF KeptInv
  <2>2. ActiveIsTheFile' /\ AppliedIsTheFile'
    BY <1>1, <1>2, Steps DEF KeptInv, ActiveIsTheFile, AppliedIsTheFile
  <2> QED
    BY <2>1, <2>2 DEF KeptInv
<1>3. ASSUME NEW new, SyncedWith(new)  PROVE KeptInv'
  <2>1. CASE Loads(active)
    <3>1. /\ profiles' = [profiles EXCEPT ![active] = Saved(new)] /\ file' = Enabled(new)
          /\ meant' = With(meant, active, Enabled(new)) /\ active' = marker /\ active \in Names
      BY <1>1, <1>3, <2>1, NamesAreNames DEF SyncedWith
    <3>2. OrdersSaved'
      BY <1>1, <3>1, SaveKeepsOrders DEF KeptInv
    <3>5. meant'[marker] = file'
      <4> DEFINE more == With(meant, active, Enabled(new))
      <4>1. more[active] = Enabled(new)
        BY DEF With
      <4> HIDE DEF more
      <4>2. meant' = more
        BY <3>1 DEF more
      <4> QED
        BY <1>1, <3>1, <4>1, <4>2
    <3>6. ActiveIsTheFile' /\ AppliedIsTheFile'
      BY <1>1, <3>5, Steps DEF ActiveIsTheFile, AppliedIsTheFile
    <3> QED
      BY <3>2, <3>6 DEF KeptInv
  <2>2. CASE ~Loads(active)
    <3>1. UNCHANGED <<profiles, meant, active>>
      BY <1>3, <2>2 DEF SyncedWith
    <3>2. marker = NoName
      BY <1>1, <2>2 DEF MarkersInv
    <3>3. OrdersSaved'
      BY <3>1, SameKeepsOrders DEF KeptInv
    <3>5. ActiveIsTheFile' /\ AppliedIsTheFile'
      BY <1>1, <3>1, <3>2, Steps, NamesAreNames DEF ActiveIsTheFile, AppliedIsTheFile
    <3> QED
      BY <3>3, <3>5 DEF KeptInv
  <2> QED
    BY <2>1, <2>2
<1> QED
  BY <1>2, <1>3

(* Application::Start: what is read is what the active profile is given. *)
LEMMA StartKeeps ==
  ASSUME ProfilesTypeOK, MarkersInv, KeptInv, ~Unreadable, Start
  PROVE  KeptInv'
<1> DEFINE fresh == LoadAll = {}
           name == IF fresh THEN Default ELSE marker
<1>1. /\ profiles \in [Names -> ProfileRecords] /\ DOMAIN meant \subseteq Names /\ marker \in Markers
      /\ Default \in Names /\ NoName \notin Names /\ step = Ended /\ step' = Idle
      /\ mods \in SUBSET Folders /\ UNCHANGED file
  BY NamesAreNames DEF ProfilesTypeOK, OrderTypeOK, ProfileRecords, Markers, Start
<1>2. Enabled(entries') = file
  BY <1>1, RefreshStep DEF Start, ProfilesTypeOK
<1>3. name # NoName => name \in Names /\ (fresh \/ Loads(name))
  BY <1>1 DEF Markers, MarkersInv
<1>4. /\ marker' = name /\ active' = name
      /\ profiles' = IF name # NoName THEN [profiles EXCEPT ![name] = Saved(entries')] ELSE profiles
      /\ meant' = IF name # NoName /\ (fresh \/ name \notin DOMAIN meant)
                  THEN With(meant, name, Enabled(entries')) ELSE meant
  BY <1>3 DEF Start, ReadActive
<1>5. fresh => DOMAIN meant = {}
  <2>1. ASSUME NEW q \in DOMAIN meant  PROVE q \in LoadAll
    BY <1>1, <2>1 DEF KeptInv, OrdersSaved, LoadAll
  <2> QED
    BY <2>1
<1>6. name \in DOMAIN meant => ~fresh /\ name = marker /\ meant[name] = Enabled(entries')
  BY <1>1, <1>2, <1>5, Steps DEF KeptInv, ActiveIsTheFile
<1> HIDE DEF fresh, name
<1>7. CASE name # NoName
  <2>1. profiles' = [profiles EXCEPT ![name] = Saved(entries')] /\ name \in Names
    BY <1>3, <1>4, <1>7
  <2>2. \/ meant' = With(meant, name, Enabled(entries')) 
        \/ meant' = meant /\ name \in DOMAIN meant
    BY <1>4, <1>7
  <2>3. OrdersSaved'
    BY <1>1, <1>6, <2>1, <2>2, SaveKeepsOrders DEF KeptInv
  <2>6. meant'[name] = file'
    <3> DEFINE more == With(meant, name, Enabled(entries'))
    <3>1. more[name] = Enabled(entries')
      BY DEF With
    <3> HIDE DEF more
    <3>2. meant' = more \/ (meant' = meant /\ name \in DOMAIN meant)
      BY <2>2 DEF more
    <3> QED
      BY <1>1, <1>2, <1>6, <3>1, <3>2
  <2>7. ActiveIsTheFile' /\ AppliedIsTheFile'
    BY <1>1, <1>4, <2>6, Steps DEF ActiveIsTheFile, AppliedIsTheFile
  <2> QED
    BY <2>3, <2>7 DEF KeptInv
<1>8. CASE name = NoName
  <2>1. UNCHANGED <<profiles, meant>> /\ marker' = NoName /\ active' = NoName
    BY <1>4, <1>8
  <2>2. OrdersSaved'
    BY <2>1, SameKeepsOrders DEF KeptInv
  <2>3. ActiveIsTheFile' /\ AppliedIsTheFile'
    BY <1>1, <2>1, Steps DEF ActiveIsTheFile, AppliedIsTheFile
  <2> QED
    BY <2>2, <2>3 DEF KeptInv
<1> QED
  BY <1>7, <1>8

(* ProfileService::CaptureCurrent: the new profile has what is shown. *)
LEMMA CaptureKeeps ==
  ASSUME ProfilesTypeOK, ShownIsOnDisk, MarkersInv, KeptInv, Windows \subseteq {"restoring", "default"},
         NEW p \in Names, CaptureCurrent(p)
  PROVE  KeptInv'
<1>1. /\ profiles \in [Names -> ProfileRecords] /\ DOMAIN meant \subseteq Names
      /\ active = marker /\ step = Idle /\ step' = Idle /\ UNCHANGED file
      /\ profiles[p].state = "none" /\ p # NoName
  BY NamesAreNames, Steps DEF ProfilesTypeOK, ProfileRecords, MarkersInv, CaptureCurrent, orderVars
<1>2. PICK copied \in BOOLEAN, saved \in BOOLEAN, marked \in BOOLEAN :
        /\ IF copied THEN Save(p, entries, saved) ELSE saved /\ UNCHANGED profiles
        /\ IF copied /\ saved
           THEN /\ WriteActive(p, marked) /\ active' = marker'
                /\ meant' = IF foreign THEN meant ELSE With(meant, p, Enabled(entries))
           ELSE marked /\ UNCHANGED <<marker, active, meant>>
  BY DEF CaptureCurrent
<1>3. ~Loads(p) /\ p \notin DOMAIN meant
  BY <1>1 DEF Loads, KeptInv, OrdersSaved
<1>4. CASE copied
  <2>1. saved /\ profiles' = [profiles EXCEPT ![p] = Saved(entries)]
    BY <1>1, <1>2, <1>4, SaveWorks
  <2>2. /\ marker' \in {p, marker, NoName} /\ active' = marker'
        /\ meant' = IF foreign THEN meant ELSE With(meant, p, Enabled(entries))
    BY <1>2, <1>4, <2>1 DEF WriteActive
  <2>3. OrdersSaved'
    BY <1>1, <1>3, <2>1, <2>2, SaveKeepsOrders DEF KeptInv
  <2>7. foreign \/ file = Enabled(entries)
    BY <1>1, Steps DEF ShownIsOnDisk
  <2>8. marker' \in DOMAIN meant' => meant'[marker'] = file
    <3> DEFINE more == With(meant, p, Enabled(entries))
    <3>1. /\ DOMAIN more = DOMAIN meant \cup {p} /\ more[p] = Enabled(entries)
          /\ \A q \in DOMAIN meant : q # p => more[q] = meant[q]
      BY DEF With
    <3> HIDE DEF more
    <3>2. meant' = IF foreign THEN meant ELSE more
      BY <2>2 DEF more
    <3>3. marker \in DOMAIN meant => meant[marker] = file
      BY <1>1, Steps DEF KeptInv, ActiveIsTheFile
    <3>4. NoName \notin DOMAIN meant
      BY <1>1, NamesAreNames
    <3>5. CASE foreign
      BY <1>3, <2>2, <3>2, <3>3, <3>4, <3>5
    <3>6. CASE ~foreign
      BY <1>1, <1>3, <2>2, <2>7, <3>1, <3>2, <3>3, <3>4, <3>6
    <3> QED
      BY <3>5, <3>6
  <2>9. ActiveIsTheFile' /\ AppliedIsTheFile'
    BY <1>1, <2>8, Steps DEF ActiveIsTheFile, AppliedIsTheFile
  <2> QED
    BY <2>3, <2>9 DEF KeptInv
<1>5. CASE ~copied
  <2>1. UNCHANGED <<profiles, marker, active, meant, step, file>>
    BY <1>1, <1>2, <1>5
  <2>2. OrdersSaved'
    BY <2>1, SameKeepsOrders DEF KeptInv
  <2>4. ActiveIsTheFile' /\ AppliedIsTheFile'
    BY <1>1, <2>1, Steps DEF KeptInv, ActiveIsTheFile, AppliedIsTheFile
  <2> QED
    BY <2>2, <2>4 DEF KeptInv
<1> QED
  BY <1>4, <1>5

(* A profile that is not the active one is given its own. *)
LEMMA AnotherKeeps ==
  ASSUME ProfilesTypeOK, MarkersInv, KeptInv, NEW p \in Names, p # marker, NEW order,
         step = Idle, UNCHANGED <<marker, step, file>>, active' = marker,
         profiles' = [profiles EXCEPT ![p] = Saved(order)],
         \/ meant' = With(meant, p, Enabled(order))
         \/ meant' = meant /\ (p \in DOMAIN meant => meant[p] = Enabled(order))
  PROVE  KeptInv'
<1>1. profiles \in [Names -> ProfileRecords] /\ DOMAIN meant \subseteq Names /\ step' = Idle /\ marker \in Markers
  BY DEF ProfilesTypeOK, ProfileRecords, Markers
<1>2. OrdersSaved'
  BY <1>1, SaveKeepsOrders DEF KeptInv
<1>5. marker \in DOMAIN meant' => meant'[marker] = file
  <2> DEFINE more == With(meant, p, Enabled(order))
  <2>1. /\ DOMAIN more = DOMAIN meant \cup {p}
        /\ \A q \in DOMAIN meant : q # p => more[q] = meant[q]
    BY DEF With
  <2> HIDE DEF more
  <2>2. meant' = more \/ meant' = meant
    BY DEF more
  <2>3. marker \in DOMAIN meant => meant[marker] = file
    BY Steps DEF KeptInv, ActiveIsTheFile
  <2> QED
    BY <2>1, <2>2, <2>3
<1>6. ActiveIsTheFile' /\ AppliedIsTheFile'
  BY <1>1, <1>5, Steps DEF ActiveIsTheFile, AppliedIsTheFile
<1> QED
  BY <1>2, <1>6 DEF KeptInv

(* ProfileService::Activate, step by step. *)
LEMMA SwitchKeeps ==
  ASSUME ProfilesTypeOK, MarkersInv, KeptInv, Windows \subseteq {"restoring", "default"}, NEW p \in Names,
         Activate(p) \/ RestoreGame(p) \/ ApplyOrder(p) \/ MarkActive(p)
  PROVE  KeptInv'
<1>1. OrderTypeOK /\ installed \in SUBSET Folders /\ profiles[p].order \in Orders
  BY DEF ProfilesTypeOK, OrderTypeOK
<1>3. CASE Activate(p) \/ RestoreGame(p)
  <2>1. /\ UNCHANGED <<profiles, meant, marker, active, file>>
        /\ step' \in {Idle, At("restore", p), At("apply", p)}
    BY <1>3 DEF Activate, RestoreGame, orderVars
  <2>2. step.at # "mark" /\ step # Ended
    BY <1>3, Steps DEF Activate, RestoreGame
  <2>3. step'.at # "mark" /\ (step'.at \in Switching => step'.name = p)
    BY <2>1, Steps
  <2>4. OrdersSaved'
    BY <2>1, SameKeepsOrders DEF KeptInv
  <2>5. ActiveIsTheFile' /\ AppliedIsTheFile'
    BY <2>1, <2>2, <2>3 DEF KeptInv, ActiveIsTheFile, AppliedIsTheFile
  <2> QED
    BY <2>4, <2>5 DEF KeptInv
<1>4. CASE ApplyOrder(p)
  <2> DEFINE new == WithInstalled(profiles[p].order, installed)
  <2>1. UNCHANGED <<profiles, meant, marker, active>> /\ step' = At("mark", p) /\ Commit(new, <<>>, TRUE)
    BY <1>4 DEF ApplyOrder, Apply
  <2>2. new \in Orders /\ Enabled(new) = Enabled(profiles[p].order)
    BY <1>1, CompletedKeepsEnabled
  <2> HIDE DEF new
  <2>3. file' = Enabled(profiles[p].order)
    BY <2>1, <2>2 DEF Commit, WriteFile
  <2>5. OrdersSaved'
    BY <2>1, SameKeepsOrders DEF KeptInv
  <2>6. Enabled(profiles'[p].order) = Enabled(profiles[p].order)
    BY <2>1
  <2>7. ActiveIsTheFile' /\ AppliedIsTheFile'
    BY <2>1, <2>3, <2>6, Steps DEF ActiveIsTheFile, AppliedIsTheFile
  <2> QED
    BY <2>5, <2>7 DEF KeptInv
<1>5. CASE MarkActive(p)
  <2>1. UNCHANGED <<profiles, meant, file>> /\ step = At("mark", p) /\ step' = Idle /\ marker' = p /\ active' = p
    BY <1>5 DEF MarkActive, WriteActive
  <2>2. file = Enabled(profiles[p].order)
    BY <2>1, Steps DEF KeptInv, AppliedIsTheFile
  <2>3. p \in DOMAIN meant => meant[p] = file
    BY <2>2 DEF KeptInv, OrdersSaved
  <2>4. OrdersSaved'
    BY <2>1, SameKeepsOrders DEF KeptInv
  <2>6. ActiveIsTheFile' /\ AppliedIsTheFile'
    BY <2>1, <2>3, Steps DEF ActiveIsTheFile, AppliedIsTheFile
  <2> QED
    BY <2>4, <2>6 DEF KeptInv
<1> QED
  BY <1>3, <1>4, <1>5

(* What fails before anything is saved. *)
LEMMA UnsavedKeeps ==
  ASSUME KeptInv, UNCHANGED <<profiles, meant, marker, file, step>>
  PROVE  KeptInv'
<1>1. OrdersSaved'
  BY SameKeepsOrders DEF KeptInv
<1>2. Enabled(profiles'[step.name].order) = Enabled(profiles[step.name].order)
  OBVIOUS
<1>3. ActiveIsTheFile' /\ AppliedIsTheFile'
  BY <1>2 DEF KeptInv, ActiveIsTheFile, AppliedIsTheFile
<1> QED
  BY <1>1, <1>3 DEF KeptInv

(* The profiles screen, but for the switch. *)
LEMMA ScreenKeeps ==
  ASSUME ProfilesTypeOK, MarkersInv, KeptInv, Windows \subseteq {"restoring", "default"},
         \/ \E p, s \in Names : Clone(s, p)
         \/ \E p \in Names : RemoveProfile(p)
         \/ \E c \in Contents : SetDefault(c)
  PROVE  KeptInv'
<1>1. /\ profiles \in [Names -> ProfileRecords] /\ DOMAIN meant \subseteq Names /\ marker \in Markers
      /\ Default \in Names /\ NoName \notin Names
  BY NamesAreNames DEF ProfilesTypeOK, ProfileRecords, Markers
<1>2. ASSUME NEW p \in Names, NEW s \in Names, Clone(s, p)  PROVE KeptInv'
  <2> DEFINE order == profiles[s].order
  <2>1. /\ step = Idle /\ UNCHANGED <<marker, step, file>>
        /\ Loads(s) /\ profiles[p].state = "none"
        /\ \/ UNCHANGED <<profiles, meant>>
           \/ \E saved \in BOOLEAN :
                /\ Save(p, order, saved)
                /\ saved => /\ active' = marker
                            /\ meant' = IF s \in DOMAIN meant THEN With(meant, p, meant[s]) ELSE meant
    BY <1>2 DEF Clone, ReadActive, orderVars
  <2>2. ~Loads(p) /\ p \notin DOMAIN meant /\ p # marker
    BY <1>1, <2>1 DEF Loads, KeptInv, OrdersSaved, MarkersInv
  <2>3. s \in DOMAIN meant => meant[s] = Enabled(order)
    BY DEF KeptInv, OrdersSaved
  <2> HIDE DEF order
  <2>4. CASE UNCHANGED <<profiles, meant>>
    BY <2>1, <2>4, UnsavedKeeps
  <2>5. CASE ~UNCHANGED <<profiles, meant>>
    <3>1. /\ profiles' = [profiles EXCEPT ![p] = Saved(order)] /\ active' = marker
          /\ meant' = IF s \in DOMAIN meant THEN With(meant, p, meant[s]) ELSE meant
      BY <1>1, <2>1, <2>5, SaveWorks
    <3>2. \/ meant' = With(meant, p, Enabled(order))
          \/ meant' = meant /\ (p \in DOMAIN meant => meant[p] = Enabled(order))
      BY <2>2, <2>3, <3>1
    <3> QED
      BY <2>1, <2>2, <3>1, <3>2, AnotherKeeps
  <2> QED
    BY <2>4, <2>5
<1>3. ASSUME NEW c \in Contents, SetDefault(c)  PROVE KeptInv'
  <2> DEFINE order == IF Loads(Default) THEN profiles[Default].order ELSE entries
  <2>1. CASE UNCHANGED <<profiles, meant>>
    <3>1. UNCHANGED <<marker, step, file>>
      BY <1>3 DEF SetDefault, orderVars
    <3> QED
      BY <2>1, <3>1, UnsavedKeeps
  <2> SUFFICES ASSUME ~UNCHANGED <<profiles, meant>>  PROVE KeptInv'
    BY <2>1
  <2>2. /\ step = Idle /\ UNCHANGED <<marker, step, file>>
        /\ \E saved \in BOOLEAN :
             /\ Save(Default, order, saved)
             /\ saved => /\ active' = marker
                         /\ meant' = IF Loads(Default) THEN meant ELSE With(meant, Default, Enabled(entries))
    BY <1>3 DEF SetDefault, ReadActive, orderVars
  <2>3. /\ step = Idle /\ UNCHANGED <<marker, step, file>> /\ active' = marker
        /\ profiles' = [profiles EXCEPT ![Default] = Saved(order)]
        /\ meant' = IF Loads(Default) THEN meant ELSE With(meant, Default, Enabled(entries))
    <3> HIDE DEF order
    <3> QED
      BY <1>1, <2>2, SaveWorks
  <2>4. active = marker
    BY <2>3, Steps DEF MarkersInv
  <2>5. \/ meant' = With(meant, Default, Enabled(order))
        \/ meant' = meant /\ (Default \in DOMAIN meant => meant[Default] = Enabled(order))
    <3>1. CASE Loads(Default)
      <4>1. order = profiles[Default].order /\ meant' = meant
        BY <2>3, <3>1
      <4>2. Enabled(order) = Enabled(profiles[Default].order)
        BY <4>1
      <4> QED
        BY <4>1, <4>2 DEF KeptInv, OrdersSaved
    <3>2. CASE ~Loads(Default)
      <4>1. order = entries /\ meant' = With(meant, Default, Enabled(entries))
        BY <2>3, <3>2
      <4>2. Enabled(order) = Enabled(entries)
        BY <4>1
      <4> QED
        BY <4>1, <4>2
    <3> QED
      BY <3>1, <3>2
  <2>6. CASE marker = Default
    <3>1. meant' = meant
      BY <1>1, <2>3, <2>6 DEF MarkersInv
    <3> HIDE DEF order
    <3>2. OrdersSaved'
      BY <1>1, <2>3, <2>5, SaveKeepsOrders DEF KeptInv
    <3>3. ActiveIsTheFile' /\ AppliedIsTheFile'
      BY <2>3, <3>1, Steps DEF KeptInv, ActiveIsTheFile, AppliedIsTheFile
    <3> QED
      BY <3>2, <3>3 DEF KeptInv
  <2>7. CASE marker # Default
    <3> HIDE DEF order
    <3> QED
      BY <1>1, <2>3, <2>4, <2>5, <2>7, AnotherKeeps
  <2> QED
    BY <2>6, <2>7
<1>4. ASSUME NEW p \in Names, RemoveProfile(p)  PROVE KeptInv'
  <2>1. /\ step = Idle /\ UNCHANGED <<step, file, marker>> /\ p # active
        /\ \/ UNCHANGED <<profiles, meant>>
           \/ /\ profiles' = [profiles EXCEPT ![p] = NoProfile] /\ active' = marker
              /\ meant' = [q \in DOMAIN meant \ {p} |-> meant[q]]
    BY <1>4 DEF RemoveProfile, orderVars
  <2>2. CASE UNCHANGED <<profiles, meant>>
    BY <2>1, <2>2, UnsavedKeeps
  <2> SUFFICES ASSUME ~UNCHANGED <<profiles, meant>>  PROVE KeptInv'
    BY <2>2
  <2>3. /\ step = Idle /\ step' = Idle /\ UNCHANGED file /\ p # active /\ marker' = marker /\ active' = marker
        /\ profiles' = [profiles EXCEPT ![p] = NoProfile]
        /\ meant' = [q \in DOMAIN meant \ {p} |-> meant[q]]
    BY <2>1
  <2>4. active = marker
    BY <2>3, Steps DEF MarkersInv
  <2>5. \A q \in Names \ {p} : profiles'[q] = profiles[q]
    BY <1>1, <2>3
  <2>6. ASSUME NEW q \in DOMAIN meant \ {p}  PROVE Loads(q)' /\ Enabled(profiles'[q].order) = meant'[q]
    <3>1. q \in Names /\ Loads(q) /\ Enabled(profiles[q].order) = meant[q] /\ meant'[q] = meant[q]
      BY <1>1, <2>3 DEF KeptInv, OrdersSaved
    <3>2. profiles'[q] = profiles[q]
      BY <2>5, <3>1
    <3>3. Enabled(profiles'[q].order) = Enabled(profiles[q].order)
      BY <3>2
    <3> QED
      BY <3>1, <3>2, <3>3 DEF Loads
  <2>7. OrdersSaved'
    BY <2>3, <2>6 DEF OrdersSaved
  <2>8. ActiveIsTheFile' /\ AppliedIsTheFile'
    BY <2>3, <2>4, Steps DEF KeptInv, ActiveIsTheFile, AppliedIsTheFile
  <2> QED
    BY <2>7, <2>8 DEF KeptInv
<1> QED
  BY <1>2, <1>3, <1>4

(* What the program ends with, and what others write. *)
LEMMA OthersKeep ==
  ASSUME ProfilesTypeOK, MarkersInv, KeptInv, Windows \subseteq {"restoring", "default"},
         End \/ Plays \/ Outside \/ (\E f \in Folders : AdoptInstall(f)) \/ UNCHANGED libraryVars
  PROVE  KeptInv'
<1>1. CASE End \/ Plays \/ (\E f \in Folders : AdoptInstall(f)) \/ UNCHANGED libraryVars
  <2>1. /\ UNCHANGED <<profiles, meant, marker, file>>
        /\ step' \in {step, Ended}
        /\ step' # Ended => active' \in {active, marker}
        /\ step.at = "mark" => step' = step
    BY <1>1, Steps DEF End, Plays, AdoptInstall, libraryVars, orderVars, profileVars, ReadActive
  <2>2. step' # Ended => step = step' /\ active' = marker
    BY <2>1 DEF MarkersInv
  <2>4. OrdersSaved'
    BY <2>1, SameKeepsOrders DEF KeptInv
  <2>5. ActiveIsTheFile' /\ AppliedIsTheFile'
    <3>1. CASE step' = step
      BY <2>1, <3>1 DEF KeptInv, ActiveIsTheFile, AppliedIsTheFile
    <3>2. CASE step' # step
      BY <2>1, <3>2, Steps DEF KeptInv, ActiveIsTheFile, AppliedIsTheFile
    <3> QED
      BY <3>1, <3>2
  <2> QED
    BY <2>4, <2>5 DEF KeptInv
<1>2. CASE Outside
  <2> DEFINE p == IF step = Idle THEN active ELSE marker
  <2>1. /\ UNCHANGED <<profiles, marker, active, step>> /\ step \in {Idle, Ended}
        /\ meant' = [q \in DOMAIN meant \ {p} |-> meant[q]]
    BY <1>2 DEF Outside
  <2>2. p = marker
    BY <2>1, Steps DEF MarkersInv
  <2>3. OrdersSaved'
    <3> DEFINE gone == {p}
    <3>1. meant' = [q \in DOMAIN meant \ gone |-> meant[q]]
      BY <2>1
    <3> HIDE DEF gone
    <3> QED
      BY <2>1, <3>1, StayKeepsOrders DEF KeptInv
  <2>5. ActiveIsTheFile' /\ AppliedIsTheFile'
    BY <2>1, <2>2, Steps DEF ActiveIsTheFile, AppliedIsTheFile
  <2> QED
    BY <2>3, <2>5 DEF KeptInv
<1> QED
  BY <1>1, <1>2

(* Every step keeps the orders, each by the lemma of its operation. *)
LEMMA KeptStep ==
  ASSUME ProfilesTypeOK, ShownIsOnDisk, MarkersInv, KeptInv, ~Unreadable, Windows \subseteq {"restoring", "default"},
         [LibraryNext]_libraryVars
  PROVE  KeptInv'
<1>1. CASE Start
  BY <1>1, StartKeeps
<1>2. CASE EditOrder
  BY <1>2, EditIsSynced, SyncKeeps
<1>3. CASE \E f \in Folders : RemoveMod(f)
  BY <1>3, RemovalIsSynced, SyncKeeps
<1>4. CASE \E p \in Names : CaptureCurrent(p)
  BY <1>4, CaptureKeeps
<1>5. CASE \E p \in Names : Activate(p) \/ RestoreGame(p) \/ ApplyOrder(p) \/ MarkActive(p)
  BY <1>5, SwitchKeeps
<1>6. CASE \/ \E p, s \in Names : Clone(s, p)
           \/ \E p \in Names : RemoveProfile(p)
           \/ \E c \in Contents : SetDefault(c)
  BY <1>6, ScreenKeeps
<1>7. CASE End \/ Plays \/ Outside \/ (\E f \in Folders : AdoptInstall(f)) \/ UNCHANGED libraryVars
  BY <1>7, OthersKeep
<1> QED
  BY <1>1, <1>2, <1>3, <1>4, <1>5, <1>6, <1>7 DEF LibraryNext

(* ProfileService: if no switch or save is cut in the middle (a copy of a  *)
(* game profile may fail), the active profile is not removed and the file  *)
(* can be read, a profile's saved order is what the user last made of it.  *)
THEOREM OrdersStayKept ==
  ~Unreadable /\ Windows \subseteq {"restoring", "default"} => (LibrarySpec => []OrdersAreKept)
<1> SUFFICES ASSUME ~Unreadable, Windows \subseteq {"restoring", "default"}  PROVE LibrarySpec => []OrdersAreKept
  OBVIOUS
<1>1. LibraryInit => MarkersInv /\ KeptInv
  BY Steps DEF LibraryInit, MarkersInv, KeptInv, OrdersSaved, ActiveIsTheFile, AppliedIsTheFile
<1>2. ProfilesTypeOK /\ ShownIsOnDisk /\ MarkersInv /\ KeptInv /\ [LibraryNext]_libraryVars
        => MarkersInv' /\ KeptInv'
  BY KeptStep, MarkersStep
<1>3. KeptInv => OrdersAreKept
  BY DEF KeptInv, OrdersSaved, OrdersAreKept
<1>4. LibrarySpec => []ShownIsOnDisk
  BY ShownStaysOnDisk
<1> QED
  BY <1>1, <1>2, <1>3, <1>4, LibraryTypes, PTL DEF LibrarySpec

(***************************************************************************)
(* Game profiles.                                                          *)
(***************************************************************************)
(* What the game made belongs to a profile that loads; it is copied beside *)
(* the profile unless that is the active one, and during a switch beside   *)
(* that one too; the active one's is live until another's is restored, and *)
(* then that one's is.                                                     *)
ProgressLoads == \A p \in Names : progress[p] # NoGame => Loads(p)

CopiesKept ==
  \A p \in Names :
    /\ p # marker \/ (step.at \in Switching /\ p # step.name)
    /\ progress[p] # NoGame
    => games[p] = progress[p]

ActiveIsLive ==
  step.at \in {"idle", "ended", "restore"} /\ marker # NoName => progress[marker] \in {NoGame, live}

IncomingIsLive == step.at \in {"apply", "mark"} => progress[step.name] \in {NoGame, live}

GamesInv == ProgressLoads /\ CopiesKept /\ ActiveIsLive /\ IncomingIsLive

(* What the proofs about single steps start from. *)
LibraryInv == ProfilesTypeOK /\ MarkersInv /\ GamesInv

(* The parts of the invariant, spelled out. *)
LEMMA LibraryFacts ==
  ASSUME LibraryInv
  PROVE  /\ games \in [Names -> Games] /\ progress \in [Names -> Games]
         /\ profiles \in [Names -> ProfileRecords] /\ marker \in Markers
         /\ Default \in Names /\ NoName \notin Names
         /\ step # Ended => active = marker
         /\ marker # NoName => marker \in Names /\ Loads(marker)
         /\ ProgressLoads /\ CopiesKept /\ ActiveIsLive /\ IncomingIsLive
BY NamesAreNames DEF LibraryInv, ProfilesTypeOK, ProfileRecords, Markers, MarkersInv, GamesInv

(* The game is another profile's, or no profile's, after the same step. *)
LEMMA ProgressStays ==
  ASSUME LibraryInv, Windows = {}, [LibraryNext]_libraryVars,
         \A q \in Names : progress'[q] # NoGame => progress[q] # NoGame
  PROVE  ProgressLoads'
<1>1. ProfilesTypeOK /\ progress \in [Names -> Games] /\ ProgressLoads
  BY LibraryFacts DEF LibraryInv
<1>2. ASSUME NEW q \in Names, progress'[q] # NoGame  PROVE LoadsNext(q)
  <2>1. LoadsNext(q) \/ progress'[q] = NoGame
    BY <1>1, <1>2, LoadedStay DEF ProgressLoads
  <2> QED
    BY <1>2, <2>1
<1> QED
  BY <1>2 DEF ProgressLoads, Loads, LoadsNext

(* The order's steps, and what others do to it. *)
LEMMA OrderKeepsGames ==
  ASSUME LibraryInv, Windows = {}, [LibraryNext]_libraryVars,
         \/ EditOrder \/ Outside \/ UNCHANGED libraryVars \/ End
         \/ \E f \in Folders : AdoptInstall(f) \/ RemoveMod(f)
         \/ \E p \in Names : ApplyOrder(p)
  PROVE  GamesInv'
<1>1. UNCHANGED <<games, live, marker, progress>>
  BY DEF EditOrder, Outside, AdoptInstall, RemoveMod, ApplyOrder, End, libraryVars, profileVars
<1>2. \/ step' = step
      \/ step' = Ended /\ step.at \in {"idle", "ended", "restore"}
      \/ \E p \in Names : step = At("apply", p) /\ step' = At("mark", p)
  <2>1. End => step' = Ended /\ step.at \in {"idle", "ended", "restore"}
    <3>1. step.at \in {"idle", "ended", "restore", "apply", "mark"}
      BY DEF LibraryInv, ProfilesTypeOK
    <3> QED
      BY <3>1 DEF End
  <2>2. \A p \in Names : ApplyOrder(p) => step = At("apply", p) /\ step' = At("mark", p)
    BY DEF ApplyOrder
  <2> QED
    BY <2>1, <2>2 DEF EditOrder, Outside, AdoptInstall, RemoveMod, libraryVars, profileVars
<1>3. /\ games \in [Names -> Games] /\ progress \in [Names -> Games]
      /\ CopiesKept /\ ActiveIsLive /\ IncomingIsLive
  BY LibraryFacts
<1>4. ProgressLoads'
  BY <1>1, ProgressStays
<1>5. CASE step' = step
  BY <1>1, <1>3, <1>4, <1>5 DEF GamesInv, CopiesKept, ActiveIsLive, IncomingIsLive
<1>6. CASE step' = Ended /\ step.at \in {"idle", "ended", "restore"}
  <2>1. ActiveIsLive' /\ IncomingIsLive'
    BY <1>1, <1>3, <1>6, Steps DEF ActiveIsLive, IncomingIsLive
  <2>2. CopiesKept'
    BY <1>1, <1>3, <1>6, Steps DEF CopiesKept
  <2> QED
    BY <1>4, <2>1, <2>2 DEF GamesInv
<1>7. ASSUME NEW p \in Names, step = At("apply", p), step' = At("mark", p)  PROVE GamesInv'
  <2>1. step.at = "apply" /\ step'.at = "mark" /\ step.name = p /\ step'.name = p
    BY <1>7, Steps
  <2>2. CopiesKept'
    BY <1>1, <1>3, <2>1 DEF CopiesKept, Switching
  <2>3. ActiveIsLive' /\ IncomingIsLive'
    BY <1>1, <1>3, <2>1 DEF ActiveIsLive, IncomingIsLive
  <2> QED
    BY <1>4, <2>2, <2>3 DEF GamesInv
<1> QED
  BY <1>2, <1>5, <1>6, <1>7

(* The game writes its profile: it is the active one's. *)
LEMMA PlaysKeepsGames ==
  ASSUME LibraryInv, Windows = {}, Plays
  PROVE  GamesInv'
<1>1. /\ games \in [Names -> Games] /\ progress \in [Names -> Games]
      /\ marker # NoName => marker \in Names /\ Loads(marker)
      /\ ProgressLoads /\ CopiesKept /\ ActiveIsLive
  BY LibraryFacts
<1>2. step \in {Idle, Ended} /\ UNCHANGED <<profiles, games, marker, step>>
  BY DEF Plays
<1>3. (IF step = Idle THEN active ELSE marker) = marker
  BY <1>2, LibraryFacts, Steps
<1>4. progress' = IF marker # NoName THEN [progress EXCEPT ![marker] = live'] ELSE progress
  BY <1>1, <1>3 DEF Plays, Loads
<1>5. \A p \in Names : p # marker => progress'[p] = progress[p]
  BY <1>1, <1>4
<1>6. marker # NoName => progress'[marker] = live'
  BY <1>1, <1>4
<1>7. ProgressLoads'
  <2>1. ASSUME NEW q \in Names, progress'[q] # NoGame  PROVE Loads(q)
    <3>1. CASE q = marker
      BY <1>1, <3>1, LibraryFacts
    <3>2. CASE q # marker
      BY <1>1, <1>5, <2>1, <3>2 DEF ProgressLoads
    <3> QED
      BY <3>1, <3>2
  <2> QED
    BY <1>2, <2>1 DEF ProgressLoads, Loads
<1>8. CopiesKept'
  BY <1>1, <1>2, <1>5, Steps DEF CopiesKept
<1>9. ActiveIsLive' /\ IncomingIsLive'
  BY <1>2, <1>6, Steps DEF ActiveIsLive, IncomingIsLive
<1> QED
  BY <1>7, <1>8, <1>9 DEF GamesInv

(* The first profile is given what is live. *)
LEMMA StartKeepsGames ==
  ASSUME LibraryInv, Windows = {}, Start
  PROVE  GamesInv'
<1> USE LibraryFacts
<1>1. /\ games \in [Names -> Games] /\ progress \in [Names -> Games] /\ Default \in Names /\ NoName \notin Names
      /\ ProgressLoads /\ CopiesKept /\ ActiveIsLive
      /\ step = Ended /\ step' = Idle /\ UNCHANGED live
  BY DEF Start
<1>2. MarkersInv'
  BY MarkersStep DEF LibraryInv, LibraryNext
<1>3. CASE LoadAll = {}
  <2>1. /\ marker' = Default /\ progress' = [progress EXCEPT ![Default] = live]
        /\ games' = IF live # NoGame THEN [games EXCEPT ![Default] = live] ELSE games
    BY <1>3 DEF Start
  <2>2. \A p \in Names : progress[p] = NoGame
    BY <1>1, <1>3 DEF ProgressLoads, LoadAll
  <2>3. \A p \in Names : p # Default => progress'[p] = NoGame
    BY <1>1, <2>1, <2>2
  <2>4. progress'[Default] = live
    BY <1>1, <2>1
  <2>5. ProgressLoads'
    BY <1>1, <1>2, <2>1, <2>3 DEF ProgressLoads, MarkersInv
  <2>6. CopiesKept'
    BY <1>1, <2>1, <2>3, Steps DEF CopiesKept
  <2>7. ActiveIsLive' /\ IncomingIsLive'
    BY <1>1, <2>1, <2>4, Steps DEF ActiveIsLive, IncomingIsLive
  <2> QED
    BY <2>5, <2>6, <2>7 DEF GamesInv
<1>4. CASE LoadAll # {}
  <2>1. UNCHANGED <<games, progress, marker>>
    BY <1>4 DEF Start, ReadActive
  <2>2. ProgressLoads'
    BY <2>1, ProgressStays DEF LibraryNext
  <2>3. CopiesKept'
    BY <1>1, <2>1, Steps DEF CopiesKept
  <2>4. ActiveIsLive' /\ IncomingIsLive'
    BY <1>1, <2>1, Steps DEF ActiveIsLive, IncomingIsLive
  <2> QED
    BY <2>2, <2>3, <2>4 DEF GamesInv
<1> QED
  BY <1>3, <1>4

(* ProfileService::CaptureCurrent: the new profile's is live, and the one  *)
(* that was active has its own beside it.                                  *)
LEMMA CaptureKeepsGames ==
  ASSUME LibraryInv, Windows = {}, NEW p \in Names, CaptureCurrent(p)
  PROVE  GamesInv'
<1>1. /\ games \in [Names -> Games] /\ progress \in [Names -> Games] /\ NoName \notin Names
      /\ profiles \in [Names -> ProfileRecords]
      /\ marker # NoName => marker \in Names /\ Loads(marker)
      /\ ProgressLoads /\ CopiesKept /\ ActiveIsLive
      /\ step = Idle /\ step' = Idle /\ UNCHANGED live /\ active = marker /\ ~Loads(p)
  BY LibraryFacts, Steps DEF CaptureCurrent, Loads
<1>2. p # marker /\ progress[p] = NoGame
  BY <1>1 DEF ProgressLoads
<1>3. PICK copied \in BOOLEAN, saved \in BOOLEAN, marked \in BOOLEAN :
        /\ IF live = NoGame THEN copied /\ UNCHANGED games ELSE Capture(p, copied)
        /\ IF copied THEN Save(p, entries, saved) ELSE saved /\ UNCHANGED profiles
        /\ IF copied /\ saved
           THEN /\ WriteActive(p, marked) /\ active' = marker'
                /\ progress' = [q \in Names |-> IF q = p THEN live
                                  ELSE IF q = active /\ active' # active THEN games[q] ELSE progress[q]]
           ELSE UNCHANGED <<marker, active, progress>>
  BY DEF CaptureCurrent
<1>4. \A q \in Names : q # p => games'[q] = games[q]
  <2>1. games' = games \/ \E copy : games' = [games EXCEPT ![p] = copy]
    BY <1>3 DEF Capture
  <2> QED
    BY <1>1, <2>1
<1>5. CASE copied
  <2>1. saved /\ profiles' = [profiles EXCEPT ![p] = Saved(entries)]
    BY <1>1, <1>3, <1>5, SaveWorks
  <2>2. /\ marker' \in {p, marker, NoName} /\ active' = marker'
        /\ progress' = [q \in Names |-> IF q = p THEN live
                          ELSE IF q = marker /\ marker' # marker THEN games[q] ELSE progress[q]]
    BY <1>1, <1>3, <1>5, <2>1 DEF WriteActive
  <2>3. live # NoGame => games'[p] = live
    BY <1>1, <1>3, <1>5 DEF Capture, Copied
  <2>4. progress'[p] = live
    BY <2>2
  <2>5. \A q \in Names : q # p /\ ~(q = marker /\ marker' # marker) => progress'[q] = progress[q]
    BY <2>2
  <2>6. \A q \in Names : q # p /\ q = marker /\ marker' # marker => progress'[q] = games[q]
    BY <2>2
  <2>7. ProgressLoads'
    <3>1. \A q \in Names : q = p \/ Loads(q) => LoadsNext(q)
      BY <1>1, <2>1, SavedLoads
    <3>2. \A q \in Names : progress'[q] # NoGame => q = p \/ Loads(q)
      BY <1>1, <2>5 DEF ProgressLoads
    <3> QED
      BY <3>1, <3>2 DEF ProgressLoads, Loads, LoadsNext
  <2>8. CopiesKept'
    <3> SUFFICES ASSUME NEW q \in Names, q # marker', progress'[q] # NoGame
                 PROVE  games'[q] = progress'[q]
      BY <1>1, Steps DEF CopiesKept
    <3>1. CASE q = p
      BY <2>3, <2>4, <3>1
    <3>2. CASE q # p /\ q = marker
      BY <1>4, <2>6, <3>2
    <3>3. CASE q # p /\ q # marker
      BY <1>1, <1>4, <2>5, <3>3 DEF CopiesKept
    <3> QED
      BY <3>1, <3>2, <3>3
  <2>9. ActiveIsLive' /\ IncomingIsLive'
    BY <1>1, <1>2, <2>2, <2>4, <2>5, Steps DEF ActiveIsLive, IncomingIsLive
  <2> QED
    BY <2>7, <2>8, <2>9 DEF GamesInv
<1>6. CASE ~copied
  <2>1. UNCHANGED <<profiles, marker, progress>>
    BY <1>3, <1>6
  <2>2. ProgressLoads'
    BY <1>1, <2>1 DEF ProgressLoads, Loads
  <2>3. CopiesKept'
    BY <1>1, <1>2, <1>4, <2>1, Steps DEF CopiesKept
  <2>4. ActiveIsLive' /\ IncomingIsLive'
    BY <1>1, <2>1, Steps DEF ActiveIsLive, IncomingIsLive
  <2> QED
    BY <2>2, <2>3, <2>4 DEF GamesInv
<1> QED
  BY <1>5, <1>6

(* A profile that is not the active one is given a game profile, or loses  *)
(* it with itself.                                                         *)
LEMMA AnotherKeepsGames ==
  ASSUME LibraryInv, NEW p \in Names, p # marker, step = Idle, step' = Idle, UNCHANGED <<live, marker>>,
         \A q \in Names : q # p => games'[q] = games[q] /\ progress'[q] = progress[q],
         progress'[p] # NoGame => games'[p] = progress'[p]
  PROVE  CopiesKept' /\ ActiveIsLive' /\ IncomingIsLive'
<1>1. /\ marker # NoName => marker \in Names
      /\ CopiesKept /\ ActiveIsLive
  BY LibraryFacts
<1>2. CopiesKept'
  <2> SUFFICES ASSUME NEW q \in Names, q # marker, progress'[q] # NoGame
               PROVE  games'[q] = progress'[q]
    BY <1>1, Steps DEF CopiesKept
  <2>1. CASE q = p
    BY <2>1
  <2>2. CASE q # p
    BY <1>1, <2>2 DEF CopiesKept
  <2> QED
    BY <2>1, <2>2
<1>3. ActiveIsLive' /\ IncomingIsLive'
  BY <1>1, Steps DEF ActiveIsLive, IncomingIsLive
<1> QED
  BY <1>2, <1>3

(* Clone, Remove and SetDefault, in the profiles screen. *)
LEMMA ScreenKeepsGames ==
  ASSUME LibraryInv, Windows = {},
         \/ \E p, s \in Names : Clone(s, p)
         \/ \E p \in Names : RemoveProfile(p)
         \/ \E c \in Contents : c <= plays /\ SetDefault(c)
  PROVE  GamesInv'
<1>1. /\ games \in [Names -> Games] /\ progress \in [Names -> Games] /\ NoName \notin Names
      /\ profiles \in [Names -> ProfileRecords] /\ Default \in Names
      /\ marker # NoName => marker \in Names /\ Loads(marker)
      /\ step # Ended => active = marker
      /\ ProgressLoads
  BY LibraryFacts
<1>2. ASSUME NEW p \in Names, NEW s \in Names, Clone(s, p)  PROVE GamesInv'
  <2>1. /\ step = Idle /\ step' = Idle /\ UNCHANGED <<live, marker>> /\ Loads(s) /\ profiles[p].state = "none"
        /\ \E copied, saved \in BOOLEAN, copy \in Games :
             /\ games' = [games EXCEPT ![p] = copy]
             /\ IF copied THEN Save(p, profiles[s].order, saved) ELSE saved /\ UNCHANGED profiles
             /\ IF copied /\ saved THEN progress' = [progress EXCEPT ![p] = games[s]] ELSE UNCHANGED progress
             /\ copied => games[s] = NoGame \/ copy = games[s]
    <3>1. PICK copied \in BOOLEAN, saved \in BOOLEAN :
            /\ IF games[s] = NoGame THEN copied /\ UNCHANGED games
               ELSE \E copy \in Copied(games[s], games[p], copied) : games' = [games EXCEPT ![p] = copy]
            /\ IF copied THEN Save(p, profiles[s].order, saved) ELSE saved /\ UNCHANGED profiles
            /\ IF copied /\ saved THEN progress' = [progress EXCEPT ![p] = games[s]] ELSE UNCHANGED progress
      BY <1>2 DEF Clone
    <3>2. games[s] = NoGame => games' = [games EXCEPT ![p] = games[p]]
      BY <1>1, <3>1
    <3>3. games[s] # NoGame => \E copy \in Games :
            games' = [games EXCEPT ![p] = copy] /\ (copied => copy = games[s])
      <4>1. Copied(games[s], games[p], copied) \subseteq Games
        BY <1>1, CopyTypes
      <4>2. copied => Copied(games[s], games[p], copied) = {games[s]}
        BY DEF Copied
      <4> QED
        BY <3>1, <4>1, <4>2
    <3>4. step = Idle /\ step' = Idle /\ UNCHANGED <<live, marker>> /\ Loads(s) /\ profiles[p].state = "none"
      BY <1>2 DEF Clone
    <3>5. games[p] \in Games
      BY <1>1
    <3> QED
      BY <3>1, <3>2, <3>3, <3>4, <3>5
  <2>2. ~Loads(p) /\ p # marker /\ progress[p] = NoGame
    BY <1>1, <2>1 DEF Loads, ProgressLoads
  <2>3. PICK copied \in BOOLEAN, saved \in BOOLEAN, copy \in Games :
          /\ games' = [games EXCEPT ![p] = copy]
          /\ IF copied THEN Save(p, profiles[s].order, saved) ELSE saved /\ UNCHANGED profiles
          /\ IF copied /\ saved THEN progress' = [progress EXCEPT ![p] = games[s]] ELSE UNCHANGED progress
          /\ copied => games[s] = NoGame \/ copy = games[s]
    BY <2>1
  <2>4. copied => saved /\ \A q \in Names : q = p \/ Loads(q) => LoadsNext(q)
    <3>1. copied => saved /\ profiles' = [profiles EXCEPT ![p] = Saved(profiles[s].order)]
      BY <1>1, <2>3, SaveWorks
    <3> QED
      BY <1>1, <3>1, SavedLoads
  <2>5. ~copied => UNCHANGED <<profiles, progress>>
    BY <2>3
  <2>6. \A q \in Names : q # p => games'[q] = games[q] /\ progress'[q] = progress[q]
    BY <1>1, <2>3
  <2>7. progress'[p] # NoGame => games'[p] = progress'[p]
    BY <1>1, <2>2, <2>3, <2>4, <2>5
  <2>8. CopiesKept' /\ ActiveIsLive' /\ IncomingIsLive'
    BY <2>1, <2>2, <2>6, <2>7, AnotherKeepsGames
  <2>9. \A q \in Names : progress'[q] # NoGame => q = p \/ Loads(q)
    BY <1>1, <2>6 DEF ProgressLoads
  <2>10. ProgressLoads'
    BY <1>1, <2>4, <2>5, <2>9 DEF ProgressLoads, Loads, LoadsNext
  <2> QED
    BY <2>8, <2>10 DEF GamesInv
<1>3. ASSUME NEW p \in Names, RemoveProfile(p)  PROVE GamesInv'
  <2>1. /\ step = Idle /\ step' = Idle /\ UNCHANGED live /\ p # active /\ marker' = marker
        /\ \/ UNCHANGED <<games, progress>>
           \/ /\ games' = games \/ games' = [games EXCEPT ![p] = NoGame]
              /\ progress' = [progress EXCEPT ![p] = NoGame]
    BY <1>3 DEF RemoveProfile
  <2>2. \A q \in Names : q # p => games'[q] = games[q] /\ progress'[q] = progress[q]
    BY <1>1, <2>1
  <2>3. progress'[p] = NoGame \/ UNCHANGED <<games, progress>>
    BY <1>1, <2>1
  <2>4. CopiesKept' /\ ActiveIsLive' /\ IncomingIsLive'
    <3>1. progress'[p] # NoGame => games'[p] = progress'[p]
      BY <1>1, <2>1, <2>3, Steps, LibraryFacts DEF CopiesKept
    <3> QED
      BY <1>1, <2>1, <2>2, <3>1, Steps, AnotherKeepsGames
  <2>5. \A q \in Names : progress'[q] # NoGame => progress[q] # NoGame
    BY <2>2, <2>3
  <2>6. ProgressLoads'
    BY <1>3, <2>5, ProgressStays DEF LibraryNext
  <2> QED
    BY <2>4, <2>6 DEF GamesInv
<1>4. ASSUME NEW c \in Contents, SetDefault(c)  PROVE GamesInv'
  <2> DEFINE order == IF Loads(Default) THEN profiles[Default].order ELSE entries
  <2>1. /\ step = Idle /\ step' = Idle /\ UNCHANGED <<live, marker>> /\ active # Default
        /\ \/ UNCHANGED <<games, progress, profiles>>
           \/ /\ games' = [games EXCEPT ![Default] = c] /\ progress' = [progress EXCEPT ![Default] = c]
              /\ \E saved \in BOOLEAN : Save(Default, order, saved)
    BY <1>4 DEF SetDefault, Copied
  <2>2. CASE UNCHANGED <<games, progress, profiles>>
    BY <2>1, <2>2, LibraryFacts, Steps
       DEF GamesInv, CopiesKept, ActiveIsLive, IncomingIsLive, ProgressLoads, Loads
  <2> HIDE DEF order
  <2> SUFFICES ASSUME ~UNCHANGED <<games, progress, profiles>>  PROVE GamesInv'
    BY <2>2
  <2>3. /\ step = Idle /\ step' = Idle /\ UNCHANGED <<live, marker>> /\ active # Default
        /\ games' = [games EXCEPT ![Default] = c] /\ progress' = [progress EXCEPT ![Default] = c]
        /\ profiles' = [profiles EXCEPT ![Default] = Saved(order)]
    BY <1>1, <2>1, SaveWorks
  <2>4. \A q \in Names : q # Default => games'[q] = games[q] /\ progress'[q] = progress[q]
    BY <1>1, <2>3
  <2>5. games'[Default] = progress'[Default]
    BY <1>1, <2>3
  <2>6. CopiesKept' /\ ActiveIsLive' /\ IncomingIsLive'
    BY <1>1, <2>3, <2>4, <2>5, Steps, AnotherKeepsGames
  <2>7. \A q \in Names : q = Default \/ Loads(q) => LoadsNext(q)
    BY <1>1, <2>3, SavedLoads
  <2>8. \A q \in Names : progress'[q] # NoGame => q = Default \/ Loads(q)
    BY <1>1, <2>4 DEF ProgressLoads
  <2>9. ProgressLoads'
    BY <2>7, <2>8 DEF ProgressLoads, Loads, LoadsNext
  <2> QED
    BY <2>6, <2>9 DEF GamesInv
<1> QED
  BY <1>2, <1>3, <1>4

(* ProfileService::Activate: what is live is copied beside the profile     *)
(* that is left before another's is restored.                              *)
LEMMA SwitchKeepsGames ==
  ASSUME LibraryInv, Windows = {}, NEW p \in Names, Activate(p) \/ RestoreGame(p) \/ MarkActive(p)
  PROVE  GamesInv'
<1>1. /\ games \in [Names -> Games] /\ progress \in [Names -> Games] /\ NoName \notin Names
      /\ marker # NoName => marker \in Names /\ Loads(marker)
      /\ step # Ended => active = marker
      /\ CopiesKept /\ ActiveIsLive /\ IncomingIsLive
  BY LibraryFacts
<1>2. ProgressLoads'
  <2>1. \A q \in Names : progress'[q] # NoGame => progress[q] # NoGame \/ (q = p /\ RestoreGame(p))
    <3>1. RestoreGame(p) => progress' = progress \/ progress' = [progress EXCEPT ![p] = games[p]]
      BY DEF RestoreGame
    <3> QED
      BY <1>1, <3>1 DEF Activate, MarkActive
  <2>2. RestoreGame(p) => Loads(p) /\ UNCHANGED profiles
    BY Steps DEF RestoreGame, LibraryInv, MarkersInv, Switching
  <2>3. UNCHANGED profiles
    BY <2>2 DEF Activate, MarkActive
  <2>4. \A q \in Names : progress'[q] # NoGame => Loads(q)
    BY <2>1, <2>2, LibraryFacts DEF ProgressLoads
  <2> QED
    BY <2>3, <2>4 DEF ProgressLoads, Loads
<1>3. CASE Activate(p)
  <2>1. /\ step = Idle /\ UNCHANGED <<live, marker, progress>> /\ active = marker
    BY <1>1, <1>3, Steps DEF Activate
  <2>2. PICK ok \in BOOLEAN : KeepLive(p, ok) /\ step' = IF ok THEN At("restore", p) ELSE Idle
    BY <1>3 DEF Activate
  <2>3. \A q \in Names : q # marker => games'[q] = games[q]
    <3>1. games' = games \/ \E copy : games' = [games EXCEPT ![marker] = copy]
      BY <2>1, <2>2 DEF KeepLive, Capture
    <3> QED
      BY <1>1, <3>1
  <2>4. \A q \in Names : q # marker /\ progress[q] # NoGame => games'[q] = progress[q]
    BY <1>1, <2>3 DEF CopiesKept
  <2>5. ok /\ marker # p /\ marker # NoName /\ progress[marker] # NoGame => games'[marker] = progress[marker]
    <3> SUFFICES ASSUME ok, marker # p, marker # NoName, progress[marker] # NoGame
                 PROVE  games'[marker] = progress[marker]
      OBVIOUS
    <3>1. progress[marker] = live /\ live # NoGame
      BY <1>1, <2>1, Steps DEF ActiveIsLive
    <3>2. Capture(marker, TRUE)
      BY <1>1, <2>1, <2>2, <3>1, Zenon DEF KeepLive
    <3>3. games' = [games EXCEPT ![marker] = live]
      BY <3>2 DEF Capture, Copied
    <3> QED
      BY <1>1, <3>1, <3>3
  <2>6. CopiesKept'
    <3>1. CASE ok
      BY <1>1, <2>1, <2>2, <2>4, <2>5, <3>1, Steps DEF CopiesKept
    <3>2. CASE ~ok
      BY <1>1, <2>1, <2>2, <2>4, <3>2, Steps DEF CopiesKept
    <3> QED
      BY <3>1, <3>2
  <2>7. ActiveIsLive' /\ IncomingIsLive'
    BY <1>1, <2>1, <2>2, Steps DEF ActiveIsLive, IncomingIsLive
  <2> QED
    BY <1>2, <2>6, <2>7 DEF GamesInv
<1>4. CASE RestoreGame(p)
  <2>1. /\ step = At("restore", p) /\ UNCHANGED <<games, marker>> /\ active = marker
    BY <1>1, <1>4, Steps DEF RestoreGame
  <2>2. PICK backed \in BOOLEAN :
          /\ step' = IF backed THEN At("apply", p) ELSE Idle
          /\ live' = IF backed /\ games[p] # NoGame THEN games[p] ELSE live
          /\ progress' = IF backed /\ p = active /\ games[p] # NoGame THEN [progress EXCEPT ![p] = games[p]] ELSE progress
    <3>1. PICK backed \in BOOLEAN, ok \in BOOLEAN :
            /\ ~ok => "restoring" \in Windows
            /\ step' = IF backed /\ ok THEN At("apply", p) ELSE Idle
            /\ IF games[p] = NoGame
               THEN backed /\ ok /\ UNCHANGED live
               ELSE live' \in IF backed THEN Copied(games[p], live, ok) ELSE {live}
            /\ progress' = IF backed /\ p = active /\ games[p] # NoGame THEN [progress EXCEPT ![p] = games[p]] ELSE progress
      BY <1>4 DEF RestoreGame
    <3>2. ok
      BY <3>1
    <3>3. live' = IF backed /\ games[p] # NoGame THEN games[p] ELSE live
      BY <3>1, <3>2 DEF Copied
    <3>4. step' = IF backed THEN At("apply", p) ELSE Idle
      BY <3>1, <3>2
    <3> QED
      BY <3>1, <3>3, <3>4
  <2>3. \A q \in Names : q # marker \/ q # p => progress'[q] = progress[q]
    BY <1>1, <2>1, <2>2
  <2>4. CopiesKept'
    <3>1. \A q \in Names : q # marker \/ q # p => (progress[q] # NoGame => games[q] = progress[q])
      <4>1. step.at \in Switching /\ step.name = p
        BY <2>1, Steps DEF Switching
      <4> QED
        BY <1>1, <4>1 DEF CopiesKept
    <3>2. step'.at \in Switching => step'.name = p
      BY <2>2, Steps
    <3> QED
      BY <2>1, <2>3, <3>1, <3>2 DEF CopiesKept
  <2>5. marker # NoName => progress[marker] \in {NoGame, live}
    BY <1>1, <2>1, Steps DEF ActiveIsLive
  <2>6. CASE backed
    <3>1. step'.at = "apply" /\ step'.name = p
      BY <2>2, <2>6, Steps
    <3>2. progress'[p] \in {NoGame, live'}
      <4>1. CASE p = marker
        BY <1>1, <2>1, <2>2, <2>5, <2>6, <4>1
      <4>2. CASE p # marker
        <5>1. progress[p] # NoGame => games[p] = progress[p]
          BY <1>1, <4>2 DEF CopiesKept
        <5> QED
          BY <2>2, <2>3, <2>6, <4>2, <5>1
      <4> QED
        BY <4>1, <4>2
    <3> QED
      BY <1>2, <2>4, <3>1, <3>2 DEF GamesInv, ActiveIsLive, IncomingIsLive
  <2>7. CASE ~backed
    <3>1. step' = Idle /\ UNCHANGED <<live, progress>>
      BY <2>2, <2>7
    <3>2. ActiveIsLive' /\ IncomingIsLive'
      BY <2>1, <2>5, <3>1, Steps DEF ActiveIsLive, IncomingIsLive
    <3> QED
      BY <1>2, <2>4, <3>2 DEF GamesInv
  <2> QED
    BY <2>6, <2>7
<1>5. CASE MarkActive(p)
  <2>1. /\ step = At("mark", p) /\ step' = Idle /\ marker' = p /\ UNCHANGED <<games, live, progress>>
    BY <1>5 DEF MarkActive, WriteActive
  <2>2. CopiesKept'
    BY <1>1, <2>1, Steps DEF CopiesKept, Switching
  <2>3. ActiveIsLive' /\ IncomingIsLive'
    BY <1>1, <2>1, Steps DEF ActiveIsLive, IncomingIsLive
  <2> QED
    BY <1>2, <2>2, <2>3 DEF GamesInv
<1> QED
  BY <1>3, <1>4, <1>5

(* What is kept in every step is enough for what the game needs to find.   *)
LEMMA GamesAreFound ==
  ASSUME LibraryInv
  PROVE  GameProfilesAreKept
<1>1. step.at \in {"idle", "ended", "restore", "apply", "mark"}
  BY DEF LibraryInv, ProfilesTypeOK
<1>2. CopiesKept /\ ActiveIsLive /\ IncomingIsLive /\ NoName \notin Names
  BY LibraryFacts
<1>3. ASSUME NEW p \in Names, progress[p] # NoGame, games[p] # progress[p]
      PROVE  p = marker /\ live = progress[p]
  <2>1. p = marker /\ p # NoName /\ ~(step.at \in Switching /\ p # step.name)
    BY <1>2, <1>3 DEF CopiesKept
  <2>2. CASE step.at \in {"idle", "ended", "restore"}
    BY <1>2, <1>3, <2>1, <2>2 DEF ActiveIsLive
  <2>3. CASE step.at \in {"apply", "mark"}
    BY <1>2, <1>3, <2>1, <2>3 DEF IncomingIsLive, Switching
  <2> QED
    BY <1>1, <2>1, <2>2, <2>3
<1> QED
  BY <1>3 DEF GameProfilesAreKept

(* Every step keeps the game profiles, each by the lemma of its operation. *)
LEMMA GamesStep ==
  ASSUME LibraryInv, Windows = {}, [LibraryNext]_libraryVars
  PROVE  GamesInv'
BY OrderKeepsGames, PlaysKeepsGames, StartKeepsGames, CaptureKeepsGames, ScreenKeepsGames, SwitchKeepsGames
   DEF LibraryNext

(* ProfileService::Activate, and all that may come between: without the    *)
(* windows of its own writes, what the game last made of each profile is   *)
(* the live file of the active profile or the copy beside the profile.     *)
THEOREM GameProfilesStayKept ==
  Windows = {} => (LibrarySpec => []GameProfilesAreKept)
<1> SUFFICES ASSUME Windows = {}  PROVE LibrarySpec => []GameProfilesAreKept
  OBVIOUS
<1>1. LibraryInit => MarkersInv /\ GamesInv
  BY Steps DEF LibraryInit, MarkersInv, GamesInv, ProgressLoads, CopiesKept, ActiveIsLive, IncomingIsLive
<1>2. ProfilesTypeOK /\ MarkersInv /\ GamesInv /\ [LibraryNext]_libraryVars => MarkersInv' /\ GamesInv'
  BY MarkersStep, GamesStep DEF LibraryInv
<1>3. ProfilesTypeOK /\ MarkersInv /\ GamesInv => GameProfilesAreKept
  BY GamesAreFound DEF LibraryInv
<1> QED
  BY <1>1, <1>2, <1>3, LibraryTypes, PTL DEF LibrarySpec
===============================================================================
