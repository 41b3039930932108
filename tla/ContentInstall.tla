--------------------------- MODULE ContentInstall ---------------------------
(***************************************************************************)
(* What an install does to the files of one mod: the folder is compared    *)
(* with the release, every file that differs gets a staged copy beside it, *)
(* the fetch writes remote chunks into the staged copies, ApplyPlaced adds *)
(* the held ones and swaps each copy in, and only then files are removed   *)
(* and the record is saved. The attempt can end at any point and leave     *)
(* its staged copies for the next one.                                     *)
(*                                                                         *)
(* A file is a number (the manifest's order), its content a sequence of    *)
(* equally long slots, each holding a digest or Junk.                      *)
(***************************************************************************)
EXTENDS Naturals, Sequences, FiniteSetsExt, Functions

CONSTANTS
  Releases,     \* the releases of the mod in the order of their versions,
                \* each a function from files to sequences of digests
  Catalogued,   \* digests the baseline catalogue locates in the game's packs
  Locked,       \* files whose removal fails
  MaxAttempts,  \* bound: how many attempts the user starts
  MaxEdits      \* bound: how often the mod folder changes between attempts

ASSUME BoundsAssumption == MaxAttempts \in Nat /\ MaxEdits \in Nat

VARIABLES
  live,       \* the payload files of the mod folder
  staged,     \* their staged copies, named with STAGING_SUFFIX
  record,     \* InstalledReleaseStore: the recorded version, or 0
  target,     \* _target, by its version: never older than the one before
  plan,       \* _plan: a placement for every slot of every file to write
  removals,   \* _plan.Removals()
  described,  \* DescribeInstalled_ found a folder it could describe
  step,       \* where the attempt is
  todo,       \* the files the loop of this step has still to handle
  resumed,    \* FetchPlanner::Request::resumed
  landed,     \* the digests whose piece the torrent has
  writing,    \* the destinations the write of a piece has still to reach
  assumed,    \* observed: the slots of staged copies that the attempt counts as there
              \* and has neither written nor compared with the release
  attempts, edits

disk   == <<live, staged, record>>
memory == <<target, plan, removals, described>>
fetch  == <<resumed, landed, writing, assumed>>
vars   == <<disk, memory, step, todo, fetch, attempts, edits>>

None   == <<>>
Junk   == 0

(* Files and digests are numbers, and there is a release to install. *)
ASSUME ReleasesAssumption ==
  /\ Len(Releases) \in Nat \ {0} /\ DOMAIN Releases = 1..Len(Releases)
  /\ \A v \in DOMAIN Releases :
       /\ DOMAIN Releases[v] \subseteq Nat
       /\ \A f \in DOMAIN Releases[v] : Releases[v][f] \in Seq(Nat \ {Junk})

Remote == [from |-> "remote", at |-> <<>>]
Pack   == [from |-> "pack", at |-> <<>>]
Held(place) == [from |-> "held", at |-> place]

Places(files)       == UNION {{f} \X DOMAIN files[f] : f \in DOMAIN files}
PlacesOf(files, d)  == {p \in Places(files) : files[p[1]][p[2]] = d}
Has(files, p, d)    == p \in PlacesOf(files, d)
Before(p, q)        == p[1] < q[1] \/ (p[1] = q[1] /\ p[2] <= q[2])
Front(places)       == CHOOSE p \in places : \A q \in places : Before(p, q)
Without(files, f)   == Restrict(files, DOMAIN files \ {f})
With(files, f, content) ==
  [g \in DOMAIN files \cup {f} |-> IF g = f THEN content ELSE files[g]]

Resized(content, n) == [i \in 1..n |-> IF i <= Len(content) THEN content[i] ELSE Junk]

Folder == DOMAIN live # {} \/ DOMAIN staged # {}

Idle == step = "idle"

Goal == Releases[target]

(* Every reason an attempt ends: what it held in memory is gone. *)
Forget ==
  /\ step' = "idle" /\ todo' = {}
  /\ plan' = None /\ removals' = {} /\ described' = FALSE
  /\ resumed' = FALSE /\ landed' = {} /\ writing' = {} /\ assumed' = {}
  /\ UNCHANGED <<target, attempts, edits>>

(* A mod that was never installed, or one that is installed as recorded.   *)
InstallInit ==
  /\ record \in 0..Len(Releases)
  /\ live = IF record = 0 THEN None ELSE Releases[record]
  /\ staged = None
  /\ target = IF record = 0 THEN 1 ELSE record
  /\ plan = None /\ removals = {} /\ described = FALSE
  /\ step = "idle" /\ todo = {}
  /\ resumed = FALSE /\ landed = {} /\ writing = {} /\ assumed = {}
  /\ attempts = 0 /\ edits = 0

-----------------------------------------------------------------------------
(* Planning.                                                               *)

(* ManifestDiffer::Place_ *)
Place(held, d) ==
  IF PlacesOf(held, d) # {} THEN Held(Front(PlacesOf(held, d)))
  ELSE IF d \in Catalogued THEN Pack ELSE Remote

(* DescribeInstalled_: a staged copy is not a payload path, so a folder    *)
(* with one in it is not described at all.                                 *)
CanDescribe == DOMAIN staged = {}

BeginAttempt ==
  /\ Idle /\ attempts < MaxAttempts
  /\ Folder => record # 0
  /\ attempts' = attempts + 1
  /\ step' = "stage"
  /\ todo' = DOMAIN plan'
  /\ UNCHANGED <<disk, fetch, edits>>

(* Broken: a file of the same length is taken to be the same. *)
FileUnchanged_BySize(held, f, content) == f \in DOMAIN held /\ Len(held[f]) = Len(content)

FileUnchanged(held, f, content) == f \in DOMAIN held /\ held[f] = content

(* ManifestDiffer::Diff: a file the folder holds as the release has it is  *)
(* not planned.                                                            *)
PlanUpdate(version) ==
  LET release == Releases[version]
      held == IF CanDescribe THEN live ELSE None
      differs == {f \in DOMAIN release : ~FileUnchanged(held, f, release[f])}
  IN /\ target' = version
     /\ plan' = [f \in differs |-> [i \in DOMAIN release[f] |-> Place(held, release[f][i])]]
     /\ removals' = DOMAIN held \ DOMAIN release
     /\ described' = CanDescribe
     /\ BeginAttempt

(* Verify: the folder is audited against the announced release, and only   *)
(* what is damaged is planned.                                             *)
PlanRepair(version) ==
  LET release == Releases[version]
      readable(f) == f \in DOMAIN live /\ Len(live[f]) = Len(release[f])
      present(f, i) == readable(f) /\ live[f][i] = release[f][i]
      damaged == {f \in DOMAIN release : \E i \in DOMAIN release[f] : ~present(f, i)}
  IN /\ record # 0 /\ damaged # {}
     /\ target' = version
     /\ plan' = [f \in damaged |-> [i \in DOMAIN release[f] |->
                   IF present(f, i) THEN Held(<<f, i>>) ELSE Remote]]
     /\ removals' = {} /\ described' = FALSE
     /\ BeginAttempt

-----------------------------------------------------------------------------
(* FetchPlanner::Stage, one StagedFileSeeder::Seed per file.               *)

InPlace(f, i) == plan[f][i] = Held(<<f, i>>)

(* Broken: a staged copy is taken up whatever it holds. *)
Resumable_Any(f) == f \in DOMAIN staged

(* StagedMatchesHeldRanges_ *)
Resumable(f) ==
  /\ f \in DOMAIN staged
  /\ \A i \in DOMAIN plan[f] : InPlace(f, i) => Has(staged, <<f, i>>, Goal[f][i])

(* CopyFromOriginal_: a live file that cannot be copied gives an empty     *)
(* staged copy, as if there were none, and staging goes on.                *)
StageFile ==
  /\ step = "stage" /\ todo # {}
  /\ \E copied \in BOOLEAN :
       LET f     == Min(todo)
           fresh == IF f \in DOMAIN live /\ copied THEN live[f] ELSE <<>>
       IN /\ staged' = With(staged, f, Resized(IF Resumable(f) THEN staged[f] ELSE fresh, Len(Goal[f])))
          /\ resumed' = (resumed \/ Resumable(f))
          /\ assumed' = IF Resumable(f) \/ copied THEN assumed
                        ELSE assumed \cup {<<f, i>> : i \in {j \in DOMAIN plan[f] : InPlace(f, j)}}
          /\ todo' = todo \ {f}
  /\ UNCHANGED <<live, record, memory, step, landed, writing, attempts, edits>>

(* The staged copy is removed, and then the process dies while the live    *)
(* file is copied, or no new one can be created, or it cannot be resized.  *)
StageTorn ==
  /\ step = "stage" /\ todo # {}
  /\ LET f == Min(todo)
     IN /\ ~Resumable(f)
        /\ \/ staged' = Without(staged, f)
           \/ staged' = With(staged, f, <<>>)
           \/ f \in DOMAIN live /\ \E n \in DOMAIN live[f] : staged' = With(staged, f, SubSeq(live[f], 1, n))
  /\ UNCHANGED <<live, record>>
  /\ Forget

-----------------------------------------------------------------------------
(* The fetch.                                                              *)

Remotes         == {p \in Places(plan) : plan[p[1]][p[2]] = Remote}
Wanted          == {Goal[p[1]][p[2]] : p \in Remotes}
Destinations(d) == {p \in Remotes : Goal[p[1]][p[2]] = d}

StageNeedsNothing ==
  /\ step = "stage" /\ todo = {} /\ Wanted = {}
  /\ step' = "apply" /\ todo' = DOMAIN plan
  /\ UNCHANGED <<disk, memory, fetch, attempts, edits>>

(* async_check_files: libtorrent hashes every piece of a resumed fetch;    *)
(* ChunkRangeIo::Read reads a piece at its first destination.              *)
Checked == IF resumed THEN {d \in Wanted : Has(staged, Front(Destinations(d)), d)} ELSE {}

FetchBegins ==
  /\ step = "stage" /\ todo = {} /\ Wanted # {}
  /\ step' = "fetch"
  /\ landed' = Checked
  /\ assumed' = assumed \cup UNION {Destinations(d) \ {Front(Destinations(d))} : d \in Checked}
  /\ UNCHANGED <<disk, memory, todo, resumed, writing, attempts, edits>>

PieceArrives(d) ==
  /\ step = "fetch" /\ writing = {}
  /\ d \in Wanted \ landed
  /\ writing' = Destinations(d)
  /\ UNCHANGED <<disk, memory, step, todo, resumed, landed, assumed, attempts, edits>>

(* ChunkRangeIo::Write, one destination after the other. *)
WritePlacement ==
  /\ step = "fetch" /\ writing # {}
  /\ LET p == Front(writing)
         d == Goal[p[1]][p[2]]
     IN /\ staged' = [staged EXCEPT ![p[1]][p[2]] = d]
        /\ writing' = writing \ {p}
        /\ landed' = IF writing' = {} THEN landed \cup {d} ELSE landed
  /\ UNCHANGED <<live, record, memory, step, todo, resumed, assumed, attempts, edits>>

(* The process dies inside the write of a slot. *)
WriteTorn ==
  /\ step = "fetch" /\ writing # {}
  /\ LET p == Front(writing) IN staged' = [staged EXCEPT ![p[1]][p[2]] = Junk]
  /\ UNCHANGED <<live, record>>
  /\ Forget

FetchEnds ==
  /\ step = "fetch" /\ writing = {} /\ landed = Wanted
  /\ step' = "apply" /\ todo' = DOMAIN plan
  /\ UNCHANGED <<disk, memory, fetch, attempts, edits>>

-----------------------------------------------------------------------------
(* ContentInstaller::ApplyPlaced.                                          *)

(* ResolveChunk_: a held chunk is hashed where the plan says it is. *)
Resolves(f, i) ==
  plan[f][i].from = "held" /\ ~InPlace(f, i) => Has(live, plan[f][i].at, Goal[f][i])

(* WriteStagedFile_ with skipPlaced: remote chunks and ranges copied from  *)
(* the file itself are left as they are.                                   *)
Filled(f) ==
  [i \in DOMAIN Goal[f] |->
     IF plan[f][i] = Remote \/ InPlace(f, i) THEN staged[f][i] ELSE Goal[f][i]]

(* Broken: a file is swapped in as soon as it is written. *)
ApplyFile_Swaps ==
  /\ step = "apply" /\ todo # {}
  /\ LET f == Min(todo)
     IN /\ \A i \in DOMAIN plan[f] : Resolves(f, i)
        /\ staged' = [staged EXCEPT ![f] = Filled(f)]
        /\ live' = With(live, f, Filled(f))
        /\ todo' = todo \ {f}
  /\ UNCHANGED <<record, memory, step, fetch, attempts, edits>>

ApplyFile ==
  /\ step = "apply" /\ todo # {}
  /\ LET f == Min(todo)
     IN /\ \A i \in DOMAIN plan[f] : Resolves(f, i)
        /\ staged' = [staged EXCEPT ![f] = Filled(f)]
        /\ todo' = todo \ {f}
  /\ UNCHANGED <<live, record, memory, step, fetch, attempts, edits>>

ApplyEnds ==
  /\ step = "apply" /\ todo = {}
  /\ step' = "swap" /\ todo' = DOMAIN plan
  /\ UNCHANGED <<disk, memory, fetch, attempts, edits>>

SwapFile ==
  /\ step = "swap" /\ todo # {}
  /\ LET f == Min(todo)
     IN /\ live' = With(live, f, staged[f])
        /\ staged' = Without(staged, f)
        /\ todo' = todo \ {f}
  /\ UNCHANGED <<record, memory, step, fetch, attempts, edits>>

SwapEnds ==
  /\ step = "swap" /\ todo = {}
  /\ step' = "remove" /\ todo' = removals
  /\ UNCHANGED <<disk, memory, fetch, attempts, edits>>

(* Broken: the first failed removal ends the loop. *)
RemoveFile_Nothing ==
  /\ step = "remove" /\ todo # {}
  /\ todo' = {}
  /\ UNCHANGED <<disk, memory, step, fetch, attempts, edits>>

(* The error of a removal is dropped. *)
RemoveFile ==
  /\ step = "remove" /\ todo # {}
  /\ LET f == Min(todo)
     IN /\ live' = IF f \in Locked THEN live ELSE Without(live, f)
        /\ todo' = todo \ {f}
  /\ UNCHANGED <<staged, record, memory, step, fetch, attempts, edits>>

RemoveEnds ==
  /\ step = "remove" /\ todo = {}
  /\ step' = "save"
  /\ UNCHANGED <<disk, memory, todo, fetch, attempts, edits>>

Save ==
  /\ step = "save"
  /\ record' = target
  /\ UNCHANGED <<live, staged>>
  /\ Forget

-----------------------------------------------------------------------------
(* An error, a cancel or the end of the process. *)
Interrupt ==
  /\ ~Idle
  /\ UNCHANGED disk
  /\ Forget

(* Between attempts a file of the mod is changed or deleted. *)
Edit(f) ==
  /\ Idle /\ edits < MaxEdits
  /\ \/ \E i \in DOMAIN live[f] : live[f][i] # Junk /\ live' = [live EXCEPT ![f][i] = Junk]
     \/ live' = Without(live, f)
  /\ edits' = edits + 1
  /\ UNCHANGED <<staged, record, memory, step, todo, fetch, attempts>>

Attempt ==
  \/ StageFile \/ StageNeedsNothing \/ FetchBegins \/ WritePlacement \/ FetchEnds
  \/ (\E d \in Wanted : PieceArrives(d))
  \/ ApplyFile \/ ApplyEnds \/ SwapFile \/ SwapEnds \/ RemoveFile \/ RemoveEnds \/ Save
  \/ StageTorn \/ WriteTorn \/ Interrupt

InstallNext ==
  \/ \E version \in target..Len(Releases) : PlanUpdate(version) \/ PlanRepair(version)
  \/ Attempt
  \/ \E f \in DOMAIN live : Edit(f)

InstallSpec == InstallInit /\ [][InstallNext]_vars

-----------------------------------------------------------------------------
Steps == {"idle", "stage", "fetch", "apply", "swap", "remove", "save"}

ContentTypeOK ==
  /\ record \in 0..Len(Releases) /\ target \in 1..Len(Releases)
  /\ step \in Steps /\ (Idle => plan = None /\ todo = {})
  /\ DOMAIN plan \subseteq DOMAIN Goal
  /\ \A f \in DOMAIN plan : DOMAIN plan[f] = DOMAIN Goal[f]
  /\ step \in {"fetch", "apply"} =>
       \A f \in DOMAIN plan : f \in DOMAIN staged /\ Len(staged[f]) = Len(Goal[f])
  /\ landed \subseteq Wanted /\ writing \subseteq Remotes /\ assumed \subseteq Places(plan)
  /\ resumed \in BOOLEAN /\ described \in BOOLEAN
  /\ attempts \in 0..MaxAttempts /\ edits \in 0..MaxEdits

(* A file is as the manifest describes it, but for what was assumed of it. *)
AsReleased(content, f) ==
  /\ Len(content) = Len(Goal[f])
  /\ \A i \in DOMAIN Goal[f] : content[i] = Goal[f][i] \/ <<f, i>> \in assumed

(* When a release is recorded every file it names, an empty one perhaps if *)
(* a repair overlooked it, is in the mod folder as the manifest describes  *)
(* it, whatever earlier attempts left behind: nothing is wrong in it but   *)
(* what a failed copy of the live file should have brought, and further    *)
(* destinations of a piece found at its first one.                         *)
SavedContentIsWhole ==
  step = "save" => \A f \in DOMAIN Goal : f \in DOMAIN plan \/ Goal[f] # <<>> =>
    f \in DOMAIN live /\ AsReleased(live[f], f)

(* Every held chunk the plan counts on stays where the plan found it until *)
(* the staged file that needs it has been written: nothing is swapped in   *)
(* or removed before the last staged file is.                              *)
PlannedSourcesSurvive ==
  step \in {"stage", "fetch", "apply"} =>
    \A f \in IF step = "apply" THEN todo ELSE DOMAIN plan : \A i \in DOMAIN plan[f] : Resolves(f, i)

(* An attempt replaces a payload file by the file of the release, but for  *)
(* what was assumed of it, and never by anything in between; it deletes    *)
(* only once every file of the release is in place.                        *)
LiveFilesChangeWhole ==
  [][~Idle => \A f \in DOMAIN live \cup DOMAIN live' :
       \/ f \in DOMAIN live /\ f \in DOMAIN live' /\ live'[f] = live[f]
       \/ f \in DOMAIN live' \cap DOMAIN Goal /\ AsReleased(live'[f], f)
       \/ f \notin DOMAIN live' \cup DOMAIN Goal /\ \A g \in DOMAIN Goal : g \in DOMAIN live]_live

(* An update of a folder that could be described leaves the files of the   *)
(* release and no other, except those that could not be deleted.           *)
UpdateLeavesTheRelease ==
  step = "save" /\ described => DOMAIN live \ DOMAIN Goal \subseteq Locked

-----------------------------------------------------------------------------
(* By hand. The code keeps none of these. With the first three nothing     *)
(* would be assumed, or overlooked, of a recorded release.                 *)

(* What an attempt counts on a staged copy to have from the live file.     *)
CopiedIsThere ==
  step = "save" => \A p \in Places(plan) : InPlace(p[1], p[2]) => Has(live, p, Goal[p[1]][p[2]])

(* What was fetched is written wherever the release has it.                *)
FetchedIsWritten == step = "save" => \A p \in Remotes : Has(live, p, Goal[p[1]][p[2]])

(* A file of no bytes is there.                                            *)
RecordedFilesExist == step = "save" => DOMAIN Goal \subseteq DOMAIN live

(* A recorded release is the only payload in the folder. *)
DroppedFilesGo == step = "save" => DOMAIN live \subseteq DOMAIN Goal
=============================================================================
