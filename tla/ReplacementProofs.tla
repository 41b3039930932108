-------------------------- MODULE ReplacementProofs --------------------------
(***************************************************************************)
(* Theorems about what is replaced where it is used: the content of a mod  *)
(* (ContentInstall), and the program and the patcher (Updates).            *)
(*                                                                         *)
(* ContentInstall, for any releases, catalogue, locked files and number of *)
(* attempts: what an attempt does to the files is right whatever an        *)
(* earlier one left behind, because each stage leaves what the next one    *)
(* needs: planned sources stay where they were found until the last staged *)
(* file is written (SourcesOK), a staged file has its copied slots right   *)
(* from the moment it is opened (StagedOK), every piece that counts is at  *)
(* its destinations (LandedOK), a written file is the release's            *)
(* (AppliedOK), and files that were not planned are whole (KeptOK).        *)
(*                                                                         *)
(* What is written is right but for the slots the attempt assumes: those   *)
(* of a live file that could not be copied, and further destinations of a  *)
(* piece found at its first one.                                           *)
(*                                                                         *)
(* Updates, for every number of releases and however long the program is   *)
(* used: an update leaves a program that starts and is no older, and the   *)
(* patcher shows as current what is installed.                             *)
(***************************************************************************)
EXTENDS ContentInstall, Updates, WellFoundedInduction, TLAPS

-----------------------------------------------------------------------------
(* Choices among numbers and places.                                       *)

(* A set of numbers that is not empty has a least one. *)
LEMMA LeastNumber ==
  ASSUME NEW T \in SUBSET Nat, T # {}
  PROVE  \E m \in T : \A k \in T : m <= k
<1>1. PICK m \in T : \A k \in T : <<k, m>> \notin OpToRel(<, Nat)
  BY NatLessThanWellFounded, WFMin, Zenon
<1>2. \A k \in T : ~(k < m)
  BY <1>1 DEF OpToRel
<1>3. \A k \in T : m <= k
  BY <1>2
<1> QED
  BY <1>3

(* The next file of a loop is one the loop has still to handle. *)
LEMMA NextFile ==
  ASSUME NEW T \in SUBSET Nat, T # {}
  PROVE  Min(T) \in T
BY LeastNumber DEF Min

(* The first of some places is one of them. *)
LEMMA FrontIsOne ==
  ASSUME NEW T \in SUBSET (Nat \X Nat), T # {}
  PROVE  Front(T) \in T
<1> DEFINE Files == {p[1] : p \in T}
<1>1. PICK f \in Files : \A g \in Files : f <= g
  <2>1. Files \in SUBSET Nat /\ Files # {}
    OBVIOUS
  <2> QED
    BY <2>1, LeastNumber
<1> DEFINE Slots == {p[2] : p \in {q \in T : q[1] = f}}
<1>2. PICK i \in Slots : \A j \in Slots : i <= j
  <2>1. Slots \in SUBSET Nat /\ Slots # {}
    BY <1>1
  <2> QED
    BY <2>1, LeastNumber
<1>3. <<f, i>> \in T
  BY <1>1, <1>2
<1>4. \A q \in T : Before(<<f, i>>, q)
  <2> TAKE q \in T
  <2>1. f <= q[1] /\ (q[1] = f => i <= q[2])
    BY <1>1, <1>2
  <2> QED
    BY <2>1, <1>3 DEF Before
<1> QED
  BY <1>3, <1>4 DEF Front

(* Where a digest is. *)
LEMMA PlaceOf ==
  ASSUME NEW files, NEW p, NEW d
  PROVE  Has(files, p, d) <=> \E f \in DOMAIN files : \E i \in DOMAIN files[f] : p = <<f, i>> /\ files[f][i] = d
<1>1. p \in Places(files) <=> \E f \in DOMAIN files : \E i \in DOMAIN files[f] : p = <<f, i>>
  BY DEF Places
<1> QED
  BY <1>1 DEF Has, PlacesOf

(* A digest that is somewhere in the folder is at the first place that has it. *)
LEMMA FirstPlace ==
  ASSUME NEW files, NEW d, DOMAIN files \subseteq Nat,
         \A f \in DOMAIN files : files[f] \in Seq(Nat), PlacesOf(files, d) # {}
  PROVE  Has(files, Front(PlacesOf(files, d)), d)
<1>1. PlacesOf(files, d) \subseteq Nat \X Nat
  <2> SUFFICES ASSUME NEW p \in PlacesOf(files, d)  PROVE p \in Nat \X Nat
    OBVIOUS
  <2>1. PICK f \in DOMAIN files : \E i \in DOMAIN files[f] : p = <<f, i>>
    BY PlaceOf DEF Has
  <2> QED
    BY <2>1
<1> QED
  BY <1>1, FrontIsOne DEF Has

-----------------------------------------------------------------------------
(* The invariant.                                                          *)

(* Files of the folder are numbered, and hold digests or junk. *)
Files(files) == DOMAIN files \subseteq Nat /\ \A f \in DOMAIN files : files[f] \in Seq(Nat)

TypesOK ==
  /\ Files(live) /\ Files(staged)
  /\ record \in 0..Len(Releases) /\ target \in 1..Len(Releases)
  /\ step \in Steps
  /\ attempts \in 0..MaxAttempts /\ edits \in 0..MaxEdits
  /\ resumed \in BOOLEAN /\ described \in BOOLEAN

(* What the attempt holds in memory is of the release it installs. *)
PlanOK ==
  /\ DOMAIN plan \subseteq DOMAIN Goal
  /\ \A f \in DOMAIN plan : DOMAIN plan[f] = DOMAIN Goal[f]
  /\ removals \subseteq Nat /\ removals \cap DOMAIN Goal = {}
  /\ Idle => plan = None /\ todo = {} /\ landed = {} /\ writing = {} /\ assumed = {} /\ resumed = FALSE
  /\ step = "remove" => todo \subseteq removals
  /\ step # "remove" => todo \subseteq DOMAIN plan

FetchOK ==
  /\ landed \subseteq Wanted /\ writing \subseteq Remotes /\ assumed \subseteq Places(plan)
  /\ step = "stage" => landed = {} /\ writing = {}

(* Planned sources stay where they were found. *)
SourcesOK ==
  step \in {"stage", "fetch", "apply"} =>
    \A f \in DOMAIN plan : \A i \in DOMAIN plan[f] :
      plan[f][i].from = "held" => Has(live, plan[f][i].at, Goal[f][i])

(* A slot of a staged copy holds what the release has there, or is assumed to. *)
SlotOK(p) == staged[p[1]][p[2]] = Goal[p[1]][p[2]] \/ p \in assumed

(* A file that is staged has the size of its release's, and in it the slots that stay where they
   were. It is there until it is swapped in. *)
StagedOK ==
  /\ step \in {"stage", "fetch", "apply"} =>
       \A f \in DOMAIN plan \ (IF step = "stage" THEN todo ELSE {}) :
         /\ f \in DOMAIN staged /\ Len(staged[f]) = Len(Goal[f])
         /\ \A i \in DOMAIN plan[f] : InPlace(f, i) => SlotOK(<<f, i>>)
  /\ step = "swap" => todo \subseteq DOMAIN staged

(* What a described folder holds beyond the release is on its way out, or cannot be removed. *)
TidyOK ==
  ~Idle /\ described =>
    DOMAIN live \ DOMAIN Goal \subseteq
      CASE step = "remove" -> todo \cup Locked
        [] step = "save" -> Locked
        [] OTHER -> removals

BasicInv == TypesOK /\ PlanOK /\ FetchOK /\ SourcesOK /\ StagedOK /\ TidyOK

(* Every piece that counts is where it belongs, one that is being written is at the destinations
   the write has reached, and a file that is filled is the release's. *)
LandedOK ==
  /\ step = "fetch" => \A p \in Remotes : Goal[p[1]][p[2]] \in landed => SlotOK(p)
  /\ step = "fetch" /\ writing # {} =>
       \E d \in Wanted : writing \subseteq Destinations(d) /\ \A p \in Destinations(d) \ writing : SlotOK(p)
  /\ step = "apply" => \A p \in Remotes : SlotOK(p)

AppliedOK ==
  /\ step = "apply" => \A f \in DOMAIN plan \ todo : AsReleased(staged[f], f)
  /\ step = "swap" => /\ \A f \in todo : f \in DOMAIN staged /\ AsReleased(staged[f], f)
                      /\ \A f \in DOMAIN plan \ todo : f \in DOMAIN live /\ AsReleased(live[f], f)
  /\ step \in {"remove", "save"} => \A f \in DOMAIN plan : f \in DOMAIN live /\ AsReleased(live[f], f)

(* Files that are not planned are whole: an update compares them, a repair overlooks at most the
   empty ones, and removes nothing. *)
KeptOK ==
  ~Idle => \A f \in DOMAIN Goal \ DOMAIN plan :
    Goal[f] # <<>> \/ removals # {} => f \in DOMAIN live /\ live[f] = Goal[f]

WrittenInv == BasicInv /\ LandedOK /\ AppliedOK

-----------------------------------------------------------------------------
(* What the operators of the module do.                                    *)

(* The release an attempt installs is made of numbered files of digests. *)
LEMMA ReleaseForm ==
  ASSUME NEW v \in 1..Len(Releases)
  PROVE  /\ Files(Releases[v])
         /\ \A f \in DOMAIN Releases[v] :
              /\ Len(Releases[v][f]) \in Nat
              /\ DOMAIN Releases[v][f] = 1..Len(Releases[v][f])
              /\ DOMAIN Releases[v][f] \subseteq Nat
              /\ \A i \in DOMAIN Releases[v][f] : Releases[v][f][i] \in Nat
<1>1. \A f \in DOMAIN Releases[v] : Releases[v][f] \in Seq(Nat \ {Junk})
  BY ReleasesAssumption
<1>2. DOMAIN Releases[v] \subseteq Nat
  BY ReleasesAssumption
<1>3. \A f \in DOMAIN Releases[v] : Releases[v][f] \in Seq(Nat)
  BY <1>1
<1> QED
  BY <1>2, <1>3 DEF Files

(* A file put into the folder takes the place of the one of its name. *)
LEMMA WithForm ==
  ASSUME NEW files, Files(files), NEW f \in Nat, NEW content \in Seq(Nat)
  PROVE  /\ Files(With(files, f, content))
         /\ DOMAIN With(files, f, content) = DOMAIN files \cup {f}
         /\ With(files, f, content)[f] = content
         /\ \A g \in DOMAIN files \ {f} : With(files, f, content)[g] = files[g]
BY DEF With, Files

(* A file taken out of the folder leaves the others. *)
LEMMA WithoutForm ==
  ASSUME NEW files, Files(files), NEW f
  PROVE  /\ Files(Without(files, f))
         /\ DOMAIN Without(files, f) = DOMAIN files \ {f}
         /\ \A g \in DOMAIN files \ {f} : Without(files, f)[g] = files[g]
BY DEF Without, Restrict, Files

(* A slot of a file, written. *)
Put(files, p, d) == [files EXCEPT ![p[1]][p[2]] = d]

(* A slot written changes no other. *)
LEMMA PutForm ==
  ASSUME NEW files, Files(files), NEW p, p[1] \in DOMAIN files, p[2] \in DOMAIN files[p[1]], NEW d \in Nat
  PROVE  /\ Files(Put(files, p, d)) /\ DOMAIN Put(files, p, d) = DOMAIN files
         /\ Len(Put(files, p, d)[p[1]]) = Len(files[p[1]])
         /\ \A g \in DOMAIN files \ {p[1]} : Put(files, p, d)[g] = files[g]
         /\ Put(files, p, d)[p[1]][p[2]] = d
         /\ \A j \in DOMAIN files[p[1]] \ {p[2]} : Put(files, p, d)[p[1]][j] = files[p[1]][j]
<1> DEFINE s == files[p[1]]
           t == [j \in 1..Len(s) |-> IF j = p[2] THEN d ELSE s[j]]
<1>1. s \in Seq(Nat)
  BY DEF Files
<1> HIDE DEF s
<1>2. [s EXCEPT ![p[2]] = d] = t
  BY <1>1
<1>3. t \in Seq(Nat) /\ Len(t) = Len(s)
  BY <1>1
<1>4. [s EXCEPT ![p[2]] = d] \in Seq(Nat) /\ Len([s EXCEPT ![p[2]] = d]) = Len(s)
  BY <1>2, <1>3, Zenon
<1> QED
  BY <1>4 DEF Files, Put, s

(* A staged copy is cut or filled up to the size of the file. *)
LEMMA ResizedForm ==
  ASSUME NEW content \in Seq(Nat), NEW n \in Nat
  PROVE  /\ Resized(content, n) \in Seq(Nat) /\ Len(Resized(content, n)) = n
         /\ \A i \in 1..n : i <= Len(content) => Resized(content, n)[i] = content[i]
<1>1. \A i \in 1..n : (IF i <= Len(content) THEN content[i] ELSE Junk) \in Nat
  BY DEF Junk
<1> QED
  BY <1>1 DEF Resized

(* With its memory unchanged an attempt installs the same release by the same plan. *)
LEMMA SameMemory ==
  ASSUME UNCHANGED memory
  PROVE  /\ Goal' = Goal /\ Wanted' = Wanted /\ Remotes' = Remotes /\ plan' = plan
         /\ target' = target /\ removals' = removals /\ described' = described
         /\ \A f, i : InPlace(f, i)' <=> InPlace(f, i)
BY DEF memory, Goal, Wanted, Remotes, InPlace

(* The places an attempt fetches are of its plan and of the release. *)
LEMMA RemoteForm ==
  ASSUME TypesOK, PlanOK
  PROVE  /\ Remotes \subseteq Nat \X Nat
         /\ \A p \in Remotes : /\ p[1] \in DOMAIN plan /\ p[1] \in DOMAIN Goal /\ p[2] \in DOMAIN Goal[p[1]]
                               /\ Goal[p[1]][p[2]] \in Nat /\ Goal[p[1]][p[2]] \in Wanted
                               /\ plan[p[1]][p[2]] = Remote
         /\ \A f \in DOMAIN plan : \A i \in DOMAIN plan[f] : plan[f][i] = Remote => <<f, i>> \in Remotes
<1>1. \A f \in DOMAIN plan : f \in DOMAIN Goal /\ DOMAIN plan[f] = DOMAIN Goal[f]
  BY DEF PlanOK
<1>2. \A p \in Remotes : /\ p = <<p[1], p[2]>> /\ p[1] \in DOMAIN plan /\ p[2] \in DOMAIN plan[p[1]]
                         /\ plan[p[1]][p[2]] = Remote
  BY DEF Remotes, Places
<1>3. \A f \in DOMAIN plan : \A i \in DOMAIN plan[f] : plan[f][i] = Remote => <<f, i>> \in Remotes
  BY DEF Remotes, Places
<1>4. target \in 1..Len(Releases)
  BY DEF TypesOK
<1>5. \A f \in DOMAIN Goal : f \in Nat /\ \A i \in DOMAIN Goal[f] : i \in Nat /\ Goal[f][i] \in Nat
  BY <1>4, ReleaseForm DEF Goal, Files
<1>6. \A p \in Remotes : Goal[p[1]][p[2]] \in Wanted
  BY DEF Wanted
<1> QED
  BY <1>1, <1>2, <1>3, <1>5, <1>6

-----------------------------------------------------------------------------
(* What each step does to the basic part of the invariant.                 *)

(* Initially the folder is a release, or empty, and no attempt runs. *)
LEMMA BasicInitially == InstallInit => BasicInv
<1> SUFFICES ASSUME InstallInit  PROVE BasicInv
  OBVIOUS
<1> USE DEF InstallInit
<1>1. target \in 1..Len(Releases) /\ record \in 0..Len(Releases)
  BY ReleasesAssumption
<1>2. DOMAIN None = {} /\ Files(None)
  BY DEF None, Files
<1>3. Files(live) /\ Files(staged)
  <2>1. CASE record = 0
    BY <1>2, <2>1
  <2>2. CASE record # 0
    BY <1>1, <1>2, <2>2, ReleaseForm
  <2> QED
    BY <2>1, <2>2
<1>4. TypesOK
  <2>1. attempts \in 0..MaxAttempts /\ edits \in 0..MaxEdits
    BY BoundsAssumption
  <2>2. resumed \in BOOLEAN /\ described \in BOOLEAN /\ step \in Steps
    BY DEF Steps
  <2> QED
    BY <1>1, <1>3, <2>1, <2>2 DEF TypesOK
<1>5. PlanOK
  BY <1>2 DEF PlanOK, Idle
<1>6. FetchOK
  BY <1>2 DEF FetchOK
<1>7. SourcesOK /\ StagedOK /\ TidyOK
  BY DEF SourcesOK, StagedOK, SlotOK, TidyOK, Idle
<1> QED
  BY <1>4, <1>5, <1>6, <1>7 DEF BasicInv

(* An attempt that ends leaves files behind, and no plan. *)
LEMMA Forgetting ==
  ASSUME BasicInv, Forget, Files(live'), Files(staged'), record' \in 0..Len(Releases)
  PROVE  WrittenInv' /\ KeptOK'
<1>1. /\ step' = "idle" /\ todo' = {} /\ plan' = None /\ removals' = {} /\ described' = FALSE
      /\ resumed' = FALSE /\ landed' = {} /\ writing' = {} /\ assumed' = {}
      /\ UNCHANGED <<target, attempts, edits>>
  BY DEF Forget
<1>2. DOMAIN None = {}
  BY DEF None
<1>3. TypesOK'
  BY <1>1 DEF BasicInv, TypesOK, Steps
<1>4. PlanOK'
  BY <1>1, <1>2 DEF PlanOK
<1>5. FetchOK'
  BY <1>1 DEF FetchOK
<1>6. SourcesOK' /\ StagedOK'
  BY <1>1 DEF SourcesOK, StagedOK, SlotOK
<1>7. TidyOK'
  BY <1>1 DEF TidyOK
<1>8. LandedOK' /\ AppliedOK'
  BY <1>1 DEF LandedOK, AppliedOK
<1>9. KeptOK'
  BY <1>1 DEF KeptOK, Idle
<1> QED
  BY <1>3, <1>4, <1>5, <1>6, <1>7, <1>8, <1>9 DEF WrittenInv, BasicInv

(* An attempt begins with a plan whose sources are in the folder. *)
LEMMA Beginning ==
  ASSUME BasicInv, BeginAttempt, target' \in 1..Len(Releases),
         DOMAIN plan' \subseteq DOMAIN Goal',
         \A f \in DOMAIN plan' : DOMAIN plan'[f] = DOMAIN Goal'[f],
         \A f \in DOMAIN plan' : \A i \in DOMAIN plan'[f] :
           plan'[f][i].from = "held" => Has(live, plan'[f][i].at, Goal'[f][i]),
         removals' \subseteq Nat, removals' \cap DOMAIN Goal' = {},
         described' \in BOOLEAN, described' => DOMAIN live \ DOMAIN Goal' \subseteq removals'
  PROVE  WrittenInv'
<1>1. /\ step' = "stage" /\ todo' = DOMAIN plan' /\ attempts' = attempts + 1 /\ attempts < MaxAttempts
      /\ Idle /\ UNCHANGED <<live, staged, record, resumed, landed, writing, assumed, edits>>
  BY DEF BeginAttempt, disk, fetch
<1>2. TypesOK /\ PlanOK
  BY DEF BasicInv
<1>3. TypesOK'
  BY <1>1, <1>2, BoundsAssumption DEF TypesOK, Steps
<1>4. PlanOK'
  BY <1>1 DEF PlanOK, Idle
<1>5. FetchOK'
  BY <1>1, <1>2 DEF FetchOK, PlanOK
<1>6. SourcesOK'
  BY <1>1 DEF SourcesOK, Has, PlacesOf, Places
<1>7. StagedOK'
  BY <1>1 DEF StagedOK, SlotOK
<1>8. TidyOK'
  BY <1>1 DEF TidyOK
<1>9. LandedOK' /\ AppliedOK'
  BY <1>1 DEF LandedOK, AppliedOK
<1> QED
  BY <1>3, <1>4, <1>5, <1>6, <1>7, <1>8, <1>9 DEF WrittenInv, BasicInv

(* An update plans the files that differ, from what the folder and the catalogue hold. *)
LEMMA UpdateBegins ==
  ASSUME BasicInv, NEW version \in target..Len(Releases), PlanUpdate(version)
  PROVE  /\ WrittenInv'
         /\ \A f \in DOMAIN Goal' \ DOMAIN plan' : f \in DOMAIN live' /\ live'[f] = Goal'[f]
<1> DEFINE release == Releases[version]
           held == IF CanDescribe THEN live ELSE None
           differs == {f \in DOMAIN release : ~FileUnchanged(held, f, release[f])}
<1>1. /\ target' = version
      /\ plan' = [f \in differs |-> [i \in DOMAIN release[f] |-> Place(held, release[f][i])]]
      /\ removals' = DOMAIN held \ DOMAIN release
      /\ described' = CanDescribe
      /\ BeginAttempt
  BY DEF PlanUpdate
<1>2. TypesOK /\ target' \in 1..Len(Releases) /\ Goal' = release
  BY <1>1 DEF BasicInv, TypesOK, Goal
<1>3. Files(held) /\ \A p, d : Has(held, p, d) => Has(live, p, d)
  <2>1. DOMAIN None = {}
    BY DEF None
  <2>2. CASE CanDescribe
    BY <1>2, <2>2 DEF TypesOK
  <2>3. CASE ~CanDescribe
    BY <2>1, <2>3, PlaceOf DEF Files
  <2> QED
    BY <2>2, <2>3
<1> HIDE DEF held
<1>4. \A d : Place(held, d).from = "held" => Has(live, Place(held, d).at, d)
  <2> SUFFICES ASSUME NEW d, Place(held, d).from = "held"  PROVE Has(live, Place(held, d).at, d)
    OBVIOUS
  <2>1. PlacesOf(held, d) # {} /\ Place(held, d).at = Front(PlacesOf(held, d))
    BY DEF Place, Held, Pack, Remote
  <2>2. Has(held, Front(PlacesOf(held, d)), d)
    BY <2>1, <1>3, FirstPlace DEF Files
  <2> QED
    BY <2>1, <2>2, <1>3
<1>5. /\ DOMAIN plan' \subseteq DOMAIN Goal'
      /\ \A f \in DOMAIN plan' : DOMAIN plan'[f] = DOMAIN Goal'[f]
      /\ \A f \in DOMAIN plan' : \A i \in DOMAIN plan'[f] : plan'[f][i] = Place(held, Goal'[f][i])
  BY <1>1, <1>2
<1>6. removals' \subseteq Nat /\ removals' \cap DOMAIN Goal' = {} /\ described' \in BOOLEAN
  BY <1>1, <1>2, <1>3 DEF Files, CanDescribe
<1>7. described' => DOMAIN live \ DOMAIN Goal' \subseteq removals'
  BY <1>1, <1>2 DEF held
<1>8. WrittenInv'
  BY <1>1, <1>2, <1>4, <1>5, <1>6, <1>7, Beginning
<1>9. ASSUME NEW f \in DOMAIN Goal' \ DOMAIN plan'
      PROVE  f \in DOMAIN live' /\ live'[f] = Goal'[f]
  <2>1. FileUnchanged(held, f, release[f])
    BY <1>1, <1>2, <1>9
  <2>2. f \in DOMAIN held /\ held[f] = release[f]
    BY <2>1 DEF FileUnchanged
  <2>3. f \in DOMAIN live /\ live[f] = release[f]
    BY <2>2 DEF held, None
  <2>4. live' = live
    BY <1>1 DEF BeginAttempt, disk
  <2> QED
    BY <1>2, <2>3, <2>4
<1> QED
  BY <1>8, <1>9

(* A repair plans the damaged files, and takes what is good in them. *)
LEMMA RepairBegins ==
  ASSUME BasicInv, NEW version \in target..Len(Releases), PlanRepair(version)
  PROVE  /\ WrittenInv'
         /\ \A f \in DOMAIN Goal' \ DOMAIN plan' :
              Goal'[f] # <<>> => f \in DOMAIN live' /\ live'[f] = Goal'[f]
<1> DEFINE release == Releases[version]
           readable(f) == f \in DOMAIN live /\ Len(live[f]) = Len(release[f])
           present(f, i) == readable(f) /\ live[f][i] = release[f][i]
           damaged == {f \in DOMAIN release : \E i \in DOMAIN release[f] : ~present(f, i)}
<1>1. /\ target' = version
      /\ plan' = [f \in damaged |-> [i \in DOMAIN release[f] |->
                    IF present(f, i) THEN Held(<<f, i>>) ELSE Remote]]
      /\ removals' = {} /\ described' = FALSE
      /\ BeginAttempt
  BY DEF PlanRepair
<1>2. TypesOK /\ target' \in 1..Len(Releases) /\ Goal' = release /\ version \in 1..Len(Releases)
  BY <1>1 DEF BasicInv, TypesOK, Goal
<1>3. /\ DOMAIN plan' \subseteq DOMAIN Goal'
      /\ \A f \in DOMAIN plan' : DOMAIN plan'[f] = DOMAIN Goal'[f]
      /\ \A f \in DOMAIN plan' : \A i \in DOMAIN plan'[f] :
           plan'[f][i] = IF present(f, i) THEN Held(<<f, i>>) ELSE Remote
  BY <1>1, <1>2
<1>4. ASSUME NEW f \in DOMAIN plan', NEW i \in DOMAIN plan'[f], plan'[f][i].from = "held"
      PROVE  Has(live, plan'[f][i].at, Goal'[f][i])
  <2>1. present(f, i) /\ plan'[f][i].at = <<f, i>>
    BY <1>3, <1>4 DEF Held, Remote
  <2>2. i \in DOMAIN live[f]
    <3>1. i \in 1..Len(release[f])
      BY <1>2, <1>3, ReleaseForm
    <3> QED
      BY <2>1, <3>1, <1>2 DEF TypesOK, Files
  <2> QED
    BY <1>2, <2>1, <2>2, PlaceOf
<1>5. WrittenInv'
  BY <1>1, <1>2, <1>3, <1>4, Beginning
<1>6. ASSUME NEW f \in DOMAIN Goal' \ DOMAIN plan', Goal'[f] # <<>>
      PROVE  f \in DOMAIN live' /\ live'[f] = Goal'[f]
  <2>1. \A i \in DOMAIN release[f] : present(f, i)
    BY <1>1, <1>2, <1>6
  <2>2. release[f] \in Seq(Nat)
    BY <1>2, <1>6, ReleaseForm DEF Files
  <2>3. 1 \in DOMAIN release[f]
    BY <1>2, <1>6, <2>2
  <2>4. readable(f)
    BY <2>1, <2>3
  <2>5. live[f] \in Seq(Nat)
    BY <1>2, <2>4 DEF TypesOK, Files
  <2>6. live[f] = release[f]
    BY <2>1, <2>2, <2>4, <2>5
  <2>7. live' = live
    BY <1>1 DEF BeginAttempt, disk
  <2> QED
    BY <1>2, <2>4, <2>6, <2>7
<1> QED
  BY <1>5, <1>6

(* A file is staged: its copied slots are right, from the copy an earlier attempt left or from the
   live file. *)
LEMMA StageStep ==
  ASSUME BasicInv, StageFile
  PROVE  BasicInv'
<1> DEFINE f == Min(todo)
           skips == {<<f, i>> : i \in {j \in DOMAIN plan[f] : InPlace(f, j)}}
<1>0. PICK copied \in BOOLEAN :
        /\ staged' = With(staged, f, Resized(IF Resumable(f) THEN staged[f]
                                             ELSE IF f \in DOMAIN live /\ copied THEN live[f] ELSE <<>>,
                                             Len(Goal[f])))
        /\ assumed' = IF Resumable(f) \/ copied THEN assumed ELSE assumed \cup skips
  BY DEF StageFile
<1> DEFINE base == IF Resumable(f) THEN staged[f] ELSE IF f \in DOMAIN live /\ copied THEN live[f] ELSE <<>>
<1>1. /\ step = "stage" /\ todo # {} /\ step' = "stage" /\ todo' = todo \ {f}
      /\ staged' = With(staged, f, Resized(base, Len(Goal[f])))
      /\ resumed' = (resumed \/ Resumable(f))
      /\ UNCHANGED <<live, record, memory, landed, writing, attempts, edits>>
  BY <1>0 DEF StageFile
<1>2. TypesOK /\ PlanOK /\ FetchOK /\ SourcesOK /\ StagedOK /\ TidyOK
  BY DEF BasicInv
<1>3. /\ Goal' = Goal /\ Wanted' = Wanted /\ Remotes' = Remotes /\ plan' = plan
      /\ target' = target /\ removals' = removals /\ described' = described
      /\ \A g, i : InPlace(g, i)' <=> InPlace(g, i)
  BY <1>1, SameMemory
<1>4. todo \subseteq DOMAIN plan /\ DOMAIN plan \subseteq DOMAIN Goal /\ DOMAIN plan \subseteq Nat
  BY <1>1, <1>2, ReleaseForm DEF PlanOK, TypesOK, Goal, Files
<1>5. f \in todo /\ f \in DOMAIN plan /\ f \in Nat /\ f \in DOMAIN Goal
  BY <1>1, <1>4, NextFile
<1>6. /\ Len(Goal[f]) \in Nat /\ DOMAIN plan[f] = 1..Len(Goal[f])
      /\ \A i \in DOMAIN Goal[f] : Goal[f][i] \in Nat
  BY <1>2, <1>5, ReleaseForm DEF PlanOK, TypesOK, Goal
<1>7. base \in Seq(Nat)
  <2>1. Resumable(f) => staged[f] \in Seq(Nat)
    BY <1>2 DEF Resumable, TypesOK, Files
  <2>2. f \in DOMAIN live => live[f] \in Seq(Nat)
    BY <1>2 DEF TypesOK, Files
  <2>3. <<>> \in Seq(Nat)
    OBVIOUS
  <2> QED
    BY <2>1, <2>2, <2>3
<1>8. \A i \in DOMAIN plan[f] : InPlace(f, i) =>
        (i \in DOMAIN base /\ base[i] = Goal[f][i]) \/ <<f, i>> \in assumed'
  <2> SUFFICES ASSUME NEW i \in DOMAIN plan[f], InPlace(f, i)
               PROVE  (i \in DOMAIN base /\ base[i] = Goal[f][i]) \/ <<f, i>> \in assumed'
    OBVIOUS
  <2>1. CASE Resumable(f)
    <3>1. Has(staged, <<f, i>>, Goal[f][i])
      BY <2>1 DEF Resumable
    <3>2. f \in DOMAIN staged /\ i \in DOMAIN staged[f] /\ staged[f][i] = Goal[f][i]
      BY <3>1, PlaceOf
    <3> QED
      BY <2>1, <3>2
  <2>3. CASE ~Resumable(f) /\ ~copied
    BY <1>0, <2>3
  <2>2. CASE ~Resumable(f) /\ copied
    <3>1. plan[f][i].from = "held" /\ plan[f][i].at = <<f, i>>
      BY DEF InPlace, Held
    <3>2. Has(live, <<f, i>>, Goal[f][i])
      BY <1>1, <1>2, <1>5, <3>1 DEF SourcesOK
    <3>3. f \in DOMAIN live /\ i \in DOMAIN live[f] /\ live[f][i] = Goal[f][i]
      BY <3>2, PlaceOf
    <3> QED
      BY <2>2, <3>3
  <2> QED
    BY <2>1, <2>2, <2>3
<1>17. assumed' \subseteq Places(plan) /\ assumed \subseteq assumed'
  BY <1>0, <1>2, <1>5 DEF FetchOK, Places
<1> HIDE DEF base
<1>9. /\ Files(staged') /\ DOMAIN staged' = DOMAIN staged \cup {f}
      /\ \A g \in DOMAIN staged \ {f} : staged'[g] = staged[g]
      /\ Len(staged'[f]) = Len(Goal[f])
      /\ \A i \in 1..Len(Goal[f]) : i <= Len(base) => staged'[f][i] = base[i]
  <2> DEFINE content == Resized(base, Len(Goal[f]))
  <2>1. /\ content \in Seq(Nat) /\ Len(content) = Len(Goal[f])
        /\ \A i \in 1..Len(Goal[f]) : i <= Len(base) => content[i] = base[i]
    BY <1>6, <1>7, ResizedForm
  <2>2. staged' = With(staged, f, content)
    BY <1>1
  <2> HIDE DEF content
  <2>3. Files(staged)
    BY <1>2 DEF TypesOK
  <2> HIDE DEF f
  <2>4. /\ Files(With(staged, f, content))
        /\ DOMAIN With(staged, f, content) = DOMAIN staged \cup {f}
        /\ With(staged, f, content)[f] = content
        /\ \A g \in DOMAIN staged \ {f} : With(staged, f, content)[g] = staged[g]
    BY <1>5, <2>1, <2>3, WithForm
  <2> QED
    BY <2>1, <2>2, <2>4
<1> HIDE DEF f
<1> HIDE DEF skips
<1>10. \A i \in DOMAIN plan[f] : InPlace(f, i) => staged'[f][i] = Goal[f][i] \/ <<f, i>> \in assumed'
  <2> SUFFICES ASSUME NEW i \in DOMAIN plan[f], InPlace(f, i), <<f, i>> \notin assumed'
               PROVE  staged'[f][i] = Goal[f][i]
    OBVIOUS
  <2>1. i \in DOMAIN base /\ base[i] = Goal[f][i]
    BY <1>8
  <2>2. i \in 1..Len(Goal[f]) /\ i <= Len(base)
    BY <1>6, <1>7, <2>1
  <2>3. staged'[f][i] = base[i]
    BY <1>9, <2>2
  <2> QED
    BY <2>1, <2>3
<1>11. TypesOK'
  <2>1. resumed' \in BOOLEAN
    BY <1>1, <1>2, Zenon DEF TypesOK, Resumable
  <2> QED
    BY <1>1, <1>2, <1>3, <1>9, <2>1 DEF TypesOK
<1>12. PlanOK'
  BY <1>1, <1>2, <1>3 DEF PlanOK, Idle
<1>13. FetchOK'
  BY <1>1, <1>2, <1>3, <1>17 DEF FetchOK
<1>14. SourcesOK'
  BY <1>1, <1>2, <1>3 DEF SourcesOK, Has, PlacesOf, Places
<1>15. StagedOK'
  <2> SUFFICES ASSUME NEW g \in DOMAIN plan \ todo'
               PROVE  /\ g \in DOMAIN staged' /\ Len(staged'[g]) = Len(Goal[g])
                      /\ \A i \in DOMAIN plan[g] : InPlace(g, i) => staged'[g][i] = Goal[g][i] \/ <<g, i>> \in assumed'
    BY <1>1, <1>3 DEF StagedOK, SlotOK
  <2>1. CASE g = f
    BY <1>9, <1>10, <2>1
  <2>2. CASE g # f
    BY <1>1, <1>2, <1>9, <1>17, <2>2 DEF StagedOK, SlotOK
  <2> QED
    BY <2>1, <2>2
<1>16. TidyOK'
  BY <1>1, <1>2, <1>3 DEF TidyOK, Idle
<1> QED
  BY <1>11, <1>12, <1>13, <1>14, <1>15, <1>16 DEF BasicInv

(* The fetch of what is missing begins, or there is nothing to fetch. *)
LEMMA FetchStep ==
  ASSUME BasicInv, StageNeedsNothing \/ FetchBegins \/ FetchEnds
  PROVE  BasicInv'
<1>1. /\ step \in {"stage", "fetch"} /\ step' \in {"fetch", "apply"} /\ step # "apply"
      /\ step = "stage" => todo = {}
      /\ todo' = DOMAIN plan \/ (step' = "fetch" /\ todo' = todo)
      /\ UNCHANGED <<live, staged, record, memory, resumed, writing, attempts, edits>>
  BY DEF StageNeedsNothing, FetchBegins, FetchEnds, disk, fetch
<1>2. TypesOK /\ PlanOK /\ FetchOK /\ SourcesOK /\ StagedOK /\ TidyOK
  BY DEF BasicInv
<1>3. /\ Goal' = Goal /\ Wanted' = Wanted /\ Remotes' = Remotes /\ plan' = plan
      /\ target' = target /\ removals' = removals /\ described' = described
      /\ \A g, i : InPlace(g, i)' <=> InPlace(g, i)
  BY <1>1, SameMemory
<1>4. landed' \subseteq Wanted /\ assumed \subseteq assumed' /\ assumed' \subseteq Places(plan)
  <2>1. \A d \in Checked : Destinations(d) \subseteq Places(plan)
    BY DEF Destinations, Remotes
  <2>2. \/ landed' = Checked /\ assumed \subseteq assumed' /\ assumed' \subseteq Places(plan)
        \/ UNCHANGED <<landed, assumed>>
    BY <1>2, <2>1 DEF StageNeedsNothing, FetchBegins, FetchEnds, fetch, FetchOK
  <2> QED
    BY <1>2, <2>2 DEF Checked, FetchOK
<1>5. TypesOK'
  BY <1>1, <1>2, <1>3 DEF TypesOK, Steps
<1>6. PlanOK'
  BY <1>1, <1>2, <1>3 DEF PlanOK, Idle
<1>7. FetchOK'
  BY <1>1, <1>2, <1>3, <1>4 DEF FetchOK
<1>8. SourcesOK'
  BY <1>1, <1>2, <1>3 DEF SourcesOK, Has, PlacesOf, Places
<1>9. StagedOK'
  <2> SUFFICES ASSUME NEW g \in DOMAIN plan
               PROVE  /\ g \in DOMAIN staged /\ Len(staged[g]) = Len(Goal[g])
                      /\ \A i \in DOMAIN plan[g] : InPlace(g, i) => staged[g][i] = Goal[g][i] \/ <<g, i>> \in assumed'
    BY <1>1, <1>3 DEF StagedOK, SlotOK
  <2> QED
    BY <1>1, <1>2, <1>4 DEF StagedOK, SlotOK
<1>10. TidyOK'
  BY <1>1, <1>2, <1>3 DEF TidyOK, Idle
<1> QED
  BY <1>5, <1>6, <1>7, <1>8, <1>9, <1>10 DEF BasicInv

(* A piece arrives for all of its destinations. *)
LEMMA PieceStep ==
  ASSUME BasicInv, NEW d \in Wanted, PieceArrives(d)
  PROVE  BasicInv'
<1>1. /\ step = "fetch" /\ writing' = Destinations(d)
      /\ UNCHANGED <<live, staged, record, memory, step, todo, resumed, landed, assumed, attempts, edits>>
  BY DEF PieceArrives, disk
<1>2. TypesOK /\ PlanOK /\ FetchOK /\ SourcesOK /\ StagedOK /\ TidyOK
  BY DEF BasicInv
<1>3. /\ Goal' = Goal /\ Wanted' = Wanted /\ Remotes' = Remotes /\ plan' = plan
      /\ target' = target /\ removals' = removals /\ described' = described
      /\ \A g, i : InPlace(g, i)' <=> InPlace(g, i)
  BY <1>1, SameMemory
<1>4. TypesOK'
  BY <1>1, <1>2, <1>3 DEF TypesOK
<1>5. PlanOK'
  BY <1>1, <1>2, <1>3 DEF PlanOK, Idle
<1>6. FetchOK'
  BY <1>1, <1>2, <1>3 DEF FetchOK, Destinations
<1>7. SourcesOK'
  BY <1>1, <1>2, <1>3 DEF SourcesOK, Has, PlacesOf, Places
<1>8. StagedOK' /\ TidyOK'
  BY <1>1, <1>2, <1>3 DEF StagedOK, SlotOK, TidyOK, Idle
<1> QED
  BY <1>4, <1>5, <1>6, <1>7, <1>8 DEF BasicInv

(* What a written slot leaves as it was. *)
LEMMA SlotWritten ==
  ASSUME BasicInv, step = "fetch", writing # {}, NEW d \in Nat,
         NEW p, p = Front(writing), staged' = Put(staged, p, d)
  PROVE  /\ Files(staged') /\ DOMAIN staged' = DOMAIN staged
         /\ p \in writing /\ p \in Remotes
         /\ staged'[p[1]][p[2]] = d
         /\ \A f \in DOMAIN plan : Len(staged'[f]) = Len(Goal[f])
         /\ \A f \in DOMAIN plan : \A i \in DOMAIN plan[f] :
              <<f, i>> # p => staged'[f][i] = staged[f][i]
<1>1. TypesOK /\ PlanOK /\ FetchOK /\ StagedOK
  BY DEF BasicInv
<1>2. writing \subseteq Nat \X Nat
  BY <1>1, RemoteForm DEF FetchOK
<1>3. p \in writing /\ p \in Remotes
  BY <1>1, <1>2, FrontIsOne DEF FetchOK
<1>4. \A f \in DOMAIN plan : f \in DOMAIN staged /\ Len(staged[f]) = Len(Goal[f])
  BY <1>1 DEF StagedOK, SlotOK
<1>5. p[1] \in DOMAIN plan /\ p[1] \in DOMAIN Goal /\ p[2] \in DOMAIN Goal[p[1]] /\ p = <<p[1], p[2]>>
  BY <1>1, <1>3, RemoteForm
<1>6. staged[p[1]] \in Seq(Nat)
  BY <1>1, <1>4, <1>5 DEF TypesOK, Files
<1>7. \A f \in DOMAIN plan : DOMAIN plan[f] = 1..Len(Goal[f]) /\ DOMAIN staged[f] = 1..Len(Goal[f])
  <2> TAKE f \in DOMAIN plan
  <2>1. f \in DOMAIN Goal /\ DOMAIN plan[f] = DOMAIN Goal[f] /\ target \in 1..Len(Releases)
    BY <1>1 DEF PlanOK, TypesOK
  <2>2. DOMAIN Goal[f] = 1..Len(Goal[f])
    BY <2>1, ReleaseForm DEF Goal
  <2>3. staged[f] \in Seq(Nat) /\ Len(staged[f]) = Len(Goal[f])
    BY <1>1, <1>4 DEF TypesOK, Files
  <2> QED
    BY <2>1, <2>2, <2>3
<1>8. p[2] \in DOMAIN staged[p[1]]
  <2>1. DOMAIN plan[p[1]] = DOMAIN Goal[p[1]]
    BY <1>1, <1>5 DEF PlanOK
  <2> QED
    BY <1>5, <1>7, <2>1
<1>9. /\ Files(staged') /\ DOMAIN staged' = DOMAIN staged
      /\ Len(staged'[p[1]]) = Len(staged[p[1]])
      /\ \A g \in DOMAIN staged \ {p[1]} : staged'[g] = staged[g]
      /\ staged'[p[1]][p[2]] = d
      /\ \A j \in DOMAIN staged[p[1]] \ {p[2]} : staged'[p[1]][j] = staged[p[1]][j]
  <2>1. Files(staged) /\ p[1] \in DOMAIN staged
    BY <1>1, <1>4, <1>5 DEF TypesOK
  <2> QED
    BY <1>8, <2>1, PutForm
<1>10. \A f \in DOMAIN plan : Len(staged'[f]) = Len(Goal[f])
  BY <1>4, <1>9
<1>11. \A f \in DOMAIN plan : \A i \in DOMAIN plan[f] : <<f, i>> # p => staged'[f][i] = staged[f][i]
  <2> SUFFICES ASSUME NEW f \in DOMAIN plan, NEW i \in DOMAIN plan[f], <<f, i>> # p
               PROVE  staged'[f][i] = staged[f][i]
    OBVIOUS
  <2>1. f \in DOMAIN staged /\ i \in DOMAIN staged[f]
    BY <1>4, <1>7
  <2>2. f # p[1] \/ i # p[2]
    BY <1>5, Zenon
  <2> QED
    BY <1>9, <2>1, <2>2
<1> QED
  BY <1>3, <1>9, <1>10, <1>11

(* A piece is written to one of its destinations. *)
LEMMA WriteStep ==
  ASSUME BasicInv, WritePlacement
  PROVE  BasicInv'
<1> DEFINE p == Front(writing)
<1>1. /\ step = "fetch" /\ writing # {}
      /\ staged' = Put(staged, p, Goal[p[1]][p[2]])
      /\ writing' = writing \ {p}
      /\ landed' = IF writing' = {} THEN landed \cup {Goal[p[1]][p[2]]} ELSE landed
      /\ UNCHANGED <<live, record, memory, step, todo, resumed, assumed, attempts, edits>>
  BY DEF WritePlacement, Put
<1>2. TypesOK /\ PlanOK /\ FetchOK /\ SourcesOK /\ StagedOK /\ TidyOK
  BY DEF BasicInv
<1>3. /\ Goal' = Goal /\ Wanted' = Wanted /\ Remotes' = Remotes /\ plan' = plan
      /\ target' = target /\ removals' = removals /\ described' = described
      /\ \A g, i : InPlace(g, i)' <=> InPlace(g, i)
  BY <1>1, SameMemory
<1>4. p \in Remotes
  BY <1>1, <1>2, RemoteForm, FrontIsOne DEF FetchOK
<1>5. Goal[p[1]][p[2]] \in Nat /\ Goal[p[1]][p[2]] \in Wanted /\ plan[p[1]][p[2]] = Remote
  BY <1>2, <1>4, RemoteForm
<1>6. /\ Files(staged') /\ DOMAIN staged' = DOMAIN staged
      /\ \A f \in DOMAIN plan : Len(staged'[f]) = Len(Goal[f])
      /\ \A f \in DOMAIN plan : \A i \in DOMAIN plan[f] : <<f, i>> # p => staged'[f][i] = staged[f][i]
  BY <1>1, <1>5, SlotWritten
<1>7. TypesOK'
  BY <1>1, <1>2, <1>3, <1>6 DEF TypesOK
<1>8. PlanOK'
  BY <1>1, <1>2, <1>3 DEF PlanOK, Idle
<1>9. FetchOK'
  BY <1>1, <1>2, <1>3, <1>5 DEF FetchOK
<1>10. SourcesOK'
  BY <1>1, <1>2, <1>3 DEF SourcesOK, Has, PlacesOf, Places
<1>11. StagedOK'
  <2> SUFFICES ASSUME NEW g \in DOMAIN plan
               PROVE  /\ g \in DOMAIN staged' /\ Len(staged'[g]) = Len(Goal[g])
                      /\ \A i \in DOMAIN plan[g] : InPlace(g, i) => staged'[g][i] = Goal[g][i] \/ <<g, i>> \in assumed
    BY <1>1, <1>3 DEF StagedOK, SlotOK
  <2>1. g \in DOMAIN staged /\ \A i \in DOMAIN plan[g] : InPlace(g, i) => staged[g][i] = Goal[g][i] \/ <<g, i>> \in assumed
    BY <1>1, <1>2 DEF StagedOK, SlotOK
  <2>2. \A i \in DOMAIN plan[g] : InPlace(g, i) => <<g, i>> # p
    BY <1>5 DEF InPlace, Remote, Held
  <2> QED
    BY <1>6, <2>1, <2>2
<1>12. TidyOK'
  BY <1>1, <1>2, <1>3 DEF TidyOK, Idle
<1> QED
  BY <1>7, <1>8, <1>9, <1>10, <1>11, <1>12 DEF BasicInv

(* A staged file is filled: the slots that stay are left as they are. *)
LEMMA ApplyStep ==
  ASSUME BasicInv, ApplyFile
  PROVE  /\ BasicInv'
         /\ Min(todo) \in todo /\ DOMAIN staged' = DOMAIN staged
         /\ \A g \in DOMAIN staged \ {Min(todo)} : staged'[g] = staged[g]
         /\ staged'[Min(todo)] = Filled(Min(todo))
<1> DEFINE f == Min(todo)
<1>1. /\ step = "apply" /\ todo # {} /\ step' = "apply" /\ todo' = todo \ {f}
      /\ staged' = [staged EXCEPT ![f] = Filled(f)]
      /\ UNCHANGED <<live, record, memory, fetch, attempts, edits>>
  BY DEF ApplyFile
<1>2. TypesOK /\ PlanOK /\ FetchOK /\ SourcesOK /\ StagedOK /\ TidyOK
  BY DEF BasicInv
<1>3. /\ Goal' = Goal /\ Wanted' = Wanted /\ Remotes' = Remotes /\ plan' = plan
      /\ target' = target /\ removals' = removals /\ described' = described
      /\ \A g, i : InPlace(g, i)' <=> InPlace(g, i)
  BY <1>1, SameMemory
<1>4. todo \subseteq DOMAIN plan /\ DOMAIN plan \subseteq DOMAIN Goal /\ DOMAIN plan \subseteq Nat
  BY <1>1, <1>2, ReleaseForm DEF PlanOK, TypesOK, Goal, Files
<1>5. f \in todo /\ f \in DOMAIN plan
  BY <1>1, <1>4, NextFile
<1>6. /\ Len(Goal[f]) \in Nat /\ DOMAIN plan[f] = DOMAIN Goal[f] /\ DOMAIN Goal[f] = 1..Len(Goal[f])
      /\ \A i \in DOMAIN Goal[f] : Goal[f][i] \in Nat
  BY <1>2, <1>5, ReleaseForm DEF PlanOK, TypesOK, Goal
<1>7. f \in DOMAIN staged /\ Len(staged[f]) = Len(Goal[f]) /\ staged[f] \in Seq(Nat)
  BY <1>1, <1>2, <1>5 DEF StagedOK, SlotOK, TypesOK, Files
<1>8. /\ Filled(f) \in Seq(Nat) /\ Len(Filled(f)) = Len(Goal[f])
      /\ \A i \in DOMAIN Goal[f] : InPlace(f, i) => Filled(f)[i] = staged[f][i]
  <2> DEFINE slot(i) == IF plan[f][i] = Remote \/ InPlace(f, i) THEN staged[f][i] ELSE Goal[f][i]
  <2>1. \A i \in 1..Len(Goal[f]) : slot(i) \in Nat
    BY <1>6, <1>7
  <2>2. Filled(f) = [i \in 1..Len(Goal[f]) |-> slot(i)]
    BY <1>6 DEF Filled
  <2>3. \A i \in 1..Len(Goal[f]) : InPlace(f, i) => slot(i) = staged[f][i]
    OBVIOUS
  <2> HIDE DEF slot
  <2> QED
    BY <1>6, <2>1, <2>2, <2>3
<1> HIDE DEF f
<1>9. /\ DOMAIN staged' = DOMAIN staged /\ staged'[f] = Filled(f)
      /\ \A g \in DOMAIN staged \ {f} : staged'[g] = staged[g]
  BY <1>1, <1>7
<1>10. /\ step = "apply" /\ step' = "apply" /\ todo' = todo \ {f}
       /\ UNCHANGED <<live, record, resumed, landed, writing, assumed, attempts, edits>>
  BY <1>1 DEF fetch
<1>11. Files(staged')
  BY <1>2, <1>8, <1>9 DEF TypesOK, Files
<1>12. TypesOK'
  BY <1>2, <1>3, <1>10, <1>11 DEF TypesOK
<1>13. PlanOK'
  BY <1>2, <1>3, <1>10 DEF PlanOK, Idle
<1>14. FetchOK'
  BY <1>2, <1>3, <1>10 DEF FetchOK
<1>15. SourcesOK'
  BY <1>2, <1>3, <1>10 DEF SourcesOK, Has, PlacesOf, Places
<1>16. StagedOK'
  <2> SUFFICES ASSUME NEW g \in DOMAIN plan
               PROVE  /\ g \in DOMAIN staged' /\ Len(staged'[g]) = Len(Goal[g])
                      /\ \A i \in DOMAIN plan[g] : InPlace(g, i) => staged'[g][i] = Goal[g][i] \/ <<g, i>> \in assumed
    BY <1>3, <1>10 DEF StagedOK, SlotOK
  <2>1. /\ g \in DOMAIN staged /\ Len(staged[g]) = Len(Goal[g])
        /\ \A i \in DOMAIN plan[g] : InPlace(g, i) => staged[g][i] = Goal[g][i] \/ <<g, i>> \in assumed
    BY <1>2, <1>10 DEF StagedOK, SlotOK
  <2>2. CASE g = f
    BY <1>6, <1>8, <1>9, <2>1, <2>2
  <2>3. CASE g # f
    BY <1>9, <2>1, <2>3
  <2> QED
    BY <2>2, <2>3
<1>17. TidyOK'
  BY <1>2, <1>3, <1>10 DEF TidyOK, Idle
<1> QED
  BY <1>5, <1>9, <1>12, <1>13, <1>14, <1>15, <1>16, <1>17 DEF BasicInv, f

(* One stage of the installation ends, and the next one begins. *)
LEMMA StagesStep ==
  ASSUME BasicInv, ApplyEnds \/ SwapEnds \/ RemoveEnds
  PROVE  BasicInv'
<1>1. /\ \/ step = "apply" /\ step' = "swap" /\ todo' = DOMAIN plan
         \/ step = "swap" /\ step' = "remove" /\ todo' = removals
         \/ step = "remove" /\ step' = "save" /\ todo' = todo
      /\ todo = {}
      /\ UNCHANGED <<live, staged, record, memory, resumed, landed, writing, assumed, attempts, edits>>
  BY DEF ApplyEnds, SwapEnds, RemoveEnds, disk, fetch
<1>2. TypesOK /\ PlanOK /\ FetchOK /\ SourcesOK /\ StagedOK /\ TidyOK
  BY DEF BasicInv
<1>3. /\ Goal' = Goal /\ Wanted' = Wanted /\ Remotes' = Remotes /\ plan' = plan
      /\ target' = target /\ removals' = removals /\ described' = described
  BY <1>1, SameMemory
<1>4. TypesOK'
  BY <1>1, <1>2, <1>3 DEF TypesOK, Steps
<1>5. PlanOK'
  BY <1>1, <1>2, <1>3 DEF PlanOK, Idle
<1>6. FetchOK'
  BY <1>1, <1>2, <1>3 DEF FetchOK
<1>7. SourcesOK' /\ StagedOK'
  <2>1. step = "apply" => DOMAIN plan \subseteq DOMAIN staged
    BY <1>2 DEF StagedOK, SlotOK
  <2> QED
    BY <1>1, <1>3, <2>1 DEF SourcesOK, StagedOK, SlotOK
<1>8. TidyOK'
  BY <1>1, <1>2, <1>3 DEF TidyOK, Idle
<1> QED
  BY <1>4, <1>5, <1>6, <1>7, <1>8 DEF BasicInv

(* A staged file takes the place of the live one. *)
LEMMA SwapStep ==
  ASSUME BasicInv, SwapFile
  PROVE  /\ BasicInv'
         /\ Min(todo) \in todo
         /\ DOMAIN live' = DOMAIN live \cup {Min(todo)} /\ live'[Min(todo)] = staged[Min(todo)]
         /\ \A g \in DOMAIN live \ {Min(todo)} : live'[g] = live[g]
         /\ DOMAIN staged' = DOMAIN staged \ {Min(todo)}
         /\ \A g \in DOMAIN staged \ {Min(todo)} : staged'[g] = staged[g]
<1> DEFINE f == Min(todo)
<1>1. /\ step = "swap" /\ todo # {} /\ step' = "swap" /\ todo' = todo \ {f}
      /\ live' = With(live, f, staged[f]) /\ staged' = Without(staged, f)
      /\ UNCHANGED <<record, memory, resumed, landed, writing, assumed, attempts, edits>>
  BY DEF SwapFile, fetch
<1>2. TypesOK /\ PlanOK /\ FetchOK /\ SourcesOK /\ StagedOK /\ TidyOK
  BY DEF BasicInv
<1>3. /\ Goal' = Goal /\ Wanted' = Wanted /\ Remotes' = Remotes /\ plan' = plan
      /\ target' = target /\ removals' = removals /\ described' = described
  BY <1>1, SameMemory
<1>4. todo \subseteq DOMAIN plan /\ DOMAIN plan \subseteq DOMAIN Goal /\ DOMAIN plan \subseteq Nat
  BY <1>1, <1>2, ReleaseForm DEF PlanOK, TypesOK, Goal, Files
<1>5. f \in todo /\ f \in DOMAIN plan /\ f \in DOMAIN Goal /\ f \in Nat /\ f \in DOMAIN staged
  <2>1. todo \subseteq DOMAIN staged
    BY <1>1, <1>2 DEF StagedOK, SlotOK
  <2> QED
    BY <1>1, <1>4, <2>1, NextFile
<1> HIDE DEF f
<1>6. Files(live) /\ Files(staged) /\ staged[f] \in Seq(Nat)
  BY <1>2, <1>5 DEF TypesOK, Files
<1>7. /\ Files(live') /\ DOMAIN live' = DOMAIN live \cup {f} /\ live'[f] = staged[f]
      /\ \A g \in DOMAIN live \ {f} : live'[g] = live[g]
  <2> DEFINE content == staged[f]
  <2>1. live' = With(live, f, content) /\ content \in Seq(Nat) /\ f \in Nat
    BY <1>1, <1>5, <1>6
  <2> HIDE DEF content
  <2>2. /\ Files(With(live, f, content))
        /\ DOMAIN With(live, f, content) = DOMAIN live \cup {f}
        /\ With(live, f, content)[f] = content
        /\ \A g \in DOMAIN live \ {f} : With(live, f, content)[g] = live[g]
    BY <1>6, <2>1, WithForm
  <2> QED
    BY <2>1, <2>2 DEF content
<1>8. /\ Files(staged') /\ DOMAIN staged' = DOMAIN staged \ {f}
      /\ \A g \in DOMAIN staged \ {f} : staged'[g] = staged[g]
  BY <1>1, <1>6, WithoutForm
<1>9. /\ step = "swap" /\ step' = "swap" /\ todo' = todo \ {f}
      /\ UNCHANGED <<record, resumed, landed, writing, assumed, attempts, edits>>
  BY <1>1
<1>10. TypesOK'
  BY <1>2, <1>3, <1>7, <1>8, <1>9 DEF TypesOK
<1>11. PlanOK'
  BY <1>2, <1>3, <1>9 DEF PlanOK, Idle
<1>12. FetchOK'
  BY <1>2, <1>3, <1>9 DEF FetchOK
<1>13. SourcesOK' /\ StagedOK'
  BY <1>2, <1>8, <1>9 DEF SourcesOK, StagedOK, SlotOK
<1>14. TidyOK'
  BY <1>2, <1>3, <1>5, <1>7, <1>9 DEF TidyOK, Idle
<1> QED
  BY <1>5, <1>7, <1>8, <1>10, <1>11, <1>12, <1>13, <1>14 DEF BasicInv, f

(* A file the release does not have is removed, or stays locked. *)
LEMMA RemoveStep ==
  ASSUME BasicInv, RemoveFile
  PROVE  /\ BasicInv'
         /\ Min(todo) \in todo /\ Min(todo) \notin DOMAIN Goal
         /\ DOMAIN live' \subseteq DOMAIN live /\ DOMAIN live \ {Min(todo)} \subseteq DOMAIN live'
         /\ \A g \in DOMAIN live' : live'[g] = live[g]
<1> DEFINE f == Min(todo)
<1>1. /\ step = "remove" /\ todo # {} /\ step' = "remove" /\ todo' = todo \ {f}
      /\ live' = IF f \in Locked THEN live ELSE Without(live, f)
      /\ UNCHANGED <<staged, record, memory, resumed, landed, writing, assumed, attempts, edits>>
  BY DEF RemoveFile, fetch
<1>2. TypesOK /\ PlanOK /\ FetchOK /\ SourcesOK /\ StagedOK /\ TidyOK
  BY DEF BasicInv
<1>3. /\ Goal' = Goal /\ Wanted' = Wanted /\ Remotes' = Remotes /\ plan' = plan
      /\ target' = target /\ removals' = removals /\ described' = described
  BY <1>1, SameMemory
<1>4. todo \subseteq removals /\ todo \subseteq Nat /\ removals \cap DOMAIN Goal = {}
  BY <1>1, <1>2 DEF PlanOK
<1>5. f \in todo /\ f \notin DOMAIN Goal
  BY <1>1, <1>4, NextFile
<1> HIDE DEF f
<1>6. /\ Files(live') /\ DOMAIN live' \subseteq DOMAIN live /\ DOMAIN live \ {f} \subseteq DOMAIN live'
      /\ \A g \in DOMAIN live' : live'[g] = live[g]
      /\ f \notin Locked => f \notin DOMAIN live'
  <2>1. Files(live)
    BY <1>2 DEF TypesOK
  <2>2. CASE f \in Locked
    BY <1>1, <2>1, <2>2
  <2>3. CASE f \notin Locked
    <3>1. live' = Without(live, f)
      BY <1>1, <2>3
    <3> QED
      BY <2>1, <3>1, WithoutForm
  <2> QED
    BY <2>2, <2>3
<1>7. /\ step = "remove" /\ step' = "remove" /\ todo' = todo \ {f}
      /\ UNCHANGED <<staged, record, resumed, landed, writing, assumed, attempts, edits>>
  BY <1>1
<1>8. TypesOK'
  BY <1>2, <1>3, <1>6, <1>7 DEF TypesOK
<1>9. PlanOK'
  BY <1>2, <1>3, <1>7 DEF PlanOK, Idle
<1>10. FetchOK'
  BY <1>2, <1>3, <1>7 DEF FetchOK
<1>11. SourcesOK' /\ StagedOK'
  BY <1>7 DEF SourcesOK, StagedOK, SlotOK
<1>12. TidyOK'
  BY <1>2, <1>3, <1>6, <1>7 DEF TidyOK, Idle
<1> QED
  BY <1>5, <1>6, <1>8, <1>9, <1>10, <1>11, <1>12 DEF BasicInv, f

(* Whatever ends an attempt leaves files in the folder that are files. *)
LEMMA EndStep ==
  ASSUME BasicInv, Save \/ Interrupt \/ StageTorn \/ WriteTorn
  PROVE  WrittenInv' /\ KeptOK' /\ live' = live
<1>1. TypesOK /\ PlanOK /\ FetchOK /\ Files(live) /\ Files(staged)
  BY DEF BasicInv, TypesOK
<1>2. CASE Save
  <2>1. Forget /\ live' = live /\ staged' = staged /\ record' = target
    BY <1>2 DEF Save
  <2>2. record' \in 0..Len(Releases)
    BY <1>1, <2>1 DEF TypesOK
  <2> QED
    BY <1>1, <2>1, <2>2, Forgetting
<1>3. CASE Interrupt
  <2>1. Forget /\ live' = live /\ staged' = staged /\ record' = record
    BY <1>3 DEF Interrupt, disk
  <2>2. record' \in 0..Len(Releases)
    BY <1>1, <2>1 DEF TypesOK
  <2> QED
    BY <1>1, <2>1, <2>2, Forgetting
<1>4. CASE StageTorn
  <2> DEFINE f == Min(todo)
  <2>1. /\ step = "stage" /\ todo # {} /\ Forget /\ live' = live /\ record' = record
        /\ \/ staged' = Without(staged, f)
           \/ staged' = With(staged, f, <<>>)
           \/ f \in DOMAIN live /\ \E n \in DOMAIN live[f] : staged' = With(staged, f, SubSeq(live[f], 1, n))
    BY <1>4 DEF StageTorn
  <2>2. f \in Nat
    <3>1. todo \subseteq Nat
      BY <1>1, <2>1, ReleaseForm DEF PlanOK, TypesOK, Goal, Files
    <3> QED
      BY <2>1, <3>1, NextFile
  <2> HIDE DEF f
  <2>3. Files(staged')
    <3>1. CASE staged' = Without(staged, f)
      BY <1>1, <3>1, WithoutForm
    <3>2. CASE staged' = With(staged, f, <<>>)
      <4>1. <<>> \in Seq(Nat)
        OBVIOUS
      <4> QED
        BY <1>1, <2>2, <3>2, <4>1, WithForm
    <3>3. ASSUME f \in DOMAIN live, NEW n \in DOMAIN live[f], staged' = With(staged, f, SubSeq(live[f], 1, n))
          PROVE  Files(staged')
      <4>1. live[f] \in Seq(Nat)
        BY <1>1, <3>3 DEF Files
      <4>2. SubSeq(live[f], 1, n) \in Seq(Nat)
        BY <3>3, <4>1
      <4> QED
        BY <1>1, <2>2, <3>3, <4>2, WithForm
    <3> QED
      BY <2>1, <3>1, <3>2, <3>3
  <2>4. record' \in 0..Len(Releases)
    BY <1>1, <2>1 DEF TypesOK
  <2> QED
    BY <1>1, <2>1, <2>3, <2>4, Forgetting
<1>5. CASE WriteTorn
  <2>1. /\ step = "fetch" /\ writing # {} /\ staged' = Put(staged, Front(writing), Junk)
        /\ Forget /\ live' = live /\ record' = record
    BY <1>5 DEF WriteTorn, Put
  <2>2. Files(staged')
    BY <2>1, SlotWritten DEF Junk
  <2>3. record' \in 0..Len(Releases)
    BY <1>1, <2>1 DEF TypesOK
  <2> QED
    BY <1>1, <2>1, <2>2, <2>3, Forgetting
<1> QED
  BY <1>2, <1>3, <1>4, <1>5

(* An edit between attempts leaves files. *)
LEMMA EditStep ==
  ASSUME BasicInv, NEW f \in DOMAIN live, Edit(f)
  PROVE  WrittenInv' /\ KeptOK'
<1>1. /\ Idle /\ step' = step /\ edits < MaxEdits /\ edits' = edits + 1
      /\ UNCHANGED <<staged, record, memory, todo, resumed, landed, writing, assumed, attempts>>
  BY DEF Edit, fetch
<1>2. TypesOK /\ PlanOK /\ FetchOK
  BY DEF BasicInv
<1>3. /\ Goal' = Goal /\ Wanted' = Wanted /\ Remotes' = Remotes /\ plan' = plan
      /\ target' = target /\ removals' = removals /\ described' = described
  BY <1>1, SameMemory
<1>4. Files(live')
  <2>1. Files(live)
    BY <1>2 DEF TypesOK
  <2>2. CASE live' = Without(live, f)
    BY <2>1, <2>2, WithoutForm
  <2>3. ASSUME NEW i \in DOMAIN live[f], live' = [live EXCEPT ![f][i] = Junk]
        PROVE  Files(live')
    <3>1. live' = Put(live, <<f, i>>, Junk)
      BY <2>3 DEF Put
    <3> QED
      BY <2>1, <3>1, PutForm DEF Junk
  <2> QED
    BY <2>2, <2>3 DEF Edit
<1>5. TypesOK'
  BY <1>1, <1>2, <1>3, <1>4, BoundsAssumption DEF TypesOK
<1>6. PlanOK'
  BY <1>1, <1>2, <1>3 DEF PlanOK, Idle
<1>7. FetchOK'
  BY <1>1, <1>2, <1>3 DEF FetchOK
<1>8. SourcesOK' /\ StagedOK' /\ TidyOK' /\ LandedOK' /\ AppliedOK' /\ KeptOK'
  BY <1>1 DEF SourcesOK, StagedOK, SlotOK, TidyOK, LandedOK, AppliedOK, KeptOK, Idle
<1> QED
  BY <1>5, <1>6, <1>7, <1>8 DEF WrittenInv, BasicInv

(* The basic part is inductive. *)
LEMMA BasicStep ==
  ASSUME BasicInv, [InstallNext]_vars
  PROVE  BasicInv'
<1>1. ASSUME NEW version \in target..Len(Releases), PlanUpdate(version)  PROVE BasicInv'
  BY <1>1, UpdateBegins DEF WrittenInv
<1>2. ASSUME NEW version \in target..Len(Releases), PlanRepair(version)  PROVE BasicInv'
  BY <1>2, RepairBegins DEF WrittenInv
<1>3. CASE StageFile
  BY <1>3, StageStep
<1>4. CASE StageNeedsNothing \/ FetchBegins \/ FetchEnds
  BY <1>4, FetchStep
<1>5. ASSUME NEW d \in Wanted, PieceArrives(d)  PROVE BasicInv'
  BY <1>5, PieceStep
<1>6. CASE WritePlacement
  BY <1>6, WriteStep
<1>7. CASE ApplyFile
  BY <1>7, ApplyStep
<1>8. CASE ApplyEnds \/ SwapEnds \/ RemoveEnds
  BY <1>8, StagesStep
<1>9. CASE SwapFile
  BY <1>9, SwapStep
<1>10. CASE RemoveFile
  BY <1>10, RemoveStep
<1>11. CASE Save \/ Interrupt \/ StageTorn \/ WriteTorn
  BY <1>11, EndStep DEF WrittenInv
<1>12. ASSUME NEW f \in DOMAIN live, Edit(f)  PROVE BasicInv'
  BY <1>12, EditStep DEF WrittenInv
<1>13. CASE UNCHANGED vars
  <2>1. UNCHANGED memory /\ UNCHANGED <<live, staged, record, step, todo, resumed, landed, writing, assumed, attempts, edits>>
    BY <1>13 DEF vars, disk, memory, fetch
  <2>2. /\ Goal' = Goal /\ Wanted' = Wanted /\ Remotes' = Remotes /\ plan' = plan
        /\ target' = target /\ removals' = removals /\ described' = described
        /\ \A g, i : InPlace(g, i)' <=> InPlace(g, i)
    BY <2>1, SameMemory
  <2>3. TypesOK /\ PlanOK /\ FetchOK /\ SourcesOK /\ StagedOK /\ TidyOK
    BY DEF BasicInv
  <2>4. TypesOK'
    BY <2>1, <2>2, <2>3 DEF TypesOK
  <2>5. PlanOK' /\ FetchOK'
    BY <2>1, <2>2, <2>3 DEF PlanOK, FetchOK, Idle
  <2>6. SourcesOK'
    BY <2>1, <2>2, <2>3 DEF SourcesOK, Has, PlacesOf, Places
  <2>7. StagedOK' /\ TidyOK'
    BY <2>1, <2>2, <2>3 DEF StagedOK, SlotOK, TidyOK, Idle
  <2> QED
    BY <2>4, <2>5, <2>6, <2>7 DEF BasicInv
<1> QED
  BY <1>1, <1>2, <1>3, <1>4, <1>5, <1>6, <1>7, <1>8, <1>9, <1>10, <1>11, <1>12, <1>13
  DEF InstallNext, Attempt

(* The invariant, for every behaviour. *)
LEMMA BasicAlways == InstallSpec => []BasicInv
BY BasicInitially, BasicStep, PTL DEF InstallSpec

(* Every variable of an attempt keeps its type, whatever it finds in the folder. *)
THEOREM ContentTypeCorrect == InstallSpec => []ContentTypeOK
<1>1. BasicInv => ContentTypeOK
  <2> SUFFICES ASSUME BasicInv  PROVE ContentTypeOK
    OBVIOUS
  <2>1. TypesOK /\ PlanOK /\ FetchOK /\ StagedOK
    BY DEF BasicInv
  <2>2. step \in {"fetch", "apply"} => \A f \in DOMAIN plan : f \in DOMAIN staged /\ Len(staged[f]) = Len(Goal[f])
    BY <2>1 DEF StagedOK, SlotOK
  <2>3. resumed \in BOOLEAN /\ described \in BOOLEAN
    BY <2>1 DEF TypesOK
  <2> QED
    BY <2>1, <2>2, <2>3 DEF ContentTypeOK, TypesOK, PlanOK, FetchOK
<1> QED
  BY <1>1, BasicAlways, PTL

(* ContentInstaller reads held chunks where the plan found them: none is swapped or removed before
   the last staged file that needs one is written. *)
THEOREM SourcesSurvive == InstallSpec => []PlannedSourcesSurvive
<1>1. BasicInv => PlannedSourcesSurvive
  <2> SUFFICES ASSUME BasicInv, step \in {"stage", "fetch", "apply"},
                      NEW f \in IF step = "apply" THEN todo ELSE DOMAIN plan, NEW i \in DOMAIN plan[f]
               PROVE  Resolves(f, i)
    BY DEF PlannedSourcesSurvive
  <2>1. PlanOK /\ SourcesOK
    BY DEF BasicInv
  <2>2. f \in DOMAIN plan
    BY <2>1 DEF PlanOK
  <2> QED
    BY <2>1, <2>2 DEF SourcesOK, Resolves
<1> QED
  BY <1>1, BasicAlways, PTL

(* An update that could describe the folder leaves nothing beyond the release but locked files. *)
THEOREM UpdateTidiesUp == InstallSpec => []UpdateLeavesTheRelease
<1>1. BasicInv => UpdateLeavesTheRelease
  BY DEF BasicInv, TidyOK, UpdateLeavesTheRelease, Idle
<1> QED
  BY <1>1, BasicAlways, PTL

-----------------------------------------------------------------------------
(* What is written is right, but for what is assumed.                      *)

(* The check of a resumed fetch counts a piece that is at its first destination, and assumes it at
   the others. *)
LEMMA CheckedIsThere ==
  ASSUME TypesOK, PlanOK, FetchBegins, NEW p \in Remotes, Goal[p[1]][p[2]] \in Checked
  PROVE  SlotOK(p)'
<1> DEFINE d == Goal[p[1]][p[2]]
<1>1. d \in Checked /\ Has(staged, Front(Destinations(d)), d)
  BY DEF Checked
<1>2. p \in Destinations(d)
  BY DEF Destinations
<1>3. /\ staged' = staged /\ Goal' = Goal
      /\ assumed' = assumed \cup UNION {Destinations(e) \ {Front(Destinations(e))} : e \in Checked}
  BY SameMemory DEF FetchBegins, disk
<1> HIDE DEF d
<1>4. CASE p = Front(Destinations(d))
  <2>1. PICK f \in DOMAIN staged : \E i \in DOMAIN staged[f] : p = <<f, i>> /\ staged[f][i] = d
    BY <1>1, <1>4, PlaceOf
  <2>2. staged[p[1]][p[2]] = d
    BY <2>1
  <2> QED
    BY <1>3, <2>2 DEF SlotOK, d
<1>5. CASE p # Front(Destinations(d))
  <2>1. p \in Destinations(d) \ {Front(Destinations(d))}
    BY <1>2, <1>5
  <2>2. p \in assumed'
    BY <1>1, <1>3, <2>1
  <2> QED
    BY <2>2 DEF SlotOK
<1> QED
  BY <1>4, <1>5

(* A piece that counts stays at its destinations while others are written. *)
LEMMA LandedStep ==
  ASSUME WrittenInv, FetchBegins \/ WritePlacement \/ FetchEnds \/ StageNeedsNothing
  PROVE  LandedOK' /\ AppliedOK'
<1>1. TypesOK /\ PlanOK /\ FetchOK /\ LandedOK /\ AppliedOK
  BY DEF WrittenInv, BasicInv
<1>2. UNCHANGED memory
  BY DEF FetchBegins, WritePlacement, FetchEnds, StageNeedsNothing
<1>3. /\ Goal' = Goal /\ Wanted' = Wanted /\ Remotes' = Remotes /\ plan' = plan
      /\ \A e : Destinations(e)' = Destinations(e)
  <2>1. Goal' = Goal /\ Wanted' = Wanted /\ Remotes' = Remotes /\ plan' = plan
    BY <1>2, SameMemory
  <2> QED
    BY <2>1 DEF Destinations
<1>4. CASE FetchBegins
  <2>1. step = "stage" /\ step' = "fetch" /\ landed' = Checked /\ writing' = writing
    BY <1>4 DEF FetchBegins
  <2>2. writing' = {}
    BY <1>1, <2>1 DEF FetchOK
  <2>3. \A p \in Remotes : Goal[p[1]][p[2]] \in Checked => SlotOK(p)'
    BY <1>1, <1>4, CheckedIsThere
  <2>4. \A p \in Remotes' : Goal'[p[1]][p[2]] \in landed' => SlotOK(p)'
    BY <1>3, <2>1, <2>3
  <2>5. LandedOK'
    BY <2>1, <2>2, <2>4 DEF LandedOK
  <2> QED
    BY <2>1, <2>5 DEF AppliedOK
<1>5. CASE WritePlacement
  <2> DEFINE p == Front(writing)
             d == Goal[p[1]][p[2]]
  <2>1. /\ step = "fetch" /\ step' = "fetch" /\ writing # {} /\ staged' = Put(staged, p, d)
        /\ writing' = writing \ {p} /\ assumed' = assumed
        /\ landed' = IF writing' = {} THEN landed \cup {d} ELSE landed
    BY <1>5 DEF WritePlacement, Put
  <2>2. p \in writing /\ p \in Remotes
    BY <1>1, <2>1, RemoteForm, FrontIsOne DEF FetchOK
  <2>3. d \in Nat
    BY <1>1, <2>2, RemoteForm
  <2>4. /\ staged'[p[1]][p[2]] = d
        /\ \A f \in DOMAIN plan : \A i \in DOMAIN plan[f] : <<f, i>> # p => staged'[f][i] = staged[f][i]
    BY <2>1, <2>3, SlotWritten DEF WrittenInv
  <2>5. \A q \in Remotes : q # p => staged'[q[1]][q[2]] = staged[q[1]][q[2]]
    <3> SUFFICES ASSUME NEW q \in Remotes, q # p  PROVE staged'[q[1]][q[2]] = staged[q[1]][q[2]]
      OBVIOUS
    <3>1. Remotes \subseteq Nat \X Nat
      BY <1>1, RemoteForm
    <3>2. q = <<q[1], q[2]>>
      BY <3>1
    <3>3. q[1] \in DOMAIN plan /\ q[2] \in DOMAIN Goal[q[1]]
      BY <1>1, RemoteForm
    <3>4. DOMAIN plan[q[1]] = DOMAIN Goal[q[1]]
      BY <1>1, <3>3 DEF PlanOK
    <3> QED
      BY <2>4, <3>2, <3>3, <3>4, Zenon
  <2>6. PICK e \in Wanted : writing \subseteq Destinations(e) /\ \A q \in Destinations(e) \ writing : SlotOK(q)
    BY <1>1, <2>1 DEF LandedOK
  <2>7. d = e
    BY <2>2, <2>6 DEF Destinations
  <2> HIDE DEF p, d
  <2>8. d = Goal[p[1]][p[2]]
    BY DEF d
  <2>9. \A q \in Remotes : q = p \/ SlotOK(q) => SlotOK(q)'
    BY <1>3, <2>1, <2>4, <2>5, <2>8 DEF SlotOK
  <2>10. \A q \in Remotes : Goal[q[1]][q[2]] \in landed' => SlotOK(q)'
    <3> SUFFICES ASSUME NEW q \in Remotes, Goal[q[1]][q[2]] \in landed', q # p
                 PROVE  SlotOK(q)
      BY <2>9
    <3>1. CASE Goal[q[1]][q[2]] \in landed
      BY <1>1, <2>1, <3>1 DEF LandedOK
    <3>2. CASE Goal[q[1]][q[2]] \notin landed
      <4>1. writing' = {} /\ Goal[q[1]][q[2]] = d
        BY <2>1, <3>2
      <4>2. q \in Destinations(e) \ writing
        BY <2>1, <2>7, <4>1 DEF Destinations
      <4> QED
        BY <2>6, <4>2
    <3> QED
      BY <3>1, <3>2
  <2>11. writing' \subseteq Destinations(e) /\ \A q \in Destinations(e) \ writing' : SlotOK(q)'
    <3>1. writing' \subseteq Destinations(e)
      BY <2>1, <2>6
    <3>2. ASSUME NEW q \in Destinations(e) \ writing'  PROVE SlotOK(q)'
      <4>1. q = p \/ q \in Destinations(e) \ writing
        BY <2>1, <3>2
      <4>2. q \in Remotes
        BY <3>2 DEF Destinations
      <4> QED
        BY <2>6, <2>9, <4>1, <4>2
    <3> QED
      BY <3>1, <3>2
  <2>12. LandedOK'
    <3>1. \A q \in Remotes' : Goal'[q[1]][q[2]] \in landed' => SlotOK(q)'
      BY <1>3, <2>10
    <3>2. /\ e \in Wanted' /\ writing' \subseteq Destinations(e)'
          /\ \A q \in Destinations(e)' \ writing' : SlotOK(q)'
      BY <1>3, <2>11
    <3> QED
      BY <2>1, <3>1, <3>2 DEF LandedOK
  <2> QED
    BY <2>1, <2>12 DEF AppliedOK
<1>6. CASE FetchEnds
  <2>1. /\ step = "fetch" /\ step' = "apply" /\ landed = Wanted /\ todo' = DOMAIN plan
        /\ staged' = staged /\ assumed' = assumed
    BY <1>6 DEF FetchEnds, disk, fetch
  <2>2. \A p \in Remotes : SlotOK(p)
    <3>1. \A p \in Remotes : Goal[p[1]][p[2]] \in landed
      BY <1>1, <2>1, RemoteForm
    <3> QED
      BY <1>1, <2>1, <3>1 DEF LandedOK
  <2>3. \A p \in Remotes' : SlotOK(p)'
    BY <1>3, <2>1, <2>2 DEF SlotOK
  <2>4. LandedOK'
    BY <2>1, <2>3 DEF LandedOK
  <2> QED
    BY <1>3, <2>1, <2>4 DEF AppliedOK
<1>7. CASE StageNeedsNothing
  <2>1. step' = "apply" /\ Wanted = {} /\ todo' = DOMAIN plan
    BY <1>7 DEF StageNeedsNothing
  <2>2. Remotes' = {}
    BY <1>3, <2>1 DEF Wanted
  <2>3. LandedOK'
    BY <2>1, <2>2 DEF LandedOK
  <2> QED
    BY <1>3, <2>1, <2>3 DEF AppliedOK
<1> QED
  BY <1>4, <1>5, <1>6, <1>7

(* A staged file that is filled is the file of the release, but for what is assumed. *)
LEMMA FilledStep ==
  ASSUME WrittenInv, ApplyFile
  PROVE  LandedOK' /\ AppliedOK'
<1> DEFINE f == Min(todo)
<1>1. TypesOK /\ PlanOK /\ StagedOK /\ LandedOK /\ AppliedOK
  BY DEF WrittenInv, BasicInv
<1>2. /\ step = "apply" /\ step' = "apply" /\ todo' = todo \ {f} /\ UNCHANGED memory
      /\ assumed' = assumed
  BY DEF ApplyFile, fetch
<1>3. Goal' = Goal /\ Wanted' = Wanted /\ Remotes' = Remotes /\ plan' = plan
  BY <1>2, SameMemory
<1>4. /\ f \in todo /\ DOMAIN staged' = DOMAIN staged /\ staged'[f] = Filled(f)
      /\ \A g \in DOMAIN staged \ {f} : staged'[g] = staged[g]
  BY ApplyStep DEF WrittenInv
<1> HIDE DEF f
<1>5. f \in DOMAIN plan /\ f \in DOMAIN Goal /\ DOMAIN plan[f] = DOMAIN Goal[f]
  BY <1>1, <1>2, <1>4 DEF PlanOK
<1>6. \A g \in DOMAIN plan : g \in DOMAIN staged
  BY <1>1, <1>2 DEF StagedOK
<1>7. \A i \in DOMAIN Goal[f] : Filled(f)[i] = Goal[f][i] \/ <<f, i>> \in assumed
  <2> SUFFICES ASSUME NEW i \in DOMAIN Goal[f]  PROVE Filled(f)[i] = Goal[f][i] \/ <<f, i>> \in assumed
    OBVIOUS
  <2>1. Filled(f)[i] = IF plan[f][i] = Remote \/ InPlace(f, i) THEN staged[f][i] ELSE Goal[f][i]
    BY DEF Filled
  <2>2. InPlace(f, i) => SlotOK(<<f, i>>)
    BY <1>1, <1>2, <1>5 DEF StagedOK
  <2>3. plan[f][i] = Remote => SlotOK(<<f, i>>)
    <3>1. plan[f][i] = Remote => <<f, i>> \in Remotes
      BY <1>1, <1>5, RemoteForm
    <3> QED
      BY <1>1, <1>2, <3>1 DEF LandedOK
  <2> QED
    BY <2>1, <2>2, <2>3 DEF SlotOK
<1>8. Len(Filled(f)) = Len(Goal[f]) /\ AsReleased(Filled(f), f)
  <2>1. Goal[f] \in Seq(Nat)
    BY <1>1, <1>5, ReleaseForm DEF TypesOK, Goal, Files
  <2>2. Filled(f) = [i \in 1..Len(Goal[f]) |-> Filled(f)[i]]
    BY <2>1 DEF Filled
  <2>3. Len(Filled(f)) = Len(Goal[f])
    <3> DEFINE F(i) == Filled(f)[i]
               n == Len(Goal[f])
    <3>1. n \in Nat /\ Filled(f) = [i \in 1..n |-> F(i)]
      BY <2>1, <2>2
    <3> HIDE DEF F, n
    <3>2. Len(Filled(f)) = n
      BY <3>1
    <3> QED
      BY <3>2 DEF n
  <2> QED
    BY <1>7, <2>3 DEF AsReleased
<1>9. AppliedOK'
  <2>1. \A g \in DOMAIN plan \ todo' : AsReleased(staged'[g], g)
    <3> SUFFICES ASSUME NEW g \in DOMAIN plan \ todo'  PROVE AsReleased(staged'[g], g)
      OBVIOUS
    <3>1. CASE g = f
      BY <1>4, <1>8, <3>1
    <3>2. CASE g # f
      <4>1. AsReleased(staged[g], g)
        BY <1>1, <1>2, <3>2 DEF AppliedOK
      <4> QED
        BY <1>4, <1>6, <3>2, <4>1
    <3> QED
      BY <3>1, <3>2
  <2> QED
    BY <1>2, <1>3, <2>1 DEF AppliedOK, AsReleased
<1>10. LandedOK'
  <2>1. \A p \in Remotes : SlotOK(p)'
    <3> SUFFICES ASSUME NEW p \in Remotes
                 PROVE  staged'[p[1]][p[2]] = Goal[p[1]][p[2]] \/ p \in assumed
      BY <1>2, <1>3 DEF SlotOK
    <3>1. p = <<p[1], p[2]>> /\ p[1] \in DOMAIN plan /\ p[2] \in DOMAIN Goal[p[1]]
      BY <1>1, RemoteForm
    <3>2. staged[p[1]][p[2]] = Goal[p[1]][p[2]] \/ p \in assumed
      BY <1>1, <1>2 DEF LandedOK, SlotOK
    <3>3. CASE p[1] = f
      BY <1>4, <1>7, <3>1, <3>3
    <3>4. CASE p[1] # f
      BY <1>4, <1>6, <3>1, <3>2, <3>4
    <3> QED
      BY <3>3, <3>4
  <2> QED
    BY <1>2, <1>3, <2>1 DEF LandedOK
<1> QED
  BY <1>9, <1>10

(* The files that were written are swapped in as they are. *)
LEMMA SwappedStep ==
  ASSUME WrittenInv, ApplyEnds \/ SwapFile \/ SwapEnds \/ RemoveFile \/ RemoveEnds
  PROVE  LandedOK' /\ AppliedOK'
<1>1. PlanOK /\ StagedOK /\ AppliedOK /\ BasicInv
  BY DEF WrittenInv, BasicInv
<1>2. UNCHANGED memory /\ assumed' = assumed
  BY DEF ApplyEnds, SwapFile, SwapEnds, RemoveFile, RemoveEnds, fetch
<1>3. /\ Goal' = Goal /\ plan' = plan
      /\ \A content, f : AsReleased(content, f)' = AsReleased(content, f)
  <2>1. Goal' = Goal /\ plan' = plan
    BY <1>2, SameMemory
  <2> QED
    BY <1>2, <2>1 DEF AsReleased
<1>4. CASE ApplyEnds
  <2>1. step = "apply" /\ step' = "swap" /\ todo = {} /\ todo' = DOMAIN plan /\ staged' = staged
    BY <1>4 DEF ApplyEnds, disk
  <2> QED
    BY <1>1, <1>3, <2>1 DEF LandedOK, AppliedOK, StagedOK
<1>5. CASE SwapFile
  <2> DEFINE f == Min(todo)
  <2>1. step = "swap" /\ step' = "swap" /\ todo' = todo \ {f}
    BY <1>5 DEF SwapFile
  <2>2. /\ f \in todo
        /\ DOMAIN live' = DOMAIN live \cup {f} /\ live'[f] = staged[f]
        /\ \A g \in DOMAIN live \ {f} : live'[g] = live[g]
        /\ DOMAIN staged' = DOMAIN staged \ {f}
        /\ \A g \in DOMAIN staged \ {f} : staged'[g] = staged[g]
    BY <1>1, <1>5, SwapStep
  <2> HIDE DEF f
  <2>3. /\ \A g \in todo : g \in DOMAIN staged /\ AsReleased(staged[g], g)
        /\ \A g \in DOMAIN plan \ todo : g \in DOMAIN live /\ AsReleased(live[g], g)
    BY <1>1, <2>1 DEF AppliedOK
  <2>4. \A g \in todo' : g \in DOMAIN staged' /\ AsReleased(staged'[g], g)
    BY <2>1, <2>2, <2>3
  <2>5. \A g \in DOMAIN plan \ todo' : g \in DOMAIN live' /\ AsReleased(live'[g], g)
    BY <2>1, <2>2, <2>3
  <2> QED
    BY <1>3, <2>1, <2>4, <2>5 DEF LandedOK, AppliedOK
<1>6. CASE SwapEnds
  <2>1. step = "swap" /\ step' = "remove" /\ todo = {} /\ live' = live
    BY <1>6 DEF SwapEnds, disk
  <2> QED
    BY <1>1, <1>3, <2>1 DEF LandedOK, AppliedOK
<1>7. CASE RemoveFile
  <2>1. step = "remove" /\ step' = "remove"
    BY <1>7 DEF RemoveFile
  <2>2. /\ Min(todo) \notin DOMAIN Goal
        /\ DOMAIN live \ {Min(todo)} \subseteq DOMAIN live'
        /\ \A g \in DOMAIN live' : live'[g] = live[g]
    BY <1>1, <1>7, RemoveStep
  <2>3. DOMAIN plan \subseteq DOMAIN Goal
    BY <1>1 DEF PlanOK
  <2> QED
    BY <1>1, <1>3, <2>1, <2>2, <2>3 DEF LandedOK, AppliedOK
<1>8. CASE RemoveEnds
  <2>1. step = "remove" /\ step' = "save" /\ live' = live
    BY <1>8 DEF RemoveEnds, disk
  <2> QED
    BY <1>1, <1>3, <2>1 DEF LandedOK, AppliedOK
<1> QED
  BY <1>4, <1>5, <1>6, <1>7, <1>8

(* What is written is right after every step. *)
LEMMA WrittenStep ==
  ASSUME WrittenInv, [InstallNext]_vars
  PROVE  WrittenInv'
<1>1. BasicInv /\ BasicInv'
  BY BasicStep DEF WrittenInv
<1>2. ASSUME NEW version \in target..Len(Releases), PlanUpdate(version) \/ PlanRepair(version)
      PROVE  WrittenInv'
  BY <1>1, <1>2, UpdateBegins, RepairBegins
<1>3. CASE StageFile
  <2>1. step' = "stage"
    BY <1>3 DEF StageFile
  <2> QED
    BY <1>1, <2>1 DEF WrittenInv, LandedOK, AppliedOK
<1>4. CASE StageNeedsNothing \/ FetchBegins \/ FetchEnds \/ WritePlacement
  BY <1>1, <1>4, LandedStep DEF WrittenInv
<1>5. ASSUME NEW d \in Wanted, PieceArrives(d)  PROVE WrittenInv'
  <2>1. /\ step = "fetch" /\ step' = "fetch" /\ writing' = Destinations(d)
        /\ UNCHANGED <<memory, staged, landed, assumed>>
    BY <1>5 DEF PieceArrives, disk
  <2>2. /\ Goal' = Goal /\ Remotes' = Remotes /\ Wanted' = Wanted
        /\ Destinations(d)' = Destinations(d)
    <3>1. Goal' = Goal /\ Remotes' = Remotes /\ Wanted' = Wanted
      BY <2>1, SameMemory
    <3> QED
      BY <3>1 DEF Destinations
  <2>3. \A p \in Remotes' : Goal'[p[1]][p[2]] \in landed' => SlotOK(p)'
    BY <2>1, <2>2 DEF WrittenInv, LandedOK, SlotOK
  <2>4. d \in Wanted' /\ writing' \subseteq Destinations(d)' /\ Destinations(d)' \ writing' = {}
    BY <2>1, <2>2
  <2>5. LandedOK'
    BY <2>1, <2>3, <2>4 DEF LandedOK
  <2> QED
    BY <1>1, <2>1, <2>5 DEF WrittenInv, AppliedOK
<1>6. CASE ApplyFile
  BY <1>1, <1>6, FilledStep DEF WrittenInv
<1>7. CASE ApplyEnds \/ SwapFile \/ SwapEnds \/ RemoveFile \/ RemoveEnds
  BY <1>1, <1>7, SwappedStep DEF WrittenInv
<1>8. CASE Save \/ Interrupt \/ StageTorn \/ WriteTorn
  BY <1>1, <1>8, EndStep
<1>9. ASSUME NEW f \in DOMAIN live, Edit(f)  PROVE WrittenInv'
  BY <1>1, <1>9, EditStep
<1>10. CASE UNCHANGED vars
  <2>1. UNCHANGED memory /\ UNCHANGED <<live, staged, step, todo, landed, writing, assumed>>
    BY <1>10 DEF vars, disk, memory, fetch
  <2>2. Goal' = Goal /\ Remotes' = Remotes /\ Wanted' = Wanted /\ plan' = plan
    BY <2>1, SameMemory
  <2>3. LandedOK'
    BY <2>1, <2>2 DEF WrittenInv, LandedOK, SlotOK, Destinations
  <2>4. AppliedOK'
    BY <2>1, <2>2 DEF WrittenInv, AppliedOK, AsReleased
  <2> QED
    BY <1>1, <2>3, <2>4 DEF WrittenInv
<1> QED
  BY <1>2, <1>3, <1>4, <1>5, <1>6, <1>7, <1>8, <1>9, <1>10 DEF InstallNext, Attempt

(* Nothing is written wrongly at first. *)
LEMMA WrittenInitially == InstallInit => WrittenInv /\ KeptOK
<1> SUFFICES ASSUME InstallInit  PROVE WrittenInv /\ KeptOK
  OBVIOUS
<1>1. step = "idle"
  BY DEF InstallInit
<1>2. LandedOK /\ AppliedOK /\ KeptOK
  BY <1>1 DEF LandedOK, AppliedOK, KeptOK, Idle
<1> QED
  BY <1>2, BasicInitially DEF WrittenInv

-----------------------------------------------------------------------------
(* Files that are not planned stay whole.                                  *)

(* No step of an attempt touches them. *)
LEMMA KeptStep ==
  ASSUME BasicInv, KeptOK, [InstallNext]_vars
  PROVE  KeptOK'
<1>1. TypesOK /\ PlanOK
  BY DEF BasicInv
<1>2. ASSUME NEW version \in target..Len(Releases), PlanUpdate(version) \/ PlanRepair(version)
      PROVE  KeptOK'
  <2>1. CASE PlanUpdate(version)
    BY <2>1, UpdateBegins DEF KeptOK
  <2>2. CASE PlanRepair(version)
    <3>1. removals' = {}
      BY <2>2 DEF PlanRepair
    <3> QED
      BY <2>2, <3>1, RepairBegins DEF KeptOK
  <2> QED
    BY <1>2, <2>1, <2>2
<1>3. CASE \/ StageFile \/ StageNeedsNothing \/ FetchBegins \/ FetchEnds \/ WritePlacement
           \/ (\E d \in Wanted : PieceArrives(d))
           \/ ApplyFile \/ ApplyEnds \/ SwapEnds \/ RemoveEnds
  <2>1. UNCHANGED memory /\ live' = live /\ ~Idle
    BY <1>3 DEF StageFile, StageNeedsNothing, FetchBegins, FetchEnds, WritePlacement, PieceArrives,
                ApplyFile, ApplyEnds, SwapEnds, RemoveEnds, disk, Idle
  <2>2. Goal' = Goal /\ plan' = plan /\ removals' = removals
    BY <2>1, SameMemory
  <2> QED
    BY <2>1, <2>2 DEF KeptOK
<1>4. CASE SwapFile
  <2>1. UNCHANGED memory /\ step = "swap" /\ todo \subseteq DOMAIN plan
    BY <1>1, <1>4 DEF SwapFile, PlanOK
  <2>2. Goal' = Goal /\ plan' = plan /\ removals' = removals
    BY <2>1, SameMemory
  <2>3. /\ Min(todo) \in todo /\ DOMAIN live' = DOMAIN live \cup {Min(todo)}
        /\ \A g \in DOMAIN live \ {Min(todo)} : live'[g] = live[g]
    BY <1>4, SwapStep
  <2> QED
    BY <2>1, <2>2, <2>3 DEF KeptOK, Idle
<1>5. CASE RemoveFile
  <2>1. UNCHANGED memory /\ step = "remove"
    BY <1>5 DEF RemoveFile
  <2>2. Goal' = Goal /\ plan' = plan /\ removals' = removals
    BY <2>1, SameMemory
  <2>3. /\ Min(todo) \notin DOMAIN Goal
        /\ DOMAIN live \ {Min(todo)} \subseteq DOMAIN live'
        /\ \A g \in DOMAIN live' : live'[g] = live[g]
    BY <1>5, RemoveStep
  <2> QED
    BY <2>1, <2>2, <2>3 DEF KeptOK, Idle
<1>6. CASE Save \/ Interrupt \/ StageTorn \/ WriteTorn
  BY <1>6, EndStep
<1>7. ASSUME NEW f \in DOMAIN live, Edit(f)  PROVE KeptOK'
  BY <1>7, EditStep
<1>8. CASE UNCHANGED vars
  <2>1. UNCHANGED memory /\ live' = live /\ step' = step
    BY <1>8 DEF vars, disk, memory
  <2>2. Goal' = Goal /\ plan' = plan /\ removals' = removals
    BY <2>1, SameMemory
  <2> QED
    BY <2>1, <2>2 DEF KeptOK, Idle
<1> QED
  BY <1>2, <1>3, <1>4, <1>5, <1>6, <1>7, <1>8 DEF InstallNext, Attempt

(* Both, for every behaviour. *)
LEMMA WrittenAlways == InstallSpec => [](WrittenInv /\ KeptOK)
<1>1. WrittenInv /\ KeptOK /\ [InstallNext]_vars => WrittenInv' /\ KeptOK'
  BY WrittenStep, KeptStep DEF WrittenInv
<1> QED
  BY <1>1, WrittenInitially, PTL DEF InstallSpec

(* What InstallService::RunInstall_ records as installed is in the folder as the manifest has it,
   whatever attempts that ended anywhere left behind. What a failed copy of the live file should have
   brought is not, nor a piece that the check of a resumed fetch found at its first destination only:
   SavedContentIsWhole names both. *)
THEOREM RecordedContentIsWhole == InstallSpec => []SavedContentIsWhole
<1>1. WrittenInv /\ KeptOK => SavedContentIsWhole
  <2> SUFFICES ASSUME WrittenInv, KeptOK, step = "save",
                      NEW f \in DOMAIN Goal, f \in DOMAIN plan \/ Goal[f] # <<>>
               PROVE  f \in DOMAIN live /\ AsReleased(live[f], f)
    BY DEF SavedContentIsWhole
  <2>1. CASE f \in DOMAIN plan
    BY <2>1 DEF WrittenInv, AppliedOK
  <2>2. CASE f \notin DOMAIN plan
    <3>1. f \in DOMAIN live /\ live[f] = Goal[f]
      BY <2>2 DEF KeptOK, Idle
    <3> QED
      BY <3>1 DEF AsReleased
  <2> QED
    BY <2>1, <2>2
<1> QED
  BY <1>1, WrittenAlways, PTL

(* During an attempt a live file is replaced only by the release's, whole, and one is removed only
   once the release is in place (ContentInstaller::Materialise_). *)
THEOREM LiveFilesStayWhole == InstallSpec => LiveFilesChangeWhole
<1> DEFINE Whole ==
      ~Idle => \A f \in DOMAIN live \cup DOMAIN live' :
       \/ f \in DOMAIN live /\ f \in DOMAIN live' /\ live'[f] = live[f]
       \/ f \in DOMAIN live' \cap DOMAIN Goal /\ AsReleased(live'[f], f)
       \/ f \notin DOMAIN live' \cup DOMAIN Goal /\ \A g \in DOMAIN Goal : g \in DOMAIN live
<1>1. ASSUME WrittenInv, KeptOK, [InstallNext]_vars  PROVE [Whole]_live
  <2>1. BasicInv /\ AppliedOK /\ PlanOK
    BY <1>1 DEF WrittenInv, BasicInv
  <2>2. CASE Idle \/ live' = live
    BY <2>2
  <2>3. CASE SwapFile
    <3>1. step = "swap" /\ DOMAIN plan \subseteq DOMAIN Goal /\ todo \subseteq DOMAIN plan
      BY <2>1, <2>3 DEF SwapFile, PlanOK
    <3>2. /\ Min(todo) \in todo
          /\ DOMAIN live' = DOMAIN live \cup {Min(todo)} /\ live'[Min(todo)] = staged[Min(todo)]
          /\ \A g \in DOMAIN live \ {Min(todo)} : live'[g] = live[g]
      BY <2>1, <2>3, SwapStep
    <3>3. AsReleased(staged[Min(todo)], Min(todo))
      BY <2>1, <3>1, <3>2 DEF AppliedOK
    <3> QED
      BY <3>1, <3>2, <3>3
  <2>4. CASE RemoveFile
    <3>1. step = "remove"
      BY <2>4 DEF RemoveFile
    <3>2. /\ Min(todo) \notin DOMAIN Goal
          /\ DOMAIN live' \subseteq DOMAIN live /\ DOMAIN live \ {Min(todo)} \subseteq DOMAIN live'
          /\ \A g \in DOMAIN live' : live'[g] = live[g]
      BY <2>1, <2>4, RemoveStep
    <3>3. \A g \in DOMAIN Goal : g \in DOMAIN live
      <4>1. removals # {}
        BY <2>1, <2>4, <3>1 DEF RemoveFile, PlanOK
      <4> QED
        BY <1>1, <2>1, <3>1, <4>1 DEF AppliedOK, KeptOK, Idle
    <3> QED
      BY <3>2, <3>3
  <2>5. Idle \/ live' = live \/ SwapFile \/ RemoveFile
    <3>1. CASE \E version \in target..Len(Releases) : PlanUpdate(version) \/ PlanRepair(version)
      BY <3>1 DEF PlanUpdate, PlanRepair, BeginAttempt
    <3>2. CASE \E f \in DOMAIN live : Edit(f)
      BY <3>2 DEF Edit
    <3>3. CASE Save \/ Interrupt \/ StageTorn \/ WriteTorn
      BY <2>1, <3>3, EndStep
    <3>4. CASE \/ StageFile \/ StageNeedsNothing \/ FetchBegins \/ FetchEnds \/ WritePlacement
               \/ (\E d \in Wanted : PieceArrives(d))
               \/ ApplyFile \/ ApplyEnds \/ SwapEnds \/ RemoveEnds
      BY <3>4 DEF StageFile, StageNeedsNothing, FetchBegins, FetchEnds, WritePlacement,
         PieceArrives,
                  ApplyFile, ApplyEnds, SwapEnds, RemoveEnds, disk
    <3>5. CASE UNCHANGED vars
      BY <3>5 DEF vars, disk
    <3>6. CASE SwapFile \/ RemoveFile
      BY <3>6
    <3> QED
      BY <1>1, <3>1, <3>2, <3>3, <3>4, <3>5, <3>6 DEF InstallNext, Attempt
  <2> QED
    BY <2>2, <2>3, <2>4, <2>5
<1> QED
  BY <1>1, WrittenAlways, PTL DEF InstallSpec, LiveFilesChangeWhole

-----------------------------------------------------------------------------
(* The updates *)

PartStates == {"none", "torn", "whole"}
PartFiles  == [state : PartStates, release : Nat]

UpdatePlaces   == {"idle", "check", "open", "receive", "retired", "relaunch", "install", "forward",
             "open_proxy", "proxy", "mods", "mark", "write_mark"}
Statuses == {"idle", "checking", "failed", "current", "available", "downloading", "ready"}

UpdatesTypeOK ==
  /\ latest \in [Parts -> Nat] /\ available \in [Parts -> Nat]
  /\ executable \in [current : PartFiles, staged : PartFiles, retired : PartFiles]
  /\ game \in [proxy : PartFiles, forward : PartFiles, staged : PartFiles]
  /\ running \in Nat /\ marker \in Nat
  /\ place \in [Parts -> UpdatePlaces] /\ status \in [Parts -> Statuses]

(* A swap has a whole file to put in place and one to put back.            *)
SwapOK ==
  /\ status["program"] = "ready" =>
       /\ place["program"] \in {"idle", "retired", "relaunch"}
       /\ executable.staged.state \in {"whole", "none"}
  /\ place["program"] = "retired" =>
       /\ status["program"] = "ready"
       /\ executable.staged.state = "whole" /\ executable.retired.state = "whole"
  /\ ProgramCanStart

(* What is staged and what is offered is newer than what runs.             *)
ForwardOK ==
  /\ place["program"] = "check" => status["program"] = "checking"
  /\ place["program"] \in {"open", "receive"} => status["program"] = "downloading"
  /\ place["program"] = "retired" => status["program"] = "ready"
  /\ status["program"] = "ready" => place["program"] \in {"idle", "retired", "relaunch"}
  /\ status["program"] \in {"available", "downloading", "ready"} =>
       available["program"] >= running
  /\ status["program"] = "ready" /\ executable.staged.state = "whole" =>
       executable.staged.release >= running
  /\ place["program"] = "retired" /\ executable.retired.state = "whole" =>
       executable.retired.release >= running
  /\ UpdatesGoForward

Installing == {"open", "receive", "install", "forward", "open_proxy", "proxy", "mods", "mark", "write_mark"}

PatchInPlace(release) == game.proxy = File("whole", release) /\ game.forward.state = "whole"

(* The marker names what is in place, or a release older than the newest   *)
(* one, and an installation is of a release newer than the marker's.       *)
PatchOK ==
  /\ marker <= latest["patcher"] /\ available["patcher"] <= latest["patcher"]
  /\ marker > 0 => PatchInPlace(marker) \/ marker < latest["patcher"]
  /\ status["patcher"] = "current" => place["patcher"] = "idle"
  /\ status["patcher"] = "available" => marker < available["patcher"]
  /\ place["patcher"] \in Installing => marker < available["patcher"]
  /\ place["patcher"] \in {"install", "forward", "open_proxy", "proxy"} =>
       game.staged = File("whole", available["patcher"])
  /\ place["patcher"] \in {"open_proxy", "proxy"} => game.forward.state = "whole"
  /\ place["patcher"] \in {"mods", "mark", "write_mark"} => PatchInPlace(available["patcher"])
  /\ CurrentIsInstalled

(* What a download leaves of a file is one of its states.                  *)
LEMMA PartForms == \A a : FileAfter(a) \in PartStates /\ Opened \in PartStates
BY DEF FileAfter, Opened, PartStates

(* A file is a state with a release.                                       *)
LEMMA UpdateFiles ==
  /\ NoFile \in PartFiles /\ Torn \in PartFiles /\ NoFile.state = "none" /\ Torn.state = "torn"
  /\ \A a, r : r \in Nat => File(FileAfter(a), r) \in PartFiles
  /\ \A r \in Nat : /\ File("whole", r) \in PartFiles
                    /\ File("whole", r).state = "whole" /\ File("whole", r).release = r
<1>1. \A s \in PartStates, r \in Nat :
        File(s, r) \in PartFiles /\ File(s, r).state = s /\ (s = "whole" => File(s, r).release = r)
  BY DEF File, PartFiles
<1>2. {"none", "torn", "whole"} \subseteq PartStates
  BY DEF PartStates
<1> QED
  BY <1>1, <1>2, PartForms DEF NoFile, Torn

(* A program that starts finds whole files only, and forgets what it knew. *)
LEMMA StartForms ==
  ASSUME UpdatesTypeOK, NEW d, Starts(d)
  PROVE  /\ executable' \in [current : PartFiles, staged : PartFiles, retired : PartFiles]
         /\ executable'.current = executable.current /\ executable.current.state = "whole"
         /\ executable'.staged = executable.staged
         /\ running' = executable.current.release /\ running' \in Nat
         /\ place' \in [Parts -> UpdatePlaces] /\ status' \in [Parts -> Statuses]
         /\ available' \in [Parts -> Nat]
         /\ \A s \in Parts : place'[s] = "idle" /\ status'[s] = "idle" /\ available'[s] = 0
<1>1. executable \in [current : PartFiles, staged : PartFiles, retired : PartFiles]
  BY DEF UpdatesTypeOK
<1>2. executable' = executable \/ executable' = [executable EXCEPT !.retired = NoFile]
  BY DEF Starts
<1>3. /\ executable' \in [current : PartFiles, staged : PartFiles, retired : PartFiles]
      /\ executable'.current = executable.current /\ executable'.staged = executable.staged
  BY <1>1, <1>2, UpdateFiles
<1>4. executable.current.release \in Nat
  BY <1>1 DEF PartFiles
<1> QED
  BY <1>3, <1>4 DEF Starts, UpdatePlaces, Statuses

(* What is staged is one of the files a download leaves.                   *)
LEMMA StagesForm ==
  ASSUME UpdatesTypeOK, NEW s \in Parts, NEW f \in PartFiles, Stages(s, f)
  PROVE  /\ executable' \in [current : PartFiles, staged : PartFiles, retired : PartFiles]
         /\ game' \in [proxy : PartFiles, forward : PartFiles, staged : PartFiles]
         /\ running' = running /\ marker' = marker
         /\ executable'.current = executable.current /\ executable'.retired = executable.retired
         /\ game'.proxy = game.proxy /\ game'.forward = game.forward
         /\ s = "program" => executable'.staged = f /\ game' = game
         /\ s = "patcher" => executable' = executable /\ game'.staged = f
<1>1. /\ executable \in [current : PartFiles, staged : PartFiles, retired : PartFiles]
      /\ game \in [proxy : PartFiles, forward : PartFiles, staged : PartFiles]
  BY DEF UpdatesTypeOK
<1>2. CASE s = "program"
  BY <1>1, <1>2 DEF Stages, patcherVars
<1>3. CASE s # "program"
  BY <1>1, <1>3 DEF Stages, programVars
<1> QED
  BY <1>2, <1>3

(* The step a service goes to, and what it shows at its end.               *)
LEMMA StepForms ==
  ASSUME UpdatesTypeOK, NEW s \in Parts
  PROVE  /\ \A next \in UpdatePlaces : Goes(s, next) =>
              /\ place' \in [Parts -> UpdatePlaces] /\ place'[s] = next
              /\ \A t \in Parts \ {s} : place'[t] = place[t]
              /\ UNCHANGED <<status, available>>
         /\ \A shown \in Statuses : Ends(s, shown) =>
              /\ place' \in [Parts -> UpdatePlaces] /\ place'[s] = "idle"
              /\ status' \in [Parts -> Statuses] /\ status'[s] = shown
              /\ \A t \in Parts \ {s} : place'[t] = place[t] /\ status'[t] = status[t]
<1>1. place \in [Parts -> UpdatePlaces] /\ status \in [Parts -> Statuses] /\ "idle" \in UpdatePlaces
  BY DEF UpdatesTypeOK, UpdatePlaces
<1> QED
  BY <1>1 DEF Goes, Ends

(* What the window does with the executable.                               *)
SwapTypes ==
  /\ executable' \in [current : PartFiles, staged : PartFiles, retired : PartFiles]
  /\ running' \in Nat
  /\ place' \in [Parts -> UpdatePlaces] /\ status' \in [Parts -> Statuses]
  /\ available' \in [Parts -> Nat]

(* The steps around the executable keep the types of what is on disk and of what runs. *)
LEMMA SwapTypeStep ==
  ASSUME UpdatesTypeOK, Retire \/ PutInPlace \/ Relaunch \/ Crash \/ StagedVanishes
  PROVE  SwapTypes
<1>1. /\ executable \in [current : PartFiles, staged : PartFiles, retired : PartFiles]
      /\ running \in Nat /\ available \in [Parts -> Nat]
      /\ place \in [Parts -> UpdatePlaces] /\ status \in [Parts -> Statuses]
      /\ "program" \in Parts /\ {"retired", "relaunch", "idle"} \subseteq UpdatePlaces
      /\ "failed" \in Statuses
  BY DEF UpdatesTypeOK, Parts, UpdatePlaces, Statuses
<1>2. CASE Retire
  <2>1. executable' \in [current : PartFiles, staged : PartFiles, retired : PartFiles]
    BY <1>1, <1>2, UpdateFiles DEF Retire
  <2>2. /\ Goes("program", "retired") \/ Ends("program", "failed")
        /\ running' = running /\ available' = available
    BY <1>2 DEF Retire
  <2>3. place' \in [Parts -> UpdatePlaces] /\ status' \in [Parts -> Statuses]
    BY <1>1, <2>2, StepForms DEF Goes
  <2> QED
    BY <1>1, <2>1, <2>2, <2>3 DEF SwapTypes
<1>3. CASE PutInPlace
  <2>1. executable' \in [current : PartFiles, staged : PartFiles, retired : PartFiles]
    BY <1>1, <1>3, UpdateFiles DEF PutInPlace, Restored
  <2>2. /\ Goes("program", "relaunch") \/ Ends("program", "failed")
        /\ running' = running /\ available' = available
    BY <1>3 DEF PutInPlace
  <2>3. place' \in [Parts -> UpdatePlaces] /\ status' \in [Parts -> Statuses]
    BY <1>1, <2>2, StepForms DEF Goes
  <2> QED
    BY <1>1, <2>1, <2>2, <2>3 DEF SwapTypes
<1>4. CASE Relaunch
  <2>1. CASE \E d \in BOOLEAN : Starts(d)
    BY <2>1, StartForms DEF SwapTypes
  <2>2. CASE Ends("program", "failed") /\ UNCHANGED <<programVars, available>>
    BY <1>1, <2>2, StepForms DEF SwapTypes, programVars
  <2> QED
    BY <1>4, <2>1, <2>2 DEF Relaunch
<1>5. CASE Crash
  <2>1. CASE Starts(TRUE)
    BY <2>1, StartForms DEF SwapTypes
  <2>2. CASE /\ running' = 0 /\ place' = [s \in Parts |-> "idle"]
             /\ UNCHANGED <<executable, image, status, available>>
    BY <1>1, <2>2 DEF SwapTypes
  <2> QED
    BY <1>5, <2>1, <2>2 DEF Crash
<1>6. CASE StagedVanishes
  <2>1. executable' \in [current : PartFiles, staged : PartFiles, retired : PartFiles]
    BY <1>1, <1>6, UpdateFiles DEF StagedVanishes
  <2> QED
    BY <1>1, <1>6, <2>1 DEF StagedVanishes, SwapTypes, stepVars
<1> QED
  BY <1>2, <1>3, <1>4, <1>5, <1>6

(* What is installed into the game's folder.                               *)
GameTypes ==
  /\ game' \in [proxy : PartFiles, forward : PartFiles, staged : PartFiles]
  /\ marker' \in Nat
  /\ place' \in [Parts -> UpdatePlaces] /\ status' \in [Parts -> Statuses]
  /\ UNCHANGED <<latest, available, executable, running>>

PatcherStep ==
  \/ InstallFails \/ OpenForward \/ CopyForward \/ OpenProxy \/ CopyProxy \/ MakeMods
  \/ OpenMarker \/ WriteMarker

(* The patcher's step keeps the types of the game's library and of its marker. *)
LEMMA GameTypeStep ==
  ASSUME UpdatesTypeOK, PatcherStep
  PROVE  GameTypes
<1>1. /\ game \in [proxy : PartFiles, forward : PartFiles, staged : PartFiles] /\ marker \in Nat
      /\ available \in [Parts -> Nat]
      /\ "patcher" \in Parts /\ {"forward", "open_proxy", "proxy", "mods", "mark", "write_mark"} \subseteq UpdatePlaces
      /\ {"failed", "current"} \subseteq Statuses
  BY DEF UpdatesTypeOK, Parts, UpdatePlaces, Statuses
<1>2. ASSUME NEW next \in UpdatePlaces, Goes("patcher", next) \/ Ends("patcher", "failed") \/ Ends("patcher", "current")
      PROVE  place' \in [Parts -> UpdatePlaces] /\ status' \in [Parts -> Statuses]
  BY <1>1, <1>2, StepForms DEF UpdatesTypeOK
<1> USE DEF webVars, programVars
<1>3. CASE InstallFails
  <2>1. game' \in [proxy : PartFiles, forward : PartFiles, staged : PartFiles]
    BY <1>1, <1>3, UpdateFiles DEF InstallFails
  <2> QED
    BY <1>1, <1>2, <1>3, <2>1 DEF InstallFails, GameTypes
<1>4. ASSUME NEW from, NEW to \in UpdatePlaces, NEW changed \in [proxy : PartFiles, forward : PartFiles, staged : PartFiles],
             Copies(from, to, changed)
      PROVE  GameTypes
  <2>1. place' \in [Parts -> UpdatePlaces] /\ status' \in [Parts -> Statuses]
    BY <1>2, <1>4 DEF Copies
  <2> QED
    BY <1>1, <1>4, <2>1 DEF Copies, GameTypes, Goes
<1>5. CASE OpenForward \/ CopyForward \/ OpenProxy \/ CopyProxy \/ MakeMods
  <2>1. /\ [game EXCEPT !.forward = Torn] \in [proxy : PartFiles, forward : PartFiles, staged : PartFiles]
        /\ [game EXCEPT !.forward = File("whole", 1)] \in [proxy : PartFiles, forward : PartFiles, staged : PartFiles]
        /\ [game EXCEPT !.proxy = Torn] \in [proxy : PartFiles, forward : PartFiles, staged : PartFiles]
        /\ [game EXCEPT !.proxy = game.staged] \in [proxy : PartFiles, forward : PartFiles, staged : PartFiles]
        /\ [game EXCEPT !.staged = NoFile] \in [proxy : PartFiles, forward : PartFiles, staged : PartFiles]
    BY <1>1, UpdateFiles
  <2> QED
    BY <1>1, <1>4, <1>5, <2>1 DEF OpenForward, CopyForward, OpenProxy, CopyProxy, MakeMods
<1>6. CASE OpenMarker
  <2>1. place' \in [Parts -> UpdatePlaces] /\ status' \in [Parts -> Statuses]
    BY <1>1, <1>2, <1>6 DEF OpenMarker
  <2> QED
    BY <1>1, <1>6, <2>1 DEF OpenMarker, GameTypes, Goes
<1>7. CASE WriteMarker
  <2>1. place' \in [Parts -> UpdatePlaces] /\ status' \in [Parts -> Statuses]
    BY <1>1, <1>2, <1>7 DEF WriteMarker
  <2> QED
    BY <1>1, <1>7, <2>1 DEF WriteMarker, GameTypes
<1> QED
  BY <1>3, <1>5, <1>6, <1>7 DEF PatcherStep

(* What checking and downloading do for a service: it goes to a step, or   *)
(* ends and shows what it came to.                                         *)
LEMMA CheckStep ==
  ASSUME UpdatesTypeOK, NEW s \in Parts, Check(s)
  PROVE  /\ UpdatesTypeOK' /\ UNCHANGED <<latest, executable, game, running, marker, available>>
         /\ place[s] = "idle" /\ place'[s] = "check" /\ status'[s] = "checking"
         /\ \A t \in Parts \ {s} : place'[t] = place[t] /\ status'[t] = status[t]
BY DEF UpdatesTypeOK, Check, At, UpdatePlaces, Statuses, webVars, programVars, patcherVars

(* The begin of a download touches one service's place and status, and only what is available is
   downloaded. *)
LEMMA DownloadStep ==
  ASSUME UpdatesTypeOK, NEW s \in Parts, StartDownload(s)
  PROVE  /\ UpdatesTypeOK' /\ UNCHANGED <<latest, executable, game, running, marker, available>>
         /\ status[s] = "available"
         /\ place[s] = "idle" /\ place'[s] = "open" /\ status'[s] = "downloading"
         /\ \A t \in Parts \ {s} : place'[t] = place[t] /\ status'[t] = status[t]
BY DEF UpdatesTypeOK, StartDownload, At, UpdatePlaces, Statuses, webVars, programVars, patcherVars

(* The program's check offers what is newer than what runs.                *)
LEMMA ProgramCheckStep ==
  ASSUME UpdatesTypeOK, ProgramIsChecked
  PROVE  /\ UpdatesTypeOK' /\ UNCHANGED <<latest, executable, game, running, marker>>
         /\ place["program"] = "check" /\ place'["program"] = "idle"
         /\ place'["patcher"] = place["patcher"] /\ status'["patcher"] = status["patcher"]
         /\ available'["patcher"] = available["patcher"]
         /\ \/ status'["program"] \in {"failed", "current"}
            \/ status'["program"] = "available" /\ available'["program"] >= running
<1>1. latest \in [Parts -> Nat] /\ available \in [Parts -> Nat] /\ running \in Nat /\ "program" \in Parts
      /\ "patcher" \in Parts \ {"program"} /\ {"failed", "current", "available"} \subseteq Statuses
  BY DEF UpdatesTypeOK, Parts, Statuses
<1>2. PICK answer \in Answers(reachable) :
        \/ Found("program", answer) = 0 /\ Ends("program", "failed") /\ UNCHANGED available
        \/ Ends("program", "current") /\ available' = [available EXCEPT !["program"] = 0]
        \/ /\ Found("program", answer) > running
           /\ Ends("program", "available")
           /\ available' = [available EXCEPT !["program"] = Found("program", answer)]
  BY DEF ProgramIsChecked
<1>3. Found("program", answer) \in Nat
  BY <1>1 DEF Found
<1>4. UNCHANGED <<latest, executable, game, running, marker>> /\ place["program"] = "check"
  BY DEF ProgramIsChecked, webVars, programVars, patcherVars, At
<1>5. CASE Ends("program", "failed") /\ UNCHANGED available
  BY <1>1, <1>4, <1>5, StepForms DEF UpdatesTypeOK
<1>6. CASE Ends("program", "current") /\ available' = [available EXCEPT !["program"] = 0]
  BY <1>1, <1>4, <1>6, StepForms DEF UpdatesTypeOK
<1>7. CASE /\ Found("program", answer) > running
           /\ Ends("program", "available")
           /\ available' = [available EXCEPT !["program"] = Found("program", answer)]
  <2>1. /\ available' \in [Parts -> Nat] /\ available'["program"] = Found("program", answer)
        /\ available'["patcher"] = available["patcher"]
    BY <1>1, <1>3, <1>7
  <2> QED
    BY <1>1, <1>3, <1>4, <1>7, <2>1, StepForms DEF UpdatesTypeOK
<1> QED
  BY <1>2, <1>5, <1>6, <1>7

(* The patcher's check finds the newest release, and compares the marker.  *)
LEMMA PatcherCheckStep ==
  ASSUME UpdatesTypeOK, PatcherIsChecked
  PROVE  /\ UpdatesTypeOK' /\ UNCHANGED <<latest, executable, game, running, marker>>
         /\ place["patcher"] = "check" /\ place'["patcher"] = "idle"
         /\ place'["program"] = place["program"] /\ status'["program"] = status["program"]
         /\ available'["program"] = available["program"]
         /\ \/ status'["patcher"] = "failed" /\ available' = available
            \/ /\ available'["patcher"] = latest["patcher"] /\ latest["patcher"] > 0
               /\ \/ status'["patcher"] = "current" /\ marker = latest["patcher"]
                  \/ /\ status'["patcher"] = "available"
                     /\ game.proxy.state = "none" \/ marker # latest["patcher"]
<1>1. latest \in [Parts -> Nat] /\ available \in [Parts -> Nat] /\ "patcher" \in Parts
      /\ "program" \in Parts \ {"patcher"} /\ {"failed", "current", "available"} \subseteq Statuses
  BY DEF UpdatesTypeOK, Parts, Statuses
<1>2. PICK answer \in Answers(reachable) :
        \/ Found("patcher", answer) = 0 /\ Ends("patcher", "failed") /\ UNCHANGED available
        \/ /\ Found("patcher", answer) > 0
           /\ available' = [available EXCEPT !["patcher"] = Found("patcher", answer)]
           /\ Ends("patcher", IF game.proxy.state # "none" /\ marker = Found("patcher", answer)
                              THEN "current" ELSE "available")
  BY DEF PatcherIsChecked
<1>3. UNCHANGED <<latest, executable, game, running, marker>> /\ place["patcher"] = "check"
  BY DEF PatcherIsChecked, webVars, programVars, patcherVars, At
<1>4. CASE Ends("patcher", "failed") /\ UNCHANGED available
  BY <1>1, <1>3, <1>4, StepForms DEF UpdatesTypeOK
<1>5. CASE Found("patcher", answer) > 0 /\ ~(Ends("patcher", "failed") /\ UNCHANGED available)
  <2>1. Found("patcher", answer) = latest["patcher"] /\ latest["patcher"] > 0
    BY <1>5 DEF Found
  <2>2. /\ available' \in [Parts -> Nat] /\ available'["patcher"] = latest["patcher"]
        /\ available'["program"] = available["program"]
    BY <1>1, <1>2, <1>5, <2>1
  <2>3. CASE game.proxy.state # "none" /\ marker = latest["patcher"]
    <3>1. Ends("patcher", "current")
      BY <1>2, <1>5, <2>1, <2>3
    <3> QED
      BY <1>1, <1>3, <2>1, <2>2, <2>3, <3>1, StepForms DEF UpdatesTypeOK
  <2>4. CASE ~(game.proxy.state # "none" /\ marker = latest["patcher"])
    <3>1. Ends("patcher", "available")
      BY <1>2, <1>5, <2>1, <2>4
    <3> QED
      BY <1>1, <1>3, <2>1, <2>2, <2>4, <3>1, StepForms DEF UpdatesTypeOK
  <2> QED
    BY <2>3, <2>4
<1> QED
  BY <1>1, <1>2, <1>4, <1>5

(* A download changes the staged file of its service and nothing else.     *)
Others(s) ==
  /\ \A t \in Parts \ {s} : place'[t] = place[t] /\ status'[t] = status[t]
  /\ UNCHANGED <<latest, available, running, marker>>
  /\ executable'.current = executable.current /\ executable'.retired = executable.retired
  /\ game'.proxy = game.proxy /\ game'.forward = game.forward
  /\ s = "program" => game' = game
  /\ s = "patcher" => executable' = executable

(* Opening the staged file fails or leaves it torn.                        *)
LEMMA OpenStep ==
  ASSUME UpdatesTypeOK, NEW s \in Parts, OpenStaged(s)
  PROVE  /\ UpdatesTypeOK' /\ Others(s) /\ place[s] = "open"
         /\ \/ place'[s] = "receive" /\ status'[s] = status[s]
            \/ place'[s] = "idle" /\ status'[s] = "failed"
<1>1. {"receive", "idle"} \subseteq UpdatePlaces /\ "failed" \in Statuses /\ UNCHANGED latest /\ place[s] = "open"
  BY DEF UpdatePlaces, Statuses, OpenStaged, webVars, At
<1>2. CASE Goes(s, "receive") /\ Stages(s, Torn)
  <2>1. /\ place' \in [Parts -> UpdatePlaces] /\ place'[s] = "receive"
        /\ \A t \in Parts \ {s} : place'[t] = place[t]
        /\ UNCHANGED <<status, available>>
    BY <1>1, <1>2, StepForms
  <2>2. Torn \in PartFiles
    BY UpdateFiles
  <2>3. /\ executable' \in [current : PartFiles, staged : PartFiles, retired : PartFiles]
        /\ game' \in [proxy : PartFiles, forward : PartFiles, staged : PartFiles]
        /\ running' = running /\ marker' = marker
        /\ executable'.current = executable.current /\ executable'.retired = executable.retired
        /\ game'.proxy = game.proxy /\ game'.forward = game.forward
        /\ s = "program" => game' = game
        /\ s = "patcher" => executable' = executable
    BY <1>2, <2>2, StagesForm
  <2> QED
    BY <1>1, <2>1, <2>3 DEF UpdatesTypeOK, Others
<1>3. CASE Ends(s, "failed") /\ UNCHANGED <<available, programVars, patcherVars>>
  BY <1>1, <1>3, StepForms DEF UpdatesTypeOK, Others, programVars, patcherVars
<1> QED
  BY <1>2, <1>3 DEF OpenStaged

(* A download ends with nothing staged, or with a staged file, which is    *)
(* whole if its size is known.                                             *)
LEMMA ReceiveStep ==
  ASSUME UpdatesTypeOK, NEW s \in Parts, ReceivePackage(s)
  PROVE  /\ UpdatesTypeOK' /\ Others(s) /\ place[s] = "receive"
         /\ \/ place'[s] = "idle" /\ status'[s] = "failed"
            \/ /\ s = "program" /\ place'[s] = "idle" /\ status'[s] = "ready"
               /\ \E f \in PartStates : /\ executable'.staged = File(f, available[s])
                                        /\ Sized => f = "whole"
            \/ /\ s = "patcher" /\ place'[s] = "install" /\ status'[s] = status[s]
               /\ \E f \in PartStates : /\ game'.staged = File(f, available[s])
                                        /\ Sized => f = "whole"
<1>1. /\ {"install", "idle"} \subseteq UpdatePlaces /\ {"failed", "ready"} \subseteq Statuses
      /\ UNCHANGED latest /\ place[s] = "receive" /\ available[s] \in Nat
  BY DEF UpdatePlaces, Statuses, ReceivePackage, webVars, At, UpdatesTypeOK
<1>2. PICK answer \in Answers(reachable) :
        IF Refused(answer) THEN Stages(s, NoFile) /\ Ends(s, "failed") /\ UNCHANGED available
        ELSE /\ Stages(s, File(FileAfter(answer), available[s]))
             /\ IF s = "program" THEN Ends(s, "ready") /\ UNCHANGED available
                ELSE Goes(s, "install")
  BY DEF ReceivePackage
<1>3. ASSUME NEW f \in PartFiles, Stages(s, f), UNCHANGED <<status, available>>, 
             Goes(s, "install")
      PROVE  /\ UpdatesTypeOK' /\ Others(s) /\ place'[s] = "install" /\ status'[s] = status[s]
             /\ s = "patcher" => game'.staged = f
  <2>1. /\ place' \in [Parts -> UpdatePlaces] /\ place'[s] = "install"
        /\ \A t \in Parts \ {s} : place'[t] = place[t]
    BY <1>1, <1>3, StepForms
  <2>2. /\ executable' \in [current : PartFiles, staged : PartFiles, retired : PartFiles]
        /\ game' \in [proxy : PartFiles, forward : PartFiles, staged : PartFiles]
        /\ running' = running /\ marker' = marker
        /\ executable'.current = executable.current /\ executable'.retired = executable.retired
        /\ game'.proxy = game.proxy /\ game'.forward = game.forward
        /\ s = "program" => executable'.staged = f /\ game' = game
        /\ s = "patcher" => executable' = executable /\ game'.staged = f
    BY <1>3, StagesForm
  <2> QED
    BY <1>1, <1>3, <2>1, <2>2 DEF UpdatesTypeOK, Others
<1>4. ASSUME NEW f \in PartFiles, NEW shown \in Statuses, Stages(s, f), UNCHANGED available, Ends(s, shown)
      PROVE  /\ UpdatesTypeOK' /\ Others(s) /\ place'[s] = "idle" /\ status'[s] = shown
             /\ s = "program" => executable'.staged = f
  <2>1. /\ place' \in [Parts -> UpdatePlaces] /\ place'[s] = "idle"
        /\ status' \in [Parts -> Statuses] /\ status'[s] = shown
        /\ \A t \in Parts \ {s} : place'[t] = place[t] /\ status'[t] = status[t]
    BY <1>4, StepForms
  <2>2. /\ executable' \in [current : PartFiles, staged : PartFiles, retired : PartFiles]
        /\ game' \in [proxy : PartFiles, forward : PartFiles, staged : PartFiles]
        /\ running' = running /\ marker' = marker
        /\ executable'.current = executable.current /\ executable'.retired = executable.retired
        /\ game'.proxy = game.proxy /\ game'.forward = game.forward
        /\ s = "program" => executable'.staged = f /\ game' = game
        /\ s = "patcher" => executable' = executable /\ game'.staged = f
    BY <1>4, StagesForm
  <2> QED
    BY <1>1, <1>4, <2>1, <2>2 DEF UpdatesTypeOK, Others
<1>5. CASE Refused(answer)
  BY <1>1, <1>2, <1>4, <1>5, UpdateFiles
<1>6. CASE ~Refused(answer)
  <2>1. /\ FileAfter(answer) \in PartStates /\ (Sized => FileAfter(answer) = "whole")
        /\ File(FileAfter(answer), available[s]) \in PartFiles
    BY <1>1, <1>6, PartForms, UpdateFiles DEF Refused, Downloaded, Answers, FileAfter
  <2>2. CASE s = "program"
    BY <1>1, <1>2, <1>4, <1>6, <2>1, <2>2
  <2>3. CASE s = "patcher"
    <3>1. /\ Stages(s, File(FileAfter(answer), available[s])) /\ Goes(s, "install")
          /\ UNCHANGED <<status, available>>
      BY <1>2, <1>6, <2>3 DEF Goes
    <3> QED
      BY <1>1, <1>3, <2>1, <2>3, <3>1
  <2> QED
    BY <2>2, <2>3 DEF Parts
<1> QED
  BY <1>5, <1>6

(* The newest release changes; of a service that withdraws none, it grows. *)
LEMMA ReleaseStep ==
  ASSUME UpdatesTypeOK, NewRelease
  PROVE  /\ UpdatesTypeOK' /\ UNCHANGED <<executable, running, game, marker, place, status, available>>
         /\ \A s \in Parts \ Withdraws : latest'[s] >= latest[s]
<1>1. PICK s \in Parts, r \in 1..MaxRelease :
        /\ r > latest[s] \/ (s \in Withdraws /\ r < latest[s])
        /\ latest' = [latest EXCEPT ![s] = r]
  BY DEF NewRelease
<1>2. r \in Nat
  BY UpdateBounds
<1>3. UNCHANGED <<executable, running, game, marker, place, status, available>>
  BY DEF NewRelease, programVars, patcherVars, stepVars
<1>4. latest \in [Parts -> Nat]
  BY DEF UpdatesTypeOK
<1> QED
  BY <1>1, <1>2, <1>3, <1>4 DEF UpdatesTypeOK

(* The variables of the updates keep their types.                          *)
LEMMA UpdatesTypeStep ==
  UpdatesTypeOK /\ [UpdatesNext]_updateVars => UpdatesTypeOK'
<1> SUFFICES ASSUME UpdatesTypeOK, [UpdatesNext]_updateVars PROVE UpdatesTypeOK'
  OBVIOUS
<1>1. CASE \E s \in Parts : Check(s) \/ StartDownload(s) \/ OpenStaged(s) \/ ReceivePackage(s)
  BY <1>1, CheckStep, DownloadStep, OpenStep, ReceiveStep
<1>2. CASE ProgramIsChecked \/ PatcherIsChecked \/ NewRelease
  BY <1>2, ProgramCheckStep, PatcherCheckStep, ReleaseStep
<1>3. CASE Retire \/ PutInPlace \/ Relaunch \/ Crash \/ StagedVanishes
  <2>1. SwapTypes
    BY <1>3, SwapTypeStep
  <2>2. UNCHANGED <<latest, game, marker>>
    BY <1>3 DEF Retire, PutInPlace, Relaunch, Crash, StagedVanishes, webVars, patcherVars
  <2> QED
    BY <2>1, <2>2 DEF SwapTypes, UpdatesTypeOK
<1>4. CASE PatcherStep
  BY <1>4, GameTypeStep DEF GameTypes, UpdatesTypeOK
<1>5. CASE WebChanges \/ UNCHANGED updateVars
  BY <1>5 DEF WebChanges, updateVars, webVars, programVars, patcherVars, stepVars, UpdatesTypeOK
<1> QED
  BY <1>1, <1>2, <1>3, <1>4, <1>5 DEF UpdatesNext, PatcherStep

(* The patcher's installation leaves the program alone.                    *)
LEMMA PatcherIsApart ==
  ASSUME UpdatesTypeOK, PatcherStep
  PROVE  /\ place'["program"] = place["program"] /\ status'["program"] = status["program"]
         /\ UNCHANGED <<executable, running, available, latest>>
<1>1. place \in [Parts -> UpdatePlaces] /\ status \in [Parts -> Statuses] /\ {"program", "patcher"} = Parts
  BY DEF UpdatesTypeOK, Parts
<1>2. \/ \E next : Goes("patcher", next)
      \/ \E shown : Ends("patcher", shown)
  BY DEF PatcherStep, InstallFails, OpenForward, CopyForward, OpenProxy, CopyProxy, MakeMods,
     Copies,
         OpenMarker, WriteMarker
<1>3. UNCHANGED <<executable, running, available, latest>>
  BY GameTypeStep DEF GameTypes
<1> QED
  BY <1>1, <1>2, <1>3 DEF Goes, Ends

-----------------------------------------------------------------------------
(* The swap *)

(* Steps that leave the executable and the program's service as they are.  *)
LEMMA SwapUnchanged ==
  ASSUME SwapOK, UNCHANGED executable, place'["program"] = place["program"],
         status'["program"] = status["program"]
  PROVE  SwapOK'
BY DEF SwapOK, ProgramCanStart

(* With sizes listed and no luck as hard as a cut between the two renames, every step keeps a
   whole program to start. *)
LEMMA ProgramSwapStep ==
  ASSUME ~HardLuck, Sized, UpdatesTypeOK, SwapOK, [UpdatesNext]_updateVars
  PROVE  SwapOK'
<1>1. /\ executable \in [current : PartFiles, staged : PartFiles, retired : PartFiles]
      /\ place \in [Parts -> UpdatePlaces] /\ status \in [Parts -> Statuses]
      /\ "program" \in Parts /\ "patcher" \in Parts /\ "program" # "patcher"
  BY DEF UpdatesTypeOK, Parts
<1>2. ASSUME NEW s \in Parts, Check(s) \/ StartDownload(s)  PROVE SwapOK'
  <2>1. s = "program" \/ s = "patcher"
    BY DEF Parts
  <2>2. CASE s = "patcher"
    BY <1>1, <1>2, <2>2, CheckStep, DownloadStep, SwapUnchanged
  <2>3. CASE s = "program"
    BY <1>1, <1>2, <2>3, CheckStep, DownloadStep DEF SwapOK, ProgramCanStart
  <2> QED
    BY <2>1, <2>2, <2>3
<1>3. ASSUME NEW s \in Parts, OpenStaged(s)  PROVE SwapOK'
  <2>1. CASE s = "patcher"
    BY <1>1, <1>3, <2>1, OpenStep, SwapUnchanged DEF Others
  <2>2. CASE s = "program"
    BY <1>1, <1>3, <2>2, OpenStep DEF Others, SwapOK, ProgramCanStart
  <2> QED
    BY <2>1, <2>2 DEF Parts
<1>4. ASSUME NEW s \in Parts, ReceivePackage(s)  PROVE SwapOK'
  <2>1. CASE s = "patcher"
    BY <1>1, <1>4, <2>1, ReceiveStep, SwapUnchanged DEF Others
  <2>2. CASE s = "program"
    <3>1. available["program"] \in Nat
      BY DEF UpdatesTypeOK, Parts
    <3>2. /\ place["program"] = "receive" /\ place'["program"] = "idle"
          /\ executable'.current = executable.current
          /\ status'["program"] = "ready" => executable'.staged.state = "whole"
      BY <1>1, <1>4, <2>2, <3>1, ReceiveStep, UpdateFiles DEF Others
    <3> QED
      BY <3>2 DEF SwapOK, ProgramCanStart
  <2> QED
    BY <2>1, <2>2 DEF Parts
<1>5. CASE ProgramIsChecked
  BY <1>1, <1>5, ProgramCheckStep DEF SwapOK, ProgramCanStart
<1>6. CASE PatcherIsChecked \/ NewRelease
  BY <1>6, PatcherCheckStep, ReleaseStep, SwapUnchanged
<1>7. CASE PatcherStep
  BY <1>7, PatcherIsApart, SwapUnchanged
<1>8. CASE WebChanges \/ UNCHANGED updateVars
  BY <1>8, SwapUnchanged DEF WebChanges, updateVars, webVars, programVars, patcherVars, stepVars
<1>9. CASE Retire
  <2>1. place["program"] = "idle" /\ status["program"] = "ready"
    BY <1>9 DEF Retire, At
  <2>2. executable.current.state = "whole" /\ executable.staged.state \in {"whole", "none"}
    BY <2>1 DEF SwapOK, ProgramCanStart
  <2>3. CASE /\ executable.staged.state # "none"
             /\ executable' = [executable EXCEPT !.retired = executable.current, !.current = NoFile]
             /\ Goes("program", "retired")
    BY <1>1, <2>1, <2>2, <2>3 DEF Goes, SwapOK, ProgramCanStart
  <2>4. CASE /\ Ends("program", "failed")
             /\ executable' = executable \/ executable' = [executable EXCEPT !.retired = NoFile]
    BY <1>1, <2>2, <2>4 DEF Ends, SwapOK, ProgramCanStart
  <2> QED
    BY <1>9, <2>3, <2>4 DEF Retire
<1>10. CASE PutInPlace
  <2>1. executable.staged.state = "whole" /\ executable.retired.state = "whole" /\ status["program"] = "ready"
    BY <1>10 DEF PutInPlace, At, SwapOK
  <2>2. CASE /\ executable' = [executable EXCEPT !.current = executable.staged, !.staged = NoFile]
             /\ Goes("program", "relaunch")
    BY <1>1, <2>1, <2>2, UpdateFiles DEF Goes, SwapOK, ProgramCanStart
  <2>3. CASE Ends("program", "failed") /\ executable' = Restored(executable)
    BY <1>1, <2>1, <2>3 DEF Ends, Restored, SwapOK, ProgramCanStart
  <2> QED
    BY <1>10, <2>2, <2>3 DEF PutInPlace
<1>11. ASSUME NEW d, Starts(d)  PROVE SwapOK'
  BY <1>1, <1>11, StartForms DEF SwapOK, ProgramCanStart
<1>12. CASE Relaunch
  <2>1. CASE Ends("program", "failed") /\ UNCHANGED <<programVars, available>>
    <3>1. place["program"] = "relaunch"
      BY <1>12 DEF Relaunch, At
    <3> QED
      BY <1>1, <2>1, <3>1 DEF Ends, programVars, SwapOK, ProgramCanStart
  <2> QED
    BY <1>11, <1>12, <2>1 DEF Relaunch
<1>13. CASE Crash
  BY <1>11, <1>13 DEF Crash, SwapOK, ProgramCanStart
<1>14. CASE StagedVanishes
  <2>1. executable'.staged.state = "none" /\ executable'.current = executable.current
    BY <1>1, <1>14, UpdateFiles DEF StagedVanishes
  <2>2. place["program"] = "idle" /\ UNCHANGED <<place, status>>
    BY <1>14 DEF StagedVanishes, At, stepVars
  <2> QED
    BY <2>1, <2>2 DEF SwapOK, ProgramCanStart
<1> QED
  BY <1>2, <1>3, <1>4, <1>5, <1>6, <1>7, <1>8, <1>9, <1>10, <1>12, <1>13, <1>14
     DEF UpdatesNext, PatcherStep

(* Initially the variables of both services have their types. *)
LEMMA UpdatesTypeInitially == UpdatesInit => UpdatesTypeOK
<1>1. /\ File("whole", 1) \in PartFiles /\ NoFile \in PartFiles
  BY UpdateFiles
<1> QED
  BY <1>1 DEF UpdatesInit, UpdatesTypeOK, UpdatePlaces, Statuses

(* The program's path holds a whole executable at every time outside the   *)
(* swap itself, if the release list gives the sizes of its assets, and a   *)
(* swap is not cut between its two renames and can be undone               *)
(* (UpdateService::RunDownload_, ExecutableSwapper::Apply).                *)
THEOREM ProgramCanAlwaysStart ==
  Sized /\ ~HardLuck => (UpdatesSpec => []ProgramCanStart)
<1> SUFFICES ASSUME Sized, ~HardLuck PROVE UpdatesSpec => []ProgramCanStart
  OBVIOUS
<1>1. UpdatesInit => UpdatesTypeOK /\ SwapOK
  <2>1. File("whole", 1).state = "whole"
    BY UpdateFiles
  <2> QED
    BY <2>1, UpdatesTypeInitially DEF UpdatesInit, SwapOK, ProgramCanStart, Parts
<1>2. UpdatesTypeOK /\ SwapOK /\ [UpdatesNext]_updateVars => UpdatesTypeOK' /\ SwapOK'
  BY UpdatesTypeStep, ProgramSwapStep
<1>3. SwapOK => ProgramCanStart
  BY DEF SwapOK
<1> QED
  BY <1>1, <1>2, <1>3, PTL DEF UpdatesSpec

-----------------------------------------------------------------------------
(* The program goes forward *)

(* Steps that leave the executable and the program's service as they are.  *)
LEMMA ForwardUnchanged ==
  ASSUME ForwardOK, UNCHANGED <<executable, running>>, place'["program"] = place["program"],
         status'["program"] = status["program"], available'["program"] = available["program"]
  PROVE  ForwardOK'
BY DEF ForwardOK, UpdatesGoForward

(* No step leaves a staged, installed or running program older than the running one. *)
LEMMA ForwardStep ==
  ASSUME UpdatesTypeOK, ForwardOK, [UpdatesNext]_updateVars
  PROVE  ForwardOK'
<1>1. /\ executable \in [current : PartFiles, staged : PartFiles, retired : PartFiles]
      /\ place \in [Parts -> UpdatePlaces] /\ status \in [Parts -> Statuses]
      /\ available \in [Parts -> Nat] /\ running \in Nat
      /\ "program" \in Parts /\ "patcher" \in Parts /\ "program" # "patcher"
  BY DEF UpdatesTypeOK, Parts
<1>2. ASSUME NEW s \in Parts, Check(s) \/ StartDownload(s)  PROVE ForwardOK'
  <2>1. s = "program" \/ s = "patcher"
    BY DEF Parts
  <2>2. CASE s = "patcher"
    BY <1>1, <1>2, <2>2, CheckStep, DownloadStep, ForwardUnchanged
  <2>3. CASE s = "program"
    BY <1>1, <1>2, <2>3, CheckStep, DownloadStep DEF ForwardOK, UpdatesGoForward
  <2> QED
    BY <2>1, <2>2, <2>3
<1>3. ASSUME NEW s \in Parts, OpenStaged(s)  PROVE ForwardOK'
  <2>1. CASE s = "patcher"
    BY <1>1, <1>3, <2>1, OpenStep, ForwardUnchanged DEF Others
  <2>2. CASE s = "program"
    BY <1>1, <1>3, <2>2, OpenStep DEF Others, ForwardOK, UpdatesGoForward
  <2> QED
    BY <2>1, <2>2 DEF Parts
<1>4. ASSUME NEW s \in Parts, ReceivePackage(s)  PROVE ForwardOK'
  <2>1. CASE s = "patcher"
    BY <1>1, <1>4, <2>1, ReceiveStep, ForwardUnchanged DEF Others
  <2>2. CASE s = "program"
    <3>1. status["program"] = "downloading" /\ available["program"] >= running
      BY <1>4, <2>2 DEF ReceivePackage, At, ForwardOK
    <3>2. /\ place'["program"] = "idle" /\ UNCHANGED <<available, running>>
          /\ executable'.current = executable.current
          /\ status'["program"] \in {"failed", "ready"}
      BY <1>1, <1>4, <2>2, ReceiveStep DEF Others
    <3>3. ASSUME status'["program"] = "ready", executable'.staged.state = "whole"
          PROVE  executable'.staged.release = available["program"]
      <4>1. PICK f \in PartStates : executable'.staged = File(f, available["program"])
        BY <1>1, <1>4, <2>2, <3>3, ReceiveStep
      <4> QED
        BY <3>3, <4>1 DEF File
    <3> QED
      BY <3>1, <3>2, <3>3 DEF ForwardOK, UpdatesGoForward
  <2> QED
    BY <2>1, <2>2 DEF Parts
<1>5. CASE ProgramIsChecked
  BY <1>1, <1>5, ProgramCheckStep DEF ForwardOK, UpdatesGoForward
<1>6. CASE PatcherIsChecked \/ NewRelease
  BY <1>6, PatcherCheckStep, ReleaseStep, ForwardUnchanged
<1>7. CASE PatcherStep
  BY <1>7, PatcherIsApart, ForwardUnchanged
<1>8. CASE WebChanges \/ UNCHANGED updateVars
  BY <1>8, ForwardUnchanged DEF WebChanges, updateVars, webVars, programVars, patcherVars, stepVars
<1>9. CASE Retire
  <2>1. place["program"] = "idle" /\ status["program"] = "ready" /\ running' = running /\ available' = available
    BY <1>9 DEF Retire, At
  <2>2. NoFile.state # "whole"
    BY UpdateFiles
  <2>3. CASE /\ executable.staged.state # "none"
             /\ executable' = [executable EXCEPT !.retired = executable.current, !.current = NoFile]
             /\ Goes("program", "retired")
    BY <1>1, <2>1, <2>2, <2>3 DEF Goes, ForwardOK, UpdatesGoForward
  <2>4. CASE /\ Ends("program", "failed")
             /\ executable' = executable \/ executable' = [executable EXCEPT !.retired = NoFile]
    BY <1>1, <2>1, <2>4 DEF Ends, ForwardOK, UpdatesGoForward
  <2> QED
    BY <1>9, <2>3, <2>4 DEF Retire
<1>10. CASE PutInPlace
  <2>1. place["program"] = "retired" /\ status["program"] = "ready" /\ running' = running /\ available' = available
    BY <1>10 DEF PutInPlace, At, ForwardOK
  <2>2. NoFile.state # "whole"
    BY UpdateFiles
  <2>3. CASE /\ executable' = [executable EXCEPT !.current = executable.staged, !.staged = NoFile]
             /\ Goes("program", "relaunch")
    BY <1>1, <2>1, <2>2, <2>3 DEF Goes, ForwardOK, UpdatesGoForward
  <2>4. CASE Ends("program", "failed") /\ executable' = Restored(executable)
    BY <1>1, <2>1, <2>4 DEF Ends, Restored, ForwardOK, UpdatesGoForward
  <2>5. CASE Ends("program", "failed") /\ executable' = executable
    BY <1>1, <2>1, <2>5 DEF Ends, ForwardOK, UpdatesGoForward
  <2> QED
    BY <1>10, <2>3, <2>4, <2>5 DEF PutInPlace
<1>11. ASSUME NEW d, Starts(d)  PROVE ForwardOK'
  BY <1>1, <1>11, StartForms DEF ForwardOK, UpdatesGoForward
<1>12. CASE Relaunch
  <2>1. CASE Ends("program", "failed") /\ UNCHANGED <<programVars, available>>
    BY <1>1, <2>1 DEF Ends, programVars, ForwardOK, UpdatesGoForward
  <2> QED
    BY <1>11, <1>12, <2>1 DEF Relaunch
<1>13. CASE Crash
  <2>1. CASE /\ executable.current.state # "whole"
             /\ running' = 0 /\ place' = [s \in Parts |-> "idle"]
             /\ UNCHANGED <<executable, image, status, available>>
    <3>1. place'["program"] = "idle" /\ running' = 0 /\ UNCHANGED <<executable, status, available>>
      BY <1>1, <2>1
    <3>2. \A n \in Nat : n >= running'
      BY <3>1
    <3>3. available["program"] \in Nat /\ executable.staged.release \in Nat
      BY <1>1 DEF PartFiles
    <3> QED
      BY <2>1, <3>1, <3>2, <3>3 DEF ForwardOK, UpdatesGoForward
  <2> QED
    BY <1>11, <1>13, <2>1 DEF Crash
<1>14. CASE StagedVanishes
  <2>1. executable'.staged.state = "none" /\ executable'.current = executable.current
    BY <1>1, <1>14, UpdateFiles DEF StagedVanishes
  <2>2. place["program"] = "idle" /\ UNCHANGED <<place, status, running, available>>
    BY <1>14 DEF StagedVanishes, At, stepVars
  <2> QED
    BY <2>1, <2>2 DEF ForwardOK, UpdatesGoForward
<1> QED
  BY <1>2, <1>3, <1>4, <1>5, <1>6, <1>7, <1>8, <1>9, <1>10, <1>12, <1>13, <1>14
     DEF UpdatesNext, PatcherStep

(* What is at the program's path is no older than what runs, whatever is   *)
(* withdrawn from the release list, however downloads end and wherever the *)
(* program dies (UpdateService::RunCheck_, ExecutableSwapper::Apply).      *)
THEOREM ProgramGoesForward == UpdatesSpec => []UpdatesGoForward
<1>1. UpdatesInit => UpdatesTypeOK /\ ForwardOK
  <2>1. File("whole", 1).release = 1
    BY UpdateFiles
  <2> QED
    BY <2>1, UpdatesTypeInitially DEF UpdatesInit, ForwardOK, UpdatesGoForward, Parts
<1>2. UpdatesTypeOK /\ ForwardOK /\ [UpdatesNext]_updateVars => UpdatesTypeOK' /\ ForwardOK'
  BY UpdatesTypeStep, ForwardStep
<1>3. ForwardOK => UpdatesGoForward
  BY DEF ForwardOK
<1> QED
  BY <1>1, <1>2, <1>3, PTL DEF UpdatesSpec

-----------------------------------------------------------------------------
(* The patcher *)

(* Steps that leave the game's folder and the patcher's service alone.     *)
LEMMA PatchUnchanged ==
  ASSUME PatchOK, UNCHANGED <<game, marker, latest>>, place'["patcher"] = place["patcher"],
         status'["patcher"] = status["patcher"], available'["patcher"] = available["patcher"]
  PROVE  PatchOK'
BY DEF PatchOK, PatchInPlace, CurrentIsInstalled

(* The installation, step by step.                                         *)
LEMMA InstallStep ==
  ASSUME UpdatesTypeOK, PatchOK, PatcherStep
  PROVE  PatchOK'
<1>1. /\ game \in [proxy : PartFiles, forward : PartFiles, staged : PartFiles] /\ marker \in Nat
      /\ available \in [Parts -> Nat] /\ latest \in [Parts -> Nat]
      /\ place \in [Parts -> UpdatePlaces] /\ status \in [Parts -> Statuses]
      /\ "patcher" \in Parts
  BY DEF UpdatesTypeOK, Parts
<1>2. UNCHANGED <<latest, available>>
  BY GameTypeStep DEF GameTypes
<1>3. latest["patcher"] \in Nat /\ available["patcher"] \in Nat
  BY <1>1
<1> USE DEF Installing
<1>4. CASE InstallFails
  <2>1. PICK next \in {"install", "forward", "open_proxy", "proxy", "mods"} : place["patcher"] = next
    BY <1>4 DEF InstallFails, At
  <2>2. /\ place'["patcher"] = "idle" /\ status'["patcher"] = "failed" /\ marker' = marker
        /\ game'.proxy = game.proxy /\ game'.forward = game.forward
    BY <1>1, <1>4 DEF InstallFails, Ends
  <2> QED
    BY <1>2, <2>1, <2>2 DEF PatchOK, PatchInPlace, CurrentIsInstalled
<1>5. ASSUME NEW from, NEW to, NEW changed, Copies(from, to, changed)
      PROVE  /\ place["patcher"] = from /\ place'["patcher"] = to
             /\ status'["patcher"] = status["patcher"] /\ marker' = marker /\ game' = changed
  BY <1>1, <1>5 DEF Copies, At, Goes
<1>6. CASE OpenForward
  <2>1. /\ place["patcher"] = "install" /\ place'["patcher"] = "forward"
        /\ status'["patcher"] = status["patcher"] /\ marker' = marker
        /\ game' = [game EXCEPT !.forward = Torn]
    BY <1>5, <1>6 DEF OpenForward
  <2>2. game'.staged = game.staged
    BY <1>1, <2>1
  <2> QED
    BY <1>1, <1>2, <1>3, <2>1, <2>2 DEF PatchOK, CurrentIsInstalled
<1>7. CASE CopyForward
  <2>1. /\ place["patcher"] = "forward" /\ place'["patcher"] = "open_proxy"
        /\ status'["patcher"] = status["patcher"] /\ marker' = marker
        /\ game' = [game EXCEPT !.forward = File("whole", 1)]
    BY <1>5, <1>7 DEF CopyForward
  <2>2. game'.staged = game.staged /\ game'.forward.state = "whole"
    BY <1>1, <2>1, UpdateFiles
  <2> QED
    BY <1>1, <1>2, <1>3, <2>1, <2>2 DEF PatchOK, CurrentIsInstalled
<1>8. CASE OpenProxy
  <2>1. /\ place["patcher"] = "open_proxy" /\ place'["patcher"] = "proxy"
        /\ status'["patcher"] = status["patcher"] /\ marker' = marker
        /\ game' = [game EXCEPT !.proxy = Torn]
    BY <1>5, <1>8 DEF OpenProxy
  <2>2. game'.staged = game.staged /\ game'.forward = game.forward
    BY <1>1, <2>1
  <2> QED
    BY <1>1, <1>2, <1>3, <2>1, <2>2 DEF PatchOK, CurrentIsInstalled
<1>9. CASE CopyProxy
  <2>1. /\ place["patcher"] = "proxy" /\ place'["patcher"] = "mods"
        /\ status'["patcher"] = status["patcher"] /\ marker' = marker
        /\ game' = [game EXCEPT !.proxy = game.staged]
    BY <1>5, <1>9 DEF CopyProxy
  <2>2. game'.proxy = game.staged /\ game'.forward = game.forward
    BY <1>1, <2>1
  <2>3. PatchInPlace(available["patcher"])'
    BY <1>2, <2>1, <2>2 DEF PatchOK, PatchInPlace
  <2>4. marker < latest["patcher"]
    BY <1>1, <1>3, <2>1 DEF PatchOK
  <2> QED
    BY <1>1, <1>2, <1>3, <2>1, <2>3, <2>4 DEF PatchOK, CurrentIsInstalled
<1>10. CASE MakeMods
  <2>1. /\ place["patcher"] = "mods" /\ place'["patcher"] = "mark"
        /\ status'["patcher"] = status["patcher"] /\ marker' = marker
        /\ game' = [game EXCEPT !.staged = NoFile]
    BY <1>5, <1>10 DEF MakeMods
  <2>2. game'.proxy = game.proxy /\ game'.forward = game.forward
    BY <1>1, <2>1
  <2> QED
    BY <1>1, <1>2, <1>3, <2>1, <2>2 DEF PatchOK, PatchInPlace, CurrentIsInstalled
<1>11. CASE OpenMarker
  <2>1. /\ place["patcher"] = "mark" /\ game' = game
        /\ \/ /\ place'["patcher"] = "write_mark" /\ status'["patcher"] = status["patcher"]
              /\ marker' = 0
           \/ /\ place'["patcher"] = "idle" /\ status'["patcher"] = "current"
              /\ marker' = marker
    BY <1>1, <1>11 DEF OpenMarker, At, Goes, Ends
  <2>2. available["patcher"] > 0
    BY <1>1, <1>3, <2>1 DEF PatchOK
  <2>3. PatchInPlace(available["patcher"]) /\ PatchInPlace(available["patcher"])'
    BY <1>2, <2>1 DEF PatchOK, PatchInPlace
  <2>4. CASE marker' = 0 /\ place'["patcher"] = "write_mark" /\ status'["patcher"] = status["patcher"]
    BY <1>1, <1>2, <1>3, <2>1, <2>2, <2>4 DEF PatchOK, PatchInPlace, CurrentIsInstalled
  <2>5. CASE marker' = marker /\ place'["patcher"] = "idle" /\ status'["patcher"] = "current"
    BY <1>1, <1>2, <1>3, <2>1, <2>3, <2>5 DEF PatchOK, PatchInPlace, CurrentIsInstalled
  <2> QED
    BY <2>1, <2>4, <2>5
<1>12. CASE WriteMarker
  <2>1. /\ place["patcher"] = "write_mark" /\ place'["patcher"] = "idle"
        /\ status'["patcher"] = "current" /\ game' = game
        /\ marker' = available["patcher"] \/ marker' = marker
    BY <1>1, <1>12 DEF WriteMarker, At, Ends
  <2>2. PatchInPlace(available["patcher"]) /\ PatchInPlace(available["patcher"])'
    BY <1>2, <2>1 DEF PatchOK, PatchInPlace
  <2>3. CurrentIsInstalled'
    BY <1>2, <2>2 DEF PatchInPlace, CurrentIsInstalled
  <2>4. marker' <= latest["patcher"] /\ (marker' > 0 => PatchInPlace(marker)' \/ marker' < latest["patcher"])
    <3>1. CASE marker' = available["patcher"]
      BY <1>2, <2>2, <3>1 DEF PatchOK, PatchInPlace
    <3>2. CASE marker' = marker
      BY <1>2, <2>1, <3>2 DEF PatchOK, PatchInPlace
    <3> QED
      BY <2>1, <3>1, <3>2
  <2> QED
    BY <1>2, <2>1, <2>3, <2>4 DEF PatchOK
<1> QED
  BY <1>4, <1>6, <1>7, <1>8, <1>9, <1>10, <1>11, <1>12 DEF PatcherStep

(* The window's steps leave the patcher where it is, or start again with   *)
(* its service idle.                                                       *)
LEMMA SwapIsApart ==
  ASSUME UpdatesTypeOK, Retire \/ PutInPlace \/ Relaunch \/ Crash \/ StagedVanishes
  PROVE  /\ UNCHANGED <<game, marker, latest>>
         /\ \/ /\ place'["patcher"] = place["patcher"] /\ status'["patcher"] = status["patcher"]
               /\ available'["patcher"] = available["patcher"]
            \/ /\ place'["patcher"] = "idle" /\ status'["patcher"] = "idle"
               /\ available'["patcher"] = 0
            \/ /\ place'["patcher"] = "idle" /\ status'["patcher"] = status["patcher"]
               /\ available'["patcher"] = available["patcher"]
<1>1. place \in [Parts -> UpdatePlaces] /\ status \in [Parts -> Statuses] /\ {"program", "patcher"} = Parts
  BY DEF UpdatesTypeOK, Parts
<1>2. UNCHANGED <<game, marker, latest>>
  BY DEF Retire, PutInPlace, Relaunch, Crash, StagedVanishes, webVars, patcherVars
<1>3. CASE \E d : Starts(d)
  BY <1>1, <1>2, <1>3, StartForms
<1>4. CASE /\ \/ \E next : Goes("program", next)
              \/ \E shown : Ends("program", shown)
           /\ UNCHANGED available
  BY <1>1, <1>2, <1>4 DEF Goes, Ends
<1>5. CASE UNCHANGED stepVars
  BY <1>2, <1>5 DEF stepVars
<1>6. CASE place' = [s \in Parts |-> "idle"] /\ UNCHANGED <<status, available>>
  BY <1>1, <1>2, <1>6
<1> QED
  BY <1>3, <1>4, <1>5, <1>6 DEF Retire, PutInPlace, Relaunch, Crash, StagedVanishes

(* With sizes listed and no patcher withdrawn, every step keeps the marker true of the library
   beside it. *)
LEMMA PatchStep ==
  ASSUME Sized, "patcher" \notin Withdraws, UpdatesTypeOK, PatchOK, [UpdatesNext]_updateVars
  PROVE  PatchOK'
<1>1. /\ latest \in [Parts -> Nat] /\ available \in [Parts -> Nat] /\ marker \in Nat
      /\ "program" \in Parts /\ "patcher" \in Parts /\ "program" # "patcher"
  BY DEF UpdatesTypeOK, Parts
<1>2. latest["patcher"] \in Nat /\ available["patcher"] \in Nat
  BY <1>1
<1> USE DEF Installing
<1>3. ASSUME NEW s \in Parts, Check(s)  PROVE PatchOK'
  <2>1. CASE s = "program"
    BY <1>1, <1>3, <2>1, CheckStep, PatchUnchanged
  <2>2. CASE s = "patcher"
    BY <1>1, <1>3, <2>2, CheckStep DEF PatchOK, PatchInPlace, CurrentIsInstalled
  <2> QED
    BY <2>1, <2>2 DEF Parts
<1>4. ASSUME NEW s \in Parts, StartDownload(s)  PROVE PatchOK'
  <2>1. CASE s = "program"
    BY <1>1, <1>4, <2>1, DownloadStep, PatchUnchanged
  <2>2. CASE s = "patcher"
    BY <1>1, <1>4, <2>2, DownloadStep DEF PatchOK, PatchInPlace, CurrentIsInstalled
  <2> QED
    BY <2>1, <2>2 DEF Parts
<1>5. ASSUME NEW s \in Parts, OpenStaged(s)  PROVE PatchOK'
  <2>1. CASE s = "program"
    BY <1>1, <1>5, <2>1, OpenStep, PatchUnchanged DEF Others
  <2>2. CASE s = "patcher"
    BY <1>1, <1>5, <2>2, OpenStep DEF Others, PatchOK, PatchInPlace, CurrentIsInstalled
  <2> QED
    BY <2>1, <2>2 DEF Parts
<1>6. ASSUME NEW s \in Parts, ReceivePackage(s)  PROVE PatchOK'
  <2>1. CASE s = "program"
    BY <1>1, <1>6, <2>1, ReceiveStep, PatchUnchanged DEF Others
  <2>2. CASE s = "patcher"
    <3>1. place["patcher"] = "receive" /\ Others("patcher")
      BY <1>6, <2>2, ReceiveStep
    <3>2. \/ place'["patcher"] = "idle" /\ status'["patcher"] = "failed"
          \/ /\ place'["patcher"] = "install" /\ status'["patcher"] = status["patcher"]
             /\ game'.staged = File("whole", available["patcher"])
      BY <1>1, <1>6, <2>2, ReceiveStep
    <3> QED
      BY <3>1, <3>2 DEF Others, PatchOK, PatchInPlace, CurrentIsInstalled
  <2> QED
    BY <2>1, <2>2 DEF Parts
<1>7. CASE ProgramIsChecked
  BY <1>7, ProgramCheckStep, PatchUnchanged
<1>8. CASE PatcherIsChecked
  <2>1. /\ UNCHANGED <<latest, game, marker>>
        /\ place["patcher"] = "check" /\ place'["patcher"] = "idle"
        /\ \/ status'["patcher"] = "failed" /\ available' = available
           \/ /\ available'["patcher"] = latest["patcher"] /\ latest["patcher"] > 0
              /\ \/ status'["patcher"] = "current" /\ marker = latest["patcher"]
                 \/ /\ status'["patcher"] = "available"
                    /\ game.proxy.state = "none" \/ marker # latest["patcher"]
    BY <1>8, PatcherCheckStep
  <2>2. marker = latest["patcher"] /\ marker > 0 => PatchInPlace(marker)
    BY <1>2 DEF PatchOK
  <2>3. ASSUME marker = latest["patcher"], marker > 0
        PROVE  game.proxy.state = "whole" /\ game.proxy = File("whole", latest["patcher"])
               /\ game.forward.state = "whole"
    BY <1>1, <2>2, <2>3, UpdateFiles DEF PatchInPlace
  <2>4. CASE status'["patcher"] = "failed" /\ available' = available
    BY <2>1, <2>4 DEF PatchOK, PatchInPlace, CurrentIsInstalled
  <2>5. CASE status'["patcher"] = "current" /\ marker = latest["patcher"]
             /\ available'["patcher"] = latest["patcher"] /\ latest["patcher"] > 0
    <3>1. CurrentIsInstalled'
      BY <2>1, <2>3, <2>5 DEF CurrentIsInstalled
    <3> QED
      BY <1>2, <2>1, <2>5, <3>1 DEF PatchOK, PatchInPlace
  <2>6. CASE status'["patcher"] = "available"
             /\ available'["patcher"] = latest["patcher"] /\ latest["patcher"] > 0
             /\ (game.proxy.state = "none" \/ marker # latest["patcher"])
    <3>1. marker < latest["patcher"]
      BY <1>1, <1>2, <2>3, <2>6 DEF PatchOK
    <3> QED
      BY <1>2, <2>1, <2>6, <3>1 DEF PatchOK, PatchInPlace, CurrentIsInstalled
  <2> QED
    BY <2>1, <2>4, <2>5, <2>6
<1>9. CASE NewRelease
  <2>1. /\ UNCHANGED <<game, marker, place, status, available>>
        /\ latest'["patcher"] >= latest["patcher"] /\ latest'["patcher"] \in Nat
    BY <1>1, <1>9, ReleaseStep DEF UpdatesTypeOK
  <2> QED
    BY <1>1, <1>2, <2>1 DEF PatchOK, PatchInPlace, CurrentIsInstalled
<1>10. CASE PatcherStep
  BY <1>10, InstallStep
<1>11. CASE WebChanges \/ UNCHANGED updateVars
  BY <1>11, PatchUnchanged DEF WebChanges, updateVars, webVars, programVars, patcherVars, stepVars
<1>12. CASE Retire \/ PutInPlace \/ Relaunch \/ Crash \/ StagedVanishes
  BY <1>1, <1>2, <1>12, SwapIsApart DEF PatchOK, PatchInPlace, CurrentIsInstalled
<1> QED
  BY <1>3, <1>4, <1>5, <1>6, <1>7, <1>8, <1>9, <1>10, <1>11, <1>12 DEF UpdatesNext, PatcherStep

(* The patcher shows "up to date" only with the newest release it found in *)
(* place, whole: the marker it compares is written after the files and     *)
(* cleared before that, and an installation that is cut off leaves an      *)
(* older marker than any release it may find (PatcherService::RunCheck_,   *)
(* PatcherInstaller::Install). It needs sizes in the release list, and a   *)
(* list the patcher's releases are not withdrawn from.                     *)
THEOREM CurrentIsAlwaysInstalled ==
  Sized /\ "patcher" \notin Withdraws => (UpdatesSpec => []CurrentIsInstalled)
<1> SUFFICES ASSUME Sized, "patcher" \notin Withdraws PROVE UpdatesSpec => []CurrentIsInstalled
  OBVIOUS
<1>1. UpdatesInit => UpdatesTypeOK /\ PatchOK
  BY UpdatesTypeInitially DEF UpdatesInit, PatchOK, PatchInPlace, CurrentIsInstalled, Parts, Installing
<1>2. UpdatesTypeOK /\ PatchOK /\ [UpdatesNext]_updateVars => UpdatesTypeOK' /\ PatchOK'
  BY UpdatesTypeStep, PatchStep
<1>3. PatchOK => CurrentIsInstalled
  BY DEF PatchOK
<1> QED
  BY <1>1, <1>2, <1>3, PTL DEF UpdatesSpec
=============================================================================
