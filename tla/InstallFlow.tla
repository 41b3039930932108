----------------------------- MODULE InstallFlow -----------------------------
(***************************************************************************)
(* InstallService over the fetch session it drives. The window loop        *)
(* ("ui") starts, verifies, polls and cancels; the service's worker thread *)
(* plans, begins the content fetch, installs and audits. FetchSession's    *)
(* steps interleave with both.                                             *)
(***************************************************************************)
EXTENDS FetchSession

CONSTANTS
  Mods,       \* the identifiers the catalogue announces
  MaxStarts   \* bound: how many attempts the user starts

ASSUME MaxStartsAssumption == MaxStarts \in Nat

VARIABLES
  iphase,       \* InstallProgress::phase
  verification, \* InstallProgress::verification
  mod,          \* the announce of the attempt
  plan,         \* the chunks the plan fetches
  awaiting,     \* _awaitingManifest
  details,      \* _detailsOnly
  busy,         \* _busy
  abandoned,    \* _abandoned
  settled,      \* _settled
  held,         \* ManifestStore: the mods whose sealed manifest is stored
  folder,       \* the mods that have a folder under the mods directory
  record,       \* InstalledReleaseStore: the mods with an installed record
  started,      \* how many attempts have passed the _busy exchange
  ustep,        \* what the window loop does when the call it is in returns
  wstep         \* what the worker thread does next

attemptVars == <<verification, mod, plan, awaiting, details>>
diskState   == <<held, folder, record>>
installVars == <<iphase, attemptVars, busy, abandoned, settled, diskState, started, ustep, wstep>>
flowVars    == <<vars, installVars>>

InstallPhases == {"Idle", "Planning", "Fetching", "Installing", "Verifying", "Done", "Failed"}
ProgressBusy  == iphase \in {"Planning", "Fetching", "Installing", "Verifying"}

FlowInit ==
  /\ Init
  /\ iphase = "Idle" /\ verification = FALSE /\ mod \in Mods /\ plan = {}
  /\ awaiting = FALSE /\ details = FALSE /\ busy = FALSE /\ abandoned = FALSE
  /\ settled = 0 /\ started = 0
  /\ held \in SUBSET Mods /\ record \in SUBSET held /\ folder = record
  /\ ustep = "idle" /\ wstep = "none"

UiFree == ustep = "idle" /\ pc["ui"] = "idle"

(* Publish_ and then _busy = false and ++_settled, which is one step: a     *)
(* start in between is refused or joins the worker first, as a cancel does *)
(* always.                                                                 *)
Conclude(outcome) ==
  /\ iphase' = outcome
  /\ busy' = FALSE
  /\ settled' = settled + 1

(* CheckName_: a folder without a record of this release is not ours. *)
NameIsOurs(m) == m \in folder => m \in record

-----------------------------------------------------------------------------
(* The window loop.                                                        *)

(* What Start_ and Verify do once they own _busy; JoinWorker_ finds no     *)
(* worker, or one that has concluded.                                      *)
Claim(m) ==
  /\ UiFree /\ ~busy /\ wstep = "none"
  /\ started < MaxStarts
  /\ started' = started + 1
  /\ busy' = TRUE
  /\ mod' = m
  /\ UNCHANGED <<abandoned, diskState>>

StartHeld(m) ==
  /\ Claim(m)
  /\ m \in held /\ NameIsOurs(m)
  /\ details' = FALSE /\ awaiting' = FALSE /\ plan' = {} /\ verification' = FALSE
  /\ iphase' = "Planning"
  /\ wstep' = "plan"
  /\ UNCHANGED <<vars, ustep, settled>>

FetchDetailsHeld(m) ==
  /\ Claim(m)
  /\ m \in held
  /\ details' = TRUE /\ awaiting' = FALSE /\ plan' = {} /\ verification' = FALSE
  /\ iphase' = "Idle"
  /\ ustep' = "detailsReady"
  /\ UNCHANGED <<vars, settled, wstep>>

StartUnheld(m, detailsOnly) ==
  /\ Claim(m)
  /\ m \notin held
  /\ detailsOnly \/ NameIsOurs(m)
  /\ details' = detailsOnly /\ awaiting' = TRUE /\ plan' = {} /\ verification' = FALSE
  /\ iphase' = "Idle"
  /\ CallBegin("ui", ManifestRequest)
  /\ ustep' = "manifest"
  /\ UNCHANGED <<settled, wstep>>

(* BeginManifestFetch_ after Begin. *)
ManifestBegun ==
  /\ ustep = "manifest"
  /\ \/ pc["ui"] = "begun" /\ iphase' = "Fetching" /\ UNCHANGED <<busy, settled>>
     \/ pc["ui"] = "refused" /\ Conclude("Failed")
  /\ Return("ui")
  /\ ustep' = "idle"
  /\ UNCHANGED <<attemptVars, abandoned, diskState, started, wstep>>

Verify(m) ==
  /\ Claim(m)
  /\ m \in held /\ NameIsOurs(m)
  /\ details' = FALSE
  /\ verification' = TRUE
  /\ iphase' = "Verifying"
  /\ wstep' = "verify"
  /\ UNCHANGED <<vars, plan, awaiting, settled, ustep>>

(* InstallService::Poll: what it does depends on the fetch it finds; most  *)
(* outcomes cancel the fetch first and go on when that returns.            *)
PollFetchFailed ==
  /\ UiFree /\ iphase = "Fetching"
  /\ phase = "Failed"
  /\ Conclude("Failed")
  /\ UNCHANGED <<vars, attemptVars, abandoned, diskState, started, ustep, wstep>>

PollThenCancel(next) ==
  /\ UiFree /\ iphase = "Fetching"
  /\ CallCancel("ui")
  /\ ustep' = next
  /\ UNCHANGED <<iphase, verification, mod, plan, details, busy, abandoned, settled, folder, record, started, wstep>>

PollDetailsExpired ==
  /\ details
  /\ PollThenCancel("failed")
  /\ UNCHANGED <<awaiting, held>>

(* AdoptFetchedManifest_ needs the manifest in the staging folder. *)
PollManifestAdopted ==
  /\ phase = "Complete" /\ awaiting
  /\ <<fetching, ManifestPiece>> \in landed
  /\ PollThenCancel(IF details THEN "detailsReady" ELSE "plan")
  /\ awaiting' = FALSE
  /\ held' = held \cup {mod}

PollManifestRejected ==
  /\ phase = "Complete" /\ awaiting
  /\ PollThenCancel("failed")
  /\ UNCHANGED <<awaiting, held>>

PollContentComplete ==
  /\ phase = "Complete" /\ ~awaiting
  /\ PollThenCancel("install")
  /\ UNCHANGED <<awaiting, held>>

PollResumes ==
  /\ pc["ui"] = "idle"
  /\ ustep \in {"failed", "detailsReady", "plan", "install"}
  /\ \/ ustep = "failed" /\ Conclude("Failed") /\ UNCHANGED wstep
     \/ ustep = "detailsReady" /\ Conclude("Done") /\ UNCHANGED wstep
     \/ ustep = "plan" /\ iphase' = "Planning" /\ wstep' = "plan" /\ UNCHANGED <<busy, settled>>
     \/ ustep = "install" /\ iphase' = "Installing" /\ wstep' = "install" /\ UNCHANGED <<busy, settled>>
  /\ ustep' = "idle"
  /\ UNCHANGED <<vars, attemptVars, abandoned, diskState, started>>

(* The window offers Cancel while the progress it drew is busy. *)
Cancel ==
  /\ UiFree /\ ProgressBusy
  /\ abandoned' = TRUE
  /\ CallCancel("ui")
  /\ ustep' = "join"
  /\ UNCHANGED <<iphase, attemptVars, busy, settled, diskState, started, wstep>>

CancelSettles(joined, counts) ==
  /\ pc["ui"] = "idle" /\ ustep = "join"
  /\ joined
  /\ abandoned' = FALSE
  /\ busy' = FALSE
  /\ settled' = IF counts THEN settled + 1 ELSE settled
  /\ iphase' = "Idle"
  /\ ustep' = "idle"
  /\ UNCHANGED <<vars, attemptVars, diskState, started, wstep>>

(* Broken: the attempt is counted again. *)
CancelJoined_CountsTwice == CancelSettles(wstep = "none", TRUE)

CancelJoined == CancelSettles(wstep = "none", busy)

-----------------------------------------------------------------------------
(* The worker thread.                                                      *)

WorkerConcludes(outcome) ==
  /\ Conclude(outcome)
  /\ wstep' = "none"
  /\ UNCHANGED <<vars, attemptVars, abandoned, started, ustep>>

(* Broken: a plan that waits for the baseline waits on when abandoned. *)
PlanAbandoned_Unseen == wstep = "plan" /\ abandoned /\ UNCHANGED flowVars

(* InstallPlanner::Plan: abandonment is looked at before the comparison    *)
(* and not after it; an abandoned plan returns and concludes nothing.      *)
PlanAbandoned ==
  /\ wstep = "plan" /\ abandoned
  /\ wstep' = "none"
  /\ UNCHANGED <<vars, iphase, attemptVars, busy, abandoned, settled, diskState, started, ustep>>

PlanCompares ==
  /\ wstep = "plan" /\ ~abandoned
  /\ wstep' = "compare"
  /\ UNCHANGED <<vars, iphase, attemptVars, busy, abandoned, settled, diskState, started, ustep>>

PlanReady ==
  /\ wstep = "compare"
  /\ plan' \in SUBSET Chunks
  /\ wstep' = "stage"
  /\ UNCHANGED <<vars, iphase, verification, mod, awaiting, details, busy, abandoned, settled,
                 diskState, started, ustep>>

(* StartFetch_: ownership again, then FetchPlanner::Stage, which creates   *)
(* the folder before anything is recorded.                                 *)
StageRefused ==
  /\ wstep = "stage"
  /\ \/ ~NameIsOurs(mod) /\ UNCHANGED folder
     \/ NameIsOurs(mod) /\ folder' \in {folder, folder \cup {mod}}
  /\ UNCHANGED <<held, record>>
  /\ WorkerConcludes("Failed")

StageHeld ==
  /\ wstep = "stage" /\ NameIsOurs(mod) /\ plan = {}
  /\ folder' = folder \cup {mod}
  /\ iphase' = "Installing"
  /\ wstep' = "install"
  /\ UNCHANGED <<vars, attemptVars, busy, abandoned, settled, held, record, started, ustep>>

StageFetch ==
  /\ wstep = "stage" /\ NameIsOurs(mod) /\ plan # {}
  /\ folder' = folder \cup {mod}
  /\ CallBegin("worker", ContentRequest(plan))
  /\ wstep' = "begin"
  /\ UNCHANGED <<iphase, attemptVars, busy, abandoned, settled, held, record, started, ustep>>

(* Broken: a refused fetch is not concluded. *)
ContentBegun_Silent ==
  /\ wstep = "begin"
  /\ \/ pc["worker"] = "begun" /\ iphase' = "Fetching"
     \/ pc["worker"] = "refused" /\ UNCHANGED iphase
  /\ Return("worker")
  /\ wstep' = "none"
  /\ UNCHANGED <<attemptVars, busy, settled, abandoned, diskState, started, ustep>>

ContentBegun ==
  /\ wstep = "begin"
  /\ \/ pc["worker"] = "begun" /\ iphase' = "Fetching" /\ UNCHANGED <<busy, settled>>
     \/ pc["worker"] = "refused" /\ Conclude("Failed")
  /\ Return("worker")
  /\ wstep' = "none"
  /\ UNCHANGED <<attemptVars, abandoned, diskState, started, ustep>>

(* RunInstall_: ApplyPlaced takes remote chunks as placed. *)
InstallFails ==
  /\ wstep = "install"
  /\ folder' \in {folder, folder \cup {mod}}
  /\ UNCHANGED <<held, record>>
  /\ WorkerConcludes("Failed")

InstallSwaps ==
  /\ wstep = "install"
  /\ folder' = folder \cup {mod}
  /\ wstep' = "save"
  /\ UNCHANGED <<vars, iphase, attemptVars, busy, abandoned, settled, held, record, started, ustep>>

(* The result of Save is ignored. *)
InstallDone ==
  /\ wstep = "save"
  /\ record' \in {record, record \cup {mod}}
  /\ UNCHANGED <<held, folder>>
  /\ WorkerConcludes("Done")

VerifyIntact ==
  /\ wstep = "verify" /\ mod \in folder
  /\ UNCHANGED diskState
  /\ WorkerConcludes("Done")

VerifyFolderMissing ==
  /\ wstep = "verify" /\ mod \notin folder
  /\ UNCHANGED diskState
  /\ WorkerConcludes("Failed")

VerifyDamaged ==
  /\ wstep = "verify" /\ mod \in folder
  /\ plan' \in SUBSET Chunks \ {{}}
  /\ iphase' = "Planning"
  /\ wstep' = "stage"
  /\ UNCHANGED <<vars, verification, mod, awaiting, details, busy, abandoned, settled, diskState, started, ustep>>

Ui ==
  \/ \E m \in Mods :
       \/ StartHeld(m) \/ FetchDetailsHeld(m) \/ Verify(m)
       \/ \E detailsOnly \in BOOLEAN : StartUnheld(m, detailsOnly)
  \/ Cancel

UiGoesOn ==
  \/ ManifestBegun \/ PollFetchFailed \/ PollDetailsExpired \/ PollManifestAdopted
  \/ PollManifestRejected \/ PollContentComplete \/ PollResumes \/ CancelJoined

Worker ==
  \/ PlanAbandoned \/ PlanCompares \/ PlanReady \/ StageRefused \/ StageHeld \/ StageFetch
  \/ ContentBegun \/ InstallFails \/ InstallSwaps \/ InstallDone
  \/ VerifyIntact \/ VerifyFolderMissing \/ VerifyDamaged

(* The steps of the session: its calls run for whoever made them, and the  *)
(* window loop polls only when it is in no install call.                   *)
Session ==
  /\ (\E t \in Threads : Call(t)) \/ Swarm \/ (ustep = "idle" /\ Poll)
  /\ UNCHANGED installVars

FlowNext == Ui \/ UiGoesOn \/ Worker \/ Session

FlowFairness ==
  /\ WF_flowVars(Worker)
  /\ WF_flowVars(UiGoesOn)
  /\ \A t \in Threads : WF_flowVars(Call(t) /\ UNCHANGED installVars)
  /\ WF_flowVars(ustep = "idle" /\ Poll /\ UNCHANGED installVars)

FlowSpec     == FlowInit /\ [][FlowNext]_flowVars
FairFlowSpec == FlowSpec /\ FlowFairness

-----------------------------------------------------------------------------
FlowTypeOK ==
  /\ TypeOK
  /\ iphase \in InstallPhases
  /\ mod \in Mods /\ plan \subseteq Chunks
  /\ verification \in BOOLEAN /\ awaiting \in BOOLEAN /\ details \in BOOLEAN
  /\ busy \in BOOLEAN /\ abandoned \in BOOLEAN
  /\ settled \in Nat /\ started \in 0..MaxStarts
  /\ held \subseteq Mods /\ folder \subseteq Mods /\ record \subseteq Mods
  /\ ustep \in {"idle", "manifest", "failed", "detailsReady", "plan", "install", "join"}
  /\ wstep \in {"none", "plan", "compare", "stage", "begin", "install", "save", "verify"}

(* ApplyPlaced does not look at remote chunks: when it runs, every chunk   *)
(* the plan fetches has been written to the staged file it belongs in.     *)
InstallsWholeContent ==
  wstep \in {"install", "save"} => plan \subseteq {c \in Chunks : <<attempt, c>> \in landed}

(* A preview fetches the manifest and stops there.                         *)
PreviewInstallsNothing == details => wstep = "none" /\ iphase \notin {"Planning", "Installing"}

(* The service takes a new attempt only when its worker is done with the   *)
(* last one: two attempts never share the plan or the worker.              *)
OneAttemptAtATime == ~busy => wstep = "none" /\ ustep \in {"idle", "join"}

(* While an attempt waits for its fetch, no worker runs that could begin   *)
(* another fetch under it.                                                 *)
FetchingIsAlone ==
  iphase = "Fetching" /\ ustep # "join" => busy /\ wstep = "none"

(* Cancel waits for the worker: planning is abandoned or runs on into a    *)
(* Begin, and either way the window comes back.                            *)
CancelReturns == ustep = "join" ~> ustep = "idle"

(* An attempt that is not waiting for peers comes to an end by itself.     *)
AttemptsMoveOn == (busy /\ iphase # "Fetching") ~> (~busy \/ iphase = "Fetching")

(* The outcome of a fetch is handled as the outcome of what was fetched:   *)
(* the repair of a damaged mod is not judged as a manifest.                *)
FetchJudgedAsWhatItIs ==
  iphase = "Fetching" /\ UiFree /\ phase = "Complete" => (awaiting <=> wanted = {ManifestPiece})

(* After a cancel has returned nothing of the attempt goes on.             *)
CancelStopsTheFetch == iphase = "Idle" /\ ~busy => ~Busy

(* The retry the window offers after a failed attempt can be taken.        *)
RetryIsAccepted == iphase = "Failed" /\ ~verification /\ ~details => NameIsOurs(mod)

(* What a caller of the service may rely on. *)
Contract == INSTANCE InstallContract
  WITH status <- IF busy THEN "running" ELSE iphase
ContractSpec == Contract!Spec
=============================================================================
