------------------------------- MODULE Session --------------------------------
(***************************************************************************)
(* One run of the program: wWinMain finds the game, ManagerSession::Run    *)
(* builds the services, the window loop (Application::Run) runs them, and  *)
(* the services are destroyed in the reverse order of their declarations,  *)
(* which is not the order they were built in. Services own worker threads  *)
(* that use other services: a destructor joins its own worker only. When a *)
(* game folder was chosen the next session starts there.                   *)
(***************************************************************************)
EXTENDS Naturals, Sequences

CONSTANTS
  Roots,      \* the game folders there are
  NoRoot,     \* no game folder
  MaxStarts,  \* bound: operations and choices of the player in one run of the program
  Judged      \* the threads UsedIsAlive speaks of

ASSUME SessionBounds == NoRoot \notin Roots /\ MaxStarts \in Nat

VARIABLES
  at,        \* where the main thread is
  root,      \* ManagerSession::_installation
  pending,   \* GameLocationRequest::_pending
  alive,     \* the services that are built and not yet destroyed
  gossiping, \* TorrentSession::StartGossip was called
  todo,      \* per worker thread, what it still uses, step by step; <<>> when it ended
  phase,     \* InstallService::_progress.phase
  abandoned, \* InstallService::_abandoned
  stopping,  \* BaselineIndexService::_stopping
  window,    \* Win32Window and ApplicationState: what HandleClose_ reads
  dialog,    \* the dialog "Active operation" is open
  confirmed, \* Application::_exitConfirmed
  answered,  \* history: the exit was confirmed in the dialog
  relaunched, \* history: the updated program was started (ExecutableSwapper::Apply)
  starts

mainVars    == <<at, root, pending, alive, gossiping>>
workVars    == <<todo, phase, abandoned, stopping>>
windowVars  == <<window, dialog, confirmed, answered, relaunched>>
sessionVars == <<mainVars, workVars, windowVars, starts>>

-----------------------------------------------------------------------------
(* The services *)

\* The order in which Run declares them, whose reverse destroys them.
Declared ==
  <<"order", "identity", "preferences", "profiles", "registry", "announces", "receiver",
    "authenticator", "publish", "catalogue", "updater", "patcher", "installed", "baseline",
    "install", "removal", "mirror", "swarm", "updates", "window">>

\* The order in which Run builds them; without a game only those of the last line, and the swarm.
BuildOrder ==
  <<"swarm", "preferences", "order", "identity", "profiles", "registry", "announces", "receiver",
    "authenticator", "installed", "publish", "catalogue", "baseline", "install", "removal",
    "mirror", "updater", "patcher",
    "updates", "window">>

WithoutGame == {"swarm", "updates", "window"}

\* What the constructor of a service is given.
BuiltFrom(service) ==
  CASE service = "profiles"      -> {"order"}
    [] service = "receiver"      -> {"registry", "announces"}
    [] service = "authenticator" -> {"registry"}
    [] service = "publish"       -> {"receiver", "registry", "swarm", "installed"}
    [] service = "catalogue"     -> {"receiver", "publish", "authenticator", "registry",
                                     "installed", "swarm"}
    [] service = "install"       -> {"receiver", "publish", "authenticator", "swarm",
                                     "installed", "baseline"}
    [] service = "removal"       -> {"installed", "receiver", "order", "swarm", "install"}
    [] service = "mirror"        -> {"catalogue", "install"}
    [] service = "updater"       -> {"registry"}
    [] OTHER                     -> {}

Services == {Declared[i] : i \in DOMAIN Declared}
Workers  == {"install", "publish", "updater", "patcher", "baseline", "updates"}

\* What each worker uses of the other services, step by step.
Planning   == <<{"baseline"}, {"receiver", "installed"}, {"swarm"}>>
Repairing  == <<{}, {"receiver", "installed"}, {"swarm"}>>
Installing == <<{"installed"}, {"publish", "swarm"}>>
Publishing == <<{"receiver", "registry"}, {"receiver", "registry", "announces"}, {"swarm"}>>
Syncing    == <<{}, {"registry"}>>
Alone      == <<{}>>

\* libtorrent's network thread serves and takes announces while the swarm lives.
NetworkUses == IF gossiping THEN {"receiver", "registry", "announces"} ELSE {}

Idle(worker) == todo[worker] = <<>>

Runs(worker, work) == todo' = [todo EXCEPT ![worker] = work]

InstallBusy  == phase \in {"Planning", "Fetching", "Installing", "Verifying"}
PublishBusy  == ~Idle("publish")
UpdateBusy   == ~Idle("updates")
Present(service) == service \in alive

Wanted      == IF root = NoRoot THEN WithoutGame ELSE Services
LeftToBuild == Wanted \ alive

\* The service at place i is the first that is left to build ...
NextToBuild(i) ==
  BuildOrder[i] \in LeftToBuild /\ \A j \in 1..(i - 1) : BuildOrder[j] \notin LeftToBuild

\* ... or the last declared of those that are left to destroy.
NextToDestroy(i) ==
  Declared[i] \in alive /\ \A j \in (i + 1)..Len(Declared) : Declared[j] \notin alive

-----------------------------------------------------------------------------
(* Starting *)

NewWindow == [visible |-> TRUE, close |-> FALSE, explicit |-> FALSE, exit |-> FALSE, tray |-> FALSE]

Detect ==
  /\ at = "detect"
  /\ \E r \in Roots \union {NoRoot} : root' = r
  /\ at' = "build"
  /\ UNCHANGED <<pending, alive, gossiping, workVars, windowVars, starts>>

\* Services are built one after the other; the baseline's worker starts, and gossip does,
\* when everything of a game is there. Application::Start may fail.
Build ==
  /\ at = "build"
  /\ \E i \in DOMAIN BuildOrder :
       LET service == BuildOrder[i] IN
       /\ NextToBuild(i)
       /\ alive' = alive \union {service}
       /\ IF service = "install" THEN Runs("baseline", <<{}, {}>>) ELSE UNCHANGED todo
       /\ gossiping' = (gossiping \/ service = "patcher")
       /\ \/ service # "window" /\ at' = "build" /\ UNCHANGED window
          \/ /\ service = "window" /\ at' \in {"pump", "destroy"}
             /\ \E tray \in BOOLEAN : window' = [NewWindow EXCEPT !.tray = tray]
  /\ UNCHANGED <<root, pending, phase, abandoned, stopping, dialog, confirmed, answered, relaunched, starts>>

-----------------------------------------------------------------------------
(* The window loop *)

MainGoes(step) == at' = step /\ UNCHANGED <<root, pending, alive, gossiping>>

\* Win32Window::Close.
Close(explicit) == window' = [window EXCEPT !.close = TRUE, !.explicit = explicit]

\* Win32Window::Background: into the tray, or the task bar.
Background(w) == [w EXCEPT !.visible = FALSE]

\* NativeTrayIcon::RestoreWindow.
Foreground(w) == [w EXCEPT !.visible = TRUE]

\* The tray's icon and its Show bring the window back, and its Exit closes it too.
TrayHandles ==
  /\ ~window.visible
  /\ \/ window' = Foreground(window)
     \/ window' = [Foreground(window) EXCEPT !.close = TRUE, !.explicit = TRUE]

\* A window message: WM_CLOSE, or one of the tray's.
Message ==
  /\ at = "pump"
  /\ Close(FALSE) \/ TrayHandles
  /\ UNCHANGED <<mainVars, workVars, dialog, confirmed, answered, relaunched, starts>>

PumpEnds ==
  /\ at = "pump"
  /\ MainGoes(IF confirmed THEN "settle" ELSE "poll")
  /\ UNCHANGED <<workVars, windowVars, starts>>

\* InstallService::Poll: a fetch goes on, fails or completes, and a worker plans or installs.
PollInstall ==
  /\ at = "poll"
  /\ MainGoes("tick")
  /\ \/ UNCHANGED <<todo, phase>>
     \/ phase = "Fetching" /\ phase' = "Ended" /\ UNCHANGED todo
     \/ /\ phase = "Fetching" /\ Idle("install")
        /\ \/ phase' = "Planning"   /\ Runs("install", Planning)
           \/ phase' = "Installing" /\ Runs("install", Installing)
  /\ UNCHANGED <<abandoned, stopping, windowVars, starts>>

\* RegistryUpdateService::Tick, when an update is due.
TickRegistry ==
  /\ at = "tick"
  /\ MainGoes("close")
  /\ \/ UNCHANGED todo
     \/ Present("updater") /\ Idle("updater") /\ Runs("updater", Syncing)
  /\ UNCHANGED <<phase, abandoned, stopping, windowVars, starts>>

AtWork == InstallBusy \/ PublishBusy \/ UpdateBusy

\* Application::HandleClose_.
HandleClose ==
  /\ at = "close"
  /\ LET explicit == window.explicit \/ window.exit
         seen     == [window EXCEPT !.close = FALSE, !.explicit = FALSE, !.exit = FALSE]
     IN  \/ /\ ~window.close /\ ~window.exit
            /\ MainGoes("mirror") /\ UNCHANGED <<window, dialog, confirmed>>
         \/ /\ window.close \/ window.exit
            /\ window.tray /\ ~explicit
            /\ window' = Background(seen)
            /\ MainGoes("mirror") /\ UNCHANGED <<dialog, confirmed>>
         \/ /\ window.close \/ window.exit
            /\ ~window.tray \/ explicit
            /\ window' = seen
            /\ IF AtWork THEN dialog' = TRUE /\ MainGoes("mirror") /\ UNCHANGED confirmed
               ELSE confirmed' = TRUE /\ MainGoes("settle") /\ UNCHANGED dialog
  /\ UNCHANGED <<workVars, answered, relaunched, starts>>

\* MirrorService::Poll may install what is missing.
PollMirror ==
  /\ at = "mirror"
  /\ MainGoes(IF window.visible THEN "draw" ELSE "pump")
  /\ \/ UNCHANGED <<todo, phase, starts>>
     \/ /\ Present("mirror") /\ ~InstallBusy /\ Idle("install") /\ starts < MaxStarts
        /\ phase' = "Planning" /\ Runs("install", Planning) /\ starts' = starts + 1
  /\ UNCHANGED <<abandoned, stopping, windowVars>>

-----------------------------------------------------------------------------
(* What the player does in a frame *)

StartsWork ==
  \/ /\ Present("install") /\ ~InstallBusy /\ Idle("install")
     /\ \/ phase' = "Planning"  /\ Runs("install", Planning)
        \/ phase' = "Verifying" /\ Runs("install", Repairing)
        \/ phase' = "Fetching"  /\ UNCHANGED todo
     /\ UNCHANGED <<window, relaunched>>
  \/ /\ UNCHANGED <<phase, window, relaunched>>
     /\ \/ Present("publish") /\ Idle("publish") /\ Runs("publish", Publishing)
        \/ Present("patcher") /\ Idle("patcher") /\ Runs("patcher", Alone)
        \/ Idle("updates") /\ Runs("updates", Alone)
  \/ /\ Idle("updates") /\ relaunched' = TRUE /\ window' = [window EXCEPT !.exit = TRUE]
     /\ UNCHANGED <<todo, phase>>

\* "Choose game folder" is off while work is under way.
ChooseFolder ==
  /\ ~AtWork
  /\ \E r \in Roots : pending' = r
  /\ window' = [window EXCEPT !.exit = TRUE]

KeepOpen   == dialog' = FALSE /\ pending' = NoRoot /\ UNCHANGED <<confirmed, answered>>
ExitAnyway == dialog' = FALSE /\ confirmed' = TRUE /\ answered' = TRUE /\ UNCHANGED pending

\* A frame is drawn at the end of a round, and for every size while messages are pumped.
Frame ==
  /\ at = "draw" \/ (at = "pump" /\ window.visible)
  /\ at' = "pump"
  /\ \/ UNCHANGED <<pending, workVars, windowVars, starts>>
     \/ /\ ~dialog /\ Close(FALSE)
        /\ UNCHANGED <<pending, workVars, dialog, confirmed, answered, relaunched, starts>>
     \/ /\ ~dialog /\ starts < MaxStarts /\ starts' = starts + 1
        /\ \/ StartsWork /\ UNCHANGED pending
           \/ ChooseFolder /\ UNCHANGED <<todo, phase, relaunched>>
        /\ UNCHANGED <<abandoned, stopping, dialog, confirmed, answered>>
     \/ /\ dialog /\ UNCHANGED <<workVars, relaunched, starts>>
        /\ \/ KeepOpen /\ UNCHANGED window
           \/ KeepOpen /\ window' = Background(window)
           \/ ExitAnyway /\ UNCHANGED window
  /\ UNCHANGED <<root, alive, gossiping>>

-----------------------------------------------------------------------------
(* Leaving *)

(* Broken: an install under way is left to its destructor. *)
Settle_Leaves ==
  /\ at = "settle"
  /\ MainGoes("destroy")
  /\ UNCHANGED <<workVars, windowVars, starts>>

\* Application::SettleTransfers_ begins InstallService::Cancel, which cancels the fetch.
Settle ==
  /\ at = "settle"
  /\ MainGoes(IF Present("install") /\ InstallBusy THEN "cancel" ELSE "destroy")
  /\ abandoned' = (Present("install") /\ InstallBusy)
  /\ UNCHANGED <<todo, phase, stopping, windowVars, starts>>

\* Cancel has joined the worker.
Cancelled ==
  /\ at = "cancel" /\ Idle("install")
  /\ abandoned' = FALSE /\ phase' = "Idle"
  /\ MainGoes("destroy")
  /\ UNCHANGED <<todo, stopping, windowVars, starts>>

\* The destructor of the baseline index tells its worker to stop, and then joins it.
StopBaseline ==
  /\ at = "destroy" /\ ~stopping
  /\ \E i \in DOMAIN Declared : NextToDestroy(i) /\ Declared[i] = "baseline"
  /\ stopping' = TRUE
  /\ UNCHANGED <<mainVars, todo, phase, abandoned, windowVars, starts>>

\* A destructor waits for the service's own worker.
Destroy ==
  /\ at = "destroy"
  /\ \E i \in DOMAIN Declared :
       LET service == Declared[i] IN
       /\ NextToDestroy(i)
       /\ service \in Workers => Idle(service)
       /\ service = "baseline" => stopping
       /\ alive' = alive \ {service}
       /\ gossiping' = (gossiping /\ service # "swarm")
  /\ UNCHANGED <<at, root, pending, workVars, windowVars, starts>>

NoWork == [w \in Workers |-> <<>>]

\* wWinMain takes the folder that was chosen, or ends.
Again ==
  /\ at = "destroy" /\ alive = {}
  /\ at' = IF pending = NoRoot THEN "ended" ELSE "build"
  /\ root' = pending /\ pending' = NoRoot
  /\ todo' = NoWork /\ phase' = "Idle" /\ abandoned' = FALSE /\ stopping' = FALSE
  /\ window' = NewWindow /\ dialog' = FALSE /\ confirmed' = FALSE /\ answered' = FALSE
  /\ UNCHANGED <<alive, gossiping, relaunched, starts>>

Ended == at = "ended" /\ UNCHANGED sessionVars

-----------------------------------------------------------------------------
(* The workers *)

\* BaselineIndexService::AwaitCounterparts lets the planner go on.
BaselineLetsGo == Idle("baseline") \/ abandoned \/ stopping

InstallSteps ==
  /\ ~Idle("install")
  /\ Head(todo["install"]) = {"baseline"} => BaselineLetsGo
  /\ \/ Len(todo["install"]) > 1 /\ Runs("install", Tail(todo["install"])) /\ UNCHANGED phase
     \/ Runs("install", <<>>) /\ phase' = "Ended"              \* Conclude_, or abandoned
     \/ /\ Head(todo["install"]) = {"swarm"}                   \* StartFetch_
        /\ \/ Runs("install", <<>>) /\ phase' = "Fetching"
           \/ Runs("install", Installing) /\ phase' = "Installing"
  /\ UNCHANGED <<mainVars, abandoned, stopping, windowVars, starts>>

\* The others go on, or fail; the baseline's worker also ends when it is told to stop.
WorkerSteps(worker) ==
  /\ ~Idle(worker)
  /\ \/ Runs(worker, Tail(todo[worker]))
     \/ worker # "baseline" /\ Runs(worker, <<>>)
     \/ worker = "baseline" /\ stopping /\ Runs(worker, <<>>)
  /\ UNCHANGED <<mainVars, phase, abandoned, stopping, windowVars, starts>>

-----------------------------------------------------------------------------
SessionInit ==
  /\ at = "detect" /\ root = NoRoot /\ pending = NoRoot /\ alive = {} /\ gossiping = FALSE
  /\ todo = NoWork /\ phase = "Idle" /\ abandoned = FALSE /\ stopping = FALSE
  /\ window = NewWindow /\ dialog = FALSE /\ confirmed = FALSE /\ answered = FALSE
  /\ relaunched = FALSE /\ starts = 0

MainNext ==
  \/ Detect \/ Build
  \/ Message \/ PumpEnds \/ PollInstall \/ TickRegistry \/ HandleClose \/ PollMirror \/ Frame
  \/ Settle \/ Cancelled \/ StopBaseline \/ Destroy \/ Again

SessionNext ==
  \/ MainNext \/ Ended
  \/ InstallSteps
  \/ \E worker \in Workers \ {"install"} : WorkerSteps(worker)

SessionSpec == SessionInit /\ [][SessionNext]_sessionVars

-----------------------------------------------------------------------------
(* Properties *)

(* No thread uses a service before it was built or after it was destroyed: *)
(* what a worker's next step touches, what libtorrent's network thread may *)
(* touch at any moment, and what the next constructor is given, is alive.  *)
UsedIsAlive ==
  /\ \A worker \in Judged : ~Idle(worker) => Head(todo[worker]) \subseteq alive
  /\ NetworkUses \subseteq alive
  /\ at = "build" =>
       \A i \in DOMAIN BuildOrder : NextToBuild(i) => BuiltFrom(BuildOrder[i]) \subseteq alive

(* Leaving interrupts nothing the player was not asked about: once the     *)
(* window loop is left, work of the player's is under way only when the    *)
(* exit was confirmed in the dialog.                                       *)
LeavingIsAskedFor ==
  at \in {"settle", "cancel"} /\ ~answered => ~InstallBusy /\ ~PublishBusy /\ ~UpdateBusy

(* Once the updated program was started, this one changes no mod folder    *)
(* and publishes nothing any more: the two would share the data directory. *)
AloneOnTheData == relaunched => ~InstallBusy /\ ~PublishBusy
=============================================================================
