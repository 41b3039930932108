------------------------------- MODULE Updates --------------------------------
(***************************************************************************)
(* The program's own update (UpdateService, ExecutableSwapper) and the     *)
(* game's patcher (PatcherService, PatcherInstaller, PatcherMarker). Each  *)
(* service checks a release list in a worker thread and downloads a        *)
(* package; the window then swaps the running executable and starts the    *)
(* new one, and the patcher's worker copies its library into the game's    *)
(* folder. Releases are numbered in the order of their versions. A file is *)
(* a state and, when whole, the release it is of.                          *)
(***************************************************************************)
EXTENDS Naturals, Https

CONSTANTS
  MaxRelease,  \* bound: releases of the program and of the patcher
  MaxUpsets,   \* bound: releases, outages, failures of the system, crashes
  Withdraws,   \* bound: the services whose newest release may be withdrawn
  Sized,       \* whether the release list gives the size of an asset
  HardLuck     \* whether a swap may be cut between its renames, or fail to undo itself

ASSUME UpdateBounds ==
  /\ MaxRelease \in Nat /\ MaxUpsets \in Nat /\ Withdraws \subseteq {"program", "patcher"}
  /\ Sized \in BOOLEAN /\ HardLuck \in BOOLEAN

VARIABLES
  latest,     \* external: the newest release of "program" and "patcher"
  reachable,  \* external: requests are answered and files can be written
  executable, \* the files current, staged and retired of ExecutableSwapper
  running,    \* the release this process runs, 0 when it cannot be started
  image,      \* external: which of the files the process was loaded from
  place,      \* per service, where its worker or its Apply is; "idle" means _busy is false
  status,     \* per service, _status.phase
  available,  \* per service, _available, 0 with none
  game,       \* the proxy and the forward library in the game's folder, the staged proxy
  marker,     \* PatcherMarker: the tag on disk, 0 with none that can be read
  upsets

Parts == {"program", "patcher"}

webVars     == <<latest, reachable>>
programVars == <<executable, running, image>>
patcherVars == <<game, marker>>
stepVars    == <<place, status, available>>
updateVars  == <<webVars, programVars, patcherVars, stepVars, upsets>>

File(state, release) == [state |-> state, release |-> IF state = "whole" THEN release ELSE 0]
NoFile == File("none", 0)
Torn   == File("torn", 0)

Happens == upsets < MaxUpsets /\ upsets' = upsets + 1

At(s, step)       == running > 0 /\ place[s] = step
Goes(s, step)     == place' = [place EXCEPT ![s] = step] /\ UNCHANGED <<status, available>>
Ends(s, shown)    == /\ place' = [place EXCEPT ![s] = "idle"]
                     /\ status' = [status EXCEPT ![s] = shown]

-----------------------------------------------------------------------------
(* Checking and downloading, in each service's worker *)

\* Check, from a button that is off while the service is busy and means something else once
\* a release is available or ready.
Check(s) ==
  /\ At(s, "idle") /\ status[s] \notin {"available", "ready"}
  /\ place' = [place EXCEPT ![s] = "check"] /\ status' = [status EXCEPT ![s] = "checking"]
  /\ UNCHANGED <<webVars, programVars, patcherVars, available, upsets>>

\* Latest and ParseRelease: the newest release with an acceptable tag, asset and host.
Found(s, answer) == IF Readable(answer) THEN latest[s] ELSE 0

\* UpdateService::RunCheck_
ProgramIsChecked ==
  /\ At("program", "check")
  /\ \E answer \in Answers(reachable) :
       LET found == Found("program", answer) IN
       \/ found = 0 /\ Ends("program", "failed") /\ UNCHANGED available
       \/ /\ found > 0 /\ found <= running
          /\ Ends("program", "current") /\ available' = [available EXCEPT !["program"] = 0]
       \/ /\ found > running
          /\ Ends("program", "available") /\ available' = [available EXCEPT !["program"] = found]
  /\ UNCHANGED <<webVars, programVars, patcherVars, upsets>>

\* PatcherService::RunCheck_ compares the marker, and looks whether there is a proxy at all.
PatcherIsChecked ==
  /\ At("patcher", "check")
  /\ \E answer \in Answers(reachable) :
       LET found == Found("patcher", answer) IN
       \/ found = 0 /\ Ends("patcher", "failed") /\ UNCHANGED available
       \/ /\ found > 0 /\ available' = [available EXCEPT !["patcher"] = found]
          /\ Ends("patcher", IF game.proxy.state # "none" /\ marker = found
                             THEN "current" ELSE "available")
  /\ UNCHANGED <<webVars, programVars, patcherVars, upsets>>

\* UpdateService::Download and PatcherService::Install open the staged file.
StartDownload(s) ==
  /\ At(s, "idle") /\ status[s] = "available"
  /\ place' = [place EXCEPT ![s] = "open"] /\ status' = [status EXCEPT ![s] = "downloading"]
  /\ UNCHANGED <<webVars, programVars, patcherVars, available, upsets>>

\* The staged file of a service becomes f.
Stages(s, f) ==
  IF s = "program"
  THEN executable' = [executable EXCEPT !.staged = f] /\ UNCHANGED <<running, image, patcherVars>>
  ELSE game' = [game EXCEPT !.staged = f] /\ UNCHANGED <<programVars, marker>>

OpenStaged(s) ==
  /\ At(s, "open")
  /\ \/ Goes(s, "receive") /\ Stages(s, Torn)
     \/ ~reachable /\ Ends(s, "failed") /\ UNCHANGED <<available, programVars, patcherVars>>
  /\ UNCHANGED <<webVars, upsets>>

\* Broken: the size of what came is not compared.
Refused_Unsized(answer) == ~Downloaded(answer)

\* A download that failed, or that is not of the listed size, is removed.
Refused(answer) == ~Downloaded(answer) \/ (Sized /\ answer = "cut")

ReceivePackage(s) ==
  /\ At(s, "receive")
  /\ \E answer \in Answers(reachable) :
       IF Refused(answer) THEN Stages(s, NoFile) /\ Ends(s, "failed") /\ UNCHANGED available
       ELSE /\ Stages(s, File(FileAfter(answer), available[s]))
            /\ IF s = "program" THEN Ends(s, "ready") /\ UNCHANGED available
               ELSE Goes(s, "install")
  /\ UNCHANGED <<webVars, upsets>>

-----------------------------------------------------------------------------
(* ExecutableSwapper::Apply, in the window's thread *)

\* ApplyAndRestart. The old retired file is removed unless a process runs from it, and the
\* running executable makes way; or there is no staged file, or the rename fails.
Retire ==
  /\ At("program", "idle") /\ status["program"] = "ready"
  /\ \/ /\ executable.staged.state = "none"
        /\ Ends("program", "failed") /\ UNCHANGED <<executable, image, upsets>>
     \/ /\ executable.staged.state # "none" /\ image = "current"
        /\ executable' = [executable EXCEPT !.retired = executable.current, !.current = NoFile]
        /\ image' = "retired"
        /\ Goes("program", "retired") /\ UNCHANGED upsets
     \/ /\ Happens \/ (image = "retired" /\ UNCHANGED upsets)   \* a file in use stays
        /\ executable.staged.state # "none"
        /\ Ends("program", "failed") /\ UNCHANGED image
        /\ executable' = IF image = "current" THEN [executable EXCEPT !.retired = NoFile]
                         ELSE executable
  /\ UNCHANGED <<webVars, running, patcherVars, available>>

Restored(f) == [f EXCEPT !.current = f.retired, !.retired = NoFile]

\* The staged file takes its place, or the retired one goes back.
PutInPlace ==
  /\ At("program", "retired")
  /\ \/ /\ executable' = [executable EXCEPT !.current = executable.staged, !.staged = NoFile]
        /\ Goes("program", "relaunch") /\ UNCHANGED <<image, upsets>>
     \/ /\ Happens /\ Ends("program", "failed")
        /\ \/ executable' = Restored(executable) /\ image' = "current"
           \/ HardLuck /\ UNCHANGED <<executable, image>>
  /\ UNCHANGED <<webVars, running, patcherVars, available>>

\* A process starts: Main discards the retired file if no process runs from it.
Starts(discards) ==
  /\ executable.current.state = "whole"
  /\ running' = executable.current.release /\ image' = "current"
  /\ executable' = IF discards THEN [executable EXCEPT !.retired = NoFile] ELSE executable
  /\ place' = [s \in Parts |-> "idle"] /\ status' = [s \in Parts |-> "idle"]
  /\ available' = [s \in Parts |-> 0]

\* The new process is created and the window closes, which waits for the patcher's worker;
\* or it is not created and this process goes on.
Relaunch ==
  /\ At("program", "relaunch")
  /\ \/ place["patcher"] = "idle" /\ (\E discards \in BOOLEAN : Starts(discards)) /\ UNCHANGED upsets
     \/ Happens /\ Ends("program", "failed") /\ UNCHANGED <<programVars, available>>
  /\ UNCHANGED <<webVars, patcherVars>>

-----------------------------------------------------------------------------
(* PatcherInstaller::Install and PatcherMarker::Write, in the patcher's worker *)

\* The game or the system's library is missing, or a copy fails: the staged file is removed,
\* and what a copy wrote stays.
InstallFails ==
  /\ Happens
  /\ \E step \in {"install", "forward", "open_proxy", "proxy", "mods"} : At("patcher", step)
  /\ game' = [game EXCEPT !.staged = NoFile]
  /\ Ends("patcher", "failed")
  /\ UNCHANGED <<webVars, programVars, marker, available>>

Copies(from, to, changed) ==
  /\ At("patcher", from) /\ Goes("patcher", to)
  /\ game' = changed
  /\ UNCHANGED <<webVars, programVars, marker, upsets>>

\* Broken: the tag is recorded before the files are in place.
OpenForward_Marks ==
  /\ At("patcher", "install") /\ Goes("patcher", "forward")
  /\ game' = [game EXCEPT !.forward = Torn] /\ marker' = available["patcher"]
  /\ UNCHANGED <<webVars, programVars, upsets>>

\* The system's own library is copied under the name the proxy forwards to,
OpenForward == Copies("install", "forward", [game EXCEPT !.forward = Torn])
CopyForward == Copies("forward", "open_proxy", [game EXCEPT !.forward = File("whole", 1)])
\* ... then the staged library over the proxy,
OpenProxy   == Copies("open_proxy", "proxy", [game EXCEPT !.proxy = Torn])
CopyProxy   == Copies("proxy", "mods", [game EXCEPT !.proxy = game.staged])
\* ... and the folder of the mods is made and the staged file removed.
MakeMods    == Copies("mods", "mark", [game EXCEPT !.staged = NoFile])

\* The marker is written in place, and whether it could be is ignored.
OpenMarker ==
  /\ At("patcher", "mark")
  /\ \/ marker' = 0 /\ Goes("patcher", "write_mark") /\ UNCHANGED upsets
     \/ Happens /\ Ends("patcher", "current") /\ UNCHANGED <<marker, available>>
  /\ UNCHANGED <<webVars, programVars, game>>

WriteMarker ==
  /\ At("patcher", "write_mark") /\ Ends("patcher", "current") /\ UNCHANGED available
  /\ \/ marker' = available["patcher"] /\ UNCHANGED upsets
     \/ Happens /\ UNCHANGED marker
  /\ UNCHANGED <<webVars, programVars, game>>

-----------------------------------------------------------------------------
(* The web, and the program's life *)

NewRelease ==
  /\ Happens
  /\ \E s \in Parts, r \in 1..MaxRelease :
       /\ r > latest[s] \/ (s \in Withdraws /\ r < latest[s])
       /\ latest' = [latest EXCEPT ![s] = r]
  /\ UNCHANGED <<reachable, programVars, patcherVars, stepVars>>

WebChanges ==
  /\ Happens /\ reachable' = ~reachable
  /\ UNCHANGED <<latest, programVars, patcherVars, stepVars>>

\* Something else, a virus scanner for one, removes the staged executable.
StagedVanishes ==
  /\ Happens /\ At("program", "idle")
  /\ executable' = [executable EXCEPT !.staged = NoFile]
  /\ UNCHANGED <<webVars, running, image, patcherVars, stepVars>>

\* The process dies, and is started again unless there is no program to start.
Crash ==
  /\ Happens /\ running > 0
  /\ HardLuck \/ place["program"] # "retired"
  /\ \/ Starts(TRUE)
     \/ /\ executable.current.state # "whole"
        /\ running' = 0 /\ place' = [s \in Parts |-> "idle"]
        /\ UNCHANGED <<executable, image, status, available>>
  /\ UNCHANGED <<webVars, patcherVars>>

UpdatesInit ==
  /\ latest = [s \in Parts |-> 1] /\ reachable = TRUE
  /\ executable = [current |-> File("whole", 1), staged |-> NoFile, retired |-> NoFile]
  /\ running = 1 /\ image = "current"
  /\ place = [s \in Parts |-> "idle"] /\ status = [s \in Parts |-> "idle"]
  /\ available = [s \in Parts |-> 0]
  /\ game = [proxy |-> NoFile, forward |-> NoFile, staged |-> NoFile] /\ marker = 0
  /\ upsets = 0

UpdatesNext ==
  \/ \E s \in Parts : Check(s) \/ StartDownload(s) \/ OpenStaged(s) \/ ReceivePackage(s)
  \/ ProgramIsChecked \/ PatcherIsChecked
  \/ Retire \/ PutInPlace \/ Relaunch
  \/ InstallFails \/ OpenForward \/ CopyForward \/ OpenProxy \/ CopyProxy \/ MakeMods
  \/ OpenMarker \/ WriteMarker
  \/ NewRelease \/ WebChanges \/ StagedVanishes \/ Crash

UpdatesSpec == UpdatesInit /\ [][UpdatesNext]_updateVars

-----------------------------------------------------------------------------
(* Properties *)

\* An update leaves a program that starts: outside the swap itself there is a whole
\* executable at the program's path, through downloads that were cut, a swap that failed
\* half way or a new process that could not be created, and crashes.
ProgramCanStart ==
  place["program"] # "retired" => executable.current.state = "whole"

\* An update never goes back: what is at the program's path is no older than the release
\* that runs, whichever staged file of whichever earlier attempt was put there.
UpdatesGoForward == executable.current.state = "whole" => executable.current.release >= running

\* "Up to date" is true of the game's folder: the patcher shows it only with the release it
\* found last in place, whole, with the library it forwards to, after an installation that
\* failed or was cut off at any step.
CurrentIsInstalled ==
  status["patcher"] = "current" =>
    /\ game.proxy = File("whole", available["patcher"])
    /\ game.forward.state = "whole"
=============================================================================
