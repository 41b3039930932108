-------------------------------- MODULE Profiles --------------------------------
(***************************************************************************)
(* Profiles: saved load orders, each with a saved copy of the game's own   *)
(* profile. ProfileService keeps the active profile's order equal to the   *)
(* order shown, and exchanges the game's live file when another profile is *)
(* activated; an activation is several writes, and the program may end     *)
(* between any two. One account, with the game located; the contents of a  *)
(* game profile are numbers.                                               *)
(***************************************************************************)
EXTENDS LoadOrder, Functions

CONSTANTS
  Names,      \* profile names
  Default,    \* DEFAULT_PROFILE_NAME
  NoName,
  Windows,    \* what the passing run leaves out. "saving": a save, or the marker of
              \* a switch, fails half-way; "restoring": so does the copy of a game
              \* profile over the live one; "activation": a switch stops once the
              \* live one is exchanged; "removal": the active profile is removed,
              \* or only the game profile of another; "default": the default is set
              \* while it is active, or half-way
  MaxPlays    \* bound: how often the game writes its profile

ASSUME ProfileBounds ==
  /\ Default \in Names /\ NoName \notin Names /\ MaxPlays \in Nat
  /\ Windows \subseteq {"restoring", "activation", "removal", "default", "saving"}

VARIABLES
  profiles,   \* the profile files, by name
  games,      \* the copies of the game's profile beside them
  live,       \* the game's own file
  marker,     \* the file that names the active profile
  active,     \* ProfileService::_active
  step,       \* where the program stands
  meant,      \* what the user last made of each profile's order
  progress,   \* what the game last made of each profile
  plays

profileVars == <<profiles, games, live, marker, active, step, meant, progress, plays>>
libraryVars == <<orderVars, profileVars, commands, faults>>

NoGame   == 0
TornGame == MaxPlays + 1
Games    == 0..TornGame
Contents == 1..MaxPlays

Saved(order)  == [state |-> "ok", order |-> order]
NoProfile     == [state |-> "none", order |-> <<>>]
TornProfile   == [state |-> "torn", order |-> <<>>]
Loads(p)      == p # NoName /\ profiles[p].state = "ok"

(* The profiles the folder holds; a file that does not decode is passed     *)
(* over.                                                                   *)
LoadAll == {p \in Names : Loads(p)}

At(where, name) == [at |-> where, name |-> name]
Idle == At("idle", NoName)
Ended == At("ended", NoName)

LibraryInit ==
  /\ mods \in SUBSET Folders /\ file = <<>> /\ entries = <<>> /\ installed = {} /\ undo = <<>>
  /\ foreign = FALSE /\ commands = 0 /\ faults = 0
  /\ profiles = [p \in Names |-> NoProfile] /\ games = [p \in Names |-> NoGame]
  /\ live = NoGame /\ marker = NoName /\ active = NoName
  /\ step = Ended /\ meant = [p \in {} |-> <<>>] /\ progress = [p \in Names |-> NoGame] /\ plays = 0

With(f, p, x) == [q \in DOMAIN f \cup {p} |-> IF q = p THEN x ELSE f[q]]

-----------------------------------------------------------------------------
(* Files. Profiles and the marker are written in place; a copy that fails  *)
(* may leave part of itself behind.                                        *)

Save(p, order, ok) ==
  \/ ok /\ profiles' = [profiles EXCEPT ![p] = Saved(order)]
  \/ /\ ~ok /\ "saving" \in Windows
     /\ \E left \in {profiles[p], TornProfile} : profiles' = [profiles EXCEPT ![p] = left]

(* A marker with no name that may be one is no name. *)
ReadActive == marker

WriteActive(p, ok) == \/ ok /\ marker' = p
                      \/ ~ok /\ marker' \in {marker, NoName}

Copied(from, to, ok) == IF ok THEN {from} ELSE {to, TornGame}

(* SyncActive, once the entries are the new ones. *)
SyncActive(order, ok) ==
  IF Loads(active)
  THEN /\ Save(active, order, ok)
       /\ active' = IF ok THEN ReadActive ELSE active
  ELSE ok /\ UNCHANGED <<profiles, active>>

(* Capture and Restore look for the magic, which a torn copy has too. *)
Capture(p, ok) ==
  \E copy \in Copied(live, games[p], ok) : games' = [games EXCEPT ![p] = copy]

-----------------------------------------------------------------------------
(* The program starts: OrderService reads the order, EnsureDefaults makes  *)
(* the first profile, SyncActive brings the active one up to date.         *)
Start ==
  /\ step = Ended /\ step' = Idle
  /\ Refresh(mods)
  /\ LET fresh == LoadAll = {}
         name == IF fresh THEN Default ELSE ReadActive
         written == name # NoName /\ (fresh \/ Loads(name))
     IN /\ marker' = name /\ active' = name
        /\ profiles' = IF written THEN [profiles EXCEPT ![name] = Saved(entries')] ELSE profiles
        /\ games' = IF fresh /\ live # NoGame THEN [games EXCEPT ![Default] = live] ELSE games
        /\ progress' = IF fresh THEN [progress EXCEPT ![Default] = live] ELSE progress
        /\ meant' = IF written /\ (fresh \/ name \notin DOMAIN meant)
                    THEN With(meant, name, Enabled(entries')) ELSE meant
  /\ UNCHANGED <<mods, file, live, plays, commands, faults>>

(* The order is edited: the change handler saves it to the active profile. *)
EditOrder ==
  /\ step = Idle /\ Command
  /\ \E ok, synced \in BOOLEAN :
       /\ Works(ok /\ synced)
       /\ Edits(ok)
       /\ IF ok THEN SyncActive(entries', synced) ELSE synced /\ UNCHANGED <<profiles, active>>
       /\ meant' = IF ok /\ Loads(active) THEN With(meant, active, Enabled(entries')) ELSE meant
  /\ UNCHANGED <<mods, installed, games, live, marker, step, progress, plays>>

(* An install is adopted: Application::AdoptFinishedInstalls_. *)
AdoptInstall(f) ==
  /\ step = Idle /\ f \notin mods /\ Command
  /\ mods' = mods \cup {f}
  /\ Refresh(mods')
  /\ active' = ReadActive
  /\ UNCHANGED <<file, profiles, games, live, marker, step, meant, progress, plays, faults>>

(* ModRemovalService: a folder is disabled, the order read again, and the   *)
(* folder deleted, whether or not the order could be written.              *)
RemoveMod(f) ==
  /\ step = Idle /\ f \in mods /\ mods' = mods \ {f} /\ Command
  /\ \E ok, synced \in BOOLEAN :
       /\ Works(ok /\ synced)
       /\ IF ok /\ f \in Range(Enabled(entries))
          THEN LET new == Toggled(f) IN
                 /\ file' = Enabled(new) /\ undo' = Remembered /\ foreign' = FALSE
                 /\ entries' \in {Refreshed(read, new, mods) : read \in Reads(file')}
                 /\ installed' = mods
                 /\ SyncActive(new, synced)
                 /\ meant' = IF Loads(active) THEN With(meant, active, file') ELSE meant
          ELSE /\ ~ok => f \in Range(Enabled(entries))
               /\ Refresh(mods) /\ synced /\ UNCHANGED <<file, profiles, active, meant>>
  /\ UNCHANGED <<games, live, marker, step, progress, plays>>

-----------------------------------------------------------------------------
(* The profiles screen.                                                    *)

(* What is live becomes the new profile's. *)
CaptureCurrent(p) ==
  /\ step = Idle /\ profiles[p].state = "none" /\ Command
  /\ \E copied, saved, marked \in BOOLEAN :
       /\ Works(copied /\ saved /\ marked)
       /\ IF live = NoGame THEN copied /\ UNCHANGED games ELSE Capture(p, copied)
       /\ IF copied THEN Save(p, entries, saved) ELSE saved /\ UNCHANGED profiles
       /\ IF copied /\ saved
          THEN /\ WriteActive(p, marked) /\ active' = marker'
               /\ meant' = IF foreign THEN meant ELSE With(meant, p, Enabled(entries))
               /\ progress' = [q \in Names |-> IF q = p THEN live
                                               ELSE IF q = active /\ active' # active THEN games[q] ELSE progress[q]]
          ELSE marked /\ UNCHANGED <<marker, active, meant, progress>>
  /\ UNCHANGED <<orderVars, live, step, plays>>

Clone(s, p) ==
  /\ step = Idle /\ Loads(s) /\ profiles[p].state = "none" /\ Command
  /\ \E copied, saved \in BOOLEAN :
       /\ Works(copied /\ saved)
       /\ IF games[s] = NoGame THEN copied /\ UNCHANGED games
          ELSE \E copy \in Copied(games[s], games[p], copied) : games' = [games EXCEPT ![p] = copy]
       /\ IF copied THEN Save(p, profiles[s].order, saved) ELSE saved /\ UNCHANGED profiles
       /\ IF copied /\ saved
          THEN /\ active' = ReadActive
               /\ meant' = IF s \in DOMAIN meant THEN With(meant, p, meant[s]) ELSE meant
               /\ progress' = [progress EXCEPT ![p] = games[s]]
          ELSE UNCHANGED <<active, meant, progress>>
  /\ UNCHANGED <<orderVars, live, marker, step, plays>>

(* Whether the copy of the game profile could be removed is ignored, and    *)
(* whether the default could be made the active one.                        *)
RemoveProfile(p) ==
  /\ step = Idle /\ p # Default /\ profiles[p].state # "none" /\ Command
  /\ p = active => "removal" \in Windows
  /\ \E emptied, erased, marked \in BOOLEAN :
       /\ Works(emptied /\ erased /\ marked)
       /\ emptied /\ ~erased => "removal" \in Windows
       /\ games' = IF emptied THEN [games EXCEPT ![p] = NoGame] ELSE games
       /\ IF erased
          THEN /\ profiles' = [profiles EXCEPT ![p] = NoProfile]
               /\ IF p = active THEN WriteActive(Default, marked) ELSE marked /\ UNCHANGED marker
               /\ active' = marker'
               /\ meant' = [q \in DOMAIN meant \ {p} |-> meant[q]]
               /\ progress' = [progress EXCEPT ![p] = NoGame]
          ELSE marked /\ UNCHANGED <<profiles, marker, active, meant, progress>>
  /\ UNCHANGED <<orderVars, live, step, plays>>

(* Activate: the outgoing profile keeps the live game profile ... *)
KeepLive(p, ok) ==
  IF active = p \/ ~Loads(active) \/ live = NoGame
  THEN ok /\ UNCHANGED games
  ELSE Capture(active, ok)

(* Broken: the live game profile is not kept. *)
Activate_KeepsNothing(p) ==
  /\ step = Idle /\ Loads(p) /\ Command
  /\ step' = At("restore", p)
  /\ UNCHANGED <<orderVars, profiles, games, live, marker, active, meant, progress, plays, faults>>

Activate(p) ==
  /\ step = Idle /\ Loads(p) /\ Command
  /\ \E ok \in BOOLEAN : Works(ok) /\ KeepLive(p, ok) /\ step' = IF ok THEN At("restore", p) ELSE Idle
  /\ UNCHANGED <<orderVars, profiles, live, marker, active, meant, progress, plays>>

(* ... its own is restored, once the live file is backed up (the backup is
   never read) ... *)
RestoreGame(p) ==
  /\ step = At("restore", p)
  /\ \E backed, ok \in BOOLEAN :
       /\ Works(backed /\ ok)
       /\ ~backed => ok
       /\ ~ok => "restoring" \in Windows
       /\ step' = IF backed /\ ok THEN At("apply", p) ELSE Idle
       /\ IF games[p] = NoGame
          THEN backed /\ ok /\ UNCHANGED live
          ELSE /\ live' \in IF backed THEN Copied(games[p], live, ok) ELSE {live}
               /\ live = NoGame => backed
       /\ progress' = IF backed /\ p = active /\ games[p] # NoGame THEN [progress EXCEPT ![p] = games[p]] ELSE progress
  /\ UNCHANGED <<orderVars, profiles, games, marker, active, meant, plays, commands>>

(* ... its order is applied ... *)
(* Broken: the change handler hears of it. *)
ApplyOrder_Announced(p) ==
  /\ step = At("apply", p)
  /\ Apply(profiles[p].order, TRUE)
  /\ SyncActive(entries', TRUE)
  /\ step' = At("mark", p)
  /\ UNCHANGED <<mods, installed, games, live, marker, meant, progress, plays, commands, faults>>

ApplyOrder(p) ==
  /\ step = At("apply", p)
  /\ \E ok \in BOOLEAN :
       /\ Works(ok)
       /\ ~ok => "activation" \in Windows
       /\ Apply(profiles[p].order, ok)
       /\ step' = IF ok THEN At("mark", p) ELSE Idle
  /\ UNCHANGED <<mods, installed, profiles, games, live, marker, active, meant, progress, plays, commands>>

(* ... and it becomes the active one. The screen refreshes the order then. *)
MarkActive(p) ==
  /\ step = At("mark", p) /\ step' = Idle
  /\ \E ok \in BOOLEAN :
       /\ Works(ok)
       /\ ~ok => "saving" \in Windows
       /\ WriteActive(p, ok)
       /\ IF ok THEN active' = marker' /\ Refresh(mods) ELSE UNCHANGED <<active, entries, installed, undo, foreign>>
  /\ UNCHANGED <<mods, file, profiles, games, live, meant, progress, plays, commands>>

(* Another saved game profile is made the default's. *)
SetDefault(c) ==
  /\ step = Idle /\ Command
  /\ active = Default => "default" \in Windows
  /\ \E copied, saved \in BOOLEAN :
       /\ Works(copied /\ saved)
       /\ \E copy \in Copied(c, games[Default], copied) : games' = [games EXCEPT ![Default] = copy]
       /\ copied \/ games' = games \/ "default" \in Windows
       /\ IF copied
          THEN /\ Save(Default, IF Loads(Default) THEN profiles[Default].order ELSE entries, saved)
               /\ progress' = [progress EXCEPT ![Default] = c]
          ELSE saved /\ UNCHANGED <<profiles, progress>>
       /\ IF copied /\ saved
          THEN /\ active' = ReadActive
               /\ meant' = IF Loads(Default) THEN meant ELSE With(meant, Default, Enabled(entries))
          ELSE UNCHANGED <<active, meant>>
  /\ UNCHANGED <<orderVars, live, marker, step, plays>>

-----------------------------------------------------------------------------
(* The program ends; others write its files. The game is not running while *)
(* a profile is activated.                                                 *)
End ==
  /\ step # Ended /\ Fault /\ step' = Ended
  /\ step.at \in {"apply", "mark"} => "activation" \in Windows
  /\ entries' = <<>> /\ installed' = {} /\ undo' = <<>> /\ active' = NoName
  /\ UNCHANGED <<mods, file, foreign, profiles, games, live, marker, meant, progress, plays, commands>>

Plays ==
  /\ step \in {Idle, Ended} /\ plays < MaxPlays
  /\ plays' = plays + 1 /\ live' = plays'
  /\ progress' = LET p == IF step = Idle THEN active ELSE marker
                 IN IF Loads(p) THEN [progress EXCEPT ![p] = live'] ELSE progress
  /\ UNCHANGED <<orderVars, profiles, games, marker, active, step, meant, commands, faults>>

(* The active profile follows what others make of the order at some time. *)
Outside ==
  /\ step \in {Idle, Ended} /\ Command
  /\ WrittenOutside
  /\ meant' = LET p == IF step = Idle THEN active ELSE marker IN [q \in DOMAIN meant \ {p} |-> meant[q]]
  /\ UNCHANGED <<profiles, games, live, marker, active, step, progress, plays, faults>>

LibraryNext ==
  \/ Start \/ EditOrder \/ End \/ Plays \/ Outside
  \/ \E f \in Folders : AdoptInstall(f) \/ RemoveMod(f)
  \/ \E p \in Names : \/ CaptureCurrent(p) \/ RemoveProfile(p) \/ (\E s \in Names : Clone(s, p))
                      \/ Activate(p) \/ RestoreGame(p) \/ ApplyOrder(p) \/ MarkActive(p)
  \/ \E c \in Contents : c <= plays /\ SetDefault(c)

LibrarySpec == LibraryInit /\ [][LibraryNext]_libraryVars

-----------------------------------------------------------------------------
ProfilesTypeOK ==
  /\ OrderTypeOK
  /\ profiles \in [Names -> [state : {"ok", "none", "torn"}, order : Orders]]
  /\ games \in [Names -> Games] /\ live \in Games
  /\ marker \in Names \cup {NoName} /\ active \in Names \cup {NoName}
  /\ step \in [at : {"idle", "ended", "restore", "apply", "mark"}, name : Names \cup {NoName}]
  /\ DOMAIN meant \subseteq Names /\ progress \in [Names -> Games] /\ plays \in 0..MaxPlays

(* What the list shows as enabled is what the game will load, unless       *)
(* another program wrote the file since it was last read.                  *)
ShownIsOnDisk == step # Ended /\ ~foreign => file = Enabled(entries)

(* An undo takes back one change: no remembered order is further than one  *)
(* change from the one that followed it, whatever was installed, removed,  *)
(* activated or written by others since.                                   *)
UndoIsOneChange ==
  step # Ended =>
    LET history == Append(undo, entries) IN
      \A i \in DOMAIN undo : OneChange(Enabled(history[i]), Enabled(history[i + 1]))

(* A profile's saved order is what the user last made of it.               *)
OrdersAreKept ==
  step = Idle => \A p \in DOMAIN meant : Loads(p) /\ Enabled(profiles[p].order) = meant[p]

(* Switching keeps what the game last made of each profile: it is the live *)
(* file of the active profile, or in the copy beside the profile.          *)
GameProfilesAreKept ==
  \A p \in Names :
    progress[p] # NoGame => games[p] = progress[p] \/ (p \in {active, marker} /\ live = progress[p])
===============================================================================
