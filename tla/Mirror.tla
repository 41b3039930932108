-------------------------------- MODULE Mirror --------------------------------
(***************************************************************************)
(* Mirroring (MirrorService, MirrorSwitch): with the switch on, the frame  *)
(* loop starts the installation of one release after the other that is not *)
(* installed or is outdated, whenever the install service is idle. Each    *)
(* installation waits for the baseline index as one of Baseline's waiters. *)
(***************************************************************************)
EXTENDS Baseline

CONSTANTS
  Counterparts, \* per mod, the packs its payload has counterparts of
  Mods,        \* rows of the catalogue of releases, 1 to their number
  MaxRelease,  \* bound: versions of one mod
  Unseeded     \* mods whose installation always fails, because nobody offers the content

ASSUME MirrorBounds ==
  /\ Mods \subseteq Nat \ {0} /\ MaxRelease \in Nat \ {0} /\ Unseeded \subseteq Mods
  /\ \A m \in Mods : Counterparts[m] \subseteq Files

VARIABLES
  rows,     \* CatalogService::Rows, in their order: installed and newest version, revoked
  enabled,  \* MirrorService::_enabled
  switch,   \* MirrorSwitch's file: "none", "torn", "on", "off"
  target    \* the mod and the release the running installation is of

mirrorVars == <<rows, enabled, switch, target>>
allVars    == <<baselineVars, mirrorVars>>

NoTarget == [mod |-> 0, release |-> 0]

\* Broken: an outdated mod counts as installed.
Wanted_Installed(m) == ~rows[m].revoked /\ rows[m].installed = 0

\* Wanted_: not revoked, and not installed or outdated.
Wanted(m) == ~rows[m].revoked /\ rows[m].installed < rows[m].newest

\* The constructor loads the switch; a mark it does not know is off.
OpensMirror ==
  /\ OpenSession
  /\ enabled' = (switch = "on") /\ target' = NoTarget
  /\ UNCHANGED <<rows, switch>>

\* SetEnabled, from the settings: the choice holds at once, its file is written in place and
\* what becomes of it is not looked at.
SetEnabled(on) ==
  /\ session = "open" /\ enabled # on /\ Happens
  /\ enabled' = on
  /\ switch' \in {switch, "torn", IF on THEN "on" ELSE "off"}
  /\ UNCHANGED <<rows, target, worldVars, records, session, worker, scanned, catalogue,
                 indexVars, waiter>>

\* The install service starts on the release of m that is newest now; it waits for the packs
\* its manifest has counterparts of.
Starts(m) ==
  /\ Await(Counterparts[m])
  /\ target' = [mod |-> m, release |-> rows[m].newest]

\* NextCandidate_: the first wanted row.
IsCandidate(m) == Wanted(m) /\ \A n \in 1..(m - 1) : ~Wanted(n)

\* Poll: mirroring is on, nothing is being installed, and the interval has passed.
Poll ==
  /\ enabled /\ target = NoTarget
  /\ \E m \in Mods : IsCandidate(m) /\ Starts(m)
  /\ UNCHANGED <<rows, enabled, switch, events>>

\* The user installs a mod from the catalogue.
UserInstalls(m) ==
  /\ target = NoTarget /\ ~rows[m].revoked /\ Happens
  /\ Starts(m)
  /\ UNCHANGED <<rows, enabled, switch>>

\* The installation ends: the release it began with is installed, whatever was announced since,
\* or it failed or was abandoned.
InstallEnds ==
  /\ WaiterEnds /\ target' = NoTarget
  /\ \/ /\ waiter.step = "plan" /\ target.mod \notin Unseeded
        /\ rows' = [rows EXCEPT ![target.mod].installed = target.release]
     \/ (waiter.step = "over" \/ target.mod \in Unseeded \/ session # "open") /\ UNCHANGED rows
  /\ UNCHANGED <<enabled, switch>>

InstallFails ==
  /\ waiter.step = "plan" /\ Happens
  /\ waiter' = NoWaiter /\ target' = NoTarget
  /\ UNCHANGED <<rows, enabled, switch, worldVars, records, session, worker, scanned,
                 catalogue, indexVars>>

\* A newer release is announced, its publisher is revoked, or the mod is removed.
RowChanges(m) ==
  /\ Happens
  /\ \/ rows[m].newest < MaxRelease /\ rows' = [rows EXCEPT ![m].newest = @ + 1]
     \/ ~rows[m].revoked /\ rows' = [rows EXCEPT ![m].revoked = TRUE]
     \/ rows[m].installed > 0 /\ target.mod # m /\ rows' = [rows EXCEPT ![m].installed = 0]
  /\ UNCHANGED <<enabled, switch, target, worldVars, records, session, worker, scanned,
                 catalogue, indexVars, waiter>>

MirrorInit ==
  /\ BaselineInit
  /\ rows = [m \in Mods |-> [installed |-> 0, newest |-> 1, revoked |-> FALSE]]
  /\ enabled = FALSE /\ switch \in {"none", "on"} /\ target = NoTarget

MirrorNext ==
  \/ OpensMirror
  \/ IndexNext /\ UNCHANGED mirrorVars
  \/ Crash /\ target' = NoTarget /\ UNCHANGED <<rows, enabled, switch>>
  \/ Poll \/ InstallEnds \/ InstallFails
  \/ \E on \in BOOLEAN : SetEnabled(on)
  \/ \E m \in Mods : UserInstalls(m) \/ RowChanges(m)

\* Threads run on: the index's worker, the installation's, the frames that poll, and the
\* window's thread once it closes the session.
MirrorFairness ==
  /\ WF_allVars(WorkerStep /\ UNCHANGED mirrorVars)
  /\ WF_allVars((WaitEnds \/ DiscardChanged) /\ UNCHANGED mirrorVars)
  /\ WF_allVars(InstallEnds) /\ WF_allVars(Poll)
  /\ WF_allVars((Stop \/ Joined) /\ UNCHANGED mirrorVars)

MirrorSpec == MirrorInit /\ [][MirrorNext]_allVars /\ MirrorFairness

-----------------------------------------------------------------------------
(* Properties *)

\* An installation that waits for the index comes out of the wait, whatever happens to the
\* packs it waits for and to the program.
WaitsEnd == waiter.step = "waiting" ~> waiter.step # "waiting"

\* With mirroring left on in an open session, every release that can be installed is in the
\* end installed in its newest version. With a release nobody offers it does not hold: the
\* first wanted row is tried again and again, and the rows behind it never.
MirrorCatchesUp ==
  <>[](enabled /\ session = "open") =>
    <>[](\A m \in Mods \ Unseeded : rows[m].revoked \/ rows[m].installed = rows[m].newest)

\* The switch survives a restart. It does not hold: the file is written in place and its
\* failure ignored, so a user who turned mirroring off may find it on.
SwitchIsKept == enabled = (switch = "on") \/ session = "closed"
=============================================================================
