-------------------------------- MODULE Swarm ---------------------------------
(***************************************************************************)
(* What TorrentSession keeps up to date on every torrent: which peers were *)
(* dialled (PeerDialer) and at which rate it may run (TransferBudget). The *)
(* window's thread announces seeds, polls and sets the budget; the         *)
(* installer's thread begins fetches and stops seeds; libtorrent's network *)
(* thread notes the peers that announced a port (AnnounceExchange).        *)
(***************************************************************************)
EXTENDS Integers, FiniteSets

CONSTANTS
  Endpoints,    \* peers elsewhere, an address and a port
  Ports,        \* PeerDialer: the ports neighbours on this machine listen on
  OwnPort,      \* the one this session listens on
  Releases,
  Budgets,      \* the link budgets the player may set, 0 for none
  Reserve,      \* CONTROL_CHANNEL_RESERVE_BYTES_PER_SECOND
  LeastRate,    \* MINIMUM_BULK_RATE_BYTES_PER_SECOND
  MaxNoted,     \* MAXIMUM_TRACKED_PEERS, the length of AnnounceExchange::_noted
  MaxChanges,   \* bound: budgets set, seeds and fetches begun, restarts
  Races         \* whether the budget may be set between a fetch's cap and its adoption

ASSUME SwarmBounds ==
  /\ OwnPort \in Ports /\ Budgets \subseteq Nat /\ 0 \in Budgets
  /\ "control" \notin Releases /\ "fetch" \notin Releases
  /\ Reserve \in Nat /\ LeastRate \in Nat \ {0}
  /\ MaxNoted \in Nat /\ MaxChanges \in Nat /\ Races \in BOOLEAN

VARIABLES
  control,  \* TorrentSession::_control is there
  seeds,    \* SeedRoster
  active,   \* FetchState::_fetching is there
  dialled,  \* per torrent of the session, the endpoints it was told to connect to
  ceiling,  \* per torrent of the session, its rate limits; 0 for none
  noted,    \* AnnounceExchange::_noted
  manual,   \* PeerDialer::_manualPeers
  budget,   \* TorrentSession::_linkBudget
  budgetFile,    \* TransferBudget's file
  chosen,   \* history: the budget set last, while its file was whole
  step,     \* per thread, what it is at
  doing,    \* the peers the window's thread took, or the seed it adds
  changes

torrentVars == <<control, seeds, active, dialled, ceiling>>
peerVars    == <<noted, manual>>
budgetVars  == <<budget, budgetFile, chosen>>
threadVars  == <<step, doing, changes>>
swarmVars   == <<torrentVars, peerVars, budgetVars, threadVars>>

Callers    == {"window", "worker"}
Control    == "control"
TheFetch   == "fetch"
Torrents   == Releases \union {Control, TheFetch}
Neighbours == Ports \ {OwnPort}
Torn       == -1
Unlimited  == 0

Stands(t, s)     == step[t] = s
Goes(t, s)   == step' = [step EXCEPT ![t] = s]
Calls(t, s)  == Stands(t, "idle") /\ Goes(t, s) /\ changes < MaxChanges /\ changes' = changes + 1

-----------------------------------------------------------------------------
(* Dialling and limits *)

\* PeerDialer::DialManual on some torrents.
DialManual(torrents, peers) ==
  dialled' = [h \in Torrents |-> IF h \in torrents THEN dialled[h] \union peers ELSE dialled[h]]

Ceiling(b) ==
  IF b = Unlimited THEN Unlimited
  ELSE IF b - Reserve < LeastRate THEN LeastRate ELSE b - Reserve

Cap(torrents, b) ==
  ceiling' = [h \in Torrents |-> IF h \in torrents THEN Ceiling(b) ELSE ceiling[h]]

Active == IF active THEN {TheFetch} ELSE {}
Held   == IF control THEN {Control} ELSE {}

-----------------------------------------------------------------------------
(* Starting: the constructor, RestoreTransferBudget and StartGossip *)

\* An empty file reads as 0, which is no limit.
Restored(file) == IF file = Torn THEN Unlimited ELSE file

\* The control torrent's payload may not be writable: then no torrent carries the gossip.
Start ==
  /\ control' \in BOOLEAN
  /\ seeds' = {} /\ active' = FALSE
  /\ dialled' = [h \in Torrents |-> {}] /\ ceiling' = [h \in Torrents |-> Unlimited]
  /\ noted' = {} /\ manual' = {}
  /\ step' = [t \in Callers |-> "idle"] /\ doing' = {}

\* The program ends, or is ended, and starts again.
StartAgain ==
  /\ changes < MaxChanges /\ changes' = changes + 1
  /\ Start
  /\ budget' = Restored(budgetFile)
  /\ UNCHANGED <<budgetFile, chosen>>

-----------------------------------------------------------------------------
(* The network thread: AnnounceExchange::NotePeer *)

NotePeer ==
  /\ \E p \in Endpoints \ noted : noted' = noted \union {p}
  /\ Cardinality(noted) < MaxNoted
  /\ UNCHANGED <<torrentVars, manual, budgetVars, threadVars>>

-----------------------------------------------------------------------------
(* The window's thread: Announce, Poll, SetLinkBudget *)

\* Announce adds a capped torrent to the session and to the roster ...
AnnounceSeed ==
  /\ Calls("window", "announced")
  /\ \E m \in Releases \ seeds :
       /\ seeds' = seeds \union {m} /\ doing' = {m}
       /\ Cap({m}, budget)
       /\ dialled' = [dialled EXCEPT ![m] = {}]
  /\ UNCHANGED <<control, active, peerVars, budgetVars>>

\* ... and dials, unless the installer stopped the seed in the meantime.
DialSeed ==
  /\ Stands("window", "announced")
  /\ DialManual(doing \intersect seeds, manual \union Neighbours)
  /\ Goes("window", "idle") /\ doing' = {}
  /\ UNCHANGED <<control, seeds, active, ceiling, peerVars, budgetVars, changes>>

\* Poll takes what was noted; peers are added one after the other.
TakeNotedPeers ==
  /\ Stands("window", "idle")
  /\ doing' = noted /\ noted' = {}
  /\ Goes("window", "peers")
  /\ UNCHANGED <<torrentVars, manual, budgetVars, changes>>

\* AddGossipPeer: the peer joins the list, the control torrent and the seeds dial the list ...
AddGossipPeer ==
  /\ Stands("window", "peers")
  /\ \E p \in doing : manual' = manual \union {p} /\ doing' = doing \ {p}
  /\ DialManual(Held \union seeds, manual')
  /\ Goes("window", "fetchpeer")
  /\ UNCHANGED <<control, seeds, active, ceiling, noted, budgetVars, changes>>

(* Broken: the fetch is left to what it dialled when it began. *)
DialFetch_Not ==
  /\ Stands("window", "fetchpeer")
  /\ Goes("window", "peers")
  /\ UNCHANGED <<torrentVars, peerVars, budgetVars, doing, changes>>

\* ... and the fetch, if there is one by now.
DialFetch ==
  /\ Stands("window", "fetchpeer")
  /\ DialManual(Active, manual)
  /\ Goes("window", "peers")
  /\ UNCHANGED <<control, seeds, active, ceiling, peerVars, budgetVars, doing, changes>>

\* DialLoopbackNeighbours_, every few polls: torrents that have no peers, and the fetch.
DialNeighbours ==
  /\ Stands("window", "peers") /\ doing = {}
  /\ \/ UNCHANGED dialled
     \/ \E alone \in SUBSET (Held \union seeds) :
          dialled' = [h \in Torrents |->
            dialled[h] \union (IF h \in alone \union Active THEN Neighbours ELSE {})
                       \union (IF h \in Active THEN manual ELSE {})]
  /\ Goes("window", "idle")
  /\ UNCHANGED <<control, seeds, active, ceiling, peerVars, budgetVars, doing, changes>>

MayOverlap == Races \/ ~Stands("worker", "added")

\* SetLinkBudget sets the budget, opens the file, writes it and caps the seeds and the fetch.
SetLinkBudget ==
  /\ MayOverlap
  /\ Calls("window", "save")
  /\ \E b \in Budgets \ {budget} : budget' = b
  /\ budgetFile' = Torn
  /\ UNCHANGED <<torrentVars, peerVars, chosen, doing>>

SaveBudget ==
  /\ Stands("window", "save")
  /\ budgetFile' = budget /\ chosen' = budget
  /\ Cap(seeds, budget)
  /\ Goes("window", "capfetch")
  /\ UNCHANGED <<control, seeds, active, dialled, peerVars, budget, doing, changes>>

(* Broken: a new budget is given to the seeds only. *)
CapFetch_Not ==
  /\ Stands("window", "capfetch")
  /\ Goes("window", "idle")
  /\ UNCHANGED <<torrentVars, peerVars, budgetVars, doing, changes>>

CapFetch ==
  /\ Stands("window", "capfetch")
  /\ MayOverlap
  /\ Cap(Active, budget)
  /\ Goes("window", "idle")
  /\ UNCHANGED <<control, seeds, active, dialled, peerVars, budgetVars, doing, changes>>

-----------------------------------------------------------------------------
(* The installer's thread: StopSeeding, and Begin *)

StopSeed ==
  /\ Stands("worker", "idle")
  /\ \E m \in seeds : /\ seeds' = seeds \ {m}
                      /\ dialled' = [dialled EXCEPT ![m] = {}]
                      /\ ceiling' = [ceiling EXCEPT ![m] = Unlimited]
  /\ UNCHANGED <<control, active, peerVars, budgetVars, threadVars>>

\* The fetch is cancelled, by Begin itself or by the player.
Retire ==
  /\ active
  /\ active' = FALSE
  /\ dialled' = [dialled EXCEPT ![TheFetch] = {}]
  /\ ceiling' = [ceiling EXCEPT ![TheFetch] = Unlimited]
  /\ UNCHANGED <<control, seeds, peerVars, budgetVars, threadVars>>

\* Begin adds a torrent to the session and caps it ...
BeginFetch ==
  /\ ~active
  /\ Races \/ step["window"] \notin {"save", "capfetch"}
  /\ Calls("worker", "added")
  /\ Cap({TheFetch}, budget)
  /\ UNCHANGED <<control, seeds, active, dialled, peerVars, budgetVars, doing>>

(* ... hands it to the fetch state ... *)
AdoptFetch ==
  /\ Stands("worker", "added")
  /\ active' = TRUE
  /\ Goes("worker", "adopted")
  /\ UNCHANGED <<control, seeds, dialled, ceiling, peerVars, budgetVars, doing, changes>>

(* ... and dials, even a torrent that was retired meanwhile: its handle is invalid. *)
DialBegun ==
  /\ Stands("worker", "adopted")
  /\ DialManual(Active, manual \union Neighbours)
  /\ Goes("worker", "idle")
  /\ UNCHANGED <<control, seeds, active, ceiling, peerVars, budgetVars, doing, changes>>

-----------------------------------------------------------------------------
SwarmInit ==
  /\ control \in BOOLEAN
  /\ seeds = {} /\ active = FALSE
  /\ dialled = [h \in Torrents |-> {}] /\ ceiling = [h \in Torrents |-> Unlimited]
  /\ noted = {} /\ manual = {}
  /\ budget = Unlimited /\ budgetFile = Unlimited /\ chosen = Unlimited
  /\ step = [t \in Callers |-> "idle"] /\ doing = {} /\ changes = 0

SwarmNext ==
  \/ StartAgain \/ NotePeer
  \/ AnnounceSeed \/ DialSeed
  \/ TakeNotedPeers \/ AddGossipPeer \/ DialFetch \/ DialNeighbours
  \/ SetLinkBudget \/ SaveBudget \/ CapFetch
  \/ StopSeed \/ Retire \/ BeginFetch \/ AdoptFetch \/ DialBegun

SwarmSpec == SwarmInit /\ [][SwarmNext]_swarmVars

-----------------------------------------------------------------------------
(* Properties *)

Quiet == Stands("window", "idle") /\ Stands("worker", "idle")

(* However the polls fall between the steps of a fetch that begins and of  *)
(* a seed that is announced or stopped, no torrent misses a peer: what the *)
(* session knows by then was dialled on every torrent it has, neighbours   *)
(* included on all but the control torrent, which has them from a poll.    *)
PeersAreDialled ==
  Quiet =>
    /\ \A h \in Held \union seeds \union Active : manual \subseteq dialled[h]
    /\ \A h \in seeds \union Active : Neighbours \subseteq dialled[h]

(* Every torrent that carries content runs at the rate the budget in force *)
(* gives, whether it was there when the budget changed or came later, and  *)
(* the control torrent is never limited.                                   *)
CeilingsFollowTheBudget ==
  Quiet => /\ \A h \in seeds \union Active : ceiling[h] = Ceiling(budget)
           /\ ceiling[Control] = Unlimited

(* A start takes up the budget that was set last.                          *)
BudgetIsRemembered == ~Stands("window", "save") => budget = chosen

(* "Reserves control bandwidth" (TransferSettings): what the torrents may  *)
(* take together leaves the reserve.                                       *)
SumOf(torrents) ==
  LET sum[left \in SUBSET torrents] ==
        IF left = {} THEN 0 ELSE LET h == CHOOSE h \in left : TRUE IN ceiling[h] + sum[left \ {h}]
  IN  sum[torrents]
ReserveIsLeft ==
  Quiet /\ budget > Reserve + LeastRate => SumOf(seeds \union Active) + Reserve <= budget
=============================================================================
