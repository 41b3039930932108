---------------------------- MODULE SessionProofs -----------------------------
(***************************************************************************)
(* Theorems about what the session looks after while the program runs: who *)
(* is dialled and at which rate torrents run (Swarm), what a peer may send *)
(* (Throttle), what is seeded (Seeding), and which services are there for  *)
(* whom (Session). Each proof has one invariant, one lemma per action or   *)
(* group of actions, and one theorem.                                      *)
(***************************************************************************)
EXTENDS Session, Seeding, Swarm, Throttle, TLAPS

-----------------------------------------------------------------------------
(* Swarm: what the peers and the rates of every torrent are *)

WindowStands == {"idle", "announced", "peers", "fetchpeer", "save", "capfetch"}
WorkerStands == {"idle", "added", "adopted"}

(* The types the proof needs of the session's tables and of its callers.   *)
SwarmTypeOK ==
  /\ control \in BOOLEAN
  /\ active \in BOOLEAN
  /\ seeds \subseteq Releases
  /\ DOMAIN dialled = Torrents
  /\ DOMAIN ceiling = Torrents
  /\ DOMAIN step = Callers
  /\ step["window"] \in WindowStands
  /\ step["worker"] \in WorkerStands

(* A seed and the control torrent know every peer in the list, a seed the  *)
(* neighbours too, except the seed whose announcement is not through.      *)
BeingAnnounced == IF Stands("window", "announced") THEN doing ELSE {}

SeedsAreDialled ==
  \A h \in Held \union seeds : h \in BeingAnnounced \/ manual \subseteq dialled[h]

NeighboursAreDialled ==
  \A h \in seeds : h \in BeingAnnounced \/ Neighbours \subseteq dialled[h]

(* The control torrent is never the one that is being announced.           *)
AnnouncedIsARelease == BeingAnnounced \subseteq Releases

(* The fetch knows them once Begin has dialled, and the peer that is being *)
(* added only when the window's thread has come to it.                     *)
FetchIsDialled ==
  active =>
    /\ Stands("worker", "adopted") \/ Stands("window", "fetchpeer") \/ manual \subseteq dialled[TheFetch]
    /\ Stands("worker", "adopted") \/ Neighbours \subseteq dialled[TheFetch]

(* A torrent that is added is not the fetch yet.                           *)
AddedIsNotActive == Stands("worker", "added") => ~active

DialInv ==
  /\ SwarmTypeOK
  /\ SeedsAreDialled
  /\ NeighboursAreDialled
  /\ AnnouncedIsARelease
  /\ FetchIsDialled
  /\ AddedIsNotActive

(* The three kinds of torrents are told apart.                             *)
LEMMA TorrentsDiffer ==
  /\ Control \in Torrents /\ TheFetch \in Torrents /\ Releases \subseteq Torrents
  /\ Control # TheFetch /\ Control \notin Releases /\ TheFetch \notin Releases
BY SwarmBounds DEF Torrents, Control, TheFetch

(* A start leaves nothing to dial.                                         *)
LEMMA DialInitially == SwarmInit => DialInv
<1> SUFFICES ASSUME SwarmInit PROVE DialInv
  OBVIOUS
<1>1. SwarmTypeOK
  BY DEF SwarmInit, SwarmTypeOK, WindowStands, WorkerStands, Callers
<1>2. SeedsAreDialled /\ NeighboursAreDialled
  BY DEF SwarmInit, SeedsAreDialled, NeighboursAreDialled, Held, Torrents
<1>3. FetchIsDialled /\ AddedIsNotActive /\ AnnouncedIsARelease
  BY DEF SwarmInit, FetchIsDialled, AddedIsNotActive, AnnouncedIsARelease, BeingAnnounced, Stands,
     Callers
<1> QED
  BY <1>1, <1>2, <1>3 DEF DialInv

(* What a thread's going on to a step leaves of the other thread.          *)
LEMMA GoingOn ==
  ASSUME SwarmTypeOK, NEW t \in Callers, NEW s, Goes(t, s)
  PROVE  /\ DOMAIN step' = Callers
         /\ step'[t] = s
         /\ \A u \in Callers \ {t} : step'[u] = step[u]
BY DEF SwarmTypeOK, Goes

(* Every step keeps the types.                                             *)
LEMMA SwarmTypes == SwarmTypeOK /\ [SwarmNext]_swarmVars => SwarmTypeOK'
<1> SUFFICES ASSUME SwarmTypeOK, [SwarmNext]_swarmVars PROVE SwarmTypeOK'
  OBVIOUS
<1> USE DEF SwarmTypeOK, torrentVars, peerVars, budgetVars, threadVars, Callers
<1>1. CASE UNCHANGED swarmVars
  BY <1>1 DEF swarmVars
<1>2. CASE StartAgain
  BY <1>2 DEF StartAgain, Start, WindowStands, WorkerStands
<1>3. CASE NotePeer
  BY <1>3 DEF NotePeer
<1>4. CASE AnnounceSeed
  BY <1>4 DEF AnnounceSeed, Calls, Goes, Stands, Cap, WindowStands, WorkerStands
<1>5. CASE DialSeed
  BY <1>5 DEF DialSeed, DialManual, Goes, Stands, WindowStands, WorkerStands
<1>6. CASE TakeNotedPeers
  BY <1>6 DEF TakeNotedPeers, Goes, Stands, WindowStands, WorkerStands
<1>7. CASE AddGossipPeer
  BY <1>7 DEF AddGossipPeer, DialManual, Goes, Stands, WindowStands, WorkerStands
<1>8. CASE DialFetch
  BY <1>8 DEF DialFetch, DialManual, Goes, Stands, WindowStands, WorkerStands
<1>9. CASE DialNeighbours
  BY <1>9 DEF DialNeighbours, Goes, Stands, WindowStands, WorkerStands
<1>10. CASE SetLinkBudget
  BY <1>10 DEF SetLinkBudget, Calls, Goes, Stands, WindowStands, WorkerStands
<1>11. CASE SaveBudget
  BY <1>11 DEF SaveBudget, Cap, Goes, Stands, WindowStands, WorkerStands
<1>12. CASE CapFetch
  BY <1>12 DEF CapFetch, Cap, Goes, Stands, WindowStands, WorkerStands
<1>13. CASE StopSeed
  BY <1>13 DEF StopSeed
<1>14. CASE Retire
  BY <1>14 DEF Retire
<1>15. CASE BeginFetch
  BY <1>15 DEF BeginFetch, Calls, Cap, Goes, Stands, WindowStands, WorkerStands
<1>16. CASE AdoptFetch
  BY <1>16 DEF AdoptFetch, Goes, Stands, WindowStands, WorkerStands
<1>17. CASE DialBegun
  BY <1>17 DEF DialBegun, DialManual, Goes, Stands, WindowStands, WorkerStands
<1> QED
  BY <1>1, <1>2, <1>3, <1>4, <1>5, <1>6, <1>7, <1>8, <1>9, <1>10, <1>11, <1>12, <1>13,
     <1>14, <1>15, <1>16, <1>17 DEF SwarmNext

(* What dialling adds: some torrents get peers, the others keep theirs.    *)
LEMMA Dialling ==
  ASSUME SwarmTypeOK, NEW torrents, NEW peers, DialManual(torrents, peers)
  PROVE  /\ \A h \in Torrents : dialled[h] \subseteq dialled'[h]
         /\ \A h \in Torrents \intersect torrents : peers \subseteq dialled'[h]
BY DEF DialManual

(* Every step keeps what the torrents have dialled.                        *)
LEMMA DialStep == DialInv /\ [SwarmNext]_swarmVars => DialInv'
<1> SUFFICES ASSUME DialInv, [SwarmNext]_swarmVars
             PROVE  DialInv'
  OBVIOUS
<1>t. SwarmTypeOK /\ SwarmTypeOK'
  BY SwarmTypes DEF DialInv
<1>i. SeedsAreDialled /\ NeighboursAreDialled /\ AnnouncedIsARelease /\ FetchIsDialled /\ AddedIsNotActive
  BY DEF DialInv
<1>s. Held \union seeds \subseteq Torrents /\ (Held \union seeds)' \subseteq Torrents /\ TheFetch \in Torrents
  BY <1>t, TorrentsDiffer DEF SwarmTypeOK, Held
<1> SUFFICES /\ SeedsAreDialled' /\ NeighboursAreDialled' /\ AnnouncedIsARelease'
             /\ FetchIsDialled' /\ AddedIsNotActive'
  BY <1>t DEF DialInv
<1> USE DEF torrentVars, peerVars, budgetVars, threadVars, Callers
<1>1. CASE UNCHANGED swarmVars
  BY <1>i, <1>1 DEF swarmVars, SeedsAreDialled, NeighboursAreDialled, AnnouncedIsARelease,
     FetchIsDialled, AddedIsNotActive, BeingAnnounced, Stands, Held
<1>2. CASE StartAgain
  BY <1>s, <1>2 DEF StartAgain, Start, SeedsAreDialled, NeighboursAreDialled,
     AnnouncedIsARelease, FetchIsDialled, AddedIsNotActive, BeingAnnounced, Stands, Held
<1>3. CASE NotePeer
  BY <1>i, <1>3 DEF NotePeer, SeedsAreDialled, NeighboursAreDialled, AnnouncedIsARelease,
     FetchIsDialled, AddedIsNotActive, BeingAnnounced, Stands, Held
<1>4. CASE AnnounceSeed
  <2>1. PICK m \in Releases \ seeds :
          seeds' = seeds \union {m} /\ doing' = {m} /\ dialled' = [dialled EXCEPT ![m] = {}]
    BY <1>4 DEF AnnounceSeed
  <2>2. step'["window"] = "announced" /\ step'["worker"] = step["worker"] /\ step["window"] = "idle"
    BY <1>4, <1>t DEF AnnounceSeed, Calls, Goes, Stands, SwarmTypeOK
  <2>3. UNCHANGED <<control, active, noted, manual>>
    BY <1>4 DEF AnnounceSeed
  <2>4. m # Control /\ m # TheFetch /\ m \in Torrents
    BY TorrentsDiffer
  <2>5. \A h \in Torrents \ {m} : dialled'[h] = dialled[h]
    BY <2>1, <1>t DEF SwarmTypeOK
  <2>6. BeingAnnounced = {} /\ BeingAnnounced' = {m}
    BY <2>1, <2>2 DEF BeingAnnounced, Stands
  <2>7. SeedsAreDialled' /\ NeighboursAreDialled'
    BY <1>i, <1>s, <2>1, <2>3, <2>5, <2>6 DEF SeedsAreDialled, NeighboursAreDialled, Held
  <2>8. FetchIsDialled' /\ AddedIsNotActive'
    BY <1>i, <1>s, <2>2, <2>3, <2>4, <2>5 DEF FetchIsDialled, AddedIsNotActive, Stands
  <2> QED
    BY <2>6, <2>7, <2>8 DEF AnnouncedIsARelease
<1>5. CASE DialSeed
  <2>1. DialManual(doing \intersect seeds, manual \union Neighbours)
    BY <1>5 DEF DialSeed
  <2>2. step["window"] = "announced" /\ step'["window"] = "idle" /\ step'["worker"] = step["worker"]
    BY <1>5, <1>t DEF DialSeed, Goes, Stands, SwarmTypeOK
  <2>3. UNCHANGED <<control, seeds, active, manual>>
    BY <1>5 DEF DialSeed
  <2>4. /\ \A h \in Torrents : dialled[h] \subseteq dialled'[h]
        /\ \A h \in Torrents \intersect (doing \intersect seeds) : manual \union Neighbours \subseteq dialled'[h]
    BY <1>t, <2>1, Dialling
  <2>5. BeingAnnounced = doing /\ BeingAnnounced' = {} /\ doing \subseteq Releases
    BY <1>i, <2>2 DEF BeingAnnounced, Stands, AnnouncedIsARelease
  <2>6. SeedsAreDialled'
    <3> SUFFICES ASSUME NEW h \in Held \union seeds PROVE manual \subseteq dialled'[h]
      BY <2>3 DEF SeedsAreDialled, Held
    <3>1. CASE h \in doing
      BY <3>1, <1>s, <2>4, <2>5, TorrentsDiffer DEF Held
    <3>2. CASE h \notin doing
      BY <3>2, <1>i, <1>s, <2>4, <2>5 DEF SeedsAreDialled
    <3> QED
      BY <3>1, <3>2
  <2>7. NeighboursAreDialled'
    BY <1>i, <1>s, <2>3, <2>4, <2>5 DEF NeighboursAreDialled
  <2>8. FetchIsDialled' /\ AddedIsNotActive'
    BY <1>i, <1>s, <2>2, <2>3, <2>4 DEF FetchIsDialled, AddedIsNotActive, Stands
  <2> QED
    BY <2>5, <2>6, <2>7, <2>8 DEF AnnouncedIsARelease
<1>6. CASE TakeNotedPeers
  <2>1. step["window"] = "idle" /\ step'["window"] = "peers" /\ step'["worker"] = step["worker"]
    BY <1>6, <1>t DEF TakeNotedPeers, Goes, Stands, SwarmTypeOK
  <2>2. UNCHANGED <<control, seeds, active, manual, dialled>>
    BY <1>6 DEF TakeNotedPeers
  <2>3. BeingAnnounced = {} /\ BeingAnnounced' = {}
    BY <2>1 DEF BeingAnnounced, Stands
  <2> QED
    BY <1>i, <2>1, <2>2, <2>3 DEF SeedsAreDialled, NeighboursAreDialled, AnnouncedIsARelease,
       FetchIsDialled, AddedIsNotActive, Stands, Held
<1>7. CASE AddGossipPeer
  <2>1. PICK p \in doing : manual' = manual \union {p}
    BY <1>7 DEF AddGossipPeer
  <2>2. step["window"] = "peers" /\ step'["window"] = "fetchpeer" /\ step'["worker"] = step["worker"]
    BY <1>7, <1>t DEF AddGossipPeer, Goes, Stands, SwarmTypeOK
  <2>3. UNCHANGED <<control, seeds, active>>
    BY <1>7 DEF AddGossipPeer
  <2>4. /\ \A h \in Torrents : dialled[h] \subseteq dialled'[h]
        /\ \A h \in Torrents \intersect (Held \union seeds) : manual' \subseteq dialled'[h]
    BY <1>7, <1>t DEF AddGossipPeer, DialManual
  <2>5. BeingAnnounced = {} /\ BeingAnnounced' = {}
    BY <2>2 DEF BeingAnnounced, Stands
  <2>6. SeedsAreDialled'
    BY <1>s, <2>3, <2>4 DEF SeedsAreDialled, Held
  <2>7. NeighboursAreDialled'
    BY <1>i, <1>s, <2>3, <2>4, <2>5 DEF NeighboursAreDialled
  <2>8. FetchIsDialled' /\ AddedIsNotActive'
    BY <1>i, <1>s, <2>2, <2>3, <2>4 DEF FetchIsDialled, AddedIsNotActive, Stands
  <2> QED
    BY <2>5, <2>6, <2>7, <2>8 DEF AnnouncedIsARelease
<1>8. CASE DialFetch
  <2>1. DialManual(Active, manual)
    BY <1>8 DEF DialFetch
  <2>2. step["window"] = "fetchpeer" /\ step'["window"] = "peers" /\ step'["worker"] = step["worker"]
    BY <1>8, <1>t DEF DialFetch, Goes, Stands, SwarmTypeOK
  <2>3. UNCHANGED <<control, seeds, active, manual>>
    BY <1>8 DEF DialFetch
  <2>4. /\ \A h \in Torrents : dialled[h] \subseteq dialled'[h]
        /\ \A h \in Torrents \intersect Active : manual \subseteq dialled'[h]
    BY <1>t, <2>1, Dialling
  <2>5. BeingAnnounced = {} /\ BeingAnnounced' = {}
    BY <2>2 DEF BeingAnnounced, Stands
  <2>6. SeedsAreDialled' /\ NeighboursAreDialled'
    BY <1>i, <1>s, <2>3, <2>4, <2>5 DEF SeedsAreDialled, NeighboursAreDialled, Held
  <2>7. FetchIsDialled' /\ AddedIsNotActive'
    BY <1>i, <1>s, <2>2, <2>3, <2>4 DEF FetchIsDialled, AddedIsNotActive, Stands, Active
  <2> QED
    BY <2>5, <2>6, <2>7 DEF AnnouncedIsARelease
<1>9. CASE DialNeighbours
  <2>1. step["window"] = "peers" /\ step'["window"] = "idle" /\ step'["worker"] = step["worker"]
    BY <1>9, <1>t DEF DialNeighbours, Goes, Stands, SwarmTypeOK
  <2>2. UNCHANGED <<control, seeds, active, manual>>
    BY <1>9 DEF DialNeighbours
  <2>3. \A h \in Torrents : dialled[h] \subseteq dialled'[h]
    BY <1>9, <1>t DEF DialNeighbours
  <2>4. BeingAnnounced = {} /\ BeingAnnounced' = {}
    BY <2>1 DEF BeingAnnounced, Stands
  <2>5. SeedsAreDialled' /\ NeighboursAreDialled'
    BY <1>i, <1>s, <2>2, <2>3, <2>4 DEF SeedsAreDialled, NeighboursAreDialled, Held
  <2>6. FetchIsDialled' /\ AddedIsNotActive'
    BY <1>i, <1>s, <2>1, <2>2, <2>3 DEF FetchIsDialled, AddedIsNotActive, Stands
  <2> QED
    BY <2>4, <2>5, <2>6 DEF AnnouncedIsARelease
<1>10. CASE SetLinkBudget \/ SaveBudget \/ CapFetch
  <2>1. UNCHANGED <<control, seeds, active, manual, dialled>>
    BY <1>10 DEF SetLinkBudget, SaveBudget, CapFetch
  <2>2. /\ step["window"] \notin {"announced", "fetchpeer"} /\ step'["window"] \notin {"announced", "fetchpeer"}
        /\ step'["worker"] = step["worker"]
    BY <1>10, <1>t DEF SetLinkBudget, SaveBudget, CapFetch, Calls, Goes, Stands, SwarmTypeOK
  <2>3. BeingAnnounced = {} /\ BeingAnnounced' = {}
    BY <2>2 DEF BeingAnnounced, Stands
  <2> QED
    BY <1>i, <2>1, <2>2, <2>3 DEF SeedsAreDialled, NeighboursAreDialled, AnnouncedIsARelease,
       FetchIsDialled, AddedIsNotActive, Stands, Held
<1>11. CASE StopSeed
  <2>1. PICK m \in seeds : seeds' = seeds \ {m} /\ dialled' = [dialled EXCEPT ![m] = {}]
    BY <1>11 DEF StopSeed
  <2>2. UNCHANGED <<control, active, manual, step, doing>>
    BY <1>11 DEF StopSeed
  <2>3. m # Control /\ m # TheFetch /\ m \in Torrents
    BY <1>t, TorrentsDiffer DEF SwarmTypeOK
  <2>4. \A h \in Torrents \ {m} : dialled'[h] = dialled[h]
    BY <2>1, <1>t DEF SwarmTypeOK
  <2>5. BeingAnnounced' = BeingAnnounced
    BY <2>2 DEF BeingAnnounced, Stands
  <2>6. SeedsAreDialled' /\ NeighboursAreDialled'
    BY <1>i, <1>s, <2>1, <2>2, <2>3, <2>4, <2>5 DEF SeedsAreDialled, NeighboursAreDialled, Held
  <2>7. FetchIsDialled' /\ AddedIsNotActive'
    BY <1>i, <1>s, <2>2, <2>3, <2>4 DEF FetchIsDialled, AddedIsNotActive, Stands
  <2> QED
    BY <1>i, <2>5, <2>6, <2>7 DEF AnnouncedIsARelease
<1>12. CASE Retire
  <2>1. active' = FALSE /\ dialled' = [dialled EXCEPT ![TheFetch] = {}]
    BY <1>12 DEF Retire
  <2>2. UNCHANGED <<control, seeds, manual, step, doing>>
    BY <1>12 DEF Retire
  <2>3. \A h \in Torrents \ {TheFetch} : dialled'[h] = dialled[h]
    BY <2>1, <1>t DEF SwarmTypeOK
  <2>4. TheFetch \notin Held \union seeds
    BY <1>t, TorrentsDiffer DEF SwarmTypeOK, Held
  <2>5. BeingAnnounced' = BeingAnnounced
    BY <2>2 DEF BeingAnnounced, Stands
  <2>6. SeedsAreDialled' /\ NeighboursAreDialled'
    BY <1>i, <1>s, <2>2, <2>3, <2>4, <2>5 DEF SeedsAreDialled, NeighboursAreDialled, Held
  <2> QED
    BY <1>i, <2>1, <2>5, <2>6 DEF AnnouncedIsARelease, FetchIsDialled, AddedIsNotActive
<1>13. CASE BeginFetch
  <2>1. ~active /\ UNCHANGED <<control, seeds, active, dialled, manual, doing>>
    BY <1>13 DEF BeginFetch
  <2>2. step'["window"] = step["window"]
    BY <1>13, <1>t DEF BeginFetch, Calls, Goes, Stands, SwarmTypeOK
  <2>3. BeingAnnounced' = BeingAnnounced
    BY <2>1, <2>2 DEF BeingAnnounced, Stands
  <2> QED
    BY <1>i, <2>1, <2>3 DEF SeedsAreDialled, NeighboursAreDialled, AnnouncedIsARelease,
       FetchIsDialled, AddedIsNotActive, Held
<1>14. CASE AdoptFetch
  <2>1. UNCHANGED <<control, seeds, dialled, manual, doing>>
    BY <1>14 DEF AdoptFetch
  <2>2. step'["worker"] = "adopted" /\ step'["window"] = step["window"]
    BY <1>14, <1>t DEF AdoptFetch, Goes, Stands, SwarmTypeOK
  <2>3. BeingAnnounced' = BeingAnnounced
    BY <2>1, <2>2 DEF BeingAnnounced, Stands
  <2> QED
    BY <1>i, <2>1, <2>2, <2>3 DEF SeedsAreDialled, NeighboursAreDialled, AnnouncedIsARelease,
       FetchIsDialled, AddedIsNotActive, Stands, Held
<1>15. CASE DialBegun
  <2>1. DialManual(Active, manual \union Neighbours)
    BY <1>15 DEF DialBegun
  <2>2. step'["worker"] = "idle" /\ step'["window"] = step["window"]
    BY <1>15, <1>t DEF DialBegun, Goes, Stands, SwarmTypeOK
  <2>3. UNCHANGED <<control, seeds, active, manual, doing>>
    BY <1>15 DEF DialBegun
  <2>4. /\ \A h \in Torrents : dialled[h] \subseteq dialled'[h]
        /\ \A h \in Torrents \intersect Active : manual \union Neighbours \subseteq dialled'[h]
    BY <1>t, <2>1, Dialling
  <2>5. BeingAnnounced' = BeingAnnounced
    BY <2>2, <2>3 DEF BeingAnnounced, Stands
  <2>6. SeedsAreDialled' /\ NeighboursAreDialled'
    BY <1>i, <1>s, <2>3, <2>4, <2>5 DEF SeedsAreDialled, NeighboursAreDialled, Held
  <2>7. FetchIsDialled' /\ AddedIsNotActive'
    BY <1>s, <2>2, <2>3, <2>4 DEF FetchIsDialled, AddedIsNotActive, Stands, Active
  <2> QED
    BY <1>i, <2>5, <2>6, <2>7 DEF AnnouncedIsARelease
<1>n. SwarmNext \/ UNCHANGED swarmVars
  OBVIOUS
<1> QED
  BY <1>n, <1>1, <1>2, <1>3, <1>4, <1>5, <1>6, <1>7, <1>8, <1>9, <1>10, <1>11, <1>12, <1>13,
     <1>14, <1>15 DEF SwarmNext

(* However the steps of the polls, of a fetch that begins and of a seed    *)
(* that is announced or stopped fall, nobody the session knows is left     *)
(* undialled on a torrent it has (PeerDialer, TorrentSession).             *)
THEOREM EveryPeerIsDialled == SwarmSpec => []PeersAreDialled
<1>1. DialInv => PeersAreDialled
  <2> SUFFICES ASSUME DialInv, Quiet PROVE PeersAreDialled
    BY DEF PeersAreDialled
  <2>1. step["window"] = "idle" /\ step["worker"] = "idle"
    BY DEF Quiet, Stands
  <2>2. BeingAnnounced = {}
    BY <2>1 DEF BeingAnnounced, Stands
  <2>3. /\ \A h \in Held \union seeds : manual \subseteq dialled[h]
        /\ \A h \in seeds : Neighbours \subseteq dialled[h]
    BY <2>2 DEF DialInv, SeedsAreDialled, NeighboursAreDialled
  <2>4. active => manual \subseteq dialled[TheFetch] /\ Neighbours \subseteq dialled[TheFetch]
    BY <2>1 DEF DialInv, FetchIsDialled, Stands
  <2> QED
    BY <2>3, <2>4 DEF PeersAreDialled, Active
<1> QED
  BY <1>1, DialInitially, DialStep, PTL DEF SwarmSpec

-----------------------------------------------------------------------------
(* Swarm: at which rate every torrent runs *)

Budgeting == {"save", "capfetch"}

(* A seed runs at the budget's rate, except while a new budget is written; *)
(* a fetch that is added or adopted too, until the window's thread has     *)
(* come to it; nothing ever limits the control torrent; and between the    *)
(* cap of a fetch and its adoption no budget is set.                       *)
SeedsAreCapped == \A h \in seeds : Stands("window", "save") \/ ceiling[h] = Ceiling(budget)

FetchIsCapped ==
  active \/ Stands("worker", "added") =>
    step["window"] \in Budgeting \/ ceiling[TheFetch] = Ceiling(budget)

ControlIsUnlimited == ceiling[Control] = Unlimited

AddedIsApart == Stands("worker", "added") => step["window"] \notin Budgeting

RateInv ==
  /\ SwarmTypeOK
  /\ SeedsAreCapped
  /\ FetchIsCapped
  /\ ControlIsUnlimited
  /\ AddedIsApart
  /\ AddedIsNotActive

(* A start limits nothing: there is nothing but the control torrent.       *)
LEMMA RatesInitially == SwarmInit => RateInv
<1> SUFFICES ASSUME SwarmInit PROVE RateInv
  OBVIOUS
<1>1. SwarmTypeOK
  BY DialInitially DEF DialInv
<1> QED
  BY <1>1, TorrentsDiffer DEF SwarmInit, RateInv, SeedsAreCapped, FetchIsCapped, ControlIsUnlimited,
     AddedIsApart, AddedIsNotActive, Stands, Callers

(* What capping some torrents sets, and what it leaves.                    *)
LEMMA Capping ==
  ASSUME NEW torrents, NEW b, Cap(torrents, b)
  PROVE  /\ \A h \in Torrents \intersect torrents : ceiling'[h] = Ceiling(b)
         /\ \A h \in Torrents \ torrents : ceiling'[h] = ceiling[h]
BY DEF Cap

(* Every step keeps the rates, when budgets and beginning fetches do not   *)
(* race.                                                                   *)
LEMMA RateStep == ~Races /\ RateInv /\ [SwarmNext]_swarmVars => RateInv'
<1> SUFFICES ASSUME ~Races, RateInv, [SwarmNext]_swarmVars
             PROVE  RateInv'
  OBVIOUS
<1>t. SwarmTypeOK /\ SwarmTypeOK'
  BY SwarmTypes DEF RateInv
<1>i. SeedsAreCapped /\ FetchIsCapped /\ ControlIsUnlimited /\ AddedIsApart /\ AddedIsNotActive
  BY DEF RateInv
<1>s. /\ seeds \subseteq Torrents \ {Control, TheFetch} /\ seeds' \subseteq Torrents \ {Control, TheFetch}
      /\ Control \in Torrents /\ TheFetch \in Torrents /\ Control # TheFetch
  BY <1>t, TorrentsDiffer DEF SwarmTypeOK
<1> SUFFICES /\ SeedsAreCapped' /\ FetchIsCapped' /\ ControlIsUnlimited'
             /\ AddedIsApart' /\ AddedIsNotActive'
  BY <1>t DEF RateInv
<1> USE DEF torrentVars, peerVars, budgetVars, threadVars, Callers
<1>1. CASE UNCHANGED swarmVars
  BY <1>i, <1>1 DEF swarmVars, SeedsAreCapped, FetchIsCapped, ControlIsUnlimited, AddedIsApart,
     AddedIsNotActive, Stands
<1>2. CASE StartAgain
  BY <1>s, <1>2 DEF StartAgain, Start, SeedsAreCapped, FetchIsCapped, ControlIsUnlimited,
     AddedIsApart,
     AddedIsNotActive, Stands
<1>3. CASE NotePeer
  BY <1>i, <1>3 DEF NotePeer, SeedsAreCapped, FetchIsCapped, ControlIsUnlimited, AddedIsApart,
     AddedIsNotActive, Stands
<1>4. CASE AnnounceSeed
  <2>1. PICK m \in Releases \ seeds : seeds' = seeds \union {m} /\ Cap({m}, budget)
    BY <1>4 DEF AnnounceSeed
  <2>2. step["window"] = "idle" /\ step'["window"] = "announced" /\ step'["worker"] = step["worker"]
    BY <1>4, <1>t DEF AnnounceSeed, Calls, Goes, Stands, SwarmTypeOK
  <2>3. UNCHANGED <<active, budget>>
    BY <1>4 DEF AnnounceSeed
  <2>4. /\ \A h \in Torrents \intersect {m} : ceiling'[h] = Ceiling(budget)
        /\ \A h \in Torrents \ {m} : ceiling'[h] = ceiling[h]
    BY <2>1, Capping
  <2>5. m \in Torrents \ {Control, TheFetch} /\ Ceiling(budget)' = Ceiling(budget)
    BY <2>3, TorrentsDiffer DEF Ceiling
  <2> QED
    BY <1>i, <1>s, <2>1, <2>2, <2>3, <2>4, <2>5 DEF SeedsAreCapped, FetchIsCapped,
       ControlIsUnlimited,
       AddedIsApart, AddedIsNotActive, Stands, Budgeting
<1>5. CASE DialSeed \/ TakeNotedPeers \/ AddGossipPeer \/ DialFetch \/ DialNeighbours
  <2>1. UNCHANGED <<seeds, active, ceiling, budget>>
    BY <1>5 DEF DialSeed, TakeNotedPeers, AddGossipPeer, DialFetch, DialNeighbours
  <2>2. /\ step["window"] \notin Budgeting /\ step'["window"] \notin Budgeting
        /\ step'["worker"] = step["worker"]
    BY <1>5, <1>t DEF DialSeed, TakeNotedPeers, AddGossipPeer, DialFetch, DialNeighbours, Goes,
       Stands,
       SwarmTypeOK, Budgeting
  <2>3. Ceiling(budget)' = Ceiling(budget)
    BY <2>1 DEF Ceiling
  <2> QED
    BY <1>i, <2>1, <2>2, <2>3 DEF SeedsAreCapped, FetchIsCapped, ControlIsUnlimited, AddedIsApart,
       AddedIsNotActive, Stands,
       Budgeting
<1>6. CASE SetLinkBudget
  <2>1. step["worker"] # "added" /\ step'["worker"] = step["worker"] /\ step'["window"] = "save"
    BY <1>6, <1>t DEF SetLinkBudget, MayOverlap, Calls, Goes, Stands, SwarmTypeOK
  <2>2. UNCHANGED <<seeds, active, ceiling>>
    BY <1>6 DEF SetLinkBudget
  <2> QED
    BY <1>i, <2>1, <2>2 DEF SeedsAreCapped, FetchIsCapped, ControlIsUnlimited, AddedIsApart,
       AddedIsNotActive, Stands,
       Budgeting
<1>7. CASE SaveBudget
  <2>1. step["window"] = "save" /\ step'["window"] = "capfetch" /\ step'["worker"] = step["worker"]
    BY <1>7, <1>t DEF SaveBudget, Goes, Stands, SwarmTypeOK
  <2>2. UNCHANGED <<seeds, active, budget>> /\ Cap(seeds, budget)
    BY <1>7 DEF SaveBudget
  <2>3. /\ \A h \in Torrents \intersect seeds : ceiling'[h] = Ceiling(budget)
        /\ \A h \in Torrents \ seeds : ceiling'[h] = ceiling[h]
    BY <2>2, Capping
  <2>4. Ceiling(budget)' = Ceiling(budget)
    BY <2>2 DEF Ceiling
  <2> QED
    BY <1>i, <1>s, <2>1, <2>2, <2>3, <2>4 DEF SeedsAreCapped, FetchIsCapped, ControlIsUnlimited,
       AddedIsApart, AddedIsNotActive, Stands, Budgeting
<1>8. CASE CapFetch
  <2>1. /\ step["window"] = "capfetch" /\ step'["window"] = "idle" /\ step'["worker"] = step["worker"]
        /\ step["worker"] # "added"
    BY <1>8, <1>t DEF CapFetch, MayOverlap, Goes, Stands, SwarmTypeOK
  <2>2. UNCHANGED <<seeds, active, budget>> /\ Cap(Active, budget)
    BY <1>8 DEF CapFetch
  <2>3. /\ \A h \in Torrents \intersect Active : ceiling'[h] = Ceiling(budget)
        /\ \A h \in Torrents \ Active : ceiling'[h] = ceiling[h]
    BY <2>2, Capping
  <2>4. Ceiling(budget)' = Ceiling(budget)
    BY <2>2 DEF Ceiling
  <2> QED
    BY <1>i, <1>s, <2>1, <2>2, <2>3, <2>4 DEF SeedsAreCapped, FetchIsCapped, ControlIsUnlimited,
       AddedIsApart, AddedIsNotActive, Stands, Budgeting, Active
<1>9. CASE StopSeed
  <2>1. PICK m \in seeds : seeds' = seeds \ {m} /\ ceiling' = [ceiling EXCEPT ![m] = Unlimited]
    BY <1>9 DEF StopSeed
  <2>2. UNCHANGED <<active, budget, step>>
    BY <1>9 DEF StopSeed
  <2>3. \A h \in Torrents \ {m} : ceiling'[h] = ceiling[h]
    BY <2>1, <1>t DEF SwarmTypeOK
  <2>4. Ceiling(budget)' = Ceiling(budget)
    BY <2>2 DEF Ceiling
  <2> QED
    BY <1>i, <1>s, <2>1, <2>2, <2>3, <2>4 DEF SeedsAreCapped, FetchIsCapped, ControlIsUnlimited,
       AddedIsApart, AddedIsNotActive, Stands
<1>10. CASE Retire
  <2>1. active /\ active' = FALSE /\ ceiling' = [ceiling EXCEPT ![TheFetch] = Unlimited]
    BY <1>10 DEF Retire
  <2>2. UNCHANGED <<seeds, budget, step>>
    BY <1>10 DEF Retire
  <2>3. \A h \in Torrents \ {TheFetch} : ceiling'[h] = ceiling[h]
    BY <2>1, <1>t DEF SwarmTypeOK
  <2>4. Ceiling(budget)' = Ceiling(budget)
    BY <2>2 DEF Ceiling
  <2> QED
    BY <1>i, <1>s, <2>1, <2>2, <2>3, <2>4 DEF SeedsAreCapped, FetchIsCapped, ControlIsUnlimited,
       AddedIsApart, AddedIsNotActive, Stands
<1>11. CASE BeginFetch
  <2>1. /\ step["window"] \notin Budgeting /\ step'["window"] = step["window"]
        /\ step'["worker"] = "added"
    BY <1>11, <1>t DEF BeginFetch, Calls, Goes, Stands, SwarmTypeOK, Budgeting
  <2>2. ~active /\ UNCHANGED <<seeds, active, budget>> /\ Cap({TheFetch}, budget)
    BY <1>11 DEF BeginFetch
  <2>3. /\ \A h \in Torrents \intersect {TheFetch} : ceiling'[h] = Ceiling(budget)
        /\ \A h \in Torrents \ {TheFetch} : ceiling'[h] = ceiling[h]
    BY <2>2, Capping
  <2>4. Ceiling(budget)' = Ceiling(budget)
    BY <2>2 DEF Ceiling
  <2> QED
    BY <1>i, <1>s, <2>1, <2>2, <2>3, <2>4 DEF SeedsAreCapped, FetchIsCapped, ControlIsUnlimited,
       AddedIsApart, AddedIsNotActive, Stands
<1>12. CASE AdoptFetch
  <2>1. step["worker"] = "added" /\ step'["worker"] = "adopted" /\ step'["window"] = step["window"]
    BY <1>12, <1>t DEF AdoptFetch, Goes, Stands, SwarmTypeOK
  <2>2. UNCHANGED <<seeds, ceiling, budget>>
    BY <1>12 DEF AdoptFetch
  <2>3. Ceiling(budget)' = Ceiling(budget)
    BY <2>2 DEF Ceiling
  <2> QED
    BY <1>i, <2>1, <2>2, <2>3 DEF SeedsAreCapped, FetchIsCapped, ControlIsUnlimited, AddedIsApart,
       AddedIsNotActive, Stands
<1>13. CASE DialBegun
  <2>1. step'["worker"] = "idle" /\ step'["window"] = step["window"]
    BY <1>13, <1>t DEF DialBegun, Goes, Stands, SwarmTypeOK
  <2>2. UNCHANGED <<seeds, active, ceiling, budget>>
    BY <1>13 DEF DialBegun
  <2>3. Ceiling(budget)' = Ceiling(budget)
    BY <2>2 DEF Ceiling
  <2> QED
    BY <1>i, <2>1, <2>2, <2>3 DEF SeedsAreCapped, FetchIsCapped, ControlIsUnlimited, AddedIsApart,
       AddedIsNotActive, Stands
<1>n. SwarmNext \/ UNCHANGED swarmVars
  OBVIOUS
<1> QED
  BY <1>n, <1>1, <1>2, <1>3, <1>4, <1>5, <1>6, <1>7, <1>8, <1>9, <1>10, <1>11, <1>12, <1>13
     DEF SwarmNext

(* Once no call is under way, the seeds and the fetch run at the rate the  *)
(* budget in force gives and the control torrent is not limited, when a    *)
(* budget is not set between a fetch's cap and its adoption                *)
(* (TorrentSession::SetLinkBudget, FetchSession::Begin).                   *)
THEOREM RatesFollowTheBudget == ~Races => (SwarmSpec => []CeilingsFollowTheBudget)
<1> SUFFICES ASSUME ~Races PROVE SwarmSpec => []CeilingsFollowTheBudget
  OBVIOUS
<1>1. RateInv => CeilingsFollowTheBudget
  <2> SUFFICES ASSUME RateInv, Quiet PROVE CeilingsFollowTheBudget
    BY DEF CeilingsFollowTheBudget
  <2>1. step["window"] = "idle" /\ step["worker"] = "idle"
    BY DEF Quiet, Stands
  <2>2. /\ \A h \in seeds : ceiling[h] = Ceiling(budget)
        /\ active => ceiling[TheFetch] = Ceiling(budget)
    BY <2>1 DEF RateInv, SeedsAreCapped, FetchIsCapped, Stands, Budgeting
  <2> QED
    BY <2>2 DEF RateInv, ControlIsUnlimited, CeilingsFollowTheBudget, Active
<1>2. RateInv /\ [SwarmNext]_swarmVars => RateInv'
  BY RateStep
<1> QED
  BY <1>1, <1>2, RatesInitially, PTL DEF SwarmSpec

-----------------------------------------------------------------------------
(* Throttle: what a peer may send *)

Budget ==
  [allowance : Nat, seeded : BOOLEAN, refilled : Nat, until : Nat, next : Nat \ {0},
   overage : Nat, seen : Nat]

(* What the bucket of a peer still allows and what was taken from it since *)
(* some moment do not exceed the burst and what was refilled since.        *)
BucketOK(b, taken, from, time) ==
  /\ b \in Budget /\ b.refilled <= time /\ from <= time
  /\ IF b.seeded
       THEN from <= b.refilled /\ taken + b.allowance <= Burst + (b.refilled - from) \div RefillInterval
       ELSE taken + b.allowance <= Burst

BucketInv ==
  /\ now \in Nat /\ Tracked \subseteq Peers /\ heard \subseteq Peers
  /\ owed \in [Peers -> Nat] /\ accepted \in [Peers -> Nat] /\ since \in [Peers -> Nat]
  /\ \A p \in Tracked : BucketOK(budgets[p], accepted[p], since[p], now)
  /\ \A p \in Peers \ Tracked : accepted[p] = 0

(* What is owed is not over yet, and a tracked budget blocks that long;    *)
(* the peer a record was just taken from owes nothing.                     *)
DebtInv ==
  /\ \A p \in Peers : owed[p] # 0 =>
       now < owed[p] /\ p \in Tracked /\ owed[p] <= budgets[p].until
  /\ \A p \in heard : owed[p] = 0

(* Whole intervals: as many as fit, more time never holds fewer, and two   *)
(* stretches never hold more apart than together.                          *)
LEMMA WholeIntervals ==
  ASSUME NEW a \in Nat, NEW b \in Nat
  PROVE  /\ a \div RefillInterval \in Nat
         /\ a \div RefillInterval + b \div RefillInterval <= (a + b) \div RefillInterval
         /\ a <= b => a \div RefillInterval <= b \div RefillInterval
<1>1. RefillInterval \in Nat \ {0}
  BY ThrottleBounds
<1>2. a \div RefillInterval \in Nat
  BY <1>1
<1>3. a \div RefillInterval + b \div RefillInterval <= (a + b) \div RefillInterval
  BY <1>1
<1>4. a <= b => a \div RefillInterval <= b \div RefillInterval
  BY <1>1
<1> QED
  BY <1>2, <1>3, <1>4

(* A ladder that is reset blocks as long as before.                        *)
LEMMA ResetKeeps ==
  ASSUME NEW b \in Budget, now \in Nat
  PROVE  /\ Reset(b) \in Budget
         /\ Reset(b).until = b.until /\ Reset(b).allowance = b.allowance
         /\ Reset(b).seeded = b.seeded /\ Reset(b).refilled = b.refilled
         /\ Reset(b).overage = b.overage
BY ThrottleBounds DEF Reset, Budget

(* A refill adds no more than the time since the last one gives.           *)
LEMMA RefillKeeps ==
  ASSUME NEW b, NEW taken \in Nat, NEW from \in Nat, now \in Nat, BucketOK(b, taken, from, now)
  PROVE  /\ BucketOK(Refill(b), taken, from, now)
         /\ Refill(b).until = b.until /\ Refill(b).next = b.next /\ Refill(b).overage = b.overage
<1>1. /\ b \in Budget /\ b.allowance \in Nat /\ b.refilled \in Nat /\ b.refilled <= now
      /\ Burst \in Nat /\ RefillInterval \in Nat
  BY ThrottleBounds DEF BucketOK, Budget
<1>2. CASE ~b.seeded
  <2>1. /\ Refill(b) \in Budget /\ Refill(b).seeded = TRUE /\ Refill(b).refilled = now
        /\ Refill(b).allowance = b.allowance
        /\ Refill(b).until = b.until /\ Refill(b).next = b.next /\ Refill(b).overage = b.overage
    BY <1>1, <1>2 DEF Refill, Budget
  <2>2. taken + b.allowance <= Burst /\ from <= now
    BY <1>2 DEF BucketOK
  <2>3. (now - from) \div RefillInterval \in Nat
    <3>1. now - from \in Nat
      BY <2>2
    <3> QED
      BY <3>1, WholeIntervals
  <2> QED
    BY <1>1, <2>1, <2>2, <2>3 DEF BucketOK
<1>3. CASE b.seeded /\ now - b.refilled < RefillInterval
  BY <1>1, <1>3 DEF Refill
<1>4. CASE b.seeded /\ ~(now - b.refilled < RefillInterval)
  <2> DEFINE gained == (now - b.refilled) \div RefillInterval
             before == (b.refilled - from) \div RefillInterval
             whole  == (now - from) \div RefillInterval
  <2>1. /\ from <= b.refilled /\ from <= now /\ now - b.refilled \in Nat /\ b.refilled - from \in Nat
        /\ taken + b.allowance <= Burst + before
    BY <1>1, <1>4 DEF BucketOK
  <2>2. gained \in Nat /\ before \in Nat
    BY <2>1, WholeIntervals
  <2>3. whole \in Nat /\ gained + before <= whole
    <3>1. (now - b.refilled) + (b.refilled - from) = now - from
      BY <1>1
    <3>2. gained + before <= ((now - b.refilled) + (b.refilled - from)) \div RefillInterval
      BY <2>1, WholeIntervals
    <3>3. now - from \in Nat
      BY <2>1
    <3> QED
      BY <3>1, <3>2, <3>3, WholeIntervals
  <2>4. /\ Lesser(Burst, b.allowance + gained) \in Nat
        /\ Lesser(Burst, b.allowance + gained) <= b.allowance + gained
    BY <1>1, <2>2 DEF Lesser
  <2>5. /\ Refill(b) \in Budget /\ Refill(b).seeded = TRUE /\ Refill(b).refilled = now
        /\ Refill(b).allowance = Lesser(Burst, b.allowance + gained)
        /\ Refill(b).until = b.until /\ Refill(b).next = b.next /\ Refill(b).overage = b.overage
    BY <1>1, <1>4, <2>4 DEF Refill, Budget
  <2>6. taken + Refill(b).allowance <= Burst + whole
    <3> HIDE DEF gained, before, whole
    <3>1. Refill(b).allowance \in Nat /\ Refill(b).allowance <= b.allowance + gained
      BY <2>4, <2>5
    <3>q. QED
      BY <1>1, <2>1, <2>2, <2>3, <3>1
  <2> QED
    BY <1>1, <2>1, <2>5, <2>6 DEF BucketOK
<1> QED
  BY <1>2, <1>3, <1>4

(* A penalty empties the bucket and blocks from now on.                    *)
LEMMA PenaltyBlocks ==
  ASSUME NEW b \in Budget, now \in Nat
  PROVE  /\ Penalised(b) \in Budget
         /\ Penalised(b).until \in Nat /\ Penalised(b).until > now
         /\ Penalised(b).allowance = 0
         /\ Penalised(b).seeded = b.seeded /\ Penalised(b).refilled = b.refilled
<1> DEFINE seen  == [b EXCEPT !.seen = now]
           clean == Reset(seen)
<1>1. seen \in Budget /\ seen.seeded = b.seeded /\ seen.refilled = b.refilled
  BY DEF Budget
<1>2. clean \in Budget /\ clean.seeded = b.seeded /\ clean.refilled = b.refilled
  BY <1>1, ResetKeeps
<1> DEFINE until == now + clean.next
           next  == Lesser(clean.next * Multiplier, MaxBlock)
<1>3. clean.next \in Nat \ {0}
  BY <1>2 DEF Budget
<1>4. next \in Nat \ {0}
  <2>1. clean.next * Multiplier \in Nat \ {0} /\ MaxBlock \in Nat \ {0}
    BY <1>3, ThrottleBounds
  <2> QED
    BY <2>1 DEF Lesser
<1>5. until \in Nat /\ until > now
  BY <1>3
<1>6. Penalised(b) = [clean EXCEPT !.until = until, !.next = next, !.allowance = 0, !.overage = 0]
  BY DEF Penalised
<1> HIDE DEF seen, clean, until, next
<1>7. Penalised(b) \in Budget
  <2>1. clean \in Budget /\ until \in Nat /\ next \in Nat \ {0}
    BY <1>2, <1>4, <1>5
  <2>2. [clean EXCEPT !.until = until] \in Budget
    BY <2>1 DEF Budget
  <2>3. [[clean EXCEPT !.until = until] EXCEPT !.next = next] \in Budget
    BY <2>1, <2>2 DEF Budget
  <2>4. [[[clean EXCEPT !.until = until] EXCEPT !.next = next] EXCEPT !.allowance = 0] \in Budget
    BY <2>3 DEF Budget
  <2> QED
    BY <2>4, <1>6 DEF Budget
<1>8. /\ Penalised(b).until = until /\ Penalised(b).allowance = 0
      /\ Penalised(b).refilled = clean.refilled
  BY <1>2, <1>6 DEF Budget
<1>9. Penalised(b).seeded = clean.seeded
  BY <1>2, <1>6 DEF Budget
<1> QED
  BY <1>2, <1>5, <1>7, <1>8, <1>9

(* A budget that allows no more than another one of the same age is within *)
(* the rate when that one is.                                              *)
LEMMA NoMoreAllowed ==
  ASSUME NEW b, NEW c \in Budget, NEW taken \in Nat, NEW from \in Nat, NEW time \in Nat,
         BucketOK(b, taken, from, time),
         c.seeded = b.seeded, c.refilled = b.refilled, c.allowance <= b.allowance
  PROVE  BucketOK(c, taken, from, time)
<1>1. /\ b \in Budget /\ b.allowance \in Nat /\ c.allowance \in Nat /\ b.refilled \in Nat
      /\ b.refilled <= time /\ from <= time /\ Burst \in Nat
  BY ThrottleBounds DEF BucketOK, Budget
<1>2. CASE b.seeded
  <2>1. from <= b.refilled /\ taken + b.allowance <= Burst + (b.refilled - from) \div RefillInterval
    BY <1>2 DEF BucketOK
  <2>2. (b.refilled - from) \div RefillInterval \in Nat
    <3>1. b.refilled - from \in Nat
      BY <1>1, <2>1
    <3> QED
      BY <3>1, WholeIntervals
  <2>3. taken + c.allowance <= Burst + (c.refilled - from) \div RefillInterval
    BY <1>1, <2>1, <2>2
  <2>4. c.seeded
    BY <1>2
  <2> QED
    BY <1>1, <2>1, <2>3, <2>4 DEF BucketOK
<1>3. CASE ~b.seeded
  <2>1. taken + c.allowance <= Burst
    BY <1>1, <1>3 DEF BucketOK
  <2>2. ~c.seeded
    BY <1>3
  <2> QED
    BY <1>1, <2>1, <2>2 DEF BucketOK
<1> QED
  BY <1>2, <1>3

(* A penalty keeps a budget within its rate.                               *)
LEMMA PenaltyIsWithin ==
  ASSUME now \in Nat, NEW b, NEW taken \in Nat, NEW from \in Nat, BucketOK(b, taken, from, now)
  PROVE  BucketOK(Penalised(b), taken, from, now)
<1>1. b \in Budget /\ b.allowance \in Nat
  BY DEF BucketOK, Budget
<1>2. /\ Penalised(b) \in Budget /\ Penalised(b).allowance = 0
      /\ Penalised(b).seeded = b.seeded /\ Penalised(b).refilled = b.refilled
  BY <1>1, PenaltyBlocks
<1>3. Penalised(b).allowance <= b.allowance
  BY <1>1, <1>2
<1> QED
  BY <1>2, <1>3, NoMoreAllowed

(* A record that is taken is taken out of the bucket, and blocks nobody.   *)
LEMMA TakingIsWithin ==
  ASSUME now \in Nat, NEW b, NEW taken \in Nat, NEW from \in Nat, BucketOK(b, taken, from, now),
         ~Overdrawn(b)
  PROVE  BucketOK(Spent(b), taken + 1, from, now) /\ Spent(b).until = b.until
<1>1. /\ b \in Budget /\ b.allowance \in Nat \ {0} /\ b.refilled \in Nat
      /\ b.refilled <= now /\ from <= now /\ Burst \in Nat
  BY ThrottleBounds DEF BucketOK, Budget, Overdrawn
<1>2. /\ Spent(b) \in Budget /\ Spent(b).allowance = b.allowance - 1
      /\ Spent(b).refilled = b.refilled /\ Spent(b).until = b.until
  <2> DEFINE c == [b EXCEPT !.overage = 0]
  <2>1. /\ c \in Budget /\ c.allowance = b.allowance /\ c.refilled = b.refilled
        /\ c.until = b.until
    BY <1>1 DEF Budget
  <2>2. Spent(b) = [c EXCEPT !.allowance = b.allowance - 1]
    BY <1>1 DEF Spent, Budget
  <2>3. b.allowance - 1 \in Nat
    BY <1>1
  <2> HIDE DEF c
  <2> QED
    BY <2>1, <2>2, <2>3 DEF Budget
<1>3. Spent(b).seeded = b.seeded
  BY <1>1 DEF Spent, Budget
<1>4. (taken + 1) + Spent(b).allowance = taken + b.allowance
  BY <1>1, <1>2
<1>5. CASE b.seeded
  <2>1. from <= b.refilled /\ taken + b.allowance <= Burst + (b.refilled - from) \div RefillInterval
    BY <1>5 DEF BucketOK
  <2>2. Spent(b).seeded
    BY <1>3, <1>5
  <2> QED
    BY <1>1, <1>2, <1>4, <2>1, <2>2 DEF BucketOK
<1>6. CASE ~b.seeded
  <2>1. taken + b.allowance <= Burst
    BY <1>6 DEF BucketOK
  <2>2. ~Spent(b).seeded
    BY <1>3, <1>6
  <2> QED
    BY <1>1, <1>2, <1>4, <2>1, <2>2 DEF BucketOK
<1> QED
  BY <1>5, <1>6

(* A record that is refused is counted, or blocks from now on.             *)
LEMMA RefusingIsWithin ==
  ASSUME now \in Nat, NEW b, NEW taken \in Nat, NEW from \in Nat, BucketOK(b, taken, from, now)
  PROVE  /\ BucketOK(Overdraws(b), taken, from, now)
         /\ Overdraws(b).until = b.until \/ Overdraws(b).until > now
         /\ Overdraws(b).until \in Nat
<1>1. b \in Budget /\ b.allowance \in Nat /\ b.overage \in Nat /\ b.until \in Nat
  BY DEF BucketOK, Budget
<1>2. CASE b.overage + 1 >= Threshold
  <2>1. Overdraws(b) = Penalised(b)
    BY <1>2 DEF Overdraws
  <2>2. Penalised(b).until \in Nat /\ Penalised(b).until > now
    BY <1>1, PenaltyBlocks
  <2> QED
    BY <2>1, <2>2, PenaltyIsWithin
<1>3. CASE ~(b.overage + 1 >= Threshold)
  <2> DEFINE c == [b EXCEPT !.overage = @ + 1]
  <2>1. Overdraws(b) = c
    BY <1>3 DEF Overdraws
  <2>2. c \in Budget /\ c.refilled = b.refilled /\ c.allowance = b.allowance /\ c.until = b.until
    BY <1>1 DEF Budget
  <2>3. c.seeded = b.seeded
    BY <1>1 DEF Budget
  <2> HIDE DEF c
  <2>4. BucketOK(c, taken, from, now)
    <3>1. c.allowance <= b.allowance
      BY <1>1, <2>2
    <3> QED
      BY <2>2, <2>3, <3>1, NoMoreAllowed
  <2> QED
    BY <1>1, <2>1, <2>2, <2>4
<1> QED
  BY <1>2, <1>3

(* The table in which a peer has a budget keeps the others' and what it    *)
(* evicts is not blocked.                                                  *)
LEMMA EnsuredTables ==
  ASSUME NEW peer \in Peers, NEW table \in Ensured(peer), Tracked \subseteq Peers
  PROVE  /\ peer \in DOMAIN table /\ DOMAIN table \subseteq Peers
         /\ \A p \in DOMAIN table \ {peer} : p \in Tracked /\ table[p] = budgets[p]
         /\ table[peer] = IF peer \in Tracked THEN budgets[peer] ELSE NewBudget
         /\ \A p \in Tracked \ DOMAIN table : ~Blocked(budgets[p])
<1>1. CASE peer \in Tracked
  <2>1. table = budgets
    BY <1>1 DEF Ensured
  <2> QED
    BY <1>1, <2>1 DEF Tracked
<1>2. CASE peer \notin Tracked
  <2>1. PICK kept \in SUBSET Tracked :
          /\ table = [p \in kept \union {peer} |-> IF p = peer THEN NewBudget ELSE budgets[p]]
          /\ \A p \in Tracked \ kept : p \in Candidates
    <3>1. CASE ~Full
      BY <1>2, <3>1 DEF Ensured
    <3>2. CASE Full
      <4>1. PICK victim \in Victims :
              table = [p \in (Tracked \ {victim}) \union {peer} |->
                         IF p = peer THEN NewBudget ELSE budgets[p]]
        BY <1>2, <3>2 DEF Ensured
      <4>2. victim \in Candidates
        BY DEF Victims
      <4> QED
        BY <4>1, <4>2
    <3> QED
      BY <3>1, <3>2
  <2>2. DOMAIN table = kept \union {peer}
    BY <2>1
  <2> QED
    BY <1>2, <2>1, <2>2 DEF Candidates
<1> QED
  BY <1>1, <1>2

(* What Ingest makes of the budget a peer has in a table, by name; Already *)
(* and Started are the history of that budget.                             *)
SeenIn(table, p)  == [table[p] EXCEPT !.seen = now]
ReadyIn(table, p) == Refill(Reset(SeenIn(table, p)))
TakenIn(table, p) == ~Blocked(SeenIn(table, p)) /\ ~Overdrawn(ReadyIn(table, p))
AfterIn(table, p) ==
  IF Blocked(SeenIn(table, p)) THEN SeenIn(table, p)
  ELSE IF TakenIn(table, p) THEN Spent(ReadyIn(table, p)) ELSE Overdraws(ReadyIn(table, p))
CountIn(table, p) == IF TakenIn(table, p) THEN 1 ELSE 0

Already(p) == IF p \in Tracked THEN accepted[p] ELSE 0
Started(p) == IF p \in Tracked THEN since[p] ELSE now

(* The budget a peer has in such a table is within its rate.               *)
LEMMA EnsuredIsWithin ==
  ASSUME BucketInv, NEW peer \in Peers, NEW table \in Ensured(peer)
  PROVE  /\ Already(peer) \in Nat /\ Started(peer) \in Nat
         /\ BucketOK(table[peer], Already(peer), Started(peer), now)
<1>1. now \in Nat /\ Tracked \subseteq Peers
  BY DEF BucketInv
<1>2. table[peer] = IF peer \in Tracked THEN budgets[peer] ELSE NewBudget
  BY <1>1, EnsuredTables
<1>3. CASE peer \in Tracked
  BY <1>2, <1>3 DEF BucketInv, Already, Started
<1>4. CASE peer \notin Tracked
  <2>1. NewBudget \in Budget /\ ~NewBudget.seeded /\ NewBudget.refilled = 0 /\ NewBudget.allowance = Burst
    BY ThrottleBounds DEF NewBudget, Budget
  <2>2. BucketOK(NewBudget, 0, now, now)
    BY <1>1, <2>1, ThrottleBounds DEF BucketOK
  <2> QED
    BY <1>1, <1>2, <1>4, <2>2 DEF Already, Started
<1> QED
  BY <1>3, <1>4

(* What a record makes of it is within the rate too; it blocks as long as  *)
(* before or from now on, and as long as before when the record is taken.  *)
LEMMA AfterIsWithin ==
  ASSUME BucketInv, NEW peer \in Peers, NEW table \in Ensured(peer)
  PROVE  /\ BucketOK(AfterIn(table, peer), Already(peer) + CountIn(table, peer), Started(peer), now)
         /\ AfterIn(table, peer).until \in Nat
         /\ \/ AfterIn(table, peer).until = table[peer].until
            \/ AfterIn(table, peer).until > now /\ ~TakenIn(table, peer)
         /\ SeenIn(table, peer).until = table[peer].until
         /\ TakenIn(table, peer) => table[peer].until <= now
<1> DEFINE b     == table[peer]
           seen  == SeenIn(table, peer)
           ready == ReadyIn(table, peer)
           changed == AfterIn(table, peer)
<1>1. now \in Nat
  BY DEF BucketInv
<1>2. /\ Already(peer) \in Nat /\ Started(peer) \in Nat
      /\ BucketOK(b, Already(peer), Started(peer), now)
  BY EnsuredIsWithin
<1>3. b \in Budget /\ b.allowance \in Nat /\ b.until \in Nat
  BY <1>2 DEF BucketOK, Budget
<1>4. /\ seen \in Budget /\ seen.refilled = b.refilled /\ seen.allowance = b.allowance
      /\ seen.until = b.until
  BY <1>1, <1>3 DEF Budget, SeenIn
<1>5. seen.seeded = b.seeded
  BY <1>1, <1>3 DEF Budget, SeenIn
<1> HIDE DEF seen
<1>6. BucketOK(seen, Already(peer), Started(peer), now)
  <2>1. seen.allowance <= b.allowance
    BY <1>3, <1>4
  <2> QED
    BY <1>1, <1>2, <1>4, <1>5, <2>1, NoMoreAllowed
<1>7. /\ Reset(seen) \in Budget /\ Reset(seen).until = seen.until
      /\ Reset(seen).allowance <= seen.allowance
      /\ Reset(seen).refilled = seen.refilled
  <2>1. /\ Reset(seen) \in Budget /\ Reset(seen).until = seen.until
        /\ Reset(seen).allowance = seen.allowance
        /\ Reset(seen).refilled = seen.refilled
    BY <1>1, <1>4, ResetKeeps
  <2> QED
    BY <1>3, <1>4, <2>1
<1>8. Reset(seen).seeded = seen.seeded
  BY <1>1, <1>4, ResetKeeps
<1>9. BucketOK(Reset(seen), Already(peer), Started(peer), now)
  BY <1>1, <1>2, <1>6, <1>7, <1>8, NoMoreAllowed
<1>10. BucketOK(ready, Already(peer), Started(peer), now) /\ ready.until = b.until
  <2>1. ready = Refill(Reset(seen))
    BY DEF ReadyIn, seen
  <2>2. /\ BucketOK(Refill(Reset(seen)), Already(peer), Started(peer), now)
        /\ Refill(Reset(seen)).until = Reset(seen).until
    BY <1>1, <1>2, <1>9, RefillKeeps
  <2> QED
    BY <1>4, <1>7, <2>1, <2>2
<1> HIDE DEF ready
<1>11. CASE Blocked(seen)
  <2>1. changed = seen /\ ~TakenIn(table, peer)
    BY <1>11 DEF AfterIn, TakenIn, seen
  <2>2. CountIn(table, peer) = 0 /\ Already(peer) + 0 = Already(peer)
    BY <1>2, <2>1 DEF CountIn
  <2> QED
    BY <1>3, <1>4, <1>6, <2>1, <2>2 DEF seen
<1>12. CASE ~Blocked(seen) /\ ~Overdrawn(ready)
  <2>1. TakenIn(table, peer) /\ changed = Spent(ready) /\ CountIn(table, peer) = 1
    BY <1>12 DEF AfterIn, TakenIn, CountIn, seen, ready
  <2>2. BucketOK(Spent(ready), Already(peer) + 1, Started(peer), now) /\ Spent(ready).until = ready.until
    BY <1>1, <1>2, <1>10, <1>12, TakingIsWithin
  <2>3. b.until <= now
    BY <1>1, <1>3, <1>4, <1>12 DEF Blocked
  <2> QED
    BY <1>3, <1>4, <1>10, <2>1, <2>2, <2>3 DEF seen
<1>13. CASE ~Blocked(seen) /\ Overdrawn(ready)
  <2>1. ~TakenIn(table, peer) /\ changed = Overdraws(ready)
    BY <1>13 DEF AfterIn, TakenIn, seen, ready
  <2>2. CountIn(table, peer) = 0 /\ Already(peer) + 0 = Already(peer)
    BY <1>2, <2>1 DEF CountIn
  <2>3. /\ BucketOK(Overdraws(ready), Already(peer), Started(peer), now)
        /\ Overdraws(ready).until = ready.until \/ Overdraws(ready).until > now
        /\ Overdraws(ready).until \in Nat
    BY <1>1, <1>2, <1>10, RefusingIsWithin
  <2> QED
    BY <1>4, <1>10, <2>1, <2>2, <2>3 DEF seen
<1> QED
  BY <1>11, <1>12, <1>13

(* What a record does to the table, by name.                               *)
LEMMA IngestDoes ==
  ASSUME NEW peer \in Peers, Ingest(peer)
  PROVE  \E table \in Ensured(peer) :
           /\ budgets' = [table EXCEPT ![peer] = AfterIn(table, peer)]
           /\ accepted' = Remembered(table, [accepted EXCEPT ![peer] = Already(peer) + CountIn(table, peer)])
           /\ heard' = IF TakenIn(table, peer) THEN {peer} ELSE {}
           /\ owed' = IF AfterIn(table, peer).until > SeenIn(table, peer).until
                      THEN [owed EXCEPT ![peer] = AfterIn(table, peer).until] ELSE owed
           /\ since' = Since(peer, table)
           /\ now' = now
BY DEF Ingest, AfterIn, SeenIn, ReadyIn, TakenIn, CountIn, Already

(* The peers' histories in a table a peer was ensured a budget in.         *)
LEMMA HistoriesIn ==
  ASSUME BucketInv, NEW peer \in Peers, NEW table \in Ensured(peer)
  PROVE  /\ Since(peer, table) \in [Peers -> Nat]
         /\ \A p \in Peers : Since(peer, table)[p] =
              IF p \notin DOMAIN table THEN 0 ELSE IF p = peer THEN Started(peer) ELSE since[p]
         /\ \A counts \in [Peers -> Nat] :
              /\ Remembered(table, counts) \in [Peers -> Nat]
              /\ \A p \in Peers :
                   Remembered(table, counts)[p] = IF p \in DOMAIN table THEN counts[p] ELSE 0
<1>1. now \in Nat /\ since \in [Peers -> Nat]
  BY DEF BucketInv
<1>2. ASSUME NEW counts \in [Peers -> Nat]
      PROVE  /\ Remembered(table, counts) \in [Peers -> Nat]
             /\ \A p \in Peers :
                  Remembered(table, counts)[p] = IF p \in DOMAIN table THEN counts[p] ELSE 0
  BY DEF Remembered
<1> DEFINE begun == IF peer \in Tracked THEN since ELSE [since EXCEPT ![peer] = now]
<1>3. /\ begun \in [Peers -> Nat]
      /\ \A p \in Peers : begun[p] = IF p = peer THEN Started(peer) ELSE since[p]
  BY <1>1 DEF Started
<1>4. Since(peer, table) = Remembered(table, begun)
  BY DEF Since
<1> HIDE DEF begun
<1>5. /\ Remembered(table, begun) \in [Peers -> Nat]
      /\ \A p \in Peers : Remembered(table, begun)[p] = IF p \in DOMAIN table THEN begun[p] ELSE 0
  BY <1>2, <1>3
<1>6. /\ Since(peer, table) \in [Peers -> Nat]
      /\ \A p \in Peers : Since(peer, table)[p] =
           IF p \notin DOMAIN table THEN 0 ELSE IF p = peer THEN Started(peer) ELSE since[p]
  BY <1>3, <1>4, <1>5
<1> QED
  BY <1>2, <1>6

(* A step that changes one budget, within its rate, and evicts at most     *)
(* another one keeps every peer within its rate.                           *)
LEMMA TableIsWithin ==
  ASSUME BucketInv, NEW peer \in Peers, NEW table \in Ensured(peer), NEW changed, NEW taken \in Nat,
         BucketOK(changed, taken, Started(peer), now),
         now' = now, budgets' = [table EXCEPT ![peer] = changed],
         accepted' \in [Peers -> Nat],
         \A p \in Peers : accepted'[p] =
           IF p \notin DOMAIN table THEN 0 ELSE IF p = peer THEN taken ELSE accepted[p],
         since' = Since(peer, table), owed' \in [Peers -> Nat], heard' \subseteq Peers
  PROVE  BucketInv'
<1>1. now \in Nat /\ Tracked \subseteq Peers
      /\ \A p \in Tracked : BucketOK(budgets[p], accepted[p], since[p], now)
  BY DEF BucketInv
<1>2. /\ peer \in DOMAIN table /\ DOMAIN table \subseteq Peers
      /\ \A p \in DOMAIN table \ {peer} : p \in Tracked /\ table[p] = budgets[p]
  BY <1>1, EnsuredTables
<1>3. DOMAIN budgets' = DOMAIN table /\ Tracked' = DOMAIN table
  BY <1>2 DEF Tracked
<1>4. /\ since' \in [Peers -> Nat]
      /\ \A p \in Peers : since'[p] =
           IF p \notin DOMAIN table THEN 0 ELSE IF p = peer THEN Started(peer) ELSE since[p]
  BY HistoriesIn
<1>5. ASSUME NEW p \in DOMAIN table PROVE BucketOK(budgets'[p], accepted'[p], since'[p], now)
  <2>1. CASE p = peer
    <3>1. budgets'[p] = changed /\ accepted'[p] = taken /\ since'[p] = Started(peer)
      BY <1>2, <1>4, <2>1
    <3> QED
      BY <3>1
  <2>2. CASE p # peer
    <3>1. budgets'[p] = budgets[p] /\ accepted'[p] = accepted[p] /\ since'[p] = since[p] /\ p \in Tracked
      BY <1>2, <1>4, <2>2
    <3> QED
      BY <1>1, <3>1
  <2> QED
    BY <2>1, <2>2
<1>6. \A p \in Tracked' : BucketOK(budgets[p], accepted[p], since[p], now)'
  <2> SUFFICES ASSUME NEW p \in DOMAIN table PROVE BucketOK(budgets'[p], accepted'[p], since'[p], now')
    BY <1>3 DEF BucketOK
  <2> QED
    BY <1>5
<1>7. \A p \in Peers \ Tracked' : accepted'[p] = 0
  BY <1>3
<1> QED
  BY <1>1, <1>2, <1>3, <1>4, <1>6, <1>7 DEF BucketInv

(* Every step keeps every peer within its rate.                            *)
LEMMA BucketStep == BucketInv /\ [ThrottleNext]_throttleVars => BucketInv'
<1> SUFFICES ASSUME BucketInv, [ThrottleNext]_throttleVars PROVE BucketInv'
  OBVIOUS
<1>i. /\ now \in Nat /\ Tracked \subseteq Peers /\ owed \in [Peers -> Nat]
      /\ accepted \in [Peers -> Nat] /\ since \in [Peers -> Nat]
  BY DEF BucketInv
<1>1. CASE UNCHANGED throttleVars
  BY <1>1 DEF throttleVars, BucketInv, Tracked, BucketOK
<1>2. CASE Wait
  <2>1. /\ now' = now + 1 /\ heard' = {} /\ owed' = Owing(owed, now')
        /\ UNCHANGED <<budgets, accepted, since>>
    BY <1>2 DEF Wait
  <2>2. owed' \in [Peers -> Nat]
    BY <1>i, <2>1 DEF Owing
  <2>3. Tracked' = Tracked
    BY <2>1 DEF Tracked
  <2>4. ASSUME NEW p \in Tracked PROVE BucketOK(budgets[p], accepted[p], since[p], now + 1)
    <3>1. BucketOK(budgets[p], accepted[p], since[p], now) /\ since[p] \in Nat
      BY <1>i DEF BucketInv
    <3>2. budgets[p].refilled \in Nat
      BY <3>1 DEF BucketOK, Budget
    <3>3. budgets[p].refilled <= now + 1 /\ since[p] <= now + 1
      BY <1>i, <3>1, <3>2 DEF BucketOK
    <3> QED
      BY <3>1, <3>3 DEF BucketOK
  <2>5. \A p \in Tracked' : BucketOK(budgets[p], accepted[p], since[p], now)'
    BY <2>1, <2>3, <2>4 DEF BucketOK
  <2> QED
    BY <1>i, <2>1, <2>2, <2>3, <2>5 DEF BucketInv
<1>3. ASSUME NEW peer \in Peers, Ingest(peer) PROVE BucketInv'
  <2>1. PICK table \in Ensured(peer) :
          /\ budgets' = [table EXCEPT ![peer] = AfterIn(table, peer)]
          /\ accepted' = Remembered(table, [accepted EXCEPT ![peer] = Already(peer) + CountIn(table, peer)])
          /\ heard' = IF TakenIn(table, peer) THEN {peer} ELSE {}
          /\ owed' = IF AfterIn(table, peer).until > SeenIn(table, peer).until
                     THEN [owed EXCEPT ![peer] = AfterIn(table, peer).until] ELSE owed
          /\ since' = Since(peer, table)
          /\ now' = now
    BY <1>3, IngestDoes
  <2> DEFINE changed == AfterIn(table, peer)
             taken == Already(peer) + CountIn(table, peer)
             counts == [accepted EXCEPT ![peer] = taken]
  <2>2. BucketOK(changed, taken, Started(peer), now) /\ changed.until \in Nat
    BY AfterIsWithin
  <2>3. taken \in Nat
    BY <1>i DEF Already, CountIn
  <2>4. owed' \in [Peers -> Nat] /\ heard' \subseteq Peers
    BY <1>i, <2>1, <2>2
  <2>5. counts \in [Peers -> Nat] /\ \A p \in Peers : counts[p] = IF p = peer THEN taken ELSE accepted[p]
    BY <1>i, <2>3
  <2>6. accepted' = Remembered(table, counts) /\ budgets' = [table EXCEPT ![peer] = changed]
        /\ since' = Since(peer, table) /\ now' = now
    BY <2>1
  <2> HIDE DEF changed, taken, counts
  <2>7. /\ accepted' \in [Peers -> Nat]
        /\ \A p \in Peers : accepted'[p] =
             IF p \notin DOMAIN table THEN 0 ELSE IF p = peer THEN taken ELSE accepted[p]
    BY <2>5, <2>6, HistoriesIn
  <2> QED
    BY <2>2, <2>3, <2>4, <2>6, <2>7, TableIsWithin
<1>4. ASSUME NEW peer \in Peers, Throttled(peer) PROVE BucketInv'
  BY <1>4 DEF Throttled, BucketInv, Tracked, BucketOK
<1>5. ASSUME NEW peer \in Peers, Penalise(peer) PROVE BucketInv'
  <2>1. CASE Ensured(peer) = {}
    <3>1. /\ owed' \in [Peers -> Nat] /\ heard' = {}
          /\ UNCHANGED <<now, budgets, accepted, since>>
      BY <1>5, <1>i, <2>1, ThrottleBounds DEF Penalise
    <3> QED
      BY <3>1 DEF BucketInv, Tracked, BucketOK
  <2>2. CASE Ensured(peer) # {}
    <3>1. PICK table \in Ensured(peer) :
            /\ budgets' = [table EXCEPT ![peer] = Penalised(table[peer])]
            /\ owed' = [owed EXCEPT ![peer] = Penalised(table[peer]).until]
            /\ accepted' = Remembered(table, accepted)
            /\ since' = Since(peer, table)
      BY <1>5, <2>2 DEF Penalise
    <3>2. heard' = {} /\ now' = now
      BY <1>5 DEF Penalise
    <3> DEFINE changed == Penalised(table[peer])
    <3>3. /\ Already(peer) \in Nat /\ Started(peer) \in Nat
          /\ BucketOK(table[peer], Already(peer), Started(peer), now)
      BY EnsuredIsWithin
    <3>4. BucketOK(changed, Already(peer), Started(peer), now)
      BY <1>i, <3>3, PenaltyIsWithin
    <3>5. changed.until \in Nat
      BY <3>4 DEF BucketOK, Budget
    <3>6. budgets' = [table EXCEPT ![peer] = changed] /\ owed' = [owed EXCEPT ![peer] = changed.until]
      BY <3>1
    <3> HIDE DEF changed
    <3>7. owed' \in [Peers -> Nat] /\ heard' \subseteq Peers
      BY <1>i, <3>2, <3>5, <3>6
    <3>8. /\ accepted' \in [Peers -> Nat]
          /\ \A p \in Peers : accepted'[p] = IF p \in DOMAIN table THEN accepted[p] ELSE 0
      BY <1>i, <3>1, HistoriesIn
    <3>9. accepted[peer] = Already(peer)
      BY DEF BucketInv, Already
    <3>10. \A p \in Peers : accepted'[p] =
             IF p \notin DOMAIN table THEN 0 ELSE IF p = peer THEN Already(peer) ELSE accepted[p]
      BY <3>8, <3>9
    <3>11. budgets' = [table EXCEPT ![peer] = changed] /\ since' = Since(peer, table) /\ now' = now
      BY <3>1, <3>2, <3>6
    <3> QED
      BY <3>3, <3>4, <3>7, <3>8, <3>10, <3>11, TableIsWithin
  <2> QED
    BY <2>1, <2>2
<1> QED
  BY <1>1, <1>2, <1>3, <1>4, <1>5 DEF ThrottleNext

(* At the start nobody is tracked.                                         *)
LEMMA BucketInitially == ThrottleInit => BucketInv /\ DebtInv
<1> SUFFICES ASSUME ThrottleInit PROVE BucketInv /\ DebtInv
  OBVIOUS
<1>1. Tracked = {}
  BY DEF ThrottleInit, Tracked
<1> QED
  BY <1>1 DEF ThrottleInit, BucketInv, DebtInv

(* A tracked peer is heard at the rate of its bucket and no faster: a      *)
(* burst, and one record more for each interval since its budget was made, *)
(* whatever blocks, refills and evictions fall in between                  *)
(* (PeerAnnounceBudget::Consume, AnnounceExchange::EnsureBudget_).         *)
THEOREM PeersAreHeardAtTheRate == ThrottleSpec => []RateIsBounded
<1>1. BucketInv => RateIsBounded
  <2> SUFFICES ASSUME BucketInv, NEW p \in Tracked
               PROVE  accepted[p] <= Burst + (now - since[p]) \div RefillInterval
    BY DEF RateIsBounded
  <2> DEFINE b == budgets[p]
             before == (b.refilled - since[p]) \div RefillInterval
             whole  == (now - since[p]) \div RefillInterval
  <2>1. BucketOK(b, accepted[p], since[p], now) /\ p \in Peers
    BY DEF BucketInv
  <2>2. /\ now \in Nat /\ accepted[p] \in Nat /\ since[p] \in Nat /\ b.allowance \in Nat
        /\ b.refilled \in Nat /\ b.refilled <= now /\ since[p] <= now /\ Burst \in Nat
    BY <2>1, ThrottleBounds DEF BucketInv, BucketOK, Budget
  <2>3. now - since[p] \in Nat
    BY <2>2
  <2>4. whole \in Nat
    BY <2>3, WholeIntervals
  <2>5. CASE b.seeded
    <3>1. since[p] <= b.refilled /\ accepted[p] + b.allowance <= Burst + before
      BY <2>1, <2>5 DEF BucketOK
    <3>2. b.refilled - since[p] \in Nat /\ b.refilled - since[p] <= now - since[p]
      BY <2>2, <3>1
    <3>3. before \in Nat /\ before <= whole
      BY <2>3, <3>2, WholeIntervals
    <3> HIDE DEF before, whole
    <3>4. accepted[p] <= Burst + whole
      BY <2>2, <2>4, <3>1, <3>3
    <3> QED
      BY <3>4 DEF whole
  <2>6. CASE ~b.seeded
    <3>1. accepted[p] + b.allowance <= Burst
      BY <2>1, <2>6 DEF BucketOK
    <3> HIDE DEF whole
    <3>2. accepted[p] <= Burst + whole
      BY <2>2, <2>4, <3>1
    <3> QED
      BY <3>2 DEF whole
  <2> QED
    BY <2>5, <2>6
<1> QED
  BY <1>1, BucketInitially, BucketStep, PTL DEF ThrottleSpec

(* A step that changes one budget owes what that budget blocks, and evicts *)
(* nobody who owes something.                                              *)
LEMMA DebtsIn ==
  ASSUME BucketInv, DebtInv, NEW peer \in Peers, NEW table \in Ensured(peer), NEW changed,
         now' = now, budgets' = [table EXCEPT ![peer] = changed],
         \A p \in Peers \ {peer} : owed'[p] = owed[p],
         owed'[peer] # 0 => now < owed'[peer] /\ owed'[peer] <= changed.until,
         \A p \in heard' : owed'[p] = 0
  PROVE  DebtInv'
<1>1. /\ now \in Nat /\ Tracked \subseteq Peers /\ owed \in [Peers -> Nat]
      /\ \A p \in Tracked : budgets[p].until \in Nat
  BY DEF BucketInv, BucketOK, Budget
<1>2. /\ peer \in DOMAIN table /\ DOMAIN table \subseteq Peers
      /\ \A p \in DOMAIN table \ {peer} : p \in Tracked /\ table[p] = budgets[p]
      /\ \A p \in Tracked \ DOMAIN table : ~Blocked(budgets[p])
  BY <1>1, EnsuredTables
<1>3. Tracked' = DOMAIN table /\ budgets'[peer] = changed
      /\ \A p \in DOMAIN table \ {peer} : budgets'[p] = budgets[p]
  BY <1>2 DEF Tracked
<1>4. ASSUME NEW p \in Peers, owed'[p] # 0
      PROVE  now' < owed'[p] /\ p \in Tracked' /\ owed'[p] <= budgets'[p].until
  <2>1. CASE p = peer
    BY <1>2, <1>3, <1>4, <2>1
  <2>2. CASE p # peer
    <3>1. now < owed[p] /\ p \in Tracked /\ owed[p] <= budgets[p].until /\ owed'[p] = owed[p]
      BY <1>4, <2>2 DEF DebtInv
    <3>2. Blocked(budgets[p])
      BY <1>1, <3>1 DEF Blocked
    <3>3. p \in DOMAIN table
      BY <1>2, <3>1, <3>2
    <3> QED
      BY <1>3, <2>2, <3>1, <3>3
  <2> QED
    BY <2>1, <2>2
<1> QED
  BY <1>4 DEF DebtInv

(* Every step keeps the debts, when a peer no budget was found for does    *)
(* not break the protocol.                                                 *)
LEMMA DebtStep == ~Crowded /\ BucketInv /\ DebtInv /\ [ThrottleNext]_throttleVars => DebtInv'
<1> SUFFICES ASSUME ~Crowded, BucketInv, DebtInv, [ThrottleNext]_throttleVars PROVE DebtInv'
  OBVIOUS
<1>i. now \in Nat /\ Tracked \subseteq Peers /\ owed \in [Peers -> Nat]
  BY DEF BucketInv
<1>1. CASE UNCHANGED throttleVars
  BY <1>1 DEF throttleVars, DebtInv, Tracked
<1>2. CASE Wait
  <2>1. now' = now + 1 /\ heard' = {} /\ owed' = Owing(owed, now') /\ budgets' = budgets
    BY <1>2 DEF Wait
  <2>2. \A p \in Peers : owed'[p] # 0 => owed'[p] = owed[p] /\ owed[p] > now'
    BY <2>1 DEF Owing
  <2> QED
    BY <1>i, <2>1, <2>2 DEF DebtInv, Tracked
<1>3. ASSUME NEW peer \in Peers, Ingest(peer) PROVE DebtInv'
  <2>1. PICK table \in Ensured(peer) :
          /\ budgets' = [table EXCEPT ![peer] = AfterIn(table, peer)]
          /\ accepted' = Remembered(table, [accepted EXCEPT ![peer] = Already(peer) + CountIn(table, peer)])
          /\ heard' = IF TakenIn(table, peer) THEN {peer} ELSE {}
          /\ owed' = IF AfterIn(table, peer).until > SeenIn(table, peer).until
                     THEN [owed EXCEPT ![peer] = AfterIn(table, peer).until] ELSE owed
          /\ since' = Since(peer, table)
          /\ now' = now
    BY <1>3, IngestDoes
  <2> DEFINE b     == table[peer]
             changed == AfterIn(table, peer)
  <2>2. /\ changed.until \in Nat
        /\ changed.until = b.until \/ (changed.until > now /\ ~TakenIn(table, peer))
        /\ SeenIn(table, peer).until = b.until
        /\ TakenIn(table, peer) => b.until <= now
    BY AfterIsWithin
  <2>3. b = IF peer \in Tracked THEN budgets[peer] ELSE NewBudget
    BY <1>i, EnsuredTables
  <2>4. b.until \in Nat
    <3>1. b \in Budget
      BY EnsuredIsWithin DEF BucketOK
    <3> QED
      BY <3>1 DEF Budget
  <2>5. owed[peer] # 0 => now < owed[peer] /\ owed[peer] <= b.until
    BY <2>3 DEF DebtInv
  <2>6. CASE changed.until > b.until
    <3>1. owed' = [owed EXCEPT ![peer] = changed.until] /\ heard' = {}
      BY <2>1, <2>2, <2>4, <2>6
    <3>2. /\ \A p \in Peers \ {peer} : owed'[p] = owed[p]
          /\ owed'[peer] = changed.until /\ changed.until > now
      BY <1>i, <2>2, <2>4, <2>6, <3>1
    <3>3. now < owed'[peer] /\ owed'[peer] <= changed.until
      BY <1>i, <2>2, <3>2
    <3>4. budgets' = [table EXCEPT ![peer] = changed] /\ now' = now /\ heard' = {}
      BY <2>1, <3>1
    <3> HIDE DEF changed
    <3> QED
      BY <3>2, <3>3, <3>4, DebtsIn
  <2>7. CASE ~(changed.until > b.until)
    <3>1. owed' = owed
      BY <2>1, <2>2, <2>7
    <3>2. owed[peer] # 0 => now < owed[peer] /\ owed[peer] <= changed.until
      <4> SUFFICES ASSUME owed[peer] # 0 PROVE now < owed[peer] /\ owed[peer] <= changed.until
        OBVIOUS
      <4>1. now < owed[peer] /\ owed[peer] <= b.until /\ owed[peer] \in Nat
        BY <1>i, <2>5
      <4>2. Blocked(SeenIn(table, peer))
        BY <1>i, <2>2, <2>4, <4>1 DEF Blocked
      <4>3. changed = SeenIn(table, peer)
        BY <4>2 DEF AfterIn
      <4> QED
        BY <2>2, <4>1, <4>3
    <3>3. TakenIn(table, peer) => owed[peer] = 0
      BY <1>i, <2>2, <2>4, <2>5
    <3>4. budgets' = [table EXCEPT ![peer] = changed] /\ now' = now /\ \A p \in heard' : owed[p] = 0
      BY <2>1, <3>3
    <3> HIDE DEF changed
    <3> QED
      BY <3>1, <3>2, <3>4, DebtsIn
  <2> QED
    BY <2>6, <2>7
<1>4. ASSUME NEW peer \in Peers, Throttled(peer) PROVE DebtInv'
  BY <1>4 DEF Throttled, DebtInv, Tracked
<1>5. ASSUME NEW peer \in Peers, Penalise(peer) PROVE DebtInv'
  <2>1. PICK table \in Ensured(peer) :
          /\ budgets' = [table EXCEPT ![peer] = Penalised(table[peer])]
          /\ owed' = [owed EXCEPT ![peer] = Penalised(table[peer]).until]
    BY <1>5 DEF Penalise
  <2>2. heard' = {} /\ now' = now
    BY <1>5 DEF Penalise
  <2> DEFINE changed == Penalised(table[peer])
  <2>3. table[peer] \in Budget
    BY EnsuredIsWithin DEF BucketOK
  <2>4. changed.until \in Nat /\ changed.until > now
    BY <1>i, <2>3, PenaltyBlocks
  <2>5. budgets' = [table EXCEPT ![peer] = changed] /\ owed' = [owed EXCEPT ![peer] = changed.until]
    BY <2>1
  <2> HIDE DEF changed
  <2>6. owed'[peer] = changed.until /\ \A p \in Peers \ {peer} : owed'[p] = owed[p]
    BY <1>i, <2>5
  <2>7. now < owed'[peer] /\ owed'[peer] <= changed.until
    BY <1>i, <2>4, <2>6
  <2>8. budgets' = [table EXCEPT ![peer] = changed]
    BY <2>5
  <2> QED
    BY <2>2, <2>6, <2>7, <2>8, DebtsIn
<1> QED
  BY <1>1, <1>2, <1>3, <1>4, <1>5 DEF ThrottleNext

(* Once a peer was blocked no record of its is taken before the block has  *)
(* run out, however many peers come and take the places in the table, as   *)
(* long as no peer breaks the protocol for which no budget was found       *)
(* (AnnounceExchange::EnsureBudget_).                                      *)
THEOREM BlocksAreServed == ~Crowded => (ThrottleSpec => []BlockIsServed)
<1> SUFFICES ASSUME ~Crowded PROVE ThrottleSpec => []BlockIsServed
  OBVIOUS
<1>1. BucketInv /\ DebtInv /\ [ThrottleNext]_throttleVars => BucketInv' /\ DebtInv'
  BY BucketStep, DebtStep
<1>2. DebtInv => BlockIsServed
  BY DEF DebtInv, BlockIsServed
<1> QED
  BY <1>1, <1>2, BucketInitially, PTL DEF ThrottleSpec

-----------------------------------------------------------------------------
(* Seeding: where the two threads may stand *)

StopSteps      == {"unseed", "displace", "unattest", "unrecord"}
AddingSteps    == {"stamp", "prepare", "add"}
AnnounceSteps  == {"contains", "record", "compare"} \union AddingSteps
UiSteps        == {"idle", "judge", "erase"} \union AnnounceSteps \union StopSteps
InstallerSteps == {"idle", "withdraw", "begin", "fetch", "swap", "save", "attest", "warm", "warmed"}
                    \union StopSteps

(* The window's thread stops a seed in order to go on with a step.         *)
StopsFor(s)  == pc["ui"] \in StopSteps /\ after["ui"] = s
Announces    == pc["ui"] \in AnnounceSteps \/ StopsFor("contains")
Erases       == pc["ui"] = "erase" \/ StopsFor("erase")
Installs(m)  == pc["worker"] # "idle" /\ WorkerMod = m

(* Each thread stands at steps of its own; only a row that was found       *)
(* seedable is announced; a described row and an install are of a release; *)
(* a folder that is going to be erased may be written once more.           *)
PlacesOK ==
  /\ pc["ui"] \in UiSteps /\ pc["worker"] \in InstallerSteps
  /\ pc["ui"] \in StopSteps => after["ui"] \in {"idle", "contains", "erase"}
  /\ pc["worker"] \in StopSteps => after["worker"] = "begin"
  /\ row[3] # "none" => row[2] # 0
  /\ Announces => row[3] = "seedable"
  /\ Erases => written[UiMod] <= MaxWrites
  /\ pc["worker"] # "idle" => job[2] # 0

(* What is recorded was announced; an install moves the record up to a     *)
(* release that was announced when it began; a row that is announced is    *)
(* the recorded release and the one the install of that mod is of.         *)
RecordsOK ==
  /\ \A m \in Mods : rec[m] <= announced[m]
  /\ pc["worker"] # "idle" => rec[WorkerMod] <= job[2] /\ job[2] <= announced[WorkerMod]
  /\ pc["ui"] # "idle" /\ row[3] = "seedable" =>
       rec[UiMod] = row[2] /\ (Installs(UiMod) => job[2] = row[2])

(* Seeds are of the record; once the installer has withdrawn the seed of   *)
(* its mod another one is of the release it installs; a mod that is going  *)
(* to be erased has none.                                                  *)
SeedsOfRecord ==
  /\ SeedIsOfRecord
  /\ pc["worker"] \notin {"idle", "withdraw"} /\ Seeds(WorkerMod) # {} => rec[WorkerMod] = job[2]
  /\ Erases => Seeds(UiMod) = {}

(* A mod has one seed; the window's thread adds none where there is one,   *)
(* and keeps one that is not what was announced until it has compared.     *)
OneSeedEach ==
  /\ \A s \in roster, u \in roster : s.mod = u.mod => s = u
  /\ pc["ui"] \in AddingSteps => Seeds(UiMod) = {}
  /\ MismatchIsWithdrawn

(* What a thread takes from the roster is of its mod, which has no seed    *)
(* until the thread is through; the window's thread leaves a mod alone     *)
(* that the installer is withdrawing, and placements stay while it adds.   *)
ServedOK ==
  /\ pc["ui"] \notin StopSteps => removed["ui"] = {}
  /\ pc["worker"] \notin StopSteps => removed["worker"] = {}
  /\ \A s \in removed["ui"] : s.mod = UiMod
  /\ \A s \in removed["worker"] : s.mod = WorkerMod
  /\ pc["ui"] \in StopSteps => Seeds(UiMod) = {}
  /\ pc["worker"] \in StopSteps => Seeds(WorkerMod) = {}
  /\ Withdrawing(UiMod) => pc["ui"] = "idle"
  /\ pc["ui"] \in AddingSteps => UiMod \in located
  /\ SeedsAreServed

(* What going on to a step leaves of the other thread.                     *)
LEMMA GoingTo ==
  ASSUME SeedTypeOK, NEW t \in Threads, NEW s \in Steps, Goto(t, s)
  PROVE  /\ pc' \in [Threads -> Steps]
         /\ pc'[t] = s
         /\ \A u \in Threads \ {t} : pc'[u] = pc[u]
BY DEF SeedTypeOK, Goto

(* What stopping the seeds of a mod does: there were none, or they are out *)
(* of the roster and the rest of StopSeeding follows.                      *)
LEMMA Stops ==
  ASSUME SeedTypeOK, NEW t \in Threads, NEW m \in Mods, NEW s \in Steps, StopSeeding(t, m, s)
  PROVE  /\ roster' = roster \ Seeds(m)
         /\ pc' \in [Threads -> Steps] /\ \A u \in Threads \ {t} : pc'[u] = pc[u]
         /\ removed' \in [Threads -> SUBSET Seed] /\ after' \in [Threads -> Steps]
         /\ \A u \in Threads \ {t} : removed'[u] = removed[u] /\ after'[u] = after[u]
         /\ \/ Seeds(m) = {} /\ pc'[t] = s /\ removed' = removed /\ after' = after
            \/ pc'[t] = "unseed" /\ removed'[t] = Seeds(m) /\ after'[t] = s
<1>t. /\ pc \in [Threads -> Steps] /\ removed \in [Threads -> SUBSET Seed]
      /\ after \in [Threads -> Steps] /\ roster \subseteq Seed /\ Seeds(m) \subseteq Seed
  BY DEF SeedTypeOK, Seeds
<1>1. CASE Seeds(m) = {}
  <2>1. Goto(t, s) /\ roster' = roster /\ removed' = removed /\ after' = after
    BY <1>1 DEF StopSeeding, stopVars
  <2> QED
    BY <1>1, <1>t, <2>1, GoingTo
<1>2. CASE Seeds(m) # {}
  <2>1. /\ Goto(t, "unseed") /\ roster' = roster \ Seeds(m)
        /\ removed' = [removed EXCEPT ![t] = Seeds(m)] /\ after' = [after EXCEPT ![t] = s]
    BY <1>2 DEF StopSeeding
  <2>2. "unseed" \in Steps
    BY DEF Steps
  <2>3. /\ pc' \in [Threads -> Steps] /\ pc'[t] = "unseed"
        /\ \A u \in Threads \ {t} : pc'[u] = pc[u]
    BY <2>1, <2>2, GoingTo
  <2> QED
    BY <1>t, <2>1, <2>3
<1> QED
  BY <1>1, <1>2

(* A release of a mod, the hash it announces, and a row's three parts.     *)
LEMMA SeedingTypes ==
  ASSUME SeedTypeOK
  PROVE  /\ UiMod \in Mods /\ row[2] \in 0..MaxVersion
         /\ row[3] \in {"none", "unseedable", "unheld", "seedable"}
         /\ WorkerMod \in Mods /\ job[2] \in 0..MaxVersion
         /\ "ui" \in Threads /\ "worker" \in Threads
         /\ MaxVersion \in Nat /\ MaxWrites \in Nat
BY SeedBounds DEF SeedTypeOK, UiMod, WorkerMod, Threads

(* What a torrent is built from is known to be the release or not to be.   *)
LEMMA AssembledTypes ==
  ASSUME SeedTypeOK, NEW m \in Mods, NEW v \in Versions
  PROVE  Assembled(m, v) \subseteq BOOLEAN
BY DEF SeedTypeOK, Assembled

(* Caching keeps the cache a cache.                                        *)
LEMMA CachingTypes ==
  ASSUME SeedTypeOK, NEW m \in Mods, NEW v, Caches(m, v)
  PROVE  cache' \in [Mods -> [Versions -> SUBSET BOOLEAN]]
<1>t. cache \in [Mods -> [Versions -> SUBSET BOOLEAN]]
  BY DEF SeedTypeOK
<1>1. CASE cache' = cache
  BY <1>1, <1>t
<1>2. CASE cache' = [cache EXCEPT ![m][v] = Assembled(m, v)]
  <2> DEFINE a == Assembled(m, v)
  <2>1. CASE v \in Versions
    <3>1. a \in SUBSET BOOLEAN
      BY <2>1, AssembledTypes
    <3> HIDE DEF a
    <3>2. cache' = [cache EXCEPT ![m][v] = a]
      BY <1>2 DEF a
    <3> QED
      BY <1>t, <3>1, <3>2
  <2>2. CASE v \notin Versions
    <3> HIDE DEF a
    <3>1. cache' = [cache EXCEPT ![m][v] = a]
      BY <1>2 DEF a
    <3>2. [cache[m] EXCEPT ![v] = a] = cache[m]
      BY <1>t, <2>2
    <3> QED
      BY <1>t, <3>1, <3>2
  <2> QED
    BY <2>1, <2>2
<1> QED
  BY <1>1, <1>2 DEF Caches

(* The types of the tables, group by group.                                *)
CatalogTypes ==
  /\ announced \in [Mods -> 0..MaxVersion] /\ revoked \subseteq Mods
  /\ rows \in [Mods -> 0..MaxVersion]
FolderTypes ==
  /\ rec \in [Mods -> 0..MaxVersion] /\ content \in [Mods -> Edited..MaxVersion]
  /\ written \in [Mods -> 0..MaxWrites + 1]
SwitchTypes ==
  /\ enabled \in BOOLEAN /\ saved \in BOOLEAN
  /\ toggles \in 0..MaxToggles
TableTypes ==
  /\ roster \subseteq Seed /\ paused \subseteq Seed /\ mounted \subseteq Seed
  /\ located \subseteq Mods /\ attested \subseteq Mods
  /\ present \subseteq Seed /\ session \subseteq Seed
SavedTypes ==
  /\ stamps \in [Mods -> [Versions -> 0..MaxWrites + 1]]
  /\ cache \in [Mods -> [Versions -> SUBSET BOOLEAN]]
StepTypes ==
  /\ row \in Mods \X (0..MaxVersion) \X {"none", "unseedable", "unheld", "seedable"}
  /\ job \in Mods \X (0..MaxVersion)
  /\ pc \in [Threads -> Steps] /\ removed \in [Threads -> SUBSET Seed]
  /\ after \in [Threads -> Steps]
RestartTypes == restarts \in 0..MaxRestarts

(* The type invariant is the types of the groups of variables. *)
LEMMA TypeGroups ==
  SeedTypeOK <=> /\ CatalogTypes /\ FolderTypes /\ SwitchTypes /\ TableTypes
                 /\ SavedTypes /\ StepTypes /\ RestartTypes
BY DEF SeedTypeOK, CatalogTypes, FolderTypes, SwitchTypes, TableTypes, SavedTypes, StepTypes,
   RestartTypes

(* The same after a step. *)
LEMMA TypeGroupsAfter ==
  SeedTypeOK' <=> /\ CatalogTypes' /\ FolderTypes' /\ SwitchTypes' /\ TableTypes'
                  /\ SavedTypes' /\ StepTypes' /\ RestartTypes'
BY DEF SeedTypeOK, CatalogTypes, FolderTypes, SwitchTypes, TableTypes, SavedTypes, StepTypes,
   RestartTypes

(* A group that a step leaves alone keeps its types.                       *)
LEMMA Untouched ==
  ASSUME SeedTypeOK
  PROVE  /\ UNCHANGED catalogVars => CatalogTypes'
         /\ UNCHANGED folderVars => FolderTypes'
         /\ UNCHANGED switchVars => SwitchTypes'
         /\ UNCHANGED seedVars => TableTypes'
         /\ UNCHANGED savedVars => SavedTypes'
         /\ UNCHANGED stepVars => StepTypes'
         /\ UNCHANGED restarts => RestartTypes'
<1>1. /\ CatalogTypes /\ FolderTypes /\ SwitchTypes /\ TableTypes
      /\ SavedTypes /\ StepTypes /\ RestartTypes
  BY TypeGroups
<1>2. UNCHANGED catalogVars => CatalogTypes'
  BY <1>1 DEF catalogVars, CatalogTypes
<1>3. UNCHANGED folderVars => FolderTypes'
  BY <1>1 DEF folderVars, FolderTypes
<1>4. UNCHANGED switchVars => SwitchTypes'
  BY <1>1 DEF switchVars, SwitchTypes
<1>5. UNCHANGED seedVars => TableTypes'
  BY <1>1 DEF seedVars, TableTypes
<1>6. UNCHANGED savedVars => SavedTypes'
  BY <1>1 DEF savedVars, SavedTypes
<1>7. UNCHANGED stepVars => StepTypes'
  BY <1>1 DEF stepVars, StepTypes
<1>8. UNCHANGED restarts => RestartTypes'
  BY <1>1 DEF RestartTypes
<1> QED
  BY <1>2, <1>3, <1>4, <1>5, <1>6, <1>7, <1>8

(* A thread that goes on keeps what else it and the other one hold.        *)
LEMMA GoingOnTypes ==
  ASSUME SeedTypeOK, NEW t \in Threads, NEW s \in Steps, Goto(t, s), UNCHANGED <<row, job, stopVars>>
  PROVE  StepTypes'
BY GoingTo DEF SeedTypeOK, StepTypes, stopVars

(* A thread that stops the seeds of a mod does too.                        *)
LEMMA StoppingTypes ==
  ASSUME SeedTypeOK, NEW t \in Threads, NEW m \in Mods, NEW s \in Steps, StopSeeding(t, m, s),
         row' \in Mods \X (0..MaxVersion) \X {"none", "unseedable", "unheld", "seedable"}, job' = job,
         UNCHANGED <<paused, mounted, located, attested, present, session>>
  PROVE  StepTypes' /\ TableTypes'
<1>1. /\ roster' = roster \ Seeds(m) /\ pc' \in [Threads -> Steps]
      /\ removed' \in [Threads -> SUBSET Seed] /\ after' \in [Threads -> Steps]
  BY Stops
<1> QED
  BY <1>1 DEF SeedTypeOK, StepTypes, TableTypes

(* Stamping keeps the stamps stamps.                                       *)
LEMMA StampingTypes ==
  ASSUME SeedTypeOK, NEW m \in Mods, NEW v,
         stamps' \in {stamps, [stamps EXCEPT ![m][v] = written[m]]}
  PROVE  stamps' \in [Mods -> [Versions -> 0..MaxWrites + 1]]
<1>t. stamps \in [Mods -> [Versions -> 0..MaxWrites + 1]] /\ written[m] \in 0..MaxWrites + 1
  BY DEF SeedTypeOK
<1> DEFINE w == written[m]
<1>1. CASE stamps' = stamps
  BY <1>1, <1>t
<1>2. CASE stamps' = [stamps EXCEPT ![m][v] = w]
  <2>1. w \in 0..MaxWrites + 1
    BY <1>t
  <2> HIDE DEF w
  <2>2. CASE v \in Versions
    BY <1>2, <1>t, <2>1, <2>2
  <2>3. CASE v \notin Versions
    <3>1. [stamps[m] EXCEPT ![v] = w] = stamps[m]
      BY <1>t, <2>3
    <3> QED
      BY <1>2, <1>t, <3>1
  <2> QED
    BY <2>2, <2>3
<1> QED
  BY <1>1, <1>2

(* A folder that is written, and what may be in it then.                   *)
LEMMA FolderWritten ==
  ASSUME SeedTypeOK, NEW m \in Mods, written[m] <= MaxWrites,
         written' = [written EXCEPT ![m] = @ + 1],
         NEW c \in Edited..MaxVersion, content' = [content EXCEPT ![m] = c],
         NEW v \in 0..MaxVersion, rec' = rec \/ rec' = [rec EXCEPT ![m] = v]
  PROVE  FolderTypes'
<1>t. /\ rec \in [Mods -> 0..MaxVersion] /\ content \in [Mods -> Edited..MaxVersion]
      /\ written \in [Mods -> 0..MaxWrites + 1]
  BY DEF SeedTypeOK
<1>1. written[m] + 1 \in 0..MaxWrites + 1
  <2>1. written[m] \in 0..MaxWrites + 1
    BY <1>t
  <2> QED
    BY <2>1, SeedBounds
<1>2. written' \in [Mods -> 0..MaxWrites + 1]
  BY <1>t, <1>1
<1>3. content' \in [Mods -> Edited..MaxVersion]
  BY <1>t
<1>4. rec' \in [Mods -> 0..MaxVersion]
  BY <1>t
<1> QED
  BY <1>2, <1>3, <1>4 DEF FolderTypes

(* Every step keeps the tables' types; what is written to them comes from  *)
(* the places the threads stand at.                                        *)
LEMMA SeedTypes == SeedTypeOK /\ PlacesOK /\ [SeedNext]_vars => SeedTypeOK'
<1> SUFFICES ASSUME SeedTypeOK, PlacesOK, [SeedNext]_vars PROVE SeedTypeOK'
  OBVIOUS
<1>t. /\ UiMod \in Mods /\ row[2] \in 0..MaxVersion
      /\ row[3] \in {"none", "unseedable", "unheld", "seedable"}
      /\ WorkerMod \in Mods /\ job[2] \in 0..MaxVersion
      /\ "ui" \in Threads /\ "worker" \in Threads
      /\ MaxVersion \in Nat /\ MaxWrites \in Nat
  BY SeedingTypes
<1>1. CASE AnnounceDeclined
  <2>1. Goto("ui", "idle")
    BY <1>1 DEF AnnounceDeclined
  <2>2. UNCHANGED <<row, job, stopVars>>
    BY <1>1 DEF AnnounceDeclined
  <2>3. StepTypes'
    BY <1>t, <2>1, <2>2, GoingOnTypes DEF Steps
  <2>4. UNCHANGED <<catalogVars, folderVars, switchVars, seedVars, savedVars, restarts>>
    BY <1>1 DEF AnnounceDeclined
  <2> QED
    BY <2>3, <2>4, Untouched, TypeGroupsAfter
<1>2. CASE AnnounceRegisters
  <2>1. Goto("ui", "stamp")
    BY <1>2 DEF AnnounceRegisters
  <2>2. UNCHANGED <<row, job, stopVars>>
    BY <1>2 DEF AnnounceRegisters
  <2>3. StepTypes'
    BY <1>t, <2>1, <2>2, GoingOnTypes DEF Steps
  <2>4. TableTypes'
    BY <1>t, <1>2 DEF AnnounceRegisters, TableTypes, SeedTypeOK
  <2>5. UNCHANGED <<catalogVars, folderVars, switchVars, savedVars, restarts>>
    BY <1>2 DEF AnnounceRegisters, seedVars
  <2> QED
    BY <2>3, <2>4, <2>5, Untouched, TypeGroupsAfter
<1>3. CASE AnnounceStamps
  <2>1. Goto("ui", "prepare")
    BY <1>3 DEF AnnounceStamps
  <2>2. UNCHANGED <<row, job, stopVars>>
    BY <1>3 DEF AnnounceStamps
  <2>3. StepTypes'
    BY <1>t, <2>1, <2>2, GoingOnTypes DEF Steps
  <2>4. TableTypes'
    BY <1>t, <1>3 DEF AnnounceStamps, TableTypes, SeedTypeOK
  <2>5. SavedTypes'
    <3>1. stamps' \in {stamps, [stamps EXCEPT ![UiMod][row[2]] = written[UiMod]]} /\ cache' = cache
      BY <1>3 DEF AnnounceStamps, SavesStamp
    <3> QED
      <4>1. stamps' \in [Mods -> [Versions -> 0..MaxWrites + 1]]
        BY <1>t, <3>1, StampingTypes
      <4> QED
        BY <3>1, <4>1 DEF SavedTypes, SeedTypeOK
  <2>6. UNCHANGED <<catalogVars, folderVars, switchVars, restarts>>
    BY <1>3 DEF AnnounceStamps, seedVars, savedVars
  <2> QED
    BY <2>3, <2>4, <2>5, <2>6, Untouched, TypeGroupsAfter
<1>4. CASE AnnouncePrepares
  <2>1. Goto("ui", "add")
    BY <1>4 DEF AnnouncePrepares
  <2>2. UNCHANGED <<row, job, stopVars>>
    BY <1>4 DEF AnnouncePrepares
  <2>3. StepTypes'
    BY <1>t, <2>1, <2>2, GoingOnTypes DEF Steps
  <2>4. SavedTypes'
    <3>1. Caches(UiMod, row[2]) /\ stamps' = stamps
      BY <1>4 DEF AnnouncePrepares
    <3> QED
      BY <1>t, <3>1, CachingTypes DEF SavedTypes, SeedTypeOK
  <2>5. UNCHANGED <<catalogVars, folderVars, switchVars, seedVars, restarts>>
    BY <1>4 DEF AnnouncePrepares, savedVars
  <2> QED
    BY <2>3, <2>4, <2>5, Untouched, TypeGroupsAfter
<1>5. CASE AnnounceFails
  <2>1. Goto("ui", "idle")
    BY <1>5 DEF AnnounceFails
  <2>2. UNCHANGED <<row, job, stopVars>>
    BY <1>5 DEF AnnounceFails
  <2>3. StepTypes'
    BY <1>t, <2>1, <2>2, GoingOnTypes DEF Steps
  <2>4. TableTypes'
    BY <1>t, <1>5 DEF AnnounceFails, TableTypes, SeedTypeOK
  <2>5. UNCHANGED <<catalogVars, folderVars, switchVars, savedVars, restarts>>
    BY <1>5 DEF AnnounceFails, seedVars
  <2> QED
    BY <2>3, <2>4, <2>5, Untouched, TypeGroupsAfter
<1>6. CASE AnnounceAdds
  <2>1. Goto("ui", "record")
    BY <1>6 DEF AnnounceAdds
  <2>2. UNCHANGED <<row, job, stopVars>>
    BY <1>6 DEF AnnounceAdds
  <2>3. StepTypes'
    BY <1>t, <2>1, <2>2, GoingOnTypes DEF Steps
  <2>4. TableTypes'
    <3>1. PICK intact \in Assembled(UiMod, row[2]) :
            LET s == [mod |-> UiMod, version |-> row[2], intact |-> intact]
            IN  /\ session' = session \cup {s}
                /\ mounted' = IF UiMod \in located THEN mounted \cup {s} ELSE mounted
                /\ roster' = roster \cup {s}
      BY <1>6 DEF AnnounceAdds
    <3>2. UNCHANGED <<paused, located, attested, present>>
      BY <1>6 DEF AnnounceAdds
    <3>3. row[2] \in Versions
      <4>1. pc["ui"] = "add"
        BY <1>6 DEF AnnounceAdds, At
      <4>2. row[2] # 0
        BY <4>1 DEF PlacesOK, Announces, AnnounceSteps, AddingSteps
      <4> QED
        BY <1>t, <4>2 DEF Versions
    <3>4. [mod |-> UiMod, version |-> row[2], intact |-> intact] \in Seed
      BY <1>t, <3>3, AssembledTypes DEF Seed
    <3> QED
      BY <3>1, <3>2, <3>4 DEF TableTypes, SeedTypeOK
  <2>5. UNCHANGED <<catalogVars, folderVars, switchVars, savedVars, restarts>>
    BY <1>6 DEF AnnounceAdds, seedVars
  <2> QED
    BY <2>3, <2>4, <2>5, Untouched, TypeGroupsAfter
<1>7. CASE AnnounceRecords
  <2>1. Goto("ui", "compare")
    BY <1>7 DEF AnnounceRecords
  <2>2. UNCHANGED <<row, job, stopVars>>
    BY <1>7 DEF AnnounceRecords
  <2>3. StepTypes'
    BY <1>t, <2>1, <2>2, GoingOnTypes DEF Steps
  <2>4. TableTypes'
    BY <1>7 DEF AnnounceRecords, TableTypes, SeedTypeOK, Seeds
  <2>5. UNCHANGED <<catalogVars, folderVars, switchVars, savedVars, restarts>>
    BY <1>7 DEF AnnounceRecords, seedVars
  <2> QED
    BY <2>3, <2>4, <2>5, Untouched, TypeGroupsAfter
<1>8. CASE FetchRefused
  <2>1. Goto("worker", "idle")
    BY <1>8 DEF FetchRefused
  <2>2. UNCHANGED <<row, job, stopVars>>
    BY <1>8 DEF FetchRefused
  <2>3. StepTypes'
    BY <1>t, <2>1, <2>2, GoingOnTypes DEF Steps
  <2>4. UNCHANGED <<catalogVars, folderVars, switchVars, seedVars, savedVars, restarts>>
    BY <1>8 DEF FetchRefused
  <2> QED
    BY <2>3, <2>4, Untouched, TypeGroupsAfter
<1>9. CASE FetchBegins
  <2>1. Goto("worker", "fetch")
    BY <1>9 DEF FetchBegins
  <2>2. UNCHANGED <<row, job, stopVars>>
    BY <1>9 DEF FetchBegins
  <2>3. StepTypes'
    BY <1>t, <2>1, <2>2, GoingOnTypes DEF Steps
  <2>4. TableTypes'
    <3>1. job[2] \in Versions
      <4>1. job[2] # 0
        BY <1>9 DEF PlacesOK, FetchBegins, At
      <4> QED
        BY <1>t, <4>1 DEF Versions
    <3>2. FetchHash \in Seed
      BY <1>t, <3>1 DEF FetchHash, AnnouncedHash, Seed
    <3>3. /\ session' = session \cup {FetchHash}
          /\ UNCHANGED <<roster, paused, mounted, located, attested, present>>
      BY <1>9 DEF FetchBegins
    <3> QED
      BY <3>2, <3>3 DEF TableTypes, SeedTypeOK
  <2>5. UNCHANGED <<catalogVars, folderVars, switchVars, savedVars, restarts>>
    BY <1>9 DEF FetchBegins, seedVars
  <2> QED
    BY <2>3, <2>4, <2>5, Untouched, TypeGroupsAfter
<1>10. CASE FetchUnneeded
  <2>1. Goto("worker", "swap")
    BY <1>10 DEF FetchUnneeded
  <2>2. UNCHANGED <<row, job, stopVars>>
    BY <1>10 DEF FetchUnneeded
  <2>3. StepTypes'
    BY <1>t, <2>1, <2>2, GoingOnTypes DEF Steps
  <2>4. UNCHANGED <<catalogVars, folderVars, switchVars, seedVars, savedVars, restarts>>
    BY <1>10 DEF FetchUnneeded
  <2> QED
    BY <2>3, <2>4, Untouched, TypeGroupsAfter
<1>11. CASE FetchEnds
  <2>1. Goto("worker", "swap") \/ Goto("worker", "idle")
    BY <1>11 DEF FetchEnds
  <2>2. UNCHANGED <<row, job, stopVars>>
    BY <1>11 DEF FetchEnds
  <2>3. StepTypes'
    BY <1>t, <2>1, <2>2, GoingOnTypes DEF Steps
  <2>4. TableTypes'
    BY <1>t, <1>11 DEF FetchEnds, TableTypes, SeedTypeOK
  <2>5. UNCHANGED <<catalogVars, folderVars, switchVars, savedVars, restarts>>
    BY <1>11 DEF FetchEnds, seedVars
  <2> QED
    BY <2>3, <2>4, <2>5, Untouched, TypeGroupsAfter
<1>12. CASE Swap
  <2>1. Goto("worker", "save") \/ Goto("worker", "idle")
    BY <1>12 DEF Swap
  <2>2. UNCHANGED <<row, job, stopVars>>
    BY <1>12 DEF Swap
  <2>3. StepTypes'
    BY <1>t, <2>1, <2>2, GoingOnTypes DEF Steps
  <2>4. FolderTypes'
    <3>1. /\ written[WorkerMod] <= MaxWrites /\ written' = [written EXCEPT ![WorkerMod] = @ + 1]
          /\ rec' = rec
      BY <1>t, <1>12 DEF Swap, SeedTypeOK
    <3>2. \/ content' = [content EXCEPT ![WorkerMod] = job[2]]
          \/ content' = [content EXCEPT ![WorkerMod] = Edited]
      BY <1>12 DEF Swap
    <3>3. job[2] \in Edited..MaxVersion /\ Edited \in Edited..MaxVersion
      BY <1>t DEF Edited
    <3> QED
      BY <1>t, <3>1, <3>2, <3>3, FolderWritten
  <2>5. UNCHANGED <<catalogVars, switchVars, seedVars, savedVars, restarts>>
    BY <1>12 DEF Swap, folderVars
  <2> QED
    BY <2>3, <2>4, <2>5, Untouched, TypeGroupsAfter
<1>13. CASE SwapFails
  <2>1. Goto("worker", "idle")
    BY <1>13 DEF SwapFails
  <2>2. UNCHANGED <<row, job, stopVars>>
    BY <1>13 DEF SwapFails
  <2>3. StepTypes'
    BY <1>t, <2>1, <2>2, GoingOnTypes DEF Steps
  <2>4. UNCHANGED <<catalogVars, folderVars, switchVars, seedVars, savedVars, restarts>>
    BY <1>13 DEF SwapFails
  <2> QED
    BY <2>3, <2>4, Untouched, TypeGroupsAfter
<1>14. CASE SaveRecord
  <2>1. Goto("worker", "attest")
    BY <1>14 DEF SaveRecord
  <2>2. UNCHANGED <<row, job, stopVars>>
    BY <1>14 DEF SaveRecord
  <2>3. StepTypes'
    BY <1>t, <2>1, <2>2, GoingOnTypes DEF Steps
  <2>4. FolderTypes'
    BY <1>t, <1>14 DEF SaveRecord, FolderTypes, SeedTypeOK
  <2>5. UNCHANGED <<catalogVars, switchVars, seedVars, savedVars, restarts>>
    BY <1>14 DEF SaveRecord, folderVars
  <2> QED
    BY <2>3, <2>4, <2>5, Untouched, TypeGroupsAfter
<1>15. CASE AttestContent
  <2>1. Goto("worker", "warm")
    BY <1>15 DEF AttestContent
  <2>2. UNCHANGED <<row, job, stopVars>>
    BY <1>15 DEF AttestContent
  <2>3. StepTypes'
    BY <1>t, <2>1, <2>2, GoingOnTypes DEF Steps
  <2>4. TableTypes'
    BY <1>t, <1>15 DEF AttestContent, TableTypes, SeedTypeOK
  <2>5. SavedTypes'
    <3>1. stamps' \in {stamps, [stamps EXCEPT ![WorkerMod][job[2]] = written[WorkerMod]]} /\ cache' = cache
      BY <1>15 DEF AttestContent, savedVars
    <3> QED
      <4>1. stamps' \in [Mods -> [Versions -> 0..MaxWrites + 1]]
        BY <1>t, <3>1, StampingTypes
      <4> QED
        BY <3>1, <4>1 DEF SavedTypes, SeedTypeOK
  <2>6. UNCHANGED <<catalogVars, folderVars, switchVars, restarts>>
    BY <1>15 DEF AttestContent, seedVars, savedVars
  <2> QED
    BY <2>3, <2>4, <2>5, <2>6, Untouched, TypeGroupsAfter
<1>16. CASE PrepareSeed
  <2>1. Goto("worker", "warmed")
    BY <1>16 DEF PrepareSeed
  <2>2. UNCHANGED <<row, job, stopVars>>
    BY <1>16 DEF PrepareSeed
  <2>3. StepTypes'
    BY <1>t, <2>1, <2>2, GoingOnTypes DEF Steps
  <2>4. SavedTypes'
    <3>1. Caches(WorkerMod, job[2]) /\ stamps' = stamps
      BY <1>16 DEF PrepareSeed
    <3> QED
      BY <1>t, <3>1, CachingTypes DEF SavedTypes, SeedTypeOK
  <2>5. UNCHANGED <<catalogVars, folderVars, switchVars, seedVars, restarts>>
    BY <1>16 DEF PrepareSeed, savedVars
  <2> QED
    BY <2>3, <2>4, <2>5, Untouched, TypeGroupsAfter
<1>17. CASE InstallEnds
  <2>1. Goto("worker", "idle")
    BY <1>17 DEF InstallEnds
  <2>2. UNCHANGED <<row, job, stopVars>>
    BY <1>17 DEF InstallEnds
  <2>3. StepTypes'
    BY <1>t, <2>1, <2>2, GoingOnTypes DEF Steps
  <2>4. UNCHANGED <<catalogVars, folderVars, switchVars, seedVars, savedVars, restarts>>
    BY <1>17 DEF InstallEnds
  <2> QED
    BY <2>3, <2>4, Untouched, TypeGroupsAfter
<1>18. CASE Erase
  <2>1. Goto("ui", "idle")
    BY <1>18 DEF Erase
  <2>2. UNCHANGED <<row, job, stopVars>>
    BY <1>18 DEF Erase
  <2>3. StepTypes'
    BY <1>t, <2>1, <2>2, GoingOnTypes DEF Steps
  <2>4. FolderTypes'
    <3>1. written[UiMod] <= MaxWrites
      BY <1>18 DEF Erase, At, PlacesOK, Erases
    <3>2. written' = [written EXCEPT ![UiMod] = @ + 1]
      BY <1>18 DEF Erase
    <3>3. \/ content' = [content EXCEPT ![UiMod] = Absent] /\ rec' = [rec EXCEPT ![UiMod] = 0]
          \/ content' = [content EXCEPT ![UiMod] = Edited] /\ rec' = rec
      BY <1>18 DEF Erase
    <3>4. Absent \in Edited..MaxVersion /\ Edited \in Edited..MaxVersion /\ 0 \in 0..MaxVersion
      BY <1>t DEF Edited, Absent
    <3> QED
      BY <1>t, <3>1, <3>2, <3>3, <3>4, FolderWritten
  <2>5. UNCHANGED <<catalogVars, switchVars, seedVars, savedVars, restarts>>
    BY <1>18 DEF Erase, folderVars
  <2> QED
    BY <2>3, <2>4, <2>5, Untouched, TypeGroupsAfter
<1>19. ASSUME NEW t \in Threads, StopUnseeds(t) PROVE SeedTypeOK'
  <2>1. Goto(t, "displace")
    BY <1>19 DEF StopUnseeds
  <2>2. UNCHANGED <<row, job, stopVars>>
    BY <1>19 DEF StopUnseeds
  <2>3. StepTypes'
    BY <1>t, <2>1, <2>2, GoingOnTypes DEF Steps
  <2>4. TableTypes'
    BY <1>t, <1>19 DEF StopUnseeds, TableTypes, SeedTypeOK
  <2>5. UNCHANGED <<catalogVars, folderVars, switchVars, savedVars, restarts>>
    BY <1>19 DEF StopUnseeds, seedVars
  <2> QED
    BY <2>3, <2>4, <2>5, Untouched, TypeGroupsAfter
<1>20. ASSUME NEW t \in Threads, StopForgetsPlacements(t) PROVE SeedTypeOK'
  <2>1. Goto(t, "unattest")
    BY <1>20 DEF StopForgetsPlacements
  <2>2. UNCHANGED <<row, job, stopVars>>
    BY <1>20 DEF StopForgetsPlacements
  <2>3. StepTypes'
    BY <1>t, <2>1, <2>2, GoingOnTypes DEF Steps
  <2>4. TableTypes'
    BY <1>t, <1>20 DEF StopForgetsPlacements, TableTypes, SeedTypeOK
  <2>5. UNCHANGED <<catalogVars, folderVars, switchVars, savedVars, restarts>>
    BY <1>20 DEF StopForgetsPlacements, seedVars
  <2> QED
    BY <2>3, <2>4, <2>5, Untouched, TypeGroupsAfter
<1>21. ASSUME NEW t \in Threads, StopForgetsAttestation(t) PROVE SeedTypeOK'
  <2>1. Goto(t, "unrecord")
    BY <1>21 DEF StopForgetsAttestation
  <2>2. UNCHANGED <<row, job, stopVars>>
    BY <1>21 DEF StopForgetsAttestation
  <2>3. StepTypes'
    BY <1>t, <2>1, <2>2, GoingOnTypes DEF Steps
  <2>4. TableTypes'
    BY <1>t, <1>21 DEF StopForgetsAttestation, TableTypes, SeedTypeOK
  <2>5. UNCHANGED <<catalogVars, folderVars, switchVars, savedVars, restarts>>
    BY <1>21 DEF StopForgetsAttestation, seedVars
  <2> QED
    BY <2>3, <2>4, <2>5, Untouched, TypeGroupsAfter
<1>22. ASSUME NEW m \in Mods, NewRelease(m) PROVE SeedTypeOK'
  <2>1. CatalogTypes'
    BY <1>t, <1>22 DEF NewRelease, CatalogTypes, SeedTypeOK
  <2>2. UNCHANGED <<folderVars, switchVars, seedVars, savedVars, stepVars, restarts>>
    BY <1>22 DEF NewRelease, catalogVars
  <2> QED
    BY <2>1, <2>2, Untouched, TypeGroupsAfter
<1>23. ASSUME NEW m \in Mods, Revoke(m) PROVE SeedTypeOK'
  <2>1. CatalogTypes'
    BY <1>t, <1>23 DEF Revoke, CatalogTypes, SeedTypeOK
  <2>2. UNCHANGED <<folderVars, switchVars, seedVars, savedVars, stepVars, restarts>>
    BY <1>23 DEF Revoke, catalogVars
  <2> QED
    BY <2>1, <2>2, Untouched, TypeGroupsAfter
<1>24. ASSUME NEW m \in Mods, Edit(m) PROVE SeedTypeOK'
  <2>1. FolderTypes'
    <3>1. /\ written[m] <= MaxWrites /\ written' = [written EXCEPT ![m] = @ + 1]
          /\ content' = [content EXCEPT ![m] = Edited] /\ rec' = rec
      BY <1>t, <1>24 DEF Edit, SeedTypeOK
    <3>2. Edited \in Edited..MaxVersion /\ 0 \in 0..MaxVersion
      BY <1>t DEF Edited
    <3> QED
      BY <3>1, <3>2, FolderWritten
  <2>2. UNCHANGED <<catalogVars, switchVars, seedVars, savedVars, stepVars, restarts>>
    BY <1>24 DEF Edit, folderVars
  <2> QED
    BY <2>1, <2>2, Untouched, TypeGroupsAfter
<1>25. CASE SetEnabled
  <2>1. SwitchTypes'
    <3>1. enabled' \in BOOLEAN /\ saved' \in BOOLEAN
      BY <1>25 DEF SetEnabled, SeedTypeOK
    <3>2. toggles' \in 0..MaxToggles
      BY SeedBounds, <1>25 DEF SetEnabled, SeedTypeOK
    <3> QED
      BY <3>1, <3>2 DEF SwitchTypes
  <2>2. TableTypes'
    BY <1>t, <1>25 DEF SetEnabled, TableTypes, SeedTypeOK
  <2>3. UNCHANGED <<catalogVars, folderVars, savedVars, stepVars, restarts>>
    BY <1>25 DEF SetEnabled, switchVars, seedVars
  <2> QED
    BY <2>1, <2>2, <2>3, Untouched, TypeGroupsAfter
<1>26. ASSUME NEW m \in Mods, Describe(m) PROVE SeedTypeOK'
  <2>1. announced[m] \in 0..MaxVersion
    BY <1>t DEF SeedTypeOK
  <2>2. CatalogTypes'
    BY <2>1, <1>26 DEF Describe, CatalogTypes, SeedTypeOK
  <2>3. /\ row' \in Mods \X (0..MaxVersion) \X {"none", "unseedable", "unheld", "seedable"}
        /\ Goto("ui", "judge") /\ UNCHANGED <<job, stopVars>>
    BY <2>1, <1>26 DEF Describe
  <2>4. pc' \in [Threads -> Steps]
    BY <1>t, <2>3, GoingTo DEF Steps
  <2>5. StepTypes'
    BY <2>3, <2>4 DEF StepTypes, SeedTypeOK, stopVars
  <2>6. UNCHANGED <<folderVars, switchVars, seedVars, savedVars, restarts>>
    BY <1>26 DEF Describe
  <2> QED
    BY <2>2, <2>5, <2>6, Untouched, TypeGroupsAfter
<1>27. CASE Judge
  <2>1. /\ UNCHANGED <<catalogVars, folderVars, switchVars, savedVars, row, job, restarts>>
        /\ UNCHANGED <<paused, mounted, located, attested, present, session>>
    BY <1>27 DEF Judge
  <2>2. \/ StopSeeding("ui", UiMod, "idle") \/ StopSeeding("ui", UiMod, "contains")
        \/ (Goto("ui", "idle") \/ Goto("ui", "contains")) /\ UNCHANGED <<roster, stopVars>>
    BY <1>27 DEF Judge
  <2>3. row' \in Mods \X (0..MaxVersion) \X {"none", "unseedable", "unheld", "seedable"}
    BY <2>1 DEF SeedTypeOK
  <2>4. CASE StopSeeding("ui", UiMod, "idle") \/ StopSeeding("ui", UiMod, "contains")
    <3>1. "idle" \in Steps /\ "contains" \in Steps
      BY DEF Steps
    <3>2. StepTypes' /\ TableTypes'
      BY <1>t, <2>1, <2>3, <2>4, <3>1, StoppingTypes
    <3> QED
      BY <2>1, <3>2, Untouched, TypeGroupsAfter
  <2>5. CASE (Goto("ui", "idle") \/ Goto("ui", "contains")) /\ UNCHANGED <<roster, stopVars>>
    <3>1. StepTypes'
      BY <1>t, <2>1, <2>5, GoingOnTypes DEF Steps
    <3>2. UNCHANGED seedVars
      BY <2>1, <2>5 DEF seedVars
    <3> QED
      BY <2>1, <3>1, <3>2, Untouched, TypeGroupsAfter
  <2> QED
    BY <2>2, <2>4, <2>5
<1>28. CASE Compare
  <2>1. /\ UNCHANGED <<catalogVars, folderVars, switchVars, savedVars, row, job, restarts>>
        /\ UNCHANGED <<paused, mounted, located, attested, present, session>>
    BY <1>28 DEF Compare
  <2>2. StopSeeding("ui", UiMod, "idle") \/ (Goto("ui", "idle") /\ UNCHANGED <<roster, stopVars>>)
    BY <1>28 DEF Compare
  <2>3. row' \in Mods \X (0..MaxVersion) \X {"none", "unseedable", "unheld", "seedable"}
    BY <2>1 DEF SeedTypeOK
  <2>4. CASE StopSeeding("ui", UiMod, "idle")
    <3>1. StepTypes' /\ TableTypes'
      BY <1>t, <2>1, <2>3, <2>4, StoppingTypes DEF Steps
    <3> QED
      BY <2>1, <3>1, Untouched, TypeGroupsAfter
  <2>5. CASE Goto("ui", "idle") /\ UNCHANGED <<roster, stopVars>>
    <3>1. StepTypes'
      BY <1>t, <2>1, <2>5, GoingOnTypes DEF Steps
    <3>2. UNCHANGED seedVars
      BY <2>1, <2>5 DEF seedVars
    <3> QED
      BY <2>1, <3>1, <3>2, Untouched, TypeGroupsAfter
  <2> QED
    BY <2>2, <2>4, <2>5
<1>29. ASSUME NEW m \in Mods, Install(m) PROVE SeedTypeOK'
  <2>1. /\ job' = <<m, announced[m]>> /\ Goto("worker", "withdraw") /\ UNCHANGED <<row, stopVars>>
        /\ UNCHANGED <<catalogVars, folderVars, switchVars, seedVars, savedVars, restarts>>
    BY <1>29 DEF Install
  <2>2. job' \in Mods \X (0..MaxVersion)
    BY <2>1 DEF SeedTypeOK
  <2>3. pc' \in [Threads -> Steps]
    BY <1>t, <2>1, GoingTo DEF Steps
  <2>4. StepTypes'
    BY <2>1, <2>2, <2>3 DEF StepTypes, SeedTypeOK, stopVars
  <2> QED
    BY <2>1, <2>4, Untouched, TypeGroupsAfter
<1>30. CASE WithdrawSeed
  <2>1. /\ UNCHANGED <<catalogVars, folderVars, switchVars, savedVars, row, job, restarts>>
        /\ UNCHANGED <<paused, mounted, located, attested, present, session>>
        /\ StopSeeding("worker", WorkerMod, "begin")
    BY <1>30 DEF WithdrawSeed
  <2>2. row' \in Mods \X (0..MaxVersion) \X {"none", "unseedable", "unheld", "seedable"}
    BY <2>1 DEF SeedTypeOK
  <2>3. StepTypes' /\ TableTypes'
    BY <1>t, <2>1, <2>2, StoppingTypes DEF Steps
  <2> QED
    BY <2>1, <2>3, Untouched, TypeGroupsAfter
<1>31. ASSUME NEW m \in Mods, Remove(m) PROVE SeedTypeOK'
  <2>1. /\ UNCHANGED <<catalogVars, folderVars, switchVars, savedVars, job, restarts>>
        /\ UNCHANGED <<paused, mounted, located, attested, present, session>>
        /\ row' = <<m, 0, "none">> /\ StopSeeding("ui", m, "erase")
    BY <1>31 DEF Remove
  <2>2. row' \in Mods \X (0..MaxVersion) \X {"none", "unseedable", "unheld", "seedable"}
    BY <1>t, <2>1
  <2>3. "erase" \in Steps /\ job' = job /\ UNCHANGED <<paused, mounted, located, attested, present, session>>
    BY <2>1 DEF Steps
  <2>4. StepTypes' /\ TableTypes'
    BY <1>t, <2>1, <2>2, <2>3, StoppingTypes
  <2> QED
    BY <2>1, <2>4, Untouched, TypeGroupsAfter
<1>32. CASE Restart
  <2>1. SwitchTypes'
    BY <1>32 DEF Restart, SwitchTypes, SeedTypeOK
  <2>2. TableTypes'
    BY <1>32 DEF Restart, TableTypes
  <2>3. CatalogTypes'
    BY <1>t, <1>32 DEF Restart, CatalogTypes, SeedTypeOK
  <2>4. StepTypes'
    BY <1>32 DEF Restart, StepTypes, SeedTypeOK, Steps
  <2>5. RestartTypes'
    BY SeedBounds, <1>32 DEF Restart, RestartTypes, SeedTypeOK
  <2>6. UNCHANGED <<folderVars, savedVars>>
    BY <1>32 DEF Restart
  <2> QED
    BY <2>1, <2>2, <2>3, <2>4, <2>5, <2>6, Untouched, TypeGroupsAfter
<1>33. ASSUME NEW t \in Threads, StopForgetsPresence(t) PROVE SeedTypeOK'
  <2>1. /\ Goto(t, after[t]) /\ removed' = [removed EXCEPT ![t] = {}]
        /\ present' = present \ removed[t] /\ UNCHANGED <<row, job, after>>
        /\ UNCHANGED <<roster, paused, mounted, located, attested, session>>
        /\ UNCHANGED <<catalogVars, folderVars, switchVars, savedVars, restarts>>
    BY <1>33 DEF StopForgetsPresence
  <2>2. after[t] \in Steps
    BY DEF SeedTypeOK
  <2>3. pc' \in [Threads -> Steps]
    BY <2>1, <2>2, GoingTo
  <2>4. StepTypes'
    BY <2>1, <2>3 DEF StepTypes, SeedTypeOK
  <2>5. TableTypes'
    BY <2>1 DEF TableTypes, SeedTypeOK
  <2> QED
    BY <2>1, <2>4, <2>5, Untouched, TypeGroupsAfter
<1>34. CASE UNCHANGED vars
  <2>1. UNCHANGED <<catalogVars, folderVars, switchVars, seedVars, savedVars, stepVars, restarts>>
    BY <1>34 DEF vars
  <2> QED
    BY <2>1, Untouched, TypeGroupsAfter
<1>n. SeedNext \/ UNCHANGED vars
  OBVIOUS
<1>r. CASE Row
  BY <1>r, <1>1, <1>2, <1>3, <1>4, <1>5, <1>6, <1>7, <1>26, <1>27, <1>28 DEF Row
<1>w. CASE Installer
  BY <1>w, <1>8, <1>9, <1>10, <1>11, <1>12, <1>13, <1>14, <1>15, <1>16, <1>17, <1>29, <1>30
     DEF Installer
<1>e. CASE World
  BY <1>e, <1>22, <1>23, <1>24, <1>32 DEF World
<1>s. ASSUME NEW t \in Threads, Stopping(t) PROVE SeedTypeOK'
  BY <1>s, <1>19, <1>20, <1>21, <1>33 DEF Stopping
<1> QED
  BY <1>n, <1>r, <1>w, <1>e, <1>s, <1>18, <1>25, <1>31, <1>34 DEF SeedNext

(* While the threads do not overlap on a mod its seeds are served.         *)
ServedHere == Overlap \/ ServedOK

SeedInv == SeedTypeOK /\ PlacesOK /\ RecordsOK /\ SeedsOfRecord /\ OneSeedEach /\ ServedHere

(* Every step keeps the invariant.                                         *)
LEMMA SeedStep == SeedInv /\ [SeedNext]_vars => SeedInv'
<1> SUFFICES ASSUME SeedInv, [SeedNext]_vars PROVE SeedInv'
  OBVIOUS
<1>i. SeedTypeOK /\ PlacesOK /\ RecordsOK /\ SeedsOfRecord /\ OneSeedEach /\ ServedHere
  BY DEF SeedInv
<1>t. /\ SeedTypeOK
      /\ UiMod \in Mods /\ row[2] \in 0..MaxVersion
      /\ row[3] \in {"none", "unseedable", "unheld", "seedable"}
      /\ WorkerMod \in Mods /\ job[2] \in 0..MaxVersion
      /\ "ui" \in Threads /\ "worker" \in Threads
      /\ MaxVersion \in Nat /\ MaxWrites \in Nat
      /\ announced \in [Mods -> 0..MaxVersion] /\ rec \in [Mods -> 0..MaxVersion]
      /\ written \in [Mods -> 0..MaxWrites + 1]
  BY <1>i, SeedingTypes DEF SeedTypeOK
<1>u. SeedTypeOK'
  BY <1>i, SeedTypes
<1>m. \A s \in roster : s.mod \in Mods
  BY <1>t DEF SeedTypeOK, Seed
<1>1. CASE AnnounceDeclined
  <2>1. pc["ui"] = "contains" /\ pc'["ui"] = "idle" /\ pc'["worker"] = pc["worker"]
    BY <1>t, <1>1, GoingTo DEF AnnounceDeclined, At, Threads, Steps
  <2>2. UNCHANGED <<row, job, rec, announced, roster, located, mounted, written, removed, after>>
    BY <1>1 DEF AnnounceDeclined, catalogVars, folderVars, switchVars, seedVars, savedVars,
       stepVars, stopVars
  <2>3. PlacesOK'
    BY <1>t, <1>i, <2>1, <2>2 DEF PlacesOK, StopsFor, Announces, Erases, UiMod, WorkerMod,
       UiSteps, InstallerSteps, AnnounceSteps, AddingSteps, StopSteps
  <2>4. RecordsOK'
    BY <1>t, <1>i, <2>1, <2>2 DEF RecordsOK, Installs, UiMod, WorkerMod
  <2>5. SeedsOfRecord'
    BY <1>t, <1>i, <2>1, <2>2 DEF SeedsOfRecord, SeedIsOfRecord, Seeds, StopsFor, Erases,
       UiMod, WorkerMod, StopSteps
  <2>6. OneSeedEach'
    BY <1>t, <1>i, <2>1, <2>2 DEF OneSeedEach, MismatchIsWithdrawn, AddingSteps, Seeds, UiMod
  <2>7. ServedHere'
    BY <1>t, <1>i, <2>1, <2>2 DEF ServedHere, ServedOK, SeedsAreServed, Withdrawing,
       AddingSteps, StopSteps, Seeds, UiMod, WorkerMod
  <2> QED
    BY <1>u, <2>3, <2>4, <2>5, <2>6, <2>7 DEF SeedInv
<1>2. CASE AnnounceRegisters
  <2>1. pc["ui"] = "contains" /\ pc'["ui"] = "stamp" /\ pc'["worker"] = pc["worker"]
    BY <1>t, <1>2, GoingTo DEF AnnounceRegisters, At, Threads, Steps
  <2>2. UNCHANGED <<row, job, rec, announced, roster, mounted, written, removed, after>>
    BY <1>2 DEF AnnounceRegisters, catalogVars, folderVars, switchVars, seedVars, savedVars,
       stepVars, stopVars
  <2>3. located' = located \cup {UiMod} /\ Seeds(UiMod) = {} /\ (Overlap \/ ~Withdrawing(UiMod))
    BY <1>t, <1>2 DEF AnnounceRegisters, At, UiMod, WorkerMod, Unseedable
  <2>4. PlacesOK'
    BY <1>t, <1>i, <2>1, <2>2, <2>3 DEF PlacesOK, StopsFor, Announces, Erases, UiMod,
       WorkerMod, UiSteps, InstallerSteps, AnnounceSteps, AddingSteps, StopSteps
  <2>5. RecordsOK'
    BY <1>t, <1>i, <2>1, <2>2, <2>3 DEF RecordsOK, Installs, UiMod, WorkerMod
  <2>6. SeedsOfRecord'
    BY <1>t, <1>i, <2>1, <2>2, <2>3 DEF SeedsOfRecord, SeedIsOfRecord, Seeds, StopsFor,
       Erases, UiMod, WorkerMod, StopSteps
  <2>7. OneSeedEach'
    BY <1>t, <1>i, <2>1, <2>2, <2>3 DEF OneSeedEach, MismatchIsWithdrawn, AddingSteps, Seeds,
       UiMod
  <2>8. ServedHere'
    <3> SUFFICES ASSUME ~Overlap PROVE ServedOK'
      BY DEF ServedHere
    <3>1. ServedOK /\ ~Withdrawing(UiMod)
      BY <1>i, <2>3 DEF ServedHere
    <3>2. located' = located \cup {UiMod} /\ Seeds(UiMod) = {}
      BY <2>3
    <3>3. UiMod' = UiMod /\ WorkerMod' = WorkerMod /\ Seeds(UiMod)' = Seeds(UiMod)
          /\ Seeds(WorkerMod)' = Seeds(WorkerMod)
      BY <2>2 DEF UiMod, WorkerMod, Seeds
    <3>4. ~Withdrawing(UiMod)'
      BY <2>1, <3>1, <3>3 DEF Withdrawing
    <3>5. SeedsAreServed'
      <4>1. mounted' = mounted
        BY <1>2 DEF AnnounceRegisters
      <4> QED
        BY <2>2, <3>1, <3>2, <4>1 DEF ServedOK, SeedsAreServed
    <3> QED
      BY <2>1, <2>2, <3>1, <3>2, <3>3, <3>4, <3>5 DEF ServedOK, AddingSteps, StopSteps
  <2> QED
    BY <1>u, <2>4, <2>5, <2>6, <2>7, <2>8 DEF SeedInv
<1>3. CASE AnnounceStamps
  <2>1. pc["ui"] = "stamp" /\ pc'["ui"] = "prepare" /\ pc'["worker"] = pc["worker"]
    BY <1>t, <1>3, GoingTo DEF AnnounceStamps, At, Threads, Steps
  <2>2. UNCHANGED <<row, job, rec, announced, roster, located, mounted, written, removed, after>>
    BY <1>3 DEF AnnounceStamps, catalogVars, folderVars, switchVars, seedVars, savedVars,
       stepVars, stopVars
  <2>3. PlacesOK'
    BY <1>t, <1>i, <2>1, <2>2 DEF PlacesOK, StopsFor, Announces, Erases, UiMod, WorkerMod,
       UiSteps, InstallerSteps, AnnounceSteps, AddingSteps, StopSteps
  <2>4. RecordsOK'
    BY <1>t, <1>i, <2>1, <2>2 DEF RecordsOK, Installs, UiMod, WorkerMod
  <2>5. SeedsOfRecord'
    BY <1>t, <1>i, <2>1, <2>2 DEF SeedsOfRecord, SeedIsOfRecord, Seeds, StopsFor, Erases,
       UiMod, WorkerMod, StopSteps
  <2>6. OneSeedEach'
    BY <1>t, <1>i, <2>1, <2>2 DEF OneSeedEach, MismatchIsWithdrawn, AddingSteps, Seeds, UiMod
  <2>7. ServedHere'
    BY <1>t, <1>i, <2>1, <2>2 DEF ServedHere, ServedOK, SeedsAreServed, Withdrawing,
       AddingSteps, StopSteps, Seeds, UiMod, WorkerMod
  <2> QED
    BY <1>u, <2>3, <2>4, <2>5, <2>6, <2>7 DEF SeedInv
<1>4. CASE AnnouncePrepares
  <2>1. pc["ui"] = "prepare" /\ pc'["ui"] = "add" /\ pc'["worker"] = pc["worker"]
    BY <1>t, <1>4, GoingTo DEF AnnouncePrepares, At, Threads, Steps
  <2>2. UNCHANGED <<row, job, rec, announced, roster, located, mounted, written, removed, after>>
    BY <1>4 DEF AnnouncePrepares, catalogVars, folderVars, switchVars, seedVars, savedVars,
       stepVars, stopVars
  <2>3. PlacesOK'
    BY <1>t, <1>i, <2>1, <2>2 DEF PlacesOK, StopsFor, Announces, Erases, UiMod, WorkerMod,
       UiSteps, InstallerSteps, AnnounceSteps, AddingSteps, StopSteps
  <2>4. RecordsOK'
    BY <1>t, <1>i, <2>1, <2>2 DEF RecordsOK, Installs, UiMod, WorkerMod
  <2>5. SeedsOfRecord'
    BY <1>t, <1>i, <2>1, <2>2 DEF SeedsOfRecord, SeedIsOfRecord, Seeds, StopsFor, Erases,
       UiMod, WorkerMod, StopSteps
  <2>6. OneSeedEach'
    BY <1>t, <1>i, <2>1, <2>2 DEF OneSeedEach, MismatchIsWithdrawn, AddingSteps, Seeds, UiMod
  <2>7. ServedHere'
    BY <1>t, <1>i, <2>1, <2>2 DEF ServedHere, ServedOK, SeedsAreServed, Withdrawing,
       AddingSteps, StopSteps, Seeds, UiMod, WorkerMod
  <2> QED
    BY <1>u, <2>3, <2>4, <2>5, <2>6, <2>7 DEF SeedInv
<1>5. CASE AnnounceFails
  <2>1. pc["ui"] \in {"prepare", "add"} /\ pc'["ui"] = "idle" /\ pc'["worker"] = pc["worker"]
    BY <1>t, <1>5, GoingTo DEF AnnounceFails, At, Threads, Steps
  <2>2. UNCHANGED <<row, job, rec, announced, roster, mounted, written, removed, after>>
    BY <1>5 DEF AnnounceFails, catalogVars, folderVars, switchVars, seedVars, savedVars,
       stepVars, stopVars
  <2>3. located' = located \ {UiMod}
    BY <1>t, <1>5 DEF AnnounceFails, At, UiMod, WorkerMod, Unseedable
  <2>4. PlacesOK'
    BY <1>t, <1>i, <2>1, <2>2, <2>3 DEF PlacesOK, StopsFor, Announces, Erases, UiMod,
       WorkerMod, UiSteps, InstallerSteps, AnnounceSteps, AddingSteps, StopSteps
  <2>5. RecordsOK'
    BY <1>t, <1>i, <2>1, <2>2, <2>3 DEF RecordsOK, Installs, UiMod, WorkerMod
  <2>6. SeedsOfRecord'
    BY <1>t, <1>i, <2>1, <2>2, <2>3 DEF SeedsOfRecord, SeedIsOfRecord, Seeds, StopsFor,
       Erases, UiMod, WorkerMod, StopSteps
  <2>7. OneSeedEach'
    BY <1>t, <1>i, <2>1, <2>2, <2>3 DEF OneSeedEach, MismatchIsWithdrawn, AddingSteps, Seeds,
       UiMod
  <2>8. ServedHere'
    <3> SUFFICES ASSUME ~Overlap PROVE ServedOK'
      BY DEF ServedHere
    <3>1. ServedOK /\ Seeds(UiMod) = {}
      BY <1>i, <2>1 DEF ServedHere, OneSeedEach, AddingSteps
    <3>2. /\ UiMod' = UiMod /\ WorkerMod' = WorkerMod /\ Seeds(UiMod)' = Seeds(UiMod)
          /\ Seeds(WorkerMod)' = Seeds(WorkerMod)
      BY <2>2 DEF UiMod, WorkerMod, Seeds
    <3>3. SeedsAreServed'
      BY <2>2, <2>3, <3>1 DEF ServedOK, SeedsAreServed, Seeds
    <3> QED
      BY <2>1, <2>2, <3>1, <3>2, <3>3 DEF ServedOK, AddingSteps, StopSteps, Withdrawing
  <2> QED
    BY <1>u, <2>4, <2>5, <2>6, <2>7, <2>8 DEF SeedInv
<1>6. CASE AnnounceRecords
  <2>1. pc["ui"] = "record" /\ pc'["ui"] = "compare" /\ pc'["worker"] = pc["worker"]
    BY <1>t, <1>6, GoingTo DEF AnnounceRecords, At, Threads, Steps
  <2>2. UNCHANGED <<row, job, rec, announced, roster, located, mounted, written, removed, after>>
    BY <1>6 DEF AnnounceRecords, catalogVars, folderVars, switchVars, seedVars, savedVars,
       stepVars, stopVars
  <2>3. PlacesOK'
    BY <1>t, <1>i, <2>1, <2>2 DEF PlacesOK, StopsFor, Announces, Erases, UiMod, WorkerMod,
       UiSteps, InstallerSteps, AnnounceSteps, AddingSteps, StopSteps
  <2>4. RecordsOK'
    BY <1>t, <1>i, <2>1, <2>2 DEF RecordsOK, Installs, UiMod, WorkerMod
  <2>5. SeedsOfRecord'
    BY <1>t, <1>i, <2>1, <2>2 DEF SeedsOfRecord, SeedIsOfRecord, Seeds, StopsFor, Erases,
       UiMod, WorkerMod, StopSteps
  <2>6. OneSeedEach'
    BY <1>t, <1>i, <2>1, <2>2 DEF OneSeedEach, MismatchIsWithdrawn, AddingSteps, Seeds, UiMod
  <2>7. ServedHere'
    BY <1>t, <1>i, <2>1, <2>2 DEF ServedHere, ServedOK, SeedsAreServed, Withdrawing,
       AddingSteps, StopSteps, Seeds, UiMod, WorkerMod
  <2> QED
    BY <1>u, <2>3, <2>4, <2>5, <2>6, <2>7 DEF SeedInv
<1>7. CASE FetchRefused
  <2>1. pc["worker"] = "begin" /\ pc'["worker"] = "idle" /\ pc'["ui"] = pc["ui"]
    BY <1>t, <1>7, GoingTo DEF FetchRefused, At, Threads, Steps
  <2>2. UNCHANGED <<row, job, rec, announced, roster, located, mounted, written, removed, after>>
    BY <1>7 DEF FetchRefused, catalogVars, folderVars, switchVars, seedVars, savedVars,
       stepVars, stopVars
  <2>3. PlacesOK'
    BY <1>t, <1>i, <2>1, <2>2 DEF PlacesOK, StopsFor, Announces, Erases, UiMod, WorkerMod,
       UiSteps, InstallerSteps, AnnounceSteps, AddingSteps, StopSteps
  <2>4. RecordsOK'
    BY <1>t, <1>i, <2>1, <2>2 DEF RecordsOK, Installs, UiMod, WorkerMod
  <2>5. SeedsOfRecord'
    BY <1>t, <1>i, <2>1, <2>2 DEF SeedsOfRecord, SeedIsOfRecord, Seeds, StopsFor, Erases,
       UiMod, WorkerMod, StopSteps
  <2>6. OneSeedEach'
    BY <1>t, <1>i, <2>1, <2>2 DEF OneSeedEach, MismatchIsWithdrawn, AddingSteps, Seeds, UiMod
  <2>7. ServedHere'
    BY <1>t, <1>i, <2>1, <2>2 DEF ServedHere, ServedOK, SeedsAreServed, Withdrawing,
       AddingSteps, StopSteps, Seeds, UiMod, WorkerMod
  <2> QED
    BY <1>u, <2>3, <2>4, <2>5, <2>6, <2>7 DEF SeedInv
<1>8. CASE FetchBegins
  <2>1. pc["worker"] = "begin" /\ pc'["worker"] = "fetch" /\ pc'["ui"] = pc["ui"]
    BY <1>t, <1>8, GoingTo DEF FetchBegins, At, Threads, Steps
  <2>2. UNCHANGED <<row, job, rec, announced, roster, located, mounted, written, removed, after>>
    BY <1>8 DEF FetchBegins, catalogVars, folderVars, switchVars, seedVars, savedVars,
       stepVars, stopVars
  <2>3. PlacesOK'
    BY <1>t, <1>i, <2>1, <2>2 DEF PlacesOK, StopsFor, Announces, Erases, UiMod, WorkerMod,
       UiSteps, InstallerSteps, AnnounceSteps, AddingSteps, StopSteps
  <2>4. RecordsOK'
    BY <1>t, <1>i, <2>1, <2>2 DEF RecordsOK, Installs, UiMod, WorkerMod
  <2>5. SeedsOfRecord'
    BY <1>t, <1>i, <2>1, <2>2 DEF SeedsOfRecord, SeedIsOfRecord, Seeds, StopsFor, Erases,
       UiMod, WorkerMod, StopSteps
  <2>6. OneSeedEach'
    BY <1>t, <1>i, <2>1, <2>2 DEF OneSeedEach, MismatchIsWithdrawn, AddingSteps, Seeds, UiMod
  <2>7. ServedHere'
    BY <1>t, <1>i, <2>1, <2>2 DEF ServedHere, ServedOK, SeedsAreServed, Withdrawing,
       AddingSteps, StopSteps, Seeds, UiMod, WorkerMod
  <2> QED
    BY <1>u, <2>3, <2>4, <2>5, <2>6, <2>7 DEF SeedInv
<1>9. CASE FetchUnneeded
  <2>1. pc["worker"] = "begin" /\ pc'["worker"] = "swap" /\ pc'["ui"] = pc["ui"]
    BY <1>t, <1>9, GoingTo DEF FetchUnneeded, At, Threads, Steps
  <2>2. UNCHANGED <<row, job, rec, announced, roster, located, mounted, written, removed, after>>
    BY <1>9 DEF FetchUnneeded, catalogVars, folderVars, switchVars, seedVars, savedVars,
       stepVars, stopVars
  <2>3. PlacesOK'
    BY <1>t, <1>i, <2>1, <2>2 DEF PlacesOK, StopsFor, Announces, Erases, UiMod, WorkerMod,
       UiSteps, InstallerSteps, AnnounceSteps, AddingSteps, StopSteps
  <2>4. RecordsOK'
    BY <1>t, <1>i, <2>1, <2>2 DEF RecordsOK, Installs, UiMod, WorkerMod
  <2>5. SeedsOfRecord'
    BY <1>t, <1>i, <2>1, <2>2 DEF SeedsOfRecord, SeedIsOfRecord, Seeds, StopsFor, Erases,
       UiMod, WorkerMod, StopSteps
  <2>6. OneSeedEach'
    BY <1>t, <1>i, <2>1, <2>2 DEF OneSeedEach, MismatchIsWithdrawn, AddingSteps, Seeds, UiMod
  <2>7. ServedHere'
    BY <1>t, <1>i, <2>1, <2>2 DEF ServedHere, ServedOK, SeedsAreServed, Withdrawing,
       AddingSteps, StopSteps, Seeds, UiMod, WorkerMod
  <2> QED
    BY <1>u, <2>3, <2>4, <2>5, <2>6, <2>7 DEF SeedInv
<1>10. CASE FetchEnds
  <2>1. pc["worker"] = "fetch" /\ pc'["worker"] \in {"swap", "idle"} /\ pc'["ui"] = pc["ui"]
    BY <1>t, <1>10, GoingTo DEF FetchEnds, At, Threads, Steps
  <2>2. UNCHANGED <<row, job, rec, announced, roster, located, mounted, written, removed, after>>
    BY <1>10 DEF FetchEnds, catalogVars, folderVars, switchVars, seedVars, savedVars,
       stepVars, stopVars
  <2>3. PlacesOK'
    BY <1>t, <1>i, <2>1, <2>2 DEF PlacesOK, StopsFor, Announces, Erases, UiMod, WorkerMod,
       UiSteps, InstallerSteps, AnnounceSteps, AddingSteps, StopSteps
  <2>4. RecordsOK'
    BY <1>t, <1>i, <2>1, <2>2 DEF RecordsOK, Installs, UiMod, WorkerMod
  <2>5. SeedsOfRecord'
    BY <1>t, <1>i, <2>1, <2>2 DEF SeedsOfRecord, SeedIsOfRecord, Seeds, StopsFor, Erases,
       UiMod, WorkerMod, StopSteps
  <2>6. OneSeedEach'
    BY <1>t, <1>i, <2>1, <2>2 DEF OneSeedEach, MismatchIsWithdrawn, AddingSteps, Seeds, UiMod
  <2>7. ServedHere'
    BY <1>t, <1>i, <2>1, <2>2 DEF ServedHere, ServedOK, SeedsAreServed, Withdrawing,
       AddingSteps, StopSteps, Seeds, UiMod, WorkerMod
  <2> QED
    BY <1>u, <2>3, <2>4, <2>5, <2>6, <2>7 DEF SeedInv
<1>11. CASE Swap
  <2>1. pc["worker"] = "swap" /\ pc'["worker"] \in {"save", "idle"} /\ pc'["ui"] = pc["ui"]
    BY <1>t, <1>11, GoingTo DEF Swap, At, Threads, Steps
  <2>2. UNCHANGED <<row, job, rec, announced, roster, located, mounted, removed, after>>
    BY <1>11 DEF Swap, catalogVars, folderVars, switchVars, seedVars, savedVars, stepVars,
       stopVars
  <2>3. written[WorkerMod] < MaxWrites /\ written' = [written EXCEPT ![WorkerMod] = @ + 1]
    BY <1>t, <1>11 DEF Swap, At, UiMod, WorkerMod, Unseedable
  <2>4. PlacesOK'
    BY <1>t, <1>i, <2>1, <2>2, <2>3 DEF PlacesOK, StopsFor, Announces, Erases, UiMod,
       WorkerMod, UiSteps, InstallerSteps, AnnounceSteps, AddingSteps, StopSteps
  <2>5. RecordsOK'
    BY <1>t, <1>i, <2>1, <2>2, <2>3 DEF RecordsOK, Installs, UiMod, WorkerMod
  <2>6. SeedsOfRecord'
    BY <1>t, <1>i, <2>1, <2>2, <2>3 DEF SeedsOfRecord, SeedIsOfRecord, Seeds, StopsFor,
       Erases, UiMod, WorkerMod, StopSteps
  <2>7. OneSeedEach'
    BY <1>t, <1>i, <2>1, <2>2, <2>3 DEF OneSeedEach, MismatchIsWithdrawn, AddingSteps, Seeds,
       UiMod
  <2>8. ServedHere'
    BY <1>t, <1>i, <2>1, <2>2, <2>3 DEF ServedHere, ServedOK, SeedsAreServed, Withdrawing,
       AddingSteps, StopSteps, Seeds, UiMod, WorkerMod
  <2> QED
    BY <1>u, <2>4, <2>5, <2>6, <2>7, <2>8 DEF SeedInv
<1>12. CASE SwapFails
  <2>1. pc["worker"] = "swap" /\ pc'["worker"] = "idle" /\ pc'["ui"] = pc["ui"]
    BY <1>t, <1>12, GoingTo DEF SwapFails, At, Threads, Steps
  <2>2. UNCHANGED <<row, job, rec, announced, roster, located, mounted, written, removed, after>>
    BY <1>12 DEF SwapFails, catalogVars, folderVars, switchVars, seedVars, savedVars,
       stepVars, stopVars
  <2>3. PlacesOK'
    BY <1>t, <1>i, <2>1, <2>2 DEF PlacesOK, StopsFor, Announces, Erases, UiMod, WorkerMod,
       UiSteps, InstallerSteps, AnnounceSteps, AddingSteps, StopSteps
  <2>4. RecordsOK'
    BY <1>t, <1>i, <2>1, <2>2 DEF RecordsOK, Installs, UiMod, WorkerMod
  <2>5. SeedsOfRecord'
    BY <1>t, <1>i, <2>1, <2>2 DEF SeedsOfRecord, SeedIsOfRecord, Seeds, StopsFor, Erases,
       UiMod, WorkerMod, StopSteps
  <2>6. OneSeedEach'
    BY <1>t, <1>i, <2>1, <2>2 DEF OneSeedEach, MismatchIsWithdrawn, AddingSteps, Seeds, UiMod
  <2>7. ServedHere'
    BY <1>t, <1>i, <2>1, <2>2 DEF ServedHere, ServedOK, SeedsAreServed, Withdrawing,
       AddingSteps, StopSteps, Seeds, UiMod, WorkerMod
  <2> QED
    BY <1>u, <2>3, <2>4, <2>5, <2>6, <2>7 DEF SeedInv
<1>13. CASE SaveRecord
  <2>1. pc["worker"] = "save" /\ pc'["worker"] = "attest" /\ pc'["ui"] = pc["ui"]
    BY <1>t, <1>13, GoingTo DEF SaveRecord, At, Threads, Steps
  <2>2. UNCHANGED <<row, job, announced, roster, located, mounted, written, removed, after>>
    BY <1>13 DEF SaveRecord, catalogVars, folderVars, switchVars, seedVars, savedVars,
       stepVars, stopVars
  <2>3. rec' = rec \/ rec' = [rec EXCEPT ![WorkerMod] = job[2]]
    BY <1>t, <1>13 DEF SaveRecord, At, UiMod, WorkerMod, Unseedable
  <2>4. PlacesOK'
    BY <1>t, <1>i, <2>1, <2>2, <2>3 DEF PlacesOK, StopsFor, Announces, Erases, UiMod,
       WorkerMod, UiSteps, InstallerSteps, AnnounceSteps, AddingSteps, StopSteps
  <2>5. RecordsOK'
    BY <1>t, <1>i, <2>1, <2>2, <2>3 DEF RecordsOK, Installs, UiMod, WorkerMod
  <2>6. SeedsOfRecord'
    <3>1. CASE rec' = rec
      BY <1>i, <2>1, <2>2, <3>1 DEF SeedsOfRecord, SeedIsOfRecord, Seeds, StopsFor, Erases, UiMod,
         WorkerMod, StopSteps
    <3>2. CASE rec' = [rec EXCEPT ![WorkerMod] = job[2]]
      <4>1. Seeds(WorkerMod) # {} => rec[WorkerMod] = job[2]
        BY <1>i, <2>1 DEF SeedsOfRecord
      <4>2. ASSUME NEW s \in roster PROVE s.version = rec'[s.mod]
        <5>1. s.version = rec[s.mod] /\ s.mod \in Mods
          BY <1>i, <1>m DEF SeedsOfRecord, SeedIsOfRecord
        <5>2. CASE s.mod = WorkerMod
          BY <1>t, <3>2, <4>1, <5>1, <5>2 DEF Seeds
        <5>3. CASE s.mod # WorkerMod
          BY <1>t, <3>2, <5>1, <5>3
        <5> QED
          BY <5>2, <5>3
      <4>3. SeedIsOfRecord'
        BY <2>2, <4>2 DEF SeedIsOfRecord
      <4>4. rec'[WorkerMod] = job[2] /\ WorkerMod' = WorkerMod /\ job' = job
        BY <1>t, <2>2, <3>2 DEF WorkerMod
      <4>5. Erases' => Seeds(UiMod)' = {}
        BY <1>i, <2>1, <2>2 DEF SeedsOfRecord, Seeds, StopsFor, Erases, UiMod
      <4> QED
        BY <4>3, <4>4, <4>5 DEF SeedsOfRecord
    <3> QED
      BY <2>3, <3>1, <3>2
  <2>7. OneSeedEach'
    BY <1>t, <1>i, <2>1, <2>2, <2>3 DEF OneSeedEach, MismatchIsWithdrawn, AddingSteps, Seeds,
       UiMod
  <2>8. ServedHere'
    BY <1>t, <1>i, <2>1, <2>2, <2>3 DEF ServedHere, ServedOK, SeedsAreServed, Withdrawing,
       AddingSteps, StopSteps, Seeds, UiMod, WorkerMod
  <2> QED
    BY <1>u, <2>4, <2>5, <2>6, <2>7, <2>8 DEF SeedInv
<1>14. CASE AttestContent
  <2>1. pc["worker"] = "attest" /\ pc'["worker"] = "warm" /\ pc'["ui"] = pc["ui"]
    BY <1>t, <1>14, GoingTo DEF AttestContent, At, Threads, Steps
  <2>2. UNCHANGED <<row, job, rec, announced, roster, located, mounted, written, removed, after>>
    BY <1>14 DEF AttestContent, catalogVars, folderVars, switchVars, seedVars, savedVars,
       stepVars, stopVars
  <2>3. PlacesOK'
    BY <1>t, <1>i, <2>1, <2>2 DEF PlacesOK, StopsFor, Announces, Erases, UiMod, WorkerMod,
       UiSteps, InstallerSteps, AnnounceSteps, AddingSteps, StopSteps
  <2>4. RecordsOK'
    BY <1>t, <1>i, <2>1, <2>2 DEF RecordsOK, Installs, UiMod, WorkerMod
  <2>5. SeedsOfRecord'
    BY <1>t, <1>i, <2>1, <2>2 DEF SeedsOfRecord, SeedIsOfRecord, Seeds, StopsFor, Erases,
       UiMod, WorkerMod, StopSteps
  <2>6. OneSeedEach'
    BY <1>t, <1>i, <2>1, <2>2 DEF OneSeedEach, MismatchIsWithdrawn, AddingSteps, Seeds, UiMod
  <2>7. ServedHere'
    BY <1>t, <1>i, <2>1, <2>2 DEF ServedHere, ServedOK, SeedsAreServed, Withdrawing,
       AddingSteps, StopSteps, Seeds, UiMod, WorkerMod
  <2> QED
    BY <1>u, <2>3, <2>4, <2>5, <2>6, <2>7 DEF SeedInv
<1>15. CASE PrepareSeed
  <2>1. pc["worker"] = "warm" /\ pc'["worker"] = "warmed" /\ pc'["ui"] = pc["ui"]
    BY <1>t, <1>15, GoingTo DEF PrepareSeed, At, Threads, Steps
  <2>2. UNCHANGED <<row, job, rec, announced, roster, located, mounted, written, removed, after>>
    BY <1>15 DEF PrepareSeed, catalogVars, folderVars, switchVars, seedVars, savedVars,
       stepVars, stopVars
  <2>3. PlacesOK'
    BY <1>t, <1>i, <2>1, <2>2 DEF PlacesOK, StopsFor, Announces, Erases, UiMod, WorkerMod,
       UiSteps, InstallerSteps, AnnounceSteps, AddingSteps, StopSteps
  <2>4. RecordsOK'
    BY <1>t, <1>i, <2>1, <2>2 DEF RecordsOK, Installs, UiMod, WorkerMod
  <2>5. SeedsOfRecord'
    BY <1>t, <1>i, <2>1, <2>2 DEF SeedsOfRecord, SeedIsOfRecord, Seeds, StopsFor, Erases,
       UiMod, WorkerMod, StopSteps
  <2>6. OneSeedEach'
    BY <1>t, <1>i, <2>1, <2>2 DEF OneSeedEach, MismatchIsWithdrawn, AddingSteps, Seeds, UiMod
  <2>7. ServedHere'
    BY <1>t, <1>i, <2>1, <2>2 DEF ServedHere, ServedOK, SeedsAreServed, Withdrawing,
       AddingSteps, StopSteps, Seeds, UiMod, WorkerMod
  <2> QED
    BY <1>u, <2>3, <2>4, <2>5, <2>6, <2>7 DEF SeedInv
<1>16. CASE InstallEnds
  <2>1. pc["worker"] = "warmed" /\ pc'["worker"] = "idle" /\ pc'["ui"] = pc["ui"]
    BY <1>t, <1>16, GoingTo DEF InstallEnds, At, Threads, Steps
  <2>2. UNCHANGED <<row, job, rec, announced, roster, located, mounted, written, removed, after>>
    BY <1>16 DEF InstallEnds, catalogVars, folderVars, switchVars, seedVars, savedVars,
       stepVars, stopVars
  <2>3. PlacesOK'
    BY <1>t, <1>i, <2>1, <2>2 DEF PlacesOK, StopsFor, Announces, Erases, UiMod, WorkerMod,
       UiSteps, InstallerSteps, AnnounceSteps, AddingSteps, StopSteps
  <2>4. RecordsOK'
    BY <1>t, <1>i, <2>1, <2>2 DEF RecordsOK, Installs, UiMod, WorkerMod
  <2>5. SeedsOfRecord'
    BY <1>t, <1>i, <2>1, <2>2 DEF SeedsOfRecord, SeedIsOfRecord, Seeds, StopsFor, Erases,
       UiMod, WorkerMod, StopSteps
  <2>6. OneSeedEach'
    BY <1>t, <1>i, <2>1, <2>2 DEF OneSeedEach, MismatchIsWithdrawn, AddingSteps, Seeds, UiMod
  <2>7. ServedHere'
    BY <1>t, <1>i, <2>1, <2>2 DEF ServedHere, ServedOK, SeedsAreServed, Withdrawing,
       AddingSteps, StopSteps, Seeds, UiMod, WorkerMod
  <2> QED
    BY <1>u, <2>3, <2>4, <2>5, <2>6, <2>7 DEF SeedInv
<1>17. ASSUME NEW m \in Mods, NewRelease(m) PROVE SeedInv'
  <2>1. pc' = pc
    BY <1>17 DEF NewRelease, stepVars
  <2>2. UNCHANGED <<row, job, rec, roster, located, mounted, written, removed, after>>
    BY <1>17 DEF NewRelease, catalogVars, folderVars, switchVars, seedVars, savedVars,
       stepVars, stopVars
  <2>3. announced' = [announced EXCEPT ![m] = @ + 1]
    BY <1>t, <1>17 DEF NewRelease, At, UiMod, WorkerMod, Unseedable
  <2>4. PlacesOK'
    BY <1>t, <1>i, <2>1, <2>2, <2>3 DEF PlacesOK, StopsFor, Announces, Erases, UiMod,
       WorkerMod, UiSteps, InstallerSteps, AnnounceSteps, AddingSteps, StopSteps
  <2>5. RecordsOK'
    BY <1>t, <1>i, <2>1, <2>2, <2>3 DEF RecordsOK, Installs, UiMod, WorkerMod
  <2>6. SeedsOfRecord'
    BY <1>t, <1>i, <2>1, <2>2, <2>3 DEF SeedsOfRecord, SeedIsOfRecord, Seeds, StopsFor,
       Erases, UiMod, WorkerMod, StopSteps
  <2>7. OneSeedEach'
    BY <1>t, <1>i, <2>1, <2>2, <2>3 DEF OneSeedEach, MismatchIsWithdrawn, AddingSteps, Seeds,
       UiMod
  <2>8. ServedHere'
    BY <1>t, <1>i, <2>1, <2>2, <2>3 DEF ServedHere, ServedOK, SeedsAreServed, Withdrawing,
       AddingSteps, StopSteps, Seeds, UiMod, WorkerMod
  <2> QED
    BY <1>u, <2>4, <2>5, <2>6, <2>7, <2>8 DEF SeedInv
<1>18. ASSUME NEW m \in Mods, Revoke(m) PROVE SeedInv'
  <2>1. pc' = pc
    BY <1>18 DEF Revoke, stepVars
  <2>2. UNCHANGED <<row, job, rec, announced, roster, located, mounted, written, removed, after>>
    BY <1>18 DEF Revoke, catalogVars, folderVars, switchVars, seedVars, savedVars, stepVars,
       stopVars
  <2>3. PlacesOK'
    BY <1>t, <1>i, <2>1, <2>2 DEF PlacesOK, StopsFor, Announces, Erases, UiMod, WorkerMod,
       UiSteps, InstallerSteps, AnnounceSteps, AddingSteps, StopSteps
  <2>4. RecordsOK'
    BY <1>t, <1>i, <2>1, <2>2 DEF RecordsOK, Installs, UiMod, WorkerMod
  <2>5. SeedsOfRecord'
    BY <1>t, <1>i, <2>1, <2>2 DEF SeedsOfRecord, SeedIsOfRecord, Seeds, StopsFor, Erases,
       UiMod, WorkerMod, StopSteps
  <2>6. OneSeedEach'
    BY <1>t, <1>i, <2>1, <2>2 DEF OneSeedEach, MismatchIsWithdrawn, AddingSteps, Seeds, UiMod
  <2>7. ServedHere'
    BY <1>t, <1>i, <2>1, <2>2 DEF ServedHere, ServedOK, SeedsAreServed, Withdrawing,
       AddingSteps, StopSteps, Seeds, UiMod, WorkerMod
  <2> QED
    BY <1>u, <2>3, <2>4, <2>5, <2>6, <2>7 DEF SeedInv
<1>19. ASSUME NEW m \in Mods, Edit(m) PROVE SeedInv'
  <2>1. pc' = pc
    BY <1>19 DEF Edit, stepVars
  <2>2. UNCHANGED <<row, job, rec, announced, roster, located, mounted, removed, after>>
    BY <1>19 DEF Edit, catalogVars, folderVars, switchVars, seedVars, savedVars, stepVars,
       stopVars
  <2>3. written[m] < MaxWrites /\ written' = [written EXCEPT ![m] = @ + 1]
    BY <1>t, <1>19 DEF Edit, At, UiMod, WorkerMod, Unseedable
  <2>4. PlacesOK'
    BY <1>t, <1>i, <2>1, <2>2, <2>3 DEF PlacesOK, StopsFor, Announces, Erases, UiMod,
       WorkerMod, UiSteps, InstallerSteps, AnnounceSteps, AddingSteps, StopSteps
  <2>5. RecordsOK'
    BY <1>t, <1>i, <2>1, <2>2, <2>3 DEF RecordsOK, Installs, UiMod, WorkerMod
  <2>6. SeedsOfRecord'
    BY <1>t, <1>i, <2>1, <2>2, <2>3 DEF SeedsOfRecord, SeedIsOfRecord, Seeds, StopsFor,
       Erases, UiMod, WorkerMod, StopSteps
  <2>7. OneSeedEach'
    BY <1>t, <1>i, <2>1, <2>2, <2>3 DEF OneSeedEach, MismatchIsWithdrawn, AddingSteps, Seeds,
       UiMod
  <2>8. ServedHere'
    BY <1>t, <1>i, <2>1, <2>2, <2>3 DEF ServedHere, ServedOK, SeedsAreServed, Withdrawing,
       AddingSteps, StopSteps, Seeds, UiMod, WorkerMod
  <2> QED
    BY <1>u, <2>4, <2>5, <2>6, <2>7, <2>8 DEF SeedInv
<1>20. CASE SetEnabled
  <2>1. pc' = pc
    BY <1>20 DEF SetEnabled, stepVars
  <2>2. UNCHANGED <<row, job, rec, announced, roster, located, mounted, written, removed, after>>
    BY <1>20 DEF SetEnabled, catalogVars, folderVars, switchVars, seedVars, savedVars,
       stepVars, stopVars
  <2>3. PlacesOK'
    BY <1>t, <1>i, <2>1, <2>2 DEF PlacesOK, StopsFor, Announces, Erases, UiMod, WorkerMod,
       UiSteps, InstallerSteps, AnnounceSteps, AddingSteps, StopSteps
  <2>4. RecordsOK'
    BY <1>t, <1>i, <2>1, <2>2 DEF RecordsOK, Installs, UiMod, WorkerMod
  <2>5. SeedsOfRecord'
    BY <1>t, <1>i, <2>1, <2>2 DEF SeedsOfRecord, SeedIsOfRecord, Seeds, StopsFor, Erases,
       UiMod, WorkerMod, StopSteps
  <2>6. OneSeedEach'
    BY <1>t, <1>i, <2>1, <2>2 DEF OneSeedEach, MismatchIsWithdrawn, AddingSteps, Seeds, UiMod
  <2>7. ServedHere'
    BY <1>t, <1>i, <2>1, <2>2 DEF ServedHere, ServedOK, SeedsAreServed, Withdrawing,
       AddingSteps, StopSteps, Seeds, UiMod, WorkerMod
  <2> QED
    BY <1>u, <2>3, <2>4, <2>5, <2>6, <2>7 DEF SeedInv
<1>21. CASE Erase
  <2>1. pc["ui"] = "erase" /\ pc'["ui"] = "idle" /\ pc'["worker"] = pc["worker"]
    BY <1>t, <1>21, GoingTo DEF Erase, At, Threads, Steps
  <2>2. UNCHANGED <<row, job, announced, roster, located, mounted, removed, after>>
    BY <1>21 DEF Erase, catalogVars, folderVars, switchVars, seedVars, savedVars, stepVars,
       stopVars
  <2>3. rec' = rec \/ rec' = [rec EXCEPT ![UiMod] = 0]
    BY <1>t, <1>21 DEF Erase, At, UiMod, WorkerMod, Unseedable
  <2>4. written' = [written EXCEPT ![UiMod] = @ + 1]
    BY <1>t, <1>21 DEF Erase, At, UiMod, WorkerMod, Unseedable
  <2>5. PlacesOK'
    BY <1>t, <1>i, <2>1, <2>2, <2>3, <2>4 DEF PlacesOK, StopsFor, Announces, Erases, UiMod,
       WorkerMod, UiSteps, InstallerSteps, AnnounceSteps, AddingSteps, StopSteps
  <2>6. RecordsOK'
    BY <1>t, <1>i, <2>1, <2>2, <2>3, <2>4 DEF RecordsOK, Installs, UiMod, WorkerMod
  <2>7. SeedsOfRecord'
    <3>1. Seeds(UiMod) = {}
      BY <1>i, <2>1 DEF SeedsOfRecord, Erases
    <3>2. \A m \in Mods \ {UiMod} : rec'[m] = rec[m]
      BY <1>t, <2>3
    <3>3. ASSUME NEW s \in roster PROVE s.version = rec'[s.mod]
      <4>1. s.version = rec[s.mod] /\ s.mod \in Mods
        BY <1>i, <1>m DEF SeedsOfRecord, SeedIsOfRecord
      <4>2. s.mod # UiMod
        BY <3>1 DEF Seeds
      <4> QED
        BY <3>2, <4>1, <4>2
    <3>4. SeedIsOfRecord'
      BY <2>2, <3>3 DEF SeedIsOfRecord
    <3>5. ~Erases'
      BY <2>1 DEF Erases, StopsFor, StopSteps
    <3>6. Seeds(WorkerMod) # {} => WorkerMod # UiMod
      BY <3>1
    <3>7. WorkerMod' = WorkerMod /\ job' = job /\ Seeds(WorkerMod)' = Seeds(WorkerMod)
      BY <2>2 DEF WorkerMod, Seeds
    <3> QED
      BY <1>i, <1>t, <2>1, <3>2, <3>4, <3>5, <3>6, <3>7 DEF SeedsOfRecord
  <2>8. OneSeedEach'
    BY <1>t, <1>i, <2>1, <2>2, <2>3, <2>4 DEF OneSeedEach, MismatchIsWithdrawn, AddingSteps,
       Seeds, UiMod
  <2>9. ServedHere'
    BY <1>t, <1>i, <2>1, <2>2, <2>3, <2>4 DEF ServedHere, ServedOK, SeedsAreServed,
       Withdrawing, AddingSteps, StopSteps, Seeds, UiMod, WorkerMod
  <2> QED
    BY <1>u, <2>5, <2>6, <2>7, <2>8, <2>9 DEF SeedInv
<1>22. ASSUME NEW m \in Mods, Describe(m) PROVE SeedInv'
  <2>1. pc["ui"] = "idle" /\ pc'["ui"] = "judge" /\ pc'["worker"] = pc["worker"]
    BY <1>t, <1>22, GoingTo DEF Describe, At, Threads, Steps
  <2>2. UNCHANGED <<job, rec, announced, roster, located, mounted, written, removed, after>>
    BY <1>22 DEF Describe, catalogVars, folderVars, switchVars, seedVars, savedVars, stepVars,
       stopVars
  <2>3. announced[m] # 0 /\ (Overlap \/ ~Withdrawing(m))
    BY <1>t, <1>22 DEF Describe, At, UiMod, WorkerMod, Unseedable
  <2>4. row'[1] = m /\ row'[2] = announced[m]
    BY <1>t, <1>22 DEF Describe, At, UiMod, WorkerMod, Unseedable
  <2>5. row'[3] # "none" /\ (row'[3] = "seedable" => rec[m] = announced[m])
    BY <1>t, <1>22 DEF Describe, At, UiMod, WorkerMod, Unseedable
  <2>6. PlacesOK'
    BY <1>t, <1>i, <2>1, <2>2, <2>3, <2>4, <2>5 DEF PlacesOK, StopsFor, Announces, Erases,
       UiMod, WorkerMod, UiSteps, InstallerSteps, AnnounceSteps, AddingSteps, StopSteps
  <2>7. RecordsOK'
    BY <1>t, <1>i, <2>1, <2>2, <2>3, <2>4, <2>5 DEF RecordsOK, Installs, UiMod, WorkerMod
  <2>8. SeedsOfRecord'
    BY <1>t, <1>i, <2>1, <2>2, <2>3, <2>4, <2>5 DEF SeedsOfRecord, SeedIsOfRecord, Seeds,
       StopsFor, Erases, UiMod, WorkerMod, StopSteps
  <2>9. OneSeedEach'
    BY <1>t, <1>i, <2>1, <2>2, <2>3, <2>4, <2>5 DEF OneSeedEach, MismatchIsWithdrawn,
       AddingSteps, Seeds, UiMod
  <2>10. ServedHere'
    BY <1>t, <1>i, <2>1, <2>2, <2>3, <2>4, <2>5 DEF ServedHere, ServedOK, SeedsAreServed,
       Withdrawing, AddingSteps, StopSteps, Seeds, UiMod, WorkerMod
  <2> QED
    BY <1>u, <2>6, <2>7, <2>8, <2>9, <2>10 DEF SeedInv
<1>23. ASSUME NEW m \in Mods, Install(m) PROVE SeedInv'
  <2>1. pc["worker"] = "idle" /\ pc'["worker"] = "withdraw" /\ pc'["ui"] = pc["ui"]
    BY <1>t, <1>23, GoingTo DEF Install, At, Threads, Steps
  <2>2. UNCHANGED <<row, rec, announced, roster, located, mounted, written, removed, after>>
    BY <1>23 DEF Install, catalogVars, folderVars, switchVars, seedVars, savedVars, stepVars,
       stopVars
  <2>3. pc["ui"] = "idle" /\ announced[m] # 0 /\ job' = <<m, announced[m]>>
    BY <1>t, <1>23 DEF Install, At, UiMod, WorkerMod, Unseedable
  <2>4. PlacesOK'
    BY <1>t, <1>i, <2>1, <2>2, <2>3 DEF PlacesOK, StopsFor, Announces, Erases, UiMod,
       WorkerMod, UiSteps, InstallerSteps, AnnounceSteps, AddingSteps, StopSteps
  <2>5. RecordsOK'
    BY <1>t, <1>i, <2>1, <2>2, <2>3 DEF RecordsOK, Installs, UiMod, WorkerMod
  <2>6. SeedsOfRecord'
    BY <1>t, <1>i, <2>1, <2>2, <2>3 DEF SeedsOfRecord, SeedIsOfRecord, Seeds, StopsFor,
       Erases, UiMod, WorkerMod, StopSteps
  <2>7. OneSeedEach'
    BY <1>t, <1>i, <2>1, <2>2, <2>3 DEF OneSeedEach, MismatchIsWithdrawn, AddingSteps, Seeds,
       UiMod
  <2>8. ServedHere'
    BY <1>t, <1>i, <2>1, <2>2, <2>3 DEF ServedHere, ServedOK, SeedsAreServed, Withdrawing,
       AddingSteps, StopSteps, Seeds, UiMod, WorkerMod
  <2> QED
    BY <1>u, <2>4, <2>5, <2>6, <2>7, <2>8 DEF SeedInv
<1>24. CASE Judge
  <2>1. pc["ui"] = "judge" /\ UNCHANGED <<row, job, rec, announced, written, located, mounted>>
    BY <1>24 DEF Judge, At, catalogVars, folderVars
  <2>2. \/ StopSeeding("ui", UiMod, "idle")
        \/ row[3] = "seedable" /\ StopSeeding("ui", UiMod, "contains")
        \/ Goto("ui", "idle") /\ UNCHANGED <<roster, stopVars>>
        \/ row[3] = "seedable" /\ Goto("ui", "contains") /\ UNCHANGED <<roster, stopVars>>
    BY <1>24 DEF Judge
  <2>3. pc'["worker"] = pc["worker"] /\ removed'["worker"] = removed["worker"] /\ after'["worker"] = after["worker"]
    BY <1>t, <2>2, Stops, GoingTo DEF Threads, Steps, stopVars
  <2>4. \/ /\ pc'["ui"] = "idle" \/ (pc'["ui"] = "contains" /\ row[3] = "seedable")
           /\ removed' = removed /\ roster' \subseteq roster
        \/ /\ pc'["ui"] = "unseed" /\ roster' = roster \ Seeds(UiMod) /\ removed'["ui"] = Seeds(UiMod)
           /\ after'["ui"] = "idle" \/ (after'["ui"] = "contains" /\ row[3] = "seedable")
    BY <1>t, <2>2, Stops, GoingTo DEF Threads, Steps, stopVars
  <2>5. PlacesOK'
    BY <1>t, <1>i, <2>1, <2>2, <2>3, <2>4 DEF PlacesOK, StopsFor, Announces, Erases, UiMod,
       WorkerMod, UiSteps, InstallerSteps, AnnounceSteps, AddingSteps, StopSteps
  <2>6. RecordsOK'
    BY <1>t, <1>i, <2>1, <2>2, <2>3, <2>4 DEF RecordsOK, Installs, UiMod, WorkerMod
  <2>7. SeedsOfRecord'
    BY <1>t, <1>i, <2>1, <2>2, <2>3, <2>4 DEF SeedsOfRecord, SeedIsOfRecord, Seeds, StopsFor,
       Erases, UiMod, WorkerMod, StopSteps
  <2>8. OneSeedEach'
    BY <1>t, <1>i, <2>1, <2>2, <2>3, <2>4 DEF OneSeedEach, MismatchIsWithdrawn, AddingSteps,
       Seeds, UiMod
  <2>9. ServedHere'
    BY <1>t, <1>i, <2>1, <2>2, <2>3, <2>4 DEF ServedHere, ServedOK, SeedsAreServed,
       Withdrawing, AddingSteps, StopSteps, Seeds, UiMod, WorkerMod
  <2> QED
    BY <1>u, <2>5, <2>6, <2>7, <2>8, <2>9 DEF SeedInv
<1>25. CASE Compare
  <2>1. pc["ui"] = "compare" /\ UNCHANGED <<row, job, rec, announced, written, located, mounted>>
    BY <1>25 DEF Compare, At, catalogVars, folderVars
  <2>2. \/ Mismatched(UiMod, row[2]) /\ StopSeeding("ui", UiMod, "idle")
        \/ ~Mismatched(UiMod, row[2]) /\ Goto("ui", "idle") /\ UNCHANGED <<roster, stopVars>>
    BY <1>25 DEF Compare
  <2>3. pc'["worker"] = pc["worker"] /\ removed'["worker"] = removed["worker"] /\ after'["worker"] = after["worker"]
    BY <1>t, <2>2, Stops, GoingTo DEF Threads, Steps, stopVars
  <2>4. \/ /\ pc'["ui"] = "idle" /\ removed' = removed /\ roster' = roster
           /\ Seeds(UiMod) = {} \/ AnnouncedHash(UiMod, row[2]) \in roster
        \/ /\ pc'["ui"] = "unseed" /\ roster' = roster \ Seeds(UiMod) /\ removed'["ui"] = Seeds(UiMod)
           /\ after'["ui"] = "idle"
    BY <1>t, <2>2, Stops, GoingTo DEF Threads, Steps, stopVars, Mismatched
  <2>5. PlacesOK'
    BY <1>t, <1>i, <2>1, <2>2, <2>3, <2>4 DEF PlacesOK, StopsFor, Announces, Erases, UiMod,
       WorkerMod, UiSteps, InstallerSteps, AnnounceSteps, AddingSteps, StopSteps
  <2>6. RecordsOK'
    BY <1>t, <1>i, <2>1, <2>2, <2>3, <2>4 DEF RecordsOK, Installs, UiMod, WorkerMod
  <2>7. SeedsOfRecord'
    BY <1>t, <1>i, <2>1, <2>2, <2>3, <2>4 DEF SeedsOfRecord, SeedIsOfRecord, Seeds, StopsFor,
       Erases, UiMod, WorkerMod, StopSteps
  <2>8. OneSeedEach'
    <3>1. ASSUME NEW s \in roster', ~s.intact PROVE FALSE
      <4>1. s \in roster /\ s.mod = UiMod
        BY <1>i, <2>4, <3>1 DEF OneSeedEach, MismatchIsWithdrawn
      <4>2. s \in Seeds(UiMod) /\ roster' = roster
        BY <2>4, <3>1, <4>1 DEF Seeds
      <4>3. AnnouncedHash(UiMod, row[2]) \in roster
        BY <2>4, <3>1, <4>1, <4>2 DEF Seeds
      <4>4. AnnouncedHash(UiMod, row[2]) = s
        BY <1>i, <4>1, <4>3 DEF OneSeedEach, AnnouncedHash
      <4> QED
        BY <3>1, <4>4 DEF AnnouncedHash
    <3>2. roster' \subseteq roster /\ pc'["ui"] \notin AddingSteps
      BY <2>4 DEF AddingSteps
    <3>3. MismatchIsWithdrawn'
      BY <3>1 DEF MismatchIsWithdrawn
    <3> QED
      BY <1>i, <3>2, <3>3 DEF OneSeedEach
  <2>9. ServedHere'
    BY <1>t, <1>i, <2>1, <2>2, <2>3, <2>4 DEF ServedHere, ServedOK, SeedsAreServed,
       Withdrawing, AddingSteps, StopSteps, Seeds, UiMod, WorkerMod
  <2> QED
    BY <1>u, <2>5, <2>6, <2>7, <2>8, <2>9 DEF SeedInv
<1>26. CASE WithdrawSeed
  <2>1. pc["worker"] = "withdraw" /\ UNCHANGED <<row, job, rec, announced, written, located, mounted>>
    BY <1>26 DEF WithdrawSeed, At, catalogVars, folderVars
  <2>2. StopSeeding("worker", WorkerMod, "begin") /\ (Overlap \/ UiMod # WorkerMod \/ pc["ui"] = "idle")
    BY <1>26 DEF WithdrawSeed, RowOf, At
  <2>3. pc'["ui"] = pc["ui"] /\ removed'["ui"] = removed["ui"] /\ after'["ui"] = after["ui"]
    BY <1>t, <2>2, Stops DEF Threads, Steps
  <2>4. /\ roster' = roster \ Seeds(WorkerMod)
        /\ \/ pc'["worker"] = "begin" /\ removed' = removed
           \/ pc'["worker"] = "unseed" /\ removed'["worker"] = Seeds(WorkerMod) /\ after'["worker"] = "begin"
    BY <1>t, <2>2, Stops DEF Threads, Steps
  <2>5. PlacesOK'
    BY <1>t, <1>i, <2>1, <2>2, <2>3, <2>4 DEF PlacesOK, StopsFor, Announces, Erases, UiMod,
       WorkerMod, UiSteps, InstallerSteps, AnnounceSteps, AddingSteps, StopSteps
  <2>6. RecordsOK'
    BY <1>t, <1>i, <2>1, <2>2, <2>3, <2>4 DEF RecordsOK, Installs, UiMod, WorkerMod
  <2>7. SeedsOfRecord'
    BY <1>t, <1>i, <2>1, <2>2, <2>3, <2>4 DEF SeedsOfRecord, SeedIsOfRecord, Seeds, StopsFor,
       Erases, UiMod, WorkerMod, StopSteps
  <2>8. OneSeedEach'
    BY <1>t, <1>i, <2>1, <2>2, <2>3, <2>4 DEF OneSeedEach, MismatchIsWithdrawn, AddingSteps,
       Seeds, UiMod
  <2>9. ServedHere'
    BY <1>t, <1>i, <2>1, <2>2, <2>3, <2>4 DEF ServedHere, ServedOK, SeedsAreServed,
       Withdrawing, AddingSteps, StopSteps, Seeds, UiMod, WorkerMod
  <2> QED
    BY <1>u, <2>5, <2>6, <2>7, <2>8, <2>9 DEF SeedInv
<1>27. ASSUME NEW m \in Mods, Remove(m) PROVE SeedInv'
  <2>1. /\ pc["ui"] = "idle" /\ pc["worker"] = "idle" /\ written[m] < MaxWrites /\ row' = <<m, 0, "none">>
        /\ UNCHANGED <<job, rec, announced, written, located, mounted>>
    BY <1>27 DEF Remove, At, catalogVars, folderVars
  <2>2. StopSeeding("ui", m, "erase")
    BY <1>27 DEF Remove
  <2>3. pc'["worker"] = pc["worker"] /\ removed'["worker"] = removed["worker"] /\ after'["worker"] = after["worker"]
    BY <1>t, <2>2, Stops DEF Threads, Steps
  <2>4. /\ roster' = roster \ Seeds(m)
        /\ \/ pc'["ui"] = "erase" /\ removed' = removed
           \/ pc'["ui"] = "unseed" /\ removed'["ui"] = Seeds(m) /\ after'["ui"] = "erase"
    BY <1>t, <2>2, Stops DEF Threads, Steps
  <2>5. PlacesOK'
    BY <1>t, <1>i, <2>1, <2>2, <2>3, <2>4 DEF PlacesOK, StopsFor, Announces, Erases, UiMod,
       WorkerMod, UiSteps, InstallerSteps, AnnounceSteps, AddingSteps, StopSteps
  <2>6. RecordsOK'
    BY <1>t, <1>i, <2>1, <2>2, <2>3, <2>4 DEF RecordsOK, Installs, UiMod, WorkerMod
  <2>7. SeedsOfRecord'
    BY <1>t, <1>i, <2>1, <2>2, <2>3, <2>4 DEF SeedsOfRecord, SeedIsOfRecord, Seeds, StopsFor,
       Erases, UiMod, WorkerMod, StopSteps
  <2>8. OneSeedEach'
    BY <1>t, <1>i, <2>1, <2>2, <2>3, <2>4 DEF OneSeedEach, MismatchIsWithdrawn, AddingSteps,
       Seeds, UiMod
  <2>9. ServedHere'
    BY <1>t, <1>i, <2>1, <2>2, <2>3, <2>4 DEF ServedHere, ServedOK, SeedsAreServed,
       Withdrawing, AddingSteps, StopSteps, Seeds, UiMod, WorkerMod
  <2> QED
    BY <1>u, <2>5, <2>6, <2>7, <2>8, <2>9 DEF SeedInv
<1>28. CASE Restart
  <2>1. /\ roster' = {} /\ pc' = [t \in Threads |-> "idle"] /\ removed' = [t \in Threads |-> {}]
        /\ UNCHANGED <<row, job, rec, announced, written>>
    BY <1>28 DEF Restart, folderVars
  <2>2. pc'["ui"] = "idle" /\ pc'["worker"] = "idle" /\ removed'["ui"] = {} /\ removed'["worker"] = {}
    BY <1>t, <2>1
  <2>3. PlacesOK'
    BY <1>t, <1>i, <2>1, <2>2 DEF PlacesOK, StopsFor, Announces, Erases, UiMod, WorkerMod,
       UiSteps, InstallerSteps, AnnounceSteps, AddingSteps, StopSteps
  <2>4. RecordsOK'
    BY <1>t, <1>i, <2>1, <2>2 DEF RecordsOK, Installs, UiMod, WorkerMod
  <2>5. SeedsOfRecord'
    BY <1>t, <1>i, <2>1, <2>2 DEF SeedsOfRecord, SeedIsOfRecord, Seeds, StopsFor, Erases,
       UiMod, WorkerMod, StopSteps
  <2>6. OneSeedEach'
    BY <1>t, <1>i, <2>1, <2>2 DEF OneSeedEach, MismatchIsWithdrawn, AddingSteps, Seeds, UiMod
  <2>7. ServedHere'
    BY <1>t, <1>i, <2>1, <2>2 DEF ServedHere, ServedOK, SeedsAreServed, Withdrawing,
       AddingSteps, StopSteps, Seeds, UiMod, WorkerMod
  <2> QED
    BY <1>u, <2>3, <2>4, <2>5, <2>6, <2>7 DEF SeedInv
<1>29. CASE StopUnseeds("ui")
  <2>1. pc["ui"] = "unseed" /\ pc'["ui"] = "displace" /\ pc'["worker"] = pc["worker"]
    BY <1>t, <1>29, GoingTo DEF StopUnseeds, At, Threads, Steps
  <2>2. UNCHANGED <<row, job, rec, announced, roster, located, written, removed, after>>
    BY <1>29 DEF StopUnseeds, catalogVars, folderVars, switchVars, seedVars, savedVars,
       stepVars, stopVars
  <2>3. mounted' = mounted \ removed["ui"]
    BY <1>29 DEF StopUnseeds
  <2>4. PlacesOK'
    BY <1>t, <1>i, <2>1, <2>2, <2>3 DEF PlacesOK, StopsFor, Announces, Erases, UiMod,
       WorkerMod, UiSteps, InstallerSteps, AnnounceSteps, AddingSteps, StopSteps
  <2>5. RecordsOK'
    BY <1>t, <1>i, <2>1, <2>2, <2>3 DEF RecordsOK, Installs, UiMod, WorkerMod
  <2>6. SeedsOfRecord'
    BY <1>t, <1>i, <2>1, <2>2, <2>3 DEF SeedsOfRecord, SeedIsOfRecord, Seeds, StopsFor,
       Erases, UiMod, WorkerMod, StopSteps
  <2>7. OneSeedEach'
    BY <1>t, <1>i, <2>1, <2>2, <2>3 DEF OneSeedEach, MismatchIsWithdrawn, AddingSteps, Seeds,
       UiMod
  <2>8. ServedHere'
    BY <1>t, <1>i, <2>1, <2>2, <2>3 DEF ServedHere, ServedOK, SeedsAreServed, Withdrawing,
       AddingSteps, StopSteps, Seeds, UiMod, WorkerMod
  <2> QED
    BY <1>u, <2>4, <2>5, <2>6, <2>7, <2>8 DEF SeedInv
<1>30. CASE StopForgetsPlacements("ui")
  <2>1. pc["ui"] = "displace" /\ pc'["ui"] = "unattest" /\ pc'["worker"] = pc["worker"]
    BY <1>t, <1>30, GoingTo DEF StopForgetsPlacements, At, Threads, Steps
  <2>2. UNCHANGED <<row, job, rec, announced, roster, mounted, written, removed, after>>
    BY <1>30 DEF StopForgetsPlacements, catalogVars, folderVars, switchVars, seedVars,
       savedVars, stepVars, stopVars
  <2>3. located' = located \ {s.mod : s \in removed["ui"]}
    BY <1>30 DEF StopForgetsPlacements
  <2>4. PlacesOK'
    BY <1>t, <1>i, <2>1, <2>2, <2>3 DEF PlacesOK, StopsFor, Announces, Erases, UiMod,
       WorkerMod, UiSteps, InstallerSteps, AnnounceSteps, AddingSteps, StopSteps
  <2>5. RecordsOK'
    BY <1>t, <1>i, <2>1, <2>2, <2>3 DEF RecordsOK, Installs, UiMod, WorkerMod
  <2>6. SeedsOfRecord'
    BY <1>t, <1>i, <2>1, <2>2, <2>3 DEF SeedsOfRecord, SeedIsOfRecord, Seeds, StopsFor,
       Erases, UiMod, WorkerMod, StopSteps
  <2>7. OneSeedEach'
    BY <1>t, <1>i, <2>1, <2>2, <2>3 DEF OneSeedEach, MismatchIsWithdrawn, AddingSteps, Seeds,
       UiMod
  <2>8. ServedHere'
    BY <1>t, <1>i, <2>1, <2>2, <2>3 DEF ServedHere, ServedOK, SeedsAreServed, Withdrawing,
       AddingSteps, StopSteps, Seeds, UiMod, WorkerMod
  <2> QED
    BY <1>u, <2>4, <2>5, <2>6, <2>7, <2>8 DEF SeedInv
<1>31. CASE StopForgetsAttestation("ui")
  <2>1. pc["ui"] = "unattest" /\ pc'["ui"] = "unrecord" /\ pc'["worker"] = pc["worker"]
    BY <1>t, <1>31, GoingTo DEF StopForgetsAttestation, At, Threads, Steps
  <2>2. UNCHANGED <<row, job, rec, announced, roster, located, mounted, written, removed, after>>
    BY <1>31 DEF StopForgetsAttestation, catalogVars, folderVars, switchVars, seedVars,
       savedVars, stepVars, stopVars
  <2>3. PlacesOK'
    BY <1>t, <1>i, <2>1, <2>2 DEF PlacesOK, StopsFor, Announces, Erases, UiMod, WorkerMod,
       UiSteps, InstallerSteps, AnnounceSteps, AddingSteps, StopSteps
  <2>4. RecordsOK'
    BY <1>t, <1>i, <2>1, <2>2 DEF RecordsOK, Installs, UiMod, WorkerMod
  <2>5. SeedsOfRecord'
    BY <1>t, <1>i, <2>1, <2>2 DEF SeedsOfRecord, SeedIsOfRecord, Seeds, StopsFor, Erases,
       UiMod, WorkerMod, StopSteps
  <2>6. OneSeedEach'
    BY <1>t, <1>i, <2>1, <2>2 DEF OneSeedEach, MismatchIsWithdrawn, AddingSteps, Seeds, UiMod
  <2>7. ServedHere'
    BY <1>t, <1>i, <2>1, <2>2 DEF ServedHere, ServedOK, SeedsAreServed, Withdrawing,
       AddingSteps, StopSteps, Seeds, UiMod, WorkerMod
  <2> QED
    BY <1>u, <2>3, <2>4, <2>5, <2>6, <2>7 DEF SeedInv
<1>32. CASE StopForgetsPresence("ui")
  <2>1. pc["ui"] = "unrecord" /\ Goto("ui", after["ui"])
    BY <1>32 DEF StopForgetsPresence, At
  <2>2. UNCHANGED <<row, job, rec, announced, roster, located, mounted, written, after>>
    BY <1>32 DEF StopForgetsPresence, catalogVars, folderVars, switchVars, seedVars,
       savedVars, stepVars, stopVars
  <2>3. pc'["ui"] = after["ui"] /\ pc'["worker"] = pc["worker"] /\ after["ui"] \in {"idle", "contains", "erase"}
    BY <1>t, <1>i, <2>1, GoingTo DEF Threads, PlacesOK, StopSteps, SeedTypeOK
  <2>4. removed'["ui"] = {} /\ removed'["worker"] = removed["worker"]
    BY <1>t, <1>32 DEF StopForgetsPresence, SeedTypeOK
  <2>5. PlacesOK'
    BY <1>t, <1>i, <2>1, <2>2, <2>3, <2>4 DEF PlacesOK, StopsFor, Announces, Erases, UiMod,
       WorkerMod, UiSteps, InstallerSteps, AnnounceSteps, AddingSteps, StopSteps
  <2>6. RecordsOK'
    BY <1>t, <1>i, <2>1, <2>2, <2>3, <2>4 DEF RecordsOK, Installs, UiMod, WorkerMod
  <2>7. SeedsOfRecord'
    BY <1>t, <1>i, <2>1, <2>2, <2>3, <2>4 DEF SeedsOfRecord, SeedIsOfRecord, Seeds, StopsFor,
       Erases, UiMod, WorkerMod, StopSteps
  <2>8. OneSeedEach'
    BY <1>t, <1>i, <2>1, <2>2, <2>3, <2>4 DEF OneSeedEach, MismatchIsWithdrawn, AddingSteps,
       Seeds, UiMod
  <2>9. ServedHere'
    BY <1>t, <1>i, <2>1, <2>2, <2>3, <2>4 DEF ServedHere, ServedOK, SeedsAreServed,
       Withdrawing, AddingSteps, StopSteps, Seeds, UiMod, WorkerMod
  <2> QED
    BY <1>u, <2>5, <2>6, <2>7, <2>8, <2>9 DEF SeedInv
<1>33. CASE StopUnseeds("worker")
  <2>1. pc["worker"] = "unseed" /\ pc'["worker"] = "displace" /\ pc'["ui"] = pc["ui"]
    BY <1>t, <1>33, GoingTo DEF StopUnseeds, At, Threads, Steps
  <2>2. UNCHANGED <<row, job, rec, announced, roster, located, written, removed, after>>
    BY <1>33 DEF StopUnseeds, catalogVars, folderVars, switchVars, seedVars, savedVars,
       stepVars, stopVars
  <2>3. mounted' = mounted \ removed["worker"]
    BY <1>33 DEF StopUnseeds
  <2>4. PlacesOK'
    BY <1>t, <1>i, <2>1, <2>2, <2>3 DEF PlacesOK, StopsFor, Announces, Erases, UiMod,
       WorkerMod, UiSteps, InstallerSteps, AnnounceSteps, AddingSteps, StopSteps
  <2>5. RecordsOK'
    BY <1>t, <1>i, <2>1, <2>2, <2>3 DEF RecordsOK, Installs, UiMod, WorkerMod
  <2>6. SeedsOfRecord'
    BY <1>t, <1>i, <2>1, <2>2, <2>3 DEF SeedsOfRecord, SeedIsOfRecord, Seeds, StopsFor,
       Erases, UiMod, WorkerMod, StopSteps
  <2>7. OneSeedEach'
    BY <1>t, <1>i, <2>1, <2>2, <2>3 DEF OneSeedEach, MismatchIsWithdrawn, AddingSteps, Seeds,
       UiMod
  <2>8. ServedHere'
    BY <1>t, <1>i, <2>1, <2>2, <2>3 DEF ServedHere, ServedOK, SeedsAreServed, Withdrawing,
       AddingSteps, StopSteps, Seeds, UiMod, WorkerMod
  <2> QED
    BY <1>u, <2>4, <2>5, <2>6, <2>7, <2>8 DEF SeedInv
<1>34. CASE StopForgetsPlacements("worker")
  <2>1. pc["worker"] = "displace" /\ pc'["worker"] = "unattest" /\ pc'["ui"] = pc["ui"]
    BY <1>t, <1>34, GoingTo DEF StopForgetsPlacements, At, Threads, Steps
  <2>2. UNCHANGED <<row, job, rec, announced, roster, mounted, written, removed, after>>
    BY <1>34 DEF StopForgetsPlacements, catalogVars, folderVars, switchVars, seedVars,
       savedVars, stepVars, stopVars
  <2>3. located' = located \ {s.mod : s \in removed["worker"]}
    BY <1>34 DEF StopForgetsPlacements
  <2>4. PlacesOK'
    BY <1>t, <1>i, <2>1, <2>2, <2>3 DEF PlacesOK, StopsFor, Announces, Erases, UiMod,
       WorkerMod, UiSteps, InstallerSteps, AnnounceSteps, AddingSteps, StopSteps
  <2>5. RecordsOK'
    BY <1>t, <1>i, <2>1, <2>2, <2>3 DEF RecordsOK, Installs, UiMod, WorkerMod
  <2>6. SeedsOfRecord'
    BY <1>t, <1>i, <2>1, <2>2, <2>3 DEF SeedsOfRecord, SeedIsOfRecord, Seeds, StopsFor,
       Erases, UiMod, WorkerMod, StopSteps
  <2>7. OneSeedEach'
    BY <1>t, <1>i, <2>1, <2>2, <2>3 DEF OneSeedEach, MismatchIsWithdrawn, AddingSteps, Seeds,
       UiMod
  <2>8. ServedHere'
    BY <1>t, <1>i, <2>1, <2>2, <2>3 DEF ServedHere, ServedOK, SeedsAreServed, Withdrawing,
       AddingSteps, StopSteps, Seeds, UiMod, WorkerMod
  <2> QED
    BY <1>u, <2>4, <2>5, <2>6, <2>7, <2>8 DEF SeedInv
<1>35. CASE StopForgetsAttestation("worker")
  <2>1. pc["worker"] = "unattest" /\ pc'["worker"] = "unrecord" /\ pc'["ui"] = pc["ui"]
    BY <1>t, <1>35, GoingTo DEF StopForgetsAttestation, At, Threads, Steps
  <2>2. UNCHANGED <<row, job, rec, announced, roster, located, mounted, written, removed, after>>
    BY <1>35 DEF StopForgetsAttestation, catalogVars, folderVars, switchVars, seedVars,
       savedVars, stepVars, stopVars
  <2>3. PlacesOK'
    BY <1>t, <1>i, <2>1, <2>2 DEF PlacesOK, StopsFor, Announces, Erases, UiMod, WorkerMod,
       UiSteps, InstallerSteps, AnnounceSteps, AddingSteps, StopSteps
  <2>4. RecordsOK'
    BY <1>t, <1>i, <2>1, <2>2 DEF RecordsOK, Installs, UiMod, WorkerMod
  <2>5. SeedsOfRecord'
    BY <1>t, <1>i, <2>1, <2>2 DEF SeedsOfRecord, SeedIsOfRecord, Seeds, StopsFor, Erases,
       UiMod, WorkerMod, StopSteps
  <2>6. OneSeedEach'
    BY <1>t, <1>i, <2>1, <2>2 DEF OneSeedEach, MismatchIsWithdrawn, AddingSteps, Seeds, UiMod
  <2>7. ServedHere'
    BY <1>t, <1>i, <2>1, <2>2 DEF ServedHere, ServedOK, SeedsAreServed, Withdrawing,
       AddingSteps, StopSteps, Seeds, UiMod, WorkerMod
  <2> QED
    BY <1>u, <2>3, <2>4, <2>5, <2>6, <2>7 DEF SeedInv
<1>36. CASE StopForgetsPresence("worker")
  <2>1. pc["worker"] = "unrecord" /\ Goto("worker", after["worker"])
    BY <1>36 DEF StopForgetsPresence, At
  <2>2. UNCHANGED <<row, job, rec, announced, roster, located, mounted, written, after>>
    BY <1>36 DEF StopForgetsPresence, catalogVars, folderVars, switchVars, seedVars,
       savedVars, stepVars, stopVars
  <2>3. pc'["worker"] = after["worker"] /\ pc'["ui"] = pc["ui"] /\ after["worker"] = "begin"
    BY <1>t, <1>i, <2>1, GoingTo DEF Threads, PlacesOK, StopSteps, SeedTypeOK
  <2>4. removed'["worker"] = {} /\ removed'["ui"] = removed["ui"]
    BY <1>t, <1>36 DEF StopForgetsPresence, SeedTypeOK
  <2>5. PlacesOK'
    BY <1>t, <1>i, <2>1, <2>2, <2>3, <2>4 DEF PlacesOK, StopsFor, Announces, Erases, UiMod,
       WorkerMod, UiSteps, InstallerSteps, AnnounceSteps, AddingSteps, StopSteps
  <2>6. RecordsOK'
    BY <1>t, <1>i, <2>1, <2>2, <2>3, <2>4 DEF RecordsOK, Installs, UiMod, WorkerMod
  <2>7. SeedsOfRecord'
    BY <1>t, <1>i, <2>1, <2>2, <2>3, <2>4 DEF SeedsOfRecord, SeedIsOfRecord, Seeds, StopsFor,
       Erases, UiMod, WorkerMod, StopSteps
  <2>8. OneSeedEach'
    BY <1>t, <1>i, <2>1, <2>2, <2>3, <2>4 DEF OneSeedEach, MismatchIsWithdrawn, AddingSteps,
       Seeds, UiMod
  <2>9. ServedHere'
    BY <1>t, <1>i, <2>1, <2>2, <2>3, <2>4 DEF ServedHere, ServedOK, SeedsAreServed,
       Withdrawing, AddingSteps, StopSteps, Seeds, UiMod, WorkerMod
  <2> QED
    BY <1>u, <2>5, <2>6, <2>7, <2>8, <2>9 DEF SeedInv
<1>37. CASE UNCHANGED vars
  <2>1. UNCHANGED <<pc, row, job, rec, announced, roster, located, mounted, written, removed, after>>
    BY <1>37 DEF vars, catalogVars, folderVars, switchVars, seedVars, savedVars, stepVars,
       stopVars
  <2>2. PlacesOK'
    BY <1>t, <1>i, <2>1 DEF PlacesOK, StopsFor, Announces, Erases, UiMod, WorkerMod, UiSteps,
       InstallerSteps, AnnounceSteps, AddingSteps, StopSteps
  <2>3. RecordsOK'
    BY <1>t, <1>i, <2>1 DEF RecordsOK, Installs, UiMod, WorkerMod
  <2>4. SeedsOfRecord'
    BY <1>t, <1>i, <2>1 DEF SeedsOfRecord, SeedIsOfRecord, Seeds, StopsFor, Erases, UiMod,
       WorkerMod, StopSteps
  <2>5. OneSeedEach'
    BY <1>t, <1>i, <2>1 DEF OneSeedEach, MismatchIsWithdrawn, AddingSteps, Seeds, UiMod
  <2>6. ServedHere'
    BY <1>t, <1>i, <2>1 DEF ServedHere, ServedOK, SeedsAreServed, Withdrawing, AddingSteps,
       StopSteps, Seeds, UiMod, WorkerMod
  <2> QED
    BY <1>u, <2>2, <2>3, <2>4, <2>5, <2>6 DEF SeedInv
<1>38. CASE AnnounceAdds
  <2>1. pc["ui"] = "add" /\ pc'["ui"] = "record" /\ pc'["worker"] = pc["worker"]
    BY <1>t, <1>38, GoingTo DEF AnnounceAdds, At, Threads, Steps
  <2>2. UNCHANGED <<row, job, rec, announced, located, written, removed, after>>
    BY <1>38 DEF AnnounceAdds, catalogVars, folderVars, stopVars
  <2>3. PICK s :
          /\ s.mod = UiMod /\ s.version = row[2]
          /\ roster' = roster \cup {s}
          /\ mounted' = IF UiMod \in located THEN mounted \cup {s} ELSE mounted
    <3>1. PICK intact \in Assembled(UiMod, row[2]) :
            LET s == [mod |-> UiMod, version |-> row[2], intact |-> intact]
            IN  /\ mounted' = IF UiMod \in located THEN mounted \cup {s} ELSE mounted
                /\ roster' = roster \cup {s}
      BY <1>38 DEF AnnounceAdds
    <3> QED
      BY <3>1
  <2>4. row[3] = "seedable" /\ Seeds(UiMod) = {} /\ ~Erases /\ pc["ui"] # "idle"
    BY <1>i, <2>1 DEF PlacesOK, OneSeedEach, Announces, Erases, StopsFor, AnnounceSteps,
       AddingSteps,
       StopSteps
  <2>5. rec[UiMod] = row[2] /\ (Installs(UiMod) => job[2] = row[2])
    BY <1>i, <2>4 DEF RecordsOK
  <2>6. UiMod' = UiMod /\ WorkerMod' = WorkerMod
    BY <2>2 DEF UiMod, WorkerMod
  <2>7. PlacesOK'
    BY <1>i, <2>1, <2>2, <2>4, <2>6 DEF PlacesOK, StopsFor, Announces, Erases, UiSteps,
       AnnounceSteps,
       AddingSteps, StopSteps
  <2>8. RecordsOK'
    BY <1>i, <2>1, <2>2, <2>4, <2>6 DEF RecordsOK, Installs
  <2>9. SeedsOfRecord'
    <3>1. SeedIsOfRecord'
      BY <1>i, <2>2, <2>3, <2>5 DEF SeedsOfRecord, SeedIsOfRecord
    <3>2. pc'["worker"] \notin {"idle", "withdraw"} /\ Seeds(WorkerMod)' # {} => rec'[WorkerMod'] = job'[2]
      <4> SUFFICES ASSUME pc["worker"] \notin {"idle", "withdraw"}, Seeds(WorkerMod)' # {}
                   PROVE  rec[WorkerMod] = job[2]
        BY <2>1, <2>2, <2>6
      <4>1. CASE WorkerMod = UiMod
        BY <2>5, <4>1 DEF Installs
      <4>2. CASE WorkerMod # UiMod
        BY <1>i, <2>3, <2>6, <4>2 DEF SeedsOfRecord, Seeds
      <4> QED
        BY <4>1, <4>2
    <3>3. ~Erases'
      BY <2>1 DEF Erases, StopsFor, StopSteps
    <3> QED
      BY <3>1, <3>2, <3>3 DEF SeedsOfRecord
  <2>10. OneSeedEach'
    <3>1. \A u \in roster : u.mod # UiMod
      BY <2>4 DEF Seeds
    <3>2. \A u \in roster', w \in roster' : u.mod = w.mod => u = w
      BY <1>i, <2>3, <3>1 DEF OneSeedEach
    <3>3. \A u \in roster' : ~u.intact => UiMod = u.mod
      BY <1>i, <2>3, <3>1 DEF OneSeedEach, MismatchIsWithdrawn
    <3> QED
      BY <2>1, <2>6, <3>2, <3>3 DEF OneSeedEach, MismatchIsWithdrawn, AddingSteps
  <2>11. ServedHere'
    <3> SUFFICES ASSUME ~Overlap PROVE ServedOK'
      BY DEF ServedHere
    <3>1. ServedOK
      BY <1>i DEF ServedHere
    <3>2. UiMod \in located /\ mounted' = mounted \cup {s}
      BY <2>1, <2>3, <3>1 DEF ServedOK, AddingSteps
    <3>3. SeedsAreServed'
      BY <2>2, <2>3, <3>1, <3>2 DEF ServedOK, SeedsAreServed
    <3>4. pc["worker"] \in StopSteps => WorkerMod # UiMod
      BY <2>1, <3>1 DEF ServedOK, Withdrawing, StopSteps
    <3>5. pc["worker"] \in StopSteps => Seeds(WorkerMod)' = {}
      BY <2>3, <2>6, <3>1, <3>4 DEF ServedOK, Seeds
    <3> QED
      BY <2>1, <2>2, <2>6, <3>1, <3>3, <3>5 DEF ServedOK, AddingSteps, StopSteps, Withdrawing
  <2> QED
    BY <1>u, <2>7, <2>8, <2>9, <2>10, <2>11 DEF SeedInv
<1>n. SeedNext \/ UNCHANGED vars
  OBVIOUS
<1>r. CASE Row
  BY <1>r, <1>1, <1>2, <1>3, <1>4, <1>5, <1>6, <1>22, <1>24, <1>25, <1>38 DEF Row
<1>w. CASE Installer
  BY <1>w, <1>7, <1>8, <1>9, <1>10, <1>11, <1>12, <1>13, <1>14, <1>15, <1>16, <1>23, <1>26 DEF
     Installer
<1>e. CASE World
  BY <1>e, <1>17, <1>18, <1>19, <1>28 DEF World
<1>s. ASSUME NEW t \in Threads, Stopping(t) PROVE SeedInv'
  <2>1. CASE t = "ui"
    BY <1>s, <2>1, <1>29, <1>30, <1>31, <1>32 DEF Stopping
  <2>2. CASE t = "worker"
    BY <1>s, <2>2, <1>33, <1>34, <1>35, <1>36 DEF Stopping
  <2> QED
    BY <2>1, <2>2 DEF Threads
<1> QED
  BY <1>n, <1>r, <1>w, <1>e, <1>s, <1>20, <1>21, <1>27, <1>37 DEF SeedNext

(* At the start nothing is announced, recorded or seeded.                  *)
LEMMA SeedInitially == SeedInit => SeedInv
<1> SUFFICES ASSUME SeedInit PROVE SeedInv
  OBVIOUS
<1>1. CatalogTypes /\ FolderTypes
  BY SeedBounds DEF SeedInit, CatalogTypes, FolderTypes, Edited, Absent
<1>2. SwitchTypes /\ TableTypes /\ RestartTypes
  BY SeedBounds DEF SeedInit, SwitchTypes, TableTypes, RestartTypes
<1>3. SavedTypes
  BY SeedBounds DEF SeedInit, SavedTypes
<1>4. StepTypes
  BY SeedBounds DEF SeedInit, StepTypes, Steps
<1>5. SeedTypeOK
  BY <1>1, <1>2, <1>3, <1>4, TypeGroups
<1>6. /\ pc["ui"] = "idle" /\ pc["worker"] = "idle" /\ roster = {}
      /\ removed["ui"] = {} /\ removed["worker"] = {} /\ row[3] = "none"
      /\ \A m \in Mods : rec[m] = 0 /\ announced[m] = 0
  BY DEF SeedInit, Threads
<1>7. PlacesOK
  BY <1>6 DEF PlacesOK, UiSteps, InstallerSteps, Announces, Erases, StopsFor, AnnounceSteps,
     AddingSteps,
     StopSteps
<1>8. RecordsOK /\ SeedsOfRecord
  BY <1>6 DEF RecordsOK, SeedsOfRecord, SeedIsOfRecord, Erases, StopsFor, StopSteps
<1>9. OneSeedEach
  BY <1>6 DEF OneSeedEach, MismatchIsWithdrawn, AddingSteps
<1>10. ServedHere
  BY <1>6 DEF ServedHere, ServedOK, SeedsAreServed, AddingSteps, StopSteps
<1> QED
  BY <1>5, <1>7, <1>8, <1>9, <1>10 DEF SeedInv

(* The seeding tables keep their types.                                    *)
THEOREM SeedTypeCorrect == SeedSpec => []SeedTypeOK
<1>1. SeedInv => SeedTypeOK
  BY DEF SeedInv
<1> QED
  BY <1>1, SeedInitially, SeedStep, PTL DEF SeedSpec

(* Whatever the installer does while the window's thread handles the row   *)
(* of the same mod, a seed is of the release that is recorded              *)
(* (CatalogService::Seed_, InstallService::RunInstall_,                    *)
(* ModRemovalService::Remove).                                             *)
THEOREM SeedsAreOfTheRecord == SeedSpec => []SeedIsOfRecord
<1>1. SeedInv => SeedIsOfRecord
  BY DEF SeedInv, SeedsOfRecord
<1> QED
  BY <1>1, SeedInitially, SeedStep, PTL DEF SeedSpec

(* A torrent that is not what was announced is seeded no longer than it    *)
(* takes to compare it (CatalogService::Seed_).                            *)
THEOREM MismatchesAreWithdrawn == SeedSpec => []MismatchIsWithdrawn
<1>1. SeedInv => MismatchIsWithdrawn
  BY DEF SeedInv, OneSeedEach
<1> QED
  BY <1>1, SeedInitially, SeedStep, PTL DEF SeedSpec

(* Every seed can answer its peers, when the installer does not withdraw a *)
(* seed while the row of the same mod is handled (TorrentSession::Announce *)
(* and StopSeeding).                                                       *)
THEOREM SeedsStayServed == ~Overlap => (SeedSpec => []SeedsAreServed)
<1> SUFFICES ASSUME ~Overlap PROVE SeedSpec => []SeedsAreServed
  OBVIOUS
<1>1. SeedInv => SeedsAreServed
  BY DEF SeedInv, ServedHere, ServedOK
<1> QED
  BY <1>1, SeedInitially, SeedStep, PTL DEF SeedSpec

-----------------------------------------------------------------------------
(* Session: who uses what while services come and go *)

InLoop == at \in {"pump", "poll", "tick", "close", "mirror", "draw", "settle", "cancel"}

(* All services stand while the window loop runs, and none where a folder  *)
(* is chosen.                                                              *)
AliveOK ==
  /\ at \in {"detect", "build", "destroy", "ended"} \/ InLoop
  /\ alive \subseteq Wanted
  /\ InLoop => alive = Wanted
  /\ at \in {"detect", "ended"} => alive = {}

(* The network's thread is heard only while the swarm and what it calls    *)
(* are there.                                                              *)
Heard == {"swarm", "receiver", "registry", "announces"}
GossipOK == gossiping => Heard \subseteq alive

(* What each worker uses in all of its steps. *)
Uses(worker) ==
  CASE worker = "install" -> {"baseline", "receiver", "installed", "swarm", "publish"}
    [] worker = "publish" -> {"receiver", "registry", "announces", "swarm"}
    [] worker = "updater" -> {"registry"}
    [] OTHER              -> {}

(* The installation's worker works inside the loop and with a game; the    *)
(* registry's is joined before the keys go.                                *)
WorkOK ==
  /\ DOMAIN todo = Workers
  /\ \A w \in Workers : todo[w] \in Seq(SUBSET Uses(w))
  /\ phase \in {"Idle", "Ended", "Planning", "Fetching", "Installing", "Verifying"}
  /\ InstallBusy => root # NoRoot /\ InLoop
  /\ ~Idle("install") => phase \in {"Planning", "Installing", "Verifying"}
  /\ ~Idle("updater") => {"updater", "registry"} \subseteq alive

SessionInv == AliveOK /\ GossipOK /\ WorkOK

(* The services by their places, in the two orders. *)
LEMMA BuildPlaces ==
  /\ BuildOrder[1] = "swarm" /\ BuildOrder[2] = "preferences" /\ BuildOrder[3] = "order"
  /\ BuildOrder[4] = "identity" /\ BuildOrder[5] = "profiles" /\ BuildOrder[6] = "registry"
  /\ BuildOrder[7] = "announces" /\ BuildOrder[8] = "receiver" /\ BuildOrder[9] = "authenticator"
  /\ BuildOrder[10] = "installed" /\ BuildOrder[11] = "publish" /\ BuildOrder[12] = "catalogue"
  /\ BuildOrder[13] = "baseline" /\ BuildOrder[14] = "install" /\ BuildOrder[15] = "removal"
  /\ BuildOrder[16] = "mirror" /\ BuildOrder[17] = "updater" /\ BuildOrder[18] = "patcher"
  /\ BuildOrder[19] = "updates" /\ BuildOrder[20] = "window"
BY DEF BuildOrder

(* ... and in the order of their declarations. *)
LEMMA DeclaredPlaces ==
  /\ Declared[1] = "order" /\ Declared[2] = "identity" /\ Declared[3] = "preferences"
  /\ Declared[4] = "profiles" /\ Declared[5] = "registry" /\ Declared[6] = "announces"
  /\ Declared[7] = "receiver" /\ Declared[8] = "authenticator" /\ Declared[9] = "publish"
  /\ Declared[10] = "catalogue" /\ Declared[11] = "updater" /\ Declared[12] = "patcher"
  /\ Declared[13] = "installed" /\ Declared[14] = "baseline" /\ Declared[15] = "install"
  /\ Declared[16] = "removal" /\ Declared[17] = "mirror" /\ Declared[18] = "swarm"
  /\ Declared[19] = "updates" /\ Declared[20] = "window"
BY DEF Declared

(* Both orders have the same services, and the window is built last. *)
LEMMA Places ==
  /\ DOMAIN BuildOrder = 1..20 /\ DOMAIN Declared = 1..20 /\ Len(Declared) = 20
  /\ Services = {BuildOrder[i] : i \in 1..20} /\ WithoutGame \subseteq Services
  /\ \A i \in 1..20 : BuildOrder[i] = "window" => i = 20
  /\ BuildOrder[20] = "window"
<1>1. DOMAIN BuildOrder = 1..20 /\ DOMAIN Declared = 1..20 /\ Len(Declared) = 20
  BY DEF BuildOrder, Declared
<1>2. \A i \in 1..20 : i \in {1, 2, 3, 4, 5, 6, 7, 8, 9, 10, 11, 12, 13, 14, 15, 16, 17, 18, 19, 20}
  OBVIOUS
<1>3. \A i \in 1..20 : BuildOrder[i] = "window" => i = 20
  BY BuildPlaces, <1>2
<1> QED
  BY <1>1, BuildPlaces, DeclaredPlaces, <1>2, <1>3 DEF Services, WithoutGame

(* The service that is built next finds everything that stands before it.  *)
LEMMA BuiltInOrder ==
  ASSUME NEW i \in 1..20, NextToBuild(i)
  PROVE  /\ BuildOrder[i] \in Wanted
         /\ BuiltFrom(BuildOrder[i]) \subseteq alive
         /\ BuildOrder[i] = "patcher" => Heard \subseteq alive
         /\ BuildOrder[i] = "window" => Wanted \subseteq alive \union {"window"}
<1>1. BuildOrder[i] \in Wanted /\ \A j \in 1..(i - 1) : BuildOrder[j] \in Wanted => BuildOrder[j] \in alive
  BY DEF NextToBuild, LeftToBuild
<1>2. i \in {1, 2, 3, 4, 5, 6, 7, 8, 9, 10, 11, 12, 13, 14, 15, 16, 17, 18, 19, 20}
  OBVIOUS
<1>3. BuildOrder[i] \notin WithoutGame => Wanted = Services
  BY <1>1 DEF Wanted
<1>4. {"order", "registry", "announces", "receiver", "publish", "installed", "swarm", "authenticator",
       "baseline", "install", "catalogue"} \subseteq Services
  <2>1. /\ BuildOrder[3] \in Services /\ BuildOrder[6] \in Services /\ BuildOrder[7] \in Services
        /\ BuildOrder[8] \in Services /\ BuildOrder[11] \in Services /\ BuildOrder[10] \in Services
        /\ BuildOrder[1] \in Services /\ BuildOrder[9] \in Services /\ BuildOrder[13] \in Services
        /\ BuildOrder[14] \in Services /\ BuildOrder[12] \in Services
    BY Places
  <2> QED
    BY BuildPlaces, <2>1
<1>5. BuildOrder[i] = "window" => Wanted \subseteq alive \union {"window"}
  <2> SUFFICES ASSUME BuildOrder[i] = "window", NEW s \in Wanted, s # "window"  PROVE s \in alive
    OBVIOUS
  <2>1. s \in Services
    BY Places DEF Wanted
  <2>2. PICK j \in 1..20 : BuildOrder[j] = s
    BY <2>1, Places
  <2>3. i = 20 /\ j # 20
    BY <2>2, Places
  <2> QED
    BY <1>1, <2>2, <2>3
<1>6. BuildOrder[i] = "patcher" => Heard \subseteq alive
  <2> SUFFICES ASSUME BuildOrder[i] = "patcher"  PROVE Heard \subseteq alive
    OBVIOUS
  <2>1. i = 18
    BY BuildPlaces, <1>2
  <2>2. BuildOrder[1] \in alive /\ BuildOrder[6] \in alive /\ BuildOrder[7] \in alive /\ BuildOrder[8] \in alive
    BY <1>1, BuildPlaces, <1>3, <1>4, <2>1 DEF WithoutGame
  <2> QED
    BY BuildPlaces, <2>2 DEF Heard
<1>7. BuiltFrom(BuildOrder[i]) \subseteq alive
  <2>1. CASE i = 5
    BY <1>1, BuildPlaces, <1>3, <1>4, <2>1 DEF BuiltFrom, WithoutGame
  <2>2. CASE i = 8
    BY <1>1, BuildPlaces, <1>3, <1>4, <2>2 DEF BuiltFrom, WithoutGame
  <2>3. CASE i = 9
    BY <1>1, BuildPlaces, <1>3, <1>4, <2>3 DEF BuiltFrom, WithoutGame
  <2>4. CASE i = 11
    BY <1>1, BuildPlaces, <1>3, <1>4, <2>4 DEF BuiltFrom, WithoutGame
  <2>5. CASE i = 12
    BY <1>1, BuildPlaces, <1>3, <1>4, <2>5 DEF BuiltFrom, WithoutGame
  <2>6. CASE i = 14
    BY <1>1, BuildPlaces, <1>3, <1>4, <2>6 DEF BuiltFrom, WithoutGame
  <2>7. CASE i = 15
    BY <1>1, BuildPlaces, <1>3, <1>4, <2>7 DEF BuiltFrom, WithoutGame
  <2>8. CASE i \in {16, 17}
    BY <1>1, BuildPlaces, <1>3, <1>4, <2>8 DEF BuiltFrom, WithoutGame
  <2>9. CASE i \in {1, 2, 3, 4, 6, 7, 10, 13, 18, 19, 20}
    BY BuildPlaces, <2>9 DEF BuiltFrom
  <2> QED
    BY <1>2, <2>1, <2>2, <2>3, <2>4, <2>5, <2>6, <2>7, <2>8, <2>9
<1> QED
  BY <1>1, <1>5, <1>6, <1>7

(* What is destroyed last declared first: the registry's worker before the *)
(* keys, and the swarm before what its network's thread calls.             *)
LEMMA DestroyedInOrder ==
  ASSUME NEW i \in 1..20, NextToDestroy(i)
  PROVE  /\ Declared[i] \in alive
         /\ Declared[i] = "registry" => "updater" \notin alive
         /\ Declared[i] \in Heard \ {"swarm"} => "swarm" \notin alive
<1>1. Declared[i] \in alive /\ \A j \in (i + 1)..20 : Declared[j] \notin alive
  BY Places DEF NextToDestroy
<1>2. i \in {1, 2, 3, 4, 5, 6, 7, 8, 9, 10, 11, 12, 13, 14, 15, 16, 17, 18, 19, 20}
  OBVIOUS
<1>3. /\ Declared[i] = "registry" => i = 5
      /\ Declared[i] \in Heard \ {"swarm"} => i \in {5, 6, 7}
  BY DeclaredPlaces, <1>2 DEF Heard
<1>4. (i = 5 => "updater" \notin alive) /\ (i \in {5, 6, 7} => "swarm" \notin alive)
  BY <1>1, DeclaredPlaces
<1> QED
  BY <1>1, <1>3, <1>4

(* The steps of each worker use what the worker may use. *)
LEMMA WorksFit ==
  /\ Planning \in Seq(SUBSET Uses("install")) /\ Repairing \in Seq(SUBSET Uses("install"))
  /\ Installing \in Seq(SUBSET Uses("install")) /\ Publishing \in Seq(SUBSET Uses("publish"))
  /\ Syncing \in Seq(SUBSET Uses("updater")) /\ Alone \in Seq(SUBSET Uses("patcher"))
  /\ Alone \in Seq(SUBSET Uses("updates")) /\ <<{}, {}>> \in Seq(SUBSET Uses("baseline"))
  /\ \A w \in Workers : <<>> \in Seq(SUBSET Uses(w))
  /\ Alone # <<>> /\ Syncing # <<>>
<1>1. /\ Uses("install") = {"baseline", "receiver", "installed", "swarm", "publish"}
      /\ Uses("publish") = {"receiver", "registry", "announces", "swarm"}
      /\ Uses("updater") = {"registry"}
  BY DEF Uses
<1>2. Planning \in Seq(SUBSET Uses("install")) /\ Repairing \in Seq(SUBSET Uses("install"))
  BY <1>1 DEF Planning, Repairing
<1>3. Installing \in Seq(SUBSET Uses("install")) /\ Publishing \in Seq(SUBSET Uses("publish"))
  BY <1>1 DEF Installing, Publishing
<1>4. Syncing \in Seq(SUBSET Uses("updater")) /\ Alone \in Seq(SUBSET Uses("patcher"))
  BY <1>1 DEF Syncing, Alone
<1>5. Alone \in Seq(SUBSET Uses("updates")) /\ <<{}, {}>> \in Seq(SUBSET Uses("baseline"))
  BY DEF Alone
<1>6. Alone # <<>> /\ Syncing # <<>>
  BY DEF Alone, Syncing
<1> QED
  BY <1>2, <1>3, <1>4, <1>5, <1>6

(* All of the workers but one keep their work. *)
LEMMA RunsOne ==
  ASSUME DOMAIN todo = Workers, \A v \in Workers : todo[v] \in Seq(SUBSET Uses(v)),
         NEW w \in Workers, NEW work \in Seq(SUBSET Uses(w)), Runs(w, work)
  PROVE  /\ DOMAIN todo' = Workers /\ \A v \in Workers : todo'[v] \in Seq(SUBSET Uses(v))
         /\ todo'[w] = work /\ \A v \in Workers \ {w} : todo'[v] = todo[v]
<1>1. todo' = [todo EXCEPT ![w] = work]
  BY DEF Runs
<1>2. /\ DOMAIN todo' = Workers /\ todo'[w] = work
      /\ \A v \in Workers \ {w} : todo'[v] = todo[v]
  BY <1>1
<1> QED
  BY <1>2

(* Everything stands while the loop runs, and goes one by one after it. *)
LEMMA AliveStep == AliveOK /\ [SessionNext]_sessionVars => AliveOK'
<1> SUFFICES ASSUME AliveOK, [SessionNext]_sessionVars  PROVE AliveOK'
  OBVIOUS
<1>1. ASSUME UNCHANGED <<at, root, alive>>  PROVE AliveOK'
  BY <1>1 DEF AliveOK, InLoop, Wanted
<1>2. CASE Detect
  <2>1. at = "detect" /\ at' = "build" /\ alive' = alive
    BY <1>2 DEF Detect
  <2> QED
    BY <2>1 DEF AliveOK, InLoop
<1>3. CASE Build
  <2>1. PICK i \in 1..20 :
          /\ NextToBuild(i) /\ alive' = alive \union {BuildOrder[i]}
          /\ \/ BuildOrder[i] # "window" /\ at' = "build"
             \/ BuildOrder[i] = "window" /\ at' \in {"pump", "destroy"}
    BY <1>3, Places DEF Build
  <2>2. root' = root
    BY <1>3 DEF Build
  <2>3. Wanted' = Wanted
    BY <2>2 DEF Wanted
  <2>4. alive' \subseteq Wanted
    BY <2>1, BuiltInOrder DEF AliveOK
  <2>5. BuildOrder[i] = "window" => alive' = Wanted
    BY <2>1, <2>4, BuiltInOrder
  <2> QED
    BY <2>1, <2>3, <2>4, <2>5 DEF AliveOK, InLoop
<1>4. ASSUME InLoop, at' \in {"pump", "poll", "tick", "close", "mirror", "draw", "settle", "cancel", "destroy"},
             UNCHANGED <<root, alive>>
      PROVE  AliveOK'
  BY <1>4 DEF AliveOK, InLoop, Wanted
<1>5. CASE PumpEnds \/ PollInstall \/ TickRegistry \/ PollMirror \/ Settle \/ Cancelled
  <2>1. InLoop /\ UNCHANGED <<root, alive>>
    BY <1>5 DEF PumpEnds, PollInstall, TickRegistry, PollMirror, Settle, Cancelled, MainGoes, InLoop
  <2>2. at' \in {"settle", "poll", "tick", "close", "draw", "pump", "cancel", "destroy"}
    BY <1>5 DEF PumpEnds, PollInstall, TickRegistry, PollMirror, Settle, Cancelled, MainGoes
  <2> QED
    BY <1>4, <2>1, <2>2
<1>6. CASE HandleClose
  <2>1. InLoop /\ UNCHANGED <<root, alive>> /\ at' \in {"mirror", "settle"}
    BY <1>6 DEF HandleClose, MainGoes, InLoop
  <2> QED
    BY <1>4, <2>1
<1>7. CASE Frame
  <2>1. InLoop /\ UNCHANGED <<root, alive>> /\ at' = "pump"
    BY <1>7 DEF Frame, InLoop
  <2> QED
    BY <1>4, <2>1
<1>8. CASE Destroy
  <2>1. at = "destroy" /\ alive' \subseteq alive /\ UNCHANGED <<at, root>>
    BY <1>8 DEF Destroy
  <2> QED
    BY <2>1 DEF AliveOK, InLoop, Wanted
<1>9. CASE Again
  <2>1. at' \in {"ended", "build"} /\ alive' = {}
    BY <1>9 DEF Again
  <2> QED
    BY <2>1 DEF AliveOK, InLoop
<1>10. CASE Message \/ StopBaseline \/ Ended \/ InstallSteps \/ (\E w \in Workers \ {"install"} : WorkerSteps(w))
            \/ UNCHANGED sessionVars
  <2>1. UNCHANGED <<at, root, alive>>
    BY <1>10 DEF Message, StopBaseline, Ended, InstallSteps, WorkerSteps, sessionVars, mainVars
  <2> QED
    BY <1>1, <2>1
<1> QED
  BY <1>2, <1>3, <1>5, <1>6, <1>7, <1>8, <1>9, <1>10 DEF SessionNext, MainNext

(* What the network's thread calls stands as long as it is heard. *)
LEMMA GossipStep == GossipOK /\ [SessionNext]_sessionVars => GossipOK'
<1> SUFFICES ASSUME GossipOK, [SessionNext]_sessionVars, gossiping'  PROVE Heard \subseteq alive'
  BY DEF GossipOK, Heard
<1>1. CASE Build
  <2>1. PICK i \in 1..20 : /\ NextToBuild(i) /\ alive' = alive \union {BuildOrder[i]}
                           /\ gossiping' = (gossiping \/ BuildOrder[i] = "patcher")
    BY <1>1, Places DEF Build
  <2>2. gossiping \/ BuildOrder[i] = "patcher"
    BY <2>1
  <2>3. Heard \subseteq alive
    BY <2>1, <2>2, BuiltInOrder DEF GossipOK
  <2> QED
    BY <2>1, <2>3
<1>2. CASE Destroy
  <2>1. PICK i \in 1..20 : /\ NextToDestroy(i) /\ alive' = alive \ {Declared[i]}
                           /\ gossiping' = (gossiping /\ Declared[i] # "swarm")
    BY <1>2, Places DEF Destroy
  <2>2. gossiping /\ Declared[i] # "swarm"
    BY <2>1
  <2>3. Heard \subseteq alive /\ "swarm" \in alive
    BY <2>2 DEF GossipOK, Heard
  <2>4. Declared[i] \notin Heard
    BY <2>1, <2>2, <2>3, DestroyedInOrder
  <2> QED
    BY <2>1, <2>3, <2>4
<1>3. CASE Detect \/ Message \/ PumpEnds \/ PollInstall \/ TickRegistry \/ HandleClose \/ PollMirror \/ Frame
           \/ Settle \/ Cancelled \/ StopBaseline \/ Again \/ Ended \/ InstallSteps
           \/ (\E w \in Workers \ {"install"} : WorkerSteps(w)) \/ UNCHANGED sessionVars
  <2>1. UNCHANGED <<alive, gossiping>>
    BY <1>3 DEF Detect, Message, PumpEnds, PollInstall, TickRegistry, HandleClose, PollMirror, Frame, Settle,
           Cancelled, StopBaseline, Again, Ended, InstallSteps, WorkerSteps, MainGoes, mainVars, sessionVars
  <2> QED
    BY <2>1 DEF GossipOK
<1> QED
  BY <1>1, <1>2, <1>3 DEF SessionNext, MainNext

(* With a game every service is wanted, and while the loop runs it stands. *)
LEMMA WithGame ==
  ASSUME AliveOK, InLoop
  PROVE  /\ root # NoRoot => {"install", "updater", "registry", "mirror"} \subseteq alive
         /\ Present("install") \/ Present("mirror") \/ Present("updater") => root # NoRoot
<1>1. alive = Wanted
  BY DEF AliveOK
<1>2. {"install", "updater", "registry", "mirror"} \subseteq Services
  <2>1. Services = {BuildOrder[i] : i \in 1..20}
    BY Places
  <2>2. BuildOrder[14] \in Services /\ BuildOrder[17] \in Services /\ BuildOrder[6] \in Services
        /\ BuildOrder[16] \in Services
    BY <2>1
  <2> QED
    BY <2>2, BuildPlaces
<1>3. root # NoRoot => Wanted = Services
  BY DEF Wanted
<1>4. root = NoRoot => Wanted = {"swarm", "updates", "window"}
  BY DEF Wanted, WithoutGame
<1> QED
  BY <1>1, <1>2, <1>3, <1>4 DEF Present

(* A step that starts or ends the installation's worker inside the loop. *)
LEMMA InstallerMoves ==
  ASSUME AliveOK, WorkOK, InLoop, InLoop', root # NoRoot, UNCHANGED <<root, alive>>,
         NEW work \in Seq(SUBSET Uses("install")), Runs("install", work),
         phase' \in {"Idle", "Ended", "Planning", "Fetching", "Installing", "Verifying"},
         work # <<>> => phase' \in {"Planning", "Installing", "Verifying"}
  PROVE  WorkOK'
<1>1. /\ DOMAIN todo' = Workers /\ \A v \in Workers : todo'[v] \in Seq(SUBSET Uses(v))
      /\ todo'["install"] = work /\ todo'["updater"] = todo["updater"]
  BY RunsOne DEF WorkOK, Workers
<1> QED
  BY <1>1 DEF WorkOK, Idle, InstallBusy

(* A step of another worker, and of its work. *)
LEMMA OthersMove ==
  ASSUME WorkOK, UNCHANGED <<root, phase, alive>>, InLoop => InLoop',
         NEW w \in Workers \ {"install"}, NEW work \in Seq(SUBSET Uses(w)), Runs(w, work),
         w = "updater" /\ work # <<>> => {"updater", "registry"} \subseteq alive
  PROVE  WorkOK'
<1>1. /\ DOMAIN todo' = Workers /\ \A v \in Workers : todo'[v] \in Seq(SUBSET Uses(v))
      /\ todo'[w] = work /\ \A v \in Workers \ {w} : todo'[v] = todo[v]
  BY RunsOne DEF WorkOK
<1>2. todo'["install"] = todo["install"]
  BY <1>1 DEF Workers
<1>3. w = "updater" \/ todo'["updater"] = todo["updater"]
  BY <1>1 DEF Workers
<1> QED
  BY <1>1, <1>2, <1>3 DEF WorkOK, Idle, InstallBusy

(* A step that leaves the workers to their work. *)
LEMMA NobodyMoves ==
  ASSUME WorkOK, UNCHANGED <<root, todo, phase, alive>>, InLoop => InLoop'
  PROVE  WorkOK'
BY DEF WorkOK, Idle, InstallBusy

(* What the workers use stands while they work. *)
LEMMA WorkStep == AliveOK /\ WorkOK /\ [SessionNext]_sessionVars => WorkOK'
<1> SUFFICES ASSUME AliveOK, WorkOK, [SessionNext]_sessionVars  PROVE WorkOK'
  OBVIOUS
<1>w. {"install", "updater", "publish", "patcher", "updates", "baseline"} \subseteq Workers
  BY DEF Workers
<1>1. CASE Detect
  <2>1. at = "detect" /\ UNCHANGED <<todo, phase, alive>>
    BY <1>1 DEF Detect, workVars
  <2>2. ~InLoop
    BY <2>1 DEF InLoop
  <2> QED
    BY <2>1, <2>2 DEF WorkOK, Idle, InstallBusy
<1>2. CASE Build
  <2>1. PICK i \in 1..20 :
          /\ NextToBuild(i) /\ alive' = alive \union {BuildOrder[i]}
          /\ IF BuildOrder[i] = "install" THEN Runs("baseline", <<{}, {}>>) ELSE UNCHANGED todo
    BY <1>2, Places DEF Build
  <2>2. at = "build" /\ UNCHANGED <<root, phase>>
    BY <1>2 DEF Build
  <2>3. ~InstallBusy /\ Idle("install")
    BY <2>2 DEF WorkOK, InLoop, InstallBusy
  <2>4. /\ DOMAIN todo' = Workers /\ \A v \in Workers : todo'[v] \in Seq(SUBSET Uses(v))
        /\ todo'["install"] = todo["install"] /\ todo'["updater"] = todo["updater"]
    <3>1. CASE BuildOrder[i] = "install"
      <4>1. Runs("baseline", <<{}, {}>>)
        BY <2>1, <3>1
      <4> QED
        BY <4>1, <1>w, RunsOne, WorksFit DEF WorkOK
    <3>2. CASE BuildOrder[i] # "install"
      BY <2>1, <3>2 DEF WorkOK
    <3> QED
      BY <3>1, <3>2
  <2> QED
    BY <2>1, <2>2, <2>3, <2>4 DEF WorkOK, Idle, InstallBusy
<1>3. CASE Message \/ PumpEnds \/ StopBaseline \/ Ended \/ UNCHANGED sessionVars
  <2>1. UNCHANGED <<root, todo, phase, alive>>
    BY <1>3 DEF Message, PumpEnds, StopBaseline, Ended, MainGoes, mainVars, workVars, sessionVars
  <2>2. at' = at \/ at' \in {"settle", "poll"}
    BY <1>3 DEF Message, PumpEnds, StopBaseline, Ended, MainGoes, mainVars, sessionVars
  <2> QED
    BY <2>1, <2>2, NobodyMoves DEF InLoop
<1>4. CASE HandleClose
  <2>1. UNCHANGED <<root, todo, phase, alive>> /\ at' \in {"mirror", "settle"}
    BY <1>4 DEF HandleClose, MainGoes, workVars
  <2> QED
    BY <2>1, NobodyMoves DEF InLoop
<1>5. CASE PollInstall
  <2>1. InLoop /\ InLoop' /\ UNCHANGED <<root, alive>>
    BY <1>5 DEF PollInstall, MainGoes, InLoop
  <2>2. CASE UNCHANGED <<todo, phase>>
    BY <2>1, <2>2, NobodyMoves
  <2>3. CASE phase = "Fetching" /\ phase' = "Ended" /\ UNCHANGED todo
    BY <2>1, <2>3 DEF WorkOK, Idle, InstallBusy
  <2>4. CASE phase = "Fetching" /\ phase' = "Planning" /\ Runs("install", Planning)
    <3>1. root # NoRoot
      BY <2>4 DEF WorkOK, InstallBusy
    <3> QED
      BY <2>1, <2>4, <3>1, WorksFit, InstallerMoves
  <2>5. CASE phase = "Fetching" /\ phase' = "Installing" /\ Runs("install", Installing)
    <3>1. root # NoRoot
      BY <2>5 DEF WorkOK, InstallBusy
    <3> QED
      BY <2>1, <2>5, <3>1, WorksFit, InstallerMoves
  <2> QED
    BY <1>5, <2>2, <2>3, <2>4, <2>5 DEF PollInstall
<1>6. CASE TickRegistry
  <2>1. InLoop /\ InLoop' /\ UNCHANGED <<root, alive, phase>>
    BY <1>6 DEF TickRegistry, MainGoes, InLoop
  <2>2. CASE UNCHANGED todo
    BY <2>1, <2>2, NobodyMoves
  <2>3. CASE Present("updater") /\ Runs("updater", Syncing)
    <3>1. {"updater", "registry"} \subseteq alive
      BY <2>1, <2>3, WithGame
    <3> QED
      BY <1>w, <2>1, <2>3, <3>1, WorksFit, OthersMove
  <2> QED
    BY <1>6, <2>2, <2>3 DEF TickRegistry
<1>7. CASE PollMirror
  <2>1. InLoop /\ InLoop' /\ UNCHANGED <<root, alive>>
    BY <1>7 DEF PollMirror, MainGoes, InLoop
  <2>2. CASE UNCHANGED <<todo, phase>>
    BY <2>1, <2>2, NobodyMoves
  <2>3. CASE Present("mirror") /\ phase' = "Planning" /\ Runs("install", Planning)
    <3>1. root # NoRoot
      BY <2>1, <2>3, WithGame
    <3> QED
      BY <2>1, <2>3, <3>1, WorksFit, InstallerMoves
  <2> QED
    BY <1>7, <2>2, <2>3 DEF PollMirror
<1>8. CASE Frame
  <2>1. InLoop /\ InLoop' /\ UNCHANGED <<root, alive>>
    BY <1>8 DEF Frame, InLoop
  <2>2. CASE UNCHANGED <<todo, phase>>
    BY <2>1, <2>2, NobodyMoves
  <2>3. CASE StartsWork
    <3>1. CASE Present("install") /\ phase' = "Planning" /\ Runs("install", Planning)
      BY <2>1, <3>1, WorksFit, InstallerMoves, WithGame
    <3>2. CASE Present("install") /\ phase' = "Verifying" /\ Runs("install", Repairing)
      BY <2>1, <3>2, WorksFit, InstallerMoves, WithGame
    <3>3. CASE Present("install") /\ Idle("install") /\ phase' = "Fetching" /\ UNCHANGED todo
      <4>1. root # NoRoot
        BY <2>1, <3>3, WithGame
      <4> QED
        BY <2>1, <3>3, <4>1 DEF WorkOK, Idle, InstallBusy
    <3>4. CASE UNCHANGED phase /\ Runs("publish", Publishing)
      BY <1>w, <2>1, <3>4, WorksFit, OthersMove
    <3>5. CASE UNCHANGED phase /\ Runs("patcher", Alone)
      BY <1>w, <2>1, <3>5, WorksFit, OthersMove
    <3>6. CASE UNCHANGED phase /\ Runs("updates", Alone)
      BY <1>w, <2>1, <3>6, WorksFit, OthersMove
    <3> QED
      BY <2>2, <2>3, <3>1, <3>2, <3>3, <3>4, <3>5, <3>6 DEF StartsWork
  <2> QED
    BY <1>8, <2>2, <2>3 DEF Frame, workVars
<1>9. CASE Settle
  <2>1. at = "settle" /\ UNCHANGED <<root, alive, todo, phase>>
    BY <1>9 DEF Settle, MainGoes
  <2>2. CASE Present("install") /\ InstallBusy
    <3>1. at' = "cancel"
      BY <1>9, <2>2 DEF Settle, MainGoes
    <3> QED
      BY <2>1, <3>1, NobodyMoves DEF InLoop
  <2>3. CASE ~(Present("install") /\ InstallBusy)
    <3>1. ~InstallBusy
      <4>1. InstallBusy => Present("install")
        BY <2>1, WithGame DEF WorkOK, InLoop, Present
      <4> QED
        BY <2>3, <4>1
    <3> QED
      BY <2>1, <3>1 DEF WorkOK, Idle, InstallBusy
  <2> QED
    BY <2>2, <2>3
<1>10. CASE Cancelled
  <2>1. Idle("install") /\ phase' = "Idle" /\ UNCHANGED <<root, alive, todo>>
    BY <1>10 DEF Cancelled, MainGoes
  <2> QED
    BY <2>1 DEF WorkOK, Idle, InstallBusy
<1>11. CASE Destroy
  <2>1. PICK i \in 1..20 : /\ NextToDestroy(i) /\ alive' = alive \ {Declared[i]}
                           /\ Declared[i] \in Workers => Idle(Declared[i])
    BY <1>11, Places DEF Destroy
  <2>2. at = "destroy" /\ UNCHANGED <<at, root, todo, phase>>
    BY <1>11 DEF Destroy, workVars
  <2>3. ~InstallBusy
    BY <2>2 DEF WorkOK, InLoop
  <2>4. ASSUME ~Idle("updater")  PROVE {"updater", "registry"} \subseteq alive'
    <3>1. {"updater", "registry"} \subseteq alive
      BY <2>4 DEF WorkOK
    <3>2. Declared[i] # "registry" /\ Declared[i] # "updater"
      BY <1>w, <2>1, <2>4, <3>1, DestroyedInOrder
    <3> QED
      BY <2>1, <3>1, <3>2
  <2> QED
    BY <2>2, <2>3, <2>4 DEF WorkOK, Idle, InstallBusy
<1>12. CASE Again
  <2>1. todo' = [w \in Workers |-> <<>>] /\ phase' = "Idle"
    BY <1>12 DEF Again, NoWork
  <2> QED
    BY <1>w, <2>1, WorksFit DEF WorkOK, Idle, InstallBusy
<1>13. CASE InstallSteps
  <2>1. UNCHANGED <<at, root, alive>> /\ ~Idle("install")
    BY <1>13 DEF InstallSteps, mainVars
  <2>2. root # NoRoot /\ InLoop /\ InLoop'
    BY <2>1 DEF WorkOK, InLoop, InstallBusy
  <2>3. CASE Runs("install", Tail(todo["install"])) /\ UNCHANGED phase
    <3>1. Tail(todo["install"]) \in Seq(SUBSET Uses("install"))
      BY <1>w, <2>1 DEF WorkOK, Idle
    <3>2. phase \in {"Planning", "Installing", "Verifying"}
      BY <2>1 DEF WorkOK
    <3> QED
      BY <2>1, <2>2, <2>3, <3>1, <3>2, InstallerMoves
  <2>4. CASE Runs("install", <<>>) /\ phase' \in {"Ended", "Fetching"}
    BY <1>w, <2>1, <2>2, <2>4, WorksFit, InstallerMoves
  <2>5. CASE Runs("install", Installing) /\ phase' = "Installing"
    BY <2>1, <2>2, <2>5, WorksFit, InstallerMoves
  <2> QED
    BY <1>13, <2>3, <2>4, <2>5 DEF InstallSteps
<1>14. ASSUME NEW w \in Workers \ {"install"}, WorkerSteps(w)  PROVE WorkOK'
  <2>1. UNCHANGED <<at, root, alive, phase>> /\ ~Idle(w)
    BY <1>14 DEF WorkerSteps, mainVars
  <2>2. InLoop => InLoop'
    BY <2>1 DEF InLoop
  <2>3. w = "updater" => {"updater", "registry"} \subseteq alive
    BY <2>1 DEF WorkOK
  <2>4. PICK work \in Seq(SUBSET Uses(w)) : Runs(w, work)
    <3>1. todo[w] \in Seq(SUBSET Uses(w)) /\ todo[w] # <<>>
      BY <2>1 DEF WorkOK, Idle
    <3>2. Tail(todo[w]) \in Seq(SUBSET Uses(w))
      BY <3>1
    <3>3. <<>> \in Seq(SUBSET Uses(w))
      BY WorksFit
    <3> QED
      BY <1>14, <3>2, <3>3 DEF WorkerSteps
  <2> QED
    BY <2>1, <2>2, <2>3, <2>4, OthersMove
<1> QED
  BY <1>1, <1>2, <1>3, <1>4, <1>5, <1>6, <1>7, <1>8, <1>9, <1>10, <1>11, <1>12, <1>13, <1>14
  DEF SessionNext, MainNext

(* At first nothing is built and nobody works. *)
LEMMA SessionInitially == SessionInit => SessionInv
<1> SUFFICES ASSUME SessionInit  PROVE SessionInv
  OBVIOUS
<1>1. at = "detect" /\ alive = {} /\ ~gossiping /\ phase = "Idle" /\ todo = [w \in Workers |-> <<>>]
  BY DEF SessionInit, NoWork
<1>2. AliveOK
  BY <1>1 DEF AliveOK, InLoop
<1>3. WorkOK
  BY <1>1, WorksFit DEF WorkOK, Idle, InstallBusy, Workers
<1> QED
  BY <1>1, <1>2, <1>3 DEF SessionInv, GossipOK

(* No thread but publishing's uses a service that is not built or already  *)
(* destroyed, and no constructor is given one (ManagerSession::Run, the    *)
(* destructors and SettleTransfers_).                                      *)
THEOREM ServicesAreAlive == Judged \subseteq Workers \ {"publish"} => (SessionSpec => []UsedIsAlive)
<1> SUFFICES ASSUME Judged \subseteq Workers \ {"publish"}  PROVE SessionSpec => []UsedIsAlive
  OBVIOUS
<1>1. SessionInv => UsedIsAlive
  <2> SUFFICES ASSUME SessionInv  PROVE UsedIsAlive
    OBVIOUS
  <2>1. ASSUME NEW w \in Judged, ~Idle(w)  PROVE Head(todo[w]) \subseteq alive
    <3>1. w \in Workers \ {"publish"} /\ todo[w] \in Seq(SUBSET Uses(w)) /\ todo[w] # <<>>
      BY <2>1 DEF SessionInv, WorkOK, Idle
    <3>2. Head(todo[w]) \subseteq Uses(w)
      BY <3>1
    <3>3. Uses(w) \subseteq alive
      <4>1. CASE w = "install"
        <5>1. InLoop /\ root # NoRoot
          BY <2>1, <4>1 DEF SessionInv, WorkOK, InstallBusy
        <5>2. alive = Services
          BY <5>1 DEF SessionInv, AliveOK, Wanted
        <5>3. {"baseline", "receiver", "installed", "swarm", "publish"} \subseteq Services
          <6>1. BuildOrder[13] \in Services /\ BuildOrder[8] \in Services /\ BuildOrder[10] \in Services
                /\ BuildOrder[1] \in Services /\ BuildOrder[11] \in Services
            BY Places
          <6> QED
            BY <6>1, BuildPlaces
        <5> QED
          BY <4>1, <5>2, <5>3 DEF Uses
      <4>2. CASE w = "updater"
        BY <2>1, <4>2 DEF SessionInv, WorkOK, Uses
      <4>3. CASE w \notin {"install", "publish", "updater"}
        BY <4>3 DEF Uses
      <4> QED
        BY <3>1, <4>1, <4>2, <4>3
    <3> QED
      BY <3>2, <3>3
  <2>2. NetworkUses \subseteq alive
    BY DEF NetworkUses, SessionInv, GossipOK, Heard
  <2>3. ASSUME NEW i \in DOMAIN BuildOrder, NextToBuild(i)  PROVE BuiltFrom(BuildOrder[i]) \subseteq alive
    BY <2>3, Places, BuiltInOrder
  <2> QED
    BY <2>1, <2>2, <2>3 DEF UsedIsAlive
<1> QED
  <2>1. SessionInv /\ [SessionNext]_sessionVars => SessionInv'
    BY AliveStep, GossipStep, WorkStep DEF SessionInv
  <2> QED
    BY <1>1, <2>1, SessionInitially, PTL DEF SessionSpec

=============================================================================
