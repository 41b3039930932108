-------------------------------- MODULE Gossip --------------------------------
(***************************************************************************)
(* The announces of one publisher on their way between peers: the gossip   *)
(* plugin each end of a connection runs (AnnounceGossipPeerPlugin), the    *)
(* exchange behind it with a budget per peer, the receiver that keeps the  *)
(* newest announce of each mod and its store on disk, and the version      *)
(* numbers PublishService gives out. A link <<p, n>> carries what p sends  *)
(* to n; what n's plugin keeps about p is indexed by the same pair. Mods   *)
(* are numbered in the order of their identifiers.                         *)
(***************************************************************************)
EXTENDS Integers, Sequences, FiniteSets

CONSTANTS
  Nodes,
  Publisher,
  Links,        \* who may be connected to whom, both ways
  Mods,         \* the publisher's mods
  MaxEntries,   \* AnnounceWireCodec::MAXIMUM_ENTRIES
  MaxWants,     \* OutstandingWantTracker::MAXIMUM_OUTSTANDING
  MaxRetained,  \* AnnounceReceiver's MAXIMUM_RETAINED
  Burst,        \* PeerAnnounceBudget::BURST_ALLOWANCE
  Threshold,    \* PeerAnnounceBudget::SUSTAINED_OVERAGE_THRESHOLD
  SavesTear,    \* whether AnnounceStore::Save may fail, or be cut short
  MaxReleases,  \* bound: how many releases are published
  MaxQueue,     \* bound: how many messages wait before a plugin's tick sends more
  MaxEvents     \* bound: key changes, expired wants, lost connections and restarts

ASSUME GossipBounds ==
  /\ Publisher \in Nodes /\ Mods \subseteq Nat /\ IsFiniteSet(Mods)
  /\ Links \subseteq {l \in Nodes \X Nodes : l[1] # l[2]}
  /\ \A l \in Links : <<l[2], l[1]>> \in Links
  /\ MaxEntries \in Nat /\ MaxWants \in Nat /\ MaxRetained \in Nat
  /\ Burst \in Nat \ {0} /\ Threshold \in Nat \ {0} /\ SavesTear \in BOOLEAN
  /\ MaxReleases \in Nat /\ MaxQueue \in Nat /\ MaxEvents \in Nat

VARIABLES
  trusted,    \* the nodes whose key registry has the publisher's key
  revoked,    \* the nodes whose key registry has it revoked
  retained,   \* AnnounceReceiver::_retained, per node and mod
  store,      \* AnnounceStore: the record on disk, per node and mod
  versions,   \* PublishService::_versions
  sealing,    \* the release being published: its mod and its version
  releases,   \* how many releases have been published
  connected,  \* the links that are up
  channel,    \* the messages on their way
  heard,      \* the links whose receiving plugin has had the handshake
  stale,      \* ... has a refresh to answer (_seenRefresh is behind)
  wants,      \* ... OutstandingWantTracker::_pending, by mod
  allowance,  \* PeerAnnounceBudget::_allowance
  overage,    \* PeerAnnounceBudget::_consecutiveOverage
  refill,     \* "unseeded", or whether a refill interval has passed
  blocked,    \* the links whose sender is blocked by its receiver
  events

trustVars   == <<trusted, revoked>>
holdVars    == <<retained, store>>
publishVars == <<versions, sealing, releases>>
linkVars    == <<connected, channel, heard, stale, wants>>
budgetVars  == <<allowance, overage, refill, blocked>>
gossipVars  == <<trustVars, holdVars, publishVars, linkVars, budgetVars, events>>

(* A release has a version number and a content: the build it came from.   *)
None      == [version |-> 0, build |-> 0]
Releases  == [version : 0..MaxReleases, build : 0..MaxReleases]
NotSealing == <<0, 0>>

GossipInit ==
  /\ trusted \in {T \in SUBSET Nodes : Publisher \in T} /\ revoked = {}
  /\ retained = [n \in Nodes |-> [m \in Mods |-> None]] /\ store = retained
  /\ versions = [m \in Mods |-> 0] /\ sealing = NotSealing /\ releases = 0
  /\ connected = {} /\ channel = [l \in Links |-> <<>>]
  /\ heard = {} /\ stale = {} /\ wants = [l \in Links |-> {}]
  /\ allowance = [l \in Links |-> Burst] /\ overage = [l \in Links |-> 0]
  /\ refill = [l \in Links |-> "unseeded"] /\ blocked = {}
  /\ events = 0

Event == events < MaxEvents /\ events' = events + 1

Back(l) == <<l[2], l[1]>>

Below(x, S)    == Cardinality({y \in S : y < x})
Smallest(S, k) == {x \in S : Below(x, S) < k}
Ascending(S)   == {s \in [1..Cardinality(S) -> S] :
                     \A i, j \in 1..Cardinality(S) : i < j => s[i] < s[j]}

-----------------------------------------------------------------------------
(* AnnounceReceiver.                                                       *)

Usable(n)  == n \in trusted \ revoked
Known(n)   == {m \in Mods : retained[n][m] # None}
HasRoom(n, m) == m \in Known(n) \/ Cardinality(Known(n)) < MaxRetained

WouldAccept(n, m, version) == Usable(n) /\ HasRoom(n, m) /\ version > retained[n][m].version

Acceptable(n, m, release) == Usable(n) /\ HasRoom(n, m) /\ release.version > retained[n][m].version

(* The save truncates the file it writes, and its result is ignored.       *)
Saved(old, release) == IF SavesTear THEN {old, None, release} ELSE {release}

(* Broken: what is accepted is kept in memory only. *)
Accept_Unsaved(n, m, release) ==
  IF Acceptable(n, m, release)
  THEN retained' = [retained EXCEPT ![n][m] = release] /\ UNCHANGED store
  ELSE UNCHANGED holdVars

Accept(n, m, release) ==
  IF Acceptable(n, m, release)
  THEN /\ retained' = [retained EXCEPT ![n][m] = release]
       /\ \E saved \in Saved(store[n][m], release) : store' = [store EXCEPT ![n][m] = saved]
  ELSE UNCHANGED holdVars

(* What Restore finds in the store when the program starts. *)
Restored(n) == IF Usable(n) THEN store[n] ELSE [m \in Mods |-> None]

(* The key directory is reloaded: a key arrives, or its revocation.        *)
KeyArrives(n) ==
  /\ Event /\ n \notin trusted
  /\ trusted' = trusted \cup {n}
  /\ UNCHANGED <<revoked, holdVars, publishVars, linkVars, budgetVars>>

KeyRevoked(n) ==
  /\ Event /\ n \notin revoked
  /\ revoked' = revoked \cup {n}
  /\ UNCHANGED <<trusted, holdVars, publishVars, linkVars, budgetVars>>

-----------------------------------------------------------------------------
(* PublishService::Publish.                                                *)

Larger(x, y) == IF x > y THEN x ELSE y

NextVersion(m) == Larger(versions[m], retained[Publisher][m].version) + 1

PublishBegins(m) ==
  /\ sealing = NotSealing /\ releases < MaxReleases
  /\ sealing' = <<m, NextVersion(m)>>
  /\ UNCHANGED <<trustVars, holdVars, versions, releases, linkVars, budgetVars, events>>

PublishFails ==
  /\ sealing # NotSealing
  /\ sealing' = NotSealing
  /\ UNCHANGED <<trustVars, holdVars, versions, releases, linkVars, budgetVars, events>>

(* The receiver has the last word; what comes after it changes no announce. *)
PublishEnds ==
  /\ sealing # NotSealing
  /\ LET m == sealing[1]
         release == [version |-> sealing[2], build |-> releases + 1]
     IN /\ Accept(Publisher, m, release)
        /\ IF Acceptable(Publisher, m, release)
           THEN versions' = [versions EXCEPT ![m] = release.version]
           ELSE UNCHANGED versions
  /\ releases' = releases + 1
  /\ sealing' = NotSealing
  /\ UNCHANGED <<trustVars, linkVars, budgetVars, events>>

-----------------------------------------------------------------------------
(* Messages. A want names versions too, which Serve does not look at.      *)

Hello          == [kind |-> "hello"]
Ask            == [kind |-> "ask"]
Offer(n)       == [kind |-> "offer",
                   holdings |-> {<<m, retained[n][m].version>> : m \in Smallest(Known(n), MaxEntries)}]
Want(mods)     == [kind |-> "want", mods |-> mods]
Record(m, rel) == [kind |-> "record", mod |-> m, release |-> rel]

Hears(l, kind) == channel[l] # <<>> /\ Head(channel[l]).kind = kind

Answer(l, messages) ==
  channel' = [channel EXCEPT ![l] = Tail(@), ![Back(l)] = @ \o messages]

(* The plugins of both ends and what is on its way go with a connection.   *)
Close(ls) ==
  LET gone == ls \cup {Back(l) : l \in ls} IN
    /\ connected' = connected \ gone
    /\ heard' = heard \ gone
    /\ stale' = stale \ gone
    /\ channel' = [l \in Links |-> IF l \in gone THEN <<>> ELSE channel[l]]
    /\ wants' = [l \in Links |-> IF l \in gone THEN {} ELSE wants[l]]

(* on_extension_handshake *)
ReceiveHello(l) ==
  /\ Hears(l, "hello")
  /\ heard' = heard \cup {l}
  /\ Answer(l, <<Offer(l[2])>>)
  /\ UNCHANGED <<trustVars, holdVars, publishVars, connected, stale, wants, budgetVars, events>>

(* HandleOffer_: what is wanted already is asked for again.                *)
ReceiveOffer(l) ==
  /\ Hears(l, "offer")
  /\ LET n == l[2]
         missing == {e[1] : e \in {h \in Head(channel[l]).holdings : WouldAccept(n, h[1], h[2])}}
         room == MaxWants - Cardinality(wants[l])
         tracked == (missing \cap wants[l]) \cup Smallest(missing \ wants[l], room)
     IN /\ wants' = [wants EXCEPT ![l] = @ \cup tracked]
        /\ Answer(l, IF tracked = {} THEN <<>> ELSE <<Want(tracked)>>)
  /\ UNCHANGED <<trustVars, holdVars, publishVars, connected, heard, stale, budgetVars, events>>

(* HandleWant_: a record for each wanted mod that is held. *)
ReceiveWant(l) ==
  /\ Hears(l, "want")
  /\ LET n == l[2] IN
       \E served \in Ascending(Head(channel[l]).mods \cap Known(n)) :
         Answer(l, [i \in DOMAIN served |-> Record(served[i], retained[n][served[i]])])
  /\ UNCHANGED <<trustVars, holdVars, publishVars, connected, heard, stale, wants, budgetVars, events>>

ReceiveAsk(l) ==
  /\ Hears(l, "ask")
  /\ Answer(l, <<Offer(l[2])>>)
  /\ UNCHANGED <<trustVars, holdVars, publishVars, connected, heard, stale, wants, budgetVars, events>>

(* PeerAnnounceBudget::Penalise *)
Penalise(l) ==
  /\ blocked' = blocked \cup {l}
  /\ allowance' = [allowance EXCEPT ![l] = 0]
  /\ overage' = [overage EXCEPT ![l] = 0]

Arriving(l) == Head(channel[l])
Solicited(l) == Hears(l, "record") /\ Arriving(l).mod \in wants[l]

ReceiveUnsolicited(l) ==
  /\ Hears(l, "record") /\ ~Solicited(l)
  /\ Penalise(l)
  /\ Close({l})
  /\ UNCHANGED <<trustVars, holdVars, publishVars, refill, events>>

Redeem(l) ==
  /\ wants' = [wants EXCEPT ![l] = @ \ {Arriving(l).mod}]
  /\ Answer(l, <<>>)
  /\ UNCHANGED <<connected, heard, stale>>

(* A record of a blocked peer is dropped, and the connection with it.      *)
ReceiveBlocked(l) ==
  /\ Solicited(l) /\ l \in blocked
  /\ Close({l})
  /\ UNCHANGED <<trustVars, holdVars, publishVars, budgetVars, events>>

(* Refill_: the first call only notes the time. *)
Grants(l) == IF refill[l] = "due" THEN 1..Burst ELSE {0}
Refilled(l, granted) == IF allowance[l] + granted > Burst THEN Burst ELSE allowance[l] + granted

(* Broken: an allowance that is used up is not noticed; the last of it is  *)
(* never spent.                                                            *)
Spends_Always(l, granted) == TRUE
Spends_KeepsOne(l, granted) == Refilled(l, granted) > 1

Spends(l, granted) == Refilled(l, granted) > 0

ReceiveRecord(l) ==
  /\ Solicited(l) /\ l \notin blocked
  /\ refill' = [refill EXCEPT ![l] = "waiting"]
  /\ \E granted \in Grants(l) :
       \/ /\ Spends(l, granted)
          /\ allowance' = [allowance EXCEPT ![l] = Refilled(l, granted) - 1]
          /\ overage' = [overage EXCEPT ![l] = 0]
          /\ Accept(l[2], Arriving(l).mod, Arriving(l).release)
          /\ Redeem(l)
          /\ UNCHANGED blocked
       \/ /\ ~Spends(l, granted) /\ overage[l] + 1 < Threshold
          /\ overage' = [overage EXCEPT ![l] = @ + 1]
          /\ Redeem(l)
          /\ UNCHANGED <<holdVars, allowance, blocked>>
       \/ /\ ~Spends(l, granted) /\ overage[l] + 1 >= Threshold
          /\ Penalise(l)
          /\ Close({l})
          /\ UNCHANGED holdVars
  /\ UNCHANGED <<trustVars, publishVars, events>>

Receive(l) ==
  \/ ReceiveHello(l) \/ ReceiveOffer(l) \/ ReceiveWant(l) \/ ReceiveAsk(l)
  \/ ReceiveUnsolicited(l) \/ ReceiveBlocked(l) \/ ReceiveRecord(l)

-----------------------------------------------------------------------------
(* A plugin's tick, on its own and after RequestRefresh.                   *)

Quiet(l) == Len(channel[l]) + Len(channel[Back(l)]) < MaxQueue

Sends(l, messages) == channel' = [channel EXCEPT ![Back(l)] = @ \o messages]

(* The holdings changed, or were offered REOFFER_INTERVAL ago. *)
TickOffers(l) ==
  /\ l \in heard \ stale /\ Quiet(l)
  /\ Sends(l, <<Offer(l[2])>>)
  /\ UNCHANGED <<trustVars, holdVars, publishVars, connected, heard, stale, wants, budgetVars, events>>

TickRefreshes(l) ==
  /\ l \in heard \cap stale /\ Quiet(l)
  /\ stale' = stale \ {l}
  /\ Sends(l, <<Ask, Offer(l[2])>>)
  /\ UNCHANGED <<trustVars, holdVars, publishVars, connected, heard, wants, budgetVars, events>>

RequestRefresh(n) ==
  /\ stale' = stale \cup {l \in heard : l[2] = n}
  /\ stale' # stale
  /\ UNCHANGED <<trustVars, holdVars, publishVars, connected, heard, channel, wants, budgetVars, events>>

(* Time passes for a budget: a refill interval, or the end of a block,     *)
(* which is never shorter than one.                                        *)
Due(l) == IF refill[l] = "unseeded" THEN "unseeded" ELSE "due"

IntervalPasses(l) ==
  /\ refill[l] = "waiting"
  /\ refill' = [refill EXCEPT ![l] = "due"]
  /\ UNCHANGED <<trustVars, holdVars, publishVars, linkVars, allowance, overage, blocked, events>>

BlockEnds(l) ==
  /\ l \in blocked
  /\ blocked' = blocked \ {l}
  /\ refill' = [refill EXCEPT ![l] = Due(l)]
  /\ UNCHANGED <<trustVars, holdVars, publishVars, linkVars, allowance, overage, events>>

-----------------------------------------------------------------------------
(* Connections and restarts.                                               *)

Connect(l) ==
  /\ l \notin connected
  /\ connected' = connected \cup {l, Back(l)}
  /\ channel' = [channel EXCEPT ![l] = <<Hello>>, ![Back(l)] = <<Hello>>]
  /\ UNCHANGED <<trustVars, holdVars, publishVars, heard, stale, wants, budgetVars, events>>

(* OutstandingWantTracker::Prune, by an offer or a tick. *)
WantExpires(l) ==
  /\ Event
  /\ \E m \in wants[l] : wants' = [wants EXCEPT ![l] = @ \ {m}]
  /\ UNCHANGED <<trustVars, holdVars, publishVars, connected, channel, heard, stale, budgetVars>>

Disconnect(l) ==
  /\ Event /\ l \in connected
  /\ Close({l})
  /\ UNCHANGED <<trustVars, holdVars, publishVars, budgetVars>>

(* The program of a node ends and starts again: what the store holds is     *)
(* accepted once more, and saved in place once more.                        *)
Restart(n) ==
  /\ Event
  /\ retained' = [retained EXCEPT ![n] = Restored(n)]
  /\ \E torn \in SUBSET Mods :
       /\ torn # {} => SavesTear /\ Usable(n)
       /\ store' = [store EXCEPT ![n] = [m \in Mods |-> IF m \in torn THEN None ELSE store[n][m]]]
  /\ IF n = Publisher
     THEN versions' = [m \in Mods |-> 0] /\ sealing' = NotSealing
     ELSE UNCHANGED <<versions, sealing>>
  /\ Close({l \in Links : l[2] = n})
  /\ allowance' = [l \in Links |-> IF l[2] = n THEN Burst ELSE allowance[l]]
  /\ overage' = [l \in Links |-> IF l[2] = n THEN 0 ELSE overage[l]]
  /\ refill' = [l \in Links |-> IF l[2] = n THEN "unseeded" ELSE refill[l]]
  /\ blocked' = {l \in blocked : l[2] # n}
  /\ UNCHANGED <<trustVars, releases>>

-----------------------------------------------------------------------------
Plugin(l) ==
  \/ Receive(l) \/ TickOffers(l) \/ TickRefreshes(l)
  \/ IntervalPasses(l) \/ BlockEnds(l) \/ Connect(l)
  \/ WantExpires(l) \/ Disconnect(l)

GossipNext ==
  \/ \E n \in Nodes : KeyArrives(n) \/ KeyRevoked(n) \/ RequestRefresh(n) \/ Restart(n)
  \/ \E m \in Mods : PublishBegins(m)
  \/ PublishFails \/ PublishEnds
  \/ \E l \in Links : Plugin(l)

(* Messages arrive, plugins tick, time passes, and peers find each other.  *)
(* The tick is libtorrent's and waits for no message: MaxQueue alone makes *)
(* its fairness strong.                                                    *)
GossipFairness ==
  \A l \in Links :
    /\ WF_gossipVars(Receive(l))
    /\ SF_gossipVars(TickOffers(l) \/ TickRefreshes(l))
    /\ WF_gossipVars(IntervalPasses(l))
    /\ WF_gossipVars(BlockEnds(l))
    /\ WF_gossipVars(Connect(l))

GossipSpec     == GossipInit /\ [][GossipNext]_gossipVars
FairGossipSpec == GossipSpec /\ GossipFairness

-----------------------------------------------------------------------------
GossipTypeOK ==
  /\ trusted \subseteq Nodes /\ revoked \subseteq Nodes
  /\ retained \in [Nodes -> [Mods -> Releases]]
  /\ store \in [Nodes -> [Mods -> Releases]]
  /\ versions \in [Mods -> 0..MaxReleases] /\ releases \in 0..MaxReleases
  /\ sealing = NotSealing \/ sealing \in Mods \X (1..MaxReleases)
  /\ connected \subseteq Links /\ heard \subseteq connected /\ stale \subseteq heard
  /\ wants \in [Links -> SUBSET Mods]
  /\ allowance \in [Links -> 0..Burst] /\ overage \in [Links -> 0..Threshold]
  /\ refill \in [Links -> {"unseeded", "waiting", "due"}]
  /\ blocked \subseteq Links
  /\ events \in 0..MaxEvents

OnTheWay(l) == {channel[l][i] : i \in DOMAIN channel[l]}

Travelling(m) ==
  {msg.release : msg \in {r \in UNION {OnTheWay(l) : l \in Links} :
                            r.kind = "record" /\ r.mod = m}}

Circulating(m) ==
  {retained[n][m] : n \in Nodes} \cup {store[n][m] : n \in Nodes} \cup Travelling(m)

(* A version number stands for one content everywhere: a publisher that    *)
(* has restarted, failed or been overtaken never gives a number out twice. *)
AgreeOnVersion == \A m \in Mods : \A r, s \in Circulating(m) : r.version = s.version => r = s

(* No peer, restart or late record takes what a machine has on disk back   *)
(* to an older release.                                                    *)
StoreNeverGoesBack ==
  [][\A n \in Nodes, m \in Mods : store'[n][m].version >= store[n][m].version]_store

(* Every want that is outstanding has its answer on the way, so the        *)
(* tracker never fills up with wants nobody will settle.                   *)
WantsAreInFlight ==
  \A l \in Links : \A m \in wants[l] :
    \/ \E msg \in OnTheWay(Back(l)) : msg.kind = "want" /\ m \in msg.mods
    \/ \E msg \in OnTheWay(l) : msg.kind = "record" /\ msg.mod = m

(* What the publisher holds reaches every machine that trusts it.          *)
ReleasesSpread ==
  \A n \in Nodes, m \in Mods, v \in 1..MaxReleases :
    (Usable(n) /\ retained[Publisher][m].version >= v)
      ~> (~Usable(n) \/ retained[n][m].version >= v \/ retained[Publisher][m].version < v)

(* A peer that only follows the protocol is not blocked for it.            *)
HonestPeersAreNotBlocked == blocked = {}
=============================================================================
