----------------------------- MODULE GossipProofs -----------------------------
(***************************************************************************)
(* One content per version number, and no way back to an older release,    *)
(* for every network, number of mods, limit and bound, as long as saves    *)
(* are whole.                                                              *)
(***************************************************************************)
EXTENDS Gossip, FiniteSetTheorems, TLAPS

Messages ==
  {Hello, Ask}
    \cup [kind : {"offer"}, holdings : SUBSET (Mods \X Nat)]
    \cup [kind : {"want"}, mods : SUBSET Mods]
    \cup [kind : {"record"}, mod : Mods, release : Releases]

LinksOK ==
  /\ channel \in [Links -> Seq(Messages)]
  /\ \A l \in Links : channel[l] # <<>> => l \in connected
  /\ \A l \in connected : Back(l) \in connected

(* The numbers in circulation have been given out.                         *)
NumbersOK ==
  /\ \A m \in Mods : \A r \in Circulating(m) : r.version <= releases
  /\ \A m \in Mods : versions[m] <= releases
  /\ sealing # NotSealing => sealing[1] \in Mods /\ sealing[2] \in 1..releases + 1 /\ releases < MaxReleases

(* What a machine keeps in memory is what it has on disk, as long as it    *)
(* has reason to trust the publisher.                                      *)
HoldOK ==
  /\ Publisher \in trusted
  /\ \A n \in Nodes : Usable(n) => store[n] = retained[n]
  /\ \A n \in Nodes : \A m \in Mods : n \notin trusted => retained[n][m] = None /\ store[n][m] = None

(* While it is trusted, the publisher has the newest of everything.        *)
PublisherLeads ==
  Usable(Publisher) => \A m \in Mods : \A r \in Circulating(m) : r.version <= retained[Publisher][m].version

NoneIsZero == \A m \in Mods : \A r \in Circulating(m) : r.version = 0 => r = None

IType == GossipTypeOK /\ LinksOK
IInv  == IType /\ NumbersOK /\ HoldOK /\ PublisherLeads /\ NoneIsZero /\ AgreeOnVersion

-----------------------------------------------------------------------------
(* Sequences of messages.                                                  *)

(* A queue that is not empty is its head and the rest. *)
LEMMA HeadAndTail ==
  ASSUME NEW S, NEW s \in Seq(S), s # <<>>
  PROVE  /\ Head(s) \in S /\ Tail(s) \in Seq(S)
         /\ Head(s) \in {s[i] : i \in DOMAIN s}
         /\ \A i \in DOMAIN Tail(s) : Tail(s)[i] \in {s[j] : j \in DOMAIN s}
OBVIOUS

(* What a concatenation holds is held by one of its parts. *)
LEMMA Concatenation ==
  ASSUME NEW S, NEW s \in Seq(S), NEW t \in Seq(S)
  PROVE  /\ s \o t \in Seq(S)
         /\ \A i \in DOMAIN (s \o t) : (s \o t)[i] \in {s[j] : j \in DOMAIN s} \cup {t[j] : j \in DOMAIN t}
<1>1. s \o t \in Seq(S) /\ Len(s \o t) = Len(s) + Len(t)
  OBVIOUS
<1>2. ASSUME NEW i \in DOMAIN (s \o t)
      PROVE  (s \o t)[i] \in {s[j] : j \in DOMAIN s} \cup {t[j] : j \in DOMAIN t}
  <2>1. CASE i <= Len(s)
    BY <1>1, <2>1
  <2>2. CASE i > Len(s)
    <3>1. (s \o t)[i] = t[i - Len(s)] /\ i - Len(s) \in DOMAIN t
      BY <1>1, <2>2
    <3> QED
      BY <3>1
  <2> QED
    BY <1>1, <2>1, <2>2
<1> QED
  BY <1>1, <1>2

(* The link back from a link is another one, and leads back to it. *)
LEMMA BackLinks ==
  ASSUME NEW l \in Links
  PROVE  Back(l) \in Links /\ Back(Back(l)) = l /\ Back(l) # l /\ l[1] \in Nodes /\ l[2] \in Nodes
BY GossipBounds DEF Back

(* What an answer leaves on its way.                                       *)
LEMMA Answered ==
  ASSUME LinksOK, NEW l \in Links, channel[l] # <<>>, NEW t \in Seq(Messages), Answer(l, t)
  PROVE  /\ channel' \in [Links -> Seq(Messages)]
         /\ \A k \in Links : channel'[k] # <<>> => channel[k] # <<>> \/ k = Back(l)
         /\ \A k \in Links : OnTheWay(k)' \subseteq OnTheWay(k) \cup {t[i] : i \in DOMAIN t}
<1> DEFINE b == Back(l)
<1>1. b \in Links /\ b # l
  BY BackLinks
<1>2. channel \in [Links -> Seq(Messages)]
  BY DEF LinksOK
<1>3. channel[l] \in Seq(Messages) /\ channel[b] \in Seq(Messages)
  BY <1>1, <1>2
<1>4. channel' = [k \in Links |-> IF k = b THEN channel[b] \o t ELSE IF k = l THEN Tail(channel[l]) ELSE channel[k]]
  BY <1>1, <1>2 DEF Answer
<1>5. Tail(channel[l]) \in Seq(Messages) /\ channel[b] \o t \in Seq(Messages)
  BY <1>3, HeadAndTail, Concatenation
<1> HIDE DEF b
<1>6. channel' \in [Links -> Seq(Messages)]
  BY <1>2, <1>4, <1>5
<1>7. ASSUME NEW k \in Links, channel'[k] # <<>>  PROVE channel[k] # <<>> \/ k = Back(l)
  BY <1>4, <1>7 DEF b
<1>8. ASSUME NEW k \in Links, NEW i \in DOMAIN channel'[k]
      PROVE  channel'[k][i] \in OnTheWay(k) \cup {t[j] : j \in DOMAIN t}
  <2>1. CASE k = b
    <3>1. channel'[k] = channel[k] \o t
      BY <1>4, <2>1
    <3>2. channel[k] \in Seq(Messages)
      BY <1>3, <2>1
    <3> QED
      BY <3>1, <3>2, <1>8, Concatenation DEF OnTheWay
  <2>2. CASE k = l /\ k # b
    <3>1. channel'[k] = Tail(channel[k])
      BY <1>4, <2>2
    <3>2. channel[k] \in Seq(Messages) /\ channel[k] # <<>>
      BY <1>3, <2>2
    <3> QED
      BY <3>1, <3>2, <1>8, HeadAndTail DEF OnTheWay
  <2>3. CASE k # l /\ k # b
    <3>1. channel'[k] = channel[k]
      BY <1>4, <2>3
    <3> QED
      BY <3>1, <1>8 DEF OnTheWay
  <2> QED
    BY <2>1, <2>2, <2>3
<1>9. \A k \in Links : OnTheWay(k)' \subseteq OnTheWay(k) \cup {t[j] : j \in DOMAIN t}
  BY <1>8 DEF OnTheWay
<1> QED
  BY <1>6, <1>7, <1>9

(* What a tick adds to what is on its way.                                 *)
LEMMA Sent ==
  ASSUME LinksOK, NEW l \in Links, NEW t \in Seq(Messages), Sends(l, t)
  PROVE  /\ channel' \in [Links -> Seq(Messages)]
         /\ \A k \in Links : channel'[k] # <<>> => channel[k] # <<>> \/ k = Back(l)
         /\ \A k \in Links : OnTheWay(k)' \subseteq OnTheWay(k) \cup {t[i] : i \in DOMAIN t}
<1> DEFINE b == Back(l)
<1>1. b \in Links
  BY BackLinks
<1>2. channel \in [Links -> Seq(Messages)]
  BY DEF LinksOK
<1>3. channel[b] \in Seq(Messages)
  BY <1>1, <1>2
<1>4. channel' = [k \in Links |-> IF k = b THEN channel[b] \o t ELSE channel[k]]
  BY <1>1, <1>2 DEF Sends
<1>5. channel[b] \o t \in Seq(Messages)
  BY <1>3, Concatenation
<1> HIDE DEF b
<1>6. channel' \in [Links -> Seq(Messages)]
  BY <1>2, <1>4, <1>5
<1>7. ASSUME NEW k \in Links, channel'[k] # <<>>  PROVE channel[k] # <<>> \/ k = Back(l)
  BY <1>4, <1>7 DEF b
<1>8. ASSUME NEW k \in Links, NEW i \in DOMAIN channel'[k]
      PROVE  channel'[k][i] \in OnTheWay(k) \cup {t[j] : j \in DOMAIN t}
  <2>1. CASE k = b
    <3>1. channel'[k] = channel[k] \o t
      BY <1>4, <2>1
    <3>2. channel[k] \in Seq(Messages)
      BY <1>3, <2>1
    <3> QED
      BY <3>1, <3>2, <1>8, Concatenation DEF OnTheWay
  <2>2. CASE k # b
    <3>1. channel'[k] = channel[k]
      BY <1>4, <2>2
    <3> QED
      BY <3>1, <1>8 DEF OnTheWay
  <2> QED
    BY <2>1, <2>2
<1>9. \A k \in Links : OnTheWay(k)' \subseteq OnTheWay(k) \cup {t[j] : j \in DOMAIN t}
  BY <1>8 DEF OnTheWay
<1> QED
  BY <1>6, <1>7, <1>9

(* What closing connections leaves.                                        *)
LEMMA Closed ==
  ASSUME LinksOK, heard \subseteq connected, stale \subseteq heard, connected \subseteq Links,
         wants \in [Links -> SUBSET Mods], NEW ls \in SUBSET Links, Close(ls)
  PROVE  /\ LinksOK'
         /\ connected' \subseteq Links /\ heard' \subseteq connected' /\ stale' \subseteq heard'
         /\ wants' \in [Links -> SUBSET Mods]
         /\ \A k \in Links : OnTheWay(k)' \subseteq OnTheWay(k)
<1> DEFINE gone == ls \cup {Back(l) : l \in ls}
<1>1. /\ connected' = connected \ gone /\ heard' = heard \ gone /\ stale' = stale \ gone
      /\ channel' = [l \in Links |-> IF l \in gone THEN <<>> ELSE channel[l]]
      /\ wants' = [l \in Links |-> IF l \in gone THEN {} ELSE wants[l]]
  BY DEF Close
<1>2. \A l \in Links : l \in gone => Back(l) \in gone
  BY BackLinks
<1> HIDE DEF gone
<1>3. channel' \in [Links -> Seq(Messages)]
  <2>1. <<>> \in Seq(Messages)
    OBVIOUS
  <2> QED
    BY <1>1, <2>1 DEF LinksOK
<1>4. \A l \in Links : channel'[l] # <<>> => l \in connected'
  BY <1>1 DEF LinksOK
<1>5. \A l \in connected' : Back(l) \in connected'
  <2> TAKE l \in connected'
  <2>1. l \in Links /\ l \in connected /\ l \notin gone
    BY <1>1
  <2>2. Back(l) \in connected /\ Back(l) \in Links
    BY <2>1, BackLinks DEF LinksOK
  <2>3. Back(l) \notin gone
    BY <2>1, <2>2, <1>2, BackLinks
  <2> QED
    BY <2>2, <2>3, <1>1
<1>6. ASSUME NEW k \in Links  PROVE OnTheWay(k)' \subseteq OnTheWay(k)
  <2>1. channel'[k] = channel[k] \/ channel'[k] = <<>>
    BY <1>1
  <2> QED
    BY <2>1 DEF OnTheWay
<1>7. wants' \in [Links -> SUBSET Mods]
  BY <1>1
<1> QED
  BY <1>1, <1>3, <1>4, <1>5, <1>6, <1>7 DEF LinksOK

(* The records among these messages carry what a node holds.               *)
Carries(t) ==
  \A i \in DOMAIN t : t[i].kind = "record" => \E n \in Nodes : t[i].release = retained[n][t[i].mod]

(* The messages have their form.                                           *)
LEMMA Forms ==
  ASSUME IType, NEW n \in Nodes
  PROVE  /\ <<>> \in Seq(Messages) /\ Carries(<<>>)
         /\ <<Offer(n)>> \in Seq(Messages) /\ Carries(<<Offer(n)>>)
         /\ <<Ask, Offer(n)>> \in Seq(Messages) /\ Carries(<<Ask, Offer(n)>>)
         /\ \A mods \in SUBSET Mods : <<Want(mods)>> \in Seq(Messages) /\ Carries(<<Want(mods)>>)
<1>1. retained \in [Nodes -> [Mods -> Releases]]
  BY DEF IType, GossipTypeOK
<1>2. \A m \in Mods : retained[n][m].version \in Nat
  BY <1>1, GossipBounds DEF Releases
<1>3. Smallest(Known(n), MaxEntries) \subseteq Mods
  BY DEF Smallest, Known
<1>4. {<<m, retained[n][m].version>> : m \in Smallest(Known(n), MaxEntries)} \in SUBSET (Mods \X Nat)
  BY <1>2, <1>3
<1>5. Offer(n) \in Messages /\ Ask \in Messages
  BY <1>4 DEF Offer, Ask, Messages
<1>6. \A mods \in SUBSET Mods : Want(mods) \in Messages
  BY DEF Want, Messages
<1>7. <<>> \in Seq(Messages) /\ Carries(<<>>)
  BY DEF Carries
<1>8. <<Offer(n)>> \in Seq(Messages) /\ Carries(<<Offer(n)>>)
  BY <1>5 DEF Carries, Offer
<1>9. <<Ask, Offer(n)>> \in Seq(Messages) /\ Carries(<<Ask, Offer(n)>>)
  BY <1>5 DEF Carries, Ask, Offer
<1>10. ASSUME NEW mods \in SUBSET Mods  PROVE <<Want(mods)>> \in Seq(Messages) /\ Carries(<<Want(mods)>>)
  <2>1. <<Want(mods)>> \in Seq(Messages)
    BY <1>6
  <2>2. Want(mods).kind = "want"
    BY DEF Want
  <2> QED
    BY <2>1, <2>2 DEF Carries
<1> QED
  BY <1>7, <1>8, <1>9, <1>10

(* A record that is heard is one on the way, of a mod and a release. *)
LEMMA RecordArrives ==
  ASSUME LinksOK, NEW l \in Links, Hears(l, "record")
  PROVE  /\ Arriving(l).mod \in Mods /\ Arriving(l).release \in Releases
         /\ Arriving(l).kind = "record" /\ Arriving(l) \in OnTheWay(l)
<1>1. channel[l] \in Seq(Messages) /\ channel[l] # <<>> /\ Head(channel[l]).kind = "record"
  BY DEF LinksOK, Hears
<1>2. Head(channel[l]) \in Messages /\ Head(channel[l]) \in {channel[l][i] : i \in DOMAIN channel[l]}
  BY <1>1, HeadAndTail
<1>3. Head(channel[l]) \in [kind : {"record"}, mod : Mods, release : Releases]
  BY <1>1, <1>2 DEF Messages, Hello, Ask
<1> QED
  BY <1>1, <1>2, <1>3 DEF Arriving, OnTheWay

(* The records that answer a want.                                         *)
LEMMA Served ==
  ASSUME IType, NEW n \in Nodes, NEW mods,
         NEW served \in Ascending(mods \cap Known(n)),
         NEW t, t = [i \in DOMAIN served |-> Record(served[i], retained[n][served[i]])]
  PROVE  t \in Seq(Messages) /\ Carries(t)
<1> DEFINE S == mods \cap Known(n)
<1>1. S \subseteq Mods
  BY DEF Known
<1>2. IsFiniteSet(S)
  BY <1>1, GossipBounds, FS_Subset
<1>3. Cardinality(S) \in Nat
  BY <1>2, FS_CardinalityType
<1>4. served \in [1..Cardinality(S) -> S]
  BY DEF Ascending
<1>5. \A i \in 1..Cardinality(S) : served[i] \in Mods
  BY <1>1, <1>4
<1> HIDE DEF S
<1>6. DOMAIN t = 1..Cardinality(S)
  BY <1>4
<1>7. \A i \in 1..Cardinality(S) : t[i] = Record(served[i], retained[n][served[i]])
  BY <1>4
<1>8. \A i \in 1..Cardinality(S) : t[i] \in Messages
  <2>1. retained \in [Nodes -> [Mods -> Releases]]
    BY DEF IType, GossipTypeOK
  <2>2. \A m \in Mods : retained[n][m] \in Releases
    BY <2>1
  <2>3. \A m \in Mods : Record(m, retained[n][m]) \in Messages
    BY <2>2 DEF Record, Messages
  <2> QED
    BY <1>5, <1>7, <2>3
<1>9. t \in [1..Cardinality(S) -> Messages]
  BY <1>4, <1>6, <1>7, <1>8
<1>10. t \in Seq(Messages)
  BY <1>3, <1>9
<1> QED
  BY <1>5, <1>6, <1>7, <1>10 DEF Record, Carries

-----------------------------------------------------------------------------
(* The links: their types, and where the records on their way come from.   *)

LinkType ==
  /\ LinksOK
  /\ connected \subseteq Links /\ heard \subseteq connected /\ stale \subseteq heard
  /\ wants \in [Links -> SUBSET Mods]

(* A message on its way was there before, or carries what a node holds.    *)
Comes(msg, k) ==
  \/ msg \in OnTheWay(k)
  \/ msg.kind = "record" => \E n \in Nodes : msg.release = retained[n][msg.mod]

(* A message answered leaves messages on every link. *)
LEMMA LinksAnswered ==
  ASSUME LinkType, NEW l \in Links, channel[l] # <<>>, NEW t \in Seq(Messages), Answer(l, t),
         UNCHANGED connected
  PROVE  LinksOK'
<1>1. LinksOK
  BY DEF LinkType
<1>2. /\ channel' \in [Links -> Seq(Messages)]
      /\ \A k \in Links : channel'[k] # <<>> => channel[k] # <<>> \/ k = Back(l)
  BY <1>1, Answered
<1>3. l \in connected /\ Back(l) \in connected
  BY <1>1 DEF LinksOK
<1> QED
  BY <1>1, <1>2, <1>3 DEF LinksOK

(* A message sent leaves messages on every link. *)
LEMMA LinksSent ==
  ASSUME LinkType, NEW l \in heard, NEW t \in Seq(Messages), Sends(l, t), UNCHANGED connected
  PROVE  LinksOK'
<1>1. LinksOK /\ l \in connected /\ l \in Links
  BY DEF LinkType
<1>2. /\ channel' \in [Links -> Seq(Messages)]
      /\ \A k \in Links : channel'[k] # <<>> => channel[k] # <<>> \/ k = Back(l)
  BY <1>1, Sent
<1>3. Back(l) \in connected
  BY <1>1 DEF LinksOK
<1> QED
  BY <1>1, <1>2, <1>3 DEF LinksOK

(* After an answer whose records are of held releases, every record on the way was there before or
   is of a held release. *)
LEMMA Answering ==
  ASSUME LinkType, NEW l \in Links, channel[l] # <<>>, NEW t \in Seq(Messages), Answer(l, t),
         connected' = connected, stale' = stale,
         heard' \subseteq connected, heard \subseteq heard', wants' \in [Links -> SUBSET Mods],
         Carries(t)
  PROVE  LinkType' /\ \A k \in Links : \A msg \in OnTheWay(k)' : Comes(msg, k)
<1>1. LinksOK /\ LinksOK'
  BY LinksAnswered DEF LinkType
<1>2. LinkType'
  BY <1>1 DEF LinkType
<1>3. \A k \in Links : OnTheWay(k)' \subseteq OnTheWay(k) \cup {t[i] : i \in DOMAIN t}
  BY <1>1, Answered
<1>4. ASSUME NEW k \in Links, NEW msg \in OnTheWay(k)'  PROVE Comes(msg, k)
  <2>1. msg \in OnTheWay(k) \/ \E i \in DOMAIN t : msg = t[i]
    BY <1>3, <1>4
  <2> QED
    BY <2>1 DEF Comes, Carries
<1> QED
  BY <1>2, <1>4

(* The receipt of any message keeps the types of the links, and adds only records of held
   releases. *)
LEMMA Receiving ==
  ASSUME IType, NEW l \in Links, Receive(l)
  PROVE  LinkType' /\ \A k \in Links : \A msg \in OnTheWay(k)' : Comes(msg, k)
<1> DEFINE Goal == LinkType' /\ \A k \in Links : \A msg \in OnTheWay(k)' : Comes(msg, k)
<1>1. LinkType /\ LinksOK /\ l[2] \in Nodes /\ Back(l) \in Links
  BY BackLinks DEF IType, GossipTypeOK, LinkType
<1>3. ASSUME Close({l})  PROVE Goal
  <2>1. /\ LinksOK'
        /\ connected' \subseteq Links /\ heard' \subseteq connected' /\ stale' \subseteq heard'
        /\ wants' \in [Links -> SUBSET Mods]
        /\ \A k \in Links : OnTheWay(k)' \subseteq OnTheWay(k)
    BY <1>1, <1>3, Closed DEF LinkType
  <2> QED
    BY <2>1 DEF LinkType, Comes
<1>4. ASSUME Redeem(l), channel[l] # <<>>  PROVE Goal
  <2>1. Answer(l, <<>>) /\ connected' = connected /\ heard' = heard /\ stale' = stale
    BY <1>4 DEF Redeem
  <2>2. wants' \in [Links -> SUBSET Mods]
    BY <1>1, <1>4 DEF Redeem, LinkType
  <2>3. heard' \subseteq connected /\ heard \subseteq heard'
    BY <1>1, <2>1 DEF LinkType
  <2> QED
    BY Answering, Forms, <1>1, <1>4, <2>1, <2>2, <2>3
<1>5. CASE ReceiveHello(l)
  <2>1. channel[l] # <<>> /\ Answer(l, <<Offer(l[2])>>) /\ connected' = connected /\ stale' = stale /\ wants' = wants
    BY <1>5 DEF ReceiveHello, Hears
  <2>2. <<Offer(l[2])>> \in Seq(Messages) /\ Carries(<<Offer(l[2])>>)
    BY <1>1, Forms
  <2>3. heard' \subseteq connected /\ heard \subseteq heard'
    BY <1>1, <2>1, <1>5 DEF ReceiveHello, LinkType, LinksOK
  <2>4. wants' \in [Links -> SUBSET Mods]
    BY <1>1, <2>1 DEF LinkType
  <2> QED
    BY Answering, <1>1, <2>1, <2>2, <2>3, <2>4
<1>6. CASE ReceiveOffer(l)
  <2>1. PICK tracked : /\ wants' = [wants EXCEPT ![l] = @ \cup tracked]
                       /\ Answer(l, IF tracked = {} THEN <<>> ELSE <<Want(tracked)>>)
                       /\ tracked \in SUBSET Mods
    <3> DEFINE missing == {e[1] : e \in {h \in Head(channel[l]).holdings : WouldAccept(l[2], h[1], h[2])}}
               room == MaxWants - Cardinality(wants[l])
               tracked == (missing \cap wants[l]) \cup Smallest(missing \ wants[l], room)
    <3>1. channel[l] \in Seq(Messages) /\ channel[l] # <<>> /\ Head(channel[l]).kind = "offer"
      BY <1>1, <1>6 DEF ReceiveOffer, Hears, LinksOK
    <3>2. Head(channel[l]) \in Messages
      BY <3>1, HeadAndTail
    <3>3. Head(channel[l]).holdings \in SUBSET (Mods \X Nat)
      BY <3>1, <3>2 DEF Messages, Hello, Ask
    <3>4. missing \subseteq Mods
      BY <3>3
    <3>5. tracked \subseteq Mods
      BY <3>4 DEF Smallest
    <3> QED
      BY <3>5, <1>6 DEF ReceiveOffer
  <2>2. channel[l] # <<>> /\ connected' = connected /\ heard' = heard /\ stale' = stale
    BY <1>6 DEF ReceiveOffer, Hears
  <2>3. wants' \in [Links -> SUBSET Mods]
    BY <1>1, <2>1 DEF LinkType
  <2>4. /\ <<>> \in Seq(Messages) /\ Carries(<<>>)
        /\ <<Want(tracked)>> \in Seq(Messages) /\ Carries(<<Want(tracked)>>)
    BY <1>1, <2>1, Forms
  <2>5. heard' \subseteq connected /\ heard \subseteq heard'
    BY <1>1, <2>2 DEF LinkType
  <2>6. CASE tracked = {}
    BY Answering, <1>1, <2>1, <2>2, <2>3, <2>4, <2>5, <2>6
  <2>7. CASE tracked # {}
    BY Answering, <1>1, <2>1, <2>2, <2>3, <2>4, <2>5, <2>7
  <2> QED
    BY <2>6, <2>7
<1>7. CASE ReceiveWant(l)
  <2> DEFINE mods == Head(channel[l]).mods
  <2>1. PICK served \in Ascending(mods \cap Known(l[2])) :
          Answer(l, [i \in DOMAIN served |-> Record(served[i], retained[l[2]][served[i]])])
    BY <1>7 DEF ReceiveWant
  <2> DEFINE t == [i \in DOMAIN served |-> Record(served[i], retained[l[2]][served[i]])]
  <2> HIDE DEF mods
  <2>2. t \in Seq(Messages) /\ Carries(t)
    BY <1>1, Served
  <2>3. channel[l] # <<>> /\ connected' = connected /\ heard' = heard /\ stale' = stale /\ wants' = wants
    BY <1>7 DEF ReceiveWant, Hears
  <2>4. heard' \subseteq connected /\ heard \subseteq heard' /\ wants' \in [Links -> SUBSET Mods]
    BY <1>1, <2>3 DEF LinkType
  <2>5. Answer(l, t)
    BY <2>1
  <2> HIDE DEF t
  <2> QED
    BY Answering, <1>1, <2>2, <2>3, <2>4, <2>5
<1>8. CASE ReceiveAsk(l)
  <2>1. channel[l] # <<>> /\ Answer(l, <<Offer(l[2])>>) /\ connected' = connected /\ heard' = heard /\ stale' = stale /\ wants' = wants
    BY <1>8 DEF ReceiveAsk, Hears
  <2>2. <<Offer(l[2])>> \in Seq(Messages) /\ Carries(<<Offer(l[2])>>)
    BY <1>1, Forms
  <2>3. heard' \subseteq connected /\ heard \subseteq heard' /\ wants' \in [Links -> SUBSET Mods]
    BY <1>1, <2>1 DEF LinkType
  <2> QED
    BY Answering, <1>1, <2>1, <2>2, <2>3
<1>9. CASE ReceiveUnsolicited(l) \/ ReceiveBlocked(l)
  BY <1>3, <1>9 DEF ReceiveUnsolicited, ReceiveBlocked
<1>10. CASE ReceiveRecord(l)
  <2>1. channel[l] # <<>> /\ (Redeem(l) \/ Close({l}))
    BY <1>10 DEF ReceiveRecord, Solicited, Hears
  <2> QED
    BY <1>3, <1>4, <2>1
<1> QED
  BY <1>5, <1>6, <1>7, <1>8, <1>9, <1>10 DEF Receive

(* Every step keeps the types of the links, and adds only records of held releases. *)
LEMMA LinkStep ==
  ASSUME IType, GossipNext
  PROVE  LinkType' /\ \A k \in Links : \A msg \in OnTheWay(k)' : Comes(msg, k)
<1> DEFINE Goal == LinkType' /\ \A k \in Links : \A msg \in OnTheWay(k)' : Comes(msg, k)
<1>1. LinkType /\ LinksOK
  BY DEF IType, GossipTypeOK, LinkType
<1>2. ASSUME UNCHANGED <<connected, channel, heard, wants>>, stale' \subseteq heard  PROVE Goal
  <2>1. LinkType'
    BY <1>1, <1>2 DEF LinkType, LinksOK
  <2>2. \A k \in Links : OnTheWay(k)' = OnTheWay(k)
    BY <1>2 DEF OnTheWay
  <2> QED
    BY <2>1, <2>2 DEF Comes
<1>3. ASSUME UNCHANGED linkVars  PROVE Goal
  BY <1>1, <1>2, <1>3 DEF linkVars, LinkType
<1>4. ASSUME NEW ls \in SUBSET Links, Close(ls)  PROVE Goal
  <2>1. /\ LinksOK'
        /\ connected' \subseteq Links /\ heard' \subseteq connected' /\ stale' \subseteq heard'
        /\ wants' \in [Links -> SUBSET Mods]
        /\ \A k \in Links : OnTheWay(k)' \subseteq OnTheWay(k)
    BY <1>1, <1>4, Closed DEF LinkType
  <2> QED
    BY <2>1 DEF LinkType, Comes
<1>5. CASE \E n \in Nodes : KeyArrives(n) \/ KeyRevoked(n) \/ RequestRefresh(n) \/ Restart(n)
  <2> PICK n \in Nodes : KeyArrives(n) \/ KeyRevoked(n) \/ RequestRefresh(n) \/ Restart(n)
    BY <1>5
  <2>1. CASE KeyArrives(n) \/ KeyRevoked(n)
    BY <1>3, <2>1 DEF KeyArrives, KeyRevoked
  <2>2. CASE RequestRefresh(n)
    BY <1>1, <1>2, <2>2 DEF RequestRefresh, LinkType
  <2>3. CASE Restart(n)
    BY <1>4, <2>3 DEF Restart
  <2> QED
    BY <2>1, <2>2, <2>3
<1>6. CASE (\E m \in Mods : PublishBegins(m)) \/ PublishFails \/ PublishEnds
  BY <1>3, <1>6 DEF PublishBegins, PublishFails, PublishEnds
<1>7. CASE \E l \in Links : Plugin(l)
  <2> PICK l \in Links : Plugin(l)
    BY <1>7
  <2>1. l[2] \in Nodes /\ Back(l) \in Links /\ Back(Back(l)) = l
    BY BackLinks
  <2>2. CASE Receive(l)
    BY <2>2, Receiving
  <2>3. ASSUME NEW t \in Seq(Messages), Carries(t), l \in heard, Sends(l, t),
               connected' = connected, heard' = heard, stale' \subseteq heard, wants' = wants
        PROVE  Goal
    <3>1. LinksOK'
      BY <1>1, <2>3, LinksSent
    <3>2. LinkType'
      BY <1>1, <2>3, <3>1 DEF LinkType
    <3>3. \A k \in Links : OnTheWay(k)' \subseteq OnTheWay(k) \cup {t[i] : i \in DOMAIN t}
      BY <1>1, <2>3, Sent
    <3>4. ASSUME NEW k \in Links, NEW msg \in OnTheWay(k)'  PROVE Comes(msg, k)
      <4>1. msg \in OnTheWay(k) \/ \E i \in DOMAIN t : msg = t[i]
        BY <3>3, <3>4
      <4> QED
        BY <2>3, <4>1 DEF Comes, Carries
    <3> QED
      BY <3>2, <3>4
  <2>4. CASE TickOffers(l)
    <3>1. <<Offer(l[2])>> \in Seq(Messages) /\ Carries(<<Offer(l[2])>>)
      BY <2>1, Forms
    <3>2. /\ l \in heard /\ Sends(l, <<Offer(l[2])>>)
          /\ connected' = connected /\ heard' = heard /\ stale' \subseteq heard /\ wants' = wants
      BY <1>1, <2>4 DEF TickOffers, LinkType
    <3> QED
      BY <2>3, <3>1, <3>2
  <2>5. CASE TickRefreshes(l)
    <3>1. <<Ask, Offer(l[2])>> \in Seq(Messages) /\ Carries(<<Ask, Offer(l[2])>>)
      BY <2>1, Forms
    <3>2. /\ l \in heard /\ Sends(l, <<Ask, Offer(l[2])>>)
          /\ connected' = connected /\ heard' = heard /\ stale' \subseteq heard /\ wants' = wants
      BY <1>1, <2>5 DEF TickRefreshes, LinkType
    <3> QED
      BY <2>3, <3>1, <3>2
  <2>6. CASE IntervalPasses(l) \/ BlockEnds(l)
    BY <1>3, <2>6 DEF IntervalPasses, BlockEnds
  <2>7. CASE Connect(l)
    <3>1. /\ connected' = connected \cup {l, Back(l)} /\ heard' = heard /\ stale' = stale /\ wants' = wants
          /\ channel' = [channel EXCEPT ![l] = <<Hello>>, ![Back(l)] = <<Hello>>]
      BY <2>7 DEF Connect
    <3>2. channel' = [k \in Links |-> IF k \in {l, Back(l)} THEN <<Hello>> ELSE channel[k]]
      BY <1>1, <2>1, <3>1 DEF LinksOK
    <3>3. <<Hello>> \in Seq(Messages) /\ Hello.kind = "hello"
      BY DEF Messages, Hello
    <3>4. channel' \in [Links -> Seq(Messages)]
      BY <1>1, <3>2, <3>3 DEF LinksOK
    <3>5. \A k \in Links : channel'[k] # <<>> => k \in connected'
      BY <1>1, <3>1, <3>2 DEF LinksOK
    <3>6. \A k \in connected' : Back(k) \in connected'
      BY <1>1, <2>1, <3>1 DEF LinksOK
    <3>7. LinkType'
      BY <1>1, <2>1, <3>1, <3>4, <3>5, <3>6 DEF LinkType, LinksOK
    <3>8. ASSUME NEW k \in Links, NEW msg \in OnTheWay(k)'  PROVE Comes(msg, k)
      <4>1. channel'[k] = channel[k] \/ channel'[k] = <<Hello>>
        BY <3>2
      <4>2. CASE channel'[k] = channel[k]
        BY <3>8, <4>2 DEF OnTheWay, Comes
      <4>3. CASE channel'[k] = <<Hello>>
        <5>1. msg = Hello
          BY <3>8, <4>3 DEF OnTheWay
        <5> QED
          BY <3>3, <5>1 DEF Comes
      <4> QED
        BY <4>1, <4>2, <4>3
    <3> QED
      BY <3>7, <3>8
  <2>8. CASE WantExpires(l)
    <3>1. UNCHANGED <<connected, channel, heard, stale>>
      BY <2>8 DEF WantExpires
    <3>2. wants' \in [Links -> SUBSET Mods]
      BY <1>1, <2>8 DEF WantExpires, LinkType
    <3>3. LinkType'
      BY <1>1, <3>1, <3>2 DEF LinkType, LinksOK
    <3>4. \A k \in Links : OnTheWay(k)' = OnTheWay(k)
      BY <3>1 DEF OnTheWay
    <3> QED
      BY <3>3, <3>4 DEF Comes
  <2>9. CASE Disconnect(l)
    BY <1>4, <2>9 DEF Disconnect
  <2> QED
    BY <2>2, <2>4, <2>5, <2>6, <2>7, <2>8, <2>9 DEF Plugin
<1> QED
  BY <1>5, <1>6, <1>7 DEF GossipNext

-----------------------------------------------------------------------------
(* What a step does to what is trusted, held and published.                *)

Quietly == UNCHANGED <<trustVars, holdVars, publishVars>>

Arrives ==
  /\ \E n \in Nodes, m \in Mods : \E r \in Travelling(m) : r \in Releases /\ Accept(n, m, r)
  /\ UNCHANGED <<trustVars, publishVars>>

(* A step is quiet for what is held, or a record arrives, or it is one of a key, a restart or a
   publication. *)
LEMMA Steps ==
  ASSUME IType, GossipNext
  PROVE  \/ Quietly \/ Arrives
         \/ \E n \in Nodes : KeyArrives(n) \/ KeyRevoked(n) \/ Restart(n)
         \/ \E m \in Mods : PublishBegins(m)
         \/ PublishFails \/ PublishEnds
<1>1. CASE \E n \in Nodes : RequestRefresh(n)
  BY <1>1 DEF RequestRefresh, Quietly
<1>2. ASSUME NEW l \in Links, Plugin(l)  PROVE Quietly \/ Arrives
  <2>1. CASE ReceiveRecord(l)
    <3>1. Arriving(l).mod \in Mods /\ Arriving(l).release \in Releases /\ Arriving(l) \in OnTheWay(l)
      <4>1. LinksOK /\ Hears(l, "record")
        BY <2>1 DEF IType, ReceiveRecord, Solicited
      <4> QED
        BY <4>1, RecordArrives
    <3>2. Arriving(l).kind = "record"
      BY <2>1 DEF ReceiveRecord, Solicited, Hears, Arriving
    <3>3. Arriving(l).release \in Travelling(Arriving(l).mod)
      BY <3>1, <3>2 DEF Travelling
    <3>4. UNCHANGED <<trustVars, publishVars>>
      BY <2>1 DEF ReceiveRecord
    <3>5. UNCHANGED holdVars \/ Accept(l[2], Arriving(l).mod, Arriving(l).release)
      BY <2>1 DEF ReceiveRecord
    <3>6. l[2] \in Nodes
      BY BackLinks
    <3> QED
      BY <3>1, <3>3, <3>4, <3>5, <3>6 DEF Quietly, Arrives
  <2>2. CASE Receive(l) /\ ~ReceiveRecord(l)
    BY <2>2 DEF Receive, ReceiveHello, ReceiveOffer, ReceiveWant, ReceiveAsk, ReceiveUnsolicited,
                ReceiveBlocked, Quietly
  <2>3. CASE ~Receive(l)
    BY <1>2, <2>3 DEF Plugin, TickOffers, TickRefreshes, IntervalPasses, BlockEnds, Connect,
       WantExpires,
                Disconnect, Quietly
  <2> QED
    BY <2>1, <2>2, <2>3
<1> QED
  BY <1>1, <1>2 DEF GossipNext

(* The absence of an announce is the release of version zero. *)
LEMMA NoneIsARelease == None \in Releases /\ None.version = 0
BY GossipBounds DEF None, Releases

(* What a receiver accepts keeps the types of what is held and stored. *)
LEMMA Accepted ==
  ASSUME IType, NEW n \in Nodes, NEW m \in Mods, NEW release \in Releases, Accept(n, m, release)
  PROVE  retained' \in [Nodes -> [Mods -> Releases]] /\ store' \in [Nodes -> [Mods -> Releases]]
<1>1. retained \in [Nodes -> [Mods -> Releases]] /\ store \in [Nodes -> [Mods -> Releases]]
  BY DEF IType, GossipTypeOK
<1>2. CASE ~Acceptable(n, m, release)
  BY <1>1, <1>2 DEF Accept, holdVars
<1>3. CASE Acceptable(n, m, release)
  <2>1. retained' = [retained EXCEPT ![n][m] = release]
    BY <1>3 DEF Accept
  <2>2. PICK saved \in Saved(store[n][m], release) : store' = [store EXCEPT ![n][m] = saved]
    BY <1>3 DEF Accept
  <2>3. store[n][m] \in Releases
    BY <1>1
  <2>4. saved \in Releases
    BY <2>3, NoneIsARelease DEF Saved
  <2>5. retained' \in [Nodes -> [Mods -> Releases]]
    BY <1>1, <2>1
  <2>6. store' \in [Nodes -> [Mods -> Releases]]
    BY <1>1, <2>2, <2>4
  <2> QED
    BY <2>5, <2>6
<1> QED
  BY <1>2, <1>3

(* The release that PublishEnds announces. *)
Announced == [version |-> sealing[2], build |-> releases + 1]

(* What a publication announces is a release, numbered above what the count of publications was. *)
LEMMA AnnouncedType ==
  ASSUME GossipTypeOK, NumbersOK, sealing # NotSealing
  PROVE  Announced \in Releases /\ sealing[1] \in Mods /\ Announced.version \in 1..releases + 1
         /\ Announced.version \in 1..MaxReleases /\ releases + 1 \in 0..MaxReleases
<1>1. sealing[1] \in Mods /\ sealing[2] \in 1..releases + 1 /\ releases < MaxReleases
  BY DEF NumbersOK
<1>2. releases \in Nat /\ MaxReleases \in Nat
  BY GossipBounds DEF GossipTypeOK
<1> QED
  BY <1>1, <1>2 DEF Announced, Releases

(* Every step keeps the types of what is held and stored. *)
LEMMA HoldTypeStep ==
  ASSUME IType, NumbersOK, GossipNext
  PROVE  retained' \in [Nodes -> [Mods -> Releases]] /\ store' \in [Nodes -> [Mods -> Releases]]
<1>1. retained \in [Nodes -> [Mods -> Releases]] /\ store \in [Nodes -> [Mods -> Releases]]
  BY DEF IType, GossipTypeOK
<1>2. CASE UNCHANGED holdVars
  BY <1>1, <1>2 DEF holdVars
<1>3. CASE Arrives
  BY <1>3, Accepted DEF Arrives
<1>4. CASE PublishEnds
  <2>1. sealing # NotSealing /\ Accept(Publisher, sealing[1], Announced)
    BY <1>4 DEF PublishEnds, Announced
  <2>2. Announced \in Releases /\ sealing[1] \in Mods
    BY <2>1, AnnouncedType DEF IType
  <2> QED
    BY <2>1, <2>2, Accepted, GossipBounds
<1>5. ASSUME NEW n \in Nodes, Restart(n)
      PROVE  retained' \in [Nodes -> [Mods -> Releases]] /\ store' \in [Nodes -> [Mods -> Releases]]
  <2>1. retained' = [retained EXCEPT ![n] = Restored(n)]
    BY <1>5 DEF Restart
  <2>2. PICK torn : store' = [store EXCEPT ![n] = [m \in Mods |-> IF m \in torn THEN None ELSE store[n][m]]]
    BY <1>5 DEF Restart
  <2>3. Restored(n) \in [Mods -> Releases]
    BY <1>1, NoneIsARelease DEF Restored
  <2>4. [m \in Mods |-> IF m \in torn THEN None ELSE store[n][m]] \in [Mods -> Releases]
    BY <1>1, NoneIsARelease
  <2> QED
    BY <1>1, <2>1, <2>2, <2>3, <2>4
<1>6. Quietly \/ (\E n \in Nodes : KeyArrives(n) \/ KeyRevoked(n)) \/ (\E m \in Mods : PublishBegins(m)) \/ PublishFails
        => UNCHANGED holdVars
  BY DEF Quietly, KeyArrives, KeyRevoked, PublishBegins, PublishFails
<1> QED
  BY <1>2, <1>3, <1>4, <1>5, <1>6, Steps

(* What an accepted release changes. *)
LEMMA Kept ==
  ASSUME IType, NEW n \in Nodes, NEW m \in Mods, NEW release, Accept(n, m, release),
         NEW k \in Nodes, NEW x \in Mods
  PROVE  /\ retained'[k][x] = retained[k][x] \/ (retained'[k][x] = release /\ x = m /\ Acceptable(n, m, release))
         /\ \/ store'[k][x] \in {store[k][x], None}
            \/ store'[k][x] = release /\ x = m /\ Acceptable(n, m, release)
<1>1. retained \in [Nodes -> [Mods -> Releases]] /\ store \in [Nodes -> [Mods -> Releases]]
  BY DEF IType, GossipTypeOK
<1>2. CASE ~Acceptable(n, m, release)
  BY <1>1, <1>2 DEF Accept, holdVars
<1>3. CASE Acceptable(n, m, release)
  <2>1. retained' = [retained EXCEPT ![n][m] = release]
    BY <1>3 DEF Accept
  <2>2. PICK saved \in Saved(store[n][m], release) : store' = [store EXCEPT ![n][m] = saved]
    BY <1>3 DEF Accept
  <2>3. saved \in {store[n][m], None, release}
    BY <2>2 DEF Saved
  <2>4. retained'[k][x] = IF k = n /\ x = m THEN release ELSE retained[k][x]
    BY <1>1, <2>1
  <2>5. store'[k][x] = IF k = n /\ x = m THEN saved ELSE store[k][x]
    BY <1>1, <2>2
  <2> QED
    BY <1>3, <2>3, <2>4, <2>5
<1> QED
  BY <1>2, <1>3

(* Only the end of a publication brings a release into circulation.        *)
Brought(m) ==
  {r \in {Announced} : PublishEnds /\ m = sealing[1] /\ Acceptable(Publisher, m, Announced)}

(* Only the end of a publication brings a release into circulation: every other step moves what
   is there, or forgets it. *)
LEMMA Circulation ==
  ASSUME IType, NumbersOK, GossipNext, NEW m \in Mods
  PROVE  Circulating(m)' \subseteq Circulating(m) \cup {None} \cup Brought(m)
<1> DEFINE Before == Circulating(m) \cup {None} \cup Brought(m)
<1>1. Travelling(m)' \subseteq Circulating(m)
  <2> SUFFICES ASSUME NEW r \in Travelling(m)'  PROVE r \in Circulating(m)
    OBVIOUS
  <2>1. PICK l \in Links : \E msg \in OnTheWay(l)' : msg.kind = "record" /\ msg.mod = m /\ r = msg.release
    BY DEF Travelling
  <2>2. PICK msg \in OnTheWay(l)' : msg.kind = "record" /\ msg.mod = m /\ r = msg.release
    BY <2>1
  <2>3. Comes(msg, l)
    BY LinkStep
  <2>4. CASE msg \in OnTheWay(l)
    BY <2>2, <2>4 DEF Circulating, Travelling
  <2>5. CASE \E n \in Nodes : msg.release = retained[n][msg.mod]
    BY <2>2, <2>5 DEF Circulating
  <2> QED
    BY <2>2, <2>3, <2>4, <2>5 DEF Comes
<1>2. ASSUME NEW k \in Nodes  PROVE retained'[k][m] \in Before /\ store'[k][m] \in Before
  <2>1. retained[k][m] \in Circulating(m) /\ store[k][m] \in Circulating(m)
    BY DEF Circulating
  <2>2. CASE UNCHANGED holdVars
    BY <2>1, <2>2 DEF holdVars
  <2>3. CASE Arrives
    <3>1. PICK n \in Nodes, x \in Mods : \E r \in Travelling(x) : r \in Releases /\ Accept(n, x, r)
      BY <2>3 DEF Arrives
    <3>2. PICK r \in Travelling(x) : Accept(n, x, r)
      BY <3>1
    <3>3. r \in Circulating(x)
      BY <3>2 DEF Circulating
    <3>4. /\ retained'[k][m] = retained[k][m] \/ (retained'[k][m] = r /\ m = x)
          /\ store'[k][m] \in {store[k][m], None} \/ (store'[k][m] = r /\ m = x)
      BY <3>2, Kept
    <3> QED
      BY <2>1, <3>3, <3>4
  <2>4. CASE PublishEnds
    <3>1. sealing # NotSealing /\ Accept(Publisher, sealing[1], Announced)
      BY <2>4 DEF PublishEnds, Announced
    <3>2. sealing[1] \in Mods /\ Publisher \in Nodes
      BY <3>1, AnnouncedType, GossipBounds DEF IType
    <3>3. /\ \/ retained'[k][m] = retained[k][m]
             \/ retained'[k][m] = Announced /\ m = sealing[1] /\ Acceptable(Publisher, sealing[1], Announced)
          /\ \/ store'[k][m] \in {store[k][m], None}
             \/ store'[k][m] = Announced /\ m = sealing[1] /\ Acceptable(Publisher, sealing[1], Announced)
      BY <3>1, <3>2, Kept
    <3> QED
      BY <2>1, <2>4, <3>3 DEF Brought
  <2>5. ASSUME NEW n \in Nodes, Restart(n)  PROVE retained'[k][m] \in Before /\ store'[k][m] \in Before
    <3>1. retained' = [retained EXCEPT ![n] = Restored(n)]
      BY <2>5 DEF Restart
    <3>2. PICK torn : store' = [store EXCEPT ![n] = [x \in Mods |-> IF x \in torn THEN None ELSE store[n][x]]]
      BY <2>5 DEF Restart
    <3>3. retained \in [Nodes -> [Mods -> Releases]] /\ store \in [Nodes -> [Mods -> Releases]]
      BY DEF IType, GossipTypeOK
    <3>4. retained'[k] = IF k = n THEN Restored(n) ELSE retained[k]
      BY <3>1, <3>3
    <3>5. Restored(n)[m] = store[n][m] \/ Restored(n)[m] = None
      BY DEF Restored
    <3>6. store'[k][m] = store[k][m] \/ store'[k][m] = None
      BY <3>2, <3>3
    <3> QED
      BY <2>1, <3>4, <3>5, <3>6
  <2>6. Quietly \/ (\E n \in Nodes : KeyArrives(n) \/ KeyRevoked(n)) \/ (\E x \in Mods : PublishBegins(x)) \/ PublishFails
          => UNCHANGED holdVars
    BY DEF Quietly, KeyArrives, KeyRevoked, PublishBegins, PublishFails
  <2> QED
    BY <2>2, <2>3, <2>4, <2>5, <2>6, Steps
<1> HIDE DEF Before
<1>3. Circulating(m)' \subseteq Before
  <2>1. Circulating(m) \subseteq Before
    BY DEF Before
  <2> QED
    BY <1>1, <1>2, <2>1 DEF Circulating
<1> QED
  BY <1>3 DEF Before

(* What circulates are releases. *)
LEMMA CirculatingReleases ==
  ASSUME IType, NEW m \in Mods, NEW r \in Circulating(m)
  PROVE  r \in Releases /\ r.version \in Nat
<1>1. retained \in [Nodes -> [Mods -> Releases]] /\ store \in [Nodes -> [Mods -> Releases]]
  BY DEF IType, GossipTypeOK
<1>2. CASE r \in Travelling(m)
  <2>1. PICK l \in Links : \E msg \in OnTheWay(l) : msg.kind = "record" /\ r = msg.release
    BY <1>2 DEF Travelling
  <2>2. PICK msg \in OnTheWay(l) : msg.kind = "record" /\ r = msg.release
    BY <2>1
  <2>3. channel[l] \in Seq(Messages)
    BY DEF IType, LinksOK
  <2>4. msg \in Messages
    BY <2>2, <2>3 DEF OnTheWay
  <2>5. r \in Releases
    BY <2>2, <2>4 DEF Messages, Hello, Ask
  <2> QED
    BY <2>5, GossipBounds DEF Releases
<1>3. CASE r \notin Travelling(m)
  <2>1. r \in Releases
    BY <1>1, <1>3 DEF Circulating
  <2> QED
    BY <2>1, GossipBounds DEF Releases
<1> QED
  BY <1>2, <1>3

(* The stages of a publication keep the numbers given to it within the count of publications. *)
LEMMA PublishStep ==
  ASSUME IType, NumbersOK, GossipNext
  PROVE  /\ versions' \in [Mods -> 0..MaxReleases] /\ releases' \in 0..MaxReleases
         /\ sealing' = NotSealing \/ sealing' \in Mods \X (1..MaxReleases)
         /\ \A m \in Mods : versions'[m] <= releases'
         /\ sealing' # NotSealing => sealing'[1] \in Mods /\ sealing'[2] \in 1..releases' + 1 /\ releases' < MaxReleases
         /\ releases <= releases'
<1> DEFINE Goal ==
         /\ versions' \in [Mods -> 0..MaxReleases] /\ releases' \in 0..MaxReleases
         /\ sealing' = NotSealing \/ sealing' \in Mods \X (1..MaxReleases)
         /\ \A m \in Mods : versions'[m] <= releases'
         /\ sealing' # NotSealing => sealing'[1] \in Mods /\ sealing'[2] \in 1..releases' + 1 /\ releases' < MaxReleases
         /\ releases <= releases'
<1>1. /\ versions \in [Mods -> 0..MaxReleases] /\ releases \in 0..MaxReleases /\ MaxReleases \in Nat
      /\ sealing = NotSealing \/ sealing \in Mods \X (1..MaxReleases)
      /\ \A m \in Mods : versions[m] <= releases
      /\ sealing # NotSealing => sealing[1] \in Mods /\ sealing[2] \in 1..releases + 1 /\ releases < MaxReleases
  BY GossipBounds DEF IType, GossipTypeOK, NumbersOK
<1>2. CASE UNCHANGED publishVars
  BY <1>1, <1>2 DEF publishVars
<1>3. ASSUME NEW m \in Mods, PublishBegins(m)  PROVE Goal
  <2>1. /\ releases < MaxReleases /\ sealing' = <<m, NextVersion(m)>>
        /\ versions' = versions /\ releases' = releases
    BY <1>3 DEF PublishBegins
  <2>2. retained[Publisher][m] \in Circulating(m)
    BY GossipBounds DEF Circulating
  <2>3. retained[Publisher][m].version \in Nat /\ retained[Publisher][m].version <= releases
    BY <2>2, CirculatingReleases DEF NumbersOK
  <2>4. versions[m] \in Nat /\ versions[m] <= releases
    BY <1>1
  <2>5. NextVersion(m) \in 1..releases + 1
    BY <1>1, <2>3, <2>4 DEF NextVersion, Larger
  <2>6. NextVersion(m) \in 1..MaxReleases
    BY <1>1, <2>1, <2>5
  <2> QED
    BY <1>1, <2>1, <2>5, <2>6
<1>4. CASE PublishFails
  BY <1>1, <1>4 DEF PublishFails
<1>5. CASE PublishEnds
  <2>1. sealing # NotSealing /\ releases' = releases + 1 /\ sealing' = NotSealing
    BY <1>5 DEF PublishEnds
  <2>2. /\ sealing[1] \in Mods /\ Announced.version \in 1..releases + 1
        /\ Announced.version \in 1..MaxReleases /\ releases + 1 \in 0..MaxReleases
    BY <2>1, AnnouncedType DEF IType
  <2>3. versions' = versions \/ versions' = [versions EXCEPT ![sealing[1]] = Announced.version]
    BY <1>5 DEF PublishEnds, Announced
  <2>4. versions' \in [Mods -> 0..MaxReleases] /\ \A m \in Mods : versions'[m] <= releases + 1
    BY <1>1, <2>2, <2>3
  <2> QED
    BY <1>1, <2>1, <2>2, <2>4
<1>6. ASSUME NEW n \in Nodes, Restart(n)  PROVE Goal
  <2>1. releases' = releases
    BY <1>6 DEF Restart
  <2>2. \/ versions' = versions /\ sealing' = sealing
        \/ versions' = [m \in Mods |-> 0] /\ sealing' = NotSealing
    BY <1>6 DEF Restart
  <2> QED
    BY <1>1, <2>1, <2>2
<1>7. Quietly \/ Arrives \/ (\E n \in Nodes : KeyArrives(n) \/ KeyRevoked(n)) => UNCHANGED publishVars
  BY DEF Quietly, Arrives, KeyArrives, KeyRevoked
<1> QED
  BY <1>2, <1>3, <1>4, <1>5, <1>6, <1>7, Steps

(* Every step keeps every number in circulation within the count of publications. *)
LEMMA NumbersStep ==
  ASSUME IType, NumbersOK, GossipNext
  PROVE  NumbersOK'
<1>1. ASSUME NEW m \in Mods, NEW r \in Circulating(m)'  PROVE r.version <= releases'
  <2>1. r \in Circulating(m) \/ r = None \/ r \in Brought(m)
    BY Circulation
  <2>2. releases \in Nat /\ releases' \in Nat /\ releases <= releases'
    BY PublishStep, GossipBounds DEF IType, GossipTypeOK
  <2>3. CASE r \in Circulating(m)
    <3>1. r.version \in Nat /\ r.version <= releases
      BY <2>3, CirculatingReleases DEF NumbersOK
    <3> QED
      BY <2>2, <3>1
  <2>4. CASE r = None
    BY <2>2, <2>4, NoneIsARelease
  <2>5. CASE r \in Brought(m)
    <3>1. r = Announced /\ sealing # NotSealing /\ releases' = releases + 1
      BY <2>5 DEF Brought, PublishEnds
    <3> QED
      BY <3>1, AnnouncedType DEF IType
  <2> QED
    BY <2>1, <2>3, <2>4, <2>5
<1> QED
  BY <1>1, PublishStep DEF NumbersOK

(* Trust, budgets and events. *)
LEMMA BudgetStep ==
  ASSUME IType, GossipNext
  PROVE  /\ allowance' \in [Links -> 0..Burst] /\ overage' \in [Links -> 0..Threshold]
         /\ refill' \in [Links -> {"unseeded", "waiting", "due"}] /\ blocked' \subseteq Links
<1> DEFINE Goal ==
         /\ allowance' \in [Links -> 0..Burst] /\ overage' \in [Links -> 0..Threshold]
         /\ refill' \in [Links -> {"unseeded", "waiting", "due"}] /\ blocked' \subseteq Links
<1>1. /\ allowance \in [Links -> 0..Burst] /\ overage \in [Links -> 0..Threshold]
      /\ refill \in [Links -> {"unseeded", "waiting", "due"}] /\ blocked \subseteq Links
      /\ Burst \in Nat \ {0} /\ Threshold \in Nat \ {0}
  BY GossipBounds DEF IType, GossipTypeOK
<1>2. CASE UNCHANGED budgetVars
  BY <1>1, <1>2 DEF budgetVars
<1>3. ASSUME NEW l \in Links, Penalise(l), refill' \in [Links -> {"unseeded", "waiting", "due"}]  PROVE Goal
  BY <1>1, <1>3 DEF Penalise
<1>4. ASSUME NEW l \in Links, ReceiveUnsolicited(l)  PROVE Goal
  <2>1. Penalise(l) /\ refill' = refill
    BY <1>4 DEF ReceiveUnsolicited
  <2> QED
    BY <1>1, <1>3, <2>1
<1>5. ASSUME NEW l \in Links, ReceiveRecord(l)  PROVE Goal
  <2>1. refill' \in [Links -> {"unseeded", "waiting", "due"}]
    BY <1>1, <1>5 DEF ReceiveRecord
  <2>2. PICK granted \in Grants(l) :
          \/ /\ Spends(l, granted)
             /\ allowance' = [allowance EXCEPT ![l] = Refilled(l, granted) - 1]
             /\ overage' = [overage EXCEPT ![l] = 0] /\ blocked' = blocked
          \/ /\ overage[l] + 1 < Threshold
             /\ overage' = [overage EXCEPT ![l] = @ + 1] /\ allowance' = allowance /\ blocked' = blocked
          \/ Penalise(l)
    BY <1>5 DEF ReceiveRecord
  <2>3. CASE Penalise(l)
    BY <1>3, <2>1, <2>3
  <2>4. granted \in 0..Burst
    BY <1>1 DEF Grants
  <2>5. Spends(l, granted) => Refilled(l, granted) - 1 \in 0..Burst
    BY <1>1, <2>4 DEF Spends, Refilled
  <2>6. overage[l] + 1 < Threshold => overage[l] + 1 \in 0..Threshold
    BY <1>1
  <2>7. CASE ~Penalise(l)
    BY <1>1, <2>1, <2>2, <2>5, <2>6, <2>7
  <2> QED
    BY <2>3, <2>7
<1>6. ASSUME NEW l \in Links, IntervalPasses(l) \/ BlockEnds(l)  PROVE Goal
  <2>1. Due(l) \in {"unseeded", "waiting", "due"}
    BY DEF Due
  <2>2. refill' \in [Links -> {"unseeded", "waiting", "due"}]
    BY <1>1, <1>6, <2>1 DEF IntervalPasses, BlockEnds
  <2>3. allowance' = allowance /\ overage' = overage /\ blocked' \subseteq blocked
    BY <1>6 DEF IntervalPasses, BlockEnds
  <2> QED
    BY <1>1, <2>2, <2>3
<1>7. ASSUME NEW n \in Nodes, Restart(n)  PROVE Goal
  <2>1. allowance' = [l \in Links |-> IF l[2] = n THEN Burst ELSE allowance[l]]
    BY <1>7 DEF Restart
  <2>2. overage' = [l \in Links |-> IF l[2] = n THEN 0 ELSE overage[l]]
    BY <1>7 DEF Restart
  <2>3. refill' = [l \in Links |-> IF l[2] = n THEN "unseeded" ELSE refill[l]]
    BY <1>7 DEF Restart
  <2>4. blocked' = {l \in blocked : l[2] # n}
    BY <1>7 DEF Restart
  <2> QED
    BY <1>1, <2>1, <2>2, <2>3, <2>4
<1>8. ASSUME NEW l \in Links, Plugin(l),
             ~ReceiveUnsolicited(l), ~ReceiveRecord(l), ~IntervalPasses(l), ~BlockEnds(l)
      PROVE  UNCHANGED budgetVars
  BY <1>8 DEF Plugin, Receive, ReceiveHello, ReceiveOffer, ReceiveWant, ReceiveAsk,
     ReceiveBlocked, TickOffers,
              TickRefreshes, Connect, WantExpires, Disconnect
<1>9. (\E n \in Nodes : KeyArrives(n) \/ KeyRevoked(n) \/ RequestRefresh(n)) \/ (\E m \in Mods : PublishBegins(m))
        \/ PublishFails \/ PublishEnds => UNCHANGED budgetVars
  BY DEF KeyArrives, KeyRevoked, RequestRefresh, PublishBegins, PublishFails, PublishEnds
<1> QED
  BY <1>2, <1>4, <1>5, <1>6, <1>7, <1>8, <1>9 DEF GossipNext

(* Keys and revocations only arrive. *)
LEMMA TrustStep ==
  ASSUME IType, GossipNext
  PROVE  /\ trusted \subseteq trusted' /\ revoked \subseteq revoked'
         /\ trusted' \subseteq Nodes /\ revoked' \subseteq Nodes /\ events' \in 0..MaxEvents
<1>1. trusted \subseteq Nodes /\ revoked \subseteq Nodes /\ events \in 0..MaxEvents /\ MaxEvents \in Nat
  BY GossipBounds DEF IType, GossipTypeOK
<1>2. Event => events' \in 0..MaxEvents
  BY <1>1 DEF Event
<1>3. ASSUME NEW n \in Nodes, KeyArrives(n) \/ KeyRevoked(n)
      PROVE  /\ trusted \subseteq trusted' /\ revoked \subseteq revoked'
             /\ trusted' \subseteq Nodes /\ revoked' \subseteq Nodes /\ Event
  BY <1>1, <1>3 DEF KeyArrives, KeyRevoked
<1>4. ASSUME NEW l \in Links, Plugin(l)  PROVE UNCHANGED trustVars /\ (UNCHANGED events \/ Event)
  <2>1. CASE Receive(l)
    BY <2>1 DEF Receive, ReceiveHello, ReceiveOffer, ReceiveWant, ReceiveAsk, ReceiveUnsolicited,
       ReceiveBlocked,
                ReceiveRecord
  <2>2. CASE ~Receive(l)
    BY <1>4, <2>2 DEF Plugin, TickOffers, TickRefreshes, IntervalPasses, BlockEnds, Connect,
       WantExpires, Disconnect
  <2> QED
    BY <2>1, <2>2
<1>5. ASSUME NEW n \in Nodes, RequestRefresh(n) \/ Restart(n)
      PROVE  UNCHANGED trustVars /\ (UNCHANGED events \/ Event)
  BY <1>5 DEF RequestRefresh, Restart
<1>6. (\E m \in Mods : PublishBegins(m)) \/ PublishFails \/ PublishEnds => UNCHANGED <<trustVars, events>>
  BY DEF PublishBegins, PublishFails, PublishEnds
<1>7. UNCHANGED trustVars => trusted' = trusted /\ revoked' = revoked
  BY DEF trustVars
<1>8. GossipNext => \/ \E n \in Nodes : KeyArrives(n) \/ KeyRevoked(n)
                    \/ UNCHANGED trustVars /\ (UNCHANGED events \/ Event)
  BY <1>4, <1>5, <1>6 DEF GossipNext
<1> QED
  BY <1>1, <1>2, <1>3, <1>7, <1>8

(* A stutter keeps types and numbers. *)
LEMMA Unchanged ==
  ASSUME IType, NumbersOK, UNCHANGED gossipVars
  PROVE  IType' /\ NumbersOK'
<1>1. UNCHANGED <<trusted, revoked, retained, store, versions, sealing, releases, connected, channel, heard, stale,
                  wants, allowance, overage, refill, blocked, events>>
  BY DEF gossipVars, trustVars, holdVars, publishVars, linkVars, budgetVars
<1>2. IType'
  BY <1>1 DEF IType, GossipTypeOK, LinksOK
<1>3. NumbersOK'
  BY <1>1 DEF NumbersOK, Circulating, Travelling, OnTheWay
<1> QED
  BY <1>2, <1>3

(* Types and numbers are inductive together. *)
LEMMA TypeStep ==
  ASSUME IType, NumbersOK, [GossipNext]_gossipVars
  PROVE  IType' /\ NumbersOK'
<1>1. CASE GossipNext
  <2>1. LinkType'
    BY <1>1, LinkStep
  <2>2. GossipTypeOK'
    BY <1>1, <2>1, HoldTypeStep, PublishStep, BudgetStep, TrustStep DEF GossipTypeOK, LinkType
  <2>3. NumbersOK'
    BY <1>1, NumbersStep
  <2> QED
    BY <2>1, <2>2, <2>3 DEF IType, LinkType
<1> QED
  BY <1>1, Unchanged

(* Initially nothing is held and nothing is on its way.                    *)
LEMMA InitialCirculation ==
  ASSUME GossipInit, NEW m \in Mods
  PROVE  Circulating(m) = {None}
<1>1. \A n \in Nodes : retained[n][m] = None /\ store[n][m] = None
  BY DEF GossipInit
<1>2. \A l \in Links : OnTheWay(l) = {}
  BY DEF GossipInit, OnTheWay
<1>3. Travelling(m) = {}
  BY <1>2 DEF Travelling
<1> QED
  BY <1>1, <1>3, GossipBounds DEF Circulating

(* Initially the types hold and nothing is numbered. *)
LEMMA TypeInit ==
  ASSUME GossipInit
  PROVE  IType /\ NumbersOK
<1>1. LinksOK
  <2>1. <<>> \in Seq(Messages)
    OBVIOUS
  <2> QED
    BY <2>1 DEF GossipInit, LinksOK
<1>2. retained \in [Nodes -> [Mods -> Releases]] /\ store \in [Nodes -> [Mods -> Releases]]
  BY NoneIsARelease DEF GossipInit
<1>3. /\ versions \in [Mods -> 0..MaxReleases] /\ releases \in 0..MaxReleases /\ sealing = NotSealing
      /\ allowance \in [Links -> 0..Burst] /\ overage \in [Links -> 0..Threshold] /\ events \in 0..MaxEvents
  BY GossipBounds DEF GossipInit
<1>4. GossipTypeOK
  BY <1>2, <1>3 DEF GossipInit, GossipTypeOK
<1>5. \A m \in Mods : \A r \in Circulating(m) : r.version <= releases
  BY InitialCirculation, NoneIsARelease DEF GossipInit
<1>6. NumbersOK
  BY <1>3, <1>5 DEF NumbersOK, GossipInit
<1> QED
  BY <1>1, <1>4, <1>6 DEF IType

(* Every variable keeps its type: no version number is given out beyond    *)
(* the number of publications, budgets stay within their limits, and       *)
(* plugins only exist on links that are up.                                *)
THEOREM GossipTypes == GossipSpec => []GossipTypeOK
<1>1. GossipInit => IType /\ NumbersOK
  BY TypeInit
<1>2. IType /\ NumbersOK /\ [GossipNext]_gossipVars => (IType /\ NumbersOK)'
  BY TypeStep
<1>3. IType /\ NumbersOK => GossipTypeOK
  BY DEF IType
<1> QED
  BY <1>1, <1>2, <1>3, PTL DEF GossipSpec

-----------------------------------------------------------------------------
(* Saves that are whole.                                                   *)

(* AnnounceReceiver saves with every announce it accepts. *)
LEMMA SavedWhole ==
  ASSUME ~SavesTear, IType, NEW n \in Nodes, NEW m \in Mods, NEW release, Accept(n, m, release)
  PROVE  \/ UNCHANGED holdVars
         \/ /\ Acceptable(n, m, release)
            /\ retained' = [retained EXCEPT ![n][m] = release]
            /\ store' = [store EXCEPT ![n][m] = release]
BY DEF Accept, Saved

(* With saves whole, a machine that trusts the publisher holds what it has on disk, and neither
   goes back. *)
LEMMA HoldStep ==
  ASSUME ~SavesTear, IType, NumbersOK, HoldOK, GossipNext
  PROVE  /\ HoldOK'
         /\ \A n \in Nodes : \A m \in Mods : store'[n][m].version >= store[n][m].version
         /\ Usable(Publisher) =>
              \A m \in Mods : /\ retained'[Publisher][m].version >= retained[Publisher][m].version
                             /\ \A r \in Brought(m) : retained'[Publisher][m] = r
<1> DEFINE Goal ==
         /\ HoldOK'
         /\ \A n \in Nodes : \A m \in Mods : store'[n][m].version >= store[n][m].version
         /\ Usable(Publisher) =>
              \A m \in Mods : /\ retained'[Publisher][m].version >= retained[Publisher][m].version
                             /\ \A r \in Brought(m) : retained'[Publisher][m] = r
<1>1. /\ retained \in [Nodes -> [Mods -> Releases]] /\ store \in [Nodes -> [Mods -> Releases]]
      /\ \A n \in Nodes, m \in Mods : retained[n][m].version \in Nat /\ store[n][m].version \in Nat
      /\ Publisher \in Nodes
  <2>1. retained \in [Nodes -> [Mods -> Releases]] /\ store \in [Nodes -> [Mods -> Releases]]
    BY DEF IType, GossipTypeOK
  <2>2. \A r \in Releases : r.version \in Nat
    BY GossipBounds DEF Releases
  <2> QED
    BY <2>1, <2>2, GossipBounds
<1>2. /\ Publisher \in trusted
      /\ \A n \in Nodes : Usable(n) => store[n] = retained[n]
      /\ \A n \in Nodes : \A m \in Mods : n \notin trusted => retained[n][m] = None /\ store[n][m] = None
  BY DEF HoldOK
<1>3. \A n \in Nodes : \A m \in Mods : store[n][m].version >= store[n][m].version /\ retained[n][m].version >= retained[n][m].version
  BY <1>1
<1>4. ASSUME UNCHANGED holdVars, UNCHANGED trustVars, ~PublishEnds  PROVE Goal
  <2>1. retained' = retained /\ store' = store /\ trusted' = trusted /\ revoked' = revoked
    BY <1>4 DEF holdVars, trustVars
  <2>2. HoldOK'
    BY <1>2, <2>1 DEF HoldOK, Usable
  <2>3. \A m \in Mods : Brought(m) = {}
    BY <1>4 DEF Brought
  <2> QED
    BY <1>1, <1>3, <2>1, <2>2, <2>3
<1>5. ASSUME NEW n \in Nodes, NEW m \in Mods, NEW release, UNCHANGED trustVars, Acceptable(n, m, release),
             retained' = [retained EXCEPT ![n][m] = release], store' = [store EXCEPT ![n][m] = release],
             release.version \in Nat
      PROVE  /\ HoldOK'
             /\ \A k \in Nodes : \A x \in Mods : /\ store'[k][x].version >= store[k][x].version
                                               /\ retained'[k][x].version >= retained[k][x].version
             /\ retained'[n][m] = release
  <2>1. n \in trusted /\ Usable(n) /\ release.version > retained[n][m].version
    BY <1>5 DEF Acceptable, Usable
  <2>2. trusted' = trusted /\ revoked' = revoked
    BY <1>5 DEF trustVars
  <2>3. \A k \in Nodes : \A x \in Mods : retained'[k][x] = IF k = n /\ x = m THEN release ELSE retained[k][x]
    BY <1>1, <1>5
  <2>4. \A k \in Nodes : \A x \in Mods : store'[k][x] = IF k = n /\ x = m THEN release ELSE store[k][x]
    BY <1>1, <1>5
  <2>5. \A k \in Nodes : retained'[k] = IF k = n THEN [retained[n] EXCEPT ![m] = release] ELSE retained[k]
    BY <1>1, <1>5
  <2>6. \A k \in Nodes : store'[k] = IF k = n THEN [store[n] EXCEPT ![m] = release] ELSE store[k]
    BY <1>1, <1>5
  <2>7. \A k \in Nodes : Usable(k)' => store'[k] = retained'[k]
    BY <1>2, <2>1, <2>2, <2>5, <2>6 DEF Usable
  <2>8. \A k \in Nodes : \A x \in Mods : k \notin trusted' => retained'[k][x] = None /\ store'[k][x] = None
    BY <1>2, <2>1, <2>2, <2>3, <2>4
  <2>9. HoldOK'
    BY <1>2, <2>2, <2>7, <2>8 DEF HoldOK
  <2>10. store[n][m] = retained[n][m]
    BY <1>2, <2>1
  <2>11. release.version >= retained[n][m].version /\ release.version >= store[n][m].version
    BY <1>1, <1>5, <2>1, <2>10
  <2> QED
    BY <1>3, <2>3, <2>4, <2>9, <2>11
<1>6. CASE Quietly \/ (\E m \in Mods : PublishBegins(m)) \/ PublishFails
  <2>1. ~PublishEnds \/ UNCHANGED releases
    BY <1>6 DEF Quietly, publishVars, PublishBegins, PublishFails
  <2>2. ~PublishEnds
    <3>1. releases \in Nat
      BY GossipBounds DEF IType, GossipTypeOK
    <3> QED
      BY <2>1, <3>1 DEF PublishEnds
  <2> QED
    BY <1>4, <1>6, <2>2 DEF Quietly, PublishBegins, PublishFails
<1>7. CASE Arrives
  <2>1. PICK n \in Nodes, m \in Mods : \E r \in Travelling(m) : r \in Releases /\ Accept(n, m, r)
    BY <1>7 DEF Arrives
  <2>2. PICK r \in Travelling(m) : r \in Releases /\ Accept(n, m, r)
    BY <2>1
  <2>3. UNCHANGED trustVars /\ releases' = releases
    BY <1>7 DEF Arrives, publishVars
  <2>4. ~PublishEnds
    <3>1. releases \in Nat
      BY GossipBounds DEF IType, GossipTypeOK
    <3> QED
      BY <2>3, <3>1 DEF PublishEnds
  <2>5. CASE UNCHANGED holdVars
    BY <1>4, <2>3, <2>4, <2>5
  <2>6. CASE ~UNCHANGED holdVars
    <3>1. /\ Acceptable(n, m, r)
          /\ retained' = [retained EXCEPT ![n][m] = r] /\ store' = [store EXCEPT ![n][m] = r]
      BY <2>2, <2>6, SavedWhole
    <3>2. r.version \in Nat
      BY <2>2, GossipBounds DEF Releases
    <3>3. \A x \in Mods : Brought(x) = {}
      BY <2>4 DEF Brought
    <3> QED
      BY <1>1, <1>5, <2>3, <3>1, <3>2, <3>3
  <2> QED
    BY <2>5, <2>6
<1>8. CASE PublishEnds
  <2>1. sealing # NotSealing /\ Accept(Publisher, sealing[1], Announced) /\ UNCHANGED trustVars
    BY <1>8 DEF PublishEnds, Announced
  <2>2. sealing[1] \in Mods /\ Announced.version \in Nat
    BY <2>1, AnnouncedType DEF IType
  <2>3. CASE Acceptable(Publisher, sealing[1], Announced)
    <3>1. /\ retained' = [retained EXCEPT ![Publisher][sealing[1]] = Announced]
          /\ store' = [store EXCEPT ![Publisher][sealing[1]] = Announced]
      BY <2>1, <2>3 DEF Accept, Saved
    <3>2. \A m \in Mods : \A r \in Brought(m) : m = sealing[1] /\ r = Announced
      BY DEF Brought
    <3>3. /\ HoldOK'
          /\ \A k \in Nodes : \A x \in Mods : /\ store'[k][x].version >= store[k][x].version
                                            /\ retained'[k][x].version >= retained[k][x].version
          /\ retained'[Publisher][sealing[1]] = Announced
      BY <1>1, <1>5, <2>1, <2>2, <2>3, <3>1
    <3>4. \A m \in Mods : \A r \in Brought(m) : retained'[Publisher][m] = r
      BY <3>2, <3>3
    <3> QED
      BY <1>1, <3>3, <3>4
  <2>4. CASE ~Acceptable(Publisher, sealing[1], Announced)
    <3>1. retained' = retained /\ store' = store /\ trusted' = trusted /\ revoked' = revoked
      BY <2>1, <2>4 DEF Accept, holdVars, trustVars
    <3>2. HoldOK'
      BY <1>2, <3>1 DEF HoldOK, Usable
    <3>3. \A m \in Mods : Brought(m) = {}
      BY <2>4 DEF Brought
    <3> QED
      BY <1>1, <1>3, <3>1, <3>2, <3>3
  <2> QED
    BY <2>3, <2>4
<1>9. ASSUME NEW n \in Nodes, KeyArrives(n) \/ KeyRevoked(n)  PROVE Goal
  <2>1. retained' = retained /\ store' = store /\ releases' = releases
    BY <1>9 DEF KeyArrives, KeyRevoked, holdVars, publishVars
  <2>2. HoldOK'
    <3>1. CASE KeyArrives(n)
      <4>1. n \notin trusted /\ trusted' = trusted \cup {n} /\ revoked' = revoked
        BY <3>1 DEF KeyArrives
      <4>2. \A m \in Mods : retained[n][m] = store[n][m]
        BY <1>2, <4>1
      <4>3. retained[n] = store[n]
        BY <1>1, <4>2
      <4> QED
        BY <1>2, <2>1, <4>1, <4>3 DEF HoldOK, Usable
    <3>2. CASE KeyRevoked(n)
      BY <1>2, <2>1, <3>2 DEF HoldOK, Usable, KeyRevoked
    <3> QED
      BY <1>9, <3>1, <3>2
  <2>3. \A m \in Mods : Brought(m) = {}
    <3>1. releases \in Nat
      BY GossipBounds DEF IType, GossipTypeOK
    <3> QED
      BY <2>1, <3>1 DEF Brought, PublishEnds
  <2> QED
    BY <1>1, <1>3, <2>1, <2>2, <2>3
<1>10. ASSUME NEW n \in Nodes, Restart(n)  PROVE Goal
  <2>1. /\ retained' = [retained EXCEPT ![n] = Restored(n)] /\ store' = store /\ releases' = releases
        /\ trusted' = trusted /\ revoked' = revoked
    <3>1. PICK torn \in SUBSET Mods :
            /\ torn # {} => SavesTear /\ Usable(n)
            /\ store' = [store EXCEPT ![n] = [m \in Mods |-> IF m \in torn THEN None ELSE store[n][m]]]
      BY <1>10 DEF Restart
    <3>2. store' = store
      BY <1>1, <3>1
    <3> QED
      BY <1>10, <3>2 DEF Restart, trustVars
  <2>2. \A k \in Nodes : retained'[k] = IF k = n THEN Restored(n) ELSE retained[k]
    BY <1>1, <2>1
  <2>3. \A k \in Nodes : Usable(k)' => store'[k] = retained'[k]
    BY <1>2, <2>1, <2>2 DEF Usable, Restored
  <2>4. \A k \in Nodes : \A x \in Mods : k \notin trusted' => retained'[k][x] = None /\ store'[k][x] = None
    BY <1>2, <2>1, <2>2 DEF Usable, Restored
  <2>5. HoldOK'
    BY <1>2, <2>1, <2>3, <2>4 DEF HoldOK
  <2>6. Usable(Publisher) => retained'[Publisher] = retained[Publisher]
    BY <1>1, <1>2, <2>2 DEF Restored
  <2>7. \A m \in Mods : Brought(m) = {}
    <3>1. releases \in Nat
      BY GossipBounds DEF IType, GossipTypeOK
    <3> QED
      BY <2>1, <3>1 DEF Brought, PublishEnds
  <2> QED
    BY <1>1, <1>3, <2>1, <2>5, <2>6, <2>7
<1> QED
  BY <1>6, <1>7, <1>8, <1>9, <1>10, Steps

(* With saves whole, the publisher stays ahead of everything in circulation, so a number stands
   for one content. *)
LEMMA LeadStep ==
  ASSUME ~SavesTear, IType, NumbersOK, HoldOK, PublisherLeads, NoneIsZero, AgreeOnVersion, GossipNext
  PROVE  PublisherLeads' /\ NoneIsZero' /\ AgreeOnVersion'
<1>1. \A m \in Mods : Circulating(m)' \subseteq Circulating(m) \cup {None} \cup Brought(m)
  BY Circulation
<1>2. \A m \in Mods : \A r \in Circulating(m) : r.version \in Nat
  BY CirculatingReleases
<1>3. \A m \in Mods : retained[Publisher][m] \in Circulating(m)
  BY GossipBounds DEF Circulating
<1>4. /\ Usable(Publisher) =>
          \A m \in Mods : /\ retained'[Publisher][m].version >= retained[Publisher][m].version
                         /\ \A r \in Brought(m) : retained'[Publisher][m] = r
  BY HoldStep
<1>5. ASSUME NEW m \in Mods, NEW r \in Brought(m)
      PROVE  /\ r.version \in Nat \ {0} /\ Usable(Publisher) /\ r = Announced
             /\ \A s \in Circulating(m) : s.version < r.version
  <2>1. r = Announced /\ sealing # NotSealing /\ Acceptable(Publisher, m, Announced)
    BY <1>5 DEF Brought, PublishEnds
  <2>2. r.version \in Nat \ {0}
    <3>1. Announced.version \in 1..releases + 1 /\ releases \in Nat
      BY <2>1, AnnouncedType, GossipBounds DEF IType, GossipTypeOK
    <3> QED
      BY <2>1, <3>1
  <2>3. Usable(Publisher) /\ r.version > retained[Publisher][m].version
    BY <2>1 DEF Acceptable
  <2>4. \A s \in Circulating(m) : s.version <= retained[Publisher][m].version
    BY <2>3 DEF PublisherLeads
  <2>5. \A s \in Circulating(m) : s.version < r.version
    <3> TAKE s \in Circulating(m)
    <3>1. s.version \in Nat /\ retained[Publisher][m].version \in Nat
      BY <1>2, <1>3
    <3> QED
      BY <2>2, <2>3, <2>4, <3>1
  <2> QED
    BY <2>1, <2>2, <2>3, <2>5
<1>6. PublisherLeads'
  <2> SUFFICES ASSUME Usable(Publisher)', NEW m \in Mods, NEW r \in Circulating(m)'
               PROVE  r.version <= retained'[Publisher][m].version
    BY DEF PublisherLeads
  <2>1. Usable(Publisher)
    BY TrustStep DEF Usable, HoldOK
  <2>2. /\ retained'[Publisher][m].version >= retained[Publisher][m].version
        /\ \A s \in Brought(m) : retained'[Publisher][m] = s
    BY <1>4, <2>1
  <2>3. retained'[Publisher][m].version \in Nat /\ retained[Publisher][m].version \in Nat
    <3>1. retained'[Publisher][m] \in Releases
      BY HoldTypeStep, GossipBounds
    <3> QED
      BY <1>2, <1>3, <3>1, GossipBounds DEF Releases
  <2>4. CASE r \in Circulating(m)
    <3>1. r.version \in Nat /\ r.version <= retained[Publisher][m].version
      BY <1>2, <2>1, <2>4 DEF PublisherLeads
    <3> QED
      BY <2>2, <2>3, <3>1
  <2>5. CASE r = None
    BY <2>3, <2>5, NoneIsARelease
  <2>6. CASE r \in Brought(m)
    <3>1. retained'[Publisher][m] = r
      BY <2>2, <2>6
    <3> QED
      BY <2>3, <3>1
  <2> QED
    BY <1>1, <2>4, <2>5, <2>6
<1>7. NoneIsZero'
  BY <1>1, <1>5 DEF NoneIsZero
<1>8. ASSUME NEW m \in Mods, NEW r \in Circulating(m)', NEW s \in Circulating(m)', r.version = s.version
      PROVE  r = s
  <2>1. r \in Circulating(m) \/ r = None \/ r \in Brought(m)
    BY <1>1
  <2>2. s \in Circulating(m) \/ s = None \/ s \in Brought(m)
    BY <1>1
  <2>3. CASE r \in Brought(m) \/ s \in Brought(m)
    <3>1. r \in Brought(m) /\ s \in Brought(m)
      BY <1>2, <1>5, <1>8, <2>1, <2>2, <2>3, NoneIsARelease
    <3> QED
      BY <3>1, <1>5
  <2>4. CASE r \in Circulating(m) /\ s \in Circulating(m)
    BY <1>8, <2>4 DEF AgreeOnVersion
  <2>5. CASE r = None \/ s = None
    BY <1>8, <2>1, <2>2, <2>3, <2>5, NoneIsARelease DEF NoneIsZero
  <2> QED
    BY <2>1, <2>2, <2>3, <2>4, <2>5
<1> QED
  BY <1>6, <1>7, <1>8 DEF AgreeOnVersion

(* With saves whole, the invariant is inductive. *)
LEMMA Inductive ==
  ASSUME ~SavesTear, IInv, [GossipNext]_gossipVars
  PROVE  IInv'
<1>1. IType' /\ NumbersOK'
  BY TypeStep DEF IInv
<1>2. CASE GossipNext
  BY <1>1, <1>2, HoldStep, LeadStep DEF IInv
<1>3. CASE UNCHANGED gossipVars
  <2>1. UNCHANGED <<trusted, revoked, retained, store, channel>>
    BY <1>3 DEF gossipVars, trustVars, holdVars, linkVars
  <2>2. \A m \in Mods : Circulating(m)' = Circulating(m)
    BY <2>1 DEF Circulating, Travelling, OnTheWay
  <2>3. HoldOK' /\ Usable(Publisher)' = Usable(Publisher)
    BY <2>1 DEF IInv, HoldOK, Usable
  <2>4. PublisherLeads'
    BY <2>1, <2>2, <2>3 DEF IInv, PublisherLeads
  <2>5. NoneIsZero' /\ AgreeOnVersion'
    BY <2>2 DEF IInv, NoneIsZero, AgreeOnVersion
  <2> QED
    BY <1>1, <2>3, <2>4, <2>5 DEF IInv
<1> QED
  BY <1>2, <1>3

(* Initially the invariant holds: nothing circulates. *)
LEMMA Initially ==
  ASSUME GossipInit
  PROVE  IInv
<1>1. IType /\ NumbersOK
  BY TypeInit
<1>2. HoldOK
  BY DEF GossipInit, HoldOK
<1>3. \A m \in Mods : \A r \in Circulating(m) : r = None
  BY InitialCirculation
<1>4. PublisherLeads
  <2>1. \A m \in Mods : retained[Publisher][m] = None
    BY GossipBounds DEF GossipInit
  <2> QED
    BY <1>3, <2>1, NoneIsARelease DEF PublisherLeads
<1>5. NoneIsZero /\ AgreeOnVersion
  BY <1>3 DEF NoneIsZero, AgreeOnVersion
<1> QED
  BY <1>1, <1>2, <1>4, <1>5 DEF IInv

(* Wherever it is held, stored or on its way, a version number stands for  *)
(* the one content PublishService sealed it with, whatever restarts and    *)
(* late records do to the receivers, if AnnounceStore saves whole records. *)
THEOREM OneContentPerVersion == ~SavesTear => (GossipSpec => []AgreeOnVersion)
<1> SUFFICES ASSUME ~SavesTear  PROVE GossipSpec => []AgreeOnVersion
  OBVIOUS
<1>1. GossipInit => IInv
  BY Initially
<1>2. IInv /\ [GossipNext]_gossipVars => IInv'
  BY Inductive
<1>3. IInv => AgreeOnVersion
  BY DEF IInv
<1> QED
  BY <1>1, <1>2, <1>3, PTL DEF GossipSpec

(* What a machine has on disk of a mod is never replaced by an older       *)
(* release: Restore and Accept agree on what the newest one is, so a       *)
(* restart does not open a window for a late record.                       *)
THEOREM NoWayBack == ~SavesTear => (GossipSpec => StoreNeverGoesBack)
<1> SUFFICES ASSUME ~SavesTear  PROVE GossipSpec => StoreNeverGoesBack
  OBVIOUS
<1>1. GossipInit => IInv
  BY Initially
<1>2. IInv /\ [GossipNext]_gossipVars => IInv'
  BY Inductive
<1>3. IInv /\ [GossipNext]_gossipVars =>
        [\A n \in Nodes, m \in Mods : store'[n][m].version >= store[n][m].version]_store
  <2> SUFFICES ASSUME IInv, GossipNext
               PROVE  \A n \in Nodes, m \in Mods : store'[n][m].version >= store[n][m].version
    BY DEF gossipVars, holdVars
  <2> QED
    BY HoldStep DEF IInv
<1> QED
  BY <1>1, <1>2, <1>3, PTL DEF GossipSpec, StoreNeverGoesBack
=============================================================================
