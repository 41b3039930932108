------------------------------- MODULE Throttle -------------------------------
(***************************************************************************)
(* The budgets AnnounceExchange keeps for the peers it hears: a bucket of  *)
(* records that refills with time, a ladder of blocks for the peers that   *)
(* overdraw it or break the protocol (PeerAnnounceBudget), and a table of  *)
(* limited size from which the least harmful budget makes way.             *)
(***************************************************************************)
EXTENDS Naturals, FiniteSets

CONSTANTS
  Peers,
  MaxTracked,     \* MAXIMUM_TRACKED_PEERS
  Burst,          \* BURST_ALLOWANCE
  RefillInterval, \* REFILL_INTERVAL
  FirstBlock,     \* FIRST_BLOCK
  Multiplier,     \* BLOCK_MULTIPLIER
  MaxBlock,       \* MAXIMUM_BLOCK
  Threshold,      \* SUSTAINED_OVERAGE_THRESHOLD
  CleanInterval,  \* CLEAN_INTERVAL
  MaxTime,        \* bound: how long the session is watched
  Crowded         \* whether a peer no budget was found for may break the protocol

ASSUME ThrottleBounds ==
  /\ MaxTracked \in Nat \ {0} /\ Burst \in Nat \ {0} /\ RefillInterval \in Nat \ {0}
  /\ FirstBlock \in Nat \ {0} /\ Multiplier \in Nat \ {0}
  /\ MaxBlock \in Nat /\ MaxBlock >= FirstBlock
  /\ Threshold \in Nat \ {0} /\ CleanInterval \in Nat /\ MaxTime \in Nat /\ Crowded \in BOOLEAN

VARIABLES
  now,      \* the steady clock
  budgets,  \* AnnounceExchange::_budgets, of the peers tracked
  accepted, \* history: records taken per peer since its budget was made
  since,    \* history: when that was
  owed,     \* history: until when a peer was last blocked
  heard     \* history: the peer whose record was taken in this very step

throttleVars == <<now, budgets, accepted, since, owed, heard>>

Lesser(a, b) == IF a < b THEN a ELSE b

Tracked == DOMAIN budgets

\* A new budget: seeded is whether Refill_ ran once.
NewBudget ==
  [allowance |-> Burst, seeded |-> FALSE, refilled |-> 0, until |-> 0,
   next |-> FirstBlock, overage |-> 0, seen |-> 0]

-----------------------------------------------------------------------------
(* PeerAnnounceBudget *)

Blocked(b) == now < b.until

Escalated(b) == b.next # FirstBlock

\* ResetLadderWhenClean_.
Reset(b) ==
  IF Escalated(b) /\ now >= b.until + CleanInterval THEN [b EXCEPT !.next = FirstBlock] ELSE b

\* Refill_: what is left of an interval is lost.
Refill(b) ==
  IF ~b.seeded THEN [b EXCEPT !.seeded = TRUE, !.refilled = now]
  ELSE IF now - b.refilled < RefillInterval THEN b
  ELSE [b EXCEPT !.allowance = Lesser(Burst, @ + (now - b.refilled) \div RefillInterval),
                 !.refilled = now]

Penalised(b) ==
  LET clean == Reset([b EXCEPT !.seen = now])
  IN  [clean EXCEPT !.until = now + clean.next,
                    !.next = Lesser(clean.next * Multiplier, MaxBlock),
                    !.allowance = 0, !.overage = 0]

\* Consume, when the peer is not blocked and its budget has been refilled.
Overdrawn(b) == b.allowance = 0
Spent(b)     == [b EXCEPT !.overage = 0, !.allowance = @ - 1]
Overdraws(b) ==
  IF b.overage + 1 >= Threshold THEN Penalised(b) ELSE [b EXCEPT !.overage = @ + 1]

-----------------------------------------------------------------------------
(* The table *)

(* Broken: a blocked peer may make way too. *)
Candidates_Any == Tracked

Candidates == {p \in Tracked : ~Blocked(budgets[p])}

\* The budget to make way: a clean one if there is one, and of those the one not seen longest.
Victims ==
  LET clean  == {p \in Candidates : ~Escalated(budgets[p])}
      chosen == IF clean # {} THEN clean ELSE Candidates
  IN  {p \in chosen : \A q \in chosen : budgets[p].seen <= budgets[q].seen}

Full == Cardinality(Tracked) >= MaxTracked

\* EnsureBudget_: the tables in which the peer has a budget; there may be none.
Ensured(peer) ==
  IF peer \in Tracked THEN {budgets}
  ELSE LET With(kept) == [p \in kept \union {peer} |-> IF p = peer THEN NewBudget ELSE budgets[p]]
       IN  IF ~Full THEN {With(Tracked)} ELSE {With(Tracked \ {victim}) : victim \in Victims}

\* The history of a peer starts when it is tracked and ends when it makes way.
Remembered(table, counts) == [p \in Peers |-> IF p \in DOMAIN table THEN counts[p] ELSE 0]
Since(peer, table) ==
  Remembered(table, IF peer \in Tracked THEN since ELSE [since EXCEPT ![peer] = now])

\* A block that has run out is owed no more.
Owing(debts, time) == [p \in Peers |-> IF debts[p] > time THEN debts[p] ELSE 0]

-----------------------------------------------------------------------------
(* A record arrives: Ingest *)

Ingest(peer) ==
  \E table \in Ensured(peer) :
    LET b       == [table[peer] EXCEPT !.seen = now]
        ready   == Refill(Reset(b))
        taken   == ~Blocked(b) /\ ~Overdrawn(ready)
        after   == IF Blocked(b) THEN b ELSE IF taken THEN Spent(ready) ELSE Overdraws(ready)
        already == IF peer \in Tracked THEN accepted[peer] ELSE 0
    IN  /\ budgets' = [table EXCEPT ![peer] = after]
        /\ accepted' = Remembered(table, [accepted EXCEPT ![peer] = already + IF taken THEN 1 ELSE 0])
        /\ heard' = IF taken THEN {peer} ELSE {}
        /\ owed' = IF after.until > b.until THEN [owed EXCEPT ![peer] = after.until] ELSE owed
        /\ since' = Since(peer, table)
        /\ UNCHANGED now

\* No budget is found: the record is dropped.
Throttled(peer) ==
  /\ Ensured(peer) = {}
  /\ heard' = {}
  /\ UNCHANGED <<now, budgets, accepted, since, owed>>

\* A message that breaks the protocol: AnnounceGossipPeerPlugin::PenaliseAndDisconnect_.
Penalise(peer) ==
  /\ heard' = {}
  /\ \/ \E table \in Ensured(peer) :
          LET after == Penalised(table[peer])
          IN  /\ budgets' = [table EXCEPT ![peer] = after]
              /\ owed' = [owed EXCEPT ![peer] = after.until]
              /\ accepted' = Remembered(table, accepted)
              /\ since' = Since(peer, table)
     \/ /\ Crowded /\ Ensured(peer) = {}
        /\ owed' = [owed EXCEPT ![peer] = now + FirstBlock]
        /\ UNCHANGED <<budgets, accepted, since>>
  /\ UNCHANGED now

Wait ==
  /\ now < MaxTime /\ now' = now + 1 /\ heard' = {}
  /\ owed' = Owing(owed, now')
  /\ UNCHANGED <<budgets, accepted, since>>

-----------------------------------------------------------------------------
ThrottleInit ==
  /\ now = 0 /\ budgets = [p \in {} |-> NewBudget]
  /\ accepted = [p \in Peers |-> 0] /\ since = [p \in Peers |-> 0]
  /\ owed = [p \in Peers |-> 0] /\ heard = {}

ThrottleNext ==
  \/ Wait
  \/ \E peer \in Peers : Ingest(peer) \/ Throttled(peer) \/ Penalise(peer)

ThrottleSpec == ThrottleInit /\ [][ThrottleNext]_throttleVars

-----------------------------------------------------------------------------
(* Properties *)

(* "blocked peer survives eviction pressure" (AnnounceExchangeTests): once *)
(* a peer was blocked no record of its is taken until the block has run    *)
(* out, however many other peers come and take the places in the table.    *)
BlockIsServed == \A p \in heard : owed[p] = 0

(* A tracked peer is heard at the rate of the bucket and no faster: a      *)
(* burst, and one record more per interval, blocks and refills included.   *)
RateIsBounded ==
  \A p \in Tracked : accepted[p] <= Burst + (now - since[p]) \div RefillInterval
=============================================================================
