-------------------------- MODULE InstallFlowProofs --------------------------
(***************************************************************************)
(* The fetch session first, for every number of chunks, attempts and       *)
(* waiting writes and whichever windows of Poll are open: no torrent and   *)
(* no destination is left behind. Then the install service over it: an     *)
(* install ends in one outcome, counted once, and puts no file in place    *)
(* whose content has not arrived, for every number of mods. The second     *)
(* holds while Poll is not preempted between its critical sections, and    *)
(* because a fetch is not complete before it was seen complete twice.      *)
(***************************************************************************)
EXTENDS InstallFlow, FunctionTheorems, FiniteSetTheorems, TLAPS

BeginSteps == {"check", "reserve", "abandon", "register", "add", "adopt", "begun", "refused"}

(* Where a call stands: only one Begin runs, it has cancelled the fetch    *)
(* before it by the time it reserves, and it has an attempt left to add.   *)
CallOK ==
  /\ \A t \in Threads : pc[t] \in BeginSteps => op[t] = "begin"
  /\ \A t \in Threads : pc[t] = "idle" <=> op[t] = "none"
  /\ \A t, u \in Threads : op[t] = "begin" /\ op[u] = "begin" => t = u
  /\ \A t \in Threads : op[t] = "begin" /\ pc[t] \in {"release", "reserve", "abandon", "register", "add", "adopt"}
                          => fetching = None
  /\ \A t \in Threads : op[t] = "begin" /\ pc[t] \notin {"adopt", "begun", "refused"}
                          => attempt < MaxAttempts
  /\ \A t \in Threads : pc[t] = "adopt" => attempt # 0

IInv ==
  /\ TypeOK
  /\ CallOK
  /\ PendingClearHasRemoval
  /\ LiveTorrentTracked
  /\ NoLeakedDestinations

-----------------------------------------------------------------------------
(* The steps by what takes them: a call of a thread, Poll, or the swarm.   *)
LEMMA StepCases ==
  ASSUME Next
  PROVE  \/ \E t \in Threads : (\E asked \in Request : CallBegin(t, asked)) \/ CallCancel(t)
                              \/ Call(t) \/ Return(t)
         \/ Poll
         \/ Swarm
<1>1. ManifestRequest \in Request
  BY DEF ManifestRequest, Request, Pieces
<1>2. \A chunks \in SUBSET Chunks : ContentRequest(chunks) \in Request
  BY DEF ContentRequest, Request, Pieces
<1> QED
  BY <1>1, <1>2 DEF Next, Threads

(* The variables keep their types. *)
LEMMA TypeStep ==
  ASSUME TypeOK, CallOK, [Next]_vars
  PROVE  TypeOK'
<1> USE BoundsAssumption DEF TypeOK, Attempts, Handles, None, Steps, Threads
<1>1. ASSUME NEW t \in Threads, NEW asked \in Request, CallBegin(t, asked)  PROVE TypeOK'
  BY <1>1 DEF CallBegin, Goto, At, fetchVars, locatorVars, swarmVars, diskVars, readVars
<1>2. ASSUME NEW t \in Threads, CallCancel(t)  PROVE TypeOK'
  BY <1>2 DEF CallCancel, Goto, At, fetchVars, locatorVars, swarmVars, diskVars, readVars
<1>3. ASSUME NEW t \in Threads, Check(t)  PROVE TypeOK'
  BY <1>3 DEF Check, Goto, At, fetchVars, locatorVars, swarmVars, diskVars, readVars
<1>4. ASSUME NEW t \in Threads, Retire(t)  PROVE TypeOK'
  <2>1. phase' \in Phases
    BY <1>4 DEF Retire, Phases
  <2>2. removing' \subseteq Attempts /\ clearPending' \in BOOLEAN /\ clearNow' \in [Threads -> BOOLEAN]
    BY <1>4 DEF Retire
  <2>3. fetching' \in Handles /\ settledPolls' \in 0..Confirmations /\ wanted' \subseteq Pieces
    BY <1>4 DEF Retire
  <2>4. pc' \in [Threads -> Steps] /\ seen' \in [Threads -> Handles]
    BY <1>4 DEF Retire, Goto
  <2> QED
    BY <1>4, <2>1, <2>2, <2>3, <2>4 DEF Retire, locatorVars, swarmVars, diskVars
<1>5. ASSUME NEW t \in Threads, Release(t)  PROVE TypeOK'
  BY <1>5 DEF Release, Goto, Ends, At, fetchVars, diskVars
<1>6. ASSUME NEW t \in Threads, Reserve(t)  PROVE TypeOK'
  <2>1. phase' \in Phases
    BY <1>6 DEF Reserve, Phases
  <2>2. wanted' \subseteq Pieces
    BY <1>6 DEF Reserve, Request
  <2>3. settledPolls' \in 0..Confirmations
    BY <1>6 DEF Reserve
  <2>4. prioritised' \in BOOLEAN
    BY <1>6, Zenon DEF Reserve
  <2>5. pc' \in [Threads -> Steps]
    BY <1>6 DEF Reserve, Goto
  <2> QED
    BY <1>6, <2>1, <2>2, <2>3, <2>4, <2>5 DEF Reserve, locatorVars, swarmVars, diskVars, readVars
<1>7. ASSUME NEW t \in Threads, AbandonPendingClear(t)  PROVE TypeOK'
  BY <1>7 DEF AbandonPendingClear, Goto, At, swarmVars, diskVars, readVars
<1>8. ASSUME NEW t \in Threads, Register(t)  PROVE TypeOK'
  <2>1. op[t] = "begin" /\ attempt < MaxAttempts
    BY <1>8 DEF CallOK, Register, At, BeginSteps
  <2>2. PICK c \in request.place :
          /\ dest' = dest \cup {<<attempt + 1, c>>}
          /\ request' = [request EXCEPT !.place = @ \ {c}]
    BY <1>8 DEF Register
  <2>3. c \in Chunks /\ attempt + 1 \in Attempts
    BY <2>1, <2>2 DEF Request
  <2>4. dest' \subseteq Attempts \X Chunks
    BY <2>2, <2>3
  <2>5. request' \in Request
    BY <2>2 DEF Request
  <2> QED
    BY <1>8, <2>4, <2>5 DEF Register, fetchVars, swarmVars, diskVars, readVars
<1>9. ASSUME NEW t \in Threads, SetFetchStaging(t)  PROVE TypeOK'
  BY <1>9 DEF SetFetchStaging, Goto, At, fetchVars, swarmVars, diskVars, readVars
<1>10. ASSUME NEW t \in Threads, GiveUp(t)  PROVE TypeOK'
  <2>1. phase' \in Phases
    BY <1>10 DEF GiveUp, Phases
  <2>2. dest' \subseteq Attempts \X Chunks /\ wanted' \subseteq Pieces
    BY <1>10 DEF GiveUp
  <2>3. fetching' \in Handles /\ settledPolls' \in 0..Confirmations
    BY <1>10 DEF GiveUp
  <2>4. pc' \in [Threads -> Steps]
    BY <1>10 DEF GiveUp, Goto
  <2> QED
    BY <1>10, <2>1, <2>2, <2>3, <2>4 DEF GiveUp, swarmVars, diskVars, readVars
<1>11. ASSUME NEW t \in Threads, AddTorrent(t)  PROVE TypeOK'
  <2>1. attempt + 1 \in Attempts
    BY <1>11 DEF CallOK, AddTorrent, At, BeginSteps
  <2> QED
    BY <1>11, <2>1 DEF AddTorrent, Goto, At, fetchVars, locatorVars, diskVars, readVars
<1>12. ASSUME NEW t \in Threads, Adopt(t)  PROVE TypeOK'
  BY <1>12 DEF Adopt, Goto, At, locatorVars, swarmVars, diskVars, readVars
<1>13. ASSUME NEW t \in Threads, Return(t)  PROVE TypeOK'
  BY <1>13 DEF Return, Ends, Goto, At, NoRequest, Request, fetchVars, locatorVars, swarmVars,
     diskVars, readVars
<1>14. CASE Route \/ RouteReads \/ RouteActs
  <2>1. CASE Route
    BY <2>1 DEF Route, PollStarts, HandleAlerts, ConfirmRemoval, FetchFails, Goto, At, Phases,
       Busy, locatorVars, diskVars, readVars
  <2>2. CASE RouteReads
    <3>1. /\ seen' \in [Threads -> Handles] /\ pc' \in [Threads -> Steps]
          /\ op' \in [Threads -> {"none", "begin", "cancel", "poll"}]
      BY <2>2 DEF RouteReads, Goto
    <3> QED
      BY <2>2, <3>1 DEF RouteReads, fetchVars, locatorVars, swarmVars, diskVars
  <2>3. CASE RouteActs
    <3>1. /\ seen' \in [Threads -> Handles] /\ pc' \in [Threads -> Steps]
          /\ op' \in [Threads -> {"none", "begin", "cancel", "poll"}] /\ phase' \in Phases
      BY <2>3 DEF RouteActs, HandleAlerts, Goto, Phases
    <3>2. removing' \subseteq Attempts /\ clearPending' \in BOOLEAN /\ alerts' \subseteq Alert
      BY <2>3 DEF RouteActs, HandleAlerts
    <3> QED
      BY <2>3, <3>1, <3>2 DEF RouteActs, HandleAlerts, locatorVars, diskVars
  <2> QED
    BY <1>14, <2>1, <2>2, <2>3
<1>15. CASE ClearConfirmed
  BY <1>15 DEF ClearConfirmed, Goto, At, fetchVars, swarmVars, diskVars, readVars
<1>16. CASE Throttle
  BY <1>16 DEF Throttle, Ends, Goto, At, fetchVars, locatorVars, swarmVars, diskVars, readVars
<1>17. CASE Refresh
  BY <1>17 DEF Refresh, Ends, Goto, At, fetchVars, locatorVars, swarmVars, diskVars
<1>18. CASE ApplyPriorities
  <2>1. phase' \in Phases
    BY <1>18 DEF ApplyPriorities, Phases
  <2>2. prio' \in [Attempts -> SUBSET Pieces]
    <3>1. prio' = prio \/ prio' = [prio EXCEPT ![seen["ui"]] = wanted]
      BY <1>18 DEF ApplyPriorities
    <3> QED
      BY <3>1
  <2>3. prioritised' \in BOOLEAN /\ pc' \in [Threads -> Steps]
    BY <1>18 DEF ApplyPriorities, Goto
  <2> QED
    BY <1>18, <2>1, <2>2, <2>3 DEF ApplyPriorities, locatorVars, diskVars, readVars
<1>19. CASE Update
  BY <1>19 DEF Update, UpdateWith, Ends, Goto, At, Phases, locatorVars, swarmVars, diskVars
<1>20. ASSUME NEW a \in Attempts, MetadataArrives(a)  PROVE TypeOK'
  BY <1>20 DEF MetadataArrives, fetchVars, locatorVars, diskVars, callVars, readVars
<1>21. ASSUME NEW a \in Attempts, NEW p \in Pieces, Receive(a, p)  PROVE TypeOK'
  <2>1. [of |-> a, piece |-> p, tracked |-> staging] \in Job
    BY DEF Job
  <2>2. jobs' \in Seq(Job)
    BY <1>21, <2>1 DEF Receive
  <2>3. counted' \in [Attempts -> SUBSET Pieces]
    BY <1>21 DEF Receive
  <2> QED
    BY <1>21, <2>2, <2>3 DEF Receive, fetchVars, locatorVars, callVars, readVars
<1>22. CASE RunWrite
  <2> DEFINE job == Head(jobs)
  <2>1. job \in Job /\ jobs' \in Seq(Job)
    BY <1>22 DEF RunWrite, RunWriteWith
  <2>2. job.of \in Attempts /\ job.piece \in Pieces
    BY <2>1 DEF Job
  <2>3. Placements(job) \subseteq Attempts \X Pieces
    BY <2>2 DEF Placements, Pieces
  <2>4. [kind |-> "failed", of |-> job.of] \in Alert
    BY <2>2 DEF Alert
  <2>5. landed' \subseteq Attempts \X Pieces /\ alerts' \subseteq Alert
    BY <1>22, <2>3, <2>4 DEF RunWrite, RunWriteWith
  <2>6. counted' \in [Attempts -> SUBSET Pieces]
    <3>1. counted' = counted \/ counted' = [counted EXCEPT ![job.of] = @ \ {job.piece}]
      BY <1>22 DEF RunWrite, RunWriteWith
    <3>2. counted[job.of] \ {job.piece} \in SUBSET Pieces
      BY <2>2
    <3> HIDE DEF job
    <3> QED
      BY <3>1, <3>2, <2>2
  <2>7. pending' \in Int
    BY <1>22 DEF RunWrite, RunWriteWith
  <2> QED
    BY <1>22, <2>1, <2>5, <2>6, <2>7 DEF RunWrite, RunWriteWith, fetchVars, locatorVars, callVars,
       readVars
<1>23. ASSUME NEW a \in Attempts, TorrentFails(a)  PROVE TypeOK'
  BY <1>23 DEF TorrentFails, Alert, fetchVars, locatorVars, diskVars, callVars, readVars
<1>24. ASSUME NEW a \in Attempts, TorrentRemoved(a)  PROVE TypeOK'
  BY <1>24 DEF TorrentRemoved, Alert, fetchVars, locatorVars, diskVars, callVars, readVars
<1>25. CASE UNCHANGED vars
  BY <1>25 DEF vars, fetchVars, locatorVars, swarmVars, diskVars, callVars, readVars
<1> QED
  BY <1>1, <1>2, <1>3, <1>4, <1>5, <1>6, <1>7, <1>8, <1>9, <1>10, <1>11, <1>12, <1>13, <1>14,
     <1>15, <1>16, <1>17, <1>18, <1>19, <1>20, <1>21, <1>22, <1>23, <1>24, <1>25, StepCases
  DEF Call, Poll, Swarm

(* A step keeps every call where CallOK says it stands.                    *)
LEMMA CallStep ==
  ASSUME TypeOK, CallOK, [Next]_vars
  PROVE  CallOK'
<1> USE BoundsAssumption DEF TypeOK, CallOK, Attempts, Handles, None, Steps, Threads, BeginSteps
<1>1. ASSUME NEW t \in Threads, NEW asked \in Request, CallBegin(t, asked)  PROVE CallOK'
  BY <1>1 DEF CallBegin, Goto, At, fetchVars, locatorVars, swarmVars, diskVars, callVars, readVars
<1>2. ASSUME NEW t \in Threads, CallCancel(t)  PROVE CallOK'
  BY <1>2 DEF CallCancel, Goto, At, fetchVars, locatorVars, swarmVars, diskVars, callVars, readVars
<1>3. ASSUME NEW t \in Threads, Check(t)  PROVE CallOK'
  BY <1>3 DEF Check, Goto, At, fetchVars, locatorVars, swarmVars, diskVars, callVars, readVars
<1>4. ASSUME NEW t \in Threads, Retire(t)  PROVE CallOK'
  BY <1>4 DEF Retire, Goto, At, fetchVars, locatorVars, swarmVars, diskVars, callVars, readVars
<1>5. ASSUME NEW t \in Threads, Release(t)  PROVE CallOK'
  BY <1>5 DEF Release, Goto, Ends, At, fetchVars, locatorVars, swarmVars, diskVars, callVars,
     readVars
<1>6. ASSUME NEW t \in Threads, Reserve(t)  PROVE CallOK'
  BY <1>6 DEF Reserve, Goto, At, fetchVars, locatorVars, swarmVars, diskVars, callVars, readVars
<1>7. ASSUME NEW t \in Threads, AbandonPendingClear(t)  PROVE CallOK'
  BY <1>7 DEF AbandonPendingClear, Goto, At, fetchVars, locatorVars, swarmVars, diskVars,
     callVars, readVars
<1>8. ASSUME NEW t \in Threads, Register(t)  PROVE CallOK'
  BY <1>8 DEF Register, At, fetchVars, locatorVars, swarmVars, diskVars, callVars, readVars
<1>9. ASSUME NEW t \in Threads, SetFetchStaging(t)  PROVE CallOK'
  BY <1>9 DEF SetFetchStaging, Goto, At, fetchVars, locatorVars, swarmVars, diskVars, callVars,
     readVars
<1>10. ASSUME NEW t \in Threads, GiveUp(t)  PROVE CallOK'
  BY <1>10 DEF GiveUp, Goto, At, fetchVars, locatorVars, swarmVars, diskVars, callVars, readVars
<1>11. ASSUME NEW t \in Threads, AddTorrent(t)  PROVE CallOK'
  BY <1>11 DEF AddTorrent, Goto, At, fetchVars, locatorVars, swarmVars, diskVars, callVars, readVars
<1>12. ASSUME NEW t \in Threads, Adopt(t)  PROVE CallOK'
  BY <1>12 DEF Adopt, Goto, At, fetchVars, locatorVars, swarmVars, diskVars, callVars, readVars
<1>13. ASSUME NEW t \in Threads, Return(t)  PROVE CallOK'
  BY <1>13 DEF Return, Goto, Ends, At, fetchVars, locatorVars, swarmVars, diskVars, callVars,
     readVars
<1>14. CASE Route \/ RouteReads \/ RouteActs
  <2>1. CASE Route
    BY <2>1 DEF Route, PollStarts, HandleAlerts, ConfirmRemoval, FetchFails, Goto, At, fetchVars,
       locatorVars, swarmVars, diskVars, callVars, readVars
  <2>2. CASE RouteReads
    BY <2>2 DEF RouteReads, PollStarts, Goto, At, fetchVars, locatorVars, swarmVars, diskVars,
       callVars, readVars
  <2>3. CASE RouteActs
    BY <2>3 DEF RouteActs, HandleAlerts, ConfirmRemoval, FetchFails, Goto, At, fetchVars,
       locatorVars, swarmVars, diskVars, callVars, readVars
  <2> QED
    BY <1>14, <2>1, <2>2, <2>3
<1>15. CASE ClearConfirmed
  BY <1>15 DEF ClearConfirmed, Goto, At, fetchVars, locatorVars, swarmVars, diskVars, callVars,
     readVars
<1>16. CASE Throttle
  BY <1>16 DEF Throttle, Ends, Goto, At, fetchVars, locatorVars, swarmVars, diskVars, callVars,
     readVars
<1>17. CASE Refresh
  BY <1>17 DEF Refresh, Ends, Goto, At, fetchVars, locatorVars, swarmVars, diskVars, callVars,
     readVars
<1>18. CASE ApplyPriorities
  BY <1>18 DEF ApplyPriorities, Goto, At, fetchVars, locatorVars, swarmVars, diskVars, callVars,
     readVars
<1>19. CASE Update
  BY <1>19 DEF Update, UpdateWith, Ends, Goto, At, fetchVars, locatorVars, swarmVars, diskVars,
     callVars, readVars
<1>20. ASSUME NEW a \in Attempts, MetadataArrives(a)  PROVE CallOK'
  BY <1>20 DEF MetadataArrives, fetchVars, locatorVars, swarmVars, diskVars, callVars, readVars
<1>21. ASSUME NEW a \in Attempts, NEW p \in Pieces, Receive(a, p)  PROVE CallOK'
  BY <1>21 DEF Receive, fetchVars, locatorVars, swarmVars, diskVars, callVars, readVars
<1>22. CASE RunWrite
  BY <1>22 DEF RunWrite, RunWriteWith, fetchVars, locatorVars, swarmVars, diskVars, callVars,
     readVars
<1>23. ASSUME NEW a \in Attempts, TorrentFails(a)  PROVE CallOK'
  BY <1>23 DEF TorrentFails, fetchVars, locatorVars, swarmVars, diskVars, callVars, readVars
<1>24. ASSUME NEW a \in Attempts, TorrentRemoved(a)  PROVE CallOK'
  BY <1>24 DEF TorrentRemoved, fetchVars, locatorVars, swarmVars, diskVars, callVars, readVars
<1>25. CASE UNCHANGED vars
  BY <1>25 DEF vars, fetchVars, locatorVars, swarmVars, diskVars, callVars, readVars
<1> QED
  BY <1>1, <1>2, <1>3, <1>4, <1>5, <1>6, <1>7, <1>8, <1>9, <1>10, <1>11, <1>12, <1>13, <1>14,
     <1>15, <1>16, <1>17, <1>18, <1>19, <1>20, <1>21, <1>22, <1>23, <1>24, <1>25, StepCases
  DEF Call, Poll, Swarm

(* A pending clear keeps a removal to wait for. *)
LEMMA PendingStep ==
  ASSUME TypeOK, PendingClearHasRemoval, [Next]_vars
  PROVE  PendingClearHasRemoval'
<1> USE BoundsAssumption DEF PendingClearHasRemoval
<1>1. ASSUME NEW t \in Threads, NEW asked \in Request, CallBegin(t, asked)  PROVE PendingClearHasRemoval'
  BY <1>1 DEF CallBegin, Goto, At, fetchVars, locatorVars, swarmVars, diskVars, callVars, readVars
<1>2. ASSUME NEW t \in Threads, CallCancel(t)  PROVE PendingClearHasRemoval'
  BY <1>2 DEF CallCancel, Goto, At, fetchVars, locatorVars, swarmVars, diskVars, callVars, readVars
<1>3. ASSUME NEW t \in Threads, Check(t)  PROVE PendingClearHasRemoval'
  BY <1>3 DEF Check, Goto, At, fetchVars, locatorVars, swarmVars, diskVars, callVars, readVars
<1>4. ASSUME NEW t \in Threads, Retire(t)  PROVE PendingClearHasRemoval'
  BY <1>4 DEF Retire, Goto, At, fetchVars, locatorVars, swarmVars, diskVars, callVars, readVars
<1>5. ASSUME NEW t \in Threads, Release(t)  PROVE PendingClearHasRemoval'
  BY <1>5 DEF Release, Goto, Ends, At, fetchVars, locatorVars, swarmVars, diskVars, callVars,
     readVars
<1>6. ASSUME NEW t \in Threads, Reserve(t)  PROVE PendingClearHasRemoval'
  BY <1>6 DEF Reserve, Goto, At, fetchVars, locatorVars, swarmVars, diskVars, callVars, readVars
<1>7. ASSUME NEW t \in Threads, AbandonPendingClear(t)  PROVE PendingClearHasRemoval'
  BY <1>7 DEF AbandonPendingClear, Goto, At, fetchVars, locatorVars, swarmVars, diskVars,
     callVars, readVars
<1>8. ASSUME NEW t \in Threads, Register(t)  PROVE PendingClearHasRemoval'
  BY <1>8 DEF Register, At, fetchVars, locatorVars, swarmVars, diskVars, callVars, readVars
<1>9. ASSUME NEW t \in Threads, SetFetchStaging(t)  PROVE PendingClearHasRemoval'
  BY <1>9 DEF SetFetchStaging, Goto, At, fetchVars, locatorVars, swarmVars, diskVars, callVars,
     readVars
<1>10. ASSUME NEW t \in Threads, GiveUp(t)  PROVE PendingClearHasRemoval'
  BY <1>10 DEF GiveUp, Goto, At, fetchVars, locatorVars, swarmVars, diskVars, callVars, readVars
<1>11. ASSUME NEW t \in Threads, AddTorrent(t)  PROVE PendingClearHasRemoval'
  BY <1>11 DEF AddTorrent, Goto, At, fetchVars, locatorVars, swarmVars, diskVars, callVars, readVars
<1>12. ASSUME NEW t \in Threads, Adopt(t)  PROVE PendingClearHasRemoval'
  BY <1>12 DEF Adopt, Goto, At, fetchVars, locatorVars, swarmVars, diskVars, callVars, readVars
<1>13. ASSUME NEW t \in Threads, Return(t)  PROVE PendingClearHasRemoval'
  BY <1>13 DEF Return, Goto, Ends, At, fetchVars, locatorVars, swarmVars, diskVars, callVars,
     readVars
<1>14. CASE Route \/ RouteReads \/ RouteActs
  <2>1. CASE Route
    BY <2>1 DEF Route, PollStarts, HandleAlerts, ConfirmRemoval, FetchFails, Goto, At, fetchVars,
       locatorVars, swarmVars, diskVars, callVars, readVars
  <2>2. CASE RouteReads
    BY <2>2 DEF RouteReads, PollStarts, Goto, At, fetchVars, locatorVars, swarmVars, diskVars,
       callVars, readVars
  <2>3. CASE RouteActs
    BY <2>3 DEF RouteActs, HandleAlerts, ConfirmRemoval, FetchFails, Goto, At, fetchVars,
       locatorVars, swarmVars, diskVars, callVars, readVars
  <2> QED
    BY <1>14, <2>1, <2>2, <2>3
<1>15. CASE ClearConfirmed
  BY <1>15 DEF ClearConfirmed, Goto, At, fetchVars, locatorVars, swarmVars, diskVars, callVars,
     readVars
<1>16. CASE Throttle
  BY <1>16 DEF Throttle, Ends, Goto, At, fetchVars, locatorVars, swarmVars, diskVars, callVars,
     readVars
<1>17. CASE Refresh
  BY <1>17 DEF Refresh, Ends, Goto, At, fetchVars, locatorVars, swarmVars, diskVars, callVars,
     readVars
<1>18. CASE ApplyPriorities
  BY <1>18 DEF ApplyPriorities, Goto, At, fetchVars, locatorVars, swarmVars, diskVars, callVars,
     readVars
<1>19. CASE Update
  BY <1>19 DEF Update, UpdateWith, Ends, Goto, At, fetchVars, locatorVars, swarmVars, diskVars,
     callVars, readVars
<1>20. ASSUME NEW a \in Attempts, MetadataArrives(a)  PROVE PendingClearHasRemoval'
  BY <1>20 DEF MetadataArrives, fetchVars, locatorVars, swarmVars, diskVars, callVars, readVars
<1>21. ASSUME NEW a \in Attempts, NEW p \in Pieces, Receive(a, p)  PROVE PendingClearHasRemoval'
  BY <1>21 DEF Receive, fetchVars, locatorVars, swarmVars, diskVars, callVars, readVars
<1>22. CASE RunWrite
  BY <1>22 DEF RunWrite, RunWriteWith, fetchVars, locatorVars, swarmVars, diskVars, callVars,
     readVars
<1>23. ASSUME NEW a \in Attempts, TorrentFails(a)  PROVE PendingClearHasRemoval'
  BY <1>23 DEF TorrentFails, fetchVars, locatorVars, swarmVars, diskVars, callVars, readVars
<1>24. ASSUME NEW a \in Attempts, TorrentRemoved(a)  PROVE PendingClearHasRemoval'
  BY <1>24 DEF TorrentRemoved, fetchVars, locatorVars, swarmVars, diskVars, callVars, readVars
<1>25. CASE UNCHANGED vars
  BY <1>25 DEF vars, fetchVars, locatorVars, swarmVars, diskVars, callVars, readVars
<1> QED
  BY <1>1, <1>2, <1>3, <1>4, <1>5, <1>6, <1>7, <1>8, <1>9, <1>10, <1>11, <1>12, <1>13, <1>14,
     <1>15, <1>16, <1>17, <1>18, <1>19, <1>20, <1>21, <1>22, <1>23, <1>24, <1>25, StepCases
  DEF Call, Poll, Swarm

(* No step orphans a live torrent. *)
LEMMA LiveStep ==
  ASSUME TypeOK, CallOK, LiveTorrentTracked, [Next]_vars
  PROVE  LiveTorrentTracked'
<1> USE BoundsAssumption DEF TypeOK, CallOK, LiveTorrentTracked, Attempts, Handles, None, Steps,
        Threads, BeginSteps
<1>1. ASSUME NEW t \in Threads, NEW asked \in Request, CallBegin(t, asked)  PROVE LiveTorrentTracked'
  BY <1>1 DEF CallBegin, Goto, At, fetchVars, locatorVars, swarmVars, diskVars, callVars, readVars
<1>2. ASSUME NEW t \in Threads, CallCancel(t)  PROVE LiveTorrentTracked'
  BY <1>2 DEF CallCancel, Goto, At, fetchVars, locatorVars, swarmVars, diskVars, callVars, readVars
<1>3. ASSUME NEW t \in Threads, Check(t)  PROVE LiveTorrentTracked'
  BY <1>3 DEF Check, Goto, At, fetchVars, locatorVars, swarmVars, diskVars, callVars, readVars
<1>4. ASSUME NEW t \in Threads, Retire(t)  PROVE LiveTorrentTracked'
  BY <1>4 DEF Retire, Goto, At, fetchVars, locatorVars, swarmVars, diskVars, callVars, readVars
<1>5. ASSUME NEW t \in Threads, Release(t)  PROVE LiveTorrentTracked'
  BY <1>5 DEF Release, Goto, Ends, At, fetchVars, locatorVars, swarmVars, diskVars, callVars,
     readVars
<1>6. ASSUME NEW t \in Threads, Reserve(t)  PROVE LiveTorrentTracked'
  BY <1>6 DEF Reserve, Goto, At, fetchVars, locatorVars, swarmVars, diskVars, callVars, readVars
<1>7. ASSUME NEW t \in Threads, AbandonPendingClear(t)  PROVE LiveTorrentTracked'
  BY <1>7 DEF AbandonPendingClear, Goto, At, fetchVars, locatorVars, swarmVars, diskVars,
     callVars, readVars
<1>8. ASSUME NEW t \in Threads, Register(t)  PROVE LiveTorrentTracked'
  BY <1>8 DEF Register, At, fetchVars, locatorVars, swarmVars, diskVars, callVars, readVars
<1>9. ASSUME NEW t \in Threads, SetFetchStaging(t)  PROVE LiveTorrentTracked'
  BY <1>9 DEF SetFetchStaging, Goto, At, fetchVars, locatorVars, swarmVars, diskVars, callVars,
     readVars
<1>10. ASSUME NEW t \in Threads, GiveUp(t)  PROVE LiveTorrentTracked'
  BY <1>10 DEF GiveUp, Goto, At, fetchVars, locatorVars, swarmVars, diskVars, callVars, readVars
<1>11. ASSUME NEW t \in Threads, AddTorrent(t)  PROVE LiveTorrentTracked'
  BY <1>11 DEF AddTorrent, Goto, At, fetchVars, locatorVars, swarmVars, diskVars, callVars, readVars
<1>12. ASSUME NEW t \in Threads, Adopt(t)  PROVE LiveTorrentTracked'
  BY <1>12 DEF Adopt, Goto, At, fetchVars, locatorVars, swarmVars, diskVars, callVars, readVars
<1>13. ASSUME NEW t \in Threads, Return(t)  PROVE LiveTorrentTracked'
  BY <1>13 DEF Return, Goto, Ends, At, fetchVars, locatorVars, swarmVars, diskVars, callVars,
     readVars
<1>14. CASE Route \/ RouteReads \/ RouteActs
  <2>1. CASE Route
    BY <2>1 DEF Route, PollStarts, HandleAlerts, ConfirmRemoval, FetchFails, Goto, At, fetchVars,
       locatorVars, swarmVars, diskVars, callVars, readVars
  <2>2. CASE RouteReads
    BY <2>2 DEF RouteReads, PollStarts, Goto, At, fetchVars, locatorVars, swarmVars, diskVars,
       callVars, readVars
  <2>3. CASE RouteActs
    BY <2>3 DEF RouteActs, HandleAlerts, ConfirmRemoval, FetchFails, Goto, At, fetchVars,
       locatorVars, swarmVars, diskVars, callVars, readVars
  <2> QED
    BY <1>14, <2>1, <2>2, <2>3
<1>15. CASE ClearConfirmed
  BY <1>15 DEF ClearConfirmed, Goto, At, fetchVars, locatorVars, swarmVars, diskVars, callVars,
     readVars
<1>16. CASE Throttle
  BY <1>16 DEF Throttle, Ends, Goto, At, fetchVars, locatorVars, swarmVars, diskVars, callVars,
     readVars
<1>17. CASE Refresh
  BY <1>17 DEF Refresh, Ends, Goto, At, fetchVars, locatorVars, swarmVars, diskVars, callVars,
     readVars
<1>18. CASE ApplyPriorities
  BY <1>18 DEF ApplyPriorities, Goto, At, fetchVars, locatorVars, swarmVars, diskVars, callVars,
     readVars
<1>19. CASE Update
  BY <1>19 DEF Update, UpdateWith, Ends, Goto, At, fetchVars, locatorVars, swarmVars, diskVars,
     callVars, readVars
<1>20. ASSUME NEW a \in Attempts, MetadataArrives(a)  PROVE LiveTorrentTracked'
  BY <1>20 DEF MetadataArrives, fetchVars, locatorVars, swarmVars, diskVars, callVars, readVars
<1>21. ASSUME NEW a \in Attempts, NEW p \in Pieces, Receive(a, p)  PROVE LiveTorrentTracked'
  BY <1>21 DEF Receive, fetchVars, locatorVars, swarmVars, diskVars, callVars, readVars
<1>22. CASE RunWrite
  BY <1>22 DEF RunWrite, RunWriteWith, fetchVars, locatorVars, swarmVars, diskVars, callVars,
     readVars
<1>23. ASSUME NEW a \in Attempts, TorrentFails(a)  PROVE LiveTorrentTracked'
  BY <1>23 DEF TorrentFails, fetchVars, locatorVars, swarmVars, diskVars, callVars, readVars
<1>24. ASSUME NEW a \in Attempts, TorrentRemoved(a)  PROVE LiveTorrentTracked'
  BY <1>24 DEF TorrentRemoved, fetchVars, locatorVars, swarmVars, diskVars, callVars, readVars
<1>25. CASE UNCHANGED vars
  BY <1>25 DEF vars, fetchVars, locatorVars, swarmVars, diskVars, callVars, readVars
<1> QED
  BY <1>1, <1>2, <1>3, <1>4, <1>5, <1>6, <1>7, <1>8, <1>9, <1>10, <1>11, <1>12, <1>13, <1>14,
     <1>15, <1>16, <1>17, <1>18, <1>19, <1>20, <1>21, <1>22, <1>23, <1>24, <1>25, StepCases
  DEF Call, Poll, Swarm

(* No step leaves destinations behind that nobody is bound to clear. *)
LEMMA LeakStep ==
  ASSUME TypeOK, CallOK, PendingClearHasRemoval, NoLeakedDestinations, [Next]_vars
  PROVE  NoLeakedDestinations'
<1> USE BoundsAssumption DEF TypeOK, CallOK, PendingClearHasRemoval, NoLeakedDestinations,
        ClearIsDue, Attempts, Handles, None, Steps, Threads, BeginSteps
<1>1. ASSUME NEW t \in Threads, NEW asked \in Request, CallBegin(t, asked)  PROVE NoLeakedDestinations'
  BY <1>1 DEF CallBegin, Goto, At, fetchVars, locatorVars, swarmVars, diskVars, callVars, readVars
<1>2. ASSUME NEW t \in Threads, CallCancel(t)  PROVE NoLeakedDestinations'
  BY <1>2 DEF CallCancel, Goto, At, fetchVars, locatorVars, swarmVars, diskVars, callVars, readVars
<1>3. ASSUME NEW t \in Threads, Check(t)  PROVE NoLeakedDestinations'
  BY <1>3 DEF Check, Goto, At, fetchVars, locatorVars, swarmVars, diskVars, callVars, readVars
<1>4. ASSUME NEW t \in Threads, Retire(t)  PROVE NoLeakedDestinations'
  BY <1>4 DEF Retire, Goto, At, fetchVars, locatorVars, swarmVars, diskVars, callVars, readVars
<1>5. ASSUME NEW t \in Threads, Release(t)  PROVE NoLeakedDestinations'
  BY <1>5 DEF Release, Goto, Ends, At, fetchVars, locatorVars, swarmVars, diskVars, callVars,
     readVars
<1>6. ASSUME NEW t \in Threads, Reserve(t)  PROVE NoLeakedDestinations'
  BY <1>6 DEF Reserve, Goto, At, fetchVars, locatorVars, swarmVars, diskVars, callVars, readVars
<1>7. ASSUME NEW t \in Threads, AbandonPendingClear(t)  PROVE NoLeakedDestinations'
  BY <1>7 DEF AbandonPendingClear, Goto, At, fetchVars, locatorVars, swarmVars, diskVars,
     callVars, readVars
<1>8. ASSUME NEW t \in Threads, Register(t)  PROVE NoLeakedDestinations'
  BY <1>8 DEF Register, At, fetchVars, locatorVars, swarmVars, diskVars, callVars, readVars
<1>9. ASSUME NEW t \in Threads, SetFetchStaging(t)  PROVE NoLeakedDestinations'
  BY <1>9 DEF SetFetchStaging, Goto, At, fetchVars, locatorVars, swarmVars, diskVars, callVars,
     readVars
<1>10. ASSUME NEW t \in Threads, GiveUp(t)  PROVE NoLeakedDestinations'
  BY <1>10 DEF GiveUp, Goto, At, fetchVars, locatorVars, swarmVars, diskVars, callVars, readVars
<1>11. ASSUME NEW t \in Threads, AddTorrent(t)  PROVE NoLeakedDestinations'
  BY <1>11 DEF AddTorrent, Goto, At, fetchVars, locatorVars, swarmVars, diskVars, callVars, readVars
<1>12. ASSUME NEW t \in Threads, Adopt(t)  PROVE NoLeakedDestinations'
  BY <1>12 DEF Adopt, Goto, At, fetchVars, locatorVars, swarmVars, diskVars, callVars, readVars
<1>13. ASSUME NEW t \in Threads, Return(t)  PROVE NoLeakedDestinations'
  BY <1>13 DEF Return, Goto, Ends, At, fetchVars, locatorVars, swarmVars, diskVars, callVars,
     readVars
<1>14. CASE Route \/ RouteReads \/ RouteActs
  <2>1. CASE Route
    BY <2>1 DEF Route, PollStarts, HandleAlerts, ConfirmRemoval, FetchFails, Goto, At, fetchVars,
       locatorVars, swarmVars, diskVars, callVars, readVars
  <2>2. CASE RouteReads
    BY <2>2 DEF RouteReads, PollStarts, Goto, At, fetchVars, locatorVars, swarmVars, diskVars,
       callVars, readVars
  <2>3. CASE RouteActs
    BY <2>3 DEF RouteActs, HandleAlerts, ConfirmRemoval, FetchFails, Goto, At, fetchVars,
       locatorVars, swarmVars, diskVars, callVars, readVars
  <2> QED
    BY <1>14, <2>1, <2>2, <2>3
<1>15. CASE ClearConfirmed
  BY <1>15 DEF ClearConfirmed, Goto, At, fetchVars, locatorVars, swarmVars, diskVars, callVars,
     readVars
<1>16. CASE Throttle
  BY <1>16 DEF Throttle, Ends, Goto, At, fetchVars, locatorVars, swarmVars, diskVars, callVars,
     readVars
<1>17. CASE Refresh
  BY <1>17 DEF Refresh, Ends, Goto, At, fetchVars, locatorVars, swarmVars, diskVars, callVars,
     readVars
<1>18. CASE ApplyPriorities
  BY <1>18 DEF ApplyPriorities, Goto, At, fetchVars, locatorVars, swarmVars, diskVars, callVars,
     readVars
<1>19. CASE Update
  BY <1>19 DEF Update, UpdateWith, Ends, Goto, At, fetchVars, locatorVars, swarmVars, diskVars,
     callVars, readVars
<1>20. ASSUME NEW a \in Attempts, MetadataArrives(a)  PROVE NoLeakedDestinations'
  BY <1>20 DEF MetadataArrives, fetchVars, locatorVars, swarmVars, diskVars, callVars, readVars
<1>21. ASSUME NEW a \in Attempts, NEW p \in Pieces, Receive(a, p)  PROVE NoLeakedDestinations'
  BY <1>21 DEF Receive, fetchVars, locatorVars, swarmVars, diskVars, callVars, readVars
<1>22. CASE RunWrite
  BY <1>22 DEF RunWrite, RunWriteWith, fetchVars, locatorVars, swarmVars, diskVars, callVars,
     readVars
<1>23. ASSUME NEW a \in Attempts, TorrentFails(a)  PROVE NoLeakedDestinations'
  BY <1>23 DEF TorrentFails, fetchVars, locatorVars, swarmVars, diskVars, callVars, readVars
<1>24. ASSUME NEW a \in Attempts, TorrentRemoved(a)  PROVE NoLeakedDestinations'
  BY <1>24 DEF TorrentRemoved, fetchVars, locatorVars, swarmVars, diskVars, callVars, readVars
<1>25. CASE UNCHANGED vars
  BY <1>25 DEF vars, fetchVars, locatorVars, swarmVars, diskVars, callVars, readVars
<1> QED
  BY <1>1, <1>2, <1>3, <1>4, <1>5, <1>6, <1>7, <1>8, <1>9, <1>10, <1>11, <1>12, <1>13, <1>14,
     <1>15, <1>16, <1>17, <1>18, <1>19, <1>20, <1>21, <1>22, <1>23, <1>24, <1>25, StepCases
  DEF Call, Poll, Swarm

-----------------------------------------------------------------------------
(* An idle session has nothing pending, tracked or placed.                 *)
LEMMA Initially == Init => IInv
<1> SUFFICES ASSUME Init PROVE IInv
  OBVIOUS
<1> USE BoundsAssumption DEF Init, Attempts, Handles, None, Threads, Steps
<1>1. phase \in Phases /\ request \in Request
  BY DEF Phases, NoRequest, Request
<1>2. /\ prio \in [Attempts -> SUBSET Pieces] /\ counted \in [Attempts -> SUBSET Pieces]
      /\ torrent \in [Attempts -> {"absent", "live", "removing", "gone"}]
  OBVIOUS
<1>3. /\ pc \in [Threads -> Steps] /\ op \in [Threads -> {"none", "begin", "cancel", "poll"}]
      /\ seen \in [Threads -> Handles] /\ clearNow \in [Threads -> BOOLEAN]
  OBVIOUS
<1>4. wanted \subseteq Pieces /\ fetching \in Handles /\ attempt \in Handles
  OBVIOUS
<1>9. prioritised \in BOOLEAN /\ clearPending \in BOOLEAN /\ staging \in BOOLEAN
  BY Zenon
<1>5. /\ settledPolls \in 0..Confirmations /\ pending \in Int /\ seenPending \in Int
  OBVIOUS
<1>6. /\ removing \subseteq Attempts /\ dest \subseteq Attempts \X Chunks /\ metadata \subseteq Attempts
      /\ alerts \subseteq Alert /\ jobs \in Seq(Job) /\ landed \subseteq Attempts \X Pieces
  OBVIOUS
<1>7. TypeOK
  BY <1>1, <1>2, <1>3, <1>4, <1>5, <1>6, <1>9 DEF TypeOK
<1>8. CallOK
  BY DEF CallOK, BeginSteps
<1> QED
  BY <1>7, <1>8 DEF IInv, PendingClearHasRemoval, LiveTorrentTracked, NoLeakedDestinations

(* The five lemmas above, together.                                        *)
LEMMA Inductive == IInv /\ [Next]_vars => IInv'
  BY TypeStep, CallStep, PendingStep, LiveStep, LeakStep DEF IInv

(* Everything below is a consequence of the one inductive invariant. *)
THEOREM Invariance == Spec => []IInv
  BY Initially, Inductive, PTL DEF Spec

(* FetchState, the locator, the queue and the calls keep to their types:   *)
(* in particular a confirmation count never exceeds its limit.             *)
THEOREM TypeCorrect == Spec => []TypeOK
<1>1. IInv => TypeOK
  BY DEF IInv
<1> QED
  BY <1>1, Invariance, PTL

(* FetchState::Retire and ConfirmRemoval: no clear is left pending with    *)
(* nothing left to confirm it.                                             *)
THEOREM PendingClearSafe == Spec => []PendingClearHasRemoval
<1>1. IInv => PendingClearHasRemoval
  BY DEF IInv
<1> QED
  BY <1>1, Invariance, PTL

(* Begin, Cancel and Poll between them never lose track of a torrent they  *)
(* have added.                                                             *)
THEOREM NoOrphanTorrent == Spec => []LiveTorrentTracked
<1>1. IInv => LiveTorrentTracked
  BY DEF IInv
<1> QED
  BY <1>1, Invariance, PTL

(* Destinations never outlive their fetch without a clear that is due.     *)
THEOREM NoLeak == Spec => []NoLeakedDestinations
<1>1. IInv => NoLeakedDestinations
  BY DEF IInv
<1> QED
  BY <1>1, Invariance, PTL

-----------------------------------------------------------------------------
(* The backlog.                                                            *)

Tracked(q) == {i \in 1..Len(q) : q[i].tracked}

(* A queue has finitely many tracked writes.                               *)
LEMMA TrackedIsFinite ==
  ASSUME NEW q \in Seq(Job)
  PROVE  IsFiniteSet(Tracked(q)) /\ Cardinality(Tracked(q)) \in Nat
<1>1. Tracked(q) \in SUBSET (1..Len(q)) /\ IsFiniteSet(1..Len(q))
  BY FS_Interval DEF Tracked
<1> QED
  BY <1>1, FS_Subset, FS_CardinalityType

(* A queue that grows at its end.                                          *)
LEMMA TrackedAppend ==
  ASSUME NEW q \in Seq(Job), NEW j \in Job
  PROVE  Cardinality(Tracked(Append(q, j))) = Cardinality(Tracked(q)) + (IF j.tracked THEN 1 ELSE 0)
<1>1. Tracked(Append(q, j)) = IF j.tracked THEN Tracked(q) \cup {Len(q) + 1} ELSE Tracked(q)
  BY DEF Tracked
<1>2. Len(q) + 1 \notin Tracked(q)
  BY DEF Tracked
<1>3. Cardinality(Tracked(q) \cup {Len(q) + 1}) = Cardinality(Tracked(q)) + 1
  BY <1>2, TrackedIsFinite, FS_AddElement
<1>4. Cardinality(Tracked(q)) \in Nat
  BY TrackedIsFinite
<1> QED
  BY <1>1, <1>3, <1>4

(* A queue that shrinks at its front: what is tracked moves up by one.     *)
LEMMA TrackedTail ==
  ASSUME NEW q \in Seq(Job), q # <<>>
  PROVE  Cardinality(Tracked(q)) = Cardinality(Tracked(Tail(q))) + (IF Head(q).tracked THEN 1 ELSE 0)
<1> DEFINE up == {i + 1 : i \in Tracked(Tail(q))}
           f  == [i \in Tracked(Tail(q)) |-> i + 1]
<1>1. Tail(q) \in Seq(Job) /\ Len(Tail(q)) = Len(q) - 1 /\ Head(q) = q[1] /\ Len(q) \in Nat \ {0}
  OBVIOUS
<1>2. \A i \in 1..Len(Tail(q)) : Tail(q)[i] = q[i + 1]
  OBVIOUS
<1>3. Tracked(q) = IF Head(q).tracked THEN up \cup {1} ELSE up
  <2>1. ASSUME NEW i \in Tracked(q), i # 1  PROVE i \in up
    <3>1. i - 1 \in Tracked(Tail(q)) /\ i = (i - 1) + 1
      BY <1>1, <1>2, <2>1 DEF Tracked
    <3> QED
      BY <3>1
  <2>2. up \subseteq Tracked(q)
    BY <1>1, <1>2 DEF Tracked
  <2>3. 1 \in Tracked(q) <=> Head(q).tracked
    BY <1>1 DEF Tracked
  <2> QED
    BY <2>1, <2>2, <2>3
<1>4. 1 \notin up
  BY DEF Tracked
<1>5. f \in [Tracked(Tail(q)) -> up] /\ Tracked(Tail(q)) \subseteq Int
  BY DEF Tracked
<1>6. f \in Bijection(Tracked(Tail(q)), up)
  <2>1. \A i, j \in Tracked(Tail(q)) : f[i] = f[j] => i = j
    BY <1>5
  <2>2. \A k \in up : \E i \in Tracked(Tail(q)) : f[i] = k
    OBVIOUS
  <2> HIDE DEF f, up
  <2> QED
    BY <1>5, <2>1, <2>2, Fun_IsBij
<1>7. ExistsBijection(Tracked(Tail(q)), up)
  BY <1>6 DEF ExistsBijection
<1>8. IsFiniteSet(up) /\ Cardinality(up) = Cardinality(Tracked(Tail(q)))
  BY <1>1, <1>7, TrackedIsFinite, FS_Bijection
<1>9. Cardinality(up \cup {1}) = Cardinality(up) + 1
  BY <1>4, <1>8, FS_AddElement
<1>10. Cardinality(up) \in Nat
  BY <1>8, FS_CardinalityType
<1> HIDE DEF up, f
<1> QED
  BY <1>3, <1>8, <1>9, <1>10

(* A write is counted when it is queued and given back when it is taken.   *)
LEMMA BacklogStep ==
  ASSUME TypeOK, BacklogCountsQueue, [Next]_vars
  PROVE  BacklogCountsQueue'
<1> USE DEF BacklogCountsQueue
<1>1. ASSUME UNCHANGED <<jobs, pending>>  PROVE BacklogCountsQueue'
  BY <1>1
<1>2. pending = Cardinality(Tracked(jobs)) /\ jobs \in Seq(Job) /\ staging \in BOOLEAN
  BY DEF Tracked, TypeOK
<1>3. SUFFICES pending' = Cardinality(Tracked(jobs'))
  BY DEF Tracked
<1>4. ASSUME NEW a \in Attempts, NEW p \in Pieces, Receive(a, p)  PROVE pending' = Cardinality(Tracked(jobs'))
  <2> DEFINE j == [of |-> a, piece |-> p, tracked |-> staging]
  <2>1. j \in Job /\ j.tracked = staging
    BY <1>2 DEF Job
  <2>2. jobs' = Append(jobs, j) /\ pending' = IF staging THEN pending + 1 ELSE pending
    BY <1>4 DEF Receive
  <2> HIDE DEF j
  <2>3. Cardinality(Tracked(jobs')) = Cardinality(Tracked(jobs)) + (IF j.tracked THEN 1 ELSE 0)
    BY <1>2, <2>1, <2>2, TrackedAppend
  <2> QED
    BY <1>2, <2>1, <2>2, <2>3, TrackedIsFinite
<1>5. CASE RunWrite
  <2>1. jobs # <<>> /\ jobs' = Tail(jobs) /\ pending' = pending - (IF Head(jobs).tracked THEN 1 ELSE 0)
    BY <1>5 DEF RunWrite, RunWriteWith
  <2>2. Cardinality(Tracked(jobs)) = Cardinality(Tracked(jobs')) + (IF Head(jobs).tracked THEN 1 ELSE 0)
    BY <1>2, <2>1, TrackedTail
  <2>3. Tail(jobs) \in Seq(Job)
    BY <1>2, <2>1
  <2>4. Cardinality(Tracked(jobs')) \in Nat
    BY <2>1, <2>3, TrackedIsFinite
  <2> QED
    BY <1>2, <2>1, <2>2, <2>4
<1>6. CASE UNCHANGED vars
  BY <1>1, <1>3, <1>6 DEF vars, diskVars, Tracked
<1>7. ASSUME UNCHANGED <<jobs, pending>>  PROVE pending' = Cardinality(Tracked(jobs'))
  BY <1>7, <1>2
<1>8. ASSUME NEW t \in Threads, NEW asked, CallBegin(t, asked)  PROVE UNCHANGED <<jobs, pending>>
  BY <1>8 DEF CallBegin, diskVars
<1>9. ASSUME NEW t \in Threads, CallCancel(t) \/ Call(t) \/ Return(t)  PROVE UNCHANGED <<jobs, pending>>
  BY <1>9 DEF CallCancel, Call, Return, Check, Retire, Release, Reserve, AbandonPendingClear,
     Register,
              SetFetchStaging, GiveUp, AddTorrent, Adopt, diskVars
<1>10. CASE Poll
  BY <1>7, <1>10 DEF Poll, Route, RouteReads, RouteActs, PollStarts, HandleAlerts,
     ClearConfirmed, Throttle, Refresh, ApplyPriorities,
     Update, UpdateWith, diskVars
<1>11. ASSUME NEW a \in Attempts, MetadataArrives(a) \/ TorrentFails(a) \/ TorrentRemoved(a)
       PROVE  UNCHANGED <<jobs, pending>>
  BY <1>11 DEF MetadataArrives, TorrentFails, TorrentRemoved, diskVars
<1> QED
  BY <1>4, <1>5, <1>6, <1>7, <1>8, <1>9, <1>10, <1>11, StepCases DEF Swarm

(* StorageJobQueue gives every tracked write back to the backlog: a Cancel *)
(* never waits for writes that are done.                                   *)
THEOREM BacklogIsExact == Spec => []BacklogCountsQueue
<1>1. Init => BacklogCountsQueue
  <2>1. ASSUME Init  PROVE jobs = <<>> /\ pending = 0 /\ 1..Len(jobs) = {}
    BY <2>1 DEF Init
  <2> QED
    BY <2>1, FS_EmptySet DEF BacklogCountsQueue
<1>2. TypeOK /\ BacklogCountsQueue /\ [Next]_vars => BacklogCountsQueue'
  BY BacklogStep
<1> QED
  BY <1>1, <1>2, TypeCorrect, PTL DEF Spec

-----------------------------------------------------------------------------
(* The install service over the session.                                   *)

PollSteps   == {"idle", "route", "clear", "refresh", "apply", "update"}
CancelSteps == {"idle", "retire", "release"}
Outcomes    == {"Idle", "Done", "Failed"}

(* How the service's threads stand to the calls they are in.               *)
ThreadsOK ==
  /\ ustep = "idle" => pc["ui"] \in PollSteps /\ op["ui"] \notin {"begin", "cancel"}
  /\ ustep = "manifest" => op["ui"] = "begin" /\ plan = {}
  /\ ustep \notin {"idle", "manifest"} => pc["ui"] \in CancelSteps /\ op["ui"] # "begin"
  /\ ustep \notin {"idle", "join"} => wstep = "none" /\ busy
  /\ wstep = "begin" => op["worker"] = "begin"
  /\ wstep # "begin" => pc["worker"] = "idle"
  /\ wstep # "none" => busy
  /\ iphase = "Fetching" /\ ustep # "join" => busy /\ wstep = "none"
  /\ ~busy => iphase \in Outcomes

FlowInv == IInv /\ FlowTypeOK /\ ThreadsOK

-----------------------------------------------------------------------------
(* The service drives the session as its own specification allows.         *)
LEMMA SessionSteps ==
  ASSUME FlowTypeOK, [FlowNext]_flowVars
  PROVE  [Next]_vars
<1>1. ASSUME NEW m \in Mods, StartHeld(m) \/ FetchDetailsHeld(m) \/ Verify(m)  PROVE UNCHANGED vars
  BY <1>1 DEF StartHeld, FetchDetailsHeld, Verify
<1>2. ASSUME NEW m \in Mods, NEW d \in BOOLEAN, StartUnheld(m, d)  PROVE Next
  BY <1>2 DEF StartUnheld, Next
<1>3. CASE Cancel
  BY <1>3 DEF Cancel, Next
<1>4. CASE UiGoesOn
  <2>1. ManifestBegun => Next
    BY DEF ManifestBegun, Next, Threads
  <2>2. ASSUME NEW next, PollThenCancel(next)  PROVE Next
    BY <2>2 DEF PollThenCancel, Next
  <2>3. PollDetailsExpired \/ PollManifestAdopted \/ PollManifestRejected \/ PollContentComplete => Next
    BY <2>2 DEF PollDetailsExpired, PollManifestAdopted, PollManifestRejected, PollContentComplete
  <2>4. PollFetchFailed \/ PollResumes \/ CancelJoined => UNCHANGED vars
    BY DEF PollFetchFailed, PollResumes, CancelJoined, CancelSettles
  <2> QED
    BY <1>4, <2>1, <2>3, <2>4 DEF UiGoesOn
<1>5. CASE Worker
  <2>1. StageFetch => Next
    <3>1. plan \in SUBSET Chunks
      BY DEF FlowTypeOK
    <3> QED
      BY <3>1 DEF StageFetch, Next
  <2>2. ContentBegun => Next
    BY DEF ContentBegun, Next, Threads
  <2>3. \/ PlanAbandoned \/ PlanCompares \/ PlanReady \/ StageRefused \/ StageHeld
        \/ InstallFails \/ InstallSwaps \/ InstallDone \/ VerifyIntact \/ VerifyFolderMissing \/ VerifyDamaged
        => UNCHANGED vars
    BY DEF PlanAbandoned, PlanCompares, PlanReady, StageRefused, StageHeld, InstallFails,
       InstallSwaps,
           InstallDone, VerifyIntact, VerifyFolderMissing, VerifyDamaged, WorkerConcludes
  <2> QED
    BY <1>5, <2>1, <2>2, <2>3 DEF Worker
<1>6. CASE Session
  BY <1>6 DEF Session, Next
<1>7. CASE UNCHANGED flowVars
  BY <1>7 DEF flowVars
<1> QED
  BY <1>1, <1>2, <1>3, <1>4, <1>5, <1>6, <1>7 DEF FlowNext, Ui

Flags ==
  /\ verification \in BOOLEAN /\ awaiting \in BOOLEAN /\ details \in BOOLEAN
  /\ busy \in BOOLEAN /\ abandoned \in BOOLEAN

Values ==
  /\ iphase \in InstallPhases
  /\ mod \in Mods /\ plan \subseteq Chunks
  /\ settled \in Nat /\ started \in 0..MaxStarts
  /\ held \subseteq Mods /\ folder \subseteq Mods /\ record \subseteq Mods
  /\ ustep \in {"idle", "manifest", "failed", "detailsReady", "plan", "install", "join"}
  /\ wstep \in {"none", "plan", "compare", "stage", "begin", "install", "save", "verify"}

(* The variables of the service keep their types.                          *)
LEMMA FlowTypeStep ==
  ASSUME FlowTypeOK, TypeOK', [FlowNext]_flowVars
  PROVE  FlowTypeOK'
<1>1. Flags /\ Values
  BY DEF FlowTypeOK, Flags, Values
<1>2. SUFFICES Flags' /\ Values'
  BY Zenon DEF FlowTypeOK, Flags, Values
<1> USE DEF InstallPhases, diskState, attemptVars
<1>3. ASSUME NEW m \in Mods, StartHeld(m)  PROVE Flags' /\ Values'
  <2>1. Flags'
    BY <1>1, <1>3, Zenon DEF Flags, StartHeld, Claim
  <2>2. Values'
    BY <1>1, <1>3, MaxStartsAssumption DEF Values, StartHeld, Claim
  <2> QED
    BY <2>1, <2>2
<1>4. ASSUME NEW m \in Mods, FetchDetailsHeld(m)  PROVE Flags' /\ Values'
  <2>1. Flags'
    BY <1>1, <1>4, Zenon DEF Flags, FetchDetailsHeld, Claim
  <2>2. Values'
    BY <1>1, <1>4, MaxStartsAssumption DEF Values, FetchDetailsHeld, Claim
  <2> QED
    BY <2>1, <2>2
<1>5. ASSUME NEW m \in Mods, Verify(m)  PROVE Flags' /\ Values'
  <2>1. Flags'
    BY <1>1, <1>5, Zenon DEF Flags, Verify, Claim
  <2>2. Values'
    BY <1>1, <1>5, MaxStartsAssumption DEF Values, Verify, Claim
  <2> QED
    BY <2>1, <2>2
<1>6. ASSUME NEW m \in Mods, NEW d \in BOOLEAN, StartUnheld(m, d)  PROVE Flags' /\ Values'
  <2>1. Flags'
    BY <1>1, <1>6, Zenon DEF Flags, StartUnheld, Claim
  <2>2. Values'
    BY <1>1, <1>6, MaxStartsAssumption DEF Values, StartUnheld, Claim
  <2> QED
    BY <2>1, <2>2
<1>7. CASE Cancel
  <2>1. Flags'
    BY <1>1, <1>7, Zenon DEF Flags, Cancel
  <2>2. Values'
    BY <1>1, <1>7 DEF Values, Cancel
  <2> QED
    BY <2>1, <2>2
<1>8. CASE ManifestBegun
  <2>1. Flags'
    BY <1>1, <1>8, Zenon DEF Flags, ManifestBegun, Conclude
  <2>2. Values'
    BY <1>1, <1>8 DEF Values, ManifestBegun, Conclude
  <2> QED
    BY <2>1, <2>2
<1>9. CASE PollFetchFailed
  <2>1. Flags'
    BY <1>1, <1>9, Zenon DEF Flags, PollFetchFailed, Conclude
  <2>2. Values'
    BY <1>1, <1>9 DEF Values, PollFetchFailed, Conclude
  <2> QED
    BY <2>1, <2>2
<1>10. CASE PollDetailsExpired
  <2>1. Flags'
    BY <1>1, <1>10, Zenon DEF Flags, PollDetailsExpired, PollThenCancel
  <2>2. Values'
    BY <1>1, <1>10 DEF Values, PollDetailsExpired, PollThenCancel
  <2> QED
    BY <2>1, <2>2
<1>11. CASE PollManifestAdopted
  <2>1. Flags'
    BY <1>1, <1>11, Zenon DEF Flags, PollManifestAdopted, PollThenCancel
  <2>2. Values'
    BY <1>1, <1>11 DEF Values, PollManifestAdopted, PollThenCancel
  <2> QED
    BY <2>1, <2>2
<1>12. CASE PollManifestRejected
  <2>1. Flags'
    BY <1>1, <1>12, Zenon DEF Flags, PollManifestRejected, PollThenCancel
  <2>2. Values'
    BY <1>1, <1>12 DEF Values, PollManifestRejected, PollThenCancel
  <2> QED
    BY <2>1, <2>2
<1>13. CASE PollContentComplete
  <2>1. Flags'
    BY <1>1, <1>13, Zenon DEF Flags, PollContentComplete, PollThenCancel
  <2>2. Values'
    BY <1>1, <1>13 DEF Values, PollContentComplete, PollThenCancel
  <2> QED
    BY <2>1, <2>2
<1>14. CASE PollResumes
  <2>1. Flags'
    BY <1>1, <1>14, Zenon DEF Flags, PollResumes, Conclude
  <2>2. Values'
    BY <1>1, <1>14 DEF Values, PollResumes, Conclude
  <2> QED
    BY <2>1, <2>2
<1>15. CASE CancelJoined
  <2>1. Flags'
    BY <1>1, <1>15, Zenon DEF Flags, CancelJoined, CancelSettles
  <2>2. Values'
    BY <1>1, <1>15 DEF Values, CancelJoined, CancelSettles
  <2> QED
    BY <2>1, <2>2
<1>16. CASE PlanAbandoned
  <2>1. Flags'
    BY <1>1, <1>16, Zenon DEF Flags, PlanAbandoned
  <2>2. Values'
    BY <1>1, <1>16 DEF Values, PlanAbandoned
  <2> QED
    BY <2>1, <2>2
<1>17. CASE PlanCompares
  <2>1. Flags'
    BY <1>1, <1>17, Zenon DEF Flags, PlanCompares
  <2>2. Values'
    BY <1>1, <1>17 DEF Values, PlanCompares
  <2> QED
    BY <2>1, <2>2
<1>18. CASE PlanReady
  <2>1. Flags'
    BY <1>1, <1>18, Zenon DEF Flags, PlanReady
  <2>2. Values'
    BY <1>1, <1>18 DEF Values, PlanReady
  <2> QED
    BY <2>1, <2>2
<1>19. CASE StageRefused
  <2>1. Flags'
    BY <1>1, <1>19, Zenon DEF Flags, StageRefused, WorkerConcludes, Conclude
  <2>2. Values'
    BY <1>1, <1>19 DEF Values, StageRefused, WorkerConcludes, Conclude
  <2> QED
    BY <2>1, <2>2
<1>20. CASE StageHeld
  <2>1. Flags'
    BY <1>1, <1>20, Zenon DEF Flags, StageHeld
  <2>2. Values'
    BY <1>1, <1>20 DEF Values, StageHeld
  <2> QED
    BY <2>1, <2>2
<1>21. CASE StageFetch
  <2>1. Flags'
    BY <1>1, <1>21, Zenon DEF Flags, StageFetch
  <2>2. Values'
    BY <1>1, <1>21 DEF Values, StageFetch
  <2> QED
    BY <2>1, <2>2
<1>22. CASE ContentBegun
  <2>1. Flags'
    BY <1>1, <1>22, Zenon DEF Flags, ContentBegun, Conclude
  <2>2. Values'
    BY <1>1, <1>22 DEF Values, ContentBegun, Conclude
  <2> QED
    BY <2>1, <2>2
<1>23. CASE InstallFails
  <2>1. Flags'
    BY <1>1, <1>23, Zenon DEF Flags, InstallFails, WorkerConcludes, Conclude
  <2>2. Values'
    BY <1>1, <1>23 DEF Values, InstallFails, WorkerConcludes, Conclude
  <2> QED
    BY <2>1, <2>2
<1>24. CASE InstallSwaps
  <2>1. Flags'
    BY <1>1, <1>24, Zenon DEF Flags, InstallSwaps
  <2>2. Values'
    BY <1>1, <1>24 DEF Values, InstallSwaps
  <2> QED
    BY <2>1, <2>2
<1>25. CASE InstallDone
  <2>1. Flags'
    BY <1>1, <1>25, Zenon DEF Flags, InstallDone, WorkerConcludes, Conclude
  <2>2. Values'
    BY <1>1, <1>25 DEF Values, InstallDone, WorkerConcludes, Conclude
  <2> QED
    BY <2>1, <2>2
<1>26. CASE VerifyIntact
  <2>1. Flags'
    BY <1>1, <1>26, Zenon DEF Flags, VerifyIntact, WorkerConcludes, Conclude
  <2>2. Values'
    BY <1>1, <1>26 DEF Values, VerifyIntact, WorkerConcludes, Conclude
  <2> QED
    BY <2>1, <2>2
<1>27. CASE VerifyFolderMissing
  <2>1. Flags'
    BY <1>1, <1>27, Zenon DEF Flags, VerifyFolderMissing, WorkerConcludes, Conclude
  <2>2. Values'
    BY <1>1, <1>27 DEF Values, VerifyFolderMissing, WorkerConcludes, Conclude
  <2> QED
    BY <2>1, <2>2
<1>28. CASE VerifyDamaged
  <2>1. Flags'
    BY <1>1, <1>28, Zenon DEF Flags, VerifyDamaged
  <2>2. Values'
    BY <1>1, <1>28 DEF Values, VerifyDamaged
  <2> QED
    BY <2>1, <2>2
<1>29. CASE Session
  <2>1. Flags'
    BY <1>1, <1>29, Zenon DEF Flags, Session, installVars
  <2>2. Values'
    BY <1>1, <1>29 DEF Values, Session, installVars
  <2> QED
    BY <2>1, <2>2
<1>30. CASE UNCHANGED flowVars
  <2>1. Flags'
    BY <1>1, <1>30, Zenon DEF Flags, flowVars, installVars
  <2>2. Values'
    BY <1>1, <1>30 DEF Values, flowVars, installVars
  <2> QED
    BY <2>1, <2>2
<1> QED
  BY <1>3, <1>4, <1>5, <1>6, <1>7, <1>8, <1>9, <1>10, <1>11, <1>12, <1>13, <1>14, <1>15, <1>16,
     <1>17, <1>18, <1>19, <1>20, <1>21, <1>22, <1>23, <1>24, <1>25, <1>26, <1>27, <1>28, <1>29,
     <1>30 DEF FlowNext, Ui, UiGoesOn, Worker

(* A call of the session goes on in its own thread: a Begin until it       *)
(* returns, a Cancel until it has released the torrent.                    *)
LEMMA CallMoves ==
  ASSUME TypeOK, CallOK, NEW t \in Threads, Call(t)
  PROVE  /\ \A u \in Threads : u # t => pc'[u] = pc[u] /\ op'[u] = op[u]
         /\ pc[t] \notin PollSteps
         /\ op[t] = "begin" => op'[t] = "begin" /\ pc'[t] # "idle"
         /\ op[t] # "begin" => pc[t] \in {"retire", "release"} /\ pc'[t] \in CancelSteps /\ op'[t] # "begin"
<1>1. pc \in [Threads -> Steps] /\ op \in [Threads -> {"none", "begin", "cancel", "poll"}]
  BY DEF TypeOK
<1>2. pc[t] \in BeginSteps => op[t] = "begin"
  BY DEF CallOK
<1> USE DEF At, Goto, Ends, PollSteps, CancelSteps, BeginSteps
<1>3. CASE Check(t) \/ Reserve(t) \/ AbandonPendingClear(t) \/ Register(t) \/ SetFetchStaging(t) \/ GiveUp(t)
           \/ AddTorrent(t) \/ Adopt(t)
  BY <1>1, <1>2, <1>3 DEF Check, Reserve, AbandonPendingClear, Register, SetFetchStaging, GiveUp,
     AddTorrent, Adopt
<1>4. CASE Retire(t)
  BY <1>1, <1>4 DEF Retire
<1>5. CASE Release(t)
  BY <1>1, <1>5 DEF Release
<1> QED
  BY <1>3, <1>4, <1>5 DEF Call

(* Poll stays on the window loop's thread.                                 *)
LEMMA PollMoves ==
  ASSUME TypeOK, pc["ui"] \in PollSteps, op["ui"] \notin {"begin", "cancel"}, Poll
  PROVE  /\ pc'["ui"] \in PollSteps /\ op'["ui"] \notin {"begin", "cancel"}
         /\ pc'["worker"] = pc["worker"] /\ op'["worker"] = op["worker"]
<1>1. pc \in [Threads -> Steps] /\ op \in [Threads -> {"none", "begin", "cancel", "poll"}]
  BY DEF TypeOK
<1> QED
  BY <1>1 DEF Poll, Route, RouteReads, RouteActs, PollStarts, HandleAlerts, ClearConfirmed,
     Throttle, Refresh, ApplyPriorities, Update,
     UpdateWith,
              Goto, Ends, PollSteps, Threads

(* libtorrent's threads and the disk thread change the swarm, the queue and *)
(* what has landed, and nothing of FetchState, the locator or the calls.   *)
LEMMA SwarmMoves ==
  ASSUME Swarm
  PROVE  UNCHANGED <<pc, op, request, seen, seenPending, clearNow, dest, staging, wanted, fetching,
                     phase, prioritised, settledPolls, removing, clearPending, attempt, prio>>
  BY DEF Swarm, MetadataArrives, TorrentFails, TorrentRemoved, Receive, RunWrite, RunWriteWith,
         fetchVars, locatorVars, callVars, readVars

(* The window loop and the worker keep to the calls they are in.           *)
LEMMA ThreadsStep ==
  ASSUME FlowInv, [FlowNext]_flowVars
  PROVE  ThreadsOK'
<1> USE DEF PollSteps, CancelSteps, Outcomes, UiFree, attemptVars, diskState
<1>1. /\ pc \in [Threads -> Steps] /\ op \in [Threads -> {"none", "begin", "cancel", "poll"}]
      /\ \A t \in Threads : pc[t] = "idle" <=> op[t] = "none"
      /\ \A t \in Threads : pc[t] \in BeginSteps => op[t] = "begin"
  BY DEF FlowInv, IInv, TypeOK, CallOK
<1>2. ThreadsOK /\ TypeOK /\ CallOK
  BY DEF FlowInv, IInv
<1>3. ASSUME NEW m \in Mods, StartHeld(m)  PROVE ThreadsOK'
  BY <1>1, <1>2, <1>3 DEF ThreadsOK, vars, callVars, StartHeld, Claim
<1>4. ASSUME NEW m \in Mods, FetchDetailsHeld(m)  PROVE ThreadsOK'
  BY <1>1, <1>2, <1>4 DEF ThreadsOK, vars, callVars, FetchDetailsHeld, Claim
<1>5. ASSUME NEW m \in Mods, Verify(m)  PROVE ThreadsOK'
  BY <1>1, <1>2, <1>5 DEF ThreadsOK, vars, callVars, Verify, Claim
<1>6. ASSUME NEW m \in Mods, NEW d \in BOOLEAN, StartUnheld(m, d)  PROVE ThreadsOK'
  BY <1>1, <1>2, <1>6 DEF ThreadsOK, vars, callVars, StartUnheld, Claim, CallBegin, Goto, Threads
<1>7. CASE Cancel
  BY <1>1, <1>2, <1>7 DEF ThreadsOK, vars, callVars, Cancel, CallCancel, Goto, Threads
<1>8. CASE ManifestBegun
  <2>1. /\ ustep = "manifest" /\ ustep' = "idle" /\ wstep' = wstep
        /\ pc'["ui"] = "idle" /\ op'["ui"] = "none" /\ pc'["worker"] = pc["worker"]
    BY <1>1, <1>8 DEF ManifestBegun, Return, Ends, Goto, Threads
  <2>2. (iphase' = "Fetching" /\ busy' = busy) \/ (iphase' = "Failed" /\ busy' = FALSE)
    BY <1>8 DEF ManifestBegun, Conclude
  <2>3. wstep = "none" /\ busy
    BY <1>2, <2>1 DEF ThreadsOK
  <2> QED
    BY <1>2, <2>1, <2>2, <2>3 DEF ThreadsOK
<1>9. CASE PollFetchFailed
  BY <1>1, <1>2, <1>9 DEF ThreadsOK, vars, callVars, PollFetchFailed, Conclude
<1>10. CASE PollDetailsExpired
  BY <1>1, <1>2, <1>10 DEF ThreadsOK, vars, callVars, PollDetailsExpired, PollThenCancel,
     CallCancel, Goto, Threads
<1>11. CASE PollManifestAdopted
  BY <1>1, <1>2, <1>11 DEF ThreadsOK, vars, callVars, PollManifestAdopted, PollThenCancel,
     CallCancel, Goto, Threads
<1>12. CASE PollManifestRejected
  BY <1>1, <1>2, <1>12 DEF ThreadsOK, vars, callVars, PollManifestRejected, PollThenCancel,
     CallCancel, Goto, Threads
<1>13. CASE PollContentComplete
  BY <1>1, <1>2, <1>13 DEF ThreadsOK, vars, callVars, PollContentComplete, PollThenCancel,
     CallCancel, Goto, Threads
<1>14. CASE PollResumes
  <2>1. /\ pc' = pc /\ op' = op /\ pc["ui"] = "idle" /\ ustep' = "idle" /\ wstep = "none" /\ busy
        /\ ustep \notin {"idle", "join"}
    BY <1>1, <1>2, <1>14 DEF PollResumes, ThreadsOK, vars, callVars
  <2>2. CASE ustep \in {"failed", "detailsReady"}
    <3>1. wstep' = wstep /\ iphase' \in {"Failed", "Done"} /\ busy' = FALSE
      BY <1>14, <2>2 DEF PollResumes, Conclude
    <3> QED
      BY <1>1, <1>2, <2>1, <3>1 DEF ThreadsOK, Threads
  <2>3. CASE ustep \in {"plan", "install"}
    <3>1. wstep' \in {"plan", "install"} /\ iphase' \in {"Planning", "Installing"} /\ busy' = busy
      BY <1>14, <2>3 DEF PollResumes
    <3> QED
      BY <1>1, <1>2, <2>1, <3>1 DEF ThreadsOK, Threads
  <2> QED
    BY <1>14, <2>2, <2>3 DEF PollResumes
<1>15. CASE CancelJoined
  <2>1. /\ pc' = pc /\ op' = op /\ pc["ui"] = "idle" /\ ustep' = "idle" /\ wstep = "none" /\ wstep' = "none"
        /\ busy' = FALSE /\ iphase' = "Idle"
    BY <1>15 DEF CancelJoined, CancelSettles, vars, callVars
  <2> QED
    BY <1>1, <1>2, <2>1 DEF ThreadsOK, Threads
<1>16. CASE PlanAbandoned \/ PlanCompares \/ PlanReady
  BY <1>1, <1>2, <1>16 DEF ThreadsOK, vars, callVars, PlanAbandoned, PlanCompares, PlanReady
<1>17. CASE StageRefused
  BY <1>1, <1>2, <1>17 DEF ThreadsOK, vars, callVars, StageRefused, WorkerConcludes, Conclude
<1>18. CASE StageHeld
  BY <1>1, <1>2, <1>18 DEF ThreadsOK, vars, callVars, StageHeld
<1>19. CASE StageFetch
  BY <1>1, <1>2, <1>19 DEF ThreadsOK, vars, callVars, StageFetch, CallBegin, Goto, Threads
<1>20. CASE ContentBegun
  <2>1. /\ ustep' = ustep /\ plan' = plan /\ wstep = "begin" /\ wstep' = "none" /\ pc'["worker"] = "idle"
        /\ pc'["ui"] = pc["ui"] /\ op'["ui"] = op["ui"]
    BY <1>1, <1>20 DEF ContentBegun, Return, Ends, Goto, Threads
  <2>2. (iphase' = "Fetching" /\ busy' = busy) \/ (iphase' = "Failed" /\ busy' = FALSE)
    BY <1>20 DEF ContentBegun, Conclude
  <2>3. ustep \in {"idle", "join"} /\ busy
    BY <1>2, <2>1 DEF ThreadsOK
  <2> QED
    BY <1>2, <2>1, <2>2, <2>3 DEF ThreadsOK
<1>21. CASE InstallFails
  BY <1>1, <1>2, <1>21 DEF ThreadsOK, vars, callVars, InstallFails, WorkerConcludes, Conclude
<1>22. CASE InstallSwaps
  BY <1>1, <1>2, <1>22 DEF ThreadsOK, vars, callVars, InstallSwaps
<1>23. CASE InstallDone
  BY <1>1, <1>2, <1>23 DEF ThreadsOK, vars, callVars, InstallDone, WorkerConcludes, Conclude
<1>24. CASE VerifyIntact \/ VerifyFolderMissing
  BY <1>1, <1>2, <1>24 DEF ThreadsOK, vars, callVars, VerifyIntact, VerifyFolderMissing,
     WorkerConcludes, Conclude
<1>25. CASE VerifyDamaged
  BY <1>1, <1>2, <1>25 DEF ThreadsOK, vars, callVars, VerifyDamaged
<1>26. CASE Session
  <2>1. UNCHANGED installVars
    BY <1>26 DEF Session
  <2>2. ASSUME NEW t \in Threads, Call(t)  PROVE ThreadsOK'
    BY <1>1, <1>2, <2>1, <2>2, CallMoves DEF ThreadsOK, installVars, Threads
  <2>3. CASE Swarm
    BY <1>2, <2>1, <2>3, SwarmMoves DEF ThreadsOK, installVars
  <2>4. CASE ustep = "idle" /\ Poll
    BY <1>2, <2>1, <2>4, PollMoves DEF ThreadsOK, installVars
  <2> QED
    BY <1>26, <2>2, <2>3, <2>4 DEF Session
<1>27. CASE UNCHANGED flowVars
  BY <1>2, <1>27 DEF ThreadsOK, flowVars, installVars, vars, callVars
<1> QED
  BY <1>3, <1>4, <1>5, <1>6, <1>7, <1>8, <1>9, <1>10, <1>11, <1>12, <1>13, <1>14, <1>15, <1>16,
     <1>17, <1>18, <1>19, <1>20, <1>21, <1>22, <1>23, <1>24, <1>25, <1>26, <1>27 DEF FlowNext, Ui,
     UiGoesOn, Worker

(* The service is idle when it is made, with no call in progress.          *)
LEMMA FlowInitially == FlowInit => FlowInv
<1> SUFFICES ASSUME FlowInit  PROVE FlowInv
  OBVIOUS
<1>1. Init
  BY DEF FlowInit
<1>2. IInv /\ TypeOK
  BY <1>1, Initially DEF IInv
<1>3. Flags
  BY Zenon DEF FlowInit, Flags
<1>4. Values
  BY MaxStartsAssumption DEF FlowInit, Values, InstallPhases
<1>5. FlowTypeOK
  BY <1>2, <1>3, <1>4, Zenon DEF FlowTypeOK, Flags, Values
<1>6. pc = [t \in Threads |-> "idle"] /\ op = [t \in Threads |-> "none"]
  BY <1>1 DEF Init
<1>7. ThreadsOK
  BY <1>6 DEF ThreadsOK, FlowInit, PollSteps, Outcomes, Threads
<1> QED
  BY <1>2, <1>5, <1>7 DEF FlowInv

(* The threads and types of the service over those of the session.         *)
LEMMA FlowInductive == FlowInv /\ [FlowNext]_flowVars => FlowInv'
<1> SUFFICES ASSUME FlowInv, [FlowNext]_flowVars  PROVE FlowInv'
  OBVIOUS
<1>1. FlowTypeOK /\ IInv
  BY DEF FlowInv
<1>2. [Next]_vars
  BY <1>1, SessionSteps
<1>3. IInv' /\ TypeOK'
  BY <1>1, <1>2, Inductive DEF IInv
<1>4. FlowTypeOK'
  BY <1>1, <1>3, FlowTypeStep
<1>5. ThreadsOK'
  BY ThreadsStep
<1> QED
  BY <1>3, <1>4, <1>5 DEF FlowInv

(* It holds of every run of the service.                                   *)
LEMMA FlowInvariance == FlowSpec => []FlowInv
  BY FlowInitially, FlowInductive, PTL DEF FlowSpec

(* The service's progress, its plan and its threads keep to their types    *)
(* whatever the window starts and cancels.                                 *)
THEOREM FlowTypeCorrect == FlowSpec => []FlowTypeOK
<1>1. FlowInv => FlowTypeOK
  BY DEF FlowInv
<1> QED
  BY <1>1, FlowInvariance, PTL

(* InstallService's two threads never work on two attempts: a new one is   *)
(* taken when the worker of the last is done, and no worker runs that      *)
(* could begin a fetch under the one an attempt waits for.                 *)
THEOREM WorkerIsAlone == FlowSpec => [](OneAttemptAtATime /\ FetchingIsAlone)
<1>1. FlowInv => OneAttemptAtATime /\ FetchingIsAlone
  BY DEF FlowInv, ThreadsOK, FlowTypeOK, OneAttemptAtATime, FetchingIsAlone
<1> QED
  BY <1>1, FlowInvariance, PTL

-----------------------------------------------------------------------------
(* A preview waits for the manifest only: what completes is never content, *)
(* and no worker is started for it.                                        *)
PreviewOK ==
  details =>
    /\ wstep = "none" /\ ustep \notin {"plan", "install"}
    /\ iphase \notin {"Planning", "Installing"}
    /\ ustep = "manifest" \/ (iphase = "Fetching" /\ ustep # "detailsReady") => awaiting

(* No step of the window or of the worker turns a preview into an install. *)
LEMMA PreviewStep ==
  ASSUME FlowInv, PreviewOK, [FlowNext]_flowVars
  PROVE  PreviewOK'
<1> USE DEF PreviewOK
<1>1. details \in BOOLEAN /\ awaiting \in BOOLEAN
  BY DEF FlowInv, FlowTypeOK
<1>2. ASSUME ~details'  PROVE PreviewOK'
  BY <1>2
<1>3. ASSUME UNCHANGED <<details, awaiting, iphase, ustep, wstep>>  PROVE PreviewOK'
  BY <1>3
<1>4. ASSUME NEW m \in Mods, StartHeld(m) \/ Verify(m)  PROVE PreviewOK'
  BY <1>2, <1>4 DEF StartHeld, Verify
<1>5. ASSUME NEW m \in Mods, FetchDetailsHeld(m)  PROVE PreviewOK'
  BY <1>5 DEF FetchDetailsHeld, Claim
<1>6. ASSUME NEW m \in Mods, NEW d \in BOOLEAN, StartUnheld(m, d)  PROVE PreviewOK'
  BY <1>6 DEF StartUnheld, Claim
<1>7. CASE Cancel
  BY <1>1, <1>7 DEF Cancel, UiFree, attemptVars
<1>8. CASE ManifestBegun
  BY <1>1, <1>8 DEF ManifestBegun, Conclude, attemptVars
<1>9. CASE PollFetchFailed \/ CancelJoined
  BY <1>9 DEF PollFetchFailed, CancelJoined, CancelSettles, Conclude, attemptVars
<1>10. CASE PollDetailsExpired \/ PollManifestRejected
  BY <1>1, <1>10 DEF PollDetailsExpired, PollManifestRejected, PollThenCancel, UiFree
<1>11. CASE PollManifestAdopted
  BY <1>1, <1>11 DEF PollManifestAdopted, PollThenCancel
<1>12. CASE PollContentComplete
  <2>1. ~details
    BY <1>1, <1>12 DEF PollContentComplete, PollThenCancel, UiFree
  <2> QED
    BY <1>2, <1>12, <2>1 DEF PollContentComplete, PollThenCancel
<1>13. CASE PollResumes
  BY <1>1, <1>13 DEF PollResumes, Conclude, attemptVars
<1>14. CASE Worker
  <2>1. wstep # "none" /\ UNCHANGED details
    BY <1>14 DEF Worker, PlanAbandoned, PlanCompares, PlanReady, StageRefused, StageHeld, StageFetch,
       ContentBegun, InstallFails, InstallSwaps, InstallDone, VerifyIntact, VerifyFolderMissing,
       VerifyDamaged, WorkerConcludes, attemptVars
  <2> QED
    BY <1>2, <2>1
<1>15. CASE Session \/ UNCHANGED flowVars
  BY <1>3, <1>15 DEF Session, flowVars, installVars, attemptVars
<1> QED
  BY <1>4, <1>5, <1>6, <1>7, <1>8, <1>9, <1>10, <1>11, <1>12, <1>13, <1>14, <1>15
     DEF FlowNext, Ui, UiGoesOn

(* It holds of every run of the service.                                   *)
LEMMA PreviewInvariance == FlowSpec => [](FlowInv /\ PreviewOK)
<1>1. FlowInit => PreviewOK
  BY DEF FlowInit, PreviewOK
<1> QED
  BY <1>1, FlowInitially, FlowInductive, PreviewStep, PTL DEF FlowSpec

(* FetchDetails of InstallService shows a release and touches nothing of   *)
(* it: no worker plans, installs or verifies while the attempt is a        *)
(* preview, whatever fetch it finds.                                       *)
THEOREM PreviewsInstallNothing == FlowSpec => []PreviewInstallsNothing
<1>1. PreviewOK => PreviewInstallsNothing
  BY DEF PreviewOK, PreviewInstallsNothing
<1> QED
  BY <1>1, PreviewInvariance, PTL

-----------------------------------------------------------------------------
(* The contract. A step starts an attempt, settles one, or changes nothing *)
(* that the window can tell.                                               *)
Told     == <<mod, details, record>>
Quiet    == UNCHANGED <<busy, settled, Told>> /\ (~busy => UNCHANGED iphase)
Starts   == ~busy /\ busy' = TRUE /\ mod' \in Mods /\ details' \in BOOLEAN /\ UNCHANGED <<settled, record>>
Settles  == /\ busy /\ busy' = FALSE /\ iphase' \in Outcomes /\ settled' = settled + 1
            /\ UNCHANGED <<mod, details>>
            /\ UNCHANGED record \/ (iphase' = "Done" /\ ~details /\ record' = record \cup {mod})
Dismisses == ~busy /\ busy' = FALSE /\ iphase' = "Idle" /\ UNCHANGED <<settled, Told>>

(* A step of the service is quiet for its caller, starts an attempt, settles it or dismisses a
   result. *)
LEMMA ContractCases ==
  ASSUME FlowInv, PreviewOK, [FlowNext]_flowVars
  PROVE  Quiet \/ Starts \/ Settles \/ Dismisses
<1>1. ThreadsOK
  BY DEF FlowInv
<1> USE DEF Quiet, Starts, Settles, Dismisses, Outcomes, Told, attemptVars, diskState
<1>2. ASSUME NEW m \in Mods, StartHeld(m) \/ FetchDetailsHeld(m) \/ Verify(m)  PROVE Starts
  BY <1>2 DEF StartHeld, FetchDetailsHeld, Verify, Claim
<1>3. ASSUME NEW m \in Mods, NEW d \in BOOLEAN, StartUnheld(m, d)  PROVE Starts
  BY <1>3 DEF StartUnheld, Claim
<1>4. ASSUME UNCHANGED <<busy, settled, iphase, Told>>  PROVE Quiet
  BY <1>4
<1>5. CASE Cancel
  BY <1>4, <1>5 DEF Cancel
<1>6. CASE ManifestBegun
  <2>1. busy
    BY <1>1, <1>6 DEF ThreadsOK, ManifestBegun
  <2> QED
    BY <1>6, <2>1 DEF ManifestBegun, Conclude
<1>7. CASE PollFetchFailed
  <2>1. busy
    BY <1>1, <1>7 DEF ThreadsOK, PollFetchFailed, UiFree
  <2> QED
    BY <1>7, <2>1 DEF PollFetchFailed, Conclude
<1>8. CASE PollDetailsExpired \/ PollManifestAdopted \/ PollManifestRejected \/ PollContentComplete
  BY <1>4, <1>8 DEF PollDetailsExpired, PollManifestAdopted, PollManifestRejected,
     PollContentComplete, PollThenCancel
<1>9. CASE PollResumes
  <2>1. busy
    BY <1>1, <1>9 DEF ThreadsOK, PollResumes
  <2> QED
    BY <1>9, <2>1 DEF PollResumes, Conclude
<1>10. CASE CancelJoined
  BY <1>10 DEF CancelJoined, CancelSettles
<1>11. wstep # "none" => busy
  BY <1>1 DEF ThreadsOK
<1>12. CASE PlanAbandoned \/ PlanCompares \/ PlanReady \/ InstallSwaps
  BY <1>4, <1>12 DEF PlanAbandoned, PlanCompares, PlanReady, InstallSwaps
<1>13. CASE StageHeld \/ StageFetch \/ VerifyDamaged
  BY <1>11, <1>13 DEF StageHeld, StageFetch, VerifyDamaged
<1>14. CASE StageRefused \/ InstallFails \/ VerifyIntact \/ VerifyFolderMissing
  BY <1>11, <1>14 DEF StageRefused, InstallFails, VerifyIntact, VerifyFolderMissing,
     WorkerConcludes, Conclude
<1>15. CASE InstallDone
  <2>1. busy /\ ~details
    BY <1>11, <1>15 DEF InstallDone, PreviewOK
  <2> QED
    BY <1>15, <2>1 DEF InstallDone, WorkerConcludes, Conclude
<1>16. CASE ContentBegun
  BY <1>11, <1>16 DEF ContentBegun, Conclude
<1>17. CASE Session \/ UNCHANGED flowVars
  BY <1>4, <1>17 DEF Session, flowVars, installVars
<1> QED
  BY <1>2, <1>3, <1>5, <1>6, <1>7, <1>8, <1>9, <1>10, <1>12, <1>13, <1>14, <1>15, <1>16, <1>17
     DEF FlowNext, Ui, UiGoesOn, Worker

(* InstallService keeps its contract with the window: one attempt at a     *)
(* time, each settled once and in one outcome, whoever settles it; a mod   *)
(* goes on record with an attempt at it that ends Done and is no preview,  *)
(* and with no other; and the outcome is kept until the next attempt or a  *)
(* cancel.  Conclude_, Cancel, RunInstall_.                                *)
THEOREM KeepsItsContract == FlowSpec => ContractSpec
<1>1. FlowInit => Contract!Init
  BY DEF FlowInit, Contract!Init
<1>2. FlowInv /\ PreviewOK /\ [FlowNext]_flowVars => [Contract!Next]_(Contract!contractVars)
  <2> SUFFICES ASSUME FlowInv, PreviewOK, [FlowNext]_flowVars
               PROVE  [Contract!Next]_(Contract!contractVars)
    OBVIOUS
  <2>1. ~busy => iphase \in Outcomes
    BY DEF FlowInv, ThreadsOK
  <2>2. Quiet \/ Starts \/ Settles \/ Dismisses
    BY ContractCases
  <2> QED
    BY <2>1, <2>2 DEF Quiet, Starts, Settles, Dismisses, Told, Outcomes, Contract!Next,
       Contract!contractVars, Contract!Start, Contract!Settle, Contract!Dismiss, Contract!Outcomes
<1> QED
  BY <1>1, <1>2, PreviewInvariance, PTL DEF FlowSpec, ContractSpec, Contract!Spec

-----------------------------------------------------------------------------
PlanLanded == \A c \in plan : <<attempt, c>> \in landed

(* The worker is in a Begin that no Cancel interferes with.                *)
Begins(steps) == wstep = "begin" /\ ustep # "join" /\ pc["worker"] \in steps

(* The attempt waits for its content.                                      *)
Waits == iphase = "Fetching" /\ ustep = "idle" /\ plan # {}

Reserved == Begins({"abandon", "register", "add", "adopt", "begun"}) \/ Waits
Kept     == Begins({"register", "add", "adopt", "begun"}) \/ Waits
Added    == Begins({"adopt", "begun"}) \/ Waits
Adopted  == Begins({"begun"}) \/ Waits

(* What libtorrent was told of the torrent being fetched.                  *)
SwarmOK ==
  /\ \A a \in Attempts : a > attempt => torrent[a] = "absent" /\ counted[a] = {}
  /\ fetching <= attempt /\ \A t \in Threads : seen[t] <= attempt
  /\ fetching = None => ~prioritised /\ settledPolls = 0
  /\ prioritised => prio[fetching] = wanted
  /\ pc["ui"] # "route"
  /\ pc["ui"] \in {"apply", "update"} => seen["ui"] = fetching /\ fetching # None

Placed(a) == \A c \in plan : <<a, c>> \in dest

Written(p) ==
  \/ <<attempt, p>> \in landed
  \/ \E i \in DOMAIN jobs : jobs[i].of = attempt /\ jobs[i].piece = p /\ jobs[i].tracked

InError == [kind |-> "failed", of |-> attempt] \in alerts

(* The fetch of an attempt is the one the plan asks for, and its pieces go *)
(* where the plan wants them.                                              *)
FetchOK ==
  /\ Begins({"check", "retire", "release", "reserve", "abandon"}) => request = ContentRequest(plan)
  /\ Reserved => wanted = plan
  /\ Kept => ~clearPending /\ pc["ui"] # "clear"
  /\ Begins({"abandon", "register", "add", "adopt"}) => phase # "Complete"
  /\ Begins({"register"}) => \A c \in plan : <<attempt + 1, c>> \in dest \/ c \in request.place
  /\ Begins({"add"}) => staging /\ Placed(attempt + 1)
  /\ Added => attempt # None /\ staging /\ torrent[attempt] = "live" /\ Placed(attempt)
  /\ Added => \A p \in plan : p \in counted[attempt] => Written(p)
  /\ Adopted => fetching = attempt

(* Seen complete once, a piece can only be missing of a torrent in error;  *)
(* seen complete again with nothing left to write, everything has landed.  *)
SettledOK ==
  /\ Adopted /\ Busy /\ settledPolls # 0 => \A p \in plan : p \in counted[attempt] \/ InError
  /\ Adopted /\ Busy /\ settledPolls # 0 /\ pc["ui"] \in {"apply", "update"} /\ seenPending = 0 =>
       \A p \in plan : <<attempt, p>> \in landed \/ (InError /\ p \notin counted[attempt])
  /\ Adopted /\ phase = "Complete" => PlanLanded

(* The worker installs, or is about to.                                    *)
Installs == wstep \in {"install", "save"} \/ ustep = "install"

ContentInv ==
  /\ FlowInv /\ BacklogCountsQueue
  /\ SwarmOK /\ FetchOK /\ SettledOK
  /\ Installs => PlanLanded

-----------------------------------------------------------------------------
(* While the windows of Poll are closed, no call of the worker steps       *)
(* inside it.                                                              *)
LEMMA Blocked ==
  ASSUME Windows = {}, NEW s, At("worker", s)
  PROVE  pc["ui"] \notin {"clear", "apply", "update"}
BY DEF At, Preemptible, Threads

(* ... and Route is not divided.                                           *)
LEMMA NotRouting ==
  ASSUME Windows = {}, TypeOK, pc["ui"] # "route", [Next]_vars
  PROVE  pc'["ui"] # "route"
<1>1. pc \in [Threads -> Steps] /\ "ui" \in Threads
  BY DEF TypeOK, Threads
<1>2. ASSUME NEW t \in Threads, NEW asked \in Request, CallBegin(t, asked)  PROVE pc'["ui"] # "route"
  BY <1>1, <1>2 DEF CallBegin, Goto
<1>3. ASSUME NEW t \in Threads, CallCancel(t) \/ Call(t) \/ Return(t)  PROVE pc'["ui"] # "route"
  BY <1>1, <1>3 DEF CallCancel, Call, Check, Retire, Release, Reserve, AbandonPendingClear, Register,
     SetFetchStaging, GiveUp, AddTorrent, Adopt, Return, Goto, Ends
<1>4. CASE Poll
  BY <1>1, <1>4 DEF Poll, Route, RouteReads, RouteActs, HandleAlerts, ClearConfirmed, Throttle,
     Refresh, ApplyPriorities, Update, UpdateWith, Goto, Ends
<1>5. CASE Swarm
  BY <1>5 DEF Swarm, MetadataArrives, TorrentFails, TorrentRemoved, Receive, RunWrite, RunWriteWith,
     callVars
<1>6. CASE UNCHANGED vars
  BY <1>6 DEF vars, callVars
<1> QED
  BY <1>2, <1>3, <1>4, <1>5, <1>6, StepCases

(* A step keeps what FetchState and libtorrent agree on.                   *)
LEMMA SwarmStep ==
  ASSUME Windows = {}, TypeOK, CallOK, SwarmOK, [Next]_vars
  PROVE  SwarmOK'
<1> USE DEF Attempts, Handles, None, Threads
<1>1. /\ pc \in [Threads -> Steps] /\ seen \in [Threads -> Handles] /\ attempt \in Handles /\ fetching \in Handles
      /\ torrent \in [Attempts -> {"absent", "live", "removing", "gone"}]
      /\ counted \in [Attempts -> SUBSET Pieces] /\ prio \in [Attempts -> SUBSET Pieces]
      /\ MaxAttempts \in Nat
  BY BoundsAssumption DEF TypeOK
<1>2. SwarmOK /\ pc'["ui"] # "route"
  BY NotRouting DEF SwarmOK
<1>3. ASSUME NEW t \in Threads, NEW asked \in Request, CallBegin(t, asked)  PROVE SwarmOK'
  BY <1>1, <1>2, <1>3 DEF SwarmOK, CallBegin, Goto, fetchVars, locatorVars, swarmVars, diskVars,
     readVars
<1>4. ASSUME NEW t \in Threads, CallCancel(t)  PROVE SwarmOK'
  BY <1>1, <1>2, <1>4 DEF SwarmOK, CallCancel, Goto, fetchVars, locatorVars, swarmVars, diskVars,
     readVars
<1>5. ASSUME NEW t \in Threads, Return(t)  PROVE SwarmOK'
  BY <1>1, <1>2, <1>5 DEF SwarmOK, Return, Goto, Ends, fetchVars, locatorVars, swarmVars,
     diskVars, readVars
<1>6. ASSUME NEW t \in Threads, Check(t)  PROVE SwarmOK'
  BY <1>1, <1>2, <1>6 DEF SwarmOK, Check, Goto, fetchVars, locatorVars, swarmVars, diskVars,
     readVars
<1>7. ASSUME NEW t \in Threads, Retire(t)  PROVE SwarmOK'
  <2>1. pc'["ui"] \notin {"apply", "update"}
    BY <1>1, <1>7, Blocked DEF Retire, Goto, At
  <2>2. /\ fetching' = 0 /\ prioritised' = FALSE /\ settledPolls' = 0
        /\ seen' = [seen EXCEPT ![t] = fetching]
        /\ UNCHANGED <<torrent, counted, attempt>>
    BY <1>7 DEF Retire, swarmVars
  <2> QED
    BY <1>1, <1>2, <2>1, <2>2 DEF SwarmOK
<1>8. ASSUME NEW t \in Threads, Release(t)  PROVE SwarmOK'
  <2>1. /\ torrent' = [a \in Attempts |-> IF a = seen[t] THEN "removing" ELSE torrent[a]]
        /\ seen' = [seen EXCEPT ![t] = 0] /\ UNCHANGED <<prio, counted, attempt, fetching, prioritised, settledPolls, wanted>>
    BY <1>8 DEF Release, fetchVars
  <2>2. pc' \in [Threads -> Steps] /\ (pc'["ui"] = pc["ui"] \/ pc'["ui"] \notin {"apply", "update"})
        /\ (pc'["ui"] = pc["ui"] => t # "ui")
    BY <1>1, <1>8 DEF Release, Goto, Ends, At, Steps
  <2> QED
    BY <1>1, <1>2, <2>1, <2>2 DEF SwarmOK
<1>9. ASSUME NEW t \in Threads, Reserve(t)  PROVE SwarmOK'
  <2>1. op[t] = "begin" /\ fetching = 0
    BY <1>9 DEF CallOK, BeginSteps, Reserve, At
  <2>2. /\ UNCHANGED <<fetching, torrent, counted, prio, attempt, seen>>
        /\ pc'["ui"] = pc["ui"] \/ pc'["ui"] \notin {"apply", "update"}
    BY <1>1, <1>9 DEF Reserve, Goto, swarmVars, readVars
  <2>3. ~prioritised' /\ settledPolls' = 0
    BY <1>2, <1>9, <2>1 DEF Reserve, SwarmOK
  <2> QED
    BY <1>1, <1>2, <2>1, <2>2, <2>3 DEF SwarmOK
<1>10. ASSUME NEW t \in Threads, AbandonPendingClear(t)  PROVE SwarmOK'
  BY <1>1, <1>2, <1>10 DEF SwarmOK, AbandonPendingClear, Goto, swarmVars, diskVars, readVars
<1>11. ASSUME NEW t \in Threads, Register(t) \/ SetFetchStaging(t)  PROVE SwarmOK'
  BY <1>1, <1>2, <1>11 DEF SwarmOK, Register, SetFetchStaging, Goto, fetchVars, swarmVars,
     diskVars, readVars
<1>12. ASSUME NEW t \in Threads, GiveUp(t)  PROVE SwarmOK'
  <2>1. pc'["ui"] \notin {"apply", "update"}
    BY <1>1, <1>12, Blocked DEF GiveUp, Goto, At
  <2> QED
    BY <1>1, <1>2, <1>12, <2>1 DEF SwarmOK, GiveUp, swarmVars, readVars
<1>13. ASSUME NEW t \in Threads, AddTorrent(t)  PROVE SwarmOK'
  <2>1. op[t] = "begin" /\ attempt < MaxAttempts
    BY <1>13 DEF CallOK, BeginSteps, AddTorrent, At
  <2>2. /\ attempt' = attempt + 1 /\ torrent' = [torrent EXCEPT ![attempt + 1] = "live"]
        /\ UNCHANGED <<fetching, prioritised, settledPolls, wanted, prio, counted, seen>>
        /\ pc'["ui"] = pc["ui"] \/ pc'["ui"] \notin {"apply", "update"}
    BY <1>1, <1>13 DEF AddTorrent, Goto, fetchVars, readVars
  <2> QED
    BY <1>1, <1>2, <2>1, <2>2 DEF SwarmOK
<1>14. ASSUME NEW t \in Threads, Adopt(t)  PROVE SwarmOK'
  <2>1. op[t] = "begin" /\ fetching = 0
    BY <1>14 DEF CallOK, BeginSteps, Adopt, At
  <2>2. pc'["ui"] \notin {"apply", "update"}
    BY <1>1, <1>14, Blocked DEF Adopt, Goto, At
  <2> QED
    BY <1>1, <1>2, <1>14, <2>1, <2>2 DEF SwarmOK, Adopt, swarmVars, readVars
<1>15. CASE Route \/ RouteReads \/ RouteActs
  BY <1>1, <1>2, <1>15 DEF SwarmOK, Route, RouteReads, RouteActs, HandleAlerts, At, Goto, readVars,
     diskVars
<1>16. CASE ClearConfirmed \/ Throttle
  BY <1>1, <1>2, <1>16 DEF SwarmOK, ClearConfirmed, Throttle, Goto, Ends, fetchVars, swarmVars,
     readVars
<1>17. CASE Refresh
  BY <1>1, <1>2, <1>17 DEF SwarmOK, Refresh, Goto, Ends, fetchVars, swarmVars
<1>18. CASE ApplyPriorities
  <2>1. seen["ui"] = fetching /\ fetching # 0 /\ seen' = seen /\ UNCHANGED <<torrent, counted, attempt, fetching, wanted, settledPolls>>
    BY <1>2, <1>18 DEF SwarmOK, ApplyPriorities, At, readVars
  <2>2. prioritised' => prio'[fetching] = wanted
    <3>1. (prioritised' = prioritised /\ prio' = prio) \/ prio' = [prio EXCEPT ![fetching] = wanted]
      BY <1>18, <2>1 DEF ApplyPriorities
    <3>2. prioritised => prio[fetching] = wanted
      BY <1>2 DEF SwarmOK
    <3>3. CASE prio' = [prio EXCEPT ![fetching] = wanted]
      BY <1>1, <2>1, <3>3
    <3>4. CASE prioritised' = prioritised /\ prio' = prio
      <4>1. prioritised' => prioritised
        BY <3>4, Zenon
      <4>2. prioritised => prio'[fetching] = wanted
        BY <3>2, <3>4
      <4> QED
        BY <4>1, <4>2, Zenon
    <3> QED
      BY <3>1, <3>3, <3>4, Zenon
  <2> QED
    BY <1>1, <1>2, <2>1, <2>2 DEF SwarmOK
<1>19. CASE Update
  <2>1. fetching # 0 /\ UNCHANGED <<torrent, counted, attempt, prio, fetching, wanted, prioritised>>
    BY <1>2, <1>19 DEF SwarmOK, Update, UpdateWith, At, swarmVars
  <2>2. pc'["ui"] = "idle" /\ seen' = [seen EXCEPT !["ui"] = 0]
    BY <1>1, <1>19 DEF Update, UpdateWith, Ends, Goto
  <2> QED
    BY <1>1, <1>2, <2>1, <2>2 DEF SwarmOK
<1>20. CASE Swarm
  <2>1. UNCHANGED <<pc, seen, fetching, wanted, prioritised, settledPolls, attempt, prio>>
    BY <1>20, SwarmMoves
  <2>2. SUFFICES \A a \in Attempts : a > attempt => torrent'[a] = "absent" /\ counted'[a] = {}
    BY <1>2, <2>1 DEF SwarmOK
  <2>3. \A a \in Attempts : a > attempt => torrent[a] = "absent" /\ counted[a] = {}
    BY <1>2 DEF SwarmOK
  <2>4. ASSUME NEW b \in Attempts, MetadataArrives(b) \/ TorrentFails(b)
        PROVE  UNCHANGED <<torrent, counted>>
    BY <2>4 DEF MetadataArrives, TorrentFails
  <2>5. ASSUME NEW b \in Attempts, TorrentRemoved(b)
        PROVE  torrent[b] = "removing" /\ torrent' = [torrent EXCEPT ![b] = "gone"] /\ counted' = counted
    BY <2>5 DEF TorrentRemoved
  <2>6. ASSUME NEW b \in Attempts, NEW p \in Pieces, Receive(b, p)
        PROVE  torrent[b] = "live" /\ torrent' = torrent /\ counted' = [counted EXCEPT ![b] = @ \cup {p}]
    BY <2>6 DEF Receive
  <2>7. CASE RunWrite
    <3>1. torrent' = torrent /\ (counted' = counted \/ counted' = [counted EXCEPT ![Head(jobs).of] = @ \ {Head(jobs).piece}])
      BY <2>7 DEF RunWrite, RunWriteWith
    <3> QED
      BY <1>1, <2>3, <3>1
  <2> QED
    BY <1>1, <1>20, <2>3, <2>4, <2>5, <2>6, <2>7 DEF Swarm
<1>21. CASE UNCHANGED vars
  BY <1>2, <1>21 DEF SwarmOK, vars, fetchVars, swarmVars, readVars, callVars
<1> QED
  BY <1>3, <1>4, <1>5, <1>6, <1>7, <1>8, <1>9, <1>10, <1>11, <1>12, <1>13, <1>14, <1>15, <1>16,
     <1>17, <1>18, <1>19,
     <1>20, <1>21, StepCases DEF Call, Poll

-----------------------------------------------------------------------------
(* What a step of the service leaves of the fetch it waits for: the step   *)
(* is one of the session, it begins or ends the worker's Begin, or no      *)
(* fetch is on that was not on before.                                     *)
Fetches == (wstep = "begin" /\ ustep # "join") \/ Waits

Follows ==
  /\ UNCHANGED vars
  /\ wstep' = "begin" /\ ustep' # "join" => wstep = "begin" /\ ustep # "join" /\ plan' = plan
  /\ Waits' => Waits /\ plan' = plan

(* A step leaves the fetch of content where it was or ends it, has just begun it for a manifest or
   for content, or is one of the session alone. *)
LEMMA FetchCases ==
  ASSUME FlowInv, [FlowNext]_flowVars
  PROVE  Follows \/ ~Fetches' \/ (StageFetch /\ ustep # "join") \/ (ContentBegun /\ ustep # "join")
           \/ (Fetches /\ Session)
<1>1. ThreadsOK /\ TypeOK /\ CallOK
  BY DEF FlowInv, IInv
<1>2. /\ ustep \notin {"idle", "join"} => wstep = "none"
      /\ iphase = "Fetching" /\ ustep # "join" => wstep = "none"
      /\ ustep = "manifest" => plan = {}
  BY <1>1 DEF ThreadsOK
<1>3. pc \in [Threads -> Steps] /\ op \in [Threads -> {"none", "begin", "cancel", "poll"}]
  BY <1>1 DEF TypeOK
<1> USE DEF Fetches, Waits, Follows
<1>4. ASSUME NEW m \in Mods, StartHeld(m) \/ FetchDetailsHeld(m) \/ Verify(m)  PROVE ~Fetches'
  BY <1>2, <1>4 DEF StartHeld, FetchDetailsHeld, Verify, Claim
<1>5. ASSUME NEW m \in Mods, NEW d \in BOOLEAN, StartUnheld(m, d)  PROVE ~Fetches'
  BY <1>2, <1>5 DEF StartUnheld, Claim
<1>6. CASE Cancel
  BY <1>6 DEF Cancel
<1>7. CASE ManifestBegun
  BY <1>2, <1>7 DEF ManifestBegun, attemptVars
<1>8. CASE PollFetchFailed
  BY <1>2, <1>8 DEF PollFetchFailed, Conclude, UiFree
<1>9. CASE PollDetailsExpired \/ PollManifestAdopted \/ PollManifestRejected \/ PollContentComplete
  BY <1>2, <1>9 DEF PollDetailsExpired, PollManifestAdopted, PollManifestRejected,
     PollContentComplete,
                    PollThenCancel, UiFree
<1>10. CASE PollResumes
  <2>1. wstep = "none"
    BY <1>2, <1>10 DEF PollResumes
  <2>2. iphase' # "Fetching" /\ wstep' # "begin"
    BY <1>10, <2>1 DEF PollResumes, Conclude
  <2> QED
    BY <2>2
<1>11. CASE CancelJoined
  BY <1>11 DEF CancelJoined, CancelSettles
<1>12. CASE PlanAbandoned \/ PlanCompares \/ PlanReady \/ InstallSwaps \/ StageHeld \/ VerifyDamaged
  BY <1>2, <1>12 DEF PlanAbandoned, PlanCompares, PlanReady, InstallSwaps, StageHeld, VerifyDamaged
<1>13. CASE StageRefused \/ InstallFails \/ InstallDone \/ VerifyIntact \/ VerifyFolderMissing
  BY <1>13 DEF StageRefused, InstallFails, InstallDone, VerifyIntact, VerifyFolderMissing,
     WorkerConcludes, Conclude
<1>14. CASE StageFetch
  BY <1>2, <1>14 DEF StageFetch
<1>15. CASE ContentBegun
  BY <1>2, <1>15 DEF ContentBegun
<1>16. CASE Session
  BY <1>16 DEF Session, installVars, attemptVars
<1>17. CASE UNCHANGED flowVars
  BY <1>17 DEF flowVars, installVars, attemptVars
<1> QED
  BY <1>4, <1>5, <1>6, <1>7, <1>8, <1>9, <1>10, <1>11, <1>12, <1>13, <1>14, <1>15, <1>16, <1>17
     DEF FlowNext, Ui, UiGoesOn, Worker

(* The calls that run while a fetch is on are those of its own Begin.      *)
LEMMA FetchCalls ==
  ASSUME FlowInv, Fetches, Session
  PROVE  \/ /\ wstep = "begin" /\ ustep = "idle" /\ iphase # "Fetching" /\ op["worker"] = "begin"
            /\ Call("worker")
         \/ ustep = "idle" /\ Poll
         \/ Swarm
<1>1. ThreadsOK /\ TypeOK /\ CallOK
  BY DEF FlowInv, IInv
<1>2. ustep = "idle"
  BY <1>1 DEF ThreadsOK, Fetches, Waits, FlowInv, FlowTypeOK
<1>3. ~Call("ui")
  BY <1>1, <1>2, CallMoves DEF ThreadsOK, Threads
<1>4. CASE Call("worker")
  <2>1. pc["worker"] # "idle"
    BY <1>1, <1>4, CallMoves DEF PollSteps, Threads
  <2> QED
    BY <1>1, <1>2, <1>4, <2>1 DEF ThreadsOK
<1> QED
  BY <1>2, <1>3, <1>4 DEF Session, Threads

-----------------------------------------------------------------------------
(* A written queue: what waits, keeps waiting or has run.                  *)
LEMMA QueueAppend ==
  ASSUME NEW q \in Seq(Job), NEW j \in Job
  PROVE  /\ Append(q, j) \in Seq(Job)
         /\ \A i \in DOMAIN q : i \in DOMAIN Append(q, j) /\ Append(q, j)[i] = q[i]
         /\ Len(q) + 1 \in DOMAIN Append(q, j) /\ Append(q, j)[Len(q) + 1] = j
OBVIOUS

(* A queue that is served: a job was the head or waits one place further up.*)
LEMMA QueueTail ==
  ASSUME NEW q \in Seq(Job), q # <<>>, NEW i \in DOMAIN q
  PROVE  q[i] = Head(q) \/ (i - 1 \in DOMAIN Tail(q) /\ Tail(q)[i - 1] = q[i])
<1>1. Len(q) \in Nat /\ DOMAIN q = 1..Len(q) /\ Tail(q) \in Seq(Job) /\ Len(Tail(q)) = Len(q) - 1 /\ Head(q) = q[1]
  OBVIOUS
<1>2. CASE i # 1
  <2>1. i - 1 \in 1..Len(Tail(q)) /\ (i - 1) + 1 = i
    BY <1>1, <1>2
  <2>2. Tail(q)[i - 1] = q[(i - 1) + 1]
    BY <2>1
  <2> QED
    BY <1>1, <2>1, <2>2
<1> QED
  BY <1>1, <1>2

(* A piece of the plan that is counted has been written or is about to be. *)
WritesOK == \A p \in plan : p \in counted[attempt] => Written(p)

(* The swarm and the disk thread lose no counted piece: its write waits,    *)
(* has landed, or takes the piece out of the count.                        *)
LEMMA WritesStep ==
  ASSUME TypeOK, attempt # None, plan \subseteq Chunks, staging, Placed(attempt), WritesOK, Swarm, UNCHANGED plan
  PROVE  WritesOK'
<1>1. /\ jobs \in Seq(Job) /\ counted \in [Attempts -> SUBSET Pieces] /\ attempt \in Attempts /\ staging \in BOOLEAN
  BY DEF TypeOK, Handles, Attempts, None
<1>2. attempt' = attempt /\ plan' = plan
  BY SwarmMoves
<1>3. ManifestPiece \notin Chunks
  BY BoundsAssumption
<1>4. ASSUME NEW a \in Attempts, MetadataArrives(a) \/ TorrentFails(a) \/ TorrentRemoved(a)
      PROVE  WritesOK'
  <2>1. UNCHANGED <<counted, jobs, landed>>
    BY <1>4 DEF MetadataArrives, TorrentFails, TorrentRemoved, diskVars
  <2> QED
    BY <1>2, <2>1 DEF WritesOK, Written
<1>5. ASSUME NEW a \in Attempts, NEW q \in Pieces, Receive(a, q)  PROVE WritesOK'
  <2> DEFINE j == [of |-> a, piece |-> q, tracked |-> staging]
  <2>1. j \in Job /\ j.of = a /\ j.piece = q /\ j.tracked
    BY <1>1 DEF Job
  <2>2. jobs' = Append(jobs, j) /\ counted' = [counted EXCEPT ![a] = @ \cup {q}] /\ landed' = landed
    BY <1>5 DEF Receive
  <2> HIDE DEF j
  <2>3. ASSUME NEW p \in plan, p \in counted'[attempt]  PROVE Written(p)'
    <3>1. CASE p \in counted[attempt]
      <4>1. Written(p)
        BY <3>1 DEF WritesOK
      <4> QED
        BY <1>1, <1>2, <2>1, <2>2, <4>1, QueueAppend DEF Written
    <3>2. CASE p \notin counted[attempt]
      <4>1. a = attempt /\ q = p
        BY <1>1, <2>2, <2>3, <3>2
      <4> QED
        BY <1>1, <1>2, <2>1, <2>2, <4>1, QueueAppend DEF Written
    <3> QED
      BY <3>1, <3>2
  <2> QED
    BY <1>2, <2>3 DEF WritesOK
<1>6. CASE RunWrite
  <2>1. jobs # <<>> /\ jobs' = Tail(jobs)
    BY <1>6 DEF RunWrite, RunWriteWith
  <2>2. \/ landed' = landed \cup Placements(Head(jobs)) /\ counted' = counted
        \/ landed' = landed /\ counted' = [counted EXCEPT ![Head(jobs).of] = @ \ {Head(jobs).piece}]
    BY <1>6 DEF RunWrite, RunWriteWith
  <2>3. landed \subseteq landed'
    BY <2>2
  <2>4. ASSUME NEW p \in plan, p \in counted'[attempt]  PROVE Written(p)'
    <3>1. p \in counted[attempt]
      BY <1>1, <2>2, <2>4
    <3>2. Written(p) /\ p \in Chunks /\ p # ManifestPiece /\ <<attempt, p>> \in dest
      BY <1>3, <3>1 DEF WritesOK, Placed
    <3>3. CASE <<attempt, p>> \in landed
      BY <1>2, <2>3, <3>3 DEF Written
    <3>4. ASSUME NEW i \in DOMAIN jobs, jobs[i].of = attempt, jobs[i].piece = p, jobs[i].tracked
          PROVE  Written(p)'
      <4>1. CASE jobs[i] = Head(jobs)
        <5>1. counted' = counted
          <6>1. Head(jobs).of = attempt /\ Head(jobs).piece = p
            BY <3>4, <4>1
          <6> QED
            BY <1>1, <2>2, <2>4, <6>1
        <5>2. <<attempt, p>> \in Placements(Head(jobs))
          BY <3>2, <3>4, <4>1 DEF Placements
        <5>3. landed' = landed \cup Placements(Head(jobs))
          <6>1. Head(jobs).of = attempt /\ Head(jobs).piece = p
            BY <3>4, <4>1
          <6> QED
            BY <1>1, <2>2, <2>4, <6>1
        <5> QED
          BY <1>2, <5>2, <5>3 DEF Written
      <4>2. CASE i - 1 \in DOMAIN Tail(jobs) /\ Tail(jobs)[i - 1] = jobs[i]
        BY <1>2, <2>1, <3>4, <4>2 DEF Written
      <4> QED
        BY <1>1, <2>1, <4>1, <4>2, QueueTail
    <3> QED
      BY <3>2, <3>3, <3>4 DEF Written
  <2> QED
    BY <1>2, <2>4 DEF WritesOK
<1> QED
  BY <1>4, <1>5, <1>6 DEF Swarm

(* The fetch an attempt began stays the one its plan asks for: no other     *)
(* call clears its placements or takes its reservation.                    *)
LEMMA FetchStep ==
  ASSUME Windows = {}, FlowInv, SwarmOK, FetchOK, [FlowNext]_flowVars
  PROVE  FetchOK'
<1> USE DEF Begins, Waits, Reserved, Kept, Added, Adopted
<1>1. ThreadsOK /\ TypeOK /\ CallOK /\ plan \subseteq Chunks
  BY DEF FlowInv, IInv, FlowTypeOK
<1>2. /\ pc \in [Threads -> Steps] /\ attempt \in Handles /\ fetching \in Handles
      /\ torrent \in [Attempts -> {"absent", "live", "removing", "gone"}]
  BY <1>1 DEF TypeOK
<1>3. FetchOK
  OBVIOUS
<1>4. CASE ~Fetches'
  BY <1>4 DEF FetchOK, Fetches
<1>5. CASE Follows
  BY <1>3, <1>5 DEF FetchOK, Follows, Placed, Written, vars, fetchVars, locatorVars, swarmVars,
     diskVars, callVars
<1>6. CASE StageFetch /\ ustep # "join"
  <2>1. pc'["worker"] = "check" /\ request' = ContentRequest(plan) /\ plan' = plan /\ iphase' = iphase /\ ustep' = ustep
    BY <1>2, <1>6 DEF StageFetch, CallBegin, Goto, Threads, attemptVars
  <2>2. iphase # "Fetching"
    BY <1>1, <1>6 DEF ThreadsOK, StageFetch
  <2> QED
    BY <2>1, <2>2 DEF FetchOK
<1>7. CASE ContentBegun /\ ustep # "join"
  <2>1. /\ wstep = "begin" /\ wstep' = "none" /\ plan' = plan /\ pc'["ui"] = pc["ui"]
        /\ UNCHANGED <<fetchVars, locatorVars, swarmVars, diskVars>>
    BY <1>2, <1>7 DEF ContentBegun, Return, Ends, Goto, Threads, attemptVars
  <2>2. CASE pc["worker"] = "begun"
    BY <1>3, <1>7, <2>1, <2>2 DEF FetchOK, Placed, Written, fetchVars, locatorVars, swarmVars,
       diskVars
  <2>3. CASE pc["worker"] # "begun"
    <3>1. iphase' = "Failed"
      BY <1>7, <2>3 DEF ContentBegun, Conclude
    <3> QED
      BY <2>1, <3>1 DEF FetchOK
  <2> QED
    BY <2>2, <2>3
<1>8. CASE Fetches /\ Session
  <2>1. UNCHANGED <<wstep, ustep, iphase, plan>>
    BY <1>8 DEF Session, installVars, attemptVars
  <2>2. CASE /\ wstep = "begin" /\ ustep = "idle" /\ iphase # "Fetching" /\ op["worker"] = "begin"
             /\ Call("worker")
    <3>1. "worker" \in Threads /\ "ui" \in Threads
      BY DEF Threads
    <3>2. pc'["ui"] = pc["ui"]
      BY <1>1, <2>2, <3>1, CallMoves
    <3>3. CASE Check("worker")
      BY <1>2, <1>3, <2>1, <2>2, <3>1, <3>3 DEF FetchOK, Check, Goto, At
    <3>4. CASE Retire("worker")
      BY <1>2, <1>3, <2>1, <2>2, <3>1, <3>4 DEF FetchOK, Retire, Goto, At
    <3>5. CASE Release("worker")
      BY <1>2, <1>3, <2>1, <2>2, <3>1, <3>5 DEF FetchOK, Release, Goto, At
    <3>6. CASE Reserve("worker")
      <4>1. request' = request /\ pc["worker"] = "reserve"
        BY <3>6 DEF Reserve, At
      <4>2. pc'["worker"] = "refused" \/ (pc'["worker"] = "abandon" /\ wanted' = request.want /\ phase' = "Metadata")
        BY <1>2, <3>1, <3>6 DEF Reserve, Goto
      <4> QED
        BY <1>2, <1>3, <2>1, <2>2, <3>2, <4>1, <4>2 DEF FetchOK, ContentRequest
    <3>7. CASE AbandonPendingClear("worker")
      <4>1. /\ pc["worker"] = "abandon" /\ pc'["worker"] = "register" /\ clearPending' = FALSE
            /\ request' = request /\ wanted' = wanted /\ phase' = phase /\ pc["ui"] # "clear"
        BY <1>2, <3>1, <3>7, Blocked DEF AbandonPendingClear, Goto, At
      <4>2. request.place = plan
        BY <1>3, <2>2, <4>1 DEF FetchOK, ContentRequest
      <4> QED
        BY <1>3, <2>1, <2>2, <3>2, <4>1, <4>2 DEF FetchOK
    <3>8. CASE Register("worker")
      <4>1. /\ pc["worker"] = "register" /\ pc' = pc /\ UNCHANGED <<fetchVars, swarmVars>>
        BY <3>8 DEF Register, At
      <4>2. PICK c \in request.place :
              /\ dest' = dest \cup {<<attempt + 1, c>>}
              /\ request' = [request EXCEPT !.place = @ \ {c}]
        BY <3>8 DEF Register
      <4>3. request \in Request
        BY <1>1 DEF TypeOK
      <4>4. request'.place = request.place \ {c}
        BY <4>2, <4>3 DEF Request
      <4> QED
        BY <1>3, <2>1, <2>2, <4>1, <4>2, <4>4 DEF FetchOK, fetchVars, swarmVars
    <3>9. CASE SetFetchStaging("worker")
      <4>1. /\ pc["worker"] = "register" /\ pc'["worker"] = "add" /\ request.place = {} /\ staging' = TRUE
            /\ UNCHANGED <<fetchVars, swarmVars, dest>>
        BY <1>2, <3>1, <3>9 DEF SetFetchStaging, At, Goto
      <4> QED
        BY <1>3, <2>1, <2>2, <3>2, <4>1 DEF FetchOK, Placed, fetchVars, swarmVars
    <3>10. CASE GiveUp("worker")
      BY <1>2, <1>3, <2>1, <2>2, <3>1, <3>10 DEF FetchOK, GiveUp, Goto, At
    <3>11. CASE AddTorrent("worker")
      <4>1. /\ pc["worker"] = "add" /\ pc'["worker"] = "adopt" /\ attempt' = attempt + 1
            /\ torrent' = [torrent EXCEPT ![attempt + 1] = "live"]
            /\ UNCHANGED <<fetchVars, locatorVars, counted>>
        BY <1>2, <3>1, <3>11 DEF AddTorrent, At, Goto
      <4>2. attempt + 1 \in Attempts
        <5>1. attempt < MaxAttempts
          BY <1>1, <2>2, <3>1, <4>1 DEF CallOK
        <5> QED
          BY <1>2, <5>1, BoundsAssumption DEF Handles, Attempts
      <4>3. torrent'[attempt'] = "live"
        BY <1>2, <4>1, <4>2
      <4>4. counted'[attempt'] = {}
        BY <1>2, <4>1, <4>2 DEF SwarmOK, Handles
      <4>5. attempt' # None
        BY <4>1, <4>2 DEF Attempts, None
      <4> QED
        BY <1>3, <2>1, <2>2, <3>2, <4>1, <4>3, <4>4, <4>5 DEF FetchOK, Placed, fetchVars,
           locatorVars
    <3>12. CASE Adopt("worker")
      <4>1. /\ pc["worker"] = "adopt" /\ pc'["worker"] = "begun" /\ fetching' = attempt
            /\ UNCHANGED <<wanted, clearPending, locatorVars, swarmVars, diskVars>>
        BY <1>2, <3>1, <3>12 DEF Adopt, At, Goto
      <4> QED
        BY <1>3, <2>1, <2>2, <3>2, <4>1 DEF FetchOK, Placed, Written, locatorVars, swarmVars,
           diskVars
    <3> QED
      BY <2>2, <3>3, <3>4, <3>5, <3>6, <3>7, <3>8, <3>9, <3>10, <3>11, <3>12 DEF Call
  <2>3. CASE ustep = "idle" /\ Poll
    <3>1. pc'["worker"] = pc["worker"]
      BY <1>1, <2>3, PollMoves DEF ThreadsOK
    <3>2. UNCHANGED <<request, wanted, fetching, staging, torrent, counted, attempt, jobs, landed>>
      BY <2>3 DEF Poll, Route, RouteReads, RouteActs, PollStarts, HandleAlerts, ClearConfirmed,
         Throttle, Refresh, ApplyPriorities,
         Update, UpdateWith,
                  fetchVars, locatorVars, swarmVars, diskVars
    <3>3. Begins({"abandon", "register", "add", "adopt"}) => fetching = None
      BY <1>1 DEF CallOK, ThreadsOK, Threads
    <3>4. ASSUME ~clearPending, pc["ui"] # "clear"
          PROVE  ~clearPending' /\ pc'["ui"] # "clear"
      <4>1. CASE Route \/ RouteReads \/ RouteActs
        BY <1>2, <3>4, <4>1 DEF Route, RouteReads, RouteActs, HandleAlerts, ConfirmRemoval, Goto,
           Threads, fetchVars
      <4>2. CASE Throttle \/ Refresh \/ ApplyPriorities \/ Update
        <5>1. clearPending' = clearPending
          BY <4>2 DEF Throttle, Refresh, ApplyPriorities, Update, UpdateWith, fetchVars
        <5>2. pc'["ui"] # "clear"
          BY <1>2, <4>2 DEF Throttle, Refresh, ApplyPriorities, Update, UpdateWith, Goto, Ends,
             Threads
        <5>3. ~clearPending'
          BY <3>4, <5>1, Zenon
        <5> QED
          BY <5>2, <5>3, Zenon
      <4> QED
        BY <2>3, <3>4, <4>1, <4>2 DEF Poll, ClearConfirmed, At
    <3>5. ASSUME pc["ui"] # "clear"  PROVE dest' = dest
      BY <2>3, <3>5 DEF Poll, Route, RouteReads, RouteActs, PollStarts, HandleAlerts,
         ClearConfirmed, Throttle, Refresh,
         ApplyPriorities, Update, UpdateWith,
                        locatorVars, At
    <3>6. phase' = "Complete" => phase = "Complete" \/ fetching # None
      <4>1. CASE Update
        BY <4>1 DEF Update, UpdateWith, At, SwarmOK
      <4> QED
        BY <2>3, <4>1 DEF Poll, Route, RouteReads, RouteActs, PollStarts, HandleAlerts,
           ClearConfirmed, Throttle, Refresh,
           ApplyPriorities, fetchVars
    <3>7. \A p : Written(p)' <=> Written(p)
      BY <3>2 DEF Written
    <3>8. Kept => ~clearPending /\ pc["ui"] # "clear"
      BY <1>3 DEF FetchOK
    <3>9. Kept => ~clearPending' /\ pc'["ui"] # "clear" /\ dest' = dest
      BY <3>4, <3>5, <3>8, Zenon
    <3>10. \A S : Begins(S)' <=> Begins(S)
      BY <2>1, <3>1
    <3>11. Waits' <=> Waits
      BY <2>1
    <3>15. /\ Begins({"register"}) => dest' = dest
           /\ Begins({"add"}) => dest' = dest
           /\ Added => dest' = dest
      BY <3>9
    <3> HIDE DEF Begins, Waits
    <3>12. Begins({"abandon", "register", "add", "adopt"}) => phase' # "Complete"
      BY <1>3, <3>3, <3>6 DEF FetchOK
    <3>13. /\ Begins({"check", "retire", "release", "reserve", "abandon"}) => request' = ContentRequest(plan)
           /\ Reserved => wanted' = plan
           /\ Begins({"register"}) => \A c \in plan : <<attempt + 1, c>> \in dest' \/ c \in request'.place
           /\ Begins({"add"}) => staging' /\ \A c \in plan : <<attempt + 1, c>> \in dest'
      BY <1>3, <3>2, <3>15 DEF FetchOK, Placed
    <3>14. /\ Added => attempt # None /\ staging' /\ torrent'[attempt] = "live" /\ \A c \in plan : <<attempt, c>> \in dest'
           /\ Added => \A p \in plan : p \in counted'[attempt] => Written(p)
           /\ Adopted => fetching' = attempt
      BY <1>3, <3>2, <3>15 DEF FetchOK, Placed
    <3> QED
      BY <2>1, <3>2, <3>7, <3>9, <3>10, <3>11, <3>12, <3>13, <3>14 DEF FetchOK, Placed
  <2>4. CASE Swarm
    <3>1. UNCHANGED <<pc, request, dest, staging, wanted, fetching, phase, clearPending, attempt>>
      BY <2>4, SwarmMoves
    <3>2. \A S : Begins(S)' <=> Begins(S)
      BY <2>1, <3>1
    <3>3. Waits' <=> Waits
      BY <2>1
    <3>4. Added => staging /\ torrent[attempt] = "live" /\ Placed(attempt) /\ WritesOK
      BY <1>3 DEF FetchOK, WritesOK
    <3>5. Added => attempt # None
      BY <1>3 DEF FetchOK
    <3>6. Added => WritesOK'
      <4>1. UNCHANGED plan
        BY <2>1
      <4> HIDE DEF Added
      <4> QED
        BY <1>1, <2>4, <3>4, <3>5, <4>1, WritesStep
    <3>7. Added => torrent'[attempt] = "live"
      <4>1. ASSUME NEW a \in Attempts, torrent[a] = "live"  PROVE torrent'[a] = "live"
        BY <1>2, <2>4, <4>1 DEF Swarm, MetadataArrives, TorrentFails, TorrentRemoved, Receive,
           RunWrite, RunWriteWith
      <4>2. attempt # None => attempt \in Attempts
        BY <1>2 DEF Handles, Attempts, None
      <4> QED
        BY <3>4, <3>5, <4>1, <4>2
    <3> HIDE DEF Begins, Waits
    <3> QED
      BY <1>3, <2>1, <3>1, <3>2, <3>3, <3>4, <3>6, <3>7 DEF FetchOK, Placed, WritesOK
  <2> QED
    BY <1>8, <2>2, <2>3, <2>4, FetchCalls
<1> QED
  BY <1>4, <1>5, <1>6, <1>7, <1>8, FetchCases

-----------------------------------------------------------------------------
(* With an empty backlog, a counted piece of the plan is where it belongs. *)
LEMMA NothingIsWaiting ==
  ASSUME TypeOK, BacklogCountsQueue, pending = 0, NEW p, Written(p)
  PROVE  <<attempt, p>> \in landed
<1>1. jobs \in Seq(Job)
  BY DEF TypeOK
<1>2. Cardinality(Tracked(jobs)) = 0 /\ IsFiniteSet(Tracked(jobs))
  BY <1>1, TrackedIsFinite DEF BacklogCountsQueue, Tracked
<1>3. Tracked(jobs) = {}
  BY <1>2, FS_EmptySet
<1>4. ASSUME NEW i \in DOMAIN jobs, jobs[i].tracked  PROVE FALSE
  BY <1>1, <1>3, <1>4 DEF Tracked
<1> QED
  BY <1>4 DEF Written

(* A write that fails for a live torrent puts it in error.                 *)
LEMMA FailedWrites ==
  ASSUME TypeOK, attempt # None, torrent[attempt] = "live", Swarm
  PROVE  /\ InError => InError'
         /\ landed \subseteq landed'
         /\ \A p \in counted[attempt] : p \in counted'[attempt] \/ InError'
         /\ InError => counted'[attempt] \subseteq counted[attempt]
<1>1. /\ jobs \in Seq(Job) /\ counted \in [Attempts -> SUBSET Pieces] /\ attempt \in Attempts
  BY DEF TypeOK, Handles, Attempts, None
<1>2. attempt' = attempt
  BY SwarmMoves
<1>3. ASSUME NEW a \in Attempts, MetadataArrives(a) \/ TorrentFails(a) \/ TorrentRemoved(a)
      PROVE  alerts \subseteq alerts' /\ counted' = counted /\ landed' = landed
  BY <1>3 DEF MetadataArrives, TorrentFails, TorrentRemoved, diskVars
<1>4. ASSUME NEW a \in Attempts, NEW q \in Pieces, Receive(a, q)
      PROVE  /\ alerts' = alerts /\ landed' = landed /\ counted' = [counted EXCEPT ![a] = @ \cup {q}]
             /\ InError => a # attempt
  BY <1>4 DEF Receive, InError
<1>5. CASE RunWrite
  <2>0. Head(jobs) \in Job
    BY <1>1, <1>5 DEF RunWrite, RunWriteWith
  <2>1. Head(jobs).of \in Attempts
    BY <2>0 DEF Job
  <2>2. CASE landed' = landed \cup Placements(Head(jobs)) /\ UNCHANGED <<counted, alerts>>
    BY <1>2, <2>2 DEF InError
  <2>3. CASE /\ counted' = [counted EXCEPT ![Head(jobs).of] = @ \ {Head(jobs).piece}]
             /\ alerts' = IF Mounted(Head(jobs).of) THEN alerts \cup {[kind |-> "failed", of |-> Head(jobs).of]}
                          ELSE alerts
             /\ landed' = landed
    <3>1. alerts \subseteq alerts'
      BY <2>3
    <3>2. Head(jobs).of = attempt => InError'
      BY <1>2, <2>3 DEF Mounted, InError
    <3>3. Head(jobs).of # attempt => counted'[attempt] = counted[attempt]
      BY <1>1, <2>3
    <3>4. counted'[attempt] \subseteq counted[attempt]
      BY <1>1, <2>1, <2>3
    <3> QED
      BY <1>2, <2>3, <3>1, <3>2, <3>3, <3>4 DEF InError
  <2> QED
    BY <1>5, <2>2, <2>3 DEF RunWrite, RunWriteWith
<1>6. ASSUME NEW a \in Attempts, NEW q \in Pieces, Receive(a, q)
      PROVE  /\ InError => InError'
             /\ landed' = landed
             /\ counted[attempt] \subseteq counted'[attempt]
             /\ InError => counted'[attempt] = counted[attempt]
  BY <1>1, <1>2, <1>4, <1>6 DEF InError
<1>7. ASSUME NEW a \in Attempts, MetadataArrives(a) \/ TorrentFails(a) \/ TorrentRemoved(a)
      PROVE  (InError => InError') /\ landed' = landed /\ counted' = counted
  BY <1>2, <1>3, <1>7 DEF InError
<1>8. CASE \E a \in Attempts : MetadataArrives(a) \/ TorrentFails(a) \/ TorrentRemoved(a)
  <2>1. (InError => InError') /\ landed' = landed /\ counted' = counted
    BY <1>7, <1>8
  <2> QED
    BY <2>1
<1>9. CASE \E a \in Attempts, q \in Pieces : Receive(a, q)
  <2>1. /\ InError => InError'
        /\ landed' = landed
        /\ counted[attempt] \subseteq counted'[attempt]
        /\ InError => counted'[attempt] = counted[attempt]
    BY <1>6, <1>9
  <2> QED
    BY <2>1
<1> QED
  BY <1>5, <1>8, <1>9 DEF Swarm

(* What was seen complete stays complete, or the fetch is in error.        *)
LEMMA SettledStep ==
  ASSUME Windows = {}, Confirmations # 0, FlowInv, BacklogCountsQueue, SwarmOK, FetchOK, SettledOK,
         [FlowNext]_flowVars
  PROVE  SettledOK'
<1>1. ThreadsOK /\ TypeOK /\ CallOK /\ plan \subseteq Chunks
  BY DEF FlowInv, IInv, FlowTypeOK
<1>2. /\ pc \in [Threads -> Steps] /\ attempt \in Handles /\ fetching \in Handles /\ pending \in Int
      /\ settledPolls \in 0..Confirmations /\ Confirmations \in Nat
  BY <1>1, BoundsAssumption DEF TypeOK
<1>3. SettledOK
  OBVIOUS
<1>4. Adopted => /\ attempt # None /\ fetching = attempt /\ torrent[attempt] = "live" /\ wanted = plan
                 /\ \A p \in plan : p \in counted[attempt] => Written(p)
  BY DEF FetchOK, Adopted, Added, Reserved, Begins
<1>5. CASE ~Fetches'
  BY <1>5 DEF SettledOK, Fetches, Adopted, Begins
<1>6. CASE Follows
  <2>1. Adopted' => Adopted
    BY <1>6 DEF Follows, vars, callVars, Adopted, Begins
  <2>2. Adopted' => plan' = plan
    BY <1>6 DEF Follows, Adopted, Begins
  <2> QED
    BY <1>3, <1>6, <2>1, <2>2 DEF SettledOK, Follows, InError, PlanLanded, Busy, vars, fetchVars,
       swarmVars, diskVars,
                                  callVars, readVars
<1>7. CASE StageFetch /\ ustep # "join"
  <2>1. pc'["worker"] = "check" /\ iphase' = iphase
    BY <1>2, <1>7 DEF StageFetch, CallBegin, Goto, Threads
  <2>2. iphase # "Fetching"
    BY <1>1, <1>7 DEF ThreadsOK, StageFetch
  <2> QED
    BY <2>1, <2>2 DEF SettledOK, Adopted, Begins, Waits
<1>8. CASE ContentBegun /\ ustep # "join"
  <2>1. /\ wstep = "begin" /\ wstep' = "none" /\ plan' = plan /\ pc'["ui"] = pc["ui"]
        /\ UNCHANGED <<fetchVars, swarmVars, diskVars, readVars>>
    BY <1>2, <1>8 DEF ContentBegun, Return, Ends, Goto, Threads, attemptVars
  <2>2. pc["worker"] = "begun" \/ iphase' = "Failed"
    BY <1>8 DEF ContentBegun, Conclude
  <2>3. Adopted' => Adopted
    BY <1>8, <2>1, <2>2 DEF Adopted, Begins, Waits
  <2> QED
    BY <1>3, <2>1, <2>3 DEF SettledOK, InError, PlanLanded, Busy, fetchVars, swarmVars, diskVars,
       readVars
<1>9. CASE Fetches /\ Session
  <2>1. UNCHANGED <<wstep, ustep, iphase, plan>>
    BY <1>9 DEF Session, installVars, attemptVars
  <2>2. CASE /\ wstep = "begin" /\ ustep = "idle" /\ iphase # "Fetching" /\ op["worker"] = "begin"
             /\ Call("worker")
    <3>1. "worker" \in Threads
      BY DEF Threads
    <3>2. CASE Adopt("worker")
      <4>1. /\ pc["worker"] = "adopt" /\ UNCHANGED <<phase, settledPolls>>
        BY <3>2 DEF Adopt, At
      <4>2. fetching = None
        BY <1>1, <2>2, <3>1, <4>1 DEF CallOK
      <4>3. settledPolls' = 0
        BY <4>1, <4>2 DEF SwarmOK
      <4>4. phase' # "Complete"
        BY <2>2, <4>1 DEF FetchOK, Begins
      <4> QED
        BY <4>3, <4>4 DEF SettledOK
    <3>3. CASE ~Adopt("worker")
      <4>1. pc'["worker"] # "begun"
        BY <1>2, <2>2, <3>1, <3>3 DEF Call, Check, Retire, Release, Reserve, AbandonPendingClear,
           Register,
                                      SetFetchStaging, GiveUp, AddTorrent, Goto, Ends, At
      <4> QED
        BY <2>1, <2>2, <4>1 DEF SettledOK, Adopted, Begins, Waits
    <3> QED
      BY <3>2, <3>3
  <2>3. CASE ustep = "idle" /\ Poll
    <3>1. pc'["worker"] = pc["worker"] /\ "ui" \in Threads
      BY <1>1, <2>3, PollMoves DEF ThreadsOK, Threads
    <3>2. UNCHANGED <<fetching, counted, attempt, landed>>
      BY <2>3 DEF Poll, Route, RouteReads, RouteActs, PollStarts, HandleAlerts, ClearConfirmed,
         Throttle, Refresh, ApplyPriorities,
         Update, UpdateWith,
                  fetchVars, swarmVars, diskVars
    <3>3. Adopted' = Adopted /\ plan' = plan
      BY <2>1, <3>1 DEF Adopted, Begins, Waits
    <3>4. SUFFICES ASSUME Adopted  PROVE SettledOK'
      BY <3>3 DEF SettledOK
    <3>5. CASE Route \/ RouteReads \/ RouteActs
      <4>1. /\ settledPolls' = settledPolls /\ pc'["ui"] \in {"clear", "refresh"}
            /\ phase' = IF FetchFails(fetching) THEN "Failed" ELSE phase
        BY <1>2, <1>4, <3>1, <3>5 DEF SwarmOK, Route, RouteReads, RouteActs, HandleAlerts, At, Goto
      <4>2. FetchFails(fetching) <=> Busy /\ InError
        BY <1>4, <3>4 DEF FetchFails, InError
      <4>3. Busy' => Busy /\ ~InError
        BY <4>1, <4>2 DEF Busy
      <4>4. phase' = "Complete" => phase = "Complete"
        BY <4>1
      <4> QED
        BY <1>3, <3>2, <3>3, <3>4, <4>1, <4>3, <4>4 DEF SettledOK, PlanLanded
    <3>6. CASE ClearConfirmed \/ Throttle
      <4>1. pc'["ui"] \notin {"apply", "update"} /\ UNCHANGED <<phase, settledPolls, alerts>>
        BY <1>2, <3>1, <3>6 DEF ClearConfirmed, Throttle, Goto, Ends, fetchVars, swarmVars
      <4> QED
        BY <1>3, <3>2, <3>3, <3>4, <4>1 DEF SettledOK, PlanLanded, InError, Busy
    <3>7. CASE Refresh
      <4>1. seenPending' = pending /\ UNCHANGED <<phase, settledPolls, alerts>>
        BY <3>7 DEF Refresh, fetchVars, swarmVars
      <4>2. ASSUME pending = 0, NEW p \in plan, p \in counted[attempt]  PROVE <<attempt, p>> \in landed
        BY <1>1, <1>4, <3>4, <4>2, NothingIsWaiting
      <4> QED
        BY <1>3, <3>2, <3>3, <3>4, <4>1, <4>2 DEF SettledOK, PlanLanded, InError, Busy
    <3>8. CASE ApplyPriorities
      <4>1. /\ pc["ui"] = "apply" /\ UNCHANGED <<seenPending, settledPolls, alerts>>
            /\ phase' = phase \/ (phase = "Metadata" /\ phase' = "Downloading")
        BY <3>8 DEF ApplyPriorities, At, readVars
      <4>2. (Busy' <=> Busy) /\ (phase' = "Complete" => phase = "Complete")
        BY <4>1 DEF Busy
      <4> QED
        BY <1>3, <3>2, <3>3, <3>4, <4>1, <4>2 DEF SettledOK, PlanLanded, InError
    <3>9. CASE Update
      <4>1. pc["ui"] = "update" /\ pc'["ui"] = "idle" /\ alerts' = alerts
        BY <1>2, <3>1, <3>9 DEF Update, UpdateWith, Ends, Goto, At, swarmVars
      <4>2. seen["ui"] = attempt
        BY <1>4, <3>4, <4>1 DEF SwarmOK
      <4> DEFINE whole == prioritised /\ seenPending = 0 /\ Finished(seen["ui"])
      <4>3. whole => plan \subseteq counted[attempt]
        BY <1>4, <3>4, <4>2 DEF SwarmOK, Finished
      <4>4. \/ ~Busy /\ UNCHANGED phase
            \/ Busy /\ ~whole /\ settledPolls' = 0 /\ UNCHANGED phase
            \/ Busy /\ whole /\ UNCHANGED phase
            \/ Busy /\ whole /\ settledPolls >= Confirmations /\ phase' = "Complete"
        BY <3>9 DEF Update, UpdateWith
      <4>5. whole => seenPending = 0
        OBVIOUS
      <4> HIDE DEF whole
      <4>6. CASE ~Busy /\ UNCHANGED phase
        BY <1>3, <3>2, <3>3, <3>4, <4>1, <4>6 DEF SettledOK, PlanLanded, Busy
      <4>7. CASE Busy /\ ~whole /\ settledPolls' = 0 /\ UNCHANGED phase
        BY <1>3, <3>2, <3>3, <3>4, <4>1, <4>7 DEF SettledOK, PlanLanded, Busy
      <4>8. CASE Busy /\ whole /\ UNCHANGED phase
        BY <1>3, <3>2, <3>3, <3>4, <4>1, <4>3, <4>8 DEF SettledOK, PlanLanded, Busy
      <4>9. CASE Busy /\ whole /\ settledPolls >= Confirmations /\ phase' = "Complete"
        <5>1. settledPolls # 0
          BY <1>2, <4>9
        <5>2. PlanLanded
          BY <1>3, <3>4, <4>1, <4>3, <4>5, <4>9, <5>1 DEF SettledOK, PlanLanded
        <5> QED
          BY <3>2, <3>3, <4>1, <4>9, <5>2 DEF SettledOK, PlanLanded, Busy
      <4> QED
        BY <4>4, <4>6, <4>7, <4>8, <4>9
    <3> QED
      BY <2>3, <3>5, <3>6, <3>7, <3>8, <3>9 DEF Poll
  <2>4. CASE Swarm
    <3>1. UNCHANGED <<pc, seenPending, settledPolls, phase, attempt>>
      BY <2>4, SwarmMoves
    <3>2. Adopted' = Adopted /\ plan' = plan
      BY <2>1, <3>1 DEF Adopted, Begins, Waits
    <3>3. SUFFICES ASSUME Adopted  PROVE SettledOK'
      BY <3>2 DEF SettledOK
    <3>4. /\ InError => InError'
          /\ landed \subseteq landed'
          /\ \A p \in counted[attempt] : p \in counted'[attempt] \/ InError'
          /\ InError => counted'[attempt] \subseteq counted[attempt]
      BY <1>1, <1>4, <2>4, <3>3, FailedWrites
    <3> QED
      BY <1>3, <3>1, <3>2, <3>3, <3>4 DEF SettledOK, PlanLanded, Busy
  <2> QED
    BY <1>9, <2>2, <2>3, <2>4, FetchCalls
<1> QED
  BY <1>5, <1>6, <1>7, <1>8, <1>9, FetchCases

(* Nothing that has landed is lost, and while the worker installs no       *)
(* torrent is added, so what the plan asks for is still in place.          *)
LEMMA LandedStep ==
  ASSUME FlowInv, SettledOK, Installs => PlanLanded, [FlowNext]_flowVars
  PROVE  Installs' => PlanLanded'
<1> USE DEF Installs, UiFree
<1>1. ThreadsOK /\ TypeOK /\ CallOK
  BY DEF FlowInv, IInv
<1>2. wstep # "none" => ustep \in {"idle", "join"}
  BY <1>1 DEF ThreadsOK
<1>3. ASSUME UNCHANGED <<landed, attempt, plan>>, PlanLanded  PROVE PlanLanded'
  BY <1>3 DEF PlanLanded
<1>4. ASSUME UNCHANGED <<landed, attempt, plan>>, Installs' => Installs  PROVE Installs' => PlanLanded'
  BY <1>3, <1>4
<1>5. ASSUME NEW m \in Mods, StartHeld(m) \/ FetchDetailsHeld(m) \/ Verify(m)  PROVE ~Installs'
  BY <1>5 DEF StartHeld, FetchDetailsHeld, Verify, Claim
<1>6. ASSUME NEW m \in Mods, NEW d \in BOOLEAN, StartUnheld(m, d)  PROVE ~Installs'
  BY <1>6 DEF StartUnheld, Claim
<1>7. CASE Cancel
  <2>1. UNCHANGED <<landed, attempt, plan>> /\ (Installs' => Installs)
    BY <1>7 DEF Cancel, CallCancel, swarmVars, diskVars, attemptVars
  <2> QED
    BY <1>4, <2>1
<1>8. CASE ManifestBegun
  <2>1. UNCHANGED <<landed, attempt, plan>> /\ (Installs' => Installs)
    BY <1>8 DEF ManifestBegun, Return, swarmVars, diskVars, attemptVars
  <2> QED
    BY <1>4, <2>1
<1>9. CASE PollFetchFailed \/ PollResumes \/ CancelJoined
  <2>1. UNCHANGED <<landed, attempt, plan>> /\ (Installs' => Installs)
    BY <1>9 DEF PollFetchFailed, PollResumes, CancelJoined, CancelSettles, Conclude, vars,
       swarmVars, diskVars, attemptVars
  <2> QED
    BY <1>4, <2>1
<1>10. CASE PollDetailsExpired \/ PollManifestAdopted \/ PollManifestRejected
  <2>1. UNCHANGED <<landed, attempt, plan>> /\ (Installs' => Installs)
    BY <1>10 DEF PollDetailsExpired, PollManifestAdopted, PollManifestRejected, PollThenCancel,
       CallCancel,
                 swarmVars, diskVars
  <2> QED
    BY <1>4, <2>1
<1>11. CASE PollContentComplete
  <2>1. UNCHANGED <<landed, attempt, plan>>
    BY <1>11 DEF PollContentComplete, PollThenCancel, CallCancel, swarmVars, diskVars
  <2>2. CASE plan = {}
    BY <2>1, <2>2 DEF PlanLanded
  <2>3. CASE plan # {}
    <3>1. Waits /\ phase = "Complete"
      BY <1>11, <2>3 DEF PollContentComplete, PollThenCancel, Waits
    <3>2. PlanLanded
      BY <3>1 DEF SettledOK, Adopted
    <3> QED
      BY <1>3, <2>1, <3>2
  <2> QED
    BY <2>2, <2>3
<1>12. CASE PlanAbandoned \/ PlanCompares \/ StageFetch \/ InstallSwaps
  <2>1. UNCHANGED <<landed, attempt, plan>> /\ (Installs' => Installs)
    BY <1>12 DEF PlanAbandoned, PlanCompares, StageFetch, InstallSwaps, CallBegin, vars,
       swarmVars, diskVars, attemptVars
  <2> QED
    BY <1>4, <2>1
<1>13. CASE PlanReady \/ VerifyDamaged
  BY <1>2, <1>13 DEF PlanReady, VerifyDamaged
<1>14. CASE StageHeld
  BY <1>14 DEF StageHeld, attemptVars, PlanLanded
<1>15. CASE StageRefused \/ InstallFails \/ InstallDone \/ VerifyIntact \/ VerifyFolderMissing
  <2>1. UNCHANGED <<landed, attempt, plan>> /\ (Installs' => Installs)
    BY <1>15 DEF StageRefused, InstallFails, InstallDone, VerifyIntact, VerifyFolderMissing,
       WorkerConcludes,
                 vars, swarmVars, diskVars, attemptVars
  <2> QED
    BY <1>4, <2>1
<1>16. CASE ContentBegun
  <2>1. UNCHANGED <<landed, attempt, plan>> /\ (Installs' => Installs)
    BY <1>16 DEF ContentBegun, Return, swarmVars, diskVars, attemptVars
  <2> QED
    BY <1>4, <2>1
<1>17. CASE Session
  <2>1. UNCHANGED <<wstep, ustep, plan>>
    BY <1>17 DEF Session, installVars, attemptVars
  <2>2. SUFFICES ASSUME Installs  PROVE PlanLanded'
    BY <2>1
  <2>3. ASSUME NEW t \in Threads  PROVE op[t] # "begin"
    <3>1. op["ui"] # "begin"
      BY <1>1, <2>2 DEF ThreadsOK, FlowInv, FlowTypeOK
    <3>2. pc["worker"] = "idle"
      BY <1>1, <2>2 DEF ThreadsOK
    <3>3. op["worker"] = "none"
      BY <1>1, <3>2 DEF CallOK, Threads
    <3> QED
      BY <3>1, <3>3 DEF Threads
  <2>4. ASSUME NEW t \in Threads, Call(t)  PROVE UNCHANGED <<landed, attempt>>
    <3>1. pc[t] # "add"
      BY <1>1, <2>3 DEF CallOK, BeginSteps
    <3> QED
      BY <2>4, <3>1 DEF Call, Check, Retire, Release, Reserve, AbandonPendingClear, Register,
         SetFetchStaging, GiveUp,
                        AddTorrent, Adopt, At, swarmVars, diskVars
  <2>5. CASE Poll
    BY <1>3, <2>1, <2>2, <2>5 DEF Poll, Route, RouteReads, RouteActs, PollStarts, HandleAlerts,
       ClearConfirmed, Throttle, Refresh,
       ApplyPriorities, Update,
                                  UpdateWith, swarmVars, diskVars
  <2>6. CASE Swarm
    <3>1. attempt' = attempt
      BY <2>6, SwarmMoves
    <3>2. landed \subseteq landed'
      BY <2>6 DEF Swarm, MetadataArrives, TorrentFails, TorrentRemoved, Receive, RunWrite,
         RunWriteWith, diskVars
    <3> QED
      BY <2>1, <2>2, <3>1, <3>2 DEF PlanLanded
  <2> QED
    BY <1>3, <1>17, <2>1, <2>2, <2>4, <2>5, <2>6 DEF Session
<1>18. CASE UNCHANGED flowVars
  <2>1. UNCHANGED <<landed, attempt, plan>> /\ (Installs' => Installs)
    BY <1>18 DEF flowVars, installVars, vars, swarmVars, diskVars, attemptVars
  <2> QED
    BY <1>4, <2>1
<1> QED
  BY <1>5, <1>6, <1>7, <1>8, <1>9, <1>10, <1>11, <1>12, <1>13, <1>14, <1>15, <1>16, <1>17, <1>18
     DEF FlowNext, Ui, UiGoesOn, Worker

(* Nothing is fetched or installed before the first attempt.               *)
LEMMA ContentInitially ==
  ASSUME FlowInit
  PROVE  ContentInv
<1>1. FlowInv /\ Init
  BY FlowInitially DEF FlowInit
<1>2. BacklogCountsQueue
  <2>1. jobs = <<>> /\ pending = 0 /\ 1..Len(jobs) = {}
    BY <1>1 DEF Init
  <2> QED
    BY <2>1, FS_EmptySet DEF BacklogCountsQueue
<1>3. /\ wstep = "none" /\ ustep = "idle" /\ iphase = "Idle" /\ pc["ui"] = "idle"
      /\ fetching = 0 /\ attempt = 0 /\ settledPolls = 0 /\ seen = [t \in Threads |-> 0]
  BY <1>1 DEF FlowInit, Init, Threads, None
<1>4. ~prioritised
  BY <1>1, Zenon DEF Init
<1>5. SwarmOK
  BY <1>1, <1>3, <1>4 DEF Init, SwarmOK, None
<1>6. ~Waits /\ \A S : ~Begins(S)
  BY <1>3 DEF Waits, Begins
<1>7. FetchOK /\ SettledOK
  BY <1>6 DEF FetchOK, SettledOK, Reserved, Kept, Added, Adopted
<1>8. ~Installs
  BY <1>3 DEF Installs
<1> QED
  BY <1>1, <1>2, <1>5, <1>7, <1>8 DEF ContentInv

(* A step of the service keeps all of it.                                  *)
LEMMA ContentInductive ==
  ASSUME Windows = {}, Confirmations # 0, ContentInv, [FlowNext]_flowVars
  PROVE  ContentInv'
<1>1. FlowTypeOK /\ TypeOK /\ CallOK
  BY DEF ContentInv, FlowInv, IInv
<1>2. [Next]_vars
  BY <1>1, SessionSteps
<1>3. FlowInv'
  BY FlowInductive DEF ContentInv
<1>4. BacklogCountsQueue' /\ SwarmOK'
  BY <1>1, <1>2, BacklogStep, SwarmStep DEF ContentInv
<1>5. FetchOK' /\ SettledOK'
  BY FetchStep, SettledStep DEF ContentInv
<1>6. Installs' => PlanLanded'
  BY LandedStep DEF ContentInv
<1> QED
  BY <1>3, <1>4, <1>5, <1>6 DEF ContentInv

(* ApplyPlaced takes chunks that were to be fetched as placed, and is right *)
(* to: when InstallService lets it run, FetchState has seen the fetch of    *)
(* this very plan complete and confirmed, with nothing left to write, and   *)
(* every chunk has been written where the plan wants it. It takes a Poll    *)
(* whose critical sections are not separated by another thread's: with one  *)
(* of the windows open TLC shows the opposite. One confirmation is enough.  *)
THEOREM ContentIsWhole ==
  Windows = {} /\ Confirmations # 0 => (FlowSpec => []InstallsWholeContent)
<1> SUFFICES ASSUME Windows = {}, Confirmations # 0
             PROVE  FlowSpec => []InstallsWholeContent
  OBVIOUS
<1>1. FlowInit => ContentInv
  BY ContentInitially
<1>2. ContentInv /\ [FlowNext]_flowVars => ContentInv'
  BY ContentInductive
<1>3. ContentInv => InstallsWholeContent
  <2> SUFFICES ASSUME ContentInv, wstep \in {"install", "save"}
               PROVE  plan \subseteq {c \in Chunks : <<attempt, c>> \in landed}
    BY DEF InstallsWholeContent
  <2>1. plan \subseteq Chunks
    BY DEF ContentInv, FlowInv, FlowTypeOK
  <2> QED
    BY <2>1 DEF ContentInv, Installs, PlanLanded
<1> QED
  BY <1>1, <1>2, <1>3, PTL DEF FlowSpec
=============================================================================
