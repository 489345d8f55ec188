--------------------------- MODULE DispatcherProofs ---------------------------
(***************************************************************************)
(* Theorems about Dispatcher for any sets of goals, cancels, calls, ids    *)
(* and capabilities.                                                       *)
(*                                                                         *)
(* The argument: until the timeout, the maps hold what is under way        *)
(* (TablesAgree), because no two goals under way share an id               *)
(* (OneGoalPerId); so a client that is released has nothing waiting for it *)
(* (ClientsOutliveRequests), and the last one to leave takes the timer     *)
(* with it (TimerGuardsClients).                                           *)
(***************************************************************************)
EXTENDS Dispatcher, TLAPS

USE DispatcherAssumption
    DEF goalVars, cancelVars, tables, releaseVars, closeVars, topicVars, callVars

-----------------------------------------------------------------------------
(* Releasing clients.                                                      *)

\* A release moves clients from live to dying, and none while the connection is open.
LEMMA ReleaseMoves ==
  ASSUME FlagsOK, client \in [Actions -> {"none", "live", "dying", "destroyed"}],
         NEW names, ReleaseIdle(names)
  PROVE  /\ client' \in [Actions -> {"none", "live", "dying", "destroyed"}]
         /\ timer' \in BOOLEAN
         /\ \A n \in Actions : client'[n] # client[n] => client[n] = "live" /\ client'[n] = "dying"
         /\ ~closed => client' = client /\ timer' = timer
<1>1. timer' \in BOOLEAN
  BY Zenon DEF ReleaseIdle
<1>2. client' \in [Actions -> {"none", "live", "dying", "destroyed"}]
  BY DEF ReleaseIdle
<1>3. \A n \in Actions : client'[n] # client[n] => client[n] = "live" /\ client'[n] = "dying"
  BY DEF ReleaseIdle, Live
<1>4. ASSUME ~closed
      PROVE  client' = client /\ timer' = timer
  <2>1. client' = client
    BY <1>4 DEF ReleaseIdle
  <2>2. timer' = timer
    BY <1>4, Zenon DEF ReleaseIdle, FlagsOK
  <2> QED
    BY <2>1, <2>2
<1> QED
  BY <1>1, <1>2, <1>3, <1>4

\* A client something waits for is not released.
LEMMA BusyStays ==
  ASSUME client \in [Actions -> {"none", "live", "dying", "destroyed"}],
         NEW names, ReleaseIdle(names), NEW n \in Actions, Busy(n)
  PROVE  client'[n] = client[n]
  BY DEF ReleaseIdle

\* A release keeps the timer just as long as a client is live.
LEMMA ReleaseTimer ==
  ASSUME FlagsOK, client \in [Actions -> {"none", "live", "dying", "destroyed"}],
         NEW names, ReleaseIdle(names), TimerGuardsClients, closed' = closed
  PROVE  TimerGuardsClients'
<1> DEFINE gone == IF closed THEN {n \in names \cap Live : ~Busy(n)} ELSE {}
<1>1. timer' = (timer /\ (gone = {} \/ Live # gone))
  BY Zenon DEF ReleaseIdle
<1>2. gone \subseteq Live
  OBVIOUS
<1>3. Live' = Live \ gone
  BY DEF ReleaseIdle, Live
<1> HIDE DEF gone
<1>4. Live' # {} <=> (Live # {} /\ (gone = {} \/ Live # gone))
  BY <1>2, <1>3
<1>5. timer = (closed /\ Live # {})
  BY DEF TimerGuardsClients
<1>6. closed' = closed
  OBVIOUS
<1>7. timer' = ((closed /\ Live # {}) /\ (gone = {} \/ Live # gone))
  BY <1>1, <1>5, Zenon
<1>8. timer' = (closed' /\ Live' # {})
  <2>1. (closed' /\ Live' # {}) = ((closed /\ Live # {}) /\ (gone = {} \/ Live # gone))
    <3>1. (closed /\ Live' # {}) <=> ((closed /\ Live # {}) /\ (gone = {} \/ Live # gone))
      BY <1>4, Zenon
    <3>2. (closed' /\ Live' # {}) <=> (closed /\ Live' # {})
      <4>1. closed' <=> closed
        BY <1>6, SMT DEF FlagsOK
      <4> QED
        BY <4>1, Zenon
    <3> QED
      BY <3>1, <3>2, Zenon
  <2> QED
    BY <2>1, <1>7, Zenon
<1> QED
  BY <1>8, Zenon DEF TimerGuardsClients

-----------------------------------------------------------------------------
(* Types.                                                                  *)

\* The flags stay Boolean.
LEMMA FlagsKept ==
  ASSUME TypeOK, [Next]_vars
  PROVE  FlagsOK'
<1> USE DEF TypeOK, FlagsOK
<1>1. ASSUME NEW g \in Goals, NEW i \in Ids, NEW n \in Actions \cup {Unexposed}, SendGoal(g, i, n)
      PROVE  FlagsOK'
  BY <1>1, Zenon DEF SendGoal, Refused, WithClient, IdInUse
<1>2. ASSUME NEW c \in Cancels, NEW i \in Ids, CancelGoal(c, i)
      PROVE  FlagsOK'
  BY <1>2, Zenon DEF CancelGoal, Known
<1>3. ASSUME NEW k \in Calls, NEW s \in Services \cup {Unexposed}, CallService(k, s)
      PROVE  FlagsOK'
  BY <1>3, Zenon DEF CallService
<1>4. ASSUME NEW t \in Topics, Publish(t)
      PROVE  FlagsOK'
  BY <1>4, Zenon DEF Publish
<1>5. ASSUME NEW i \in Ids, Subscribe(i)
      PROVE  FlagsOK'
  BY <1>5, Zenon DEF Subscribe
<1>6. ASSUME NEW i \in Ids, Unsubscribe(i)
      PROVE  FlagsOK'
  BY <1>6, Zenon DEF Unsubscribe
<1>7. ASSUME NEW g \in Goals, GoalRefused(g)
      PROVE  FlagsOK'
  BY <1>7, ReleaseMoves, Zenon DEF GoalRefused, Finalize, GoalsOK
<1>8. ASSUME NEW g \in Goals, GoalAccepted(g)
      PROVE  FlagsOK'
  BY <1>8, ReleaseMoves, Zenon DEF GoalAccepted, Finalize, TooLate, GoalsOK
<1>9. ASSUME NEW g \in Goals, ResultArrives(g)
      PROVE  FlagsOK'
  BY <1>9, ReleaseMoves, Zenon DEF ResultArrives, Finalize, GoalsOK
<1>10. ASSUME NEW c \in Cancels, CancelAnswered(c)
      PROVE  FlagsOK'
  BY <1>10, ReleaseMoves, Zenon DEF CancelAnswered, GoalsOK
<1>11. ASSUME NEW k \in Calls, CallAnswered(k)
      PROVE  FlagsOK'
  BY <1>11, Zenon DEF CallAnswered
<1>12. ASSUME Close
      PROVE  FlagsOK'
  BY <1>12, Zenon DEF Close
<1>13. ASSUME Sweep
      PROVE  FlagsOK'
  BY <1>13, ReleaseMoves, Zenon DEF Sweep, GoalsOK
<1>14. ASSUME Expire
      PROVE  FlagsOK'
  BY <1>14, ReleaseMoves, Zenon DEF Expire, Forgotten, GoalsOK
<1>15. ASSUME NEW n \in Actions, DestroyClient(n)
      PROVE  FlagsOK'
  BY <1>15, Zenon DEF DestroyClient
<1>16. CASE UNCHANGED vars
  BY <1>16 DEF vars
<1> HIDE DEF TypeOK, FlagsOK
<1> QED
  BY <1>1, <1>2, <1>3, <1>4, <1>5, <1>6, <1>7, <1>8, <1>9,
     <1>10, <1>11, <1>12, <1>13, <1>14, <1>15, <1>16
  DEF Next, Frame, Answer, Teardown

\* What concerns goals and cancels keeps its type.
LEMMA GoalsKept ==
  ASSUME TypeOK, [Next]_vars
  PROVE  GoalsOK'
<1> USE DEF GoalsOK
<1>1. ASSUME NEW g \in Goals, NEW i \in Ids, NEW n \in Actions \cup {Unexposed}, SendGoal(g, i, n)
      PROVE  GoalsOK'
  BY <1>1 DEF SendGoal, Refused, WithClient, IdInUse, TypeOK
<1>2. ASSUME NEW c \in Cancels, NEW i \in Ids, CancelGoal(c, i)
      PROVE  GoalsOK'
  BY <1>2 DEF CancelGoal, Known, TypeOK
<1>3. ASSUME NEW k \in Calls, NEW s \in Services \cup {Unexposed}, CallService(k, s)
      PROVE  GoalsOK'
  BY <1>3 DEF CallService, TypeOK
<1>4. ASSUME NEW t \in Topics, Publish(t)
      PROVE  GoalsOK'
  BY <1>4 DEF Publish, TypeOK
<1>5. ASSUME NEW i \in Ids, Subscribe(i)
      PROVE  GoalsOK'
  BY <1>5 DEF Subscribe, TypeOK
<1>6. ASSUME NEW i \in Ids, Unsubscribe(i)
      PROVE  GoalsOK'
  BY <1>6 DEF Unsubscribe, TypeOK
<1>7. ASSUME NEW g \in Goals, GoalRefused(g)
      PROVE  GoalsOK'
  <2>1. client' \in [Actions -> {"none", "live", "dying", "destroyed"}]
    BY <1>7, ReleaseMoves DEF GoalRefused, Finalize, TypeOK
  <2> QED
    BY <1>7, <2>1 DEF GoalRefused, Finalize, TypeOK
<1>8. ASSUME NEW g \in Goals, GoalAccepted(g)
      PROVE  GoalsOK'
  <2>1. client' \in [Actions -> {"none", "live", "dying", "destroyed"}]
    BY <1>8, ReleaseMoves DEF GoalAccepted, Finalize, TooLate, TypeOK
  <2> QED
    BY <1>8, <2>1 DEF GoalAccepted, Finalize, TooLate, TypeOK
<1>9. ASSUME NEW g \in Goals, ResultArrives(g)
      PROVE  GoalsOK'
  <2>1. client' \in [Actions -> {"none", "live", "dying", "destroyed"}]
    BY <1>9, ReleaseMoves DEF ResultArrives, Finalize, TypeOK
  <2> QED
    BY <1>9, <2>1 DEF ResultArrives, Finalize, TypeOK
<1>10. ASSUME NEW c \in Cancels, CancelAnswered(c)
      PROVE  GoalsOK'
  <2>1. client' \in [Actions -> {"none", "live", "dying", "destroyed"}]
    BY <1>10, ReleaseMoves DEF CancelAnswered, TypeOK
  <2> QED
    BY <1>10, <2>1 DEF CancelAnswered, TypeOK
<1>11. ASSUME NEW k \in Calls, CallAnswered(k)
      PROVE  GoalsOK'
  BY <1>11 DEF CallAnswered, TypeOK
<1>12. ASSUME Close
      PROVE  GoalsOK'
  BY <1>12 DEF Close, TypeOK
<1>13. ASSUME Sweep
      PROVE  GoalsOK'
  <2>1. client' \in [Actions -> {"none", "live", "dying", "destroyed"}]
    BY <1>13, ReleaseMoves DEF Sweep, TypeOK
  <2> QED
    BY <1>13, <2>1 DEF Sweep, TypeOK
<1>14. ASSUME Expire
      PROVE  GoalsOK'
  <2>1. client' \in [Actions -> {"none", "live", "dying", "destroyed"}]
    BY <1>14, ReleaseMoves DEF Expire, Forgotten, TypeOK
  <2> QED
    BY <1>14, <2>1 DEF Expire, Forgotten, TypeOK
<1>15. ASSUME NEW n \in Actions, DestroyClient(n)
      PROVE  GoalsOK'
  BY <1>15 DEF DestroyClient, TypeOK
<1>16. CASE UNCHANGED vars
  BY <1>16 DEF vars, TypeOK
<1> HIDE DEF GoalsOK
<1> QED
  BY <1>1, <1>2, <1>3, <1>4, <1>5, <1>6, <1>7, <1>8, <1>9,
     <1>10, <1>11, <1>12, <1>13, <1>14, <1>15, <1>16
  DEF Next, Frame, Answer, Teardown

\* What concerns calls and topics keeps its type.
LEMMA EntitiesKept ==
  ASSUME TypeOK, NothingLeaks, [Next]_vars
  PROVE  EntitiesOK'
<1> USE DEF EntitiesOK
<1>1. ASSUME NEW g \in Goals, NEW i \in Ids, NEW n \in Actions \cup {Unexposed}, SendGoal(g, i, n)
      PROVE  EntitiesOK'
  BY <1>1 DEF SendGoal, Refused, WithClient, IdInUse, TypeOK
<1>2. ASSUME NEW c \in Cancels, NEW i \in Ids, CancelGoal(c, i)
      PROVE  EntitiesOK'
  BY <1>2 DEF CancelGoal, Known, TypeOK
<1>3. ASSUME NEW k \in Calls, NEW s \in Services \cup {Unexposed}, CallService(k, s)
      PROVE  EntitiesOK'
  BY <1>3 DEF CallService, TypeOK
<1>4. ASSUME NEW t \in Topics, Publish(t)
      PROVE  EntitiesOK'
  BY <1>4 DEF Publish, TypeOK
<1>5. ASSUME NEW i \in Ids, Subscribe(i)
      PROVE  EntitiesOK'
  BY <1>5 DEF Subscribe, TypeOK
<1>6. ASSUME NEW i \in Ids, Unsubscribe(i)
      PROVE  EntitiesOK'
  BY <1>6 DEF Unsubscribe, TypeOK, NothingLeaks
<1>7. ASSUME NEW g \in Goals, GoalRefused(g)
      PROVE  EntitiesOK'
  BY <1>7 DEF GoalRefused, Finalize, TypeOK
<1>8. ASSUME NEW g \in Goals, GoalAccepted(g)
      PROVE  EntitiesOK'
  BY <1>8 DEF GoalAccepted, Finalize, TooLate, TypeOK
<1>9. ASSUME NEW g \in Goals, ResultArrives(g)
      PROVE  EntitiesOK'
  BY <1>9 DEF ResultArrives, Finalize, TypeOK
<1>10. ASSUME NEW c \in Cancels, CancelAnswered(c)
      PROVE  EntitiesOK'
  BY <1>10 DEF CancelAnswered, TypeOK
<1>11. ASSUME NEW k \in Calls, CallAnswered(k)
      PROVE  EntitiesOK'
  BY <1>11 DEF CallAnswered, TypeOK
<1>12. ASSUME Close
      PROVE  EntitiesOK'
  BY <1>12 DEF Close, TypeOK, NothingLeaks
<1>13. ASSUME Sweep
      PROVE  EntitiesOK'
  BY <1>13 DEF Sweep, TypeOK
<1>14. ASSUME Expire
      PROVE  EntitiesOK'
  BY <1>14 DEF Expire, Forgotten, TypeOK
<1>15. ASSUME NEW n \in Actions, DestroyClient(n)
      PROVE  EntitiesOK'
  BY <1>15 DEF DestroyClient, TypeOK
<1>16. CASE UNCHANGED vars
  BY <1>16 DEF vars, TypeOK
<1> HIDE DEF EntitiesOK
<1> QED
  BY <1>1, <1>2, <1>3, <1>4, <1>5, <1>6, <1>7, <1>8, <1>9,
     <1>10, <1>11, <1>12, <1>13, <1>14, <1>15, <1>16
  DEF Next, Frame, Answer, Teardown

\* The node and the maps agree about subscriptions, clients and publishers.
LEMMA LeaksKept ==
  ASSUME TypeOK, NothingLeaks, [Next]_vars
  PROVE  NothingLeaks'
<1> USE DEF NothingLeaks
<1>1. ASSUME NEW g \in Goals, NEW i \in Ids, NEW n \in Actions \cup {Unexposed}, SendGoal(g, i, n)
      PROVE  NothingLeaks'
  BY <1>1 DEF SendGoal, Refused, WithClient, IdInUse, TypeOK, EntitiesOK
<1>2. ASSUME NEW c \in Cancels, NEW i \in Ids, CancelGoal(c, i)
      PROVE  NothingLeaks'
  BY <1>2 DEF CancelGoal, Known, TypeOK, EntitiesOK
<1>3. ASSUME NEW k \in Calls, NEW s \in Services \cup {Unexposed}, CallService(k, s)
      PROVE  NothingLeaks'
  BY <1>3 DEF CallService, TypeOK, EntitiesOK
<1>4. ASSUME NEW t \in Topics, Publish(t)
      PROVE  NothingLeaks'
  BY <1>4 DEF Publish, TypeOK, EntitiesOK
<1>5. ASSUME NEW i \in Ids, Subscribe(i)
      PROVE  NothingLeaks'
  BY <1>5 DEF Subscribe, TypeOK, EntitiesOK
<1>6. ASSUME NEW i \in Ids, Unsubscribe(i)
      PROVE  NothingLeaks'
  BY <1>6 DEF Unsubscribe, TypeOK, EntitiesOK
<1>7. ASSUME NEW g \in Goals, GoalRefused(g)
      PROVE  NothingLeaks'
  BY <1>7 DEF GoalRefused, Finalize, TypeOK, EntitiesOK
<1>8. ASSUME NEW g \in Goals, GoalAccepted(g)
      PROVE  NothingLeaks'
  BY <1>8 DEF GoalAccepted, Finalize, TooLate, TypeOK, EntitiesOK
<1>9. ASSUME NEW g \in Goals, ResultArrives(g)
      PROVE  NothingLeaks'
  BY <1>9 DEF ResultArrives, Finalize, TypeOK, EntitiesOK
<1>10. ASSUME NEW c \in Cancels, CancelAnswered(c)
      PROVE  NothingLeaks'
  BY <1>10 DEF CancelAnswered, TypeOK, EntitiesOK
<1>11. ASSUME NEW k \in Calls, CallAnswered(k)
      PROVE  NothingLeaks'
  BY <1>11 DEF CallAnswered, TypeOK, EntitiesOK
<1>12. ASSUME Close
      PROVE  NothingLeaks'
  BY <1>12 DEF Close, TypeOK, EntitiesOK
<1>13. ASSUME Sweep
      PROVE  NothingLeaks'
  BY <1>13 DEF Sweep, TypeOK, EntitiesOK
<1>14. ASSUME Expire
      PROVE  NothingLeaks'
  BY <1>14 DEF Expire, Forgotten, TypeOK, EntitiesOK
<1>15. ASSUME NEW n \in Actions, DestroyClient(n)
      PROVE  NothingLeaks'
  BY <1>15 DEF DestroyClient, TypeOK, EntitiesOK
<1>16. CASE UNCHANGED vars
  BY <1>16 DEF vars, TypeOK, EntitiesOK
<1> HIDE DEF NothingLeaks
<1> QED
  BY <1>1, <1>2, <1>3, <1>4, <1>5, <1>6, <1>7, <1>8, <1>9,
     <1>10, <1>11, <1>12, <1>13, <1>14, <1>15, <1>16
  DEF Next, Frame, Answer, Teardown

\* Every request under way keeps its id, capability and goal.
LEMMA RequestsKept ==
  ASSUME TypeOK, TablesAgree, [Next]_vars
  PROVE  RequestsOK'
<1> USE DEF RequestsOK, Open, Waiting
<1>1. ASSUME NEW g \in Goals, NEW i \in Ids, NEW n \in Actions \cup {Unexposed}, SendGoal(g, i, n)
      PROVE  RequestsOK'
  BY <1>1 DEF SendGoal, Refused, WithClient, IdInUse, TypeOK, GoalsOK
<1>2. ASSUME NEW c \in Cancels, NEW i \in Ids, CancelGoal(c, i)
      PROVE  RequestsOK'
  BY <1>2 DEF CancelGoal, Known, TypeOK, GoalsOK, TablesAgree
<1>3. ASSUME NEW k \in Calls, NEW s \in Services \cup {Unexposed}, CallService(k, s)
      PROVE  RequestsOK'
  BY <1>3 DEF CallService, TypeOK, GoalsOK
<1>4. ASSUME NEW t \in Topics, Publish(t)
      PROVE  RequestsOK'
  BY <1>4 DEF Publish, TypeOK, GoalsOK
<1>5. ASSUME NEW i \in Ids, Subscribe(i)
      PROVE  RequestsOK'
  BY <1>5 DEF Subscribe, TypeOK, GoalsOK
<1>6. ASSUME NEW i \in Ids, Unsubscribe(i)
      PROVE  RequestsOK'
  BY <1>6 DEF Unsubscribe, TypeOK, GoalsOK
<1>7. ASSUME NEW g \in Goals, GoalRefused(g)
      PROVE  RequestsOK'
  BY <1>7 DEF GoalRefused, Finalize, TypeOK, GoalsOK
<1>8. ASSUME NEW g \in Goals, GoalAccepted(g)
      PROVE  RequestsOK'
  BY <1>8 DEF GoalAccepted, Finalize, TooLate, TypeOK, GoalsOK
<1>9. ASSUME NEW g \in Goals, ResultArrives(g)
      PROVE  RequestsOK'
  BY <1>9 DEF ResultArrives, Finalize, TypeOK, GoalsOK
<1>10. ASSUME NEW c \in Cancels, CancelAnswered(c)
      PROVE  RequestsOK'
  BY <1>10 DEF CancelAnswered, TypeOK, GoalsOK
<1>11. ASSUME NEW k \in Calls, CallAnswered(k)
      PROVE  RequestsOK'
  BY <1>11 DEF CallAnswered, TypeOK, GoalsOK
<1>12. ASSUME Close
      PROVE  RequestsOK'
  BY <1>12 DEF Close, TypeOK, GoalsOK
<1>13. ASSUME Sweep
      PROVE  RequestsOK'
  BY <1>13 DEF Sweep, TypeOK, GoalsOK
<1>14. ASSUME Expire
      PROVE  RequestsOK'
  BY <1>14 DEF Expire, Forgotten, TypeOK, GoalsOK
<1>15. ASSUME NEW n \in Actions, DestroyClient(n)
      PROVE  RequestsOK'
  BY <1>15 DEF DestroyClient, TypeOK, GoalsOK
<1>16. CASE UNCHANGED vars
  BY <1>16 DEF vars, TypeOK, GoalsOK
<1> HIDE DEF RequestsOK, Open, Waiting
<1> QED
  BY <1>1, <1>2, <1>3, <1>4, <1>5, <1>6, <1>7, <1>8, <1>9,
     <1>10, <1>11, <1>12, <1>13, <1>14, <1>15, <1>16
  DEF Next, Frame, Answer, Teardown

-----------------------------------------------------------------------------
(* The maps and the ids.                                                   *)

\* Goals under way have ids of their own.
LEMMA IdsKept ==
  ASSUME TypeOK, TablesAgree, OneGoalPerId, [Next]_vars
  PROVE  OneGoalPerId'
<1> USE DEF OneGoalPerId, Open
<1>1. ASSUME NEW g \in Goals, NEW i \in Ids, NEW n \in Actions \cup {Unexposed}, SendGoal(g, i, n)
      PROVE  OneGoalPerId'
  BY <1>1 DEF SendGoal, Refused, WithClient, IdInUse, TypeOK, GoalsOK, TablesAgree, RequestsOK
<1>2. ASSUME NEW c \in Cancels, NEW i \in Ids, CancelGoal(c, i)
      PROVE  OneGoalPerId'
  BY <1>2 DEF CancelGoal, Known, TypeOK, GoalsOK
<1>3. ASSUME NEW k \in Calls, NEW s \in Services \cup {Unexposed}, CallService(k, s)
      PROVE  OneGoalPerId'
  BY <1>3 DEF CallService, TypeOK, GoalsOK
<1>4. ASSUME NEW t \in Topics, Publish(t)
      PROVE  OneGoalPerId'
  BY <1>4 DEF Publish, TypeOK, GoalsOK
<1>5. ASSUME NEW i \in Ids, Subscribe(i)
      PROVE  OneGoalPerId'
  BY <1>5 DEF Subscribe, TypeOK, GoalsOK
<1>6. ASSUME NEW i \in Ids, Unsubscribe(i)
      PROVE  OneGoalPerId'
  BY <1>6 DEF Unsubscribe, TypeOK, GoalsOK
<1>7. ASSUME NEW g \in Goals, GoalRefused(g)
      PROVE  OneGoalPerId'
  BY <1>7 DEF GoalRefused, Finalize, TypeOK, GoalsOK
<1>8. ASSUME NEW g \in Goals, GoalAccepted(g)
      PROVE  OneGoalPerId'
  BY <1>8 DEF GoalAccepted, Finalize, TooLate, TypeOK, GoalsOK
<1>9. ASSUME NEW g \in Goals, ResultArrives(g)
      PROVE  OneGoalPerId'
  BY <1>9 DEF ResultArrives, Finalize, TypeOK, GoalsOK
<1>10. ASSUME NEW c \in Cancels, CancelAnswered(c)
      PROVE  OneGoalPerId'
  BY <1>10 DEF CancelAnswered, TypeOK, GoalsOK
<1>11. ASSUME NEW k \in Calls, CallAnswered(k)
      PROVE  OneGoalPerId'
  BY <1>11 DEF CallAnswered, TypeOK, GoalsOK
<1>12. ASSUME Close
      PROVE  OneGoalPerId'
  BY <1>12 DEF Close, TypeOK, GoalsOK
<1>13. ASSUME Sweep
      PROVE  OneGoalPerId'
  BY <1>13 DEF Sweep, TypeOK, GoalsOK
<1>14. ASSUME Expire
      PROVE  OneGoalPerId'
  BY <1>14 DEF Expire, Forgotten, TypeOK, GoalsOK
<1>15. ASSUME NEW n \in Actions, DestroyClient(n)
      PROVE  OneGoalPerId'
  BY <1>15 DEF DestroyClient, TypeOK, GoalsOK
<1>16. CASE UNCHANGED vars
  BY <1>16 DEF vars, TypeOK, GoalsOK
<1> HIDE DEF OneGoalPerId, Open
<1> QED
  BY <1>1, <1>2, <1>3, <1>4, <1>5, <1>6, <1>7, <1>8, <1>9,
     <1>10, <1>11, <1>12, <1>13, <1>14, <1>15, <1>16
  DEF Next, Frame, Answer, Teardown

\* The maps hold what is under way, until they are emptied.
LEMMA TablesKept ==
  ASSUME TypeOK, TablesAgree, OneGoalPerId, TimerGuardsClients, [Next]_vars
  PROVE  TablesAgree'
<1> USE DEF TablesAgree, OneGoalPerId, Open, Waiting
<1>1. ASSUME NEW g \in Goals, NEW i \in Ids, NEW n \in Actions \cup {Unexposed}, SendGoal(g, i, n)
      PROVE  TablesAgree'
  BY <1>1 DEF SendGoal, Refused, WithClient, IdInUse, TypeOK, GoalsOK, RequestsOK
<1>2. ASSUME NEW c \in Cancels, NEW i \in Ids, CancelGoal(c, i)
      PROVE  TablesAgree'
  BY <1>2 DEF CancelGoal, Known, TypeOK, GoalsOK, RequestsOK
<1>3. ASSUME NEW k \in Calls, NEW s \in Services \cup {Unexposed}, CallService(k, s)
      PROVE  TablesAgree'
  BY <1>3 DEF CallService, TypeOK, GoalsOK, RequestsOK
<1>4. ASSUME NEW t \in Topics, Publish(t)
      PROVE  TablesAgree'
  BY <1>4 DEF Publish, TypeOK, GoalsOK, RequestsOK
<1>5. ASSUME NEW i \in Ids, Subscribe(i)
      PROVE  TablesAgree'
  BY <1>5 DEF Subscribe, TypeOK, GoalsOK, RequestsOK
<1>6. ASSUME NEW i \in Ids, Unsubscribe(i)
      PROVE  TablesAgree'
  BY <1>6 DEF Unsubscribe, TypeOK, GoalsOK, RequestsOK
<1>7. ASSUME NEW g \in Goals, GoalRefused(g)
      PROVE  TablesAgree'
  BY <1>7 DEF GoalRefused, Finalize, TypeOK, GoalsOK, RequestsOK
<1>8. ASSUME NEW g \in Goals, GoalAccepted(g)
      PROVE  TablesAgree'
  BY <1>8 DEF GoalAccepted, Finalize, TooLate, TypeOK, GoalsOK, RequestsOK
<1>9. ASSUME NEW g \in Goals, ResultArrives(g)
      PROVE  TablesAgree'
  BY <1>9 DEF ResultArrives, Finalize, TypeOK, GoalsOK, RequestsOK
<1>10. ASSUME NEW c \in Cancels, CancelAnswered(c)
      PROVE  TablesAgree'
  BY <1>10 DEF CancelAnswered, TypeOK, GoalsOK, RequestsOK
<1>11. ASSUME NEW k \in Calls, CallAnswered(k)
      PROVE  TablesAgree'
  BY <1>11 DEF CallAnswered, TypeOK, GoalsOK, RequestsOK
<1>12. ASSUME Close
      PROVE  TablesAgree'
  BY <1>12 DEF Close, TypeOK, GoalsOK, RequestsOK
<1>13. ASSUME Sweep
      PROVE  TablesAgree'
  BY <1>13 DEF Sweep, TypeOK, GoalsOK, RequestsOK
<1>14. ASSUME Expire
      PROVE  TablesAgree'
  BY <1>14 DEF Expire, Forgotten, TypeOK, GoalsOK, RequestsOK, TimerGuardsClients
<1>15. ASSUME NEW n \in Actions, DestroyClient(n)
      PROVE  TablesAgree'
  BY <1>15 DEF DestroyClient, TypeOK, GoalsOK, RequestsOK
<1>16. CASE UNCHANGED vars
  BY <1>16 DEF vars, TypeOK, GoalsOK, RequestsOK
<1> HIDE DEF TablesAgree, OneGoalPerId, Open, Waiting
<1> QED
  BY <1>1, <1>2, <1>3, <1>4, <1>5, <1>6, <1>7, <1>8, <1>9,
     <1>10, <1>11, <1>12, <1>13, <1>14, <1>15, <1>16
  DEF Next, Frame, Answer, Teardown

-----------------------------------------------------------------------------
(* Clients and the timer.                                                  *)

\* The clients of what is under way stay live until the timeout.
LEMMA ClientsKept ==
  ASSUME TypeOK, TablesAgree, TablesAgree', ClientsOutliveRequests, [Next]_vars,
         closed \/ \A m \in Actions : client[m] \in {"none", "live"}
  PROVE  ClientsOutliveRequests'
<1> USE DEF ClientsOutliveRequests, Open, Waiting, TypeOK
<1>1. ASSUME NEW g \in Goals, NEW i \in Ids, NEW n \in Actions \cup {Unexposed}, SendGoal(g, i, n)
      PROVE  ClientsOutliveRequests'
  <2>1. \A m \in Actions : client[m] = "live" => client'[m] = "live"
    BY <1>1 DEF SendGoal, WithClient, GoalsOK
  <2>2. ASSUME NEW h \in Goals, h # g
        PROVE  goal'[h] = goal[h] /\ goalName'[h] = goalName[h]
    BY <2>2, <1>1 DEF SendGoal, Refused, GoalsOK
  <2>3. ASSUME goal'[g] = "sending"
        PROVE  client'[goalName'[g]] = "live"
    <3>1. closed \/ \A m \in Actions : client[m] \in {"none", "live"}
      OBVIOUS
    <3>2. ~closed /\ n \in Actions /\ WithClient(n) /\ goalName'[g] = n
      BY <2>3, <1>1 DEF SendGoal, Refused, GoalsOK
    <3> QED
      BY <3>1, <3>2 DEF WithClient, GoalsOK
  <2>4. goal'[g] \in {"sending", "finished"} /\ goal[g] = "new" /\ expired' = expired
    BY <1>1 DEF SendGoal, Refused, GoalsOK
  <2>5. \A d \in Cancels : Waiting(d) => cancelOf[d] \in Goals /\ cancelOf[d] # g
    BY <2>4 DEF RequestsOK
  <2>6. cancel' = cancel /\ cancelOf' = cancelOf
    BY <1>1 DEF SendGoal
  <2> QED
    BY <2>1, <2>2, <2>3, <2>4, <2>5, <2>6 DEF GoalsOK, RequestsOK
<1>2. ASSUME NEW c \in Cancels, NEW i \in Ids, CancelGoal(c, i)
      PROVE  ClientsOutliveRequests'
  BY <1>2 DEF CancelGoal, Known, GoalsOK, RequestsOK, TablesAgree
<1>3. ASSUME NEW k \in Calls, NEW s \in Services \cup {Unexposed}, CallService(k, s)
      PROVE  ClientsOutliveRequests'
  BY <1>3 DEF CallService, GoalsOK, RequestsOK
<1>4. ASSUME NEW t \in Topics, Publish(t)
      PROVE  ClientsOutliveRequests'
  BY <1>4 DEF Publish, GoalsOK, RequestsOK
<1>5. ASSUME NEW i \in Ids, Subscribe(i)
      PROVE  ClientsOutliveRequests'
  BY <1>5 DEF Subscribe, GoalsOK, RequestsOK
<1>6. ASSUME NEW i \in Ids, Unsubscribe(i)
      PROVE  ClientsOutliveRequests'
  BY <1>6 DEF Unsubscribe, GoalsOK, RequestsOK
<1>7. ASSUME NEW g \in Goals, GoalRefused(g)
      PROVE  ClientsOutliveRequests'
  <2>1. ASSUME NEW h \in Goals, (Open(h) /\ ~expired)'
        PROVE  client'[goalName'[h]] = "live"
    <3>1. Open(h) /\ ~expired /\ goalName' = goalName /\ goalName[h] \in Actions
      BY <2>1, <1>7 DEF GoalRefused, Finalize, GoalsOK, RequestsOK
    <3>2. Busy(goalName[h])
      BY <2>1, <3>1, <1>7 DEF GoalRefused, Finalize, TablesAgree, Busy, GoalsOK, RequestsOK
    <3> QED
      BY <3>1, <3>2, BusyStays, <1>7 DEF GoalRefused, Finalize, GoalsOK
  <2>2. ASSUME NEW d \in Cancels, (Waiting(d) /\ ~expired)'
        PROVE  client'[goalName'[cancelOf'[d]]] = "live"
    <3>1. /\ Waiting(d) /\ ~expired /\ goalName' = goalName /\ cancelOf' = cancelOf
          /\ goalName[cancelOf[d]] \in Actions
      BY <2>2, <1>7 DEF GoalRefused, Finalize, GoalsOK, RequestsOK
    <3>2. Busy(goalName[cancelOf[d]])
      BY <2>2, <3>1, <1>7 DEF GoalRefused, Finalize, TablesAgree, Busy, GoalsOK
    <3> QED
      BY <3>1, <3>2, BusyStays, <1>7 DEF GoalRefused, Finalize, GoalsOK
  <2> QED
    BY <2>1, <2>2
<1>8. ASSUME NEW g \in Goals, GoalAccepted(g)
      PROVE  ClientsOutliveRequests'
  <2>1. ASSUME NEW h \in Goals, (Open(h) /\ ~expired)'
        PROVE  client'[goalName'[h]] = "live"
    <3>1. Open(h) /\ ~expired /\ goalName' = goalName /\ goalName[h] \in Actions
      BY <2>1, <1>8 DEF GoalAccepted, Finalize, TooLate, GoalsOK, RequestsOK
    <3>2. Busy(goalName[h])
      BY <2>1, <3>1, <1>8 DEF GoalAccepted, Finalize, TooLate, TablesAgree, Busy, GoalsOK, RequestsOK
    <3> QED
      BY <3>1, <3>2, BusyStays, <1>8 DEF GoalAccepted, Finalize, TooLate, GoalsOK
  <2>2. ASSUME NEW d \in Cancels, (Waiting(d) /\ ~expired)'
        PROVE  client'[goalName'[cancelOf'[d]]] = "live"
    <3>1. /\ Waiting(d) /\ ~expired /\ goalName' = goalName /\ cancelOf' = cancelOf
          /\ goalName[cancelOf[d]] \in Actions
      BY <2>2, <1>8 DEF GoalAccepted, Finalize, TooLate, GoalsOK, RequestsOK
    <3>2. Busy(goalName[cancelOf[d]])
      BY <2>2, <3>1, <1>8 DEF GoalAccepted, Finalize, TooLate, TablesAgree, Busy, GoalsOK
    <3> QED
      BY <3>1, <3>2, BusyStays, <1>8 DEF GoalAccepted, Finalize, TooLate, GoalsOK
  <2> QED
    BY <2>1, <2>2
<1>9. ASSUME NEW g \in Goals, ResultArrives(g)
      PROVE  ClientsOutliveRequests'
  <2>1. ASSUME NEW h \in Goals, (Open(h) /\ ~expired)'
        PROVE  client'[goalName'[h]] = "live"
    <3>1. Open(h) /\ ~expired /\ goalName' = goalName /\ goalName[h] \in Actions
      BY <2>1, <1>9 DEF ResultArrives, Finalize, GoalsOK, RequestsOK
    <3>2. Busy(goalName[h])
      BY <2>1, <3>1, <1>9 DEF ResultArrives, Finalize, TablesAgree, Busy, GoalsOK, RequestsOK
    <3> QED
      BY <3>1, <3>2, BusyStays, <1>9 DEF ResultArrives, Finalize, GoalsOK
  <2>2. ASSUME NEW d \in Cancels, (Waiting(d) /\ ~expired)'
        PROVE  client'[goalName'[cancelOf'[d]]] = "live"
    <3>1. /\ Waiting(d) /\ ~expired /\ goalName' = goalName /\ cancelOf' = cancelOf
          /\ goalName[cancelOf[d]] \in Actions
      BY <2>2, <1>9 DEF ResultArrives, Finalize, GoalsOK, RequestsOK
    <3>2. Busy(goalName[cancelOf[d]])
      BY <2>2, <3>1, <1>9 DEF ResultArrives, Finalize, TablesAgree, Busy, GoalsOK
    <3> QED
      BY <3>1, <3>2, BusyStays, <1>9 DEF ResultArrives, Finalize, GoalsOK
  <2> QED
    BY <2>1, <2>2
<1>10. ASSUME NEW c \in Cancels, CancelAnswered(c)
      PROVE  ClientsOutliveRequests'
  <2>1. ASSUME NEW h \in Goals, (Open(h) /\ ~expired)'
        PROVE  client'[goalName'[h]] = "live"
    <3>1. Open(h) /\ ~expired /\ goalName' = goalName /\ goalName[h] \in Actions
      BY <2>1, <1>10 DEF CancelAnswered, GoalsOK, RequestsOK
    <3>2. Busy(goalName[h])
      BY <2>1, <3>1, <1>10 DEF CancelAnswered, TablesAgree, Busy, GoalsOK, RequestsOK
    <3> QED
      BY <3>1, <3>2, BusyStays, <1>10 DEF CancelAnswered, GoalsOK
  <2>2. ASSUME NEW d \in Cancels, (Waiting(d) /\ ~expired)'
        PROVE  client'[goalName'[cancelOf'[d]]] = "live"
    <3>1. /\ Waiting(d) /\ ~expired /\ goalName' = goalName /\ cancelOf' = cancelOf
          /\ goalName[cancelOf[d]] \in Actions
      BY <2>2, <1>10 DEF CancelAnswered, GoalsOK, RequestsOK
    <3>2. Busy(goalName[cancelOf[d]])
      BY <2>2, <3>1, <1>10 DEF CancelAnswered, TablesAgree, Busy, GoalsOK
    <3> QED
      BY <3>1, <3>2, BusyStays, <1>10 DEF CancelAnswered, GoalsOK
  <2> QED
    BY <2>1, <2>2
<1>11. ASSUME NEW k \in Calls, CallAnswered(k)
      PROVE  ClientsOutliveRequests'
  BY <1>11 DEF CallAnswered, GoalsOK, RequestsOK
<1>12. ASSUME Close
      PROVE  ClientsOutliveRequests'
  BY <1>12 DEF Close, GoalsOK, RequestsOK
<1>13. ASSUME Sweep
      PROVE  ClientsOutliveRequests'
  <2>1. ASSUME NEW h \in Goals, (Open(h) /\ ~expired)'
        PROVE  client'[goalName'[h]] = "live"
    <3>1. Open(h) /\ ~expired /\ goalName' = goalName /\ goalName[h] \in Actions
      BY <2>1, <1>13 DEF Sweep, GoalsOK, RequestsOK
    <3>2. Busy(goalName[h])
      BY <2>1, <3>1, <1>13 DEF Sweep, TablesAgree, Busy, GoalsOK, RequestsOK
    <3> QED
      BY <3>1, <3>2, BusyStays, <1>13 DEF Sweep, GoalsOK
  <2>2. ASSUME NEW d \in Cancels, (Waiting(d) /\ ~expired)'
        PROVE  client'[goalName'[cancelOf'[d]]] = "live"
    <3>1. /\ Waiting(d) /\ ~expired /\ goalName' = goalName /\ cancelOf' = cancelOf
          /\ goalName[cancelOf[d]] \in Actions
      BY <2>2, <1>13 DEF Sweep, GoalsOK, RequestsOK
    <3>2. Busy(goalName[cancelOf[d]])
      BY <2>2, <3>1, <1>13 DEF Sweep, TablesAgree, Busy, GoalsOK
    <3> QED
      BY <3>1, <3>2, BusyStays, <1>13 DEF Sweep, GoalsOK
  <2> QED
    BY <2>1, <2>2
<1>14. ASSUME Expire
      PROVE  ClientsOutliveRequests'
  <2>1. ASSUME NEW h \in Goals, (Open(h) /\ ~expired)'
        PROVE  client'[goalName'[h]] = "live"
    <3>1. Open(h) /\ ~expired /\ goalName' = goalName /\ goalName[h] \in Actions
      BY <2>1, <1>14 DEF Expire, Forgotten, GoalsOK, RequestsOK
    <3>2. Busy(goalName[h])
      BY <2>1, <3>1, <1>14 DEF Expire, Forgotten, TablesAgree, Busy, GoalsOK, RequestsOK
    <3> QED
      BY <3>1, <3>2, BusyStays, <1>14 DEF Expire, Forgotten, GoalsOK
  <2>2. ASSUME NEW d \in Cancels, (Waiting(d) /\ ~expired)'
        PROVE  client'[goalName'[cancelOf'[d]]] = "live"
    <3>1. /\ Waiting(d) /\ ~expired /\ goalName' = goalName /\ cancelOf' = cancelOf
          /\ goalName[cancelOf[d]] \in Actions
      BY <2>2, <1>14 DEF Expire, Forgotten, GoalsOK, RequestsOK
    <3>2. Busy(goalName[cancelOf[d]])
      BY <2>2, <3>1, <1>14 DEF Expire, Forgotten, TablesAgree, Busy, GoalsOK
    <3> QED
      BY <3>1, <3>2, BusyStays, <1>14 DEF Expire, Forgotten, GoalsOK
  <2> QED
    BY <2>1, <2>2
<1>15. ASSUME NEW n \in Actions, DestroyClient(n)
      PROVE  ClientsOutliveRequests'
  BY <1>15 DEF DestroyClient, GoalsOK, RequestsOK
<1>16. CASE UNCHANGED vars
  BY <1>16 DEF vars, GoalsOK, RequestsOK
<1> HIDE DEF ClientsOutliveRequests, Open, Waiting, TypeOK
<1> QED
  BY <1>1, <1>2, <1>3, <1>4, <1>5, <1>6, <1>7, <1>8, <1>9,
     <1>10, <1>11, <1>12, <1>13, <1>14, <1>15, <1>16
  DEF Next, Frame, Answer, Teardown

\* The timer is armed as long as a closed connection has a live client.
LEMMA TimerKept ==
  ASSUME TypeOK, TimerGuardsClients, [Next]_vars
  PROVE  TimerGuardsClients'
<1>1. ASSUME NEW g \in Goals, NEW i \in Ids, NEW n \in Actions \cup {Unexposed}, SendGoal(g, i, n)
      PROVE  TimerGuardsClients'
  <2>1. ~closed /\ closed' = closed /\ timer' = timer
    BY <1>1 DEF SendGoal
  <2> QED
    BY <2>1, Zenon DEF TimerGuardsClients
<1>2. ASSUME NEW c \in Cancels, NEW i \in Ids, CancelGoal(c, i)
      PROVE  TimerGuardsClients'
  BY <1>2, Zenon DEF CancelGoal, Known, TimerGuardsClients, Live, TypeOK, FlagsOK
<1>3. ASSUME NEW k \in Calls, NEW s \in Services \cup {Unexposed}, CallService(k, s)
      PROVE  TimerGuardsClients'
  BY <1>3, Zenon DEF CallService, TimerGuardsClients, Live, TypeOK, FlagsOK
<1>4. ASSUME NEW t \in Topics, Publish(t)
      PROVE  TimerGuardsClients'
  BY <1>4, Zenon DEF Publish, TimerGuardsClients, Live, TypeOK, FlagsOK
<1>5. ASSUME NEW i \in Ids, Subscribe(i)
      PROVE  TimerGuardsClients'
  BY <1>5, Zenon DEF Subscribe, TimerGuardsClients, Live, TypeOK, FlagsOK
<1>6. ASSUME NEW i \in Ids, Unsubscribe(i)
      PROVE  TimerGuardsClients'
  BY <1>6, Zenon DEF Unsubscribe, TimerGuardsClients, Live, TypeOK, FlagsOK
<1>7. ASSUME NEW g \in Goals, GoalRefused(g)
      PROVE  TimerGuardsClients'
  BY <1>7, ReleaseTimer DEF GoalRefused, Finalize, TypeOK, GoalsOK
<1>8. ASSUME NEW g \in Goals, GoalAccepted(g)
      PROVE  TimerGuardsClients'
  <2>1. CASE ReleaseIdle({goalName[g]})
    BY <2>1, <1>8, ReleaseTimer DEF GoalAccepted, TypeOK, GoalsOK
  <2>2. CASE client' = client /\ timer' = timer
    BY <2>2, <1>8, Zenon DEF GoalAccepted, TimerGuardsClients, Live
  <2> QED
    BY <2>1, <2>2, <1>8 DEF GoalAccepted, Finalize
<1>9. ASSUME NEW g \in Goals, ResultArrives(g)
      PROVE  TimerGuardsClients'
  BY <1>9, ReleaseTimer DEF ResultArrives, Finalize, TypeOK, GoalsOK
<1>10. ASSUME NEW c \in Cancels, CancelAnswered(c)
      PROVE  TimerGuardsClients'
  BY <1>10, ReleaseTimer DEF CancelAnswered, TypeOK, GoalsOK
<1>11. ASSUME NEW k \in Calls, CallAnswered(k)
      PROVE  TimerGuardsClients'
  BY <1>11, Zenon DEF CallAnswered, TimerGuardsClients, Live, TypeOK, FlagsOK
<1>12. ASSUME Close
      PROVE  TimerGuardsClients'
  BY <1>12, Zenon DEF Close, TimerGuardsClients, Live, TypeOK, FlagsOK
<1>13. ASSUME Sweep
      PROVE  TimerGuardsClients'
  BY <1>13, ReleaseTimer DEF Sweep, TypeOK, GoalsOK
<1>14. ASSUME Expire
      PROVE  TimerGuardsClients'
  BY <1>14, ReleaseTimer DEF Expire, Forgotten, TypeOK, GoalsOK
<1>15. ASSUME NEW n \in Actions, DestroyClient(n)
      PROVE  TimerGuardsClients'
  <2>1. Live' = Live
    BY <1>15 DEF DestroyClient, Live, TypeOK, GoalsOK
  <2> QED
    BY <2>1, <1>15, Zenon DEF DestroyClient, TimerGuardsClients
<1>16. CASE UNCHANGED vars
  BY <1>16 DEF vars, TimerGuardsClients, Live, TypeOK, FlagsOK
<1> QED
  BY <1>1, <1>2, <1>3, <1>4, <1>5, <1>6, <1>7, <1>8, <1>9,
     <1>10, <1>11, <1>12, <1>13, <1>14, <1>15, <1>16
  DEF Next, Frame, Answer, Teardown

\* No client is released while the connection is open.
LEMMA BeforeTheEnd ==
  ASSUME TypeOK, closed \/ \A a \in Actions : client[a] \in {"none", "live"}, sweeping => closed, [Next]_vars
  PROVE  (closed \/ \A a \in Actions : client[a] \in {"none", "live"})' /\ (sweeping => closed)'
<1>1. ASSUME NEW g \in Goals, NEW i \in Ids, NEW n \in Actions \cup {Unexposed}, SendGoal(g, i, n)
      PROVE  (closed \/ \A a \in Actions : client[a] \in {"none", "live"})' /\ (sweeping => closed)'
  BY <1>1 DEF SendGoal, Refused, WithClient, IdInUse, TypeOK, GoalsOK
<1>2. ASSUME NEW c \in Cancels, NEW i \in Ids, CancelGoal(c, i)
      PROVE  (closed \/ \A a \in Actions : client[a] \in {"none", "live"})' /\ (sweeping => closed)'
  BY <1>2 DEF CancelGoal, Known, TypeOK, GoalsOK
<1>3. ASSUME NEW k \in Calls, NEW s \in Services \cup {Unexposed}, CallService(k, s)
      PROVE  (closed \/ \A a \in Actions : client[a] \in {"none", "live"})' /\ (sweeping => closed)'
  BY <1>3 DEF CallService, TypeOK, GoalsOK
<1>4. ASSUME NEW t \in Topics, Publish(t)
      PROVE  (closed \/ \A a \in Actions : client[a] \in {"none", "live"})' /\ (sweeping => closed)'
  BY <1>4 DEF Publish, TypeOK, GoalsOK
<1>5. ASSUME NEW i \in Ids, Subscribe(i)
      PROVE  (closed \/ \A a \in Actions : client[a] \in {"none", "live"})' /\ (sweeping => closed)'
  BY <1>5 DEF Subscribe, TypeOK, GoalsOK
<1>6. ASSUME NEW i \in Ids, Unsubscribe(i)
      PROVE  (closed \/ \A a \in Actions : client[a] \in {"none", "live"})' /\ (sweeping => closed)'
  BY <1>6 DEF Unsubscribe, TypeOK, GoalsOK
<1>7. ASSUME NEW g \in Goals, GoalRefused(g)
      PROVE  (closed \/ \A a \in Actions : client[a] \in {"none", "live"})' /\ (sweeping => closed)'
  <2>1. ~closed => client' = client
    BY <1>7, ReleaseMoves DEF GoalRefused, Finalize, TypeOK, GoalsOK
  <2> QED
    BY <2>1, <1>7 DEF GoalRefused, Finalize
<1>8. ASSUME NEW g \in Goals, GoalAccepted(g)
      PROVE  (closed \/ \A a \in Actions : client[a] \in {"none", "live"})' /\ (sweeping => closed)'
  <2>1. ~closed => client' = client
    BY <1>8, ReleaseMoves DEF GoalAccepted, Finalize, TooLate, TypeOK, GoalsOK
  <2> QED
    BY <2>1, <1>8 DEF GoalAccepted, Finalize, TooLate
<1>9. ASSUME NEW g \in Goals, ResultArrives(g)
      PROVE  (closed \/ \A a \in Actions : client[a] \in {"none", "live"})' /\ (sweeping => closed)'
  <2>1. ~closed => client' = client
    BY <1>9, ReleaseMoves DEF ResultArrives, Finalize, TypeOK, GoalsOK
  <2> QED
    BY <2>1, <1>9 DEF ResultArrives, Finalize
<1>10. ASSUME NEW c \in Cancels, CancelAnswered(c)
      PROVE  (closed \/ \A a \in Actions : client[a] \in {"none", "live"})' /\ (sweeping => closed)'
  <2>1. ~closed => client' = client
    BY <1>10, ReleaseMoves DEF CancelAnswered, TypeOK, GoalsOK
  <2> QED
    BY <2>1, <1>10 DEF CancelAnswered
<1>11. ASSUME NEW k \in Calls, CallAnswered(k)
      PROVE  (closed \/ \A a \in Actions : client[a] \in {"none", "live"})' /\ (sweeping => closed)'
  BY <1>11 DEF CallAnswered, TypeOK, GoalsOK
<1>12. ASSUME Close
      PROVE  (closed \/ \A a \in Actions : client[a] \in {"none", "live"})' /\ (sweeping => closed)'
  BY <1>12 DEF Close, TypeOK, GoalsOK
<1>13. ASSUME Sweep
      PROVE  (closed \/ \A a \in Actions : client[a] \in {"none", "live"})' /\ (sweeping => closed)'
  <2>1. ~closed => client' = client
    BY <1>13, ReleaseMoves DEF Sweep, TypeOK, GoalsOK
  <2> QED
    BY <2>1, <1>13 DEF Sweep
<1>14. ASSUME Expire
      PROVE  (closed \/ \A a \in Actions : client[a] \in {"none", "live"})' /\ (sweeping => closed)'
  <2>1. ~closed => client' = client
    BY <1>14, ReleaseMoves DEF Expire, Forgotten, TypeOK, GoalsOK
  <2> QED
    BY <2>1, <1>14 DEF Expire, Forgotten
<1>15. ASSUME NEW n \in Actions, DestroyClient(n)
      PROVE  (closed \/ \A a \in Actions : client[a] \in {"none", "live"})' /\ (sweeping => closed)'
  BY <1>15 DEF DestroyClient, TypeOK, GoalsOK
<1>16. CASE UNCHANGED vars
  BY <1>16 DEF vars, TypeOK, GoalsOK
<1> QED
  BY <1>1, <1>2, <1>3, <1>4, <1>5, <1>6, <1>7, <1>8, <1>9,
     <1>10, <1>11, <1>12, <1>13, <1>14, <1>15, <1>16
  DEF Next, Frame, Answer, Teardown

-----------------------------------------------------------------------------
(* The theorems.                                                           *)

\* The maps of a connection of lib/runtime/dispatcher.js agree with what is under way,
\* its clients outlive what waits for them, and its timer what is to be released.
THEOREM Invariance == Spec => [](TypeOK /\ IInv /\ NothingLeaks)
<1>1. Init => TypeOK /\ IInv /\ NothingLeaks
  <2> SUFFICES ASSUME Init PROVE TypeOK /\ IInv /\ NothingLeaks
    OBVIOUS
  <2>1. FlagsOK
    BY Zenon DEF Init, FlagsOK
  <2>2. GoalsOK /\ EntitiesOK /\ RequestsOK
    BY DEF Init, GoalsOK, EntitiesOK, RequestsOK, Open, Waiting
  <2>3. TablesAgree /\ OneGoalPerId /\ ClientsOutliveRequests /\ NothingLeaks
    BY DEF Init, TablesAgree, OneGoalPerId, ClientsOutliveRequests, NothingLeaks, Open, Waiting
  <2>4. TimerGuardsClients
    BY Zenon DEF Init, TimerGuardsClients
  <2>5. (closed \/ \A n \in Actions : client[n] \in {"none", "live"}) /\ (sweeping => closed)
    BY DEF Init
  <2> QED
    BY <2>1, <2>2, <2>3, <2>4, <2>5 DEF TypeOK, IInv
<1>2. TypeOK /\ IInv /\ NothingLeaks /\ [Next]_vars => (TypeOK /\ IInv /\ NothingLeaks)'
  <2> SUFFICES ASSUME TypeOK, IInv, NothingLeaks, [Next]_vars
               PROVE  (TypeOK /\ IInv /\ NothingLeaks)'
    OBVIOUS
  <2>1. TypeOK'
    BY FlagsKept, GoalsKept, EntitiesKept, RequestsKept DEF TypeOK, IInv
  <2>2. TablesAgree' /\ OneGoalPerId'
    BY TablesKept, IdsKept DEF IInv
  <2>3. ClientsOutliveRequests' /\ TimerGuardsClients'
    BY <2>2, ClientsKept, TimerKept DEF IInv
  <2>4. (closed \/ \A n \in Actions : client[n] \in {"none", "live"})' /\ (sweeping => closed)'
    BY BeforeTheEnd DEF IInv
  <2>5. NothingLeaks'
    BY LeaksKept
  <2> QED
    BY <2>1, <2>2, <2>3, <2>4, <2>5 DEF IInv
<1> QED
  BY <1>1, <1>2, PTL DEF Spec

\* No handler of the dispatcher meets a request without an id, a capability or a goal.
THEOREM TypeCorrect == Spec => []TypeOK
  BY Invariance, PTL

\* Within the grace period no action client is released under a goal or a cancel.
THEOREM ClientsOutlive == Spec => []ClientsOutliveRequests
<1>1. IInv => ClientsOutliveRequests
  BY DEF IInv
<1> QED
  BY <1>1, Invariance, PTL

\* Ids that come again never name two goals under way.
THEOREM IdsAreUnambiguous == Spec => []OneGoalPerId
<1>1. IInv => OneGoalPerId
  BY DEF IInv
<1> QED
  BY <1>1, Invariance, PTL

\* The timer of a closed connection is armed exactly while a client is live.
THEOREM TimerAsLongAsNeeded == Spec => []TimerGuardsClients
<1>1. IInv => TimerGuardsClients
  BY DEF IInv
<1> QED
  BY <1>1, Invariance, PTL

\* A connection leaves no subscription, publisher or service client behind.
THEOREM ConnectionsLeakNothing == Spec => []NothingLeaks
  BY Invariance, PTL

-----------------------------------------------------------------------------
(* What the peer is told.                                                  *)

\* What the peer was told follows its goals.
LEMMA PeerKept ==
  ASSUME TypeOK, IInv, PeerKnows, [Next]_vars
  PROVE  PeerKnows'
<1>1. ASSUME NEW g \in Goals, NEW i \in Ids, NEW n \in Actions \cup {Unexposed}, SendGoal(g, i, n)
      PROVE  PeerKnows'
  BY <1>1 DEF SendGoal, Refused, WithClient, IdInUse, PeerKnows, TypeOK, FlagsOK, GoalsOK
<1>2. ASSUME NEW c \in Cancels, NEW i \in Ids, CancelGoal(c, i)
      PROVE  PeerKnows'
  BY <1>2 DEF CancelGoal, Known, PeerKnows, TypeOK, FlagsOK, GoalsOK
<1>3. ASSUME NEW k \in Calls, NEW s \in Services \cup {Unexposed}, CallService(k, s)
      PROVE  PeerKnows'
  BY <1>3 DEF CallService, PeerKnows, TypeOK, FlagsOK, GoalsOK
<1>4. ASSUME NEW t \in Topics, Publish(t)
      PROVE  PeerKnows'
  BY <1>4 DEF Publish, PeerKnows, TypeOK, FlagsOK, GoalsOK
<1>5. ASSUME NEW i \in Ids, Subscribe(i)
      PROVE  PeerKnows'
  BY <1>5 DEF Subscribe, PeerKnows, TypeOK, FlagsOK, GoalsOK
<1>6. ASSUME NEW i \in Ids, Unsubscribe(i)
      PROVE  PeerKnows'
  BY <1>6 DEF Unsubscribe, PeerKnows, TypeOK, FlagsOK, GoalsOK
<1>7. ASSUME NEW g \in Goals, GoalRefused(g)
      PROVE  PeerKnows'
  BY <1>7 DEF GoalRefused, Finalize, PeerKnows, TypeOK, FlagsOK, GoalsOK
<1>8. ASSUME NEW g \in Goals, GoalAccepted(g)
      PROVE  PeerKnows'
  <2>1. CASE closed
    BY <1>8, <2>1 DEF GoalAccepted, closeVars, PeerKnows
  <2>2. CASE ~closed
    <3>1. ~TooLate(g)
      BY <2>2 DEF IInv, TablesAgree, TooLate
    <3>2. goal' = [goal EXCEPT ![g] = "watching"] /\ said' = [said EXCEPT ![g] = "ok"]
      BY <1>8, <2>2, <3>1 DEF GoalAccepted
    <3>3. goal \in [Goals -> {"new", "sending", "watching", "finished"}]
      BY DEF TypeOK, GoalsOK
    <3>4. said \in [Goals -> {"nothing", "error", "ok", "result"}]
      BY DEF TypeOK, GoalsOK
    <3> QED
      BY <2>2, <3>2, <3>3, <3>4 DEF PeerKnows
  <2> QED
    BY <2>1, <2>2
<1>9. ASSUME NEW g \in Goals, ResultArrives(g)
      PROVE  PeerKnows'
  BY <1>9 DEF ResultArrives, Finalize, PeerKnows, TypeOK, FlagsOK, GoalsOK
<1>10. ASSUME NEW c \in Cancels, CancelAnswered(c)
      PROVE  PeerKnows'
  BY <1>10 DEF CancelAnswered, PeerKnows, TypeOK, FlagsOK, GoalsOK
<1>11. ASSUME NEW k \in Calls, CallAnswered(k)
      PROVE  PeerKnows'
  BY <1>11 DEF CallAnswered, PeerKnows, TypeOK, FlagsOK, GoalsOK
<1>12. ASSUME Close
      PROVE  PeerKnows'
  BY <1>12 DEF Close, PeerKnows, TypeOK, FlagsOK, GoalsOK
<1>13. ASSUME Sweep
      PROVE  PeerKnows'
  BY <1>13 DEF Sweep, PeerKnows, TypeOK, FlagsOK, GoalsOK
<1>14. ASSUME Expire
      PROVE  PeerKnows'
  BY <1>14 DEF Expire, Forgotten, PeerKnows, TypeOK, FlagsOK, GoalsOK
<1>15. ASSUME NEW n \in Actions, DestroyClient(n)
      PROVE  PeerKnows'
  BY <1>15 DEF DestroyClient, PeerKnows, TypeOK, FlagsOK, GoalsOK
<1>16. CASE UNCHANGED vars
  BY <1>16 DEF vars, PeerKnows, TypeOK, FlagsOK, GoalsOK
<1> QED
  BY <1>1, <1>2, <1>3, <1>4, <1>5, <1>6, <1>7, <1>8, <1>9,
     <1>10, <1>11, <1>12, <1>13, <1>14, <1>15, <1>16
  DEF Next, Frame, Answer, Teardown

\* Over an open connection each goal is announced and ended once, in this order.
THEOREM PeerIsTold == Spec => []PeerKnows
<1>1. Init => PeerKnows
  BY DEF Init, PeerKnows
<1>2. TypeOK /\ IInv /\ PeerKnows /\ [Next]_vars => PeerKnows'
  BY PeerKept
<1> QED
  BY <1>1, <1>2, Invariance, PTL DEF Spec

================================================================================
