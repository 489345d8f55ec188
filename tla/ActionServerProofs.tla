------------------------- MODULE ActionServerProofs -------------------------
(***************************************************************************)
(* Theorems about ActionServer for any goals, handles and requests.        *)
(*                                                                         *)
(* The argument: _goalHandles, rcl and the goal handles stay in step       *)
(* (TableInv), so that only a goal in the table can move; a deferred       *)
(* result is set to the state the goal ended in (ResultInv); a goal that   *)
(* is to be listed has left its ordinary course (CancelInv).               *)
(***************************************************************************)
EXTENDS ActionServer, TLAPS

USE NoneAssumption, FlagsAssumption, RunsAssumption
    DEF Terminal, Active, States, goalVars, tableVars, resultVars, cancelVars

-----------------------------------------------------------------------------
(* Types.                                                                  *)

\* _updateState keeps the types of what it changes.
LEMMA UpdateTyped ==
  ASSUME TypeOK, NEW h \in Handles, NEW new \in States, NEW o \in Outcomes,
         UpdateState(h, new, o)
  PROVE  /\ state' = [state EXCEPT ![h] = new] /\ Allowed(state[h], new)
         /\ state[h] \in Active /\ new \in States \ {"none", "accepted"}
         /\ state' \in [Handles -> States]
         /\ published' \in [Handles -> States]
         /\ due' \subseteq Handles
  BY DEF UpdateState, Allowed, StatusArray, Notified, TypeOK, GoalsOK

\* The loop over the goals to cancel keeps the types of what it changes.
LEMMA LoopTyped ==
  ASSUME TypeOK, NEW c \in Cancels, NEW left \in SUBSET Goals, NEW yes \in SUBSET Handles,
         CancelLoop(c, left, yes)
  PROVE  /\ cancel' \in [Cancels -> {"new", "asking", "sent", "failed", "thrown"}]
         /\ todo' \in [Cancels -> SUBSET Goals]
         /\ asking' \in [Cancels -> Handles \cup {None}]
         /\ agreed' \in [Cancels -> SUBSET Handles]
         /\ \A d \in Cancels : cancel'[d] = "asking" => asking'[d] \in Handles
  BY DEF CancelLoop, TypeOK, GoalsOK, RequestsOK

\* What belongs to the goals keeps its type.
LEMMA GoalsTyped ==
  ASSUME TypeOK, [Next]_vars
  PROVE  GoalsOK'
<1> USE DEF TypeOK, GoalsOK
<1>1. ASSUME NEW g \in Goals, NEW h \in Handles, AcceptDeferred(g, h)
      PROVE  GoalsOK'
  BY <1>1 DEF AcceptDeferred, GoalRequest, StatusArray
<1>2. ASSUME NEW g \in Goals, NEW h \in Handles, NEW o \in Outcomes, AcceptExecute(g, h, o)
      PROVE  GoalsOK'
  BY <1>2 DEF AcceptExecute, GoalRequest, StatusArray
<1>3. ASSUME NEW h \in Handles, NEW o \in Outcomes, Execute(h, o)
      PROVE  GoalsOK'
  BY <1>3, UpdateTyped DEF Execute
<1>4. ASSUME NEW h \in Handles, NEW o \in Outcomes, RunEnds(h, o)
      PROVE  GoalsOK'
  BY <1>4, UpdateTyped DEF RunEnds, AbortedIfActive
<1>5. ASSUME NEW h \in Handles, NEW new \in Terminal, NEW o \in Outcomes, UserEnds(h, new, o)
      PROVE  GoalsOK'
  BY <1>5, UpdateTyped DEF UserEnds
<1>6. ASSUME NEW r \in Headers, NEW g \in Goals, ResultRequest(r, g)
      PROVE  GoalsOK'
  BY <1>6 DEF ResultRequest
<1>7. ASSUME NEW r \in Headers, SendResult(r)
      PROVE  GoalsOK'
  BY <1>7 DEF SendResult
<1>8. ASSUME NEW c \in Cancels, NEW gs \in SUBSET Goals, CancelRequest(c, gs)
      PROVE  GoalsOK'
  BY <1>8 DEF CancelRequest
<1>9. ASSUME NEW c \in Cancels, CancelRejected(c)
      PROVE  GoalsOK'
  BY <1>9 DEF CancelRejected
<1>10. ASSUME NEW c \in Cancels, NEW o \in Outcomes, CancelAccepted(c, o)
      PROVE  GoalsOK'
  BY <1>10, UpdateTyped DEF CancelAccepted, RequestsOK
<1>11. ASSUME NEW c \in Cancels, CancelThrows(c)
      PROVE  GoalsOK'
  BY <1>11 DEF CancelThrows
<1>12. ASSUME NEW expired \in SUBSET Handles, Expire(expired)
      PROVE  GoalsOK'
  BY <1>12 DEF Expire, Untracked
<1>13. ASSUME Destroy
      PROVE  GoalsOK'
  BY <1>13 DEF Destroy, HandlesGone
<1>14. CASE UNCHANGED vars
  BY <1>14 DEF vars
<1> HIDE DEF TypeOK, GoalsOK, RequestsOK
<1> QED
  BY <1>1, <1>2, <1>3, <1>4, <1>5, <1>6, <1>7,
     <1>8, <1>9, <1>10, <1>11, <1>12, <1>13, <1>14
  DEF Next, GoalStep, ResultStep, CancelStep, ServerStep

\* What belongs to the requests keeps its type.
LEMMA RequestsTyped ==
  ASSUME TypeOK, [Next]_vars
  PROVE  RequestsOK'
<1> USE DEF TypeOK, GoalsOK, RequestsOK
<1>1. ASSUME NEW g \in Goals, NEW h \in Handles, AcceptDeferred(g, h)
      PROVE  RequestsOK'
  BY <1>1 DEF AcceptDeferred, GoalRequest
<1>2. ASSUME NEW g \in Goals, NEW h \in Handles, NEW o \in Outcomes, AcceptExecute(g, h, o)
      PROVE  RequestsOK'
  BY <1>2 DEF AcceptExecute, GoalRequest
<1>3. ASSUME NEW h \in Handles, NEW o \in Outcomes, Execute(h, o)
      PROVE  RequestsOK'
  BY <1>3 DEF Execute
<1>4. ASSUME NEW h \in Handles, NEW o \in Outcomes, RunEnds(h, o)
      PROVE  RequestsOK'
  BY <1>4, UpdateTyped DEF RunEnds, AbortedIfActive, StatusAfter, SetsResult, IsActive, Allowed
<1>5. ASSUME NEW h \in Handles, NEW new \in Terminal, NEW o \in Outcomes, UserEnds(h, new, o)
      PROVE  RequestsOK'
  BY <1>5 DEF UserEnds
<1>6. ASSUME NEW r \in Headers, NEW g \in Goals, ResultRequest(r, g)
      PROVE  RequestsOK'
  BY <1>6 DEF ResultRequest
<1>7. ASSUME NEW r \in Headers, SendResult(r)
      PROVE  RequestsOK'
  BY <1>7 DEF SendResult
<1>8. ASSUME NEW c \in Cancels, NEW gs \in SUBSET Goals, CancelRequest(c, gs)
      PROVE  RequestsOK'
  <2> DEFINE list == {g \in gs : \E h \in known :
                       goalOf[h] = g /\ state[h] \in {"accepted", "executing"}}
  <2>1. list \in SUBSET Goals /\ {} \in SUBSET Handles
    OBVIOUS
  <2>2. CancelLoop(c, list, {}) /\ UNCHANGED <<runs, result, resultVars>>
    BY <1>8 DEF CancelRequest
  <2> HIDE DEF list
  <2> QED
    BY <2>1, <2>2, LoopTyped
<1>9. ASSUME NEW c \in Cancels, CancelRejected(c)
      PROVE  RequestsOK'
  BY <1>9, LoopTyped DEF CancelRejected
<1>10. ASSUME NEW c \in Cancels, NEW o \in Outcomes, CancelAccepted(c, o)
      PROVE  RequestsOK'
  <2> DEFINE yes == agreed[c] \cup {asking[c]}
  <2>1. asking[c] \in Handles /\ yes \in SUBSET Handles /\ todo[c] \in SUBSET Goals
    BY <1>10 DEF CancelAccepted
  <2>2. /\ UNCHANGED <<runs, result, resultVars>>
        /\ CancelLoop(c, todo[c], yes) \/ CancelFails(c, "failed")
    BY <1>10 DEF CancelAccepted
  <2> HIDE DEF yes
  <2>3. CASE CancelLoop(c, todo[c], yes)
    BY <2>1, <2>2, <2>3, LoopTyped
  <2>4. CASE CancelFails(c, "failed")
    BY <2>2, <2>4 DEF CancelFails
  <2> QED
    BY <2>2, <2>3, <2>4
<1>11. ASSUME NEW c \in Cancels, CancelThrows(c)
      PROVE  RequestsOK'
  BY <1>11 DEF CancelThrows, CancelFails
<1>12. ASSUME NEW expired \in SUBSET Handles, Expire(expired)
      PROVE  RequestsOK'
  BY <1>12 DEF Expire
<1>13. ASSUME Destroy
      PROVE  RequestsOK'
  BY <1>13 DEF Destroy
<1>14. CASE UNCHANGED vars
  BY <1>14 DEF vars
<1> HIDE DEF TypeOK, GoalsOK, RequestsOK
<1> QED
  BY <1>1, <1>2, <1>3, <1>4, <1>5, <1>6, <1>7,
     <1>8, <1>9, <1>10, <1>11, <1>12, <1>13, <1>14
  DEF Next, GoalStep, ResultStep, CancelStep, ServerStep

\* Every variable keeps its type, however the user's callbacks and rcl behave.
THEOREM TypeCorrect == Spec => []TypeOK
<1>1. Init => TypeOK
  <2>1. 0 \in 0..MaxRuns
    OBVIOUS
  <2>2. Init => GoalsOK
    <3> SUFFICES ASSUME Init PROVE GoalsOK
      OBVIOUS
    <3>1. destroyed \in BOOLEAN
      BY Zenon DEF Init
    <3>2. /\ goalOf \in [Handles -> Goals \cup {None}]
          /\ state \in [Handles -> States]
          /\ published \in [Handles -> States]
          /\ tracked \in [Goals -> Handles \cup {None}]
      BY SMT DEF Init
    <3>3. known \subseteq Handles /\ gone \subseteq Handles /\ due \subseteq Handles
      BY SMT DEF Init
    <3> QED
      BY <3>1, <3>2, <3>3 DEF GoalsOK
  <2>3. Init => RequestsOK
    BY <2>1 DEF Init, RequestsOK
  <2> QED
    BY <2>2, <2>3 DEF TypeOK
<1>2. TypeOK /\ [Next]_vars => TypeOK'
  BY GoalsTyped, RequestsTyped DEF TypeOK
<1> QED
  BY <1>1, <1>2, PTL DEF Spec

-----------------------------------------------------------------------------
(* The parts of the inductive invariant.                                   *)

\* The table, rcl and the handles stay in step.
LEMMA TableKept ==
  ASSUME TypeOK, TypeOK', TableInv, [Next]_vars
  PROVE  TableInv'
<1> USE DEF TypeOK, GoalsOK, TableInv
<1>1. ASSUME NEW g \in Goals, NEW h \in Handles, AcceptDeferred(g, h)
      PROVE  TableInv'
  BY <1>1 DEF AcceptDeferred, GoalRequest, GoalExists
<1>2. ASSUME NEW g \in Goals, NEW h \in Handles, NEW o \in Outcomes, AcceptExecute(g, h, o)
      PROVE  TableInv'
  BY <1>2 DEF AcceptExecute, GoalRequest, GoalExists
<1>3. ASSUME NEW h \in Handles, NEW o \in Outcomes, Execute(h, o)
      PROVE  TableInv'
  BY <1>3, UpdateTyped DEF Execute
<1>4. ASSUME NEW h \in Handles, NEW o \in Outcomes, RunEnds(h, o)
      PROVE  TableInv'
  BY <1>4, UpdateTyped DEF RunEnds, AbortedIfActive
<1>5. ASSUME NEW h \in Handles, NEW new \in Terminal, NEW o \in Outcomes, UserEnds(h, new, o)
      PROVE  TableInv'
  BY <1>5, UpdateTyped DEF UserEnds
<1>6. ASSUME NEW r \in Headers, NEW g \in Goals, ResultRequest(r, g)
      PROVE  TableInv'
  BY <1>6 DEF ResultRequest
<1>7. ASSUME NEW r \in Headers, SendResult(r)
      PROVE  TableInv'
  BY <1>7 DEF SendResult
<1>8. ASSUME NEW c \in Cancels, NEW gs \in SUBSET Goals, CancelRequest(c, gs)
      PROVE  TableInv'
  BY <1>8 DEF CancelRequest
<1>9. ASSUME NEW c \in Cancels, CancelRejected(c)
      PROVE  TableInv'
  BY <1>9 DEF CancelRejected
<1>10. ASSUME NEW c \in Cancels, NEW o \in Outcomes, CancelAccepted(c, o)
      PROVE  TableInv'
  BY <1>10, UpdateTyped DEF CancelAccepted, RequestsOK, CancelFails
<1>11. ASSUME NEW c \in Cancels, CancelThrows(c)
      PROVE  TableInv'
  BY <1>11 DEF CancelThrows
<1>12. ASSUME NEW expired \in SUBSET Handles, Expire(expired)
      PROVE  TableInv'
  BY <1>12 DEF Expire, Untracked
<1>13. ASSUME Destroy
      PROVE  TableInv'
  BY <1>13 DEF Destroy, HandlesGone
<1>14. CASE UNCHANGED vars
  BY <1>14 DEF vars
<1> HIDE DEF TypeOK, GoalsOK, RequestsOK
<1> QED
  BY <1>1, <1>2, <1>3, <1>4, <1>5, <1>6, <1>7,
     <1>8, <1>9, <1>10, <1>11, <1>12, <1>13, <1>14
  DEF Next, GoalStep, ResultStep, CancelStep, ServerStep

\* A result is set to the state in which the goal ended.
LEMMA ResultsKept ==
  ASSUME TypeOK, TypeOK', TableInv, ResultInv, [Next]_vars
  PROVE  ResultInv'
<1> USE DEF TypeOK, GoalsOK, RequestsOK, ResultInv
<1>1. ASSUME NEW g \in Goals, NEW h \in Handles, AcceptDeferred(g, h)
      PROVE  ResultInv'
  BY <1>1 DEF AcceptDeferred, GoalRequest, TableInv
<1>2. ASSUME NEW g \in Goals, NEW h \in Handles, NEW o \in Outcomes, AcceptExecute(g, h, o)
      PROVE  ResultInv'
  BY <1>2 DEF AcceptExecute, GoalRequest, TableInv
<1>3. ASSUME NEW h \in Handles, NEW o \in Outcomes, Execute(h, o)
      PROVE  ResultInv'
  BY <1>3, UpdateTyped DEF Execute
<1>4. ASSUME NEW h \in Handles, NEW o \in Outcomes, RunEnds(h, o)
      PROVE  ResultInv'
  BY <1>4, UpdateTyped DEF RunEnds, AbortedIfActive, StatusAfter, IsActive, SetsResult
<1>5. ASSUME NEW h \in Handles, NEW new \in Terminal, NEW o \in Outcomes, UserEnds(h, new, o)
      PROVE  ResultInv'
  BY <1>5, UpdateTyped DEF UserEnds
<1>6. ASSUME NEW r \in Headers, NEW g \in Goals, ResultRequest(r, g)
      PROVE  ResultInv'
  BY <1>6 DEF ResultRequest
<1>7. ASSUME NEW r \in Headers, SendResult(r)
      PROVE  ResultInv'
  BY <1>7 DEF SendResult
<1>8. ASSUME NEW c \in Cancels, NEW gs \in SUBSET Goals, CancelRequest(c, gs)
      PROVE  ResultInv'
  BY <1>8 DEF CancelRequest
<1>9. ASSUME NEW c \in Cancels, CancelRejected(c)
      PROVE  ResultInv'
  BY <1>9 DEF CancelRejected
<1>10. ASSUME NEW c \in Cancels, NEW o \in Outcomes, CancelAccepted(c, o)
      PROVE  ResultInv'
  BY <1>10, UpdateTyped DEF CancelAccepted, CancelFails
<1>11. ASSUME NEW c \in Cancels, CancelThrows(c)
      PROVE  ResultInv'
  BY <1>11 DEF CancelThrows
<1>12. ASSUME NEW expired \in SUBSET Handles, Expire(expired)
      PROVE  ResultInv'
  BY <1>12 DEF Expire
<1>13. ASSUME Destroy
      PROVE  ResultInv'
  BY <1>13 DEF Destroy, HandlesGone
<1>14. CASE UNCHANGED vars
  BY <1>14 DEF vars
<1> HIDE DEF TypeOK, GoalsOK, RequestsOK
<1> QED
  BY <1>1, <1>2, <1>3, <1>4, <1>5, <1>6, <1>7,
     <1>8, <1>9, <1>10, <1>11, <1>12, <1>13, <1>14
  DEF Next, GoalStep, ResultStep, CancelStep, ServerStep

\* The goals to be listed have left their ordinary course.
LEMMA CancelsKept ==
  ASSUME TypeOK, TypeOK', TableInv, CancelInv, [Next]_vars
  PROVE  CancelInv'
<1> USE DEF TypeOK, GoalsOK, RequestsOK, CancelInv
<1>1. ASSUME NEW g \in Goals, NEW h \in Handles, AcceptDeferred(g, h)
      PROVE  CancelInv'
  BY <1>1 DEF AcceptDeferred, GoalRequest, TableInv
<1>2. ASSUME NEW g \in Goals, NEW h \in Handles, NEW o \in Outcomes, AcceptExecute(g, h, o)
      PROVE  CancelInv'
  BY <1>2 DEF AcceptExecute, GoalRequest, TableInv
<1>3. ASSUME NEW h \in Handles, NEW o \in Outcomes, Execute(h, o)
      PROVE  CancelInv'
  BY <1>3, UpdateTyped DEF Execute
<1>4. ASSUME NEW h \in Handles, NEW o \in Outcomes, RunEnds(h, o)
      PROVE  CancelInv'
  BY <1>4, UpdateTyped DEF RunEnds, AbortedIfActive
<1>5. ASSUME NEW h \in Handles, NEW new \in Terminal, NEW o \in Outcomes, UserEnds(h, new, o)
      PROVE  CancelInv'
  BY <1>5, UpdateTyped DEF UserEnds
<1>6. ASSUME NEW r \in Headers, NEW g \in Goals, ResultRequest(r, g)
      PROVE  CancelInv'
  BY <1>6 DEF ResultRequest
<1>7. ASSUME NEW r \in Headers, SendResult(r)
      PROVE  CancelInv'
  BY <1>7 DEF SendResult
<1>8. ASSUME NEW c \in Cancels, NEW gs \in SUBSET Goals, CancelRequest(c, gs)
      PROVE  CancelInv'
  BY <1>8 DEF CancelRequest, CancelLoop
<1>9. ASSUME NEW c \in Cancels, CancelRejected(c)
      PROVE  CancelInv'
  BY <1>9 DEF CancelRejected, CancelLoop
<1>10. ASSUME NEW c \in Cancels, NEW o \in Outcomes, CancelAccepted(c, o)
      PROVE  CancelInv'
  BY <1>10, UpdateTyped DEF CancelAccepted, CancelFails, CancelLoop
<1>11. ASSUME NEW c \in Cancels, CancelThrows(c)
      PROVE  CancelInv'
  BY <1>11 DEF CancelThrows, CancelFails
<1>12. ASSUME NEW expired \in SUBSET Handles, Expire(expired)
      PROVE  CancelInv'
  BY <1>12 DEF Expire
<1>13. ASSUME Destroy
      PROVE  CancelInv'
  BY <1>13 DEF Destroy, HandlesGone
<1>14. CASE UNCHANGED vars
  BY <1>14 DEF vars
<1> HIDE DEF TypeOK, GoalsOK, RequestsOK
<1> QED
  BY <1>1, <1>2, <1>3, <1>4, <1>5, <1>6, <1>7,
     <1>8, <1>9, <1>10, <1>11, <1>12, <1>13, <1>14
  DEF Next, GoalStep, ResultStep, CancelStep, ServerStep

\* A destroyed server moves no goal: the goals that could move are in the table or
\* their handles are destroyed.
LEMMA FrozenStep ==
  ASSUME TypeOK, TableInv, [Next]_vars
  PROVE  destroyed => state' = state /\ published' = published
<1> USE DEF TypeOK, GoalsOK, TableInv
<1>1. ASSUME NEW g \in Goals, NEW h \in Handles, AcceptDeferred(g, h)
      PROVE  destroyed => state' = state /\ published' = published
  BY <1>1 DEF AcceptDeferred, GoalRequest, GoalRequest
<1>2. ASSUME NEW g \in Goals, NEW h \in Handles, NEW o \in Outcomes, AcceptExecute(g, h, o)
      PROVE  destroyed => state' = state /\ published' = published
  BY <1>2 DEF AcceptExecute, GoalRequest
<1>3. ASSUME NEW h \in Handles, NEW o \in Outcomes, Execute(h, o)
      PROVE  destroyed => state' = state /\ published' = published
  BY <1>3, UpdateTyped DEF Execute, IsActive
<1>4. ASSUME NEW h \in Handles, NEW o \in Outcomes, RunEnds(h, o)
      PROVE  destroyed => state' = state /\ published' = published
  BY <1>4, UpdateTyped DEF RunEnds, AbortedIfActive, IsActive
<1>5. ASSUME NEW h \in Handles, NEW new \in Terminal, NEW o \in Outcomes, UserEnds(h, new, o)
      PROVE  destroyed => state' = state /\ published' = published
  BY <1>5, UpdateTyped DEF UserEnds
<1>6. ASSUME NEW r \in Headers, NEW g \in Goals, ResultRequest(r, g)
      PROVE  destroyed => state' = state /\ published' = published
  BY <1>6 DEF ResultRequest
<1>7. ASSUME NEW r \in Headers, SendResult(r)
      PROVE  destroyed => state' = state /\ published' = published
  BY <1>7 DEF SendResult
<1>8. ASSUME NEW c \in Cancels, NEW gs \in SUBSET Goals, CancelRequest(c, gs)
      PROVE  destroyed => state' = state /\ published' = published
  BY <1>8 DEF CancelRequest
<1>9. ASSUME NEW c \in Cancels, CancelRejected(c)
      PROVE  destroyed => state' = state /\ published' = published
  BY <1>9 DEF CancelRejected
<1>10. ASSUME NEW c \in Cancels, NEW o \in Outcomes, CancelAccepted(c, o)
      PROVE  destroyed => state' = state /\ published' = published
  BY <1>10, UpdateTyped DEF CancelAccepted, RequestsOK, CancelFails
<1>11. ASSUME NEW c \in Cancels, CancelThrows(c)
      PROVE  destroyed => state' = state /\ published' = published
  BY <1>11 DEF CancelThrows
<1>12. ASSUME NEW expired \in SUBSET Handles, Expire(expired)
      PROVE  destroyed => state' = state /\ published' = published
  BY <1>12 DEF Expire
<1>13. ASSUME Destroy
      PROVE  destroyed => state' = state /\ published' = published
  BY <1>13 DEF Destroy
<1>14. CASE UNCHANGED vars
  BY <1>14 DEF vars
<1> HIDE DEF TypeOK, GoalsOK, RequestsOK
<1> QED
  BY <1>1, <1>2, <1>3, <1>4, <1>5, <1>6, <1>7,
     <1>8, <1>9, <1>10, <1>11, <1>12, <1>13, <1>14
  DEF Next, GoalStep, ResultStep, CancelStep, ServerStep

\* A reply changes what one client was told.
LEMMA ToldExcept ==
  ASSUME RequestsOK, NEW r \in Headers, NEW v, v # "lost", reply[r] = "none",
         reply' = [reply EXCEPT ![r] = v]
  PROVE  told' = [told EXCEPT ![r] = v] /\ told[r] = "none"
<1>1. \A i \in Headers : told'[i] = IF i = r THEN v ELSE told[i]
  BY DEF told, RequestsOK
<1>2. told = [i \in Headers |-> told[i]] /\ told' = [i \in Headers |-> told'[i]]
  BY DEF told
<1> HIDE DEF told
<1>3. told[r] = "none"
  BY DEF told
<1> QED
  BY <1>1, <1>2, <1>3

\* A response sent lists goals for one cancel request.
LEMMA ListedExcept ==
  ASSUME RequestsOK, NEW c \in Cancels, NEW gs, cancel[c] # "sent",
         cancel' = [cancel EXCEPT ![c] = "sent"], agreed' = [agreed EXCEPT ![c] = gs]
  PROVE  listed' = [listed EXCEPT ![c] = gs] /\ listed[c] = {}
<1>1. \A i \in Cancels : listed'[i] = IF i = c THEN gs ELSE listed[i]
  BY DEF listed, RequestsOK
<1>2. listed = [i \in Cancels |-> listed[i]] /\ listed' = [i \in Cancels |-> listed'[i]]
  BY DEF listed
<1>3. listed[c] = {}
  BY DEF listed
<1> QED
  BY <1>1, <1>2, <1>3

\* Every step of the server is a step of GoalPromise or leaves it unchanged.
LEMMA PromiseStep ==
  ASSUME TypeOK, TypeOK', IInv, [Next]_vars
  PROVE  [Promise!Next]_(Promise!vars)
<1> USE DEF TypeOK, GoalsOK, RequestsOK, IInv
<1>1. ASSUME NEW g \in Goals, NEW h \in Handles, AcceptDeferred(g, h)
      PROVE  [Promise!Next]_(Promise!vars)
  <2>1. Promise!Move(h, "accepted")
    BY <1>1, UpdateTyped DEF AcceptDeferred, GoalRequest, told, listed, Promise!Move, Promise!Follows,
         Promise!Terminal, TableInv, UpdateState, Allowed
  <2> QED
    BY <2>1 DEF Promise!Next, Promise!Phases, Promise!Terminal
<1>2. ASSUME NEW g \in Goals, NEW h \in Handles, NEW o \in Outcomes, AcceptExecute(g, h, o)
      PROVE  [Promise!Next]_(Promise!vars)
  <2>1. Promise!Move(h, "executing")
    BY <1>2, UpdateTyped DEF AcceptExecute, GoalRequest, told, listed, Promise!Move, Promise!Follows,
         Promise!Terminal, TableInv, UpdateState, Allowed
  <2> QED
    BY <2>1 DEF Promise!Next, Promise!Phases, Promise!Terminal
<1>3. ASSUME NEW h \in Handles, NEW o \in Outcomes, Execute(h, o)
      PROVE  [Promise!Next]_(Promise!vars)
  <2>1. CASE state[h] # "canceling"
    <3>1. Promise!Move(h, "executing")
      BY <1>3, <2>1 DEF Execute, IsActive, told, listed, Promise!Move, Promise!Follows,
         Promise!Terminal, TableInv, UpdateState, Allowed
    <3> QED
      BY <3>1 DEF Promise!Next, Promise!Phases, Promise!Terminal
  <2>2. CASE ~(state[h] # "canceling")
    BY <1>3, <2>2 DEF Execute, IsActive, told, listed, Promise!vars
  <2> QED
    BY <2>1, <2>2
<1>4. ASSUME NEW h \in Handles, NEW o \in Outcomes, RunEnds(h, o)
      PROVE  [Promise!Next]_(Promise!vars)
  <2>1. CASE IsActive(h)
    <3>1. Promise!Move(h, "aborted")
      BY <1>4, <2>1 DEF RunEnds, AbortedIfActive, IsActive, told, listed, Promise!Move, Promise!Follows,
         Promise!Terminal, TableInv, UpdateState, Allowed
    <3> QED
      BY <3>1 DEF Promise!Next, Promise!Phases, Promise!Terminal
  <2>2. CASE ~(IsActive(h))
    BY <1>4, <2>2 DEF RunEnds, AbortedIfActive, IsActive, told, listed, Promise!vars
  <2> QED
    BY <2>1, <2>2
<1>5. ASSUME NEW h \in Handles, NEW new \in Terminal, NEW o \in Outcomes, UserEnds(h, new, o)
      PROVE  [Promise!Next]_(Promise!vars)
  <2>1. Promise!Move(h, new)
    BY <1>5, UpdateTyped DEF UserEnds, told, listed, Promise!Move, Promise!Follows,
         Promise!Terminal, TableInv, UpdateState, Allowed
  <2> QED
    BY <2>1 DEF Promise!Next, Promise!Phases, Promise!Terminal
<1>6. ASSUME NEW r \in Headers, NEW g \in Goals, ResultRequest(r, g)
      PROVE  [Promise!Next]_(Promise!vars)
  <2>1. CASE tracked[g] = None
    <3>1. asked' = asked /\ reply' = [reply EXCEPT ![r] = "unknown"] /\ reply[r] = "none"
      BY <1>6, <2>1 DEF ResultRequest
    <3>2. told' = [told EXCEPT ![r] = "unknown"] /\ told[r] = "none"
      BY <3>1, ToldExcept
    <3>3. listed' = listed
      BY <1>6 DEF ResultRequest, listed
    <3>4. Promise!TellUnknown(r)
      BY <1>6, <2>1, <3>1, <3>2, <3>3 DEF ResultRequest, Promise!TellUnknown
    <3> QED
      BY <3>4 DEF Promise!Next
  <2>2. CASE tracked[g] # None
    <3>1. tracked[g] \in Handles /\ state[tracked[g]] # "none"
      BY <2>2 DEF TableInv
    <3>2. reply' = reply /\ told' = told /\ listed' = listed /\ told[r] = "none"
      BY <1>6, <2>2 DEF ResultRequest, told, listed
    <3>3. Promise!Ask(r, tracked[g])
      BY <1>6, <2>2, <3>1, <3>2 DEF ResultRequest, Promise!Ask
    <3> QED
      BY <3>1, <3>3 DEF Promise!Next
  <2> QED
    BY <2>1, <2>2
<1>7. ASSUME NEW r \in Headers, SendResult(r)
      PROVE  [Promise!Next]_(Promise!vars)
  <2>1. CASE destroyed
    BY <1>7, <2>1 DEF SendResult, told, listed, Promise!vars
  <2>2. CASE ~destroyed
    <3>1. asked[r] \in Handles /\ reply[r] = "none"
      BY <1>7 DEF SendResult
    <3>2. state[asked[r]] \in Terminal /\ result[asked[r]] = state[asked[r]]
      BY <1>7, <2>2, <3>1 DEF SendResult, TableInv, ResultInv
    <3>3. told' = [told EXCEPT ![r] = state[asked[r]]] /\ told[r] = "none"
      BY <1>7, <2>2, <3>1, <3>2, ToldExcept DEF SendResult
    <3>4. listed' = listed
      BY <1>7 DEF SendResult, listed
    <3>5. Promise!Tell(r)
      BY <1>7, <3>1, <3>2, <3>3, <3>4 DEF SendResult, Promise!Tell, Promise!Terminal
    <3> QED
      BY <3>5 DEF Promise!Next
  <2> QED
    BY <2>1, <2>2
<1>8. ASSUME NEW c \in Cancels, NEW gs \in SUBSET Goals, CancelRequest(c, gs)
      PROVE  [Promise!Next]_(Promise!vars)
  <2>1. cancel'[c] = "sent" => agreed'[c] = {}
    BY <1>8 DEF CancelRequest, CancelLoop
  <2> QED
    BY <1>8, <2>1 DEF CancelRequest, CancelLoop, told, listed, Promise!vars
<1>9. ASSUME NEW c \in Cancels, CancelRejected(c)
      PROVE  [Promise!Next]_(Promise!vars)
  <2>1. agreed' = agreed
    BY <1>9 DEF CancelRejected, CancelLoop
  <2>2. CASE cancel'[c] = "sent"
    <3>1. ~destroyed /\ gone = {} /\ cancel[c] # "sent" /\ cancel' = [cancel EXCEPT ![c] = "sent"]
      BY <1>9, <2>2 DEF CancelRejected, CancelLoop, TableInv
    <3>2. listed' = [listed EXCEPT ![c] = agreed[c]] /\ listed[c] = {}
      BY <2>1, <3>1 DEF listed
    <3>3. told' = told /\ UNCHANGED <<state, asked>>
      BY <1>9 DEF CancelRejected, told
    <3>4. Promise!Acknowledge(c, agreed[c])
      BY <3>1, <3>2, <3>3 DEF CancelInv, Promise!Acknowledge, Promise!Terminal
    <3>5. agreed[c] \in SUBSET Handles
      OBVIOUS
    <3> QED
      BY <3>4, <3>5 DEF Promise!Next
  <2>3. CASE cancel'[c] # "sent"
    BY <1>9, <2>1, <2>3 DEF CancelRejected, CancelLoop, told, listed, Promise!vars
  <2> QED
    BY <2>2, <2>3
<1>10. ASSUME NEW c \in Cancels, NEW o \in Outcomes, CancelAccepted(c, o)
      PROVE  [Promise!Next]_(Promise!vars)
  <2>1. CASE cancel'[c] = "sent"
    <3> DEFINE h == asking[c]
               yes == agreed[c] \cup {h}
    <3>1. ~destroyed /\ gone = {} /\ cancel[c] = "asking" /\ h \in Handles
      BY <1>10, <2>1 DEF CancelAccepted, CancelLoop, CancelFails, TableInv
    <3>2. /\ UpdateState(h, "canceling", o)
          /\ UNCHANGED <<tableVars, resultVars>>
          /\ cancel' = [cancel EXCEPT ![c] = "sent"]
          /\ agreed' = [agreed EXCEPT ![c] = yes]
      BY <1>10, <2>1, <3>1 DEF CancelAccepted, CancelLoop, CancelFails
    <3>3. state' = [state EXCEPT ![h] = "canceling"] /\ state[h] \in {"accepted", "executing"}
      BY <3>2 DEF UpdateState, Allowed
    <3>4. \A i \in yes : state'[i] \in Terminal \cup {"canceling"}
      BY <3>1, <3>3 DEF CancelInv
    <3>5. yes \in SUBSET Handles
      BY <3>1
    <3>6. listed' = [listed EXCEPT ![c] = yes] /\ listed[c] = {}
      BY <3>1, <3>2, ListedExcept
    <3>7. told' = told /\ UNCHANGED asked
      BY <3>2 DEF told
    <3>8. h \in yes
      OBVIOUS
    <3> HIDE DEF yes
    <3>9. Promise!Acknowledge(c, yes)
      BY <3>3, <3>4, <3>6, <3>7, <3>8
         DEF Promise!Acknowledge, Promise!Follows, Promise!Terminal
    <3>10. \E gs \in SUBSET Handles : Promise!Acknowledge(c, gs)
      <4> HIDE DEF h
      <4> QED
        BY <3>5, <3>9, Zenon
    <3> QED
      BY <3>10 DEF Promise!Next
  <2>2. CASE cancel'[c] # "sent" /\ state' # state
    <3>1. Promise!Move(asking[c], "canceling")
      BY <1>10, <2>2 DEF CancelAccepted, CancelLoop, CancelFails, UpdateState, Allowed,
         told, listed, Promise!Move, Promise!Follows
    <3> QED
      BY <1>10, <3>1 DEF CancelAccepted, Promise!Next, Promise!Phases, Promise!Terminal
  <2>3. CASE cancel'[c] # "sent" /\ state' = state
    BY <1>10, <2>3 DEF CancelAccepted, CancelLoop, CancelFails, told, listed, Promise!vars
  <2> QED
    BY <2>1, <2>2, <2>3
<1>11. ASSUME NEW c \in Cancels, CancelThrows(c)
      PROVE  [Promise!Next]_(Promise!vars)
  BY <1>11 DEF CancelThrows, CancelFails, told, listed, Promise!vars
<1>12. ASSUME NEW expired \in SUBSET Handles, Expire(expired)
      PROVE  [Promise!Next]_(Promise!vars)
  BY <1>12 DEF Expire, told, listed, Promise!vars
<1>13. ASSUME Destroy
      PROVE  [Promise!Next]_(Promise!vars)
  BY <1>13 DEF Destroy, told, listed, Promise!vars
<1>14. CASE UNCHANGED vars
  BY <1>14 DEF vars, told, listed, Promise!vars
<1> HIDE DEF TypeOK, GoalsOK, RequestsOK
<1> QED
  BY <1>1, <1>2, <1>3, <1>4, <1>5, <1>6, <1>7,
     <1>8, <1>9, <1>10, <1>11, <1>12, <1>13, <1>14
  DEF Next, GoalStep, ResultStep, CancelStep, ServerStep

-----------------------------------------------------------------------------
(* What follows from the invariant.                                        *)

\* IInv holds in every reachable state.
THEOREM Invariance == Spec => []IInv
<1>1. Init => IInv
  BY DEF Init, IInv, TableInv, ResultInv, CancelInv
<1>2. TypeOK /\ TypeOK' /\ IInv /\ [Next]_vars => IInv'
  BY TableKept, ResultsKept, CancelsKept DEF IInv
<1> QED
  BY <1>1, <1>2, TypeCorrect, PTL DEF Spec

\* _goalHandles and rcl agree on the goals of a living server.
THEOREM TableAgrees == Spec => []TrackedIsKnown
<1>1. TypeOK /\ IInv => TrackedIsKnown
  BY DEF TypeOK, GoalsOK, IInv, TableInv, TrackedIsKnown
<1> QED
  BY <1>1, Invariance, TypeCorrect, PTL

\* No UUID is accepted twice while its goal is known.
THEOREM NoDuplicateGoals == Spec => []OneHandlePerGoal
<1>1. TypeOK /\ IInv => OneHandlePerGoal
  BY DEF TypeOK, GoalsOK, IInv, TableInv, OneHandlePerGoal
<1> QED
  BY <1>1, Invariance, TypeCorrect, PTL

\* After destroy() no goal changes, whoever still holds its handle.
THEOREM DestroyedStaysFrozen == Spec => DestroyedIsFrozen
<1>1. TypeOK /\ IInv /\ [Next]_vars => [destroyed => state' = state /\ published' = published]_vars
  BY FrozenStep DEF IInv
<1> QED
  BY <1>1, Invariance, TypeCorrect, PTL DEF Spec, DestroyedIsFrozen

\* lib/action/server.js implements what GoalPromise promises to clients.
THEOREM Implementation == Spec => KeepsPromise
<1>1. Init => Promise!Init
  BY DEF Init, Promise!Init, told, listed
<1>2. TypeOK /\ TypeOK' /\ IInv /\ [Next]_vars => [Promise!Next]_(Promise!vars)
  BY PromiseStep
<1> QED
  BY <1>1, <1>2, Invariance, TypeCorrect, PTL DEF Spec, KeepsPromise, Promise!Spec
=============================================================================
