------------------------- MODULE ActionClientProofs -------------------------
(***************************************************************************)
(* Theorems about ActionClient for any numbers of goals and requests.      *)
(*                                                                         *)
(* The argument: a request is in its table while its promise is open       *)
(* (AnswerInv), a handle exists only for an accepted goal (GoalInv), and   *)
(* since the phases of the server only move forward, whatever was          *)
(* published or told stays a lower bound of them (ViewInv).                *)
(***************************************************************************)
EXTENDS ActionClient, TLAPS

USE ClientAssumption
    DEF Terminal, Phases, Server!Terminal, Server!Phases,
        serverVars, goalVars, resultVars, cancelVars, filterVars, clientVars

-----------------------------------------------------------------------------
(* Types.                                                                  *)

\* The codes of the states.
LEMMA RankIs ==
  /\ Rank("none") = 0 /\ Rank("accepted") = 1 /\ Rank("executing") = 2
  /\ Rank("canceling") = 3 /\ Rank("succeeded") = 4 /\ Rank("canceled") = 5
  /\ Rank("aborted") = 6 /\ Rank("unknown") = 0
  BY DEF Rank

\* The setter yields the old or the new status, the new one only if it is larger.
LEMMA LaterIs ==
  ASSUME NEW old \in Phases, NEW new \in Phases \cup {"unknown"}
  PROVE  /\ Later(old, new) \in {old, new} /\ Later(old, new) \in Phases
         /\ Rank(Later(old, new)) >= Rank(old)
         /\ old \in Terminal => Later(old, new) = old
         /\ old \notin Terminal /\ new \in Terminal => Later(old, new) = new
  BY RankIs DEF Later

\* What a message says of a goal is a state.
LEMMA NewsIs ==
  ASSUME NEW m \in [Requests -> Phases], NEW q \in Requests, Told(m, q) # {}
  PROVE  News(m, q) \in Told(m, q) /\ News(m, q) \in Phases
  BY DEF News, Told, Same

\* The filter keeps its type.
LEMMA FilterTyped ==
  ASSUME optimizing \in BOOLEAN, filter \subseteq Uuids \cup {None},
         NEW s \in SUBSET (Uuids \cup {None}), FilterBecomes(s)
  PROVE  optimizing' \in BOOLEAN /\ filter' \subseteq Uuids \cup {None}
<1>1. CASE optimizing /\ filter' = s /\ optimizing' = optimizing
  BY <1>1
<1>2. CASE optimizing /\ filter' = {} /\ optimizing' = FALSE
  BY <1>2
<1>3. CASE ~optimizing /\ UNCHANGED filterVars
  BY <1>3
<1> QED
  BY <1>1, <1>2, <1>3 DEF FilterBecomes

\* A new message lists goals with their states.
LEMMA ArrayTyped == phase' \in [Requests -> Phases] => Array \in [Requests -> Phases]
  BY DEF Array

\* The server and the network keep their types.
LEMMA ServerTyped ==
  ASSUME TypeOK, [Next]_vars
  PROVE  ServerOK'
<1> USE DEF TypeOK, ServerOK, ClientOK
<1>1. ASSUME NEW q \in Requests, Accept(q)
      PROVE  ServerOK'
  BY <1>1, ArrayTyped DEF Accept, Server!Move, Server!Follows, Publish, Array
<1>2. ASSUME NEW q \in Requests, Refuse(q)
      PROVE  ServerOK'
  BY <1>2 DEF Refuse
<1>3. ASSUME NEW q \in Requests, Advance(q)
      PROVE  ServerOK'
  BY <1>3, ArrayTyped DEF Advance, Server!Move, Server!Follows, Publish, Array
<1>4. ASSUME NEW q \in Requests, Expire(q)
      PROVE  ServerOK'
  BY <1>4 DEF Expire
<1>5. ASSUME NEW r \in Results, TakeResultRequest(r)
      PROVE  ServerOK'
  BY <1>5 DEF TakeResultRequest, Server!Ask, Server!TellUnknown
<1>6. ASSUME NEW r \in Results, AnswerResult(r)
      PROVE  ServerOK'
  BY <1>6 DEF AnswerResult, Server!Tell
<1>7. ASSUME NEW c \in Cancels, AnswerCancel(c)
      PROVE  ServerOK'
  BY <1>7, ArrayTyped DEF AnswerCancel, Server!Acknowledge, Server!Follows, Publish, Array
<1>8. ASSUME NEW q \in Requests, NEW u \in Uuids, SendGoal(q, u)
      PROVE  ServerOK'
  BY <1>8 DEF SendGoal
<1>9. ASSUME NEW q \in Requests, NEW r \in Results, GetResult(r, q)
      PROVE  ServerOK'
  BY <1>9 DEF GetResult, HasHandle
<1>10. ASSUME NEW q \in Requests, NEW c \in Cancels, CancelGoal(c, q)
      PROVE  ServerOK'
  BY <1>10 DEF CancelGoal, HasHandle, RemoveFromFilter, FilterBecomes
<1>11. ASSUME Destroy
      PROVE  ServerOK'
  BY <1>11 DEF Destroy, TablesEmptied
<1>12. ASSUME NEW q \in Requests, GoalAccepted(q)
      PROVE  ServerOK'
  BY <1>12 DEF GoalAccepted, FreshUuid, FirstStatus, Same, AddToFilter, FilterBecomes
<1>13. ASSUME NEW q \in Requests, GoalRejected(q)
      PROVE  ServerOK'
  BY <1>13 DEF GoalRejected, CallbackDropped, Same
<1>14. ASSUME NEW q \in Requests, GoalDone(q)
      PROVE  ServerOK'
  BY <1>14 DEF GoalDone, TableWithout
<1>15. ASSUME NEW r \in Results, ResultResponse(r)
      PROVE  ServerOK'
  BY <1>15 DEF ResultResponse, StatusTold, Later
<1>16. ASSUME NEW r \in Results, ResultDone(r)
      PROVE  ServerOK'
  BY <1>16 DEF ResultDone, TableWithout, CallbackRemoved, RemoveFromFilter, FilterBecomes, Same
<1>17. ASSUME NEW c \in Cancels, CancelResponse(c)
      PROVE  ServerOK'
  BY <1>17 DEF CancelResponse
<1>18. ASSUME NEW c \in Cancels, CancelDone(c)
      PROVE  ServerOK'
  BY <1>18 DEF CancelDone, TableWithout
<1>19. ASSUME NEW m \in statusNet, StatusMessage(m)
      PROVE  ServerOK'
  BY <1>19 DEF StatusMessage, Told, Same, Later, FilterBecomes
<1>20. CASE UNCHANGED vars
  BY <1>20 DEF vars, serverVars, clientVars
<1> HIDE DEF TypeOK, ServerOK, ClientOK
<1> QED
  BY <1>1, <1>2, <1>3, <1>4, <1>5, <1>6, <1>7, <1>8,
     <1>9, <1>10, <1>11, <1>12, <1>13, <1>14, <1>15,
     <1>16, <1>17, <1>18, <1>19, <1>20
  DEF Next, ServerStep, UserStep, MessageStep

\* The client keeps its types.
LEMMA ClientTyped ==
  ASSUME TypeOK, [Next]_vars
  PROVE  ClientOK'
<1> USE DEF TypeOK, ServerOK, ClientOK
<1>1. ASSUME NEW q \in Requests, Accept(q)
      PROVE  ClientOK'
  BY <1>1 DEF Accept, Server!Move, Server!Follows, Publish, Array
<1>2. ASSUME NEW q \in Requests, Refuse(q)
      PROVE  ClientOK'
  BY <1>2 DEF Refuse
<1>3. ASSUME NEW q \in Requests, Advance(q)
      PROVE  ClientOK'
  BY <1>3 DEF Advance, Server!Move, Server!Follows, Publish, Array
<1>4. ASSUME NEW q \in Requests, Expire(q)
      PROVE  ClientOK'
  BY <1>4 DEF Expire
<1>5. ASSUME NEW r \in Results, TakeResultRequest(r)
      PROVE  ClientOK'
  BY <1>5 DEF TakeResultRequest, Server!Ask, Server!TellUnknown
<1>6. ASSUME NEW r \in Results, AnswerResult(r)
      PROVE  ClientOK'
  BY <1>6 DEF AnswerResult, Server!Tell
<1>7. ASSUME NEW c \in Cancels, AnswerCancel(c)
      PROVE  ClientOK'
  BY <1>7 DEF AnswerCancel, Server!Acknowledge, Server!Follows, Publish, Array
<1>8. ASSUME NEW q \in Requests, NEW u \in Uuids, SendGoal(q, u)
      PROVE  ClientOK'
  BY <1>8 DEF SendGoal
<1>9. ASSUME NEW q \in Requests, NEW r \in Results, GetResult(r, q)
      PROVE  ClientOK'
  BY <1>9 DEF GetResult, HasHandle
<1>10. ASSUME NEW q \in Requests, NEW c \in Cancels, CancelGoal(c, q)
      PROVE  ClientOK'
  BY <1>10 DEF CancelGoal, HasHandle, RemoveFromFilter, FilterBecomes
<1>11. ASSUME Destroy
      PROVE  ClientOK'
  BY <1>11 DEF Destroy, TablesEmptied
<1>12. ASSUME NEW q \in Requests, GoalAccepted(q)
      PROVE  ClientOK'
  <2>1. filter \cup {goalId[q]} \in SUBSET (Uuids \cup {None})
    OBVIOUS
  <2>2. optimizing' \in BOOLEAN /\ filter' \subseteq Uuids \cup {None}
    BY <1>12, <2>1, FilterTyped DEF GoalAccepted, AddToFilter
  <2> QED
    BY <1>12, <2>2 DEF GoalAccepted, FirstStatus
<1>13. ASSUME NEW q \in Requests, GoalRejected(q)
      PROVE  ClientOK'
  BY <1>13 DEF GoalRejected, CallbackDropped, Same
<1>14. ASSUME NEW q \in Requests, GoalDone(q)
      PROVE  ClientOK'
  BY <1>14 DEF GoalDone, TableWithout
<1>15. ASSUME NEW r \in Results, ResultResponse(r)
      PROVE  ClientOK'
  <2>1. reply[r] \in Phases \cup {"unknown"}
    BY <1>15
  <2>2. \A q \in Requests : Later(status[q], reply[r]) \in Phases
    BY <2>1, LaterIs
  <2>3. status' \in [Requests -> Phases]
    BY <1>15, <2>2 DEF ResultResponse, StatusTold
  <2> QED
    BY <1>15, <2>3 DEF ResultResponse
<1>16. ASSUME NEW r \in Results, ResultDone(r)
      PROVE  ClientOK'
  BY <1>16 DEF ResultDone, TableWithout, CallbackRemoved, RemoveFromFilter, FilterBecomes, Same
<1>17. ASSUME NEW c \in Cancels, CancelResponse(c)
      PROVE  ClientOK'
  BY <1>17 DEF CancelResponse
<1>18. ASSUME NEW c \in Cancels, CancelDone(c)
      PROVE  ClientOK'
  BY <1>18 DEF CancelDone, TableWithout
<1>19. ASSUME NEW m \in statusNet, StatusMessage(m)
      PROVE  ClientOK'
  <2>1. m \in [Requests -> Phases]
    OBVIOUS
  <2>2. \A q \in Requests : Told(m, q) # {} => Later(status[q], News(m, q)) \in Phases
    BY <2>1, NewsIs, LaterIs
  <2>3. status' \in [Requests -> Phases]
    BY <1>19, <2>2 DEF StatusMessage
  <2>4. tracked' \subseteq Requests /\ optimizing' \in BOOLEAN
        /\ filter' \subseteq Uuids \cup {None}
    <3> DEFINE ended == {q \in tracked : Told(m, q) \cap Terminal # {}}
               rest == filter \ {goalId[q] : q \in ended}
    <3>1. rest \in SUBSET (Uuids \cup {None})
      OBVIOUS
    <3>2. UNCHANGED filterVars \/ FilterBecomes(rest)
      BY <1>19 DEF StatusMessage
    <3>3. tracked' \subseteq Requests
      BY <1>19 DEF StatusMessage
    <3> HIDE DEF rest, ended
    <3> QED
      BY <3>1, <3>2, <3>3, FilterTyped
  <2> QED
    BY <1>19, <2>3, <2>4 DEF StatusMessage
<1>20. CASE UNCHANGED vars
  BY <1>20 DEF vars, serverVars, clientVars
<1> HIDE DEF TypeOK, ServerOK, ClientOK
<1> QED
  BY <1>1, <1>2, <1>3, <1>4, <1>5, <1>6, <1>7, <1>8,
     <1>9, <1>10, <1>11, <1>12, <1>13, <1>14, <1>15,
     <1>16, <1>17, <1>18, <1>19, <1>20
  DEF Next, ServerStep, UserStep, MessageStep

\* Every variable keeps its type, whatever the network does.
THEOREM TypeCorrect == Spec => []TypeOK
<1>1. Init => TypeOK
  BY DEF Init, Server!Init, TypeOK, ServerOK, ClientOK
<1>2. TypeOK /\ [Next]_vars => TypeOK'
  BY ServerTyped, ClientTyped DEF TypeOK
<1> QED
  BY <1>1, <1>2, PTL DEF Spec

-----------------------------------------------------------------------------
(* The parts of the inductive invariant.                                   *)

\* Goals exist on both sides only after sendGoal, handles only when accepted.
LEMMA GoalKept ==
  ASSUME TypeOK, GoalInv, AnswerInv, [Next]_vars
  PROVE  GoalInv'
<1> USE DEF TypeOK, ServerOK, ClientOK, GoalInv, OneEntryPerUuid
<1>1. ASSUME NEW q \in Requests, Accept(q)
      PROVE  GoalInv'
  BY <1>1 DEF Accept, Server!Move, Server!Follows, Publish, Array
<1>2. ASSUME NEW q \in Requests, Refuse(q)
      PROVE  GoalInv'
  BY <1>2 DEF Refuse
<1>3. ASSUME NEW q \in Requests, Advance(q)
      PROVE  GoalInv'
  BY <1>3 DEF Advance, Server!Move, Server!Follows, Publish, Array
<1>4. ASSUME NEW q \in Requests, Expire(q)
      PROVE  GoalInv'
  BY <1>4 DEF Expire
<1>5. ASSUME NEW r \in Results, TakeResultRequest(r)
      PROVE  GoalInv'
  BY <1>5 DEF TakeResultRequest, Server!Ask, Server!TellUnknown
<1>6. ASSUME NEW r \in Results, AnswerResult(r)
      PROVE  GoalInv'
  BY <1>6 DEF AnswerResult, Server!Tell
<1>7. ASSUME NEW c \in Cancels, AnswerCancel(c)
      PROVE  GoalInv'
  BY <1>7 DEF AnswerCancel, Server!Acknowledge, Server!Follows, Publish, Array
<1>8. ASSUME NEW q \in Requests, NEW u \in Uuids, SendGoal(q, u)
      PROVE  GoalInv'
  BY <1>8 DEF SendGoal
<1>9. ASSUME NEW q \in Requests, NEW r \in Results, GetResult(r, q)
      PROVE  GoalInv'
  BY <1>9 DEF GetResult, HasHandle
<1>10. ASSUME NEW q \in Requests, NEW c \in Cancels, CancelGoal(c, q)
      PROVE  GoalInv'
  BY <1>10 DEF CancelGoal, HasHandle, RemoveFromFilter, FilterBecomes
<1>11. ASSUME Destroy
      PROVE  GoalInv'
  BY <1>11 DEF Destroy, TablesEmptied
<1>12. ASSUME NEW q \in Requests, GoalAccepted(q)
      PROVE  GoalInv'
  BY <1>12 DEF GoalAccepted, FreshUuid, FirstStatus, Same, AddToFilter, FilterBecomes, AnswerInv, TablesAgree
<1>13. ASSUME NEW q \in Requests, GoalRejected(q)
      PROVE  GoalInv'
  BY <1>13 DEF GoalRejected, CallbackDropped, Same, AnswerInv, TablesAgree
<1>14. ASSUME NEW q \in Requests, GoalDone(q)
      PROVE  GoalInv'
  BY <1>14 DEF GoalDone, TableWithout
<1>15. ASSUME NEW r \in Results, ResultResponse(r)
      PROVE  GoalInv'
  BY <1>15 DEF ResultResponse, StatusTold, Later, AnswerInv, TablesAgree
<1>16. ASSUME NEW r \in Results, ResultDone(r)
      PROVE  GoalInv'
  BY <1>16 DEF ResultDone, TableWithout, CallbackRemoved, RemoveFromFilter, FilterBecomes, Same
<1>17. ASSUME NEW c \in Cancels, CancelResponse(c)
      PROVE  GoalInv'
  BY <1>17 DEF CancelResponse
<1>18. ASSUME NEW c \in Cancels, CancelDone(c)
      PROVE  GoalInv'
  BY <1>18 DEF CancelDone, TableWithout
<1>19. ASSUME NEW m \in statusNet, StatusMessage(m)
      PROVE  GoalInv'
  BY <1>19 DEF StatusMessage, Told, Same, Later, FilterBecomes
<1>20. CASE UNCHANGED vars
  BY <1>20 DEF vars, serverVars, clientVars
<1> HIDE DEF TypeOK, ServerOK, ClientOK
<1> QED
  BY <1>1, <1>2, <1>3, <1>4, <1>5, <1>6, <1>7, <1>8,
     <1>9, <1>10, <1>11, <1>12, <1>13, <1>14, <1>15,
     <1>16, <1>17, <1>18, <1>19, <1>20
  DEF Next, ServerStep, UserStep, MessageStep

\* Answers are asked for with a handle, and true.
LEMMA AnswerKept ==
  ASSUME TypeOK, GoalInv, AnswerInv, [Next]_vars
  PROVE  AnswerInv'
<1> USE DEF TypeOK, ServerOK, ClientOK, AnswerInv, TablesAgree
<1>1. ASSUME NEW q \in Requests, Accept(q)
      PROVE  AnswerInv'
  BY <1>1 DEF Accept, Server!Move, Server!Follows, Publish, Array, GoalInv
<1>2. ASSUME NEW q \in Requests, Refuse(q)
      PROVE  AnswerInv'
  BY <1>2 DEF Refuse, GoalInv
<1>3. ASSUME NEW q \in Requests, Advance(q)
      PROVE  AnswerInv'
  BY <1>3 DEF Advance, Server!Move, Server!Follows, Publish, Array, GoalInv
<1>4. ASSUME NEW q \in Requests, Expire(q)
      PROVE  AnswerInv'
  BY <1>4 DEF Expire, GoalInv
<1>5. ASSUME NEW r \in Results, TakeResultRequest(r)
      PROVE  AnswerInv'
  BY <1>5 DEF TakeResultRequest, Server!Ask, Server!TellUnknown, GoalInv
<1>6. ASSUME NEW r \in Results, AnswerResult(r)
      PROVE  AnswerInv'
  BY <1>6 DEF AnswerResult, Server!Tell, GoalInv
<1>7. ASSUME NEW c \in Cancels, AnswerCancel(c)
      PROVE  AnswerInv'
  BY <1>7 DEF AnswerCancel, Server!Acknowledge, Server!Follows, Publish, Array, GoalInv
<1>8. ASSUME NEW q \in Requests, NEW u \in Uuids, SendGoal(q, u)
      PROVE  AnswerInv'
  BY <1>8 DEF SendGoal, GoalInv
<1>9. ASSUME NEW q \in Requests, NEW r \in Results, GetResult(r, q)
      PROVE  AnswerInv'
  BY <1>9 DEF GetResult, HasHandle, GoalInv
<1>10. ASSUME NEW q \in Requests, NEW c \in Cancels, CancelGoal(c, q)
      PROVE  AnswerInv'
  BY <1>10 DEF CancelGoal, HasHandle, RemoveFromFilter, FilterBecomes, GoalInv
<1>11. ASSUME Destroy
      PROVE  AnswerInv'
  BY <1>11 DEF Destroy, TablesEmptied, GoalInv
<1>12. ASSUME NEW q \in Requests, GoalAccepted(q)
      PROVE  AnswerInv'
  BY <1>12 DEF GoalAccepted, FreshUuid, FirstStatus, Same, AddToFilter, FilterBecomes, GoalInv
<1>13. ASSUME NEW q \in Requests, GoalRejected(q)
      PROVE  AnswerInv'
  BY <1>13 DEF GoalRejected, CallbackDropped, Same, GoalInv
<1>14. ASSUME NEW q \in Requests, GoalDone(q)
      PROVE  AnswerInv'
  BY <1>14 DEF GoalDone, TableWithout, GoalInv
<1>15. ASSUME NEW r \in Results, ResultResponse(r)
      PROVE  AnswerInv'
  BY <1>15 DEF ResultResponse, StatusTold, Later, GoalInv
<1>16. ASSUME NEW r \in Results, ResultDone(r)
      PROVE  AnswerInv'
  BY <1>16 DEF ResultDone, TableWithout, CallbackRemoved, RemoveFromFilter, FilterBecomes, Same, GoalInv
<1>17. ASSUME NEW c \in Cancels, CancelResponse(c)
      PROVE  AnswerInv'
  BY <1>17 DEF CancelResponse, GoalInv
<1>18. ASSUME NEW c \in Cancels, CancelDone(c)
      PROVE  AnswerInv'
  BY <1>18 DEF CancelDone, TableWithout, GoalInv
<1>19. ASSUME NEW m \in statusNet, StatusMessage(m)
      PROVE  AnswerInv'
  BY <1>19 DEF StatusMessage, Told, Same, Later, FilterBecomes, GoalInv
<1>20. CASE UNCHANGED vars
  BY <1>20 DEF vars, serverVars, clientVars
<1> HIDE DEF TypeOK, ServerOK, ClientOK
<1> QED
  BY <1>1, <1>2, <1>3, <1>4, <1>5, <1>6, <1>7, <1>8,
     <1>9, <1>10, <1>11, <1>12, <1>13, <1>14, <1>15,
     <1>16, <1>17, <1>18, <1>19, <1>20
  DEF Next, ServerStep, UserStep, MessageStep

\* The phases of the server only move forward and stay where they end.
LEMMA PhasesAdvance ==
  ASSUME TypeOK, [Next]_vars
  PROVE  /\ \A p \in Requests : Rank(phase'[p]) >= Rank(phase[p])
         /\ \A p \in Requests : phase[p] \in Terminal => phase'[p] = phase[p]
<1> USE RankIs DEF TypeOK, ServerOK
<1>1. ASSUME NEW q \in Requests, Accept(q)
      PROVE  /\ \A p \in Requests : Rank(phase'[p]) >= Rank(phase[p])
             /\ \A p \in Requests : phase[p] \in Terminal => phase'[p] = phase[p]
  BY <1>1 DEF Accept, Server!Move, Server!Follows, Publish, Array
<1>2. ASSUME NEW q \in Requests, Refuse(q)
      PROVE  /\ \A p \in Requests : Rank(phase'[p]) >= Rank(phase[p])
             /\ \A p \in Requests : phase[p] \in Terminal => phase'[p] = phase[p]
  BY <1>2 DEF Refuse
<1>3. ASSUME NEW q \in Requests, Advance(q)
      PROVE  /\ \A p \in Requests : Rank(phase'[p]) >= Rank(phase[p])
             /\ \A p \in Requests : phase[p] \in Terminal => phase'[p] = phase[p]
  BY <1>3 DEF Advance, Server!Move, Server!Follows, Publish, Array
<1>4. ASSUME NEW q \in Requests, Expire(q)
      PROVE  /\ \A p \in Requests : Rank(phase'[p]) >= Rank(phase[p])
             /\ \A p \in Requests : phase[p] \in Terminal => phase'[p] = phase[p]
  BY <1>4 DEF Expire
<1>5. ASSUME NEW r \in Results, TakeResultRequest(r)
      PROVE  /\ \A p \in Requests : Rank(phase'[p]) >= Rank(phase[p])
             /\ \A p \in Requests : phase[p] \in Terminal => phase'[p] = phase[p]
  BY <1>5 DEF TakeResultRequest, Server!Ask, Server!TellUnknown
<1>6. ASSUME NEW r \in Results, AnswerResult(r)
      PROVE  /\ \A p \in Requests : Rank(phase'[p]) >= Rank(phase[p])
             /\ \A p \in Requests : phase[p] \in Terminal => phase'[p] = phase[p]
  BY <1>6 DEF AnswerResult, Server!Tell
<1>7. ASSUME NEW c \in Cancels, AnswerCancel(c)
      PROVE  /\ \A p \in Requests : Rank(phase'[p]) >= Rank(phase[p])
             /\ \A p \in Requests : phase[p] \in Terminal => phase'[p] = phase[p]
  BY <1>7 DEF AnswerCancel, Server!Acknowledge, Server!Follows, Publish, Array
<1>8. ASSUME NEW q \in Requests, NEW u \in Uuids, SendGoal(q, u)
      PROVE  /\ \A p \in Requests : Rank(phase'[p]) >= Rank(phase[p])
             /\ \A p \in Requests : phase[p] \in Terminal => phase'[p] = phase[p]
  BY <1>8 DEF SendGoal
<1>9. ASSUME NEW q \in Requests, NEW r \in Results, GetResult(r, q)
      PROVE  /\ \A p \in Requests : Rank(phase'[p]) >= Rank(phase[p])
             /\ \A p \in Requests : phase[p] \in Terminal => phase'[p] = phase[p]
  BY <1>9 DEF GetResult, HasHandle
<1>10. ASSUME NEW q \in Requests, NEW c \in Cancels, CancelGoal(c, q)
      PROVE  /\ \A p \in Requests : Rank(phase'[p]) >= Rank(phase[p])
             /\ \A p \in Requests : phase[p] \in Terminal => phase'[p] = phase[p]
  BY <1>10 DEF CancelGoal, HasHandle, RemoveFromFilter, FilterBecomes
<1>11. ASSUME Destroy
      PROVE  /\ \A p \in Requests : Rank(phase'[p]) >= Rank(phase[p])
             /\ \A p \in Requests : phase[p] \in Terminal => phase'[p] = phase[p]
  BY <1>11 DEF Destroy, TablesEmptied
<1>12. ASSUME NEW q \in Requests, GoalAccepted(q)
      PROVE  /\ \A p \in Requests : Rank(phase'[p]) >= Rank(phase[p])
             /\ \A p \in Requests : phase[p] \in Terminal => phase'[p] = phase[p]
  BY <1>12 DEF GoalAccepted, FreshUuid, FirstStatus, Same, AddToFilter, FilterBecomes
<1>13. ASSUME NEW q \in Requests, GoalRejected(q)
      PROVE  /\ \A p \in Requests : Rank(phase'[p]) >= Rank(phase[p])
             /\ \A p \in Requests : phase[p] \in Terminal => phase'[p] = phase[p]
  BY <1>13 DEF GoalRejected, CallbackDropped, Same
<1>14. ASSUME NEW q \in Requests, GoalDone(q)
      PROVE  /\ \A p \in Requests : Rank(phase'[p]) >= Rank(phase[p])
             /\ \A p \in Requests : phase[p] \in Terminal => phase'[p] = phase[p]
  BY <1>14 DEF GoalDone, TableWithout
<1>15. ASSUME NEW r \in Results, ResultResponse(r)
      PROVE  /\ \A p \in Requests : Rank(phase'[p]) >= Rank(phase[p])
             /\ \A p \in Requests : phase[p] \in Terminal => phase'[p] = phase[p]
  BY <1>15 DEF ResultResponse, StatusTold, Later
<1>16. ASSUME NEW r \in Results, ResultDone(r)
      PROVE  /\ \A p \in Requests : Rank(phase'[p]) >= Rank(phase[p])
             /\ \A p \in Requests : phase[p] \in Terminal => phase'[p] = phase[p]
  BY <1>16 DEF ResultDone, TableWithout, CallbackRemoved, RemoveFromFilter, FilterBecomes, Same
<1>17. ASSUME NEW c \in Cancels, CancelResponse(c)
      PROVE  /\ \A p \in Requests : Rank(phase'[p]) >= Rank(phase[p])
             /\ \A p \in Requests : phase[p] \in Terminal => phase'[p] = phase[p]
  BY <1>17 DEF CancelResponse
<1>18. ASSUME NEW c \in Cancels, CancelDone(c)
      PROVE  /\ \A p \in Requests : Rank(phase'[p]) >= Rank(phase[p])
             /\ \A p \in Requests : phase[p] \in Terminal => phase'[p] = phase[p]
  BY <1>18 DEF CancelDone, TableWithout
<1>19. ASSUME NEW m \in statusNet, StatusMessage(m)
      PROVE  /\ \A p \in Requests : Rank(phase'[p]) >= Rank(phase[p])
             /\ \A p \in Requests : phase[p] \in Terminal => phase'[p] = phase[p]
  BY <1>19 DEF StatusMessage, Told, Same, Later, FilterBecomes
<1>20. CASE UNCHANGED vars
  BY <1>20 DEF vars, serverVars, clientVars
<1> HIDE DEF TypeOK, ServerOK, ClientOK
<1> QED
  BY <1>1, <1>2, <1>3, <1>4, <1>5, <1>6, <1>7, <1>8,
     <1>9, <1>10, <1>11, <1>12, <1>13, <1>14, <1>15,
     <1>16, <1>17, <1>18, <1>19, <1>20
  DEF Next, ServerStep, UserStep, MessageStep

\* What has been reached stays reached.
LEMMA ReachedStays ==
  ASSUME TypeOK, TypeOK', [Next]_vars, NEW q \in Requests, NEW s \in Phases, Reached(s, q)
  PROVE  Rank(s) <= Rank(phase'[q]) /\ (s \in Terminal => phase'[q] = s)
<1>1. /\ Rank(s) \in Nat /\ Rank(phase[q]) \in Nat /\ Rank(phase'[q]) \in Nat
  BY RankIs DEF TypeOK, ServerOK
<1> QED
  BY <1>1, PhasesAdvance DEF Reached

\* A status that follows one that was reached and one that is news has been reached.
LEMMA LaterReached ==
  ASSUME NEW q \in Requests, NEW old \in Phases, NEW new \in Phases \cup {"unknown"},
         Reached(old, q), new # "unknown" => Reached(new, q)
  PROVE  Reached(Later(old, new), q)
  BY RankIs DEF Later, Reached

\* The UUID of a goal never changes.
LEMMA UuidsKept ==
  ASSUME TypeOK, GoalInv, [Next]_vars
  PROVE  \A p \in Requests : goalId[p] # None => goalId'[p] = goalId[p]
<1> USE DEF TypeOK, ClientOK, GoalInv
<1>1. ASSUME NEW q \in Requests, Accept(q)
      PROVE  \A p \in Requests : goalId[p] # None => goalId'[p] = goalId[p]
  BY <1>1 DEF Accept, Server!Move, Server!Follows, Publish, Array
<1>2. ASSUME NEW q \in Requests, Refuse(q)
      PROVE  \A p \in Requests : goalId[p] # None => goalId'[p] = goalId[p]
  BY <1>2 DEF Refuse
<1>3. ASSUME NEW q \in Requests, Advance(q)
      PROVE  \A p \in Requests : goalId[p] # None => goalId'[p] = goalId[p]
  BY <1>3 DEF Advance, Server!Move, Server!Follows, Publish, Array
<1>4. ASSUME NEW q \in Requests, Expire(q)
      PROVE  \A p \in Requests : goalId[p] # None => goalId'[p] = goalId[p]
  BY <1>4 DEF Expire
<1>5. ASSUME NEW r \in Results, TakeResultRequest(r)
      PROVE  \A p \in Requests : goalId[p] # None => goalId'[p] = goalId[p]
  BY <1>5 DEF TakeResultRequest, Server!Ask, Server!TellUnknown
<1>6. ASSUME NEW r \in Results, AnswerResult(r)
      PROVE  \A p \in Requests : goalId[p] # None => goalId'[p] = goalId[p]
  BY <1>6 DEF AnswerResult, Server!Tell
<1>7. ASSUME NEW c \in Cancels, AnswerCancel(c)
      PROVE  \A p \in Requests : goalId[p] # None => goalId'[p] = goalId[p]
  BY <1>7 DEF AnswerCancel, Server!Acknowledge, Server!Follows, Publish, Array
<1>8. ASSUME NEW q \in Requests, NEW u \in Uuids, SendGoal(q, u)
      PROVE  \A p \in Requests : goalId[p] # None => goalId'[p] = goalId[p]
  BY <1>8 DEF SendGoal
<1>9. ASSUME NEW q \in Requests, NEW r \in Results, GetResult(r, q)
      PROVE  \A p \in Requests : goalId[p] # None => goalId'[p] = goalId[p]
  BY <1>9 DEF GetResult, HasHandle
<1>10. ASSUME NEW q \in Requests, NEW c \in Cancels, CancelGoal(c, q)
      PROVE  \A p \in Requests : goalId[p] # None => goalId'[p] = goalId[p]
  BY <1>10 DEF CancelGoal, HasHandle, RemoveFromFilter, FilterBecomes
<1>11. ASSUME Destroy
      PROVE  \A p \in Requests : goalId[p] # None => goalId'[p] = goalId[p]
  BY <1>11 DEF Destroy, TablesEmptied
<1>12. ASSUME NEW q \in Requests, GoalAccepted(q)
      PROVE  \A p \in Requests : goalId[p] # None => goalId'[p] = goalId[p]
  BY <1>12 DEF GoalAccepted, FreshUuid, FirstStatus, Same, AddToFilter, FilterBecomes
<1>13. ASSUME NEW q \in Requests, GoalRejected(q)
      PROVE  \A p \in Requests : goalId[p] # None => goalId'[p] = goalId[p]
  BY <1>13 DEF GoalRejected, CallbackDropped, Same
<1>14. ASSUME NEW q \in Requests, GoalDone(q)
      PROVE  \A p \in Requests : goalId[p] # None => goalId'[p] = goalId[p]
  BY <1>14 DEF GoalDone, TableWithout
<1>15. ASSUME NEW r \in Results, ResultResponse(r)
      PROVE  \A p \in Requests : goalId[p] # None => goalId'[p] = goalId[p]
  BY <1>15 DEF ResultResponse, StatusTold, Later
<1>16. ASSUME NEW r \in Results, ResultDone(r)
      PROVE  \A p \in Requests : goalId[p] # None => goalId'[p] = goalId[p]
  BY <1>16 DEF ResultDone, TableWithout, CallbackRemoved, RemoveFromFilter, FilterBecomes, Same
<1>17. ASSUME NEW c \in Cancels, CancelResponse(c)
      PROVE  \A p \in Requests : goalId[p] # None => goalId'[p] = goalId[p]
  BY <1>17 DEF CancelResponse
<1>18. ASSUME NEW c \in Cancels, CancelDone(c)
      PROVE  \A p \in Requests : goalId[p] # None => goalId'[p] = goalId[p]
  BY <1>18 DEF CancelDone, TableWithout
<1>19. ASSUME NEW m \in statusNet, StatusMessage(m)
      PROVE  \A p \in Requests : goalId[p] # None => goalId'[p] = goalId[p]
  BY <1>19 DEF StatusMessage, Told, Same, Later, FilterBecomes
<1>20. CASE UNCHANGED vars
  BY <1>20 DEF vars, serverVars, clientVars
<1> HIDE DEF TypeOK, ServerOK, ClientOK
<1> QED
  BY <1>1, <1>2, <1>3, <1>4, <1>5, <1>6, <1>7, <1>8,
     <1>9, <1>10, <1>11, <1>12, <1>13, <1>14, <1>15,
     <1>16, <1>17, <1>18, <1>19, <1>20
  DEF Next, ServerStep, UserStep, MessageStep

\* A UUID that was used again stays so.
LEMMA UsedOnceBefore ==
  ASSUME TypeOK, GoalInv, [Next]_vars, UsedOnce'
  PROVE  UsedOnce
  BY UuidsKept DEF UsedOnce

\* A message under way was there before or lists the new states.
LEMMA Published ==
  ASSUME TypeOK, [Next]_vars
  PROVE  statusNet' \subseteq statusNet \cup {Array}
<1>1. ASSUME NEW q \in Requests, Accept(q)
      PROVE  statusNet' \subseteq statusNet \cup {Array}
  BY <1>1 DEF Accept, Server!Move, Server!Follows, Publish, Array
<1>2. ASSUME NEW q \in Requests, Refuse(q)
      PROVE  statusNet' \subseteq statusNet \cup {Array}
  BY <1>2 DEF Refuse
<1>3. ASSUME NEW q \in Requests, Advance(q)
      PROVE  statusNet' \subseteq statusNet \cup {Array}
  BY <1>3 DEF Advance, Server!Move, Server!Follows, Publish, Array
<1>4. ASSUME NEW q \in Requests, Expire(q)
      PROVE  statusNet' \subseteq statusNet \cup {Array}
  BY <1>4 DEF Expire
<1>5. ASSUME NEW r \in Results, TakeResultRequest(r)
      PROVE  statusNet' \subseteq statusNet \cup {Array}
  BY <1>5 DEF TakeResultRequest, Server!Ask, Server!TellUnknown
<1>6. ASSUME NEW r \in Results, AnswerResult(r)
      PROVE  statusNet' \subseteq statusNet \cup {Array}
  BY <1>6 DEF AnswerResult, Server!Tell
<1>7. ASSUME NEW c \in Cancels, AnswerCancel(c)
      PROVE  statusNet' \subseteq statusNet \cup {Array}
  BY <1>7 DEF AnswerCancel, Server!Acknowledge, Server!Follows, Publish, Array
<1>8. ASSUME NEW q \in Requests, NEW u \in Uuids, SendGoal(q, u)
      PROVE  statusNet' \subseteq statusNet \cup {Array}
  BY <1>8 DEF SendGoal
<1>9. ASSUME NEW q \in Requests, NEW r \in Results, GetResult(r, q)
      PROVE  statusNet' \subseteq statusNet \cup {Array}
  BY <1>9 DEF GetResult, HasHandle
<1>10. ASSUME NEW q \in Requests, NEW c \in Cancels, CancelGoal(c, q)
      PROVE  statusNet' \subseteq statusNet \cup {Array}
  BY <1>10 DEF CancelGoal, HasHandle, RemoveFromFilter, FilterBecomes
<1>11. ASSUME Destroy
      PROVE  statusNet' \subseteq statusNet \cup {Array}
  BY <1>11 DEF Destroy, TablesEmptied
<1>12. ASSUME NEW q \in Requests, GoalAccepted(q)
      PROVE  statusNet' \subseteq statusNet \cup {Array}
  BY <1>12 DEF GoalAccepted, FreshUuid, FirstStatus, Same, AddToFilter, FilterBecomes
<1>13. ASSUME NEW q \in Requests, GoalRejected(q)
      PROVE  statusNet' \subseteq statusNet \cup {Array}
  BY <1>13 DEF GoalRejected, CallbackDropped, Same
<1>14. ASSUME NEW q \in Requests, GoalDone(q)
      PROVE  statusNet' \subseteq statusNet \cup {Array}
  BY <1>14 DEF GoalDone, TableWithout
<1>15. ASSUME NEW r \in Results, ResultResponse(r)
      PROVE  statusNet' \subseteq statusNet \cup {Array}
  BY <1>15 DEF ResultResponse, StatusTold, Later
<1>16. ASSUME NEW r \in Results, ResultDone(r)
      PROVE  statusNet' \subseteq statusNet \cup {Array}
  BY <1>16 DEF ResultDone, TableWithout, CallbackRemoved, RemoveFromFilter, FilterBecomes, Same
<1>17. ASSUME NEW c \in Cancels, CancelResponse(c)
      PROVE  statusNet' \subseteq statusNet \cup {Array}
  BY <1>17 DEF CancelResponse
<1>18. ASSUME NEW c \in Cancels, CancelDone(c)
      PROVE  statusNet' \subseteq statusNet \cup {Array}
  BY <1>18 DEF CancelDone, TableWithout
<1>19. ASSUME NEW m \in statusNet, StatusMessage(m)
      PROVE  statusNet' \subseteq statusNet \cup {Array}
  BY <1>19 DEF StatusMessage, Told, Same, Later, FilterBecomes
<1>20. CASE UNCHANGED vars
  BY <1>20 DEF vars, serverVars, clientVars
<1> HIDE DEF TypeOK, ServerOK, ClientOK
<1> QED
  BY <1>1, <1>2, <1>3, <1>4, <1>5, <1>6, <1>7, <1>8,
     <1>9, <1>10, <1>11, <1>12, <1>13, <1>14, <1>15,
     <1>16, <1>17, <1>18, <1>19, <1>20
  DEF Next, ServerStep, UserStep, MessageStep

\* The three ways in which the status of a handle changes.
LEMMA WhoMoves ==
  ASSUME TypeOK, [Next]_vars
  PROVE  \A p \in Requests :
            \/ status'[p] = status[p]
            \/ GoalAccepted(p)
            \/ \E a \in Results : ResultResponse(a) /\ asked[a] = p
            \/ \E n \in statusNet : StatusMessage(n) /\ p \in tracked /\ Told(n, p) # {}
<1> USE DEF TypeOK, ServerOK, ClientOK
<1>1. ASSUME NEW q \in Requests, Accept(q)
      PROVE  \A p \in Requests :
            \/ status'[p] = status[p]
            \/ GoalAccepted(p)
            \/ \E a \in Results : ResultResponse(a) /\ asked[a] = p
            \/ \E n \in statusNet : StatusMessage(n) /\ p \in tracked /\ Told(n, p) # {}
  BY <1>1 DEF Accept, Server!Move, Server!Follows, Publish, Array
<1>2. ASSUME NEW q \in Requests, Refuse(q)
      PROVE  \A p \in Requests :
            \/ status'[p] = status[p]
            \/ GoalAccepted(p)
            \/ \E a \in Results : ResultResponse(a) /\ asked[a] = p
            \/ \E n \in statusNet : StatusMessage(n) /\ p \in tracked /\ Told(n, p) # {}
  BY <1>2 DEF Refuse
<1>3. ASSUME NEW q \in Requests, Advance(q)
      PROVE  \A p \in Requests :
            \/ status'[p] = status[p]
            \/ GoalAccepted(p)
            \/ \E a \in Results : ResultResponse(a) /\ asked[a] = p
            \/ \E n \in statusNet : StatusMessage(n) /\ p \in tracked /\ Told(n, p) # {}
  BY <1>3 DEF Advance, Server!Move, Server!Follows, Publish, Array
<1>4. ASSUME NEW q \in Requests, Expire(q)
      PROVE  \A p \in Requests :
            \/ status'[p] = status[p]
            \/ GoalAccepted(p)
            \/ \E a \in Results : ResultResponse(a) /\ asked[a] = p
            \/ \E n \in statusNet : StatusMessage(n) /\ p \in tracked /\ Told(n, p) # {}
  BY <1>4 DEF Expire
<1>5. ASSUME NEW r \in Results, TakeResultRequest(r)
      PROVE  \A p \in Requests :
            \/ status'[p] = status[p]
            \/ GoalAccepted(p)
            \/ \E a \in Results : ResultResponse(a) /\ asked[a] = p
            \/ \E n \in statusNet : StatusMessage(n) /\ p \in tracked /\ Told(n, p) # {}
  BY <1>5 DEF TakeResultRequest, Server!Ask, Server!TellUnknown
<1>6. ASSUME NEW r \in Results, AnswerResult(r)
      PROVE  \A p \in Requests :
            \/ status'[p] = status[p]
            \/ GoalAccepted(p)
            \/ \E a \in Results : ResultResponse(a) /\ asked[a] = p
            \/ \E n \in statusNet : StatusMessage(n) /\ p \in tracked /\ Told(n, p) # {}
  BY <1>6 DEF AnswerResult, Server!Tell
<1>7. ASSUME NEW c \in Cancels, AnswerCancel(c)
      PROVE  \A p \in Requests :
            \/ status'[p] = status[p]
            \/ GoalAccepted(p)
            \/ \E a \in Results : ResultResponse(a) /\ asked[a] = p
            \/ \E n \in statusNet : StatusMessage(n) /\ p \in tracked /\ Told(n, p) # {}
  BY <1>7 DEF AnswerCancel, Server!Acknowledge, Server!Follows, Publish, Array
<1>8. ASSUME NEW q \in Requests, NEW u \in Uuids, SendGoal(q, u)
      PROVE  \A p \in Requests :
            \/ status'[p] = status[p]
            \/ GoalAccepted(p)
            \/ \E a \in Results : ResultResponse(a) /\ asked[a] = p
            \/ \E n \in statusNet : StatusMessage(n) /\ p \in tracked /\ Told(n, p) # {}
  BY <1>8 DEF SendGoal
<1>9. ASSUME NEW q \in Requests, NEW r \in Results, GetResult(r, q)
      PROVE  \A p \in Requests :
            \/ status'[p] = status[p]
            \/ GoalAccepted(p)
            \/ \E a \in Results : ResultResponse(a) /\ asked[a] = p
            \/ \E n \in statusNet : StatusMessage(n) /\ p \in tracked /\ Told(n, p) # {}
  BY <1>9 DEF GetResult, HasHandle
<1>10. ASSUME NEW q \in Requests, NEW c \in Cancels, CancelGoal(c, q)
      PROVE  \A p \in Requests :
            \/ status'[p] = status[p]
            \/ GoalAccepted(p)
            \/ \E a \in Results : ResultResponse(a) /\ asked[a] = p
            \/ \E n \in statusNet : StatusMessage(n) /\ p \in tracked /\ Told(n, p) # {}
  BY <1>10 DEF CancelGoal, HasHandle, RemoveFromFilter, FilterBecomes
<1>11. ASSUME Destroy
      PROVE  \A p \in Requests :
            \/ status'[p] = status[p]
            \/ GoalAccepted(p)
            \/ \E a \in Results : ResultResponse(a) /\ asked[a] = p
            \/ \E n \in statusNet : StatusMessage(n) /\ p \in tracked /\ Told(n, p) # {}
  BY <1>11 DEF Destroy, TablesEmptied
<1>12. ASSUME NEW q \in Requests, GoalAccepted(q)
      PROVE  \A p \in Requests :
            \/ status'[p] = status[p]
            \/ GoalAccepted(p)
            \/ \E a \in Results : ResultResponse(a) /\ asked[a] = p
            \/ \E n \in statusNet : StatusMessage(n) /\ p \in tracked /\ Told(n, p) # {}
  <2>1. ASSUME NEW p \in Requests, p # q
        PROVE  status'[p] = status[p]
    BY <2>1, <1>12 DEF GoalAccepted
  <2> QED
    BY <2>1, <1>12
<1>13. ASSUME NEW q \in Requests, GoalRejected(q)
      PROVE  \A p \in Requests :
            \/ status'[p] = status[p]
            \/ GoalAccepted(p)
            \/ \E a \in Results : ResultResponse(a) /\ asked[a] = p
            \/ \E n \in statusNet : StatusMessage(n) /\ p \in tracked /\ Told(n, p) # {}
  BY <1>13 DEF GoalRejected, CallbackDropped, Same
<1>14. ASSUME NEW q \in Requests, GoalDone(q)
      PROVE  \A p \in Requests :
            \/ status'[p] = status[p]
            \/ GoalAccepted(p)
            \/ \E a \in Results : ResultResponse(a) /\ asked[a] = p
            \/ \E n \in statusNet : StatusMessage(n) /\ p \in tracked /\ Told(n, p) # {}
  BY <1>14 DEF GoalDone, TableWithout
<1>15. ASSUME NEW r \in Results, ResultResponse(r)
      PROVE  \A p \in Requests :
            \/ status'[p] = status[p]
            \/ GoalAccepted(p)
            \/ \E a \in Results : ResultResponse(a) /\ asked[a] = p
            \/ \E n \in statusNet : StatusMessage(n) /\ p \in tracked /\ Told(n, p) # {}
  BY <1>15 DEF ResultResponse, StatusTold, Later
<1>16. ASSUME NEW r \in Results, ResultDone(r)
      PROVE  \A p \in Requests :
            \/ status'[p] = status[p]
            \/ GoalAccepted(p)
            \/ \E a \in Results : ResultResponse(a) /\ asked[a] = p
            \/ \E n \in statusNet : StatusMessage(n) /\ p \in tracked /\ Told(n, p) # {}
  BY <1>16 DEF ResultDone, TableWithout, CallbackRemoved, RemoveFromFilter, FilterBecomes, Same
<1>17. ASSUME NEW c \in Cancels, CancelResponse(c)
      PROVE  \A p \in Requests :
            \/ status'[p] = status[p]
            \/ GoalAccepted(p)
            \/ \E a \in Results : ResultResponse(a) /\ asked[a] = p
            \/ \E n \in statusNet : StatusMessage(n) /\ p \in tracked /\ Told(n, p) # {}
  BY <1>17 DEF CancelResponse
<1>18. ASSUME NEW c \in Cancels, CancelDone(c)
      PROVE  \A p \in Requests :
            \/ status'[p] = status[p]
            \/ GoalAccepted(p)
            \/ \E a \in Results : ResultResponse(a) /\ asked[a] = p
            \/ \E n \in statusNet : StatusMessage(n) /\ p \in tracked /\ Told(n, p) # {}
  BY <1>18 DEF CancelDone, TableWithout
<1>19. ASSUME NEW m \in statusNet, StatusMessage(m)
      PROVE  \A p \in Requests :
            \/ status'[p] = status[p]
            \/ GoalAccepted(p)
            \/ \E a \in Results : ResultResponse(a) /\ asked[a] = p
            \/ \E n \in statusNet : StatusMessage(n) /\ p \in tracked /\ Told(n, p) # {}
  <2>1. ASSUME NEW p \in Requests, p \notin tracked \/ Told(m, p) = {}
        PROVE  status'[p] = status[p]
    BY <2>1, <1>19 DEF StatusMessage
  <2> QED
    BY <2>1, <1>19
<1>20. CASE UNCHANGED vars
  BY <1>20 DEF vars, serverVars, clientVars
<1> HIDE DEF TypeOK, ServerOK, ClientOK
<1> QED
  BY <1>1, <1>2, <1>3, <1>4, <1>5, <1>6, <1>7, <1>8,
     <1>9, <1>10, <1>11, <1>12, <1>13, <1>14, <1>15,
     <1>16, <1>17, <1>18, <1>19, <1>20
  DEF Next, ServerStep, UserStep, MessageStep

\* Status messages under way list states that have been reached.
LEMMA MessagesKept ==
  ASSUME TypeOK, TypeOK', [Next]_vars, \A m \in statusNet, q \in Requests : Reached(m[q], q)
  PROVE  \A m \in statusNet', q \in Requests :
           Rank(m[q]) <= Rank(phase'[q]) /\ (m[q] \in Terminal => phase'[q] = m[q])
<1>1. statusNet' \subseteq statusNet \cup {Array}
  BY Published
<1>2. ASSUME NEW m \in statusNet, NEW q \in Requests
      PROVE  Rank(m[q]) <= Rank(phase'[q]) /\ (m[q] \in Terminal => phase'[q] = m[q])
  <2>1. m[q] \in Phases
    BY DEF TypeOK, ServerOK
  <2> QED
    BY <2>1, ReachedStays
<1>3. ASSUME NEW q \in Requests
      PROVE  /\ Rank(Array[q]) <= Rank(phase'[q])
             /\ Array[q] \in Terminal => phase'[q] = Array[q]
  BY RankIs DEF Array, TypeOK, ServerOK
<1> QED
  BY <1>1, <1>2, <1>3

\* What handles show has been reached.
LEMMA StatusKept ==
  ASSUME TypeOK, TypeOK', GoalInv, AnswerInv, UsedOnce, ViewInv, [Next]_vars,
         NEW q \in Requests
  PROVE  /\ Rank(status'[q]) <= Rank(phase'[q])
         /\ status'[q] \in Terminal => phase'[q] = status'[q]
<1>1. status[q] \in Phases /\ Reached(status[q], q)
  BY DEF TypeOK, ClientOK, ViewInv
<1>2. CASE status'[q] = status[q]
  BY <1>1, <1>2, ReachedStays
<1>3. CASE GoalAccepted(q)
  <2>1. status'[q] = "accepted" /\ phase'[q] = phase[q] /\ phase[q] # "none"
    BY <1>3 DEF GoalAccepted, FirstStatus, TypeOK, ClientOK
  <2>2. phase[q] \in Phases
    BY DEF TypeOK, ServerOK
  <2> QED
    BY <2>1, <2>2, RankIs
<1>4. ASSUME NEW r \in Results, ResultResponse(r), asked[r] = q
      PROVE  /\ Rank(status'[q]) <= Rank(phase'[q])
             /\ status'[q] \in Terminal => phase'[q] = status'[q]
  <2>1. status'[q] = Later(status[q], reply[r]) /\ phase' = phase
    BY <1>4 DEF ResultResponse, StatusTold, TypeOK, ClientOK
  <2>2. reply[r] \in Terminal \cup {"unknown"}
    BY <1>4 DEF ResultResponse, TypeOK, ServerOK
  <2>3. reply[r] # "unknown" => reply[r] = phase[q]
    BY <2>2, <1>4 DEF AnswerInv, TypeOK, ServerOK, ClientOK
  <2>4. reply[r] # "unknown" => Reached(reply[r], q)
    BY <2>3, RankIs DEF Reached, TypeOK, ServerOK
  <2>5. Reached(Later(status[q], reply[r]), q)
    BY <1>1, <2>2, <2>4, LaterReached
  <2> QED
    BY <2>1, <2>5 DEF Reached
<1>5. ASSUME NEW m \in statusNet, StatusMessage(m), q \in tracked, Told(m, q) # {}
      PROVE  /\ Rank(status'[q]) <= Rank(phase'[q])
             /\ status'[q] \in Terminal => phase'[q] = status'[q]
  <2>1. status'[q] = Later(status[q], News(m, q)) /\ phase' = phase
    BY <1>5 DEF StatusMessage
  <2>2. m \in [Requests -> Phases]
    BY DEF TypeOK, ServerOK
  <2>3. Same(q) = {q}
    BY <1>5 DEF Same, UsedOnce, GoalInv
  <2>4. News(m, q) = m[q] /\ m[q] \in Phases
    BY <2>2, <2>3, <1>5, NewsIs DEF Told
  <2>5. Reached(Later(status[q], m[q]), q)
    BY <1>1, <2>4, LaterReached DEF ViewInv
  <2> QED
    BY <2>1, <2>4, <2>5 DEF Reached
<1> QED
  BY <1>2, <1>3, <1>4, <1>5, WhoMoves

\* A step never moves a status back, and never away from an end.
LEMMA StatusForward ==
  ASSUME TypeOK, GoalInv, AnswerInv, [Next]_vars, NEW q \in Requests
  PROVE  /\ Rank(status'[q]) >= Rank(status[q])
         /\ status[q] \in Terminal => status'[q] = status[q]
<1>1. status[q] \in Phases /\ Rank(status[q]) \in Nat
  BY RankIs DEF TypeOK, ClientOK
<1>2. CASE status'[q] = status[q]
  BY <1>1, <1>2
<1>3. CASE GoalAccepted(q)
  <2>1. status[q] = "none"
    BY <1>3 DEF GoalAccepted, GoalInv, AnswerInv, TablesAgree, TypeOK, ClientOK
  <2>2. status'[q] = "accepted"
    BY <1>3 DEF GoalAccepted, FirstStatus, TypeOK, ClientOK
  <2> QED
    BY <2>1, <2>2, RankIs
<1>4. ASSUME NEW r \in Results, ResultResponse(r), asked[r] = q
      PROVE  /\ Rank(status'[q]) >= Rank(status[q])
             /\ status[q] \in Terminal => status'[q] = status[q]
  <2>1. status'[q] = Later(status[q], reply[r])
    BY <1>4 DEF ResultResponse, StatusTold, TypeOK, ClientOK
  <2>2. reply[r] \in Terminal \cup {"unknown"}
    BY <1>4 DEF ResultResponse, TypeOK, ServerOK
  <2> QED
    BY <1>1, <2>1, <2>2, LaterIs
<1>5. ASSUME NEW m \in statusNet, StatusMessage(m), q \in tracked, Told(m, q) # {}
      PROVE  /\ Rank(status'[q]) >= Rank(status[q])
             /\ status[q] \in Terminal => status'[q] = status[q]
  <2>1. status'[q] = Later(status[q], News(m, q))
    BY <1>5 DEF StatusMessage
  <2>2. News(m, q) \in Phases
    BY <1>5, NewsIs DEF TypeOK, ServerOK
  <2> QED
    BY <1>1, <2>1, <2>2, LaterIs
<1> QED
  BY <1>2, <1>3, <1>4, <1>5, WhoMoves

\* Only the answer to a result request settles its promise, and leaves its end in the handle.
LEMMA WhoTells ==
  ASSUME TypeOK, [Next]_vars
  PROVE  \A p \in Results :
            \/ result'[p] = result[p] /\ asked'[p] = asked[p]
            \/ result'[p] = "pending"
            \/ ResultResponse(p) /\ result'[p] = reply[p] /\ asked' = asked
<1> USE DEF TypeOK, ServerOK, ClientOK
<1>1. ASSUME NEW q \in Requests, Accept(q)
      PROVE  \A p \in Results :
            \/ result'[p] = result[p] /\ asked'[p] = asked[p]
            \/ result'[p] = "pending"
            \/ ResultResponse(p) /\ result'[p] = reply[p] /\ asked' = asked
  BY <1>1 DEF Accept, Server!Move, Server!Follows, Publish, Array
<1>2. ASSUME NEW q \in Requests, Refuse(q)
      PROVE  \A p \in Results :
            \/ result'[p] = result[p] /\ asked'[p] = asked[p]
            \/ result'[p] = "pending"
            \/ ResultResponse(p) /\ result'[p] = reply[p] /\ asked' = asked
  BY <1>2 DEF Refuse
<1>3. ASSUME NEW q \in Requests, Advance(q)
      PROVE  \A p \in Results :
            \/ result'[p] = result[p] /\ asked'[p] = asked[p]
            \/ result'[p] = "pending"
            \/ ResultResponse(p) /\ result'[p] = reply[p] /\ asked' = asked
  BY <1>3 DEF Advance, Server!Move, Server!Follows, Publish, Array
<1>4. ASSUME NEW q \in Requests, Expire(q)
      PROVE  \A p \in Results :
            \/ result'[p] = result[p] /\ asked'[p] = asked[p]
            \/ result'[p] = "pending"
            \/ ResultResponse(p) /\ result'[p] = reply[p] /\ asked' = asked
  BY <1>4 DEF Expire
<1>5. ASSUME NEW r \in Results, TakeResultRequest(r)
      PROVE  \A p \in Results :
            \/ result'[p] = result[p] /\ asked'[p] = asked[p]
            \/ result'[p] = "pending"
            \/ ResultResponse(p) /\ result'[p] = reply[p] /\ asked' = asked
  BY <1>5 DEF TakeResultRequest, Server!Ask, Server!TellUnknown
<1>6. ASSUME NEW r \in Results, AnswerResult(r)
      PROVE  \A p \in Results :
            \/ result'[p] = result[p] /\ asked'[p] = asked[p]
            \/ result'[p] = "pending"
            \/ ResultResponse(p) /\ result'[p] = reply[p] /\ asked' = asked
  BY <1>6 DEF AnswerResult, Server!Tell
<1>7. ASSUME NEW c \in Cancels, AnswerCancel(c)
      PROVE  \A p \in Results :
            \/ result'[p] = result[p] /\ asked'[p] = asked[p]
            \/ result'[p] = "pending"
            \/ ResultResponse(p) /\ result'[p] = reply[p] /\ asked' = asked
  BY <1>7 DEF AnswerCancel, Server!Acknowledge, Server!Follows, Publish, Array
<1>8. ASSUME NEW q \in Requests, NEW u \in Uuids, SendGoal(q, u)
      PROVE  \A p \in Results :
            \/ result'[p] = result[p] /\ asked'[p] = asked[p]
            \/ result'[p] = "pending"
            \/ ResultResponse(p) /\ result'[p] = reply[p] /\ asked' = asked
  BY <1>8 DEF SendGoal
<1>9. ASSUME NEW q \in Requests, NEW r \in Results, GetResult(r, q)
      PROVE  \A p \in Results :
            \/ result'[p] = result[p] /\ asked'[p] = asked[p]
            \/ result'[p] = "pending"
            \/ ResultResponse(p) /\ result'[p] = reply[p] /\ asked' = asked
  BY <1>9 DEF GetResult, HasHandle
<1>10. ASSUME NEW q \in Requests, NEW c \in Cancels, CancelGoal(c, q)
      PROVE  \A p \in Results :
            \/ result'[p] = result[p] /\ asked'[p] = asked[p]
            \/ result'[p] = "pending"
            \/ ResultResponse(p) /\ result'[p] = reply[p] /\ asked' = asked
  BY <1>10 DEF CancelGoal, HasHandle, RemoveFromFilter, FilterBecomes
<1>11. ASSUME Destroy
      PROVE  \A p \in Results :
            \/ result'[p] = result[p] /\ asked'[p] = asked[p]
            \/ result'[p] = "pending"
            \/ ResultResponse(p) /\ result'[p] = reply[p] /\ asked' = asked
  BY <1>11 DEF Destroy, TablesEmptied
<1>12. ASSUME NEW q \in Requests, GoalAccepted(q)
      PROVE  \A p \in Results :
            \/ result'[p] = result[p] /\ asked'[p] = asked[p]
            \/ result'[p] = "pending"
            \/ ResultResponse(p) /\ result'[p] = reply[p] /\ asked' = asked
  BY <1>12 DEF GoalAccepted, FreshUuid, FirstStatus, Same, AddToFilter, FilterBecomes
<1>13. ASSUME NEW q \in Requests, GoalRejected(q)
      PROVE  \A p \in Results :
            \/ result'[p] = result[p] /\ asked'[p] = asked[p]
            \/ result'[p] = "pending"
            \/ ResultResponse(p) /\ result'[p] = reply[p] /\ asked' = asked
  BY <1>13 DEF GoalRejected, CallbackDropped, Same
<1>14. ASSUME NEW q \in Requests, GoalDone(q)
      PROVE  \A p \in Results :
            \/ result'[p] = result[p] /\ asked'[p] = asked[p]
            \/ result'[p] = "pending"
            \/ ResultResponse(p) /\ result'[p] = reply[p] /\ asked' = asked
  BY <1>14 DEF GoalDone, TableWithout
<1>15. ASSUME NEW r \in Results, ResultResponse(r)
      PROVE  \A p \in Results :
            \/ result'[p] = result[p] /\ asked'[p] = asked[p]
            \/ result'[p] = "pending"
            \/ ResultResponse(p) /\ result'[p] = reply[p] /\ asked' = asked
  BY <1>15 DEF ResultResponse, StatusTold, Later
<1>16. ASSUME NEW r \in Results, ResultDone(r)
      PROVE  \A p \in Results :
            \/ result'[p] = result[p] /\ asked'[p] = asked[p]
            \/ result'[p] = "pending"
            \/ ResultResponse(p) /\ result'[p] = reply[p] /\ asked' = asked
  BY <1>16 DEF ResultDone, TableWithout, CallbackRemoved, RemoveFromFilter, FilterBecomes, Same
<1>17. ASSUME NEW c \in Cancels, CancelResponse(c)
      PROVE  \A p \in Results :
            \/ result'[p] = result[p] /\ asked'[p] = asked[p]
            \/ result'[p] = "pending"
            \/ ResultResponse(p) /\ result'[p] = reply[p] /\ asked' = asked
  BY <1>17 DEF CancelResponse
<1>18. ASSUME NEW c \in Cancels, CancelDone(c)
      PROVE  \A p \in Results :
            \/ result'[p] = result[p] /\ asked'[p] = asked[p]
            \/ result'[p] = "pending"
            \/ ResultResponse(p) /\ result'[p] = reply[p] /\ asked' = asked
  BY <1>18 DEF CancelDone, TableWithout
<1>19. ASSUME NEW m \in statusNet, StatusMessage(m)
      PROVE  \A p \in Results :
            \/ result'[p] = result[p] /\ asked'[p] = asked[p]
            \/ result'[p] = "pending"
            \/ ResultResponse(p) /\ result'[p] = reply[p] /\ asked' = asked
  BY <1>19 DEF StatusMessage, Told, Same, Later, FilterBecomes
<1>20. CASE UNCHANGED vars
  BY <1>20 DEF vars, serverVars, clientVars
<1> HIDE DEF TypeOK, ServerOK, ClientOK
<1> QED
  BY <1>1, <1>2, <1>3, <1>4, <1>5, <1>6, <1>7, <1>8,
     <1>9, <1>10, <1>11, <1>12, <1>13, <1>14, <1>15,
     <1>16, <1>17, <1>18, <1>19, <1>20
  DEF Next, ServerStep, UserStep, MessageStep

\* Whoever has the result of a goal still sees its end in the handle.
LEMMA ResultsKept ==
  ASSUME TypeOK, GoalInv, AnswerInv, ViewInv, [Next]_vars, NEW p \in Results,
         result'[p] \in Terminal
  PROVE  status'[asked'[p]] = result'[p]
<1>1. CASE result'[p] = result[p] /\ asked'[p] = asked[p]
  <2>1. asked[p] \in Requests /\ status[asked[p]] = result[p]
    BY <1>1 DEF TypeOK, ClientOK, AnswerInv, ViewInv
  <2> QED
    BY <1>1, <2>1, StatusForward
<1>2. CASE ResultResponse(p) /\ result'[p] = reply[p] /\ asked' = asked
  <2>1. asked[p] \in Requests /\ reply[p] = phase[asked[p]]
    BY <1>2 DEF ResultResponse, TypeOK, ClientOK, ServerOK, AnswerInv, TablesAgree
  <2>2. status'[asked[p]] = Later(status[asked[p]], reply[p])
    BY <1>2, <2>1 DEF ResultResponse, StatusTold, TypeOK, ClientOK
  <2>3. status[asked[p]] \in Phases /\ Reached(status[asked[p]], asked[p])
    BY <2>1 DEF TypeOK, ClientOK, ViewInv
  <2>4. Later(status[asked[p]], reply[p]) = reply[p]
    BY <1>2, <2>1, <2>3, LaterIs DEF Reached
  <2> QED
    BY <1>2, <2>2, <2>4
<1> QED
  BY <1>1, <1>2, WhoTells

-----------------------------------------------------------------------------
(* What a feedback callback rests on.                                      *)

\* Answers, acceptances and forgotten goals keep their reasons.
LEMMA ServerInvKept ==
  ASSUME TypeOK, GoalInv, AnswerInv, ServerInv, [Next]_vars
  PROVE  ServerInv'
<1> USE DEF TypeOK, ServerOK, ClientOK, ServerInv
<1>1. ASSUME NEW q \in Requests, Accept(q)
      PROVE  ServerInv'
  BY <1>1 DEF Accept, Server!Move, Server!Follows, Publish, Array, GoalInv, AnswerInv, TablesAgree
<1>2. ASSUME NEW q \in Requests, Refuse(q)
      PROVE  ServerInv'
  BY <1>2 DEF Refuse, GoalInv, AnswerInv, TablesAgree
<1>3. ASSUME NEW q \in Requests, Advance(q)
      PROVE  ServerInv'
  BY <1>3 DEF Advance, Server!Move, Server!Follows, Publish, Array, GoalInv, AnswerInv, TablesAgree
<1>4. ASSUME NEW q \in Requests, Expire(q)
      PROVE  ServerInv'
  BY <1>4 DEF Expire, GoalInv, AnswerInv, TablesAgree
<1>5. ASSUME NEW r \in Results, TakeResultRequest(r)
      PROVE  ServerInv'
  <2>1. asked[r] \in Requests /\ phase[asked[r]] # "none"
    BY <1>5 DEF TakeResultRequest, AnswerInv
  <2>2. CASE Known(asked[r])
    BY <1>5, <2>2 DEF TakeResultRequest, Server!Ask, GoalInv, AnswerInv, TablesAgree
  <2>3. CASE ~Known(asked[r])
    <3>1. phase[asked[r]] \in Terminal
      BY <2>1, <2>3 DEF Known
    <3> QED
      BY <1>5, <2>1, <2>3, <3>1 DEF TakeResultRequest, Server!TellUnknown
  <2> QED
    BY <2>2, <2>3
<1>6. ASSUME NEW r \in Results, AnswerResult(r)
      PROVE  ServerInv'
  BY <1>6 DEF AnswerResult, Server!Tell, GoalInv, AnswerInv, TablesAgree
<1>7. ASSUME NEW c \in Cancels, AnswerCancel(c)
      PROVE  ServerInv'
  BY <1>7 DEF AnswerCancel, Server!Acknowledge, Server!Follows, Publish, Array, GoalInv, AnswerInv, TablesAgree
<1>8. ASSUME NEW q \in Requests, NEW u \in Uuids, SendGoal(q, u)
      PROVE  ServerInv'
  BY <1>8 DEF SendGoal, GoalInv, AnswerInv, TablesAgree
<1>9. ASSUME NEW q \in Requests, NEW r \in Results, GetResult(r, q)
      PROVE  ServerInv'
  <2>1. asked[r] = None /\ reply[r] = "none"
    BY <1>9 DEF GetResult, AnswerInv
  <2> QED
    BY <1>9, <2>1 DEF GetResult
<1>10. ASSUME NEW q \in Requests, NEW c \in Cancels, CancelGoal(c, q)
      PROVE  ServerInv'
  BY <1>10 DEF CancelGoal, HasHandle, RemoveFromFilter, FilterBecomes, GoalInv, AnswerInv, TablesAgree
<1>11. ASSUME Destroy
      PROVE  ServerInv'
  BY <1>11 DEF Destroy, TablesEmptied, GoalInv, AnswerInv, TablesAgree
<1>12. ASSUME NEW q \in Requests, GoalAccepted(q)
      PROVE  ServerInv'
  BY <1>12 DEF GoalAccepted, FreshUuid, FirstStatus, Same, AddToFilter, FilterBecomes, GoalInv, AnswerInv, TablesAgree
<1>13. ASSUME NEW q \in Requests, GoalRejected(q)
      PROVE  ServerInv'
  BY <1>13 DEF GoalRejected, CallbackDropped, Same, GoalInv, AnswerInv, TablesAgree
<1>14. ASSUME NEW q \in Requests, GoalDone(q)
      PROVE  ServerInv'
  BY <1>14 DEF GoalDone, TableWithout, GoalInv, AnswerInv, TablesAgree
<1>15. ASSUME NEW r \in Results, ResultResponse(r)
      PROVE  ServerInv'
  BY <1>15 DEF ResultResponse, StatusTold, Later, GoalInv, AnswerInv, TablesAgree
<1>16. ASSUME NEW r \in Results, ResultDone(r)
      PROVE  ServerInv'
  BY <1>16 DEF ResultDone, TableWithout, CallbackRemoved, RemoveFromFilter, FilterBecomes, Same, GoalInv, AnswerInv, TablesAgree
<1>17. ASSUME NEW c \in Cancels, CancelResponse(c)
      PROVE  ServerInv'
  BY <1>17 DEF CancelResponse, GoalInv, AnswerInv, TablesAgree
<1>18. ASSUME NEW c \in Cancels, CancelDone(c)
      PROVE  ServerInv'
  BY <1>18 DEF CancelDone, TableWithout, GoalInv, AnswerInv, TablesAgree
<1>19. ASSUME NEW m \in statusNet, StatusMessage(m)
      PROVE  ServerInv'
  BY <1>19 DEF StatusMessage, Told, Same, Later, FilterBecomes, GoalInv, AnswerInv, TablesAgree
<1>20. CASE UNCHANGED vars
  BY <1>20 DEF vars, serverVars, clientVars
<1> HIDE DEF TypeOK, ServerOK, ClientOK
<1> QED
  BY <1>1, <1>2, <1>3, <1>4, <1>5, <1>6, <1>7, <1>8,
     <1>9, <1>10, <1>11, <1>12, <1>13, <1>14, <1>15,
     <1>16, <1>17, <1>18, <1>19, <1>20
  DEF Next, ServerStep, UserStep, MessageStep

\* What a change of the filter that leaves it in use makes of it.
LEMMA FilterIs ==
  ASSUME NEW s, optimizing \in BOOLEAN, FilterBecomes(s), optimizing'
  PROVE  optimizing /\ filter' = s
  BY DEF FilterBecomes

\* A client that does not use the content filter has none.
LEMMA FilterEmpty ==
  ASSUME TypeOK, ~destroyed /\ ~optimizing => filter = {}, [Next]_vars
  PROVE  (~destroyed /\ ~optimizing => filter = {})'
<1> USE DEF TypeOK, ServerOK, ClientOK
<1>1. ASSUME NEW q \in Requests, Accept(q)
      PROVE  (~destroyed /\ ~optimizing => filter = {})'
  BY <1>1 DEF Accept, Server!Move, Server!Follows, Publish, Array
<1>2. ASSUME NEW q \in Requests, Refuse(q)
      PROVE  (~destroyed /\ ~optimizing => filter = {})'
  BY <1>2 DEF Refuse
<1>3. ASSUME NEW q \in Requests, Advance(q)
      PROVE  (~destroyed /\ ~optimizing => filter = {})'
  BY <1>3 DEF Advance, Server!Move, Server!Follows, Publish, Array
<1>4. ASSUME NEW q \in Requests, Expire(q)
      PROVE  (~destroyed /\ ~optimizing => filter = {})'
  BY <1>4 DEF Expire
<1>5. ASSUME NEW r \in Results, TakeResultRequest(r)
      PROVE  (~destroyed /\ ~optimizing => filter = {})'
  BY <1>5 DEF TakeResultRequest, Server!Ask, Server!TellUnknown
<1>6. ASSUME NEW r \in Results, AnswerResult(r)
      PROVE  (~destroyed /\ ~optimizing => filter = {})'
  BY <1>6 DEF AnswerResult, Server!Tell
<1>7. ASSUME NEW c \in Cancels, AnswerCancel(c)
      PROVE  (~destroyed /\ ~optimizing => filter = {})'
  BY <1>7 DEF AnswerCancel, Server!Acknowledge, Server!Follows, Publish, Array
<1>8. ASSUME NEW q \in Requests, NEW u \in Uuids, SendGoal(q, u)
      PROVE  (~destroyed /\ ~optimizing => filter = {})'
  BY <1>8 DEF SendGoal
<1>9. ASSUME NEW q \in Requests, NEW r \in Results, GetResult(r, q)
      PROVE  (~destroyed /\ ~optimizing => filter = {})'
  BY <1>9 DEF GetResult, HasHandle
<1>10. ASSUME NEW q \in Requests, NEW c \in Cancels, CancelGoal(c, q)
      PROVE  (~destroyed /\ ~optimizing => filter = {})'
  BY <1>10 DEF CancelGoal, HasHandle, RemoveFromFilter, FilterBecomes
<1>11. ASSUME Destroy
      PROVE  (~destroyed /\ ~optimizing => filter = {})'
  BY <1>11 DEF Destroy, TablesEmptied
<1>12. ASSUME NEW q \in Requests, GoalAccepted(q)
      PROVE  (~destroyed /\ ~optimizing => filter = {})'
  BY <1>12 DEF GoalAccepted, FreshUuid, FirstStatus, Same, AddToFilter, FilterBecomes
<1>13. ASSUME NEW q \in Requests, GoalRejected(q)
      PROVE  (~destroyed /\ ~optimizing => filter = {})'
  BY <1>13 DEF GoalRejected, CallbackDropped, Same
<1>14. ASSUME NEW q \in Requests, GoalDone(q)
      PROVE  (~destroyed /\ ~optimizing => filter = {})'
  BY <1>14 DEF GoalDone, TableWithout
<1>15. ASSUME NEW r \in Results, ResultResponse(r)
      PROVE  (~destroyed /\ ~optimizing => filter = {})'
  BY <1>15 DEF ResultResponse, StatusTold, Later
<1>16. ASSUME NEW r \in Results, ResultDone(r)
      PROVE  (~destroyed /\ ~optimizing => filter = {})'
  BY <1>16 DEF ResultDone, TableWithout, CallbackRemoved, RemoveFromFilter, FilterBecomes, Same
<1>17. ASSUME NEW c \in Cancels, CancelResponse(c)
      PROVE  (~destroyed /\ ~optimizing => filter = {})'
  BY <1>17 DEF CancelResponse
<1>18. ASSUME NEW c \in Cancels, CancelDone(c)
      PROVE  (~destroyed /\ ~optimizing => filter = {})'
  BY <1>18 DEF CancelDone, TableWithout
<1>19. ASSUME NEW m \in statusNet, StatusMessage(m)
      PROVE  (~destroyed /\ ~optimizing => filter = {})'
  BY <1>19 DEF StatusMessage, Told, Same, Later, FilterBecomes
<1>20. CASE UNCHANGED vars
  BY <1>20 DEF vars, serverVars, clientVars
<1> HIDE DEF TypeOK, ServerOK, ClientOK
<1> QED
  BY <1>1, <1>2, <1>3, <1>4, <1>5, <1>6, <1>7, <1>8,
     <1>9, <1>10, <1>11, <1>12, <1>13, <1>14, <1>15,
     <1>16, <1>17, <1>18, <1>19, <1>20
  DEF Next, ServerStep, UserStep, MessageStep

\* The callback of an open goal stays, whatever messages are late.
LEMMA CallbackHeard ==
  ASSUME TypeOK, GoalInv, AnswerInv, UsedOnce, UsedOnce', ~destroyed',
         ServerInv, \A p \in Requests : Heard(p), [Next]_vars
  PROVE  \A p \in Requests : Heard(p)'
<1> USE DEF TypeOK, ServerOK, ClientOK, Heard, Open
<1>1. ASSUME NEW q \in Requests, Accept(q)
      PROVE  \A p \in Requests : Heard(p)'
  BY <1>1 DEF Accept, Server!Move, Server!Follows, Publish, Array, GoalInv, AnswerInv, TablesAgree, ServerInv, UsedOnce
<1>2. ASSUME NEW q \in Requests, Refuse(q)
      PROVE  \A p \in Requests : Heard(p)'
  BY <1>2 DEF Refuse, GoalInv, AnswerInv, TablesAgree, ServerInv, UsedOnce
<1>3. ASSUME NEW q \in Requests, Advance(q)
      PROVE  \A p \in Requests : Heard(p)'
  BY <1>3 DEF Advance, Server!Move, Server!Follows, Publish, Array, GoalInv, AnswerInv, TablesAgree, ServerInv, UsedOnce
<1>4. ASSUME NEW q \in Requests, Expire(q)
      PROVE  \A p \in Requests : Heard(p)'
  BY <1>4 DEF Expire, GoalInv, AnswerInv, TablesAgree, ServerInv, UsedOnce
<1>5. ASSUME NEW r \in Results, TakeResultRequest(r)
      PROVE  \A p \in Requests : Heard(p)'
  BY <1>5 DEF TakeResultRequest, Server!Ask, Server!TellUnknown, GoalInv, AnswerInv, TablesAgree, ServerInv, UsedOnce
<1>6. ASSUME NEW r \in Results, AnswerResult(r)
      PROVE  \A p \in Requests : Heard(p)'
  BY <1>6 DEF AnswerResult, Server!Tell, GoalInv, AnswerInv, TablesAgree, ServerInv, UsedOnce
<1>7. ASSUME NEW c \in Cancels, AnswerCancel(c)
      PROVE  \A p \in Requests : Heard(p)'
  BY <1>7 DEF AnswerCancel, Server!Acknowledge, Server!Follows, Publish, Array, GoalInv, AnswerInv, TablesAgree, ServerInv, UsedOnce
<1>8. ASSUME NEW q \in Requests, NEW u \in Uuids, SendGoal(q, u)
      PROVE  \A p \in Requests : Heard(p)'
  <2> SUFFICES ASSUME NEW p \in Requests, Heard(p)
               PROVE  Heard(p)'
    OBVIOUS
  <2>1. CASE p = q
    BY <1>8, <2>1 DEF SendGoal, ServerInv
  <2>2. CASE p # q
    <3>1. /\ goalId'[p] = goalId[p] /\ goalId'[q] = u /\ promise'[p] = promise[p]
          /\ UNCHANGED phase
      BY <1>8, <2>2 DEF SendGoal
    <3>2. u # None
      OBVIOUS
    <3>3. goalId[p] # u
      BY <2>2, <3>1, <3>2 DEF UsedOnce
    <3>4. p \in listening => p \in listening'
      BY <1>8, <3>3 DEF SendGoal
    <3>5. p \in wants' => p \in wants
      BY <1>8, <2>2 DEF SendGoal
    <3> QED
      BY <3>1, <3>4, <3>5
  <2> QED
    BY <2>1, <2>2
<1>9. ASSUME NEW q \in Requests, NEW r \in Results, GetResult(r, q)
      PROVE  \A p \in Requests : Heard(p)'
  BY <1>9 DEF GetResult, HasHandle, GoalInv, AnswerInv, TablesAgree, ServerInv, UsedOnce
<1>10. ASSUME NEW q \in Requests, NEW c \in Cancels, CancelGoal(c, q)
      PROVE  \A p \in Requests : Heard(p)'
  BY <1>10 DEF CancelGoal, HasHandle, RemoveFromFilter, FilterBecomes, GoalInv, AnswerInv, TablesAgree, ServerInv, UsedOnce
<1>11. ASSUME Destroy
      PROVE  \A p \in Requests : Heard(p)'
  BY <1>11 DEF Destroy, TablesEmptied, GoalInv, AnswerInv, TablesAgree, ServerInv, UsedOnce
<1>12. ASSUME NEW q \in Requests, GoalAccepted(q)
      PROVE  \A p \in Requests : Heard(p)'
  BY <1>12 DEF GoalAccepted, FreshUuid, FirstStatus, Same, AddToFilter, FilterBecomes, GoalInv, AnswerInv, TablesAgree, ServerInv, UsedOnce
<1>13. ASSUME NEW q \in Requests, GoalRejected(q)
      PROVE  \A p \in Requests : Heard(p)'
  BY <1>13 DEF GoalRejected, CallbackDropped, Same, GoalInv, AnswerInv, TablesAgree, ServerInv, UsedOnce
<1>14. ASSUME NEW q \in Requests, GoalDone(q)
      PROVE  \A p \in Requests : Heard(p)'
  BY <1>14 DEF GoalDone, TableWithout, GoalInv, AnswerInv, TablesAgree, ServerInv, UsedOnce
<1>15. ASSUME NEW r \in Results, ResultResponse(r)
      PROVE  \A p \in Requests : Heard(p)'
  BY <1>15 DEF ResultResponse, StatusTold, Later, GoalInv, AnswerInv, TablesAgree, ServerInv, UsedOnce
<1>16. ASSUME NEW r \in Results, ResultDone(r)
      PROVE  \A p \in Requests : Heard(p)'
  BY <1>16 DEF ResultDone, TableWithout, CallbackRemoved, RemoveFromFilter, FilterBecomes, Same, GoalInv, AnswerInv, TablesAgree, ServerInv, UsedOnce
<1>17. ASSUME NEW c \in Cancels, CancelResponse(c)
      PROVE  \A p \in Requests : Heard(p)'
  BY <1>17 DEF CancelResponse, GoalInv, AnswerInv, TablesAgree, ServerInv, UsedOnce
<1>18. ASSUME NEW c \in Cancels, CancelDone(c)
      PROVE  \A p \in Requests : Heard(p)'
  BY <1>18 DEF CancelDone, TableWithout, GoalInv, AnswerInv, TablesAgree, ServerInv, UsedOnce
<1>19. ASSUME NEW m \in statusNet, StatusMessage(m)
      PROVE  \A p \in Requests : Heard(p)'
  BY <1>19 DEF StatusMessage, Told, Same, Later, FilterBecomes, GoalInv, AnswerInv, TablesAgree, ServerInv, UsedOnce
<1>20. CASE UNCHANGED vars
  BY <1>20 DEF vars, serverVars, clientVars
<1> HIDE DEF TypeOK, ServerOK, ClientOK
<1> QED
  BY <1>1, <1>2, <1>3, <1>4, <1>5, <1>6, <1>7, <1>8,
     <1>9, <1>10, <1>11, <1>12, <1>13, <1>14, <1>15,
     <1>16, <1>17, <1>18, <1>19, <1>20
  DEF Next, ServerStep, UserStep, MessageStep

\* The content filter lets the feedback of an open goal pass.
LEMMA FeedbackPasses ==
  ASSUME TypeOK, GoalInv, AnswerInv, UsedOnce, UsedOnce', ~destroyed',
         ServerInv, ViewInv, \A p \in Requests : Passes(p), [Next]_vars
  PROVE  \A p \in Requests : Passes(p)'
<1> USE DEF TypeOK, ServerOK, ClientOK, Passes, NeedsFilter
<1>1. ASSUME NEW q \in Requests, Accept(q)
      PROVE  \A p \in Requests : Passes(p)'
  BY <1>1 DEF Accept, Server!Move, Server!Follows, Publish, Array, GoalInv, AnswerInv, TablesAgree, ServerInv, UsedOnce
<1>2. ASSUME NEW q \in Requests, Refuse(q)
      PROVE  \A p \in Requests : Passes(p)'
  BY <1>2 DEF Refuse, GoalInv, AnswerInv, TablesAgree, ServerInv, UsedOnce
<1>3. ASSUME NEW q \in Requests, Advance(q)
      PROVE  \A p \in Requests : Passes(p)'
  BY <1>3 DEF Advance, Server!Move, Server!Follows, Publish, Array, GoalInv, AnswerInv, TablesAgree, ServerInv, UsedOnce
<1>4. ASSUME NEW q \in Requests, Expire(q)
      PROVE  \A p \in Requests : Passes(p)'
  BY <1>4 DEF Expire, GoalInv, AnswerInv, TablesAgree, ServerInv, UsedOnce
<1>5. ASSUME NEW r \in Results, TakeResultRequest(r)
      PROVE  \A p \in Requests : Passes(p)'
  BY <1>5 DEF TakeResultRequest, Server!Ask, Server!TellUnknown, GoalInv, AnswerInv, TablesAgree, ServerInv, UsedOnce
<1>6. ASSUME NEW r \in Results, AnswerResult(r)
      PROVE  \A p \in Requests : Passes(p)'
  BY <1>6 DEF AnswerResult, Server!Tell, GoalInv, AnswerInv, TablesAgree, ServerInv, UsedOnce
<1>7. ASSUME NEW c \in Cancels, AnswerCancel(c)
      PROVE  \A p \in Requests : Passes(p)'
  BY <1>7 DEF AnswerCancel, Server!Acknowledge, Server!Follows, Publish, Array, GoalInv, AnswerInv, TablesAgree, ServerInv, UsedOnce
<1>8. ASSUME NEW q \in Requests, NEW u \in Uuids, SendGoal(q, u)
      PROVE  \A p \in Requests : Passes(p)'
  BY <1>8 DEF SendGoal, GoalInv, AnswerInv, TablesAgree, ServerInv, UsedOnce
<1>9. ASSUME NEW q \in Requests, NEW r \in Results, GetResult(r, q)
      PROVE  \A p \in Requests : Passes(p)'
  BY <1>9 DEF GetResult, HasHandle, GoalInv, AnswerInv, TablesAgree, ServerInv, UsedOnce
<1>10. ASSUME NEW q \in Requests, NEW c \in Cancels, CancelGoal(c, q)
      PROVE  \A p \in Requests : Passes(p)'
  <2> SUFFICES ASSUME NEW p \in Requests, Passes(p), NeedsFilter(p)'
               PROVE  goalId'[p] \in filter'
    OBVIOUS
  <2>0. /\ target[c] = None /\ target'[c] = q
        /\ \A d \in Cancels : d # c => target'[d] = target[d]
    BY <1>10 DEF CancelGoal, ServerInv
  <2>1. p # q /\ NeedsFilter(p) /\ optimizing' /\ goalId' = goalId
    BY <1>10, <2>0 DEF CancelGoal, RemoveFromFilter, FilterBecomes
  <2>2. filter' = filter \ {goalId[q]}
    BY <1>10, <2>1, FilterIs DEF CancelGoal, RemoveFromFilter
  <2>3. goalId[p] # None /\ goalId[p] # goalId[q]
    BY <2>1 DEF GoalInv, UsedOnce
  <2> QED
    BY <2>1, <2>2, <2>3
<1>11. ASSUME Destroy
      PROVE  \A p \in Requests : Passes(p)'
  BY <1>11 DEF Destroy, TablesEmptied, GoalInv, AnswerInv, TablesAgree, ServerInv, UsedOnce
<1>12. ASSUME NEW q \in Requests, GoalAccepted(q)
      PROVE  \A p \in Requests : Passes(p)'
  <2> SUFFICES ASSUME NEW p \in Requests, Passes(p), NeedsFilter(p)'
               PROVE  goalId'[p] \in filter'
    OBVIOUS
  <2>1. filter' = filter \cup {goalId[q]} /\ optimizing /\ goalId' = goalId
    BY <1>12, FilterIs DEF GoalAccepted, AddToFilter
  <2>2. CASE p = q
    BY <2>1, <2>2
  <2>3. CASE p # q
    BY <1>12, <2>1, <2>3 DEF GoalAccepted
  <2> QED
    BY <2>2, <2>3
<1>13. ASSUME NEW q \in Requests, GoalRejected(q)
      PROVE  \A p \in Requests : Passes(p)'
  BY <1>13 DEF GoalRejected, CallbackDropped, Same, GoalInv, AnswerInv, TablesAgree, ServerInv, UsedOnce
<1>14. ASSUME NEW q \in Requests, GoalDone(q)
      PROVE  \A p \in Requests : Passes(p)'
  BY <1>14 DEF GoalDone, TableWithout, GoalInv, AnswerInv, TablesAgree, ServerInv, UsedOnce
<1>15. ASSUME NEW r \in Results, ResultResponse(r)
      PROVE  \A p \in Requests : Passes(p)'
  BY <1>15 DEF ResultResponse, StatusTold, Later, GoalInv, AnswerInv, TablesAgree, ServerInv, UsedOnce
<1>16. ASSUME NEW r \in Results, ResultDone(r)
      PROVE  \A p \in Requests : Passes(p)'
  <2> SUFFICES ASSUME NEW p \in Requests, Passes(p), NeedsFilter(p)'
               PROVE  goalId'[p] \in filter'
    OBVIOUS
  <2>1. filter' = filter \ {goalId[asked[r]]} /\ optimizing /\ goalId' = goalId
    BY <1>16, FilterIs DEF ResultDone, RemoveFromFilter
  <2>2. NeedsFilter(p)
    BY <1>16, <2>1 DEF ResultDone
  <2>3. asked[r] \in Requests /\ phase[asked[r]] \in Terminal
    BY <1>16 DEF ResultDone, ServerInv
  <2>4. goalId[p] # None /\ p # asked[r]
    BY <2>2, <2>3 DEF GoalInv
  <2> QED
    BY <2>1, <2>2, <2>3, <2>4 DEF UsedOnce
<1>17. ASSUME NEW c \in Cancels, CancelResponse(c)
      PROVE  \A p \in Requests : Passes(p)'
  BY <1>17 DEF CancelResponse, GoalInv, AnswerInv, TablesAgree, ServerInv, UsedOnce
<1>18. ASSUME NEW c \in Cancels, CancelDone(c)
      PROVE  \A p \in Requests : Passes(p)'
  BY <1>18 DEF CancelDone, TableWithout, GoalInv, AnswerInv, TablesAgree, ServerInv, UsedOnce
<1>19. ASSUME NEW m \in statusNet, StatusMessage(m)
      PROVE  \A p \in Requests : Passes(p)'
  <2> SUFFICES ASSUME NEW p \in Requests, Passes(p), NeedsFilter(p)'
               PROVE  goalId'[p] \in filter'
    OBVIOUS
  <2> DEFINE ended == {q \in tracked : Told(m, q) \cap Terminal # {}}
             gone == {goalId[q] : q \in ended}
  <2>1. UNCHANGED <<phase, promise, goalId, target>>
    BY <1>19 DEF StatusMessage
  <2>2. IF ended = {} THEN UNCHANGED filterVars ELSE FilterBecomes(filter \ gone)
    BY <1>19 DEF StatusMessage
  <2>3. optimizing /\ (filter' = filter \/ filter' = filter \ gone)
    <3> HIDE DEF ended, gone
    <3>1. CASE UNCHANGED filterVars
      BY <3>1
    <3>2. CASE FilterBecomes(filter \ gone)
      BY <3>2, FilterIs
    <3> QED
      BY <2>2, <3>1, <3>2
  <2>4. NeedsFilter(p)
    BY <2>1, <2>3
  <2>5. \A q \in ended : phase[q] \in Terminal
    <3> SUFFICES ASSUME NEW q \in tracked, NEW s \in Told(m, q), s \in Terminal
                 PROVE  phase[q] \in Terminal
      OBVIOUS
    <3>1. goalId[q] # None
      BY DEF GoalInv
    <3>2. s = m[q]
      BY <3>1 DEF Told, Same, UsedOnce
    <3> QED
      BY <3>2 DEF ViewInv, Reached
  <2>6. goalId[p] \notin gone
    <3>1. goalId[p] # None
      BY <2>4 DEF GoalInv
    <3> QED
      BY <2>4, <2>5, <3>1 DEF UsedOnce
  <2> QED
    BY <2>1, <2>3, <2>4, <2>6
<1>20. CASE UNCHANGED vars
  BY <1>20 DEF vars, serverVars, clientVars
<1> HIDE DEF TypeOK, ServerOK, ClientOK
<1> QED
  BY <1>1, <1>2, <1>3, <1>4, <1>5, <1>6, <1>7, <1>8,
     <1>9, <1>10, <1>11, <1>12, <1>13, <1>14, <1>15,
     <1>16, <1>17, <1>18, <1>19, <1>20
  DEF Next, ServerStep, UserStep, MessageStep

\* A destroyed client stays destroyed.
LEMMA DestroyedStays ==
  ASSUME TypeOK, [Next]_vars, destroyed
  PROVE  destroyed'
<1> USE DEF TypeOK, ServerOK, ClientOK
<1>1. ASSUME NEW q \in Requests, Accept(q)
      PROVE  destroyed'
  BY <1>1 DEF Accept, Server!Move, Server!Follows, Publish, Array
<1>2. ASSUME NEW q \in Requests, Refuse(q)
      PROVE  destroyed'
  BY <1>2 DEF Refuse
<1>3. ASSUME NEW q \in Requests, Advance(q)
      PROVE  destroyed'
  BY <1>3 DEF Advance, Server!Move, Server!Follows, Publish, Array
<1>4. ASSUME NEW q \in Requests, Expire(q)
      PROVE  destroyed'
  BY <1>4 DEF Expire
<1>5. ASSUME NEW r \in Results, TakeResultRequest(r)
      PROVE  destroyed'
  BY <1>5 DEF TakeResultRequest, Server!Ask, Server!TellUnknown
<1>6. ASSUME NEW r \in Results, AnswerResult(r)
      PROVE  destroyed'
  BY <1>6 DEF AnswerResult, Server!Tell
<1>7. ASSUME NEW c \in Cancels, AnswerCancel(c)
      PROVE  destroyed'
  BY <1>7 DEF AnswerCancel, Server!Acknowledge, Server!Follows, Publish, Array
<1>8. ASSUME NEW q \in Requests, NEW u \in Uuids, SendGoal(q, u)
      PROVE  destroyed'
  BY <1>8 DEF SendGoal
<1>9. ASSUME NEW q \in Requests, NEW r \in Results, GetResult(r, q)
      PROVE  destroyed'
  BY <1>9 DEF GetResult, HasHandle
<1>10. ASSUME NEW q \in Requests, NEW c \in Cancels, CancelGoal(c, q)
      PROVE  destroyed'
  BY <1>10 DEF CancelGoal, HasHandle, RemoveFromFilter, FilterBecomes
<1>11. ASSUME Destroy
      PROVE  destroyed'
  BY <1>11 DEF Destroy, TablesEmptied
<1>12. ASSUME NEW q \in Requests, GoalAccepted(q)
      PROVE  destroyed'
  BY <1>12 DEF GoalAccepted, FreshUuid, FirstStatus, Same, AddToFilter, FilterBecomes
<1>13. ASSUME NEW q \in Requests, GoalRejected(q)
      PROVE  destroyed'
  BY <1>13 DEF GoalRejected, CallbackDropped, Same
<1>14. ASSUME NEW q \in Requests, GoalDone(q)
      PROVE  destroyed'
  BY <1>14 DEF GoalDone, TableWithout
<1>15. ASSUME NEW r \in Results, ResultResponse(r)
      PROVE  destroyed'
  BY <1>15 DEF ResultResponse, StatusTold, Later
<1>16. ASSUME NEW r \in Results, ResultDone(r)
      PROVE  destroyed'
  BY <1>16 DEF ResultDone, TableWithout, CallbackRemoved, RemoveFromFilter, FilterBecomes, Same
<1>17. ASSUME NEW c \in Cancels, CancelResponse(c)
      PROVE  destroyed'
  BY <1>17 DEF CancelResponse
<1>18. ASSUME NEW c \in Cancels, CancelDone(c)
      PROVE  destroyed'
  BY <1>18 DEF CancelDone, TableWithout
<1>19. ASSUME NEW m \in statusNet, StatusMessage(m)
      PROVE  destroyed'
  BY <1>19 DEF StatusMessage, Told, Same, Later, FilterBecomes
<1>20. CASE UNCHANGED vars
  BY <1>20 DEF vars, serverVars, clientVars
<1> HIDE DEF TypeOK, ServerOK, ClientOK
<1> QED
  BY <1>1, <1>2, <1>3, <1>4, <1>5, <1>6, <1>7, <1>8,
     <1>9, <1>10, <1>11, <1>12, <1>13, <1>14, <1>15,
     <1>16, <1>17, <1>18, <1>19, <1>20
  DEF Next, ServerStep, UserStep, MessageStep

-----------------------------------------------------------------------------
(* The theorems.                                                           *)

\* The inductive invariant holds whatever user code, server and network do.
THEOREM Invariance == Spec => []IInv
<1>1. Init => IInv
  BY RankIs DEF Init, Server!Init, IInv, GoalInv, OneEntryPerUuid, AnswerInv, TablesAgree,
                ViewInv, Reached
<1>2. TypeOK /\ TypeOK' /\ IInv /\ [Next]_vars => IInv'
  <2> SUFFICES ASSUME TypeOK, TypeOK', IInv, [Next]_vars
               PROVE  IInv'
    OBVIOUS
  <2>1. GoalInv' /\ AnswerInv'
    BY GoalKept, AnswerKept DEF IInv
  <2>2. ASSUME UsedOnce'
        PROVE  ViewInv'
    <3>1. UsedOnce /\ GoalInv /\ AnswerInv /\ ViewInv
      BY <2>2, UsedOnceBefore DEF IInv
    <3>2. \A m \in statusNet', q \in Requests : Reached(m[q], q)'
      BY <3>1, MessagesKept DEF ViewInv, Reached
    <3>3. \A q \in Requests : Reached(status[q], q)'
      BY <3>1, StatusKept DEF Reached
    <3>4. \A r \in Results : result'[r] \in Terminal => status'[asked'[r]] = result'[r]
      BY <3>1, ResultsKept
    <3> QED
      BY <3>2, <3>3, <3>4 DEF ViewInv
  <2> QED
    BY <2>1, <2>2 DEF IInv
<1> QED
  BY <1>1, <1>2, TypeCorrect, PTL DEF Spec

\* lib/action/client.js keeps one handle and one callback for a UUID, and handles
\* only of accepted goals, also when user code uses a UUID again.
THEOREM OneEntry == Spec => []OneEntryPerUuid
<1>1. IInv => OneEntryPerUuid
  BY DEF IInv, GoalInv
<1> QED
  BY <1>1, Invariance, PTL

\* The tables of requests hold the open requests and no others.
THEOREM Tables == Spec => []TablesAgree
<1>1. IInv => TablesAgree
  BY DEF IInv, AnswerInv
<1> QED
  BY <1>1, Invariance, PTL

\* While UUIDs are used once, the status of a handle is one that the server has
\* reached, however the network orders the messages.
THEOREM HandlesTrail == Spec => []NeverAhead
<1>1. IInv => NeverAhead
  BY DEF IInv, ViewInv, Reached, NeverAhead
<1> QED
  BY <1>1, Invariance, PTL

\* While UUIDs are used once, a result and the handle it came from agree.
THEOREM ResultsAgree == Spec => []ResultAgrees
<1>1. IInv => ResultAgrees
  BY DEF IInv, ViewInv, ResultAgrees
<1> QED
  BY <1>1, Invariance, PTL

\* The status of a handle never moves back, also when user code uses a UUID again.
THEOREM StatusForwardOnly == Spec => StatusNeverGoesBack
<1>1. TypeOK /\ IInv /\ [Next]_vars => [\A q \in Requests : Rank(status'[q]) >= Rank(status[q])]_vars
  BY StatusForward DEF IInv
<1> QED
  BY <1>1, TypeCorrect, Invariance, PTL DEF Spec, StatusNeverGoesBack

\* While UUIDs are used once, the feedback of a goal that executes and whose
\* cancellation has not been requested finds its callback, and the content filter
\* of the subscription does not hold it back.
THEOREM FeedbackArrives == Spec => []HearsFeedback
<1>1. Init => HearInv
  BY DEF Init, Server!Init, HearInv, ServerInv, Heard, Open, Passes, NeedsFilter
<1>2. TypeOK /\ IInv /\ HearInv /\ [Next]_vars /\ TypeOK' => HearInv'
  <2> SUFFICES ASSUME TypeOK, IInv, HearInv, [Next]_vars
               PROVE  HearInv'
    OBVIOUS
  <2>1. GoalInv /\ AnswerInv /\ ServerInv
    BY DEF IInv, HearInv
  <2>2. ServerInv' /\ (~destroyed /\ ~optimizing => filter = {})'
    BY <2>1, ServerInvKept, FilterEmpty DEF HearInv
  <2>3. ASSUME UsedOnce', ~destroyed'
        PROVE  \A p \in Requests : Heard(p)' /\ Passes(p)'
    <3>1. UsedOnce /\ ViewInv
      BY <2>1, <2>3, UsedOnceBefore DEF IInv
    <3>2. ~destroyed
      BY <2>3, DestroyedStays
    <3>3. \A p \in Requests : Heard(p) /\ Passes(p)
      BY <3>1, <3>2 DEF HearInv
    <3> QED
      BY <2>1, <2>3, <3>1, <3>3, CallbackHeard, FeedbackPasses
  <2> QED
    BY <2>2, <2>3 DEF HearInv
<1>3. TypeOK /\ HearInv => HearsFeedback
  BY DEF TypeOK, ClientOK, HearInv, Heard, Open, Passes, NeedsFilter, HearsFeedback
<1> QED
  BY <1>1, <1>2, <1>3, TypeCorrect, Invariance, PTL DEF Spec

=============================================================================
