----------------------------- MODULE WebClientProofs -----------------------------
(***************************************************************************)
(* Theorems about the web client, WsLink and HttpLink, for any requests    *)
(* and exchanges.                                                          *)
(*                                                                         *)
(* The argument for the WebSocket link: the stages of the client, of       *)
(* close() and of the socket that go together (Stages) leave one place at  *)
(* a time from which an attempt to connect can start (OneAttempt), and a   *)
(* drop forgets all that waits before the link says that it is down        *)
(* (FlagsAgree).  What user and peer have of a subscription differs only   *)
(* by a frame that is under way (SubsTracked).  Who waits over an open     *)
(* socket waits for a frame that is under way or owed, and the frames of a *)
(* goal keep their order (OwedInv).                                        *)
(*                                                                         *)
(* For HTTP: what is under way to the client tells how the exchange ended  *)
(* at the server (Truthful), all of it is under way when the server is     *)
(* done (Complete), and only the end of a stream that was read to its      *)
(* result is not waited for (the third part of Truthful).                  *)
(***************************************************************************)
EXTENDS WebClient, FiniteSetTheorems, TLAPS

USE LinkAssumption
    DEF Requests, clientVars, linkVars, requestVars, peerVars, wireVars

-----------------------------------------------------------------------------
(* The parts of the invariant, step by step.                               *)

\* The flags stay flags.
LEMMA FlagsStep ==
  ASSUME FlagsOK, PointsOK, [Next]_vars
  PROVE  FlagsOK'
<1>1. ASSUME NEW r \in Requests, Admit(r)
      PROVE  FlagsOK'
  BY <1>1, Zenon DEF Admit, FlagsOK
<1>2. ASSUME NEW r \in Requests, Verb(r)
      PROVE  FlagsOK'
  BY <1>2, Zenon DEF Verb, LinkRequest, Request, Rejected, FlagsOK
<1>3. ASSUME NEW r \in Calls, CancelGoal(r)
      PROVE  FlagsOK'
  BY <1>3, Zenon DEF CancelGoal, LinkRequest, Request, Rejected, FlagsOK
<1>4. ASSUME NEW u \in Unsubs, NEW s \in Subs, Unsubscribe(u, s)
      PROVE  FlagsOK'
  BY <1>4, Zenon DEF Unsubscribe, LinkRequest, Request, Rejected, FlagsOK
<1>5. ASSUME Leave
      PROVE  FlagsOK'
  BY <1>5, Zenon DEF Leave, FlagsOK
<1>6. ASSUME LinkClose
      PROVE  FlagsOK'
  BY <1>6, Zenon DEF LinkClose, Finalize, FlagsOK
<1>7. ASSUME SocketOpens
      PROVE  FlagsOK'
  BY <1>7, Zenon DEF SocketOpens, FlagsOK
<1>8. ASSUME SocketFails
      PROVE  FlagsOK'
  BY <1>8, Zenon DEF SocketFails, NextAttempt, FlagsOK
<1>9. ASSUME SocketFailed
      PROVE  FlagsOK'
  BY <1>9, Zenon DEF SocketFailed, FlagsOK
<1>10. ASSUME SocketAborts
      PROVE  FlagsOK'
  BY <1>10, Zenon DEF SocketAborts, NextAttempt, Finalize, FlagsOK
<1>11. ASSUME Lose
      PROVE  FlagsOK'
  BY <1>11, Zenon DEF Lose, ConnectionGone, FlagsOK
<1>12. ASSUME SocketCloses
      PROVE  FlagsOK'
  BY <1>12, Zenon DEF SocketCloses, FailAll, Finalize, ConnectionGone, FlagsOK
<1>13. ASSUME TimerFires
      PROVE  FlagsOK'
  BY <1>13, Zenon DEF TimerFires, FlagsOK
<1>14. ASSUME Receive
      PROVE  FlagsOK'
  BY <1>14, Zenon DEF Receive, Resolved, Refused, ResultComes, FlagsOK
<1>15. ASSUME Serve
      PROVE  FlagsOK'
  BY <1>15, Zenon DEF Serve, Tell, FlagsOK
<1>16. ASSUME NEW r \in Calls \cup Goals, NEW word \in {"ok", "no"}, Answer(r, word)
      PROVE  FlagsOK'
  BY <1>16, Zenon DEF Answer, Tell, FlagsOK
<1>17. ASSUME NEW g \in Goals, GoalEnds(g)
      PROVE  FlagsOK'
  BY <1>17, Zenon DEF GoalEnds, Tell, FlagsOK
<1>18. CASE UNCHANGED vars
  BY <1>18, Zenon DEF vars, FlagsOK
<1> QED
  BY <1>1, <1>2, <1>3, <1>4, <1>5, <1>6, <1>7, <1>8, <1>9,
     <1>10, <1>11, <1>12, <1>13, <1>14, <1>15, <1>16, <1>17, <1>18
  DEF Next, User, Socket, Peer, Requests

\* The control points keep their ranges.
LEMMA PointsStep ==
  ASSUME PointsOK, [Next]_vars
  PROVE  PointsOK'
<1>1. ASSUME NEW r \in Requests, Admit(r)
      PROVE  PointsOK'
  BY <1>1 DEF Admit, PointsOK
<1>2. ASSUME NEW r \in Requests, Verb(r)
      PROVE  PointsOK'
  BY <1>2 DEF Verb, LinkRequest, Request, Rejected, PointsOK
<1>3. ASSUME NEW r \in Calls, CancelGoal(r)
      PROVE  PointsOK'
  BY <1>3 DEF CancelGoal, LinkRequest, Request, Rejected, PointsOK
<1>4. ASSUME NEW u \in Unsubs, NEW s \in Subs, Unsubscribe(u, s)
      PROVE  PointsOK'
  BY <1>4 DEF Unsubscribe, LinkRequest, Request, Rejected, PointsOK
<1>5. ASSUME Leave
      PROVE  PointsOK'
  BY <1>5 DEF Leave, PointsOK
<1>6. ASSUME LinkClose
      PROVE  PointsOK'
  BY <1>6 DEF LinkClose, Finalize, PointsOK
<1>7. ASSUME SocketOpens
      PROVE  PointsOK'
  BY <1>7 DEF SocketOpens, PointsOK
<1>8. ASSUME SocketFails
      PROVE  PointsOK'
  BY <1>8 DEF SocketFails, NextAttempt, PointsOK
<1>9. ASSUME SocketFailed
      PROVE  PointsOK'
  BY <1>9 DEF SocketFailed, PointsOK
<1>10. ASSUME SocketAborts
      PROVE  PointsOK'
  BY <1>10 DEF SocketAborts, NextAttempt, Finalize, PointsOK
<1>11. ASSUME Lose
      PROVE  PointsOK'
  BY <1>11 DEF Lose, ConnectionGone, PointsOK
<1>12. ASSUME SocketCloses
      PROVE  PointsOK'
  BY <1>12 DEF SocketCloses, FailAll, Finalize, ConnectionGone, PointsOK
<1>13. ASSUME TimerFires
      PROVE  PointsOK'
  BY <1>13 DEF TimerFires, PointsOK
<1>14. ASSUME Receive
      PROVE  PointsOK'
  BY <1>14 DEF Receive, Resolved, Refused, ResultComes, PointsOK
<1>15. ASSUME Serve
      PROVE  PointsOK'
  BY <1>15 DEF Serve, Tell, PointsOK
<1>16. ASSUME NEW r \in Calls \cup Goals, NEW word \in {"ok", "no"}, Answer(r, word)
      PROVE  PointsOK'
  BY <1>16 DEF Answer, Tell, PointsOK
<1>17. ASSUME NEW g \in Goals, GoalEnds(g)
      PROVE  PointsOK'
  BY <1>17 DEF GoalEnds, Tell, PointsOK
<1>18. CASE UNCHANGED vars
  BY <1>18 DEF vars, PointsOK
<1> QED
  BY <1>1, <1>2, <1>3, <1>4, <1>5, <1>6, <1>7, <1>8, <1>9,
     <1>10, <1>11, <1>12, <1>13, <1>14, <1>15, <1>16, <1>17, <1>18
  DEF Next, User, Socket, Peer, Requests

\* _pending holds just the requests whose promise is open.
LEMMA RequestsStep ==
  ASSUME PointsOK, RequestsOK, WireOK, [Next]_vars
  PROVE  RequestsOK'
<1>1. ASSUME NEW r \in Requests, Admit(r)
      PROVE  RequestsOK'
  BY <1>1 DEF Admit, RequestsOK
<1>2. ASSUME NEW r \in Requests, Verb(r)
      PROVE  RequestsOK'
  BY <1>2 DEF Verb, LinkRequest, Request, Rejected, RequestsOK
<1>3. ASSUME NEW r \in Calls, CancelGoal(r)
      PROVE  RequestsOK'
  BY <1>3 DEF CancelGoal, LinkRequest, Request, Rejected, RequestsOK
<1>4. ASSUME NEW u \in Unsubs, NEW s \in Subs, Unsubscribe(u, s)
      PROVE  RequestsOK'
  BY <1>4 DEF Unsubscribe, LinkRequest, Request, Rejected, RequestsOK
<1>5. ASSUME Leave
      PROVE  RequestsOK'
  BY <1>5 DEF Leave, RequestsOK
<1>6. ASSUME LinkClose
      PROVE  RequestsOK'
  BY <1>6 DEF LinkClose, Finalize, RequestsOK
<1>7. ASSUME SocketOpens
      PROVE  RequestsOK'
  BY <1>7 DEF SocketOpens, RequestsOK
<1>8. ASSUME SocketFails
      PROVE  RequestsOK'
  BY <1>8 DEF SocketFails, NextAttempt, RequestsOK
<1>9. ASSUME SocketFailed
      PROVE  RequestsOK'
  BY <1>9 DEF SocketFailed, RequestsOK
<1>10. ASSUME SocketAborts
      PROVE  RequestsOK'
  BY <1>10 DEF SocketAborts, NextAttempt, Finalize, RequestsOK
<1>11. ASSUME Lose
      PROVE  RequestsOK'
  BY <1>11 DEF Lose, ConnectionGone, RequestsOK
<1>12. ASSUME SocketCloses
      PROVE  RequestsOK'
  BY <1>12 DEF SocketCloses, FailAll, Finalize, ConnectionGone, RequestsOK
<1>13. ASSUME TimerFires
      PROVE  RequestsOK'
  BY <1>13 DEF TimerFires, RequestsOK
<1>14. ASSUME Receive
      PROVE  RequestsOK'
  BY <1>14 DEF Receive, Resolved, Refused, ResultComes, RequestsOK
<1>15. ASSUME Serve
      PROVE  RequestsOK'
  BY <1>15 DEF Serve, Tell, RequestsOK
<1>16. ASSUME NEW r \in Calls \cup Goals, NEW word \in {"ok", "no"}, Answer(r, word)
      PROVE  RequestsOK'
  BY <1>16 DEF Answer, Tell, RequestsOK
<1>17. ASSUME NEW g \in Goals, GoalEnds(g)
      PROVE  RequestsOK'
  BY <1>17 DEF GoalEnds, Tell, RequestsOK
<1>18. CASE UNCHANGED vars
  BY <1>18 DEF vars, RequestsOK
<1> QED
  BY <1>1, <1>2, <1>3, <1>4, <1>5, <1>6, <1>7, <1>8, <1>9,
     <1>10, <1>11, <1>12, <1>13, <1>14, <1>15, <1>16, <1>17, <1>18
  DEF Next, User, Socket, Peer, Requests

\* Frames under way are about requests.
LEMMA WireStep ==
  ASSUME FlagsOK, PointsOK, RequestsOK, WireOK, [Next]_vars
  PROVE  WireOK'
<1>1. ASSUME NEW r \in Requests, Admit(r)
      PROVE  WireOK'
  BY <1>1 DEF Admit, WireOK
<1>2. ASSUME NEW r \in Requests, Verb(r)
      PROVE  WireOK'
  BY <1>2 DEF Verb, LinkRequest, Request, Rejected, WireOK, Send
<1>3. ASSUME NEW r \in Calls, CancelGoal(r)
      PROVE  WireOK'
  BY <1>3 DEF CancelGoal, LinkRequest, Request, Rejected, WireOK, Send
<1>4. ASSUME NEW u \in Unsubs, NEW s \in Subs, Unsubscribe(u, s)
      PROVE  WireOK'
  BY <1>4 DEF Unsubscribe, LinkRequest, Request, Rejected, WireOK, Send
<1>5. ASSUME Leave
      PROVE  WireOK'
  BY <1>5 DEF Leave, WireOK
<1>6. ASSUME LinkClose
      PROVE  WireOK'
  BY <1>6 DEF LinkClose, Finalize, WireOK
<1>7. ASSUME SocketOpens
      PROVE  WireOK'
  <2>1. IsFiniteSet(subs) /\ Cardinality(subs) \in Nat
    BY FS_Subset, FS_CardinalityType DEF RequestsOK
  <2>2. Replays \subseteq Seq(Requests)
    BY <2>1 DEF Replays, RequestsOK
  <2> QED
    BY <1>7, <2>2 DEF SocketOpens, WireOK
<1>8. ASSUME SocketFails
      PROVE  WireOK'
  BY <1>8 DEF SocketFails, NextAttempt, WireOK
<1>9. ASSUME SocketFailed
      PROVE  WireOK'
  BY <1>9 DEF SocketFailed, WireOK
<1>10. ASSUME SocketAborts
      PROVE  WireOK'
  BY <1>10 DEF SocketAborts, NextAttempt, Finalize, WireOK
<1>11. ASSUME Lose
      PROVE  WireOK'
  BY <1>11 DEF Lose, ConnectionGone, WireOK
<1>12. ASSUME SocketCloses
      PROVE  WireOK'
  BY <1>12 DEF SocketCloses, FailAll, Finalize, ConnectionGone, WireOK
<1>13. ASSUME TimerFires
      PROVE  WireOK'
  BY <1>13 DEF TimerFires, WireOK
<1>14. ASSUME Receive
      PROVE  WireOK'
  BY <1>14 DEF Receive, Resolved, Refused, ResultComes, WireOK
<1>15. ASSUME Serve
      PROVE  WireOK'
  <2>1. Head(up) \in Requests /\ Tail(up) \in Seq(Requests)
    BY <1>15 DEF Serve, WireOK
  <2>2. up' \in Seq(Requests)
    BY <1>15, <2>1 DEF Serve
  <2>3. ASSUME NEW word \in {"ok", "no"}, Tell(word, Head(up))
        PROVE  down' \in Seq({"ok", "no", "result"} \X Requests)
    BY <2>1, <2>3 DEF Tell, WireOK
  <2>4. down' \in Seq({"ok", "no", "result"} \X Requests)
    <3>1. CASE UNCHANGED down
      BY <3>1 DEF WireOK
    <3>2. CASE ~UNCHANGED down
      <4>1. \E word \in {"ok", "no"} : Tell(word, Head(up))
        BY <1>15, <3>2 DEF Serve
      <4> QED
        BY <4>1, <2>3
    <3> QED
      BY <3>1, <3>2
  <2>5. /\ serving' \subseteq Calls \cup Goals /\ exposed' \subseteq Subs
        /\ served' \subseteq exposed' /\ running' \subseteq Goals
    BY <1>15 DEF Serve, WireOK
  <2> QED
    BY <2>2, <2>4, <2>5 DEF WireOK
<1>16. ASSUME NEW r \in Calls \cup Goals, NEW word \in {"ok", "no"}, Answer(r, word)
      PROVE  WireOK'
  BY <1>16 DEF Answer, Tell, WireOK
<1>17. ASSUME NEW g \in Goals, GoalEnds(g)
      PROVE  WireOK'
  BY <1>17 DEF GoalEnds, Tell, WireOK
<1>18. CASE UNCHANGED vars
  BY <1>18 DEF vars, WireOK
<1> QED
  BY <1>1, <1>2, <1>3, <1>4, <1>5, <1>6, <1>7, <1>8, <1>9,
     <1>10, <1>11, <1>12, <1>13, <1>14, <1>15, <1>16, <1>17, <1>18
  DEF Next, User, Socket, Peer, Requests

\* The stages stay in step.
LEMMA StagesStep ==
  ASSUME FlagsOK, PointsOK, RequestsOK, Stages, OneAttempt, FlagsAgree, [Next]_vars
  PROVE  Stages'
<1>1. ASSUME NEW r \in Requests, Admit(r)
      PROVE  Stages'
  BY <1>1 DEF Admit, Stages, PointsOK, RequestsOK
<1>2. ASSUME NEW r \in Requests, Verb(r)
      PROVE  Stages'
  BY <1>2 DEF Verb, LinkRequest, Request, Rejected, Stages, RequestsOK
<1>3. ASSUME NEW r \in Calls, CancelGoal(r)
      PROVE  Stages'
  BY <1>3 DEF CancelGoal, LinkRequest, Request, Rejected, Stages, RequestsOK
<1>4. ASSUME NEW u \in Unsubs, NEW s \in Subs, Unsubscribe(u, s)
      PROVE  Stages'
  BY <1>4 DEF Unsubscribe, LinkRequest, Request, Rejected, Stages, RequestsOK
<1>5. ASSUME Leave
      PROVE  Stages'
  BY <1>5 DEF Leave, Stages
<1>6. ASSUME LinkClose
      PROVE  Stages'
  BY <1>6 DEF LinkClose, Finalize, Stages, NoCloseToCome, PointsOK, OneAttempt,
     FlagsAgree, RequestsOK
<1>7. ASSUME SocketOpens
      PROVE  Stages'
  BY <1>7 DEF SocketOpens, Stages
<1>8. ASSUME SocketFails
      PROVE  Stages'
  BY <1>8 DEF SocketFails, NextAttempt, Stages
<1>9. ASSUME SocketFailed
      PROVE  Stages'
  BY <1>9 DEF SocketFailed, Stages
<1>10. ASSUME SocketAborts
      PROVE  Stages'
  BY <1>10 DEF SocketAborts, NextAttempt, Finalize, Stages
<1>11. ASSUME Lose
      PROVE  Stages'
  BY <1>11 DEF Lose, ConnectionGone, Stages
<1>12. ASSUME SocketCloses
      PROVE  Stages'
  BY <1>12 DEF SocketCloses, FailAll, Finalize, ConnectionGone, Stages
<1>13. ASSUME TimerFires
      PROVE  Stages'
  BY <1>13 DEF TimerFires, Stages, OneAttempt, FlagsAgree
<1>14. ASSUME Receive
      PROVE  Stages'
  BY <1>14 DEF Receive, Resolved, Refused, ResultComes, Stages, RequestsOK
<1>15. ASSUME Serve
      PROVE  Stages'
  BY <1>15 DEF Serve, Tell, Stages
<1>16. ASSUME NEW r \in Calls \cup Goals, NEW word \in {"ok", "no"}, Answer(r, word)
      PROVE  Stages'
  BY <1>16 DEF Answer, Tell, Stages
<1>17. ASSUME NEW g \in Goals, GoalEnds(g)
      PROVE  Stages'
  BY <1>17 DEF GoalEnds, Tell, Stages
<1>18. CASE UNCHANGED vars
  BY <1>18 DEF vars, Stages
<1> QED
  BY <1>1, <1>2, <1>3, <1>4, <1>5, <1>6, <1>7, <1>8, <1>9,
     <1>10, <1>11, <1>12, <1>13, <1>14, <1>15, <1>16, <1>17, <1>18
  DEF Next, User, Socket, Peer, Requests

\* No step starts a second attempt, or one after close().
LEMMA AttemptStep ==
  ASSUME FlagsOK, PointsOK, Stages, OneAttempt, FlagsAgree, [Next]_vars
  PROVE  OneAttempt'
<1>1. ASSUME NEW r \in Requests, Admit(r)
      PROVE  OneAttempt'
  BY <1>1 DEF Admit, OneAttempt, Stages
<1>2. ASSUME NEW r \in Requests, Verb(r)
      PROVE  OneAttempt'
  BY <1>2 DEF Verb, LinkRequest, Request, Rejected, OneAttempt
<1>3. ASSUME NEW r \in Calls, CancelGoal(r)
      PROVE  OneAttempt'
  BY <1>3 DEF CancelGoal, LinkRequest, Request, Rejected, OneAttempt
<1>4. ASSUME NEW u \in Unsubs, NEW s \in Subs, Unsubscribe(u, s)
      PROVE  OneAttempt'
  BY <1>4 DEF Unsubscribe, LinkRequest, Request, Rejected, OneAttempt
<1>5. ASSUME Leave
      PROVE  OneAttempt'
  BY <1>5 DEF Leave, OneAttempt
<1>6. ASSUME LinkClose
      PROVE  OneAttempt'
  BY <1>6 DEF LinkClose, Finalize, OneAttempt, NoCloseToCome, Stages, PointsOK,
     FlagsOK
<1>7. ASSUME SocketOpens
      PROVE  OneAttempt'
  BY <1>7 DEF SocketOpens, OneAttempt
<1>8. ASSUME SocketFails
      PROVE  OneAttempt'
  BY <1>8 DEF SocketFails, NextAttempt, OneAttempt, Stages, PointsOK, FlagsOK
<1>9. ASSUME SocketFailed
      PROVE  OneAttempt'
  BY <1>9 DEF SocketFailed, OneAttempt
<1>10. ASSUME SocketAborts
      PROVE  OneAttempt'
  BY <1>10 DEF SocketAborts, NextAttempt, Finalize, OneAttempt, Stages, FlagsOK
<1>11. ASSUME Lose
      PROVE  OneAttempt'
  BY <1>11 DEF Lose, ConnectionGone, OneAttempt
<1>12. ASSUME SocketCloses
      PROVE  OneAttempt'
  BY <1>12 DEF SocketCloses, FailAll, Finalize, ConnectionGone, OneAttempt
<1>13. ASSUME TimerFires
      PROVE  OneAttempt'
  BY <1>13 DEF TimerFires, OneAttempt
<1>14. ASSUME Receive
      PROVE  OneAttempt'
  BY <1>14 DEF Receive, Resolved, Refused, ResultComes, OneAttempt
<1>15. ASSUME Serve
      PROVE  OneAttempt'
  BY <1>15 DEF Serve, Tell, OneAttempt
<1>16. ASSUME NEW r \in Calls \cup Goals, NEW word \in {"ok", "no"}, Answer(r, word)
      PROVE  OneAttempt'
  BY <1>16 DEF Answer, Tell, OneAttempt
<1>17. ASSUME NEW g \in Goals, GoalEnds(g)
      PROVE  OneAttempt'
  BY <1>17 DEF GoalEnds, Tell, OneAttempt
<1>18. CASE UNCHANGED vars
  BY <1>18 DEF vars, OneAttempt
<1> QED
  BY <1>1, <1>2, <1>3, <1>4, <1>5, <1>6, <1>7, <1>8, <1>9,
     <1>10, <1>11, <1>12, <1>13, <1>14, <1>15, <1>16, <1>17, <1>18
  DEF Next, User, Socket, Peer, Requests

\* No step lets anyone wait for a link that is down.
LEMMA FlagsAgreeStep ==
  ASSUME FlagsOK, PointsOK, RequestsOK, Stages, OneAttempt, FlagsAgree, [Next]_vars
  PROVE  FlagsAgree'
<1>1. ASSUME NEW r \in Requests, Admit(r)
      PROVE  FlagsAgree'
  BY <1>1 DEF Admit, FlagsAgree
<1>2. ASSUME NEW r \in Requests, Verb(r)
      PROVE  FlagsAgree'
  BY <1>2 DEF Verb, LinkRequest, Request, Rejected, FlagsAgree, Down
<1>3. ASSUME NEW r \in Calls, CancelGoal(r)
      PROVE  FlagsAgree'
  BY <1>3 DEF CancelGoal, LinkRequest, Request, Rejected, FlagsAgree, Down
<1>4. ASSUME NEW u \in Unsubs, NEW s \in Subs, Unsubscribe(u, s)
      PROVE  FlagsAgree'
  BY <1>4 DEF Unsubscribe, LinkRequest, Request, Rejected, FlagsAgree, Down
<1>5. ASSUME Leave
      PROVE  FlagsAgree'
  BY <1>5 DEF Leave, FlagsAgree
<1>6. ASSUME LinkClose
      PROVE  FlagsAgree'
  BY <1>6 DEF LinkClose, Finalize, FlagsAgree, NoCloseToCome, Stages, PointsOK
<1>7. ASSUME SocketOpens
      PROVE  FlagsAgree'
  BY <1>7 DEF SocketOpens, FlagsAgree
<1>8. ASSUME SocketFails
      PROVE  FlagsAgree'
  BY <1>8 DEF SocketFails, NextAttempt, FlagsAgree
<1>9. ASSUME SocketFailed
      PROVE  FlagsAgree'
  BY <1>9 DEF SocketFailed, FlagsAgree
<1>10. ASSUME SocketAborts
      PROVE  FlagsAgree'
  BY <1>10 DEF SocketAborts, NextAttempt, Finalize, FlagsAgree, Stages
<1>11. ASSUME Lose
      PROVE  FlagsAgree'
  BY <1>11 DEF Lose, ConnectionGone, FlagsAgree
<1>12. ASSUME SocketCloses
      PROVE  FlagsAgree'
  BY <1>12 DEF SocketCloses, FailAll, Finalize, ConnectionGone, FlagsAgree,
     Stages, PointsOK
<1>13. ASSUME TimerFires
      PROVE  FlagsAgree'
  BY <1>13 DEF TimerFires, FlagsAgree, OneAttempt
<1>14. ASSUME Receive
      PROVE  FlagsAgree'
  BY <1>14 DEF Receive, Resolved, Refused, ResultComes, FlagsAgree, Stages
<1>15. ASSUME Serve
      PROVE  FlagsAgree'
  BY <1>15 DEF Serve, Tell, FlagsAgree
<1>16. ASSUME NEW r \in Calls \cup Goals, NEW word \in {"ok", "no"}, Answer(r, word)
      PROVE  FlagsAgree'
  BY <1>16 DEF Answer, Tell, FlagsAgree
<1>17. ASSUME NEW g \in Goals, GoalEnds(g)
      PROVE  FlagsAgree'
  BY <1>17 DEF GoalEnds, Tell, FlagsAgree
<1>18. CASE UNCHANGED vars
  BY <1>18 DEF vars, FlagsAgree
<1> QED
  BY <1>1, <1>2, <1>3, <1>4, <1>5, <1>6, <1>7, <1>8, <1>9,
     <1>10, <1>11, <1>12, <1>13, <1>14, <1>15, <1>16, <1>17, <1>18
  DEF Next, User, Socket, Peer, Requests

-----------------------------------------------------------------------------
(* Frames under way.                                                       *)

\* A frame more, at the end of those from the client or of those from the peer.
LEMMA UpAppended ==
  ASSUME WireOK, NEW r \in Requests, up' = Append(up, r)
  PROVE  /\ Len(up) \in Nat /\ Len(up') = Len(up) + 1 /\ up'[Len(up) + 1] = r
         /\ \A i \in 1 .. Len(up) : up'[i] = up[i]
         /\ \A x : InUp(x)' <=> InUp(x) \/ x = r
<1>1. /\ Len(up) \in Nat /\ Len(up') = Len(up) + 1 /\ up'[Len(up) + 1] = r
      /\ \A i \in 1 .. Len(up) : up'[i] = up[i]
  BY DEF WireOK
<1> QED
  BY <1>1 DEF InUp

LEMMA DownAppended ==
  ASSUME WireOK, NEW word \in {"ok", "no", "result"}, NEW r \in Requests,
         down' = Append(down, <<word, r>>)
  PROVE  /\ Len(down) \in Nat /\ Len(down') = Len(down) + 1
         /\ down'[Len(down) + 1] = <<word, r>>
         /\ \A i \in 1 .. Len(down) : down'[i] = down[i]
         /\ \A w, x : InDown(w, x)' <=> InDown(w, x) \/ (w = word /\ x = r)
<1>1. /\ Len(down) \in Nat /\ Len(down') = Len(down) + 1
      /\ down'[Len(down) + 1] = <<word, r>>
      /\ \A i \in 1 .. Len(down) : down'[i] = down[i]
  BY DEF WireOK
<1> QED
  BY <1>1 DEF InDown

\* And one less, at the front.
LEMMA UpTaken ==
  ASSUME WireOK, up # <<>>, up' = Tail(up)
  PROVE  /\ Head(up) \in Requests /\ Head(up) = up[1]
         /\ Len(up) \in Nat /\ Len(up') = Len(up) - 1
         /\ \A i \in 1 .. Len(up') : up'[i] = up[i + 1]
         /\ \A x : InUp(x) <=> x = Head(up) \/ InUp(x)'
<1>1. /\ Head(up) \in Requests /\ Head(up) = up[1]
      /\ Len(up) \in Nat \ {0} /\ Len(up') = Len(up) - 1
      /\ \A i \in 1 .. Len(up') : up'[i] = up[i + 1]
  BY DEF WireOK
<1>2. \A i \in 1 .. Len(up) : i = 1 \/ i - 1 \in 1 .. Len(up')
  BY <1>1
<1>3. \A i \in 1 .. Len(up') : i + 1 \in 1 .. Len(up)
  BY <1>1
<1>4. ASSUME NEW x, InUp(x)
      PROVE  x = Head(up) \/ InUp(x)'
  <2>1. PICK i \in 1 .. Len(up) : up[i] = x
    BY <1>4 DEF InUp
  <2>2. CASE i = 1
    BY <2>1, <2>2, <1>1
  <2>3. CASE i # 1
    BY <2>1, <2>3, <1>1, <1>2 DEF InUp
  <2> QED
    BY <2>2, <2>3
<1>5. ASSUME NEW x, InUp(x)'
      PROVE  InUp(x)
  BY <1>5, <1>1, <1>3 DEF InUp
<1> QED
  BY <1>1, <1>4, <1>5 DEF InUp

LEMMA DownTaken ==
  ASSUME WireOK, down # <<>>, down' = Tail(down)
  PROVE  /\ Head(down) = <<Head(down)[1], Head(down)[2]>>
         /\ Head(down)[1] \in {"ok", "no", "result"} /\ Head(down)[2] \in Requests
         /\ Head(down) = down[1] /\ Len(down) \in Nat \ {0} /\ Len(down') = Len(down) - 1
         /\ \A i \in 1 .. Len(down') : down'[i] = down[i + 1]
         /\ \A w, x : InDown(w, x) <=> <<w, x>> = Head(down) \/ InDown(w, x)'
<1>1. /\ Head(down) \in {"ok", "no", "result"} \X Requests /\ Head(down) = down[1]
      /\ Len(down) \in Nat \ {0} /\ Len(down') = Len(down) - 1
      /\ \A i \in 1 .. Len(down') : down'[i] = down[i + 1]
  BY DEF WireOK
<1>2. \A i \in 1 .. Len(down) : i = 1 \/ i - 1 \in 1 .. Len(down')
  BY <1>1
<1>3. \A i \in 1 .. Len(down') : i + 1 \in 1 .. Len(down)
  BY <1>1
<1>4. ASSUME NEW w, NEW x, InDown(w, x)
      PROVE  <<w, x>> = Head(down) \/ InDown(w, x)'
  <2>1. PICK i \in 1 .. Len(down) : down[i] = <<w, x>>
    BY <1>4 DEF InDown
  <2>2. CASE i = 1
    BY <2>1, <2>2, <1>1
  <2>3. CASE i # 1
    <3>1. i - 1 \in 1 .. Len(down') /\ down'[i - 1] = down[i]
      BY <2>3, <1>1, <1>2
    <3> QED
      BY <2>1, <3>1 DEF InDown
  <2> QED
    BY <2>2, <2>3
<1>5. ASSUME NEW w, NEW x, InDown(w, x)'
      PROVE  InDown(w, x)
  BY <1>5, <1>1, <1>3 DEF InDown
<1> QED
  BY <1>1, <1>4, <1>5 DEF InDown

\* A replay holds every subscription and nothing else.
LEMMA ReplaysAre ==
  ASSUME RequestsOK, NEW q \in Replays
  PROVE  /\ Len(q) \in Nat
         /\ \A i \in 1 .. Len(q) : q[i] \in subs
         /\ \A s \in subs : \E i \in 1 .. Len(q) : q[i] = s
<1>1. IsFiniteSet(subs) /\ Cardinality(subs) \in Nat
  BY FS_Subset, FS_CardinalityType DEF RequestsOK
<1>2. q \in [1 .. Cardinality(subs) -> subs]
  BY DEF Replays
<1>3. Len(q) = Cardinality(subs) /\ DOMAIN q = 1 .. Len(q)
  BY <1>1, <1>2
<1> QED
  BY <1>1, <1>2, <1>3 DEF Replays

\* What the peer exposes, and what was closed, is known in _subs over all connections.
LEMMA KnownStep ==
  ASSUME FlagsOK, PointsOK, RequestsOK, WireOK, Stages, OneAttempt, SubsKnown, [Next]_vars
  PROVE  SubsKnown'
<1>1. ASSUME NEW r \in Requests, Admit(r)
      PROVE  SubsKnown'
  BY <1>1 DEF Admit, RequestsOK, Stages,
     SubsKnown, InUp, InDown
<1>2. ASSUME NEW r \in Requests, Verb(r)
      PROVE  SubsKnown'
  BY <1>2 DEF Verb, LinkRequest, Request, Rejected, Send, RequestsOK, Stages,
     SubsKnown, InUp, InDown
<1>3. ASSUME NEW r \in Calls, CancelGoal(r)
      PROVE  SubsKnown'
  BY <1>3 DEF CancelGoal, LinkRequest, Request, Rejected, Send, RequestsOK, Stages,
     SubsKnown, InUp, InDown
<1>4. ASSUME NEW u \in Unsubs, NEW s \in Subs, Unsubscribe(u, s)
      PROVE  SubsKnown'
  BY <1>4 DEF Unsubscribe, LinkRequest, Request, Rejected, Send, RequestsOK, Stages,
     SubsKnown, InUp, InDown
<1>5. ASSUME Leave
      PROVE  SubsKnown'
  BY <1>5 DEF Leave, RequestsOK, Stages,
     SubsKnown, InUp, InDown
<1>6. ASSUME LinkClose
      PROVE  SubsKnown'
  BY <1>6 DEF LinkClose, Finalize, RequestsOK, Stages,
     SubsKnown, InUp, InDown
<1>7. ASSUME SocketOpens
      PROVE  SubsKnown'
  <2>1. /\ Len(up') \in Nat
        /\ \A i \in 1 .. Len(up') : up'[i] \in subs
    BY <1>7, ReplaysAre DEF SocketOpens
  <2>2. \A u \in Unsubs : ~InUp(u)'
    BY <2>1 DEF InUp, RequestsOK
  <2> QED
    BY <1>7, <2>2 DEF SocketOpens, SubsKnown, InDown
<1>8. ASSUME SocketFails
      PROVE  SubsKnown'
  BY <1>8 DEF SocketFails, NextAttempt, RequestsOK, Stages,
     SubsKnown, InUp, InDown
<1>9. ASSUME SocketFailed
      PROVE  SubsKnown'
  BY <1>9 DEF SocketFailed, RequestsOK, Stages,
     SubsKnown, InUp, InDown
<1>10. ASSUME SocketAborts
      PROVE  SubsKnown'
  BY <1>10 DEF SocketAborts, NextAttempt, Finalize, RequestsOK, Stages,
     SubsKnown, InUp, InDown
<1>11. ASSUME Lose
      PROVE  SubsKnown'
  BY <1>11 DEF Lose, ConnectionGone, RequestsOK, Stages,
     SubsKnown, InUp, InDown
<1>12. ASSUME SocketCloses
      PROVE  SubsKnown'
  BY <1>12 DEF SocketCloses, FailAll, Finalize, ConnectionGone, RequestsOK, Stages,
     SubsKnown, InUp, InDown
<1>13. ASSUME TimerFires
      PROVE  SubsKnown'
  BY <1>13 DEF TimerFires, SubsKnown, InUp, InDown, OneAttempt
<1>14. ASSUME Receive
      PROVE  SubsKnown'
  <2> DEFINE word == Head(down)[1]
             r == Head(down)[2]
  <2>1. /\ r \in Requests /\ InDown(word, r)
        /\ \A w, x : InDown(w, x)' => InDown(w, x)
    BY <1>14, DownTaken DEF Receive
  <2>2. /\ \A u \in Unsubs : InUp(u)' => InUp(u)
        /\ socket' = socket /\ about' = about /\ exposed' = exposed
        /\ socket \in {"open", "closing"}
    BY <1>14 DEF Receive, InUp
  <2>3. CASE word = "ok" /\ r \in pending /\ Resolved(r)
    BY <2>1, <2>2, <2>3 DEF Resolved, SubsKnown, RequestsOK
  <2>4. CASE r \in pending /\ Refused(r)
    BY <2>1, <2>2, <2>4 DEF Refused, SubsKnown, RequestsOK
  <2>5. CASE UNCHANGED <<promise, subs>>
    BY <2>1, <2>2, <2>5 DEF SubsKnown
  <2> QED
    BY <1>14, <2>3, <2>4, <2>5 DEF Receive, ResultComes
<1>15. ASSUME Serve
      PROVE  SubsKnown'
  <2>1. /\ Head(up) \in Requests
        /\ \A u \in Unsubs : InUp(u)' => InUp(u)
    BY <1>15, UpTaken DEF Serve
  <2>2. \A s \in Subs : InDown("ok", s)' => s \in exposed
    <3>1. CASE Head(up) \in Calls \cup Goals
      BY <1>15, <3>1 DEF Serve, SubsKnown, InDown
    <3>2. ASSUME NEW w \in {"ok", "no"}, Tell(w, Head(up)),
                 w = "ok" /\ Head(up) \in Subs => Head(up) \in exposed
          PROVE  \A s \in Subs : InDown("ok", s)' => s \in exposed
      BY <2>1, <3>2, DownAppended DEF Tell, SubsKnown
    <3> QED
      BY <1>15, <3>1, <3>2 DEF Serve
  <2> QED
    BY <1>15, <2>1, <2>2 DEF Serve, SubsKnown, Connected
<1>16. ASSUME NEW r \in Calls \cup Goals, NEW word \in {"ok", "no"}, Answer(r, word)
      PROVE  SubsKnown'
  <2>1. \A s \in Subs : InDown("ok", s)' => InDown("ok", s)
    BY <1>16, DownAppended DEF Answer, Tell
  <2> QED
    BY <1>16, <2>1 DEF Answer, Connected, SubsKnown, InUp
<1>17. ASSUME NEW g \in Goals, GoalEnds(g)
      PROVE  SubsKnown'
  <2>1. \A s \in Subs : InDown("ok", s)' => InDown("ok", s)
    BY <1>17, DownAppended DEF GoalEnds, Tell
  <2> QED
    BY <1>17, <2>1 DEF GoalEnds, Connected, SubsKnown, InUp
<1>18. CASE UNCHANGED vars
  BY <1>18 DEF vars, SubsKnown, InUp, InDown
<1> QED
  BY <1>1, <1>2, <1>3, <1>4, <1>5, <1>6, <1>7, <1>8, <1>9,
     <1>10, <1>11, <1>12, <1>13, <1>14, <1>15, <1>16, <1>17, <1>18
  DEF Next, User, Socket, Peer, Requests

\* Nothing of a subscription gets lost over a connection: first the steps that leave its
\* frames alone.
LEMMA TrackedKept ==
  ASSUME NEW s \in Subs, Tracked(s), UNCHANGED <<up, down, served, subs, about>>,
         promise'[s] = promise[s]
  PROVE  Tracked(s)'
BY DEF Tracked, InUp, InDown, Ends

\* A subscription that was not asked for yet is nowhere.
LEMMA NewIsNowhere ==
  ASSUME NEW s \in Subs, WireOK, SubsKnown, Tracked(s), promise[s] \in {"new", "admitted"}
  PROVE  s \notin served \cup subs /\ ~InUp(s) /\ ~InDown("ok", s) /\ ~InDown("no", s)
<1>1. s \notin subs
  BY DEF SubsKnown
<1>2. \A i \in 1 .. Len(up) : ~Ends(up[i], s)
  BY DEF SubsKnown, Ends
<1> QED
  BY <1>1, <1>2 DEF Tracked, InUp

\* A frame about something else is sent.
LEMMA TrackedSent ==
  ASSUME NEW s \in Subs, WireOK, Tracked(s), NEW r \in Requests, r # s,
         up' = Append(up, r), UNCHANGED <<down, served, subs, about>>,
         promise'[s] = promise[s]
  PROVE  Tracked(s)'
<1>1. /\ Len(up) \in Nat /\ Len(up') = Len(up) + 1 /\ up'[Len(up) + 1] = r
      /\ \A i \in 1 .. Len(up) : up'[i] = up[i]
      /\ InUp(s)' <=> InUp(s)
  BY UpAppended
<1>2. \A w : InDown(w, s)' <=> InDown(w, s)
  BY DEF InDown
<1>3. \A i \in 1 .. Len(up) : Ends(up[i], s)' <=> Ends(up[i], s)
  BY <1>1 DEF Ends
<1>4. (\E i \in 1 .. Len(up) : Ends(up[i], s)) => \E i \in 1 .. Len(up') : Ends(up[i], s)'
  BY <1>1, <1>3
<1>5. ASSUME NEW i \in 1 .. Len(up'), up'[i] = s
      PROVE  \/ s \in subs \/ promise[s] = "pending"
             \/ \E j \in i + 1 .. Len(up') : Ends(up[j], s)'
  <2>1. i \in 1 .. Len(up) /\ up[i] = s
    BY <1>1, <1>5
  <2>2. CASE \E j \in i + 1 .. Len(up) : Ends(up[j], s)
    BY <1>1, <1>3, <2>1, <2>2
  <2> QED
    BY <2>1, <2>2 DEF Tracked
<1>6. promise[s] = "pending" => \A i, j \in 1 .. Len(up') : up'[i] = s /\ up'[j] = s => i = j
  BY <1>1 DEF Tracked
<1> QED
  BY <1>1, <1>2, <1>4, <1>5, <1>6 DEF Tracked

\* The subscribe request is sent.
LEMMA TrackedAsked ==
  ASSUME NEW s \in Subs, WireOK, SubsKnown, Tracked(s), promise[s] = "admitted",
         up' = Append(up, s), UNCHANGED <<down, served, subs, about>>,
         promise'[s] = "pending"
  PROVE  Tracked(s)'
<1>1. s \notin served \cup subs /\ ~InUp(s) /\ ~InDown("ok", s) /\ ~InDown("no", s)
  BY NewIsNowhere
<1>2. /\ Len(up) \in Nat /\ Len(up') = Len(up) + 1
      /\ \A i \in 1 .. Len(up) : up'[i] = up[i]
  BY UpAppended
<1>3. ~InDown("ok", s)' /\ ~InDown("no", s)'
  BY <1>1 DEF InDown
<1>4. \A i \in 1 .. Len(up') : up'[i] = s => i = Len(up')
  BY <1>1, <1>2 DEF InUp
<1> QED
  BY <1>1, <1>3, <1>4 DEF Tracked

\* An unsubscription is sent.
LEMMA TrackedEnding ==
  ASSUME NEW s \in Subs, NEW u \in Unsubs, NEW x \in Subs, WireOK, RequestsOK, SubsKnown,
         Tracked(s), promise[u] = "new", promise[x] = "resolved",
         up' = Append(up, u), subs' = subs \ {x}, about' = [about EXCEPT ![u] = x],
         UNCHANGED <<down, served>>, promise'[s] = promise[s]
  PROVE  Tracked(s)'
<1>1. /\ Len(up) \in Nat /\ Len(up') = Len(up) + 1 /\ up'[Len(up) + 1] = u
      /\ \A i \in 1 .. Len(up) : up'[i] = up[i]
      /\ InUp(s)' <=> InUp(s)
  BY UpAppended
<1>2. \A w : InDown(w, s)' <=> InDown(w, s)
  BY DEF InDown
<1>3. /\ \A i \in 1 .. Len(up) : Ends(up[i], s)' <=> Ends(up[i], s)
      /\ x = s => Ends(up[Len(up)], s)'
  BY <1>1 DEF Ends, SubsKnown, InUp, RequestsOK
<1>4. (\E i \in 1 .. Len(up) : Ends(up[i], s)) \/ x = s
        => \E i \in 1 .. Len(up') : Ends(up[i], s)'
  BY <1>1, <1>3
<1>5. ASSUME NEW i \in 1 .. Len(up'), up'[i] = s
      PROVE  \/ s \in subs' \/ promise[s] = "pending"
             \/ \E j \in i + 1 .. Len(up') : Ends(up[j], s)'
  <2>1. i \in 1 .. Len(up) /\ up[i] = s
    BY <1>1, <1>5
  <2>2. CASE \E j \in i + 1 .. Len(up) : Ends(up[j], s)
    BY <1>1, <1>3, <2>1, <2>2
  <2>3. CASE x = s
    BY <1>1, <1>3, <2>1, <2>3
  <2> QED
    BY <2>1, <2>2, <2>3 DEF Tracked
<1>6. promise[s] = "pending" => \A i, j \in 1 .. Len(up') : up'[i] = s /\ up'[j] = s => i = j
  BY <1>1 DEF Tracked
<1> QED
  BY <1>1, <1>2, <1>4, <1>5, <1>6 DEF Tracked

\* The peer takes a frame.
LEMMA TrackedServed ==
  ASSUME NEW s \in Subs, RequestsOK, WireOK, SubsKnown, Tracked(s), Serve
  PROVE  Tracked(s)'
<1> DEFINE r == Head(up)
<1>1. /\ r \in Requests /\ r = up[1]
      /\ Len(up) \in Nat \ {0} /\ Len(up') = Len(up) - 1
      /\ \A i \in 1 .. Len(up') : up'[i] = up[i + 1]
      /\ \A x : InUp(x) <=> x = r \/ InUp(x)'
  BY UpTaken DEF Serve, WireOK
<1>2. UNCHANGED <<promise, pending, subs, about, exposed>>
  BY DEF Serve, requestVars
<1> HIDE DEF r
<1>3. (\E i \in 1 .. Len(up) : Ends(up[i], s))
        => Ends(r, s) \/ \E i \in 1 .. Len(up') : Ends(up[i], s)'
  <2> SUFFICES ASSUME NEW i \in 1 .. Len(up), Ends(up[i], s), i # 1
               PROVE  \E j \in 1 .. Len(up') : Ends(up[j], s)'
    BY <1>1
  <2>1. i - 1 \in 1 .. Len(up') /\ up'[i - 1] = up[i]
    BY <1>1
  <2> QED
    BY <1>2, <2>1 DEF Ends
<1>4. ASSUME NEW i \in 1 .. Len(up'), up'[i] = s
      PROVE  \/ s \in subs \/ promise[s] = "pending"
             \/ \E j \in i + 1 .. Len(up') : Ends(up[j], s)'
  <2>1. i + 1 \in 1 .. Len(up) /\ up[i + 1] = s
    BY <1>1, <1>4
  <2>2. ASSUME NEW j \in i + 2 .. Len(up), Ends(up[j], s)
        PROVE  \E k \in i + 1 .. Len(up') : Ends(up[k], s)'
    <3>1. j - 1 \in i + 1 .. Len(up') /\ up'[j - 1] = up[j]
      BY <1>1
    <3> QED
      BY <1>2, <2>2, <3>1 DEF Ends
  <2> QED
    BY <2>1, <2>2 DEF Tracked
<1>5. promise[s] = "pending" =>
        \A i, j \in 1 .. Len(up') : up'[i] = s /\ up'[j] = s => i = j
  <2>1. ASSUME NEW i \in 1 .. Len(up'), NEW j \in 1 .. Len(up'), up'[i] = s, up'[j] = s,
               promise[s] = "pending"
        PROVE  i = j
    <3>1. /\ i + 1 \in 1 .. Len(up) /\ j + 1 \in 1 .. Len(up)
          /\ up[i + 1] = s /\ up[j + 1] = s
      BY <1>1, <2>1
    <3> QED
      BY <2>1, <3>1 DEF Tracked
  <2> QED
    BY <2>1
<1>6. CASE r = s
  <2>1. /\ InUp(s) /\ ~Ends(r, s) /\ promise[s] \notin {"new", "admitted"}
    BY <1>1, <1>6, NewIsNowhere DEF Ends
  <2>2. promise[s] = "pending" => /\ s \notin served /\ ~InDown("ok", s) /\ ~InDown("no", s)
                                  /\ ~InUp(s)'
    <3>1. ASSUME promise[s] = "pending", InUp(s)'
          PROVE  FALSE
      <4>1. PICK i \in 1 .. Len(up') : up'[i] = s
        BY <3>1 DEF InUp
      <4>2. i + 1 \in 1 .. Len(up) /\ 1 \in 1 .. Len(up) /\ up[i + 1] = s /\ up[1] = s
        BY <1>1, <1>6, <4>1
      <4>3. i + 1 = 1
        BY <3>1, <4>2 DEF Tracked
      <4> QED
        BY <4>3
    <3> QED
      BY <2>1, <3>1 DEF Tracked
  <2>3. s \in subs \/ promise[s] = "pending" \/ \E i \in 1 .. Len(up') : Ends(up[i], s)'
    <3>1. 1 \in 1 .. Len(up) /\ up[1] = s
      BY <1>1, <1>6
    <3>2. s \in subs \/ promise[s] = "pending" \/ \E i \in 1 .. Len(up) : Ends(up[i], s)
      BY <3>1 DEF Tracked
    <3> QED
      BY <3>2, <1>3, <2>1
  <2>4. CASE s \in exposed \ served
    <3>1. /\ served' = served \cup {s}
          /\ \A w, x : InDown(w, x)' <=> InDown(w, x) \/ (w = "ok" /\ x = s)
      <4>1. served' = served \cup {s} /\ down' = Append(down, <<"ok", s>>)
        BY <1>6, <2>4 DEF Serve, Tell, r
      <4> QED
        BY <4>1, <1>1, <1>6, DownAppended
    <3> QED
      BY <1>2, <1>4, <1>5, <2>1, <2>2, <2>3, <3>1 DEF Tracked
  <2>5. CASE s \notin exposed \ served
    <3>1. /\ served' = served
          /\ \A w, x : InDown(w, x)' <=> InDown(w, x) \/ (w = "no" /\ x = s)
      <4>1. served' = served /\ down' = Append(down, <<"no", s>>)
        BY <1>6, <2>5 DEF Serve, Tell, r
      <4> QED
        BY <4>1, <1>1, <1>6, DownAppended
    <3>2. s \in subs => s \in served
      BY <2>5 DEF SubsKnown
    <3> QED
      BY <1>2, <1>4, <1>5, <2>1, <2>2, <2>3, <3>1, <3>2 DEF Tracked
  <2> QED
    BY <2>4, <2>5
<1>7. CASE r # s
  <2>1. /\ s \in served' <=> s \in served /\ ~Ends(r, s)
        /\ \A w : InDown(w, s)' <=> InDown(w, s)
    <3>1. s \in served' <=> s \in served /\ ~Ends(r, s)
      BY <1>7 DEF Serve, Ends, r
    <3>2. \/ UNCHANGED down
          \/ \E w \in {"ok", "no"} : down' = Append(down, <<w, r>>)
      BY DEF Serve, Tell, r
    <3>3. \A w : InDown(w, s)' <=> InDown(w, s)
      <4>1. CASE UNCHANGED down
        BY <4>1 DEF InDown
      <4>2. CASE \E w \in {"ok", "no"} : down' = Append(down, <<w, r>>)
        BY <4>2, <1>1, <1>7, DownAppended
      <4> QED
        BY <3>2, <4>1, <4>2
    <3> QED
      BY <3>1, <3>3
  <2>2. CASE Ends(r, s)
    <3>1. s \notin subs /\ promise[s] = "resolved"
      BY <2>2 DEF Ends, SubsKnown
    <3> QED
      BY <1>2, <1>4, <1>5, <2>1, <2>2, <3>1 DEF Tracked
  <2>3. CASE ~Ends(r, s)
    BY <1>1, <1>2, <1>3, <1>4, <1>5, <1>7, <2>1, <2>3 DEF Tracked
  <2> QED
    BY <2>2, <2>3
<1> QED
  BY <1>6, <1>7

\* The client takes a frame.
LEMMA TrackedReceived ==
  ASSUME NEW s \in Subs, RequestsOK, WireOK, SubsKnown, Tracked(s), Receive
  PROVE  Tracked(s)'
<1> DEFINE word == Head(down)[1]
           r == Head(down)[2]
<1>1. /\ word \in {"ok", "no", "result"} /\ r \in Requests
      /\ \A w, x : InDown(w, x) <=> (w = word /\ x = r) \/ InDown(w, x)'
  BY DownTaken DEF Receive
<1>2. /\ InUp(s)' <=> InUp(s)
      /\ \A i \in 1 .. Len(up) : Ends(up[i], s)' <=> Ends(up[i], s)
      /\ UNCHANGED <<up, about, served>>
  BY DEF Receive, peerVars, InUp, Ends
<1>3. CASE r # s
  <2>1. promise'[s] = promise[s] /\ (s \in subs' <=> s \in subs)
    BY <1>3 DEF Receive, Resolved, Refused, ResultComes, RequestsOK
  <2> QED
    BY <1>1, <1>2, <1>3, <2>1 DEF Tracked
<1>4. CASE r = s /\ word = "ok" /\ r \in pending
  <2>1. promise'[s] = "resolved" /\ s \in subs' /\ s \in served
    BY <1>1, <1>4 DEF Receive, Resolved, RequestsOK, Tracked
  <2> QED
    BY <1>2, <2>1 DEF Tracked
<1>5. CASE r = s /\ word = "no" /\ r \in pending
  <2>1. /\ promise'[s] = "rejected" /\ s \notin served
        /\ \A i \in 1 .. Len(up) : up[i] # s
    BY <1>1, <1>5 DEF Receive, Refused, RequestsOK, Tracked, InUp
  <2>2. s \notin subs'
    BY <1>5 DEF Receive, Refused, RequestsOK, SubsKnown
  <2> QED
    BY <1>2, <2>1, <2>2 DEF Tracked
<1>6. CASE r = s /\ (word = "result" \/ r \notin pending)
  <2>1. UNCHANGED <<promise, subs>>
    BY <1>6 DEF Receive, ResultComes
  <2>2. CASE word = "result"
    BY <1>1, <1>2, <2>1, <2>2 DEF Tracked
  <2>3. CASE word # "result"
    <3>1. promise[s] \notin {"new", "admitted", "pending"}
      BY <1>1, <1>6, <2>3, NewIsNowhere DEF RequestsOK
    <3> QED
      BY <1>2, <2>1, <3>1 DEF Tracked
  <2> QED
    BY <2>2, <2>3
<1> QED
  BY <1>1, <1>3, <1>4, <1>5, <1>6

\* Over an open socket what the peer has and what the user has stay in step.
LEMMA TrackedStep ==
  ASSUME FlagsOK, PointsOK, RequestsOK, WireOK, Stages, OneAttempt, FlagsAgree, SubsKnown,
         SubsTracked, [Next]_vars
  PROVE  SubsTracked'
<1> SUFFICES ASSUME socket' = "open", NEW s \in Subs
             PROVE  Tracked(s)'
  BY DEF SubsTracked
<1>1. ASSUME socket = "open"
      PROVE  Tracked(s) /\ opened = "open" /\ ~closed /\ ~reconnecting
  BY <1>1 DEF SubsTracked, Stages
<1>2. ASSUME NEW r \in Requests, Admit(r)
      PROVE  Tracked(s)'
  <2>1. socket = "open" /\ UNCHANGED <<up, down, served, subs, about>>
    BY <1>2 DEF Admit
  <2>2. CASE r # s
    <3>1. promise'[s] = promise[s]
      BY <1>2, <2>2 DEF Admit, RequestsOK
    <3> QED
      BY <1>1, <2>1, <3>1, TrackedKept
  <2>3. CASE r = s
    <3>1. promise[s] = "new" /\ promise'[s] \in {"admitted", "rejected"}
      BY <1>2, <2>3 DEF Admit, RequestsOK
    <3>2. s \notin served \cup subs /\ ~InUp(s) /\ ~InDown("ok", s) /\ ~InDown("no", s)
      BY <1>1, <2>1, <3>1, NewIsNowhere
    <3> QED
      BY <2>1, <3>1, <3>2 DEF Tracked, InUp, InDown
  <2> QED
    BY <2>2, <2>3
<1>3. ASSUME NEW r \in Requests, Verb(r)
      PROVE  Tracked(s)'
  <2>1. socket = "open" /\ UNCHANGED <<down, served, subs, about>> /\ promise[r] = "admitted"
    BY <1>3 DEF Verb
  <2>2. CASE r = s
    <3>1. up' = Append(up, s) /\ promise'[s] = "pending"
      BY <1>1, <1>3, <2>1, <2>2 DEF Verb, LinkRequest, Down, Request, Send, RequestsOK
    <3> QED
      BY <1>1, <2>1, <2>2, <3>1, TrackedAsked
  <2>3. CASE r # s
    <3>1. promise'[s] = promise[s] /\ (up' = up \/ up' = Append(up, r))
      BY <1>3, <2>3 DEF Verb, LinkRequest, Rejected, Request, Send, RequestsOK
    <3> QED
      BY <1>1, <2>1, <2>3, <3>1, TrackedKept, TrackedSent
  <2> QED
    BY <2>2, <2>3
<1>4. ASSUME NEW r \in Calls, CancelGoal(r)
      PROVE  Tracked(s)'
  <2>1. socket = "open" /\ UNCHANGED <<down, served, subs, about>> /\ r # s
    BY <1>4 DEF CancelGoal
  <2>2. promise'[s] = promise[s] /\ (up' = up \/ up' = Append(up, r))
    BY <1>4, <2>1 DEF CancelGoal, LinkRequest, Rejected, Request, Send, RequestsOK
  <2> QED
    BY <1>1, <2>1, <2>2, TrackedKept, TrackedSent
<1>5. ASSUME NEW u \in Unsubs, NEW x \in Subs, Unsubscribe(u, x)
      PROVE  Tracked(s)'
  <2>1. /\ socket = "open" /\ UNCHANGED <<down, served>>
        /\ promise[u] = "new" /\ promise[x] = "resolved"
        /\ subs' = subs \ {x} /\ about' = [about EXCEPT ![u] = x]
    BY <1>5 DEF Unsubscribe
  <2>2. up' = Append(up, u) /\ promise'[s] = promise[s]
    BY <1>1, <1>5, <2>1 DEF Unsubscribe, LinkRequest, Down, Request, Send, RequestsOK
  <2> QED
    BY <1>1, <2>1, <2>2, TrackedEnding
<1>6. ASSUME Leave
      PROVE  Tracked(s)'
  BY <1>1, <1>6, TrackedKept DEF Leave
<1>7. ASSUME LinkClose
      PROVE  Tracked(s)'
  BY <1>1, <1>7 DEF LinkClose, NoCloseToCome, PointsOK
<1>8. ASSUME SocketOpens
      PROVE  Tracked(s)'
  <2>1. /\ pending = {} /\ down' = <<>> /\ served' = {} /\ UNCHANGED <<promise, subs, about>>
    BY <1>8 DEF SocketOpens, PointsOK, Stages, OneAttempt, FlagsAgree, SubsKnown
  <2>2. /\ Len(up') \in Nat
        /\ \A i \in 1 .. Len(up') : up'[i] \in subs
        /\ s \in subs => InUp(s)'
    BY <1>8, ReplaysAre DEF SocketOpens, InUp
  <2>3. promise[s] # "pending" /\ ~InDown("ok", s)' /\ ~InDown("no", s)'
    BY <2>1 DEF RequestsOK, InDown
  <2> QED
    BY <2>1, <2>2, <2>3 DEF Tracked
<1>9. ASSUME SocketFails \/ SocketFailed \/ SocketAborts \/ Lose \/ SocketCloses \/ TimerFires
      PROVE  Tracked(s)'
  BY <1>9 DEF SocketFails, SocketFailed, SocketAborts, Lose, SocketCloses, TimerFires
<1>10. ASSUME Receive
       PROVE  Tracked(s)'
  BY <1>1, <1>10, TrackedReceived DEF Receive
<1>11. ASSUME Serve
       PROVE  Tracked(s)'
  BY <1>1, <1>11, TrackedServed DEF Serve
<1>12. ASSUME NEW r \in Calls \cup Goals, NEW word \in {"ok", "no", "result"},
              UNCHANGED <<socket, up, served, promise, subs, about>>, Tell(word, r)
       PROVE  Tracked(s)'
  <2>1. \A w : InDown(w, s)' <=> InDown(w, s)
    BY <1>12, DownAppended DEF Tell
  <2> QED
    BY <1>1, <1>12, <2>1 DEF Tracked, InUp, Ends
<1>13. ASSUME NEW r \in Calls \cup Goals, NEW word \in {"ok", "no"}, Answer(r, word)
       PROVE  Tracked(s)'
  BY <1>12, <1>13 DEF Answer
<1>14. ASSUME NEW g \in Goals, GoalEnds(g)
       PROVE  Tracked(s)'
  BY <1>12, <1>14 DEF GoalEnds
<1>15. CASE UNCHANGED vars
  BY <1>1, <1>15, TrackedKept DEF vars
<1> QED
  BY <1>2, <1>3, <1>4, <1>5, <1>6, <1>7, <1>8, <1>9,
     <1>10, <1>11, <1>13, <1>14, <1>15
  DEF Next, User, Socket, Peer, Requests

-----------------------------------------------------------------------------
(* Answers and results that are owed.                                      *)

\* Without a connection the peer serves nothing.
Quiet == ~Connected => serving = {} /\ running = {}

LEMMA QuietStep ==
  ASSUME Stages, OneAttempt, Quiet, [Next]_vars
  PROVE  Quiet'
<1>1. ASSUME UNCHANGED <<serving, running>>, Connected => Connected'
      PROVE  Quiet'
  BY <1>1 DEF Quiet
<1>2. ASSUME NEW r \in Requests, Admit(r)
      PROVE  Quiet'
  BY <1>1, <1>2 DEF Admit, Stages, Connected
<1>3. ASSUME \/ \E r \in Requests : Verb(r)
             \/ \E r \in Calls : CancelGoal(r)
             \/ \E u \in Unsubs, s \in Subs : Unsubscribe(u, s)
             \/ Leave
      PROVE  Quiet'
  BY <1>1, <1>3 DEF Verb, CancelGoal, Unsubscribe, Leave, Connected
<1>4. CASE LinkClose
  BY <1>1, <1>4 DEF LinkClose, Connected
<1>5. CASE SocketOpens \/ SocketFails \/ SocketFailed \/ SocketAborts
  BY <1>1, <1>5 DEF SocketOpens, SocketFails, SocketFailed, SocketAborts, Connected
<1>6. CASE Lose \/ SocketCloses
  BY <1>6 DEF Lose, SocketCloses, ConnectionGone, Quiet
<1>7. CASE TimerFires
  BY <1>1, <1>7 DEF TimerFires, OneAttempt, Connected
<1>8. CASE Receive
  BY <1>1, <1>8 DEF Receive, Connected
<1>9. CASE Peer
  BY <1>9 DEF Peer, Serve, Answer, GoalEnds, Quiet, Connected
<1>10. CASE UNCHANGED vars
  BY <1>1, <1>10 DEF vars, Connected
<1> QED
  BY <1>2, <1>3, <1>4, <1>5, <1>6, <1>7, <1>8, <1>9, <1>10 DEF Next, User, Socket

\* A goal whose frames are left alone, or one frame of which the peer has taken.
LEMMA FollowedKept ==
  ASSUME NEW g \in Goals, GoalFollowed(g), UNCHANGED <<down, serving, running>>,
         InUp(g)' => InUp(g), Connected' => Connected,
         promise'[g] = promise[g], result'[g] = result[g], g \in goals' <=> g \in goals
  PROVE  GoalFollowed(g)'
<1>1. \A w : InDown(w, g)' <=> InDown(w, g)
  BY DEF InDown
<1> QED
  BY <1>1 DEF GoalFollowed

\* A goal that is sent, or will not be.
LEMMA FollowedBegins ==
  ASSUME NEW g \in Goals, GoalFollowed(g), UNCHANGED <<down, serving, running>>,
         promise[g] \in {"new", "admitted"}, result'[g] = result[g],
         \/ promise'[g] = "pending" /\ g \in goals'
         \/ promise'[g] = "rejected" /\ (g \in goals' <=> g \in goals)
         \/ promise'[g] = "admitted" /\ up' = up /\ (g \in goals' <=> g \in goals)
  PROVE  GoalFollowed(g)'
<1>1. \A w : InDown(w, g)' <=> InDown(w, g)
  BY DEF InDown
<1>2. /\ result[g] = "none" /\ g \notin goals /\ g \notin serving /\ g \notin running /\ ~InUp(g)
      /\ ~InDown("ok", g) /\ ~InDown("no", g) /\ ~InDown("result", g)
  BY DEF GoalFollowed
<1>3. \A i \in 1 .. Len(down') : down'[i] # <<"result", g>>
  BY <1>2 DEF InDown
<1>4. up' = up => ~InUp(g)'
  BY <1>2 DEF InUp
<1> QED
  BY <1>1, <1>2, <1>3, <1>4 DEF GoalFollowed

\* The end of a connection takes the frames of all goals.
LEMMA FollowedCut ==
  ASSUME NEW g \in Goals, GoalFollowed(g), ConnectionGone, ~Connected',
         result'[g] = (IF g \in goals \ goals' /\ result[g] = "waiting" THEN "settled" ELSE result[g]),
         \/ promise'[g] = promise[g] /\ (g \in goals' <=> g \in goals)
         \/ /\ promise'[g] = (IF promise[g] = "pending" THEN "rejected" ELSE promise[g])
            /\ g \notin goals'
  PROVE  GoalFollowed(g)'
<1>1. ~InUp(g)' /\ (\A w : ~InDown(w, g)') /\ Len(down') = 0
  BY DEF ConnectionGone, InUp, InDown
<1> QED
  BY <1>1 DEF GoalFollowed, ConnectionGone

\* The client takes a frame.
LEMMA FollowedReceived ==
  ASSUME NEW g \in Goals, RequestsOK, WireOK, GoalFollowed(g), Receive
  PROVE  GoalFollowed(g)'
<1> DEFINE word == Head(down)[1]
           r == Head(down)[2]
<1>1. /\ Head(down) = <<word, r>> /\ word \in {"ok", "no", "result"} /\ r \in Requests
      /\ Head(down) = down[1] /\ Len(down) \in Nat \ {0} /\ Len(down') = Len(down) - 1
      /\ \A i \in 1 .. Len(down') : down'[i] = down[i + 1]
      /\ \A w, x : InDown(w, x) <=> (w = word /\ x = r) \/ InDown(w, x)'
  BY DownTaken DEF Receive
<1>2. /\ InUp(g)' <=> InUp(g)
      /\ UNCHANGED <<up, serving, running>> /\ Connected /\ Connected'
  BY DEF Receive, InUp, Connected
<1>3. promise[g] = "pending" <=> g \in pending
  BY DEF RequestsOK
<1>4. /\ \/ word = "ok" /\ r \in pending /\ Resolved(r)
         \/ word = "no" /\ r \in pending /\ Refused(r)
         \/ /\ word \in {"ok", "no"} /\ r \notin pending
            /\ UNCHANGED <<promise, pending, subs, goals, result>>
         \/ word = "result" /\ ResultComes(r)
  BY DEF Receive
<1> HIDE DEF word, r
<1>5. CASE r # g
  <2>1. promise'[g] = promise[g] /\ result'[g] = result[g] /\ (g \in goals' <=> g \in goals)
    BY <1>4, <1>5 DEF Resolved, Refused, ResultComes, RequestsOK
  <2>2. \A w : InDown(w, g)' <=> InDown(w, g)
    BY <1>1, <1>5
  <2>3. ASSUME promise[g] = "pending", NEW i \in 1 .. Len(down'), down'[i] = <<"result", g>>
        PROVE  \E j \in 1 .. i - 1 : down'[j] = <<"ok", g>>
    <3>1. i + 1 \in 1 .. Len(down) /\ down[i + 1] = <<"result", g>>
      BY <1>1, <2>3
    <3>2. PICK j \in 1 .. (i + 1) - 1 : down[j] = <<"ok", g>>
      BY <2>3, <3>1 DEF GoalFollowed
    <3>3. j # 1
      BY <1>1, <1>5, <3>2
    <3>4. j - 1 \in 1 .. i - 1 /\ j - 1 \in 1 .. Len(down') /\ (j - 1) + 1 = j
      BY <3>2, <3>3, <1>1
    <3>5. down'[j - 1] = <<"ok", g>>
      BY <3>2, <3>4, <1>1
    <3> QED
      BY <3>4, <3>5
  <2> QED
    BY <1>2, <2>1, <2>2, <2>3 DEF GoalFollowed
<1>6. CASE r = g /\ word = "ok" /\ g \in pending
  <2>1. /\ promise'[g] = "resolved" /\ result'[g] = "waiting" /\ g \in goals'
    BY <1>3, <1>4, <1>6 DEF Resolved, RequestsOK, GoalFollowed
  <2>2. g \in running \/ InDown("result", g)'
    BY <1>1, <1>3, <1>6 DEF GoalFollowed
  <2> QED
    BY <1>2, <2>1, <2>2 DEF GoalFollowed
<1>7. CASE r = g /\ word = "no" /\ g \in pending
  <2>1. promise'[g] = "rejected" /\ result'[g] = "none" /\ g \notin goals'
    BY <1>3, <1>4, <1>7 DEF Refused, RequestsOK, GoalFollowed
  <2> QED
    BY <2>1 DEF GoalFollowed
<1>8. CASE r = g /\ word \in {"ok", "no"} /\ g \notin pending
  <2>1. UNCHANGED <<promise, goals, result>>
    BY <1>4, <1>8
  <2>2. promise[g] \notin {"new", "admitted", "pending"}
    BY <1>1, <1>3, <1>8 DEF GoalFollowed
  <2>3. InDown("result", g)' <=> InDown("result", g)
    BY <1>1, <1>8
  <2> QED
    BY <1>2, <2>1, <2>2, <2>3 DEF GoalFollowed
<1>9. CASE r = g /\ word = "result"
  <2>1. promise[g] \notin {"new", "admitted"}
    BY <1>1, <1>9 DEF GoalFollowed
  <2>2. promise[g] # "pending"
    <3>1. 1 \in 1 .. Len(down) /\ down[1] = <<"result", g>>
      BY <1>1, <1>9
    <3>2. ~\E j \in 1 .. 1 - 1 : TRUE
      OBVIOUS
    <3> QED
      BY <3>1, <3>2 DEF GoalFollowed
  <2>3. /\ promise'[g] = promise[g] /\ g \notin goals'
        /\ result'[g] = IF g \in goals THEN "settled" ELSE result[g]
    BY <1>4, <1>9 DEF ResultComes, RequestsOK
  <2>4. result'[g] # "waiting" /\ (promise[g] # "resolved" => result'[g] = "none")
    BY <2>2, <2>3 DEF GoalFollowed
  <2> QED
    BY <2>1, <2>2, <2>3, <2>4 DEF GoalFollowed
<1> QED
  BY <1>1, <1>5, <1>6, <1>7, <1>8, <1>9

\* The peer sends a frame that is not the goal's.
LEMMA FollowedOther ==
  ASSUME NEW g \in Goals, WireOK, GoalFollowed(g), NEW word \in {"ok", "no", "result"},
         NEW r \in Requests, r # g, Tell(word, r), InUp(g)' => InUp(g),
         g \in serving' => g \in serving, g \in running' <=> g \in running,
         UNCHANGED <<promise, goals, result, socket>>
  PROVE  GoalFollowed(g)'
<1>1. /\ Len(down) \in Nat /\ Len(down') = Len(down) + 1
      /\ down'[Len(down) + 1] = <<word, r>>
      /\ \A i \in 1 .. Len(down) : down'[i] = down[i]
      /\ \A w : InDown(w, g)' <=> InDown(w, g)
  BY DownAppended DEF Tell
<1>2. ASSUME promise[g] = "pending", NEW i \in 1 .. Len(down'), down'[i] = <<"result", g>>
      PROVE  \E j \in 1 .. i - 1 : down'[j] = <<"ok", g>>
  <2>1. i \in 1 .. Len(down) /\ down[i] = <<"result", g>>
    BY <1>1, <1>2
  <2>2. PICK j \in 1 .. i - 1 : down[j] = <<"ok", g>>
    BY <1>2, <2>1 DEF GoalFollowed
  <2> QED
    BY <1>1, <2>1, <2>2
<1>3. Connected' <=> Connected
  BY DEF Connected
<1> QED
  BY <1>1, <1>2, <1>3 DEF GoalFollowed

\* The peer answers the goal, or tells its result.
LEMMA FollowedAnswered ==
  ASSUME NEW g \in Goals, WireOK, GoalFollowed(g),
         GoalEnds(g) \/ \E word \in {"ok", "no"} : Answer(g, word)
  PROVE  GoalFollowed(g)'
<1>1. /\ UNCHANGED <<up, promise, goals, result, socket>> /\ g \in Requests
      /\ promise[g] \notin {"new", "admitted"}
      /\ Connected' <=> Connected
  BY DEF GoalEnds, Answer, GoalFollowed, Connected
<1>2. ASSUME NEW word \in {"ok", "no"}, Answer(g, word)
      PROVE  GoalFollowed(g)'
  <2>1. /\ Len(down) \in Nat /\ Len(down') = Len(down) + 1
        /\ down'[Len(down) + 1] = <<word, g>>
        /\ \A i \in 1 .. Len(down) : down'[i] = down[i]
        /\ \A w : InDown(w, g)' <=> InDown(w, g) \/ w = word
    BY <1>1, <1>2, DownAppended DEF Answer, Tell
  <2>2. ASSUME promise[g] = "pending", NEW i \in 1 .. Len(down'), down'[i] = <<"result", g>>
        PROVE  \E j \in 1 .. i - 1 : down'[j] = <<"ok", g>>
    <3>1. i \in 1 .. Len(down) /\ down[i] = <<"result", g>>
      BY <2>1, <2>2
    <3>2. PICK j \in 1 .. i - 1 : down[j] = <<"ok", g>>
      BY <2>2, <3>1 DEF GoalFollowed
    <3> QED
      BY <2>1, <3>1, <3>2
  <2>3. running' = IF word = "ok" THEN running \cup {g} ELSE running
    BY <1>2 DEF Answer
  <2> QED
    BY <1>1, <2>1, <2>2, <2>3 DEF GoalFollowed
<1>3. ASSUME GoalEnds(g)
      PROVE  GoalFollowed(g)'
  <2>1. /\ Len(down) \in Nat /\ Len(down') = Len(down) + 1
        /\ down'[Len(down) + 1] = <<"result", g>>
        /\ \A i \in 1 .. Len(down) : down'[i] = down[i]
        /\ \A w : InDown(w, g)' <=> InDown(w, g) \/ w = "result"
    BY <1>1, <1>3, DownAppended DEF GoalEnds, Tell
  <2>2. g \in running /\ running' = running \ {g}
    BY <1>3 DEF GoalEnds
  <2>3. ASSUME promise[g] = "pending", NEW i \in 1 .. Len(down'), down'[i] = <<"result", g>>
        PROVE  \E j \in 1 .. i - 1 : down'[j] = <<"ok", g>>
    <3>1. PICK j \in 1 .. Len(down) : down[j] = <<"ok", g>>
      BY <2>2, <2>3 DEF GoalFollowed, InDown
    <3>2. CASE i = Len(down) + 1
      BY <2>1, <3>1, <3>2
    <3>3. CASE i # Len(down) + 1
      <4>1. i \in 1 .. Len(down) /\ down[i] = <<"result", g>>
        BY <2>1, <2>3, <3>3
      <4>2. PICK k \in 1 .. i - 1 : down[k] = <<"ok", g>>
        BY <2>3, <4>1 DEF GoalFollowed
      <4> QED
        BY <2>1, <4>1, <4>2
    <3> QED
      BY <3>2, <3>3
  <2> QED
    BY <1>1, <2>1, <2>2, <2>3 DEF GoalFollowed
<1> QED
  BY <1>2, <1>3

\* Every step keeps what is said of a goal.
LEMMA FollowedStep ==
  ASSUME FlagsOK, PointsOK, RequestsOK, WireOK, Stages, OneAttempt, FlagsAgree, SubsKnown, Quiet,
         NEW g \in Goals, GoalFollowed(g), [Next]_vars
  PROVE  GoalFollowed(g)'
<1>1. ASSUME NEW r \in Requests, Admit(r)
      PROVE  GoalFollowed(g)'
  <2>1. /\ UNCHANGED <<up, down, serving, running, goals, result>>
        /\ promise[r] = "new" /\ promise'[r] \in {"admitted", "rejected"}
        /\ \A x \in Requests \ {r} : promise'[x] = promise[x]
    BY <1>1 DEF Admit, RequestsOK
  <2>2. CASE r = g
    BY <2>1, <2>2, FollowedBegins
  <2>3. CASE r # g
    <3>1. Connected' => Connected
      BY <1>1 DEF Admit, Connected
    <3>2. (InUp(g)' => InUp(g)) /\ promise'[g] = promise[g]
      BY <2>1, <2>3 DEF InUp
    <3> QED
      BY <2>1, <3>1, <3>2, FollowedKept
  <2> QED
    BY <2>2, <2>3
<1>2. ASSUME NEW r \in Requests, LinkRequest(r), promise[r] \in {"new", "admitted"},
             UNCHANGED <<result, down, serving, running, socket>>
      PROVE  GoalFollowed(g)'
  <2>1. CASE r = g
    <3>1. \/ promise'[g] = "pending" /\ g \in goals'
          \/ promise'[g] = "rejected" /\ (g \in goals' <=> g \in goals)
      BY <1>2, <2>1 DEF LinkRequest, Request, Rejected, RequestsOK
    <3> QED
      BY <1>2, <2>1, <3>1, FollowedBegins
  <2>2. CASE r # g
    <3>1. /\ promise'[g] = promise[g] /\ (g \in goals' <=> g \in goals)
          /\ up' = up \/ up' = Append(up, r)
      BY <1>2, <2>2 DEF LinkRequest, Request, Rejected, Send, RequestsOK
    <3>2. up' = Append(up, r) => (InUp(g)' <=> InUp(g))
      BY <2>2, UpAppended
    <3>3. up' = up => (InUp(g)' <=> InUp(g))
      BY DEF InUp
    <3>4. Connected' => Connected
      BY <1>2 DEF Connected
    <3> QED
      BY <1>2, <3>1, <3>2, <3>3, <3>4, FollowedKept
  <2> QED
    BY <2>1, <2>2
<1>3. ASSUME NEW r \in Requests, Verb(r)
      PROVE  GoalFollowed(g)'
  BY <1>2, <1>3 DEF Verb
<1>4. ASSUME NEW r \in Calls, CancelGoal(r)
      PROVE  GoalFollowed(g)'
  BY <1>2, <1>4 DEF CancelGoal
<1>5. ASSUME NEW u \in Unsubs, NEW s \in Subs, Unsubscribe(u, s)
      PROVE  GoalFollowed(g)'
  BY <1>2, <1>5 DEF Unsubscribe
<1>6. ASSUME UNCHANGED <<up, down, serving, running, promise, goals, result>>, Connected' => Connected
      PROVE  GoalFollowed(g)'
  <2>1. InUp(g)' => InUp(g)
    BY <1>6 DEF InUp
  <2> QED
    BY <1>6, <2>1, FollowedKept
<1>7. CASE Leave
  BY <1>6, <1>7 DEF Leave, Connected
<1>8. CASE LinkClose
  BY <1>6, <1>8 DEF LinkClose, Connected
<1>9. CASE SocketFailed \/ SocketAborts \/ TimerFires
  BY <1>6, <1>9 DEF SocketFailed, SocketAborts, TimerFires, Connected
<1>10. CASE SocketOpens
  <2>1. /\ goals = {} /\ down' = <<>> /\ serving' = {} /\ running' = {}
        /\ UNCHANGED <<promise, goals, result, serving, running, down>>
    BY <1>10 DEF SocketOpens, PointsOK, Stages, OneAttempt, FlagsAgree, SubsKnown, Quiet, Connected
  <2>2. ~InUp(g)' /\ \A w : ~InDown(w, g)'
    <3>1. Len(up') \in Nat /\ \A i \in 1 .. Len(up') : up'[i] \in subs
      BY <1>10, ReplaysAre DEF SocketOpens
    <3>2. g \notin subs
      BY DEF RequestsOK
    <3> QED
      BY <2>1, <3>1, <3>2 DEF InUp, InDown
  <2>3. promise[g] # "pending" /\ result[g] # "waiting"
    BY <2>1 DEF GoalFollowed
  <2> QED
    BY <2>1, <2>2, <2>3 DEF GoalFollowed
<1>11. CASE SocketFails
  <2>1. /\ UNCHANGED <<up, down, serving, running, goals, result>>
        /\ ~Connected'
        /\ \/ promise'[g] = promise[g]
           \/ promise[g] = "admitted" /\ promise'[g] = "rejected"
    BY <1>11 DEF SocketFails, NextAttempt, Connected, RequestsOK
  <2>2. InUp(g)' => InUp(g)
    BY <2>1 DEF InUp
  <2> QED
    BY <2>1, <2>2, FollowedKept, FollowedBegins
<1>12. CASE Lose
  <2>1. ConnectionGone /\ ~Connected' /\ UNCHANGED <<promise, goals, result>>
    BY <1>12 DEF Lose, Connected
  <2> QED
    BY <2>1, FollowedCut
<1>13. CASE SocketCloses
  <2>1. ConnectionGone /\ ~Connected' /\ goals' = {}
    BY <1>13 DEF SocketCloses, FailAll, Connected
  <2>2. /\ promise'[g] = IF promise[g] = "pending" THEN "rejected" ELSE promise[g]
        /\ result'[g] = IF g \in goals /\ result[g] = "waiting" THEN "settled" ELSE result[g]
    BY <1>13 DEF SocketCloses, FailAll, RequestsOK
  <2> QED
    BY <2>1, <2>2, FollowedCut
<1>14. CASE Receive
  BY <1>14, FollowedReceived
<1>15. CASE Serve
  <2> DEFINE r == Head(up)
  <2>1. /\ up # <<>> /\ up' = Tail(up) /\ r \in Requests
        /\ \A x : InUp(x) <=> x = r \/ InUp(x)'
        /\ UNCHANGED <<running, promise, goals, result, socket>>
    BY <1>15, UpTaken DEF Serve
  <2>2. CASE r = g
    <3>1. serving' = serving \cup {g} /\ UNCHANGED down
      BY <1>15, <2>2 DEF Serve
    <3>2. \A w : InDown(w, g)' <=> InDown(w, g)
      BY <3>1 DEF InDown
    <3>3. Connected' <=> Connected
      BY <2>1 DEF Connected
    <3>4. promise[g] \notin {"new", "admitted"}
      BY <2>1, <2>2 DEF GoalFollowed
    <3> QED
      BY <2>1, <3>1, <3>2, <3>3, <3>4 DEF GoalFollowed
  <2>3. CASE r # g
    <3>1. /\ g \in serving' <=> g \in serving
          /\ UNCHANGED down \/ \E word \in {"ok", "no"} : Tell(word, r)
      BY <1>15, <2>3 DEF Serve
    <3>2. Connected' <=> Connected
      BY <2>1 DEF Connected
    <3>3. InUp(g)' => InUp(g)
      BY <2>1
    <3>4. ASSUME UNCHANGED down
          PROVE  GoalFollowed(g)'
      <4>1. \A w : InDown(w, g)' <=> InDown(w, g)
        BY <3>4 DEF InDown
      <4> QED
        BY <2>1, <3>1, <3>2, <3>3, <3>4, <4>1 DEF GoalFollowed
    <3>5. ASSUME NEW word \in {"ok", "no"}, Tell(word, r)
          PROVE  GoalFollowed(g)'
      BY <2>1, <2>3, <3>1, <3>3, <3>5, FollowedOther
    <3> QED
      BY <3>1, <3>4, <3>5
  <2> QED
    BY <2>2, <2>3
<1>16. ASSUME NEW r \in Calls \cup Goals, NEW word \in {"ok", "no"}, Answer(r, word)
       PROVE  GoalFollowed(g)'
  <2>1. CASE r = g
    BY <1>16, <2>1, FollowedAnswered
  <2>2. CASE r # g
    <3>1. /\ Tell(word, r) /\ UNCHANGED <<up, promise, goals, result, socket>> /\ r \in Requests
          /\ (g \in serving' <=> g \in serving) /\ (g \in running' <=> g \in running)
      BY <1>16, <2>2 DEF Answer
    <3>2. InUp(g)' => InUp(g)
      BY <3>1 DEF InUp
    <3> QED
      BY <2>2, <3>1, <3>2, FollowedOther
  <2> QED
    BY <2>1, <2>2
<1>17. ASSUME NEW r \in Goals, GoalEnds(r)
       PROVE  GoalFollowed(g)'
  <2>1. CASE r = g
    BY <1>17, <2>1, FollowedAnswered
  <2>2. CASE r # g
    <3>1. /\ Tell("result", r) /\ UNCHANGED <<up, serving, promise, goals, result, socket>>
          /\ r \in Requests /\ (g \in running' <=> g \in running)
      BY <1>17, <2>2 DEF GoalEnds
    <3>2. InUp(g)' => InUp(g)
      BY <3>1 DEF InUp
    <3> QED
      BY <2>2, <3>1, <3>2, FollowedOther
  <2> QED
    BY <2>1, <2>2
<1>18. CASE UNCHANGED vars
  BY <1>6, <1>18 DEF vars, Connected
<1> QED
  BY <1>1, <1>3, <1>4, <1>5, <1>7, <1>8, <1>9, <1>10, <1>11, <1>12, <1>13, <1>14, <1>15,
     <1>16, <1>17, <1>18
  DEF Next, User, Socket, Peer, Requests

\* While the socket is open, every step keeps the answers to what waits coming.
LEMMA AnswerableStep ==
  ASSUME FlagsOK, PointsOK, RequestsOK, WireOK, Stages, OneAttempt, FlagsAgree, [Next]_vars,
         socket = "open" => \A x \in pending : Answerable(x),
         socket' = "open", NEW q \in pending'
  PROVE  Answerable(q)'
<1>1. ASSUME socket = "open", q \in pending, UNCHANGED <<up, down, serving>>
      PROVE  Answerable(q)'
  BY <1>1 DEF Answerable, InUp, InDown
<1>2. CASE \E r \in Requests : Admit(r)
  BY <1>1, <1>2 DEF Admit
<1>3. ASSUME NEW r \in Requests, LinkRequest(r), UNCHANGED <<down, serving>>, socket = "open"
      PROVE  Answerable(q)'
  <2>1. \/ pending' = pending \cup {r} /\ up' = Append(up, r)
        \/ UNCHANGED <<pending, up>>
    BY <1>3 DEF LinkRequest, Request, Rejected, Send
  <2>2. CASE UNCHANGED <<pending, up>>
    BY <1>1, <1>3, <2>2
  <2>3. CASE pending' = pending \cup {r} /\ up' = Append(up, r)
    <3>1. \A x : InUp(x)' <=> InUp(x) \/ x = r
      BY <2>3, UpAppended
    <3>2. \A w, x : InDown(w, x)' <=> InDown(w, x)
      BY <1>3 DEF InDown
    <3>3. q = r \/ Answerable(q)
      BY <1>3, <2>3
    <3> QED
      BY <1>3, <3>1, <3>2, <3>3 DEF Answerable
  <2> QED
    BY <2>1, <2>2, <2>3
<1>4. ASSUME NEW r \in Requests, Verb(r)
      PROVE  Answerable(q)'
  BY <1>3, <1>4 DEF Verb
<1>5. ASSUME NEW r \in Calls, CancelGoal(r)
      PROVE  Answerable(q)'
  BY <1>3, <1>5 DEF CancelGoal
<1>6. ASSUME NEW u \in Unsubs, NEW s \in Subs, Unsubscribe(u, s)
      PROVE  Answerable(q)'
  BY <1>3, <1>6 DEF Unsubscribe
<1>7. CASE Leave \/ UNCHANGED vars
  BY <1>1, <1>7 DEF Leave, vars
<1>8. CASE LinkClose
  BY <1>8 DEF LinkClose, NoCloseToCome, Stages
<1>9. CASE SocketOpens
  BY <1>9 DEF SocketOpens, PointsOK, Stages, OneAttempt, FlagsAgree
<1>10. CASE SocketFails \/ SocketFailed \/ SocketAborts \/ Lose \/ SocketCloses \/ TimerFires
  BY <1>10 DEF SocketFails, SocketFailed, SocketAborts, Lose, SocketCloses, TimerFires
<1>11. CASE Receive
  <2> DEFINE word == Head(down)[1]
             r == Head(down)[2]
  <2>1. /\ word \in {"ok", "no", "result"}
        /\ \A w, x : InDown(w, x) <=> <<w, x>> = Head(down) \/ InDown(w, x)'
        /\ Head(down) = <<word, r>>
    BY <1>11, DownTaken DEF Receive
  <2>2. q \in pending /\ (word \in {"ok", "no"} => q # r)
    BY <1>11, <2>1 DEF Receive, Resolved, Refused, ResultComes
  <2>3. \A w \in {"ok", "no"} : InDown(w, q) => InDown(w, q)'
    BY <2>1, <2>2
  <2>4. Answerable(q) /\ (InUp(q) => InUp(q)') /\ UNCHANGED serving
    BY <1>11, <2>2 DEF Receive, InUp
  <2> QED
    BY <2>3, <2>4 DEF Answerable
<1>12. CASE Serve
  <2>1. PICK r \in Requests : r = Head(up) /\ \A x : InUp(x) <=> x = r \/ InUp(x)'
    BY <1>12, UpTaken DEF Serve
  <2>2. Answerable(q)
    BY <1>12 DEF Serve
  <2>3. /\ serving \subseteq serving'
        /\ down' = down \/ \E word \in {"ok", "no"} : Tell(word, r)
    BY <1>12, <2>1 DEF Serve
  <2>4. \A w, x : InDown(w, x) => InDown(w, x)'
    <3>1. ASSUME NEW word \in {"ok", "no"}, Tell(word, r)
          PROVE  \A w, x : InDown(w, x) => InDown(w, x)'
      BY <2>1, <3>1, DownAppended DEF Tell
    <3>2. down' = down => \A w, x : InDown(w, x) => InDown(w, x)'
      BY DEF InDown
    <3> QED
      BY <2>3, <3>1, <3>2
  <2>5. r \in serving' \/ InDown("ok", r)' \/ InDown("no", r)'
    <3>1. ASSUME NEW word \in {"ok", "no"}, Tell(word, r)
          PROVE  InDown(word, r)'
      BY <2>1, <3>1, DownAppended DEF Tell
    <3>2. r \in serving' \/ \E word \in {"ok", "no"} : Tell(word, r)
      BY <1>12, <2>1 DEF Serve
    <3> QED
      BY <3>1, <3>2
  <2> QED
    BY <2>1, <2>2, <2>3, <2>4, <2>5 DEF Answerable
<1>13. ASSUME NEW r \in Calls \cup Goals, NEW word \in {"ok", "no"}, Answer(r, word)
       PROVE  Answerable(q)'
  <2>1. \A w, x : InDown(w, x)' <=> InDown(w, x) \/ (w = word /\ x = r)
    BY <1>13, DownAppended DEF Answer, Tell
  <2>2. Answerable(q) /\ serving' = serving \ {r} /\ (InUp(q) => InUp(q)')
    BY <1>13 DEF Answer, InUp
  <2> QED
    BY <2>1, <2>2 DEF Answerable
<1>14. ASSUME NEW g \in Goals, GoalEnds(g)
       PROVE  Answerable(q)'
  <2>1. \A w, x : InDown(w, x)' <=> InDown(w, x) \/ (w = "result" /\ x = g)
    BY <1>14, DownAppended DEF GoalEnds, Tell
  <2>2. Answerable(q) /\ serving' = serving /\ (InUp(q) => InUp(q)')
    BY <1>14 DEF GoalEnds, InUp
  <2> QED
    BY <2>1, <2>2 DEF Answerable
<1> QED
  BY <1>2, <1>4, <1>5, <1>6, <1>7, <1>8, <1>9, <1>10, <1>11, <1>12, <1>13, <1>14
  DEF Next, User, Socket, Peer, Requests

LEMMA OwedStep ==
  ASSUME IInv, OwedInv, [Next]_vars
  PROVE  OwedInv'
<1>1. /\ FlagsOK /\ PointsOK /\ RequestsOK /\ WireOK /\ Stages /\ OneAttempt /\ FlagsAgree
      /\ SubsKnown /\ Quiet
      /\ socket = "open" => \A x \in pending : Answerable(x)
      /\ \A g \in Goals : GoalFollowed(g)
  BY DEF IInv, TypeOK, OwedInv, Quiet
<1>2. Quiet'
  BY <1>1, QuietStep
<1>3. socket' = "open" => \A x \in pending' : Answerable(x)'
  BY <1>1, AnswerableStep
<1>4. \A g \in Goals : GoalFollowed(g)'
  BY <1>1, FollowedStep
<1> QED
  BY <1>2, <1>3, <1>4 DEF OwedInv, Quiet

LEMMA OwedInit == Init => OwedInv
BY DEF Init, OwedInv, GoalFollowed, InUp, InDown, Connected

-----------------------------------------------------------------------------
(* The exchanges over HTTP, step by step.                                  *)

\* What is said of one exchange.
Consistent(x) ==
  Http!Progress(x) /\ Http!Truthful(x) /\ Http!Complete(x) /\ Http!Honest(x)

\* A step leaves an exchange alone.
Untouched(y) ==
  /\ client'[y] = client[y] /\ line'[y] = line[y] /\ wire'[y] = wire[y]
  /\ server'[y] = server[y] /\ ended'[y] = ended[y]

\* An exchange that is left alone stays as consistent as it was.
LEMMA UntouchedKept ==
  ASSUME NEW y, Consistent(y), Untouched(y)
  PROVE  Consistent(y)'
<1>1. Http!Waiting(y)' <=> Http!Waiting(y)
  BY DEF Untouched, Http!Waiting
<1>2. Http!Progress(y)' /\ Http!Honest(y)'
  BY DEF Untouched, Consistent, Http!Progress, Http!Honest
<1>3. Http!Truthful(y)'
  BY <1>1 DEF Untouched, Consistent, Http!Truthful
<1>4. Http!Complete(y)'
  BY <1>1 DEF Untouched, Consistent, Http!Complete
<1> QED
  BY <1>2, <1>3, <1>4 DEF Consistent

\* A step of one exchange keeps the invariant if it keeps that exchange consistent.
LEMMA OneExchange ==
  ASSUME Http!ExchangesInv, NEW x \in Http!Exchanges,
         Http!ExchangesOK', Consistent(x)',
         \A y \in Http!Exchanges \ {x} : Untouched(y),
         x \in controllers' <=> x \in Actions /\ Http!Waiting(x)',
         \A y : y # x => (y \in controllers' <=> y \in controllers)
  PROVE  Http!ExchangesInv'
<1>1. \A y \in Http!Exchanges \ {x} : Consistent(y)'
  BY UntouchedKept DEF Http!ExchangesInv, Consistent
<1>2. \A y \in Http!Exchanges : Consistent(y)'
  BY <1>1
<1>3. \A y \in Actions \ {x} : Http!Waiting(y)' <=> Http!Waiting(y)
  BY DEF Untouched, Http!Waiting, Http!Exchanges
<1>4. controllers' = {y \in Actions : Http!Waiting(y)'}
  BY <1>3 DEF Http!ExchangesInv
<1> QED
  BY <1>2, <1>4 DEF Http!ExchangesInv, Consistent

\* What the front of a response leaves when it is read.
LEMMA WireRead ==
  ASSUME Http!ExchangesOK, NEW x \in Http!Exchanges, wire[x] # <<>>,
         wire' = [wire EXCEPT ![x] = Tail(@)]
  PROVE  /\ wire' \in [Http!Exchanges -> Seq(Http!Words)]
         /\ \A y \in Http!Exchanges \ {x} : wire'[y] = wire[y]
         /\ Len(wire[x]) \in Nat \ {0} /\ Len(wire'[x]) = Len(wire[x]) - 1
         /\ \A i \in 1 .. Len(wire'[x]) : wire'[x][i] = wire[x][i + 1]
         /\ Head(wire[x]) = wire[x][1]
<1>1. wire[x] \in Seq(Http!Words) /\ wire'[x] = Tail(wire[x])
  BY DEF Http!ExchangesOK
<1>2. /\ Tail(wire[x]) \in Seq(Http!Words)
      /\ Len(wire[x]) \in Nat \ {0} /\ Len(Tail(wire[x])) = Len(wire[x]) - 1
      /\ \A i \in 1 .. Len(Tail(wire[x])) : Tail(wire[x])[i] = wire[x][i + 1]
      /\ Head(wire[x]) = wire[x][1]
  BY <1>1
<1>3. /\ wire' \in [Http!Exchanges -> Seq(Http!Words)]
      /\ \A y \in Http!Exchanges \ {x} : wire'[y] = wire[y]
  BY <1>2 DEF Http!ExchangesOK
<1> QED
  BY <1>1, <1>2, <1>3

\* What a write adds to a response.
LEMMA WireWritten ==
  ASSUME Http!ExchangesOK, NEW x \in Http!Exchanges,
         NEW chunks \in Seq(Http!Words), Http!Write(x, chunks)
  PROVE  /\ wire' \in [Http!Exchanges -> Seq(Http!Words)]
         /\ \A y \in Http!Exchanges \ {x} : wire'[y] = wire[y]
         /\ line[x] # "open" => wire'[x] = wire[x]
         /\ line[x] = "open" =>
              /\ Len(wire'[x]) = Len(wire[x]) + Len(chunks)
              /\ \A i \in 1 .. Len(wire[x]) : wire'[x][i] = wire[x][i]
              /\ \A i \in 1 .. Len(chunks) : wire'[x][Len(wire[x]) + i] = chunks[i]
         /\ Len(wire[x]) \in Nat /\ Len(chunks) \in Nat
<1>1. wire[x] \in Seq(Http!Words)
  BY DEF Http!ExchangesOK
<1>2. /\ wire[x] \o chunks \in Seq(Http!Words)
      /\ Len(wire[x]) \in Nat /\ Len(chunks) \in Nat
      /\ Len(wire[x] \o chunks) = Len(wire[x]) + Len(chunks)
      /\ \A i \in 1 .. Len(wire[x]) : (wire[x] \o chunks)[i] = wire[x][i]
      /\ \A i \in 1 .. Len(chunks) : (wire[x] \o chunks)[Len(wire[x]) + i] = chunks[i]
  BY <1>1
<1>3. wire'[x] = IF line[x] = "open" THEN wire[x] \o chunks ELSE wire[x]
  BY DEF Http!ExchangesOK, Http!Write
<1>4. /\ wire' \in [Http!Exchanges -> Seq(Http!Words)]
      /\ \A y \in Http!Exchanges \ {x} : wire'[y] = wire[y]
  BY <1>2 DEF Http!ExchangesOK, Http!Write
<1> QED
  BY <1>2, <1>3, <1>4

\* Of an exchange that has begun and is not done, nothing has ended yet.
LEMMA Underway ==
  ASSUME Http!ExchangesInv, NEW x \in Http!Exchanges,
         server[x] \notin {"none", "closed"}
  PROVE  client[x] # "new" /\ ended[x] = "no" /\ client[x] # "resolved"
BY DEF Http!ExchangesInv, Http!ExchangesOK, Http!Progress, Http!Honest

\* fetch()
LEMMA FetchKeeps ==
  ASSUME Http!ExchangesInv, NEW x \in Http!Exchanges, Http!Fetch(x)
  PROVE  Http!ExchangesInv'
<1>1. /\ wire[x] = <<>> /\ server[x] = "none" /\ ended[x] = "no" /\ wire'[x] = <<>>
      /\ client'[x] = "fetching" /\ ended'[x] = "no" /\ server'[x] # "closed"
      /\ line'[x] = "open" => server'[x] # "none"
  BY DEF Http!Fetch, Http!ExchangesInv, Http!ExchangesOK, Http!Progress
<1>2. Http!ExchangesOK'
  BY DEF Http!Fetch, Http!ExchangesInv, Http!ExchangesOK
<1>3. Consistent(x)'
  BY <1>1 DEF Consistent, Http!Progress, Http!Truthful, Http!Complete, Http!Honest
<1>4. \A y \in Http!Exchanges \ {x} : Untouched(y)
  BY DEF Http!Fetch, Untouched, Http!ExchangesInv, Http!ExchangesOK
<1>5. /\ x \in controllers' <=> x \in Actions /\ Http!Waiting(x)'
      /\ \A y : y # x => (y \in controllers' <=> y \in controllers)
  BY <1>1 DEF Http!Fetch, Http!ExchangesInv, Http!Waiting
<1> QED
  BY <1>2, <1>3, <1>4, <1>5, OneExchange

\* The response begins or is complete, or an event of it is read: what was under way told
\* the truth, so the client learns it; and what follows an end is read by nobody.
LEMMA ReadingKeeps ==
  ASSUME Http!ExchangesInv, NEW x \in Http!Exchanges,
         Http!FetchReturns(x) \/ Http!ReadEvent(x)
  PROVE  Http!ExchangesInv'
<1> USE DEF Http!FetchReturns, Http!ReadEvent, Http!Settled
<1>1. /\ wire[x] # <<>> /\ wire' = [wire EXCEPT ![x] = Tail(@)]
      /\ UNCHANGED <<line, listening, server, streaming, ended>>
      /\ Http!Waiting(x)
  BY DEF Http!Waiting
<1>2. Http!ExchangesOK
  BY DEF Http!ExchangesInv
<1>3. /\ wire' \in [Http!Exchanges -> Seq(Http!Words)]
      /\ \A y \in Http!Exchanges \ {x} : wire'[y] = wire[y]
      /\ Len(wire[x]) \in Nat \ {0} /\ Len(wire'[x]) = Len(wire[x]) - 1
      /\ \A i \in 1 .. Len(wire'[x]) : wire'[x][i] = wire[x][i + 1]
      /\ Head(wire[x]) = wire[x][1]
  BY <1>1, <1>2, WireRead
<1>4. /\ client' \in [Http!Exchanges ->
                      {"new", "fetching", "streaming", "resolved", "rejected"}]
      /\ \A y \in Http!Exchanges \ {x} : client'[y] = client[y]
      /\ client'[x] # "new"
  BY <1>2 DEF Http!ExchangesOK
<1>5. Http!ExchangesOK'
  BY <1>1, <1>2, <1>3, <1>4 DEF Http!ExchangesOK
<1>6. \A y \in Http!Exchanges \ {x} : Untouched(y)
  BY <1>1, <1>3, <1>4 DEF Untouched
<1>7. /\ x \in controllers' <=> x \in Actions /\ Http!Waiting(x)'
      /\ \A y : y # x => (y \in controllers' <=> y \in controllers)
  BY <1>1, <1>2 DEF Http!ExchangesInv, Http!ExchangesOK, Http!Waiting
<1>8. Consistent(x)
  BY DEF Http!ExchangesInv, Consistent
<1>9. Http!Progress(x)'
  BY <1>1, <1>4, <1>8 DEF Consistent, Http!Progress
<1>10. 1 \in 1 .. Len(wire[x])
  BY <1>3
<1>11. /\ Head(wire[x]) \in {"ok", "result"} => ended[x] = "well"
       /\ Head(wire[x]) \in {"error", "failed"} => ended[x] = "badly"
       /\ Head(wire[x]) # "end"
  BY <1>1, <1>3, <1>8, <1>10 DEF Consistent, Http!Truthful
<1>12. Http!Honest(x)'
  BY <1>1, <1>2, <1>8, <1>11 DEF Consistent, Http!Honest, Http!ExchangesOK
<1>13. Http!Waiting(x)' => Head(wire[x]) \in {"head", "accepted", "event"}
  BY <1>2, <1>11 DEF Http!Waiting, Http!ExchangesOK
<1>14. Http!Truthful(x)'
  <2> SUFFICES ASSUME NEW i \in 1 .. Len(wire'[x])
               PROVE  /\ wire'[x][i] \in {"ok", "result"} => ended'[x] = "well"
                      /\ wire'[x][i] \in {"error", "failed"} => ended'[x] = "badly"
                      /\ Http!Waiting(x)' /\ wire'[x][i] = "end" =>
                           i > 1 /\ wire'[x][i - 1] \in {"result", "failed"}
    BY DEF Http!Truthful
  <2>1. i + 1 \in 1 .. Len(wire[x]) /\ wire'[x][i] = wire[x][i + 1]
    BY <1>3
  <2>2. /\ wire[x][i + 1] \in {"ok", "result"} => ended[x] = "well"
        /\ wire[x][i + 1] \in {"error", "failed"} => ended[x] = "badly"
        /\ wire[x][i + 1] = "end" => wire[x][i] \in {"result", "failed"}
    BY <2>1, <1>1, <1>8 DEF Consistent, Http!Truthful
  <2>3. Http!Waiting(x)' /\ wire[x][i + 1] = "end" =>
          i > 1 /\ i - 1 \in 1 .. Len(wire'[x])
    BY <2>1, <2>2, <1>3, <1>13
  <2>4. i > 1 => wire'[x][i - 1] = wire[x][i]
    BY <1>3
  <2> QED
    BY <2>1, <2>2, <2>3, <2>4, <1>1
<1>15. Http!Complete(x)'
  <2> SUFFICES ASSUME Http!Waiting(x)', line[x] = "open", server[x] = "closed"
               PROVE  /\ wire'[x] # <<>>
                      /\ wire'[x][Len(wire'[x])] \in {"ok", "error", "end"}
    BY <1>1 DEF Http!Complete
  <2>1. wire[x][Len(wire[x])] \in {"ok", "error", "end"}
    BY <1>1, <1>8 DEF Consistent, Http!Complete
  <2>2. Len(wire[x]) # 1
    BY <2>1, <1>3, <1>13
  <2>3. \A n \in Nat \ {0} : n # 1 => n - 1 \in 1 .. n - 1 /\ n - 1 # 0
    OBVIOUS
  <2>4. Len(wire'[x]) \in 1 .. Len(wire'[x]) /\ Len(wire'[x]) # 0
    BY <2>2, <2>3, <1>3
  <2>5. wire'[x] # <<>>
    BY <2>4
  <2> QED
    BY <2>1, <2>4, <2>5, <1>3
<1> QED
  BY <1>5, <1>6, <1>7, <1>9, <1>12, <1>14, <1>15, OneExchange DEF Consistent

\* fetch() or the reader fails: the connection is gone.
LEMMA ReadFailsKeeps ==
  ASSUME Http!ExchangesInv, NEW x \in Http!Exchanges, Http!ReadFails(x)
  PROVE  Http!ExchangesInv'
<1>1. Http!ExchangesOK'
  BY DEF Http!ReadFails, Http!Settled, Http!ExchangesInv, Http!ExchangesOK
<1>2. client'[x] = "rejected" /\ line[x] = "cut" /\ wire[x] = <<>>
  BY DEF Http!ReadFails, Http!Settled, Http!ExchangesInv, Http!ExchangesOK
<1>3. Consistent(x)'
  BY <1>2 DEF Consistent, Http!Progress, Http!Truthful, Http!Complete, Http!Honest,
              Http!Waiting, Http!ReadFails, Http!ExchangesInv
<1>4. \A y \in Http!Exchanges \ {x} : Untouched(y)
  BY DEF Http!ReadFails, Http!Settled, Untouched, Http!ExchangesInv, Http!ExchangesOK
<1>5. /\ x \in controllers' <=> x \in Actions /\ Http!Waiting(x)'
      /\ \A y : y # x => (y \in controllers' <=> y \in controllers)
  BY <1>2 DEF Http!ReadFails, Http!Settled, Http!Waiting
<1> QED
  BY <1>1, <1>3, <1>4, <1>5, OneExchange

\* close(): what is aborted is rejected over a connection that is gone.
LEMMA CloseLinkKeeps ==
  ASSUME Http!ExchangesInv, Http!CloseLink
  PROVE  Http!ExchangesInv'
<1>1. controllers = {y \in Actions : Http!Waiting(y)} /\ controllers' = {}
  BY DEF Http!ExchangesInv, Http!CloseLink
<1>2. \A y \in Http!Exchanges : y \notin controllers => Untouched(y)
  BY DEF Http!CloseLink, Http!ExchangesInv, Http!ExchangesOK, Untouched
<1>3. \A y \in Http!Exchanges : y \in controllers =>
        client'[y] = "rejected" /\ line'[y] = "cut" /\ wire'[y] = <<>>
  BY DEF Http!CloseLink, Http!ExchangesInv, Http!ExchangesOK
<1>4. Http!ExchangesOK'
  BY DEF Http!CloseLink, Http!ExchangesInv, Http!ExchangesOK
<1>5. ASSUME NEW y \in Http!Exchanges
      PROVE  Consistent(y)'
  <2>1. CASE y \in controllers
    <3>1. server'[y] = server[y] /\ ended'[y] = ended[y] /\ ~Http!Waiting(y)'
      BY <2>1, <1>3 DEF Http!CloseLink, Http!Waiting
    <3>2. Http!Progress(y)
      BY DEF Http!ExchangesInv
    <3> QED
      BY <2>1, <1>3, <3>1, <3>2 DEF Consistent, Http!Progress, Http!Truthful,
         Http!Complete, Http!Honest
  <2>2. CASE y \notin controllers
    BY <2>2, <1>2, UntouchedKept DEF Http!ExchangesInv, Consistent
  <2> QED
    BY <2>1, <2>2
<1>6. \A y \in Actions : ~Http!Waiting(y)'
  BY <1>1, <1>2, <1>3 DEF Untouched, Http!Waiting, Http!Exchanges
<1>7. controllers' = {y \in Actions : Http!Waiting(y)'}
  BY <1>1, <1>6
<1> QED
  BY <1>4, <1>5, <1>7 DEF Http!ExchangesInv, Consistent

\* A connection breaks, and a part of what was under way still arrives.
LEMMA CutKeeps ==
  ASSUME Http!ExchangesInv, NEW x \in Http!Exchanges, Http!Cut(x)
  PROVE  Http!ExchangesInv'
<1>1. PICK n \in 0 .. Len(wire[x]) : wire' = [wire EXCEPT ![x] = SubSeq(@, 1, n)]
  BY DEF Http!Cut
<1>2. wire[x] \in Seq(Http!Words) /\ wire'[x] = SubSeq(wire[x], 1, n)
  BY <1>1 DEF Http!ExchangesInv, Http!ExchangesOK
<1>3. /\ SubSeq(wire[x], 1, n) \in Seq(Http!Words)
      /\ Len(wire[x]) \in Nat /\ Len(wire'[x]) = n
      /\ \A i \in 1 .. n : wire'[x][i] = wire[x][i]
  BY <1>2
<1>4. wire' \in [Http!Exchanges -> Seq(Http!Words)]
  BY <1>1, <1>3 DEF Http!ExchangesInv, Http!ExchangesOK
<1>5. Http!ExchangesOK'
  BY <1>4 DEF Http!Cut, Http!ExchangesInv, Http!ExchangesOK
<1>6. \A y \in Http!Exchanges \ {x} : Untouched(y)
  BY <1>1 DEF Http!Cut, Http!ExchangesInv, Http!ExchangesOK, Untouched
<1>7. /\ client'[x] = client[x] /\ server'[x] = server[x] /\ ended'[x] = ended[x]
      /\ line[x] = "open" /\ line'[x] = "cut" /\ controllers' = controllers
      /\ Http!Waiting(x)' <=> Http!Waiting(x)
  BY DEF Http!Cut, Http!ExchangesInv, Http!ExchangesOK, Http!Waiting
<1>8. Consistent(x)
  BY DEF Http!ExchangesInv, Consistent
<1>9. Http!Progress(x)' /\ Http!Complete(x)' /\ Http!Honest(x)'
  BY <1>7, <1>8 DEF Consistent, Http!Progress, Http!Complete, Http!Honest
<1>10. Http!Truthful(x)'
  <2> SUFFICES ASSUME NEW i \in 1 .. Len(wire'[x])
               PROVE  /\ wire'[x][i] \in {"ok", "result"} => ended[x] = "well"
                      /\ wire'[x][i] \in {"error", "failed"} => ended[x] = "badly"
                      /\ Http!Waiting(x) /\ wire'[x][i] = "end" =>
                           i > 1 /\ wire'[x][i - 1] \in {"result", "failed"}
    BY <1>7 DEF Http!Truthful
  <2>1. i \in 1 .. Len(wire[x]) /\ wire'[x][i] = wire[x][i]
    BY <1>3
  <2>2. i > 1 => wire'[x][i - 1] = wire[x][i - 1]
    BY <1>3
  <2> QED
    BY <2>1, <2>2, <1>8 DEF Consistent, Http!Truthful
<1>11. /\ x \in controllers' <=> x \in Actions /\ Http!Waiting(x)'
       /\ \A y : y # x => (y \in controllers' <=> y \in controllers)
  BY <1>7 DEF Http!ExchangesInv
<1> QED
  BY <1>5, <1>6, <1>9, <1>10, <1>11, OneExchange DEF Consistent

\* stop() breaks every connection, start() none.
LEMMA ListeningKeeps ==
  ASSUME Http!ExchangesInv, Http!StopServer \/ Http!StartServer
  PROVE  Http!ExchangesInv'
<1> USE DEF Http!StopServer, Http!StartServer
<1>1. Http!ExchangesOK'
  BY DEF Http!ExchangesInv, Http!ExchangesOK
<1>2. UNCHANGED <<client, controllers, wire, server, streaming, ended>>
  OBVIOUS
<1>3. \A y \in Http!Exchanges : line'[y] = line[y] \/ (line[y] = "open" /\ line'[y] = "cut")
  BY DEF Http!ExchangesInv, Http!ExchangesOK
<1>4. \A y \in Http!Exchanges : Http!Waiting(y)' <=> Http!Waiting(y)
  BY <1>2 DEF Http!Waiting
<1>5. ASSUME NEW y \in Http!Exchanges
      PROVE  Consistent(y)'
  <2>1. Http!Progress(y) /\ Http!Truthful(y) /\ Http!Complete(y) /\ Http!Honest(y)
    BY DEF Http!ExchangesInv
  <2>2. Http!Progress(y)' /\ Http!Complete(y)' /\ Http!Honest(y)'
    BY <1>2, <1>3, <1>4, <2>1 DEF Http!Progress, Http!Complete, Http!Honest
  <2>3. Http!Truthful(y)'
    BY <1>2, <1>4, <2>1 DEF Http!Truthful
  <2> QED
    BY <2>2, <2>3 DEF Consistent
<1>6. controllers' = {y \in Actions : Http!Waiting(y)'}
  BY <1>2, <1>4 DEF Http!ExchangesInv, Http!Exchanges
<1> QED
  BY <1>1, <1>5, <1>6 DEF Http!ExchangesInv, Consistent

\* What the server does for an exchange it has: it writes what tells the truth of how the
\* exchange ended, if it ended, and no more than that.
LEMMA ServerKeeps ==
  ASSUME Http!ExchangesInv, NEW x \in Http!Exchanges, server[x] \notin {"none", "closed"},
         NEW chunks \in Seq(Http!Words), Http!Write(x, chunks),
         NEW to \in {"arrived", "call", "goal", "result", "topic", "closed"},
         NEW how \in {"no", "well", "badly"}, how # "no" => to = "closed",
         server' = [server EXCEPT ![x] = to], ended' = [ended EXCEPT ![x] = how],
         line' = line \/ line' = [line EXCEPT ![x] = "cut"],
         streaming' \subseteq Http!Exchanges,
         UNCHANGED <<client, controllers, listening>>,
         \A i \in 1 .. Len(chunks) :
           /\ chunks[i] \in {"ok", "result"} => how = "well"
           /\ chunks[i] \in {"error", "failed"} => how = "badly"
           /\ chunks[i] = "end" => i > 1 /\ chunks[i - 1] \in {"result", "failed"},
         line'[x] = "open" /\ to = "closed" =>
           Len(chunks) # 0 /\ chunks[Len(chunks)] \in {"ok", "error", "end"}
  PROVE  Http!ExchangesInv'
<1>1. Http!ExchangesOK
  BY DEF Http!ExchangesInv
<1>2. /\ wire' \in [Http!Exchanges -> Seq(Http!Words)]
      /\ \A y \in Http!Exchanges \ {x} : wire'[y] = wire[y]
      /\ line[x] # "open" => wire'[x] = wire[x]
      /\ line[x] = "open" =>
           /\ Len(wire'[x]) = Len(wire[x]) + Len(chunks)
           /\ \A i \in 1 .. Len(wire[x]) : wire'[x][i] = wire[x][i]
           /\ \A i \in 1 .. Len(chunks) : wire'[x][Len(wire[x]) + i] = chunks[i]
      /\ Len(wire[x]) \in Nat /\ Len(chunks) \in Nat
  BY <1>1, WireWritten
<1>3. Http!ExchangesOK'
  BY <1>1, <1>2 DEF Http!ExchangesOK
<1>4. \A y \in Http!Exchanges \ {x} : Untouched(y)
  BY <1>1, <1>2 DEF Http!ExchangesOK, Untouched
<1>5. /\ client[x] # "new" /\ client[x] # "resolved" /\ ended[x] = "no"
      /\ client'[x] = client[x] /\ server'[x] = to /\ ended'[x] = how
      /\ line'[x] = line[x] \/ line'[x] = "cut"
      /\ Http!Waiting(x)' <=> Http!Waiting(x)
  BY <1>1, Underway DEF Http!ExchangesOK, Http!Waiting
<1>6. Consistent(x)
  BY DEF Http!ExchangesInv, Consistent
<1>7. Http!Progress(x)'
  BY <1>5 DEF Http!Progress
<1>8. Http!Honest(x)'
  BY <1>5, <1>6 DEF Consistent, Http!Honest
<1>9. Http!Truthful(x)'
  <2> SUFFICES ASSUME NEW i \in 1 .. Len(wire'[x])
               PROVE  /\ wire'[x][i] \in {"ok", "result"} => how = "well"
                      /\ wire'[x][i] \in {"error", "failed"} => how = "badly"
                      /\ Http!Waiting(x) /\ wire'[x][i] = "end" =>
                           i > 1 /\ wire'[x][i - 1] \in {"result", "failed"}
    BY <1>5 DEF Http!Truthful
  <2>1. CASE i \in 1 .. Len(wire[x])
    <3>1. wire'[x][i] = wire[x][i] /\ (i > 1 => wire'[x][i - 1] = wire[x][i - 1])
      BY <2>1, <1>2
    <3>2. /\ wire[x][i] \notin {"ok", "result", "error", "failed"}
          /\ Http!Waiting(x) /\ wire[x][i] = "end" =>
               i > 1 /\ wire[x][i - 1] \in {"result", "failed"}
      BY <2>1, <1>5, <1>6 DEF Consistent, Http!Truthful
    <3> QED
      BY <3>1, <3>2
  <2>2. CASE i \notin 1 .. Len(wire[x])
    <3>1. line[x] = "open"
      BY <2>2, <1>2
    <3>2. PICK j \in 1 .. Len(chunks) : i = Len(wire[x]) + j
      <4>1. /\ i - Len(wire[x]) \in 1 .. Len(chunks)
            /\ i = Len(wire[x]) + (i - Len(wire[x]))
        BY <2>2, <3>1, <1>2
      <4> QED
        BY <4>1, Zenon
    <3>3. wire'[x][i] = chunks[j]
      BY <3>1, <3>2, <1>2
    <3>4. j > 1 => i > 1 /\ wire'[x][i - 1] = chunks[j - 1]
      <4>1. j > 1 => j - 1 \in 1 .. Len(chunks) /\ i - 1 = Len(wire[x]) + (j - 1) /\ i > 1
        BY <3>2, <1>2
      <4> QED
        BY <4>1, <3>1, <1>2
    <3> QED
      BY <3>3, <3>4
  <2> QED
    BY <2>1, <2>2
<1>10. Http!Complete(x)'
  <2> SUFFICES ASSUME line'[x] = "open", to = "closed"
               PROVE  /\ wire'[x] # <<>>
                      /\ wire'[x][Len(wire'[x])] \in {"ok", "error", "end"}
    BY <1>5 DEF Http!Complete
  <2>1. Len(chunks) # 0 /\ chunks[Len(chunks)] \in {"ok", "error", "end"} /\ line[x] = "open"
    BY <1>5
  <2>2. Len(chunks) \in 1 .. Len(chunks) /\ Len(wire'[x]) # 0
    BY <2>1, <1>2
  <2>3. wire'[x] # <<>>
    BY <2>2
  <2> QED
    BY <2>1, <2>2, <2>3, <1>2
<1>11. /\ x \in controllers' <=> x \in Actions /\ Http!Waiting(x)'
       /\ \A y : y # x => (y \in controllers' <=> y \in controllers)
  BY <1>5 DEF Http!ExchangesInv
<1> QED
  BY <1>3, <1>4, <1>7, <1>8, <1>9, <1>10, <1>11, OneExchange DEF Consistent

\* A write of nothing, and what a connection that is gone would have got.
LEMMA NothingWritten ==
  ASSUME Http!ExchangesOK, NEW x \in Http!Exchanges, wire' = wire
  PROVE  Http!Write(x, <<>>)
<1>1. wire[x] \o <<>> = wire[x]
  BY DEF Http!ExchangesOK
<1>2. wire = [wire EXCEPT ![x] = wire[x]]
  BY DEF Http!ExchangesOK
<1> QED
  BY <1>1, <1>2 DEF Http!Write

\* The response is one word, and it says how the exchange ended.
LEMMA AnsweredKeeps ==
  ASSUME Http!ExchangesInv, NEW x \in Http!Exchanges, server[x] \notin {"none", "closed"},
         \/ Http!Finishes(x, "well", <<"ok">>)
         \/ Http!Finishes(x, "badly", <<"error">>),
         line' = line \/ line' = [line EXCEPT ![x] = "cut"],
         UNCHANGED <<client, controllers, listening, streaming>>
  PROVE  Http!ExchangesInv'
<1>1. streaming' \subseteq Http!Exchanges
  BY DEF Http!ExchangesInv, Http!ExchangesOK
<1>2. CASE Http!Finishes(x, "well", <<"ok">>)
  <2> DEFINE c == <<"ok">>
  <2>1. /\ c \in Seq(Http!Words) /\ Len(c) = 1 /\ c[1] = "ok"
        /\ Http!Write(x, c)
    BY <1>2 DEF Http!Words, Http!Finishes
  <2> HIDE DEF c
  <2>2. /\ \A i \in 1 .. Len(c) :
             /\ c[i] \in {"ok", "result"} => "well" = "well"
             /\ c[i] \in {"error", "failed"} => "well" = "badly"
             /\ c[i] = "end" => i > 1 /\ c[i - 1] \in {"result", "failed"}
        /\ Len(c) # 0 /\ c[Len(c)] \in {"ok", "error", "end"}
    BY <2>1
  <2>3. server' = [server EXCEPT ![x] = "closed"] /\ ended' = [ended EXCEPT ![x] = "well"]
    BY <1>2 DEF Http!Finishes
  <2> QED
    BY <1>1, <2>1, <2>2, <2>3, ServerKeeps
<1>3. CASE Http!Finishes(x, "badly", <<"error">>)
  <2> DEFINE c == <<"error">>
  <2>1. /\ c \in Seq(Http!Words) /\ Len(c) = 1 /\ c[1] = "error"
        /\ Http!Write(x, c)
    BY <1>3 DEF Http!Words, Http!Finishes
  <2> HIDE DEF c
  <2>2. /\ \A i \in 1 .. Len(c) :
             /\ c[i] \in {"ok", "result"} => "badly" = "well"
             /\ c[i] \in {"error", "failed"} => "badly" = "badly"
             /\ c[i] = "end" => i > 1 /\ c[i - 1] \in {"result", "failed"}
        /\ Len(c) # 0 /\ c[Len(c)] \in {"ok", "error", "end"}
    BY <2>1
  <2>3. server' = [server EXCEPT ![x] = "closed"] /\ ended' = [ended EXCEPT ![x] = "badly"]
    BY <1>3 DEF Http!Finishes
  <2> QED
    BY <1>1, <2>1, <2>2, <2>3, ServerKeeps
<1> QED
  BY <1>2, <1>3

\* One more event of a stream that goes on.
LEMMA StreamedKeeps ==
  ASSUME Http!ExchangesInv, NEW x \in Http!Exchanges, server[x] \notin {"none", "closed"},
         NEW to \in {"topic", "goal", "result"}, NEW event \in {"event", "accepted"},
         Http!Streams200(x, to, event),
         UNCHANGED <<client, controllers, line, listening, ended>>
  PROVE  Http!ExchangesInv'
<1> DEFINE c == Http!Head200(x) \o <<event>>
<1>1. Http!Head200(x) \in Seq({"head", "event", "accepted"})
  <2>1. <<>> \in Seq({"head", "event", "accepted"})
    OBVIOUS
  <2>2. <<"head">> \in Seq({"head", "event", "accepted"})
    OBVIOUS
  <2> QED
    BY <2>1, <2>2, Zenon DEF Http!Head200
<1>2. /\ c \in Seq({"head", "event", "accepted"}) /\ c \in Seq(Http!Words)
      /\ \A i \in 1 .. Len(c) : c[i] \in {"head", "event", "accepted"}
  <2>1. c \in Seq({"head", "event", "accepted"})
    BY <1>1
  <2> HIDE DEF c
  <2> QED
    BY <2>1 DEF Http!Words
<1>3. Http!Write(x, c) /\ streaming' \subseteq Http!Exchanges
  BY DEF Http!Streams200, Http!ExchangesInv, Http!ExchangesOK
<1> HIDE DEF c
<1>4. ended[x] = "no" /\ ended' = [ended EXCEPT ![x] = "no"]
  BY Underway DEF Http!ExchangesInv, Http!ExchangesOK
<1> QED
  BY <1>2, <1>3, <1>4, ServerKeeps DEF Http!Streams200

\* The result of a goal and the end of its stream.
LEMMA GoalEndsKeeps ==
  ASSUME Http!ExchangesInv, NEW x \in Http!Exchanges, Http!GoalEnds(x)
  PROVE  Http!ExchangesInv'
<1>1. streaming' \subseteq Http!Exchanges
  BY DEF Http!GoalEnds, Http!ExchangesInv, Http!ExchangesOK
<1>2. ASSUME NEW word \in {"result", "failed"}, NEW how \in {"well", "badly"},
             word = "result" <=> how = "well", Http!Finishes(x, how, <<word, "end">>)
      PROVE  Http!ExchangesInv'
  <2> DEFINE c == <<word, "end">>
  <2>1. /\ c \in Seq(Http!Words) /\ Len(c) = 2 /\ c[1] = word /\ c[2] = "end"
        /\ Http!Write(x, c)
    BY <1>2 DEF Http!Words, Http!Finishes
  <2> HIDE DEF c
  <2>2. \A i \in 1 .. Len(c) :
          /\ c[i] \in {"ok", "result"} => how = "well"
          /\ c[i] \in {"error", "failed"} => how = "badly"
          /\ c[i] = "end" => i > 1 /\ c[i - 1] \in {"result", "failed"}
    BY <1>2, <2>1
  <2>3. Len(c) # 0 /\ c[Len(c)] \in {"ok", "error", "end"}
    BY <2>1
  <2>4. /\ server' = [server EXCEPT ![x] = "closed"] /\ ended' = [ended EXCEPT ![x] = how]
        /\ server[x] \notin {"none", "closed"}
        /\ UNCHANGED <<client, controllers, line, listening>>
    BY <1>2 DEF Http!Finishes, Http!GoalEnds
  <2> QED
    BY <1>1, <2>1, <2>2, <2>3, <2>4, ServerKeeps
<1> QED
  BY <1>2 DEF Http!GoalEnds

\* The server gives up an exchange without a word, or with words that nobody gets.
LEMMA SilentKeeps ==
  ASSUME Http!ExchangesInv, NEW x \in Http!Exchanges, server[x] \notin {"none", "closed"},
         wire' = wire,
         NEW to \in {"arrived", "call", "goal", "result", "topic", "closed"},
         NEW how \in {"no", "well", "badly"}, how # "no" => to = "closed",
         server' = [server EXCEPT ![x] = to], ended' = [ended EXCEPT ![x] = how],
         line' = line \/ line' = [line EXCEPT ![x] = "cut"],
         to = "closed" => line'[x] # "open",
         UNCHANGED <<client, controllers, listening, streaming>>
  PROVE  Http!ExchangesInv'
<1> DEFINE c == <<>>
<1>1. c \in Seq(Http!Words) /\ Len(c) = 0 /\ Http!Write(x, c)
  BY NothingWritten DEF Http!ExchangesInv
<1>2. streaming' \subseteq Http!Exchanges
  BY DEF Http!ExchangesInv, Http!ExchangesOK
<1> HIDE DEF c
<1>3. \A i \in 1 .. Len(c) :
        /\ c[i] \in {"ok", "result"} => how = "well"
        /\ c[i] \in {"error", "failed"} => how = "badly"
        /\ c[i] = "end" => i > 1 /\ c[i - 1] \in {"result", "failed"}
  BY <1>1
<1>4. line'[x] = "open" /\ to = "closed" =>
        Len(c) # 0 /\ c[Len(c)] \in {"ok", "error", "end"}
  OBVIOUS
<1> QED
  BY <1>1, <1>2, <1>3, <1>4, ServerKeeps

\* Whatever the server does for an exchange keeps the invariant.
LEMMA ServerStep ==
  ASSUME Http!ExchangesInv, NEW x \in Http!Exchanges, Http!Server(x)
  PROVE  Http!ExchangesInv'
<1>1. Http!ExchangesOK
  BY DEF Http!ExchangesInv
<1>2. ended \in [Http!Exchanges -> {"no", "well", "badly"}]
      /\ server \in [Http!Exchanges ->
                     {"none", "arrived", "call", "goal", "result", "topic", "closed"}]
  BY <1>1 DEF Http!ExchangesOK
<1>3. CASE Http!RouteRefuses(x)
  BY <1>3, AnsweredKeeps DEF Http!RouteRefuses, Http!Refuses
<1>4. CASE Http!BodyTooLarge(x)
  <2>1. CASE Http!Write(x, <<"error">>)
    <3>1. Http!Finishes(x, "badly", <<"error">>)
      BY <1>4, <2>1, Zenon DEF Http!BodyTooLarge, Http!Finishes
    <3> QED
      BY <1>4, <3>1, AnsweredKeeps DEF Http!BodyTooLarge
  <2>2. CASE UNCHANGED wire
    <3>1. line'[x] # "open"
      BY <1>1, <1>4 DEF Http!BodyTooLarge, Http!ExchangesOK
    <3> QED
      BY <1>4, <2>2, <3>1, SilentKeeps DEF Http!BodyTooLarge
  <2> QED
    BY <1>4, <2>1, <2>2 DEF Http!BodyTooLarge
<1>5. CASE Http!Begin(x)
  <2> /\ server[x] \notin {"none", "closed"}
      /\ UNCHANGED <<client, controllers, line, listening>>
    BY <1>5 DEF Http!Begin
  <2>1. CASE Http!Refuses(x)
    BY <2>1, AnsweredKeeps DEF Http!Refuses
  <2>2. CASE Http!Finishes(x, "well", <<"ok">>) /\ UNCHANGED streaming
    BY <2>2, AnsweredKeeps
  <2>3. CASE /\ server' = [server EXCEPT ![x] = IF x \in Posts THEN "call" ELSE "goal"]
             /\ UNCHANGED <<wire, streaming, ended>>
    <3>1. PICK to \in {"call", "goal"} : server' = [server EXCEPT ![x] = to]
      BY <2>3, Zenon
    <3>2. ended' = [ended EXCEPT ![x] = "no"]
      BY <1>2, <2>3, Underway
    <3> QED
      BY <2>3, <3>1, <3>2, SilentKeeps
  <2>4. CASE Http!Streams200(x, "topic", "event") /\ UNCHANGED ended
    BY <2>4, StreamedKeeps
  <2> QED
    BY <1>5, <2>1, <2>2, <2>3, <2>4 DEF Http!Begin
<1>6. CASE Http!CallAnswered(x)
  BY <1>6, AnsweredKeeps DEF Http!CallAnswered
<1>7. CASE Http!EventComes(x)
  BY <1>7, StreamedKeeps DEF Http!EventComes
<1>8. CASE Http!GoalAnswered(x)
  <2> /\ server[x] \notin {"none", "closed"}
      /\ UNCHANGED <<client, controllers, line, listening>>
    BY <1>8 DEF Http!GoalAnswered
  <2>1. CASE Http!Refuses(x)
    BY <2>1, AnsweredKeeps DEF Http!Refuses
  <2>2. CASE Http!Streams200(x, "result", "accepted") /\ UNCHANGED ended
    BY <2>2, StreamedKeeps
  <2> QED
    BY <1>8, <2>1, <2>2 DEF Http!GoalAnswered
<1>9. CASE Http!GoalEnds(x)
  BY <1>9, GoalEndsKeeps
<1>10. CASE Http!ResponseCloses(x)
  <2>1. wire' = wire
    BY <1>1, <1>10 DEF Http!ResponseCloses, Http!Write, Http!ExchangesOK
  <2>2. ended' = [ended EXCEPT ![x] = "no"]
    BY <1>2, <1>10, Underway DEF Http!ResponseCloses
  <2> QED
    BY <1>10, <2>1, <2>2, SilentKeeps DEF Http!ResponseCloses
<1> QED
  BY <1>3, <1>4, <1>5, <1>6, <1>7, <1>8, <1>9, <1>10 DEF Http!Server

\* Nothing happens.
LEMMA HttpIdle ==
  ASSUME Http!ExchangesInv, UNCHANGED httpVars
  PROVE  Http!ExchangesInv'
<1>1. UNCHANGED <<client, controllers, line, wire, listening, server, streaming, ended>>
  BY DEF httpVars
<1>2. Http!ExchangesOK'
  BY <1>1 DEF Http!ExchangesInv, Http!ExchangesOK
<1>3. \A y \in Http!Exchanges : Consistent(y)'
  BY <1>1, UntouchedKept DEF Untouched, Http!ExchangesInv, Consistent
<1>4. \A y : Http!Waiting(y)' <=> Http!Waiting(y)
  BY <1>1 DEF Http!Waiting
<1>5. controllers' = {y \in Actions : Http!Waiting(y)'}
  BY <1>1, <1>4 DEF Http!ExchangesInv
<1> QED
  BY <1>2, <1>3, <1>5 DEF Http!ExchangesInv, Consistent

\* A step of the client, whatever link it has.
LEMMA HttpStepInv ==
  ASSUME Http!ExchangesInv, [ClientNext]_allVars
  PROVE  Http!ExchangesInv'
<1>1. ASSUME WsStep \/ CloseUnopened \/ UNCHANGED allVars
      PROVE  Http!ExchangesInv'
  BY <1>1, HttpIdle DEF WsStep, CloseUnopened, allVars
<1>2. CASE HttpStep
  BY <1>2, ListeningKeeps, ReadingKeeps, ReadFailsKeeps, CutKeeps, ServerStep
     DEF HttpStep, Http!Next, Http!Reading
<1>3. CASE CloseHttp
  BY <1>3, CloseLinkKeeps DEF CloseHttp
<1>4. ASSUME NEW x \in Posts \cup Actions \cup Streams, HttpVerb(x)
      PROVE  Http!ExchangesInv'
  BY <1>4, FetchKeeps DEF HttpVerb, Http!Exchanges
<1> QED
  BY <1>1, <1>2, <1>3, <1>4 DEF ClientNext

\* No exchange has begun.
LEMMA HttpInitInv ==
  ASSUME Http!Init
  PROVE  Http!ExchangesInv
<1>1. Http!ExchangesOK
  <2>1. <<>> \in Seq(Http!Words)
    OBVIOUS
  <2> QED
    BY <2>1 DEF Http!Init, Http!ExchangesOK
<1>2. \A x \in Http!Exchanges : ~Http!Waiting(x)
  BY DEF Http!Init, Http!Waiting
<1>3. \A x \in Http!Exchanges :
        Http!Progress(x) /\ Http!Truthful(x) /\ Http!Complete(x) /\ Http!Honest(x)
  BY DEF Http!Init, Http!Progress, Http!Truthful, Http!Complete, Http!Honest, Http!Waiting
<1>4. controllers = {x \in Actions : Http!Waiting(x)}
  BY <1>2 DEF Http!Init, Http!Exchanges
<1> QED
  BY <1>1, <1>3, <1>4 DEF Http!ExchangesInv

\* A client with either link is, as far as the WebSocket link goes, that link.
LEMMA ClientStep == [ClientNext]_allVars => [Next]_vars
BY DEF ClientNext, WsStep, HttpStep, CloseHttp, CloseUnopened, HttpVerb, allVars, Next, User

-----------------------------------------------------------------------------
(* The theorems.                                                           *)

\* The initial states satisfy the invariant.
LEMMA InitInv ==
  ASSUME Init
  PROVE  IInv
<1>1. FlagsOK
  BY Zenon DEF Init, FlagsOK
<1>2. PointsOK
  BY DEF Init, PointsOK
<1>3. RequestsOK
  BY DEF Init, RequestsOK
<1>4. WireOK
  BY DEF Init, WireOK
<1>5. Stages
  BY DEF Init, Stages
<1>6. OneAttempt
  BY DEF Init, OneAttempt
<1>7. FlagsAgree
  BY DEF Init, FlagsAgree
<1>8. SubsKnown
  BY DEF Init, SubsKnown, InUp, InDown
<1>9. SubsTracked
  BY DEF Init, SubsTracked
<1> QED
  BY <1>1, <1>2, <1>3, <1>4, <1>5, <1>6, <1>7, <1>8, <1>9 DEF IInv, TypeOK

\* Every step keeps the invariant.
LEMMA StepInv ==
  ASSUME IInv, [Next]_vars
  PROVE  IInv'
<1>1. TypeOK'
  BY FlagsStep, PointsStep, RequestsStep, WireStep DEF IInv, TypeOK
<1>2. Stages'
  BY StagesStep DEF IInv, TypeOK
<1>3. OneAttempt'
  BY AttemptStep DEF IInv, TypeOK
<1>4. FlagsAgree'
  BY FlagsAgreeStep DEF IInv, TypeOK
<1>5. SubsKnown'
  BY KnownStep DEF IInv, TypeOK
<1>6. SubsTracked'
  BY TrackedStep DEF IInv, TypeOK
<1> QED
  BY <1>1, <1>2, <1>3, <1>4, <1>5, <1>6 DEF IInv

\* _isReconnecting, _closed, _isUserClosed, the timer and the state of the socket stay
\* in step, through drops, failed handshakes and close().
THEOREM Invariance == Spec => []IInv
<1> QED
  BY InitInv, StepInv, PTL DEF Spec

\* A promise is open just as long as its request is in _pending.
THEOREM TypeCorrect == Spec => []TypeOK
<1>1. IInv => TypeOK
  BY DEF IInv
<1> QED
  BY <1>1, Invariance, PTL

\* _scheduleReconnect and close(): one attempt at a time, none after close().
THEOREM AttemptsDoNotPileUp == Spec => []OneAttempt
<1>1. IInv => OneAttempt
  BY DEF IInv
<1> QED
  BY <1>1, Invariance, PTL

\* The flags that call, publish, action and cancel test tell them whether somebody
\* will settle their promise.
THEOREM FlagsTellTheTruth == Spec => []FlagsAgree
<1>1. IInv => FlagsAgree
  BY DEF IInv
<1> QED
  BY <1>1, Invariance, PTL

\* _resubscribeAll and close() of a subscription: when all that is under way has arrived,
\* the peer has just the subscriptions that the user has.
THEOREM SubscriptionsSurviveDrops == Spec => []SubscriptionsRestored
<1>1. ASSUME IInv, socket = "open", up = <<>>, down = <<>>
      PROVE  served = subs
  <2>1. served \subseteq Subs /\ subs \subseteq Subs
    BY <1>1 DEF IInv, TypeOK, WireOK, RequestsOK
  <2>2. \A s \in Subs : Tracked(s)
    BY <1>1 DEF IInv, SubsTracked
  <2>3. Len(up) = 0 /\ Len(down) = 0
    BY <1>1
  <2>4. \A s \in Subs : s \in served <=> s \in subs
    BY <2>2, <2>3 DEF Tracked, InUp, InDown
  <2> QED
    BY <2>1, <2>4
<1>2. IInv => SubscriptionsRestored
  BY <1>1 DEF SubscriptionsRestored
<1> QED
  BY <1>2, Invariance, PTL

\* _request, action and _failAll: while the socket is open nobody waits for a frame that
\* was lost, neither an answer nor the result of a goal, however often it was lost before
\* and whatever was sent in between.
THEOREM NothingWaitsForLostFrames == Spec => []Owed
<1>1. OwedInv => Owed
  BY DEF OwedInv, Owed, GoalFollowed, Connected
<1> QED
  BY <1>1, InitInv, StepInv, OwedInit, OwedStep, PTL DEF Spec

\* A client that has either link implements the WebSocket link, so all of the above holds
\* of it too, whenever its HTTP link is closed.
THEOREM ClientHasTheLink == ClientSpec => Spec
<1>1. ClientInit => Init
  BY DEF ClientInit
<1> QED
  BY <1>1, ClientStep, PTL DEF ClientSpec, Spec

\* So a client keeps to one attempt and to its subscriptions, and its flags tell the truth.
THEOREM ClientIsSound == ClientSpec => [](OneAttempt /\ FlagsAgree /\ SubscriptionsRestored)
<1> QED
  BY ClientHasTheLink, AttemptsDoNotPileUp, FlagsTellTheTruth, SubscriptionsSurviveDrops, PTL

\* fetch(), _pumpActionStream and close() at the client, the response and its 'close' at the
\* server: whatever breaks in between, they agree on what became of an exchange.
THEOREM ExchangesEndAlike == ClientSpec => []ExchangesAgree
<1>1. ClientInit => Http!ExchangesInv
  BY HttpInitInv DEF ClientInit
<1>2. ASSUME Http!ExchangesInv
      PROVE  ExchangesAgree
  <2>1. controllers = {x \in Actions : Http!Waiting(x)}
    BY <1>2 DEF Http!ExchangesInv
  <2>2. ASSUME NEW x \in Http!Exchanges
        PROVE  /\ client[x] = "resolved" => ended[x] = "well"
               /\ client[x] = "rejected" => ended[x] = "badly" \/ line[x] = "cut"
               /\ Http!Waiting(x) /\ line[x] = "open" =>
                    wire[x] # <<>> \/ server[x] \notin {"none", "closed"}
    <3>1. Http!Progress(x) /\ Http!Complete(x) /\ Http!Honest(x)
      BY <1>2 DEF Http!ExchangesInv
    <3> QED
      BY <3>1 DEF Http!Progress, Http!Complete, Http!Honest
  <2> QED
    BY <2>1, <2>2 DEF ExchangesAgree, Http!ExchangesAgree
<1> QED
  BY <1>1, <1>2, HttpStepInv, PTL DEF ClientSpec

================================================================================
