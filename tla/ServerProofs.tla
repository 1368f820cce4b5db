---------------------------- MODULE ServerProofs ----------------------------
(***************************************************************************)
(* What is proved about the parts of uWebSockets and uSockets holds in the *)
(* one state space they are composed to: a part that runs makes its own    *)
(* steps, and one that does not makes none.                                *)
(***************************************************************************)
EXTENDS Server, LoopProofs, WebProofs, StreamProofs, FramesProofs

-----------------------------------------------------------------------------
LEMMA PartsBegin ==
  ASSUME Init
  PROVE  /\ SocketLoopInit /\ EpollInit /\ GcdInit /\ HttpServerInit /\ DeferInit /\ TopicsInit
         /\ FramesInit /\ WebSocketsInit /\ HttpParserInit /\ HttpRouterInit
BY DEF Init

(* Every step is one of each part, or leaves the part alone.                 *)
LEMMA PartsStep ==
  ASSUME [Next]_vars
  PROVE  /\ [SocketLoopNext]_loopVars /\ [EpollNext]_epollVars /\ [GcdNext]_gcdVars
         /\ [HttpServerNext]_serverVars /\ [DeferNext]_deferVars /\ [TopicsNext]_topicVars
         /\ [FramesNext]_framesVars /\ [WebSocketsNext]_webSocketVars
         /\ [HttpParserNext]_parserVars /\ [HttpRouterNext]_routes
<1>1. CASE UNCHANGED vars
  BY <1>1 DEF vars
<1>2. CASE Next
  <2>1. [SocketLoopNext]_loopVars
    BY <1>2 DEF Next
  <2>2. [EpollNext]_epollVars
    BY <1>2 DEF Next
  <2>3. [GcdNext]_gcdVars
    BY <1>2 DEF Next
  <2>4. [HttpServerNext]_serverVars
    BY <1>2 DEF Next
  <2>5. [DeferNext]_deferVars
    BY <1>2 DEF Next
  <2>6. [TopicsNext]_topicVars
    BY <1>2 DEF Next
  <2>7. [FramesNext]_framesVars
    BY <1>2 DEF Next
  <2>8. [WebSocketsNext]_webSocketVars
    BY <1>2 DEF Next
  <2>9. [HttpParserNext]_parserVars
    BY <1>2 DEF Next
  <2>10. [HttpRouterNext]_routes
    BY <1>2 DEF Next
  <2> QED
    BY <2>1, <2>2, <2>3, <2>4, <2>5, <2>6, <2>7, <2>8, <2>9, <2>10
<1> QED
  BY <1>1, <1>2

-----------------------------------------------------------------------------
(* The composition adds nothing to a part: a behaviour of it is a behaviour  *)
(* of every part whose specification states no fairness, as the one that     *)
(* runs or by standing still.                                                *)
THEOREM PartsRun ==
  Spec => /\ SocketLoopSpec /\ EpollSpec /\ GcdSpec /\ TopicsSpec
          /\ FramesSpec /\ HttpParserSpec /\ HttpRouterSpec
<1>1. Init => /\ SocketLoopInit /\ EpollInit /\ GcdInit /\ TopicsInit
              /\ FramesInit /\ HttpParserInit /\ HttpRouterInit
  BY PartsBegin
<1>2. [Next]_vars => /\ [SocketLoopNext]_loopVars /\ [EpollNext]_epollVars /\ [GcdNext]_gcdVars
                     /\ [TopicsNext]_topicVars /\ [FramesNext]_framesVars
                     /\ [HttpParserNext]_parserVars /\ [HttpRouterNext]_routes
  BY PartsStep
<1> QED
  BY <1>1, <1>2, PTL DEF Spec, SocketLoopSpec, EpollSpec, GcdSpec, TopicsSpec, FramesSpec,
                         HttpParserSpec, HttpRouterSpec

(* The parts that are also fair keep their invariants without it.            *)
FairParts == HttpInv /\ RestInv /\ DeferInv /\ WebSocketsInv /\ SendsInv
LEMMA FairPartsKeep == Spec => []FairParts
<1>1. Init => FairParts
  BY PartsBegin, InitHttp, InitRest, DeferInvInit, InitTold, InitSends DEF FairParts
<1>2. FairParts /\ [Next]_vars => FairParts'
  BY PartsStep, NextKeepsHttp, NextKeepsRest, DeferInvStep, NextKeepsWs, NextKeepsSends
     DEF FairParts
<1> QED
  BY <1>1, <1>2, PTL DEF Spec

(* Everything the run of the server checks of its sockets, polls, streams    *)
(* and callbacks holds in every reachable state, for any number of sockets,  *)
(* polls, connections, topics, frames, requests and routes.                  *)
THEOREM ServerSafe ==
  Spec => [](/\ ListsSound /\ SweepVisitsOnce /\ FailedWriteIsTold
             /\ ReadyPollsLive /\ SourcesBalanced
             /\ StreamIsWhatWasWritten /\ IdleTimesOut /\ DeferredInOrder
             /\ MessagesOnceInOrder /\ DeliveredAsSent
             /\ CloseToldOnce /\ FinComesLast
             /\ RequestsAsSent /\ RoutesAsMatched)
<1>1. FairParts => /\ StreamIsWhatWasWritten /\ IdleTimesOut /\ DeferredInOrder
                   /\ CloseToldOnce /\ FinComesLast
  BY StreamRuns, IdleTimed, CloseTold, FinLast DEF FairParts, DeferInv
<1> QED
  BY <1>1, FairPartsKeep, PartsRun, SocketListsSound, SweepVisitsEachOnce, FailedWriteTold,
     ReadyPollsStayLive, SourcesStayBalanced, MessagesComeOnceInOrder, FramesComeAsSent,
     RequestsComeAsSent, RoutesComeAsMatched, PTL

(* And so do the types of all its parts: no pointer leads outside the memory *)
(* it is of, no number passes its bound, no state is one that is not there.  *)
THEOREM ServerTypes == Spec => []ServerTypeOK
<1>1. FairParts => HttpServerTypeOK /\ WebSocketsTypeOK /\ DeferTypeOK
  BY HttpTypes, WsTypes DEF FairParts, DeferInv, QueuesInv
<1>2. GcdInv => GcdTypeOK
  BY DEF GcdInv
<1>3. /\ SocketLoopTypeOK /\ EpollTypeOK /\ GcdTypeOK /\ HttpServerTypeOK /\ DeferTypeOK
      /\ TopicsTypeOK /\ FramesTypeOK /\ WebSocketsTypeOK /\ HttpParserTypeOK
      => ServerTypeOK
  BY DEF ServerTypeOK
<1>4. GcdSpec => []GcdInv
  BY GcdInvInit, GcdInvStep, PTL DEF GcdSpec
<1> QED
  BY <1>1, <1>2, <1>3, <1>4, FairPartsKeep, PartsRun, SocketLoopTypes, EpollTypesHold,
     TopicsTypes, FramesTypesHold, HttpParserTypes, PTL
=============================================================================
