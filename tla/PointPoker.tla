----------------------------- MODULE PointPoker -----------------------------
(***************************************************************************)
(* The whole server: the request threads of PokerSessions, the listeners   *)
(* of UserEventQueues and the streams of VoteStreams.  They meet in two    *)
(* places: the events the service publishes and the listeners handle, and  *)
(* broadcastEvents, which opens a stream for a user the service has found  *)
(* in the session.                                                         *)
(***************************************************************************)
EXTENDS PokerSessions

CONSTANTS MaxEvents, Streams

VARIABLES sessionUserEventMap, userEventMaps, eventQueues, handlers, streams

Delivery == INSTANCE VoteStreams

ASSUME SystemAssumption == MaxEvents \in Nat /\ MaxEvents >= 2 * MaxRequests

deliverySide == <<sessionUserEventMap, userEventMaps, eventQueues, handlers, streams>>
serverVars == <<vars, deliverySide>>

ServerInit == Init /\ Delivery!QueuesInit /\ Delivery!StreamsInit

\* broadcastEvents: the user is in the session; the emitter is the delivery
\* side's business.
FetchVotes(t, k) ==
  /\ broadcastEvents(t)
  /\ Delivery!OpenStream(k, request[t].sid, request[t].user)

ServerNext ==
  \/ \E t \in Threads : (Arrival(t) \/ ServiceStep(t)) /\ UNCHANGED deliverySide
  \/ \E t \in Threads, k \in Streams : FetchVotes(t, k)
  \/ \E n \in Delivery!Ids : Delivery!HandlerStep(n) /\ UNCHANGED <<vars, streams>>
  \/ \E k \in Streams :
       (Delivery!StreamStep(k) \/ Delivery!CloseEmitter(k)) /\ UNCHANGED vars

ServerSpec == ServerInit /\ [][ServerNext]_serverVars

(***************************************************************************)
(* The listeners and streams never meet anything from the service that     *)
(* VoteStreams was not checked against: the server is one of the           *)
(* environments its specification allows, so what holds of it in every     *)
(* such environment holds in the server.                                   *)
(***************************************************************************)
ImplementsDelivery == Delivery!DeliverySpec

-----------------------------------------------------------------------------
\* The server when the listeners are given the time to settle; requests still
\* interleave.
SettledServerSpec == ServerInit /\ [][ServerNext /\ Delivery!Settled']_serverVars

(***************************************************************************)
(* Once the listeners have caught up, whoever is in a session that still   *)
(* exists and whose creation or join has been announced can be sent its    *)
(* votes: there is an active queue, whatever requests of all users         *)
(* interleaved to get there.                                               *)
(***************************************************************************)
MembersHaveQueues ==
  Delivery!AllHandled =>
    \A s \in pokerSessions : \A u \in Members(s) :
      Announced(s, u) =>
        LET q == Delivery!Registered(s, u)
        IN  q # Delivery!Null /\ eventQueues[q].active

-----------------------------------------------------------------------------
(***************************************************************************)
(* The client of ServiceControllerTest.fetchVoteEvents_shouldSucceed200:   *)
(* one user creates a session, joins it, votes, resets and fetches the     *)
(* votes, each request after the response to the one before, and keeps the *)
(* connection open.                                                        *)
(***************************************************************************)
TestScript == <<"create", "join", "vote", "reset", "fetch">>

ScriptedNext ==
  /\ ServerNext
  /\ \A t \in Threads :
       pc[t] = "idle" /\ pc'[t] # "idle" =>
         Quiet /\ request'[t].op = TestScript[accepted']
  /\ \A k \in Streams : streams'[k].emitter \notin {"timedOut", "gone"}

ScriptedSpec == ServerInit /\ [][ScriptedNext]_serverVars

(***************************************************************************)
(* What that test expects of the stream it gets ("Response should contain  *)
(* two events(user-vote and reset-vote)"): by the time it is completed it  *)
(* has carried the vote and the reset.  The code does not guarantee it:    *)
(* the reset may be handled first, or the vote before there is a queue.    *)
(***************************************************************************)
TestSeesTwoEvents ==
  \A k \in Streams :
    streams[k].emitter = "completed" =>
      {published[streams[k].sent[i]].type : i \in DOMAIN streams[k].sent}
        = {UserVoted, VoteReset}
=============================================================================
