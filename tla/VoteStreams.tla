---------------------------- MODULE VoteStreams ----------------------------
(***************************************************************************)
(* The streams of vote events: getEventEmitter of                          *)
(* SessionUserEventServiceImpl, the consumer thread PoisonPillStrategy     *)
(* starts for every stream, and the SseEmitter it writes to.               *)
(*                                                                         *)
(* A stream belongs to one GET request of a user.  Its consumer is bound   *)
(* to the EventQueue found when the stream was opened; several consumers   *)
(* may be bound to one queue (a client that reconnects), and a queue may   *)
(* be retired under its consumer.  The emitter is Spring's: what is        *)
(* modelled of it is whether it still takes data and the events the client *)
(* has been sent.                                                          *)
(***************************************************************************)
EXTENDS UserEventQueues

CONSTANT Streams  \* the streams that may be opened

VARIABLE streams  \* the state of every stream

deliveryVars == <<listenerVars, streams>>

\* refused: RuntimeException("Emitter unavailable") or a null pointer, 500;
\* ended: the consumer thread has returned; crashed: a RuntimeException ended it.
StreamPlaces ==
  {"unopened", "containsSession", "getMap", "containsUser", "getMapAgain", "getQueue",
   "refused", "loop", "take", "send", "complete", "ended", "crashed"}

\* gone: the client has closed the connection
EmitterStates == {"none", "open", "timedOut", "gone", "completed"}

Stream == [at : StreamPlaces, sid : Sessions \cup {Null}, uid : Users \cup {Null},
           map : Ids \cup {Null}, queue : Ids \cup {Null}, holding : Ids \cup {Null},
           emitter : EmitterStates, sent : Seq(Ids)]

Unopened == [at |-> "unopened", sid |-> Null, uid |-> Null, map |-> Null,
             queue |-> Null, holding |-> Null, emitter |-> "none", sent |-> <<>>]

\* Types; a consumer in take() or send() has got a queue or an event.  One that
\* got a null queue has died of it.
DeliveryTypeOK ==
  /\ QueuesTypeOK
  /\ streams \in [Streams -> Stream]
  /\ \A k \in Streams :
       /\ streams[k].at = "take" => streams[k].queue # Null
       /\ streams[k].at = "send" => streams[k].holding # Null

StreamsInit == streams = [k \in Streams |-> Unopened]

-----------------------------------------------------------------------------
\* broadcastEvents has validated the user and calls getEventEmitter.
OpenStream(k, s, u) ==
  /\ streams[k].at = "unopened"
  /\ streams' = [streams EXCEPT ![k].at = "containsSession", ![k].sid = s, ![k].uid = u]
  /\ UNCHANGED listenerVars

\* Stream k goes from l to m.
Advance(k, l, m) ==
  /\ streams[k].at = l
  /\ streams' = [streams EXCEPT ![k].at = m]
  /\ UNCHANGED listenerVars

\* The condition of getEventEmitter, call by call; the map may be gone at the
\* second look, and is then dereferenced as null.
ContainsSession(k) ==
  Advance(k, "containsSession",
    IF sessionUserEventMap[streams[k].sid] = Null THEN "refused" ELSE "getMap")

GetUserMap(k, l, m) ==
  LET found == sessionUserEventMap[streams[k].sid]
  IN  /\ streams[k].at = l
      /\ streams' = [streams EXCEPT ![k].at = IF found = Null THEN "refused" ELSE m,
                                    ![k].map = found]
      /\ UNCHANGED listenerVars

ContainsUser(k) ==
  /\ streams[k].map # Null
  /\ Advance(k, "containsUser",
       IF userEventMaps[streams[k].map][streams[k].uid] = Null
       THEN "refused" ELSE "getMapAgain")

\* The queue is read anew, null if it has been removed since the condition,
\* and handed to execute, which makes the emitter and starts the consumer.
execute(k) ==
  /\ streams[k].at = "getQueue"
  /\ streams' = [streams EXCEPT
       ![k].at = "loop",
       ![k].queue = userEventMaps[streams[k].map][streams[k].uid],
       ![k].map = Null,
       ![k].emitter = "open"]
  /\ UNCHANGED listenerVars

GetEventEmitter(k) ==
  \/ ContainsSession(k)
  \/ GetUserMap(k, "getMap", "containsUser")
  \/ ContainsUser(k)
  \/ GetUserMap(k, "getMapAgain", "getQueue")
  \/ execute(k)

-----------------------------------------------------------------------------
(***************************************************************************)
(* Faulty variants of definitions below, each with a mistake that is easy  *)
(* to make in the code.  DeliveryNext has none of them; they are there to  *)
(* show that the properties tell them from the real ones.                  *)
(***************************************************************************)

\* compareTo the wrong way round
Earliest_latest(q) ==
  {n \in eventQueues[q].events :
     \A m \in eventQueues[q].events : published[n].ts >= published[m].ts}

\* poll(), which returns null from an empty queue
Take_polls(k) ==
  LET q == streams[k].queue
  IN  /\ streams[k].at = "take"
      /\ \E n \in IF eventQueues[q].events = {} THEN {Null} ELSE eventQueues[q].events :
           /\ eventQueues' = [eventQueues EXCEPT ![q].events = @ \ {n}]
           /\ streams' = [streams EXCEPT ![k].at = "send", ![k].holding = n]
      /\ UNCHANGED <<published, sessionUserEventMap, userEventMaps, handlers>>

\* peek(), which leaves the event in the queue
Take_peeks(k) ==
  /\ streams[k].at = "take"
  /\ \E n \in eventQueues[streams[k].queue].events :
       streams' = [streams EXCEPT ![k].at = "send", ![k].holding = n]
  /\ UNCHANGED listenerVars

\* A consumer that looks for votes only
Take_votes(k) ==
  /\ streams[k].at = "take"
  /\ \E n \in eventQueues[streams[k].queue].events :
       /\ published[n].type = UserVoted
       /\ eventQueues' = [eventQueues EXCEPT ![streams[k].queue].events = @ \ {n}]
       /\ streams' = [streams EXCEPT ![k].at = "send", ![k].holding = n]
  /\ UNCHANGED <<published, sessionUserEventMap, userEventMaps, handlers>>

\* A consumer that goes on after a reset
Send_continues(k) ==
  /\ streams[k].at = "send" /\ streams[k].emitter = "open"
  /\ streams' = [streams EXCEPT ![k].at = "loop", ![k].holding = Null,
                                ![k].sent = Append(@, streams[k].holding)]
  /\ UNCHANGED listenerVars

\* A reset after which the consumer returns at once
Send_returns(k) ==
  LET n == streams[k].holding
  IN  /\ streams[k].at = "send" /\ streams[k].emitter = "open"
      /\ streams' = [streams EXCEPT
           ![k].at = IF published[n].type = VoteReset THEN "ended" ELSE "loop",
           ![k].holding = Null,
           ![k].sent = Append(@, n)]
      /\ UNCHANGED listenerVars

-----------------------------------------------------------------------------
\* while (eventQueue.isActive()).  A consumer that leaves the loop here does
\* not complete its emitter, nor does one whose queue is null.
IsActive(k) ==
  /\ streams[k].queue # Null
  /\ Advance(k, "loop", IF eventQueues[streams[k].queue].active THEN "take" ELSE "ended")

NoQueue(k) ==
  /\ streams[k].queue = Null
  /\ Advance(k, "loop", "crashed")

\* The events a take() may return: the earliest of the queue.  Nothing is
\* said of the order of events of the same millisecond.
Earliest(q) ==
  {n \in eventQueues[q].events :
     \A m \in eventQueues[q].events : published[n].ts <= published[m].ts}

\* take() blocks while the queue is empty, even one that has been disabled.
Take(k) ==
  /\ streams[k].at = "take"
  /\ \E n \in Earliest(streams[k].queue) :
       /\ eventQueues' = [eventQueues EXCEPT ![streams[k].queue].events = @ \ {n}]
       /\ streams' = [streams EXCEPT ![k].at = "send", ![k].holding = n]
  /\ UNCHANGED <<published, sessionUserEventMap, userEventMaps, handlers>>

\* send: after a reset the emitter is completed and the consumer returns.
Send(k) ==
  LET n == streams[k].holding
  IN  /\ streams[k].at = "send" /\ streams[k].emitter = "open"
      /\ streams' = [streams EXCEPT
           ![k].at = IF published[n].type = VoteReset THEN "complete" ELSE "loop",
           ![k].holding = Null,
           ![k].sent = Append(@, n)]
      /\ UNCHANGED listenerVars

\* The client is gone: IOException, completeWithError.  The event is lost.
SendFails(k) ==
  /\ streams[k].at = "send" /\ streams[k].emitter = "gone"
  /\ streams' = [streams EXCEPT ![k].at = "ended", ![k].holding = Null,
                                ![k].emitter = "completed"]
  /\ UNCHANGED listenerVars

\* The emitter has timed out: IllegalStateException, which nothing catches.
\* The event is lost.
SendTooLate(k) ==
  /\ streams[k].at = "send" /\ streams[k].emitter = "timedOut"
  /\ streams' = [streams EXCEPT ![k].at = "crashed", ![k].holding = Null]
  /\ UNCHANGED listenerVars

Complete(k) ==
  /\ streams[k].at = "complete"
  /\ streams' = [streams EXCEPT ![k].at = "ended", ![k].emitter =
                   IF @ = "open" THEN "completed" ELSE @]
  /\ UNCHANGED listenerVars

\* The container ends an open emitter after two minutes, or the client does.
CloseEmitter(k) ==
  /\ streams[k].emitter = "open"
  /\ \E e \in {"timedOut", "gone"} : streams' = [streams EXCEPT ![k].emitter = e]
  /\ UNCHANGED listenerVars

-----------------------------------------------------------------------------
\* The consumer of stream k, and before it the request that starts it
ConsumerStep(k) ==
  \/ IsActive(k) \/ NoQueue(k) \/ Take(k)
  \/ Send(k) \/ SendFails(k) \/ SendTooLate(k) \/ Complete(k)

StreamStep(k) == GetEventEmitter(k) \/ ConsumerStep(k)

\* Clients as the listeners see them: events two of which may be made in one
\* millisecond, and streams of any user opened at any time.
LastTime == IF published = <<>> THEN 0 ELSE published[Len(published)].ts

DeliveryInit == ListenersInit /\ StreamsInit

DeliveryNext ==
  \/ /\ UNCHANGED streams
     /\ \/ \E d \in Ticks : \E ev \in EventsAt(LastTime + d) : MulticastEvent(ev)
        \/ \E n \in Ids : HandlerStep(n)
  \/ \E k \in Streams :
       \/ \E s \in Sessions, u \in Users : OpenStream(k, s, u)
       \/ StreamStep(k)
       \/ CloseEmitter(k)

DeliverySpec == DeliveryInit /\ [][DeliveryNext]_deliveryVars

\* Handler and consumer threads keep running; take() returns when it can.
DeliveryFairness ==
  /\ \A n \in Ids : WF_deliveryVars(HandlerStep(n) /\ UNCHANGED streams)
  /\ \A k \in Streams : WF_deliveryVars(StreamStep(k))

FairDeliverySpec == DeliverySpec /\ DeliveryFairness

-----------------------------------------------------------------------------
Sent(k) == {streams[k].sent[i] : i \in DOMAIN streams[k].sent}

Taken(k) == Sent(k) \cup ({streams[k].holding} \ {Null})

\* What the streams on queue q have taken from it
TakenFrom(q) == UNION {Taken(k) : k \in {l \in Streams : streams[l].queue = q}}

(***************************************************************************)
(* What a stream has taken from a queue no other stream on that queue (a   *)
(* client that reconnects while its old consumer still waits) takes, and   *)
(* no broadcast puts into it again.                                        *)
(*                                                                         *)
(* A user may all the same see an event twice: when a join replaces the    *)
(* queue while the event goes round the map, the traversal may meet the    *)
(* user's new entry behind that of another user, and each queue gives the  *)
(* event to a stream.  A user nobody else shares the session with sees     *)
(* nothing twice, however often it joins and opens streams.                *)
(***************************************************************************)
Alone(s, u) ==
  \A c \in DOMAIN published :
    published[c].type \in Creates /\ published[c].sid = s => published[c].uid = u

\* The queues of user u event e has been put into, unless it was cleared there
ReachedQueues(e, u) ==
  {q \in DOMAIN published :
     /\ published[q].type \in Creates
     /\ published[q].uid = u
     /\ e \in eventQueues[q].events \cup TakenFrom(q)}

EventsAreGivenOnce ==
  /\ \A k \in Streams :
       /\ \A i, j \in DOMAIN streams[k].sent :
            streams[k].sent[i] = streams[k].sent[j] => i = j
       /\ streams[k].holding \notin Sent(k)
       /\ \A l \in Streams \ {k} :
            streams[l].queue = streams[k].queue => Taken(k) \cap Taken(l) = {}
       /\ \A q \in DOMAIN published :
            streams[k].queue = q => eventQueues[q].events \cap Taken(k) = {}
  /\ \A e \in DOMAIN published, u \in Users :
       Alone(published[e].sid, u) =>
         \A q, r \in ReachedQueues(e, u) : q = r

(***************************************************************************)
(* A stream carries the votes of one round: the reset, and only a reset    *)
(* followed by nothing, ends it, and its emitter is completed or about to  *)
(* be; whatever a stream carries is of the session it was opened for and   *)
(* comes from a queue of the user who opened it.                           *)
(***************************************************************************)
StreamsEndAtReset ==
  \A k \in Streams :
    /\ \A i \in DOMAIN streams[k].sent :
         published[streams[k].sent[i]].type = VoteReset =>
           /\ i = Len(streams[k].sent)
           /\ streams[k].at \in {"complete", "ended"}
    /\ streams[k].queue # Null =>
         /\ published[streams[k].queue].uid = streams[k].uid
         /\ \A n \in Taken(k) : published[n].sid = streams[k].sid

(***************************************************************************)
(* A client is left with an open stream nobody writes to any more in one   *)
(* way only: its queue was retired, or removed before the stream had got   *)
(* it.  Neither a reset nor a send that fails leaves it like that.         *)
(***************************************************************************)
OpenStreamsHaveConsumers ==
  \A k \in Streams :
    streams[k].emitter = "open" /\ streams[k].at \in {"ended", "crashed"} =>
      \/ streams[k].queue = Null
      \/ ~eventQueues[streams[k].queue].active

(***************************************************************************)
(* A stream does not stay open beside a reset in its queue as long as the  *)
(* queue is in use: the consumer gets through the events before the reset  *)
(* and ends the stream with it, unless the reset is cleared or another     *)
(* consumer takes it.  Nor does a consumer that is in take() stay there,   *)
(* even if the queue has been retired and the emitter closed.              *)
(*                                                                         *)
(* A reset put into a retired queue while the consumer is not in take()    *)
(* need not end the stream: isActive() is false and the consumer leaves    *)
(* with the emitter open and the reset in the queue.                       *)
(***************************************************************************)
ResetWaiting(k, n) ==
  LET q == streams[k].queue
  IN  /\ q # Null
      /\ n \in eventQueues[q].events
      /\ published[n].type = VoteReset
      /\ \/ streams[k].emitter = "open" /\ eventQueues[q].active
         \/ streams[k].at = "take"

ResetsEndStreams == \A k \in Streams, n \in Ids : []<>~ResetWaiting(k, n)
=============================================================================
