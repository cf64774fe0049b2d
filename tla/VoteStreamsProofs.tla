------------------------- MODULE VoteStreamsProofs -------------------------
(***************************************************************************)
(* Theorems about the streams, for any number of users, sessions, events   *)
(* and streams, and any interleaving of handlers, consumers and clients.   *)
(***************************************************************************)
EXTENDS VoteStreams, UserEventQueuesProofs

USE EventsAssumption, QueuesAssumption

\* What a stream has on hand or has sent
TakenBy(st) == {st.sent[i] : i \in DOMAIN st.sent} \cup ({st.holding} \ {Null})

Opening == {"containsSession", "getMap", "containsUser", "getMapAgain", "getQueue", "refused"}

(***************************************************************************)
(* The inductive type invariant of one stream: it has a session and a user *)
(* once it is opened, a queue before it takes, and an event on hand only   *)
(* between taking and sending.                                             *)
(***************************************************************************)
WellFormed(st) ==
  /\ st \in Stream
  /\ st.at = "unopened" => st = Unopened
  /\ st.at # "unopened" => st.sid \in Sessions /\ st.uid \in Users
  /\ st.at \in Opening => st.queue = Null /\ st.sent = <<>>
  /\ st.at \in {"containsUser", "getQueue"} => st.map # Null
  /\ st.at \in {"take", "send"} => st.queue # Null
  /\ st.at = "send" <=> st.holding # Null

StreamsType == streams \in [Streams -> Stream] /\ \A k \in Streams : WellFormed(streams[k])

TInv == QInv /\ StreamsType

\* What a step does to the state of the listeners: only Take touches it.
LEMMA StreamsLeaveListeners ==
  ASSUME NEW k \in Streams, StreamStep(k) \/ CloseEmitter(k)
         \/ \E s \in Sessions, u \in Users : OpenStream(k, s, u)
  PROVE  UNCHANGED listenerVars \/ Take(k)
BY DEF StreamStep, GetEventEmitter, ConsumerStep, ContainsSession, GetUserMap, ContainsUser,
   execute, IsActive, NoQueue, Send, SendFails, SendTooLate, Complete, CloseEmitter, OpenStream,
   Advance

LEMMA TakeShrinks ==
  ASSUME TInv, NEW k \in Streams, Take(k)
  PROVE  /\ UNCHANGED <<published, sessionUserEventMap, userEventMaps, handlers>>
         /\ eventQueues' \in [Ids -> [events : SUBSET Ids, active : BOOLEAN]]
         /\ \A q \in Ids : /\ eventQueues'[q].active = eventQueues[q].active
                           /\ eventQueues'[q].events \subseteq eventQueues[q].events
         /\ streams[k].queue \in Ids
         /\ \E n \in eventQueues[streams[k].queue].events :
              /\ streams' = [streams EXCEPT ![k].at = "send", ![k].holding = n]
              /\ eventQueues' = [eventQueues EXCEPT ![streams[k].queue].events = @ \ {n}]
<1>1. streams[k].queue \in Ids /\ streams[k].at = "take"
  BY DEF Take, TInv, StreamsType, WellFormed, Stream
<1>2. PICK n \in eventQueues[streams[k].queue].events :
        /\ streams' = [streams EXCEPT ![k].at = "send", ![k].holding = n]
        /\ eventQueues' = [eventQueues EXCEPT ![streams[k].queue].events = @ \ {n}]
  BY DEF Take, Earliest
<1>3. eventQueues \in [Ids -> [events : SUBSET Ids, active : BOOLEAN]]
  BY DEF TInv, QInv, QueuesTypeOK
<1>4. UNCHANGED <<published, sessionUserEventMap, userEventMaps, handlers>>
  BY DEF Take
<1>5. /\ eventQueues' \in [Ids -> [events : SUBSET Ids, active : BOOLEAN]]
      /\ \A q \in Ids : /\ eventQueues'[q].active = eventQueues[q].active
                        /\ eventQueues'[q].events \subseteq eventQueues[q].events
  BY <1>1, <1>2, <1>3
<1>6. QED
  BY <1>1, <1>2, <1>4, <1>5

LEMMA QueuesTypeTake ==
  ASSUME TInv, NEW k \in Streams, Take(k)
  PROVE  QInv'
BY TakeShrinks DEF TInv, QInv, QueuesTypeOK, AuthorsAreUsers

LEMMA TimesAreNumbers ==
  ASSUME QInv, NEW d \in Ticks
  PROVE  LastTime + d \in Nat
<1>1. published \in Seq(PokerEvent)
  BY DEF QInv, QueuesTypeOK
<1>2. published # <<>> => published[Len(published)] \in PokerEvent
  BY <1>1
<1>3. QED
  BY <1>2 DEF LastTime, PokerEvent

-----------------------------------------------------------------------------
\* A stream goes on to another place and keeps all it has.
LEMMA Advanced ==
  ASSUME TInv, NEW k \in Streams, NEW l, NEW m \in StreamPlaces \ {"unopened", "send"},
         Advance(k, l, m), l \notin {"unopened", "send"},
         m \in Opening => l \in Opening,
         m \in {"containsUser", "getQueue"} => streams[k].map # Null,
         m = "take" => streams[k].queue # Null
  PROVE  StreamsType'
<1> DEFINE st == [streams[k] EXCEPT !.at = m]
<1>1. WellFormed(streams[k]) /\ streams[k] \in Stream /\ streams[k].at = l
  BY DEF TInv, StreamsType, Advance
<1>2. streams' = [streams EXCEPT ![k] = st]
  BY DEF Advance
<1>3. st \in Stream
  BY <1>1 DEF Stream
<1>4. WellFormed(st)
  BY <1>1, <1>3 DEF WellFormed, Stream, Opening
<1>5. QED
  BY <1>2, <1>3, <1>4 DEF TInv, StreamsType

LEMMA Replaced ==
  ASSUME TInv, NEW k \in Streams, NEW st, WellFormed(st), streams' = [streams EXCEPT ![k] = st]
  PROVE  StreamsType'
BY DEF TInv, StreamsType, WellFormed

LEMMA StreamTypeStep ==
  ASSUME TInv, NEW k \in Streams, StreamStep(k) \/ CloseEmitter(k)
         \/ \E s \in Sessions, u \in Users : OpenStream(k, s, u)
  PROVE  StreamsType'
<1> USE DEF Opening
<1>1. WellFormed(streams[k]) /\ streams[k] \in Stream
  BY DEF TInv, StreamsType
<1>2. userEventMaps \in [Ids -> [Users -> Ids \cup {Null}]]
      /\ sessionUserEventMap \in [Sessions -> Ids \cup {Null}]
  BY DEF TInv, QInv, QueuesTypeOK
<1>4. ASSUME NEW s \in Sessions, NEW u \in Users, OpenStream(k, s, u) PROVE StreamsType'
  <2> DEFINE st == [streams[k] EXCEPT !.at = "containsSession", !.sid = s, !.uid = u]
  <2>1. streams' = [streams EXCEPT ![k] = st] /\ streams[k] = Unopened
    BY <1>1, <1>4 DEF OpenStream, WellFormed
  <2>2. streams[k].queue = Null /\ streams[k].holding = Null /\ streams[k].sent = <<>>
    BY <2>1 DEF Unopened
  <2>3. WellFormed(st)
    <3>1. st \in Stream
      BY <1>1 DEF Stream, StreamPlaces
    <3>2. /\ st.at = "containsSession" /\ st.sid = s /\ st.uid = u
          /\ st.queue = Null /\ st.holding = Null /\ st.sent = <<>>
      BY <1>1, <2>2 DEF Stream
    <3> HIDE DEF st
    <3>3. QED
      BY <3>1, <3>2 DEF WellFormed
  <2> HIDE DEF st
  <2>4. QED
    BY <2>1, <2>3, Replaced
<1>5. CASE ContainsSession(k)
  BY <1>5, Advanced DEF ContainsSession, StreamPlaces
<1>6. ASSUME NEW l \in {"getMap", "getMapAgain"}, NEW m \in {"containsUser", "getQueue"},
             GetUserMap(k, l, m)
      PROVE  StreamsType'
  <2> DEFINE found == sessionUserEventMap[streams[k].sid]
             st == [streams[k] EXCEPT !.at = IF found = Null THEN "refused" ELSE m,
                                      !.map = found]
  <2>1. streams' = [streams EXCEPT ![k] = st] /\ streams[k].at = l
    BY <1>6 DEF GetUserMap
  <2>2. streams[k].sid \in Sessions /\ found \in Ids \cup {Null}
    BY <1>1, <1>2, <2>1 DEF WellFormed
  <2>3. WellFormed(st)
    BY <1>1, <2>1, <2>2 DEF WellFormed, Stream, StreamPlaces
  <2> HIDE DEF st
  <2>4. QED
    BY <2>1, <2>3, Replaced
<1>7. CASE ContainsUser(k)
  BY <1>7, Advanced DEF ContainsUser, StreamPlaces
<1>8. CASE execute(k)
  <2> DEFINE q == userEventMaps[streams[k].map][streams[k].uid]
             st == [streams[k] EXCEPT !.at = "loop", !.queue = q, !.map = Null,
                                      !.emitter = "open"]
  <2>1. streams' = [streams EXCEPT ![k] = st] /\ streams[k].at = "getQueue"
    BY <1>8 DEF execute
  <2>2. q \in Ids \cup {Null}
    BY <1>1, <1>2, <2>1 DEF WellFormed, Stream
  <2>3. WellFormed(st)
    BY <1>1, <2>1, <2>2 DEF WellFormed, Stream, StreamPlaces, EmitterStates
  <2> HIDE DEF st
  <2>4. QED
    BY <2>1, <2>3, Replaced
<1>9. CASE IsActive(k) \/ NoQueue(k)
  BY <1>9, Advanced DEF IsActive, NoQueue, StreamPlaces
<1>10. CASE Take(k)
  <2>1. PICK n \in eventQueues[streams[k].queue].events :
          streams' = [streams EXCEPT ![k].at = "send", ![k].holding = n]
    BY <1>10, TakeShrinks
  <2>2. n \in Ids /\ streams[k].at = "take"
    BY <1>10, TakeShrinks DEF TInv, QInv, QueuesTypeOK, Take
  <2> DEFINE st == [streams[k] EXCEPT !.at = "send", !.holding = n]
  <2>3. streams' = [streams EXCEPT ![k] = st]
    BY <2>1
  <2>4. WellFormed(st)
    BY <1>1, <2>2, IdsAreNumbers DEF WellFormed, Stream, StreamPlaces
  <2> HIDE DEF st
  <2>5. QED
    BY <2>3, <2>4, Replaced
<1>11. CASE Send(k)
  <2> DEFINE n == streams[k].holding
             st == [streams[k] EXCEPT
                     !.at = IF published[n].type = VoteReset THEN "complete" ELSE "loop",
                     !.holding = Null, !.sent = Append(streams[k].sent, n)]
  <2>1. streams' = [streams EXCEPT ![k] = st] /\ streams[k].at = "send"
    BY <1>11 DEF Send
  <2>2. n \in Ids /\ streams[k].sent \in Seq(Ids)
    BY <1>1, <2>1 DEF WellFormed, Stream
  <2>3. Append(streams[k].sent, n) \in Seq(Ids)
    BY <2>2
  <2>4. WellFormed(st)
    BY <1>1, <2>1, <2>3 DEF WellFormed, Stream, StreamPlaces
  <2> HIDE DEF st
  <2>5. QED
    BY <2>1, <2>4, Replaced
<1>12. CASE SendFails(k)
  <2> DEFINE st == [streams[k] EXCEPT !.at = "ended", !.holding = Null,
                                      !.emitter = "completed"]
  <2>1. streams' = [streams EXCEPT ![k] = st] /\ streams[k].at = "send"
    BY <1>12 DEF SendFails
  <2>2. WellFormed(st)
    BY <1>1, <2>1 DEF WellFormed, Stream, StreamPlaces, EmitterStates
  <2> HIDE DEF st
  <2>3. QED
    BY <2>1, <2>2, Replaced
<1>13. CASE SendTooLate(k)
  <2> DEFINE st == [streams[k] EXCEPT !.at = "crashed", !.holding = Null]
  <2>1. streams' = [streams EXCEPT ![k] = st] /\ streams[k].at = "send"
    BY <1>13 DEF SendTooLate
  <2>2. WellFormed(st)
    BY <1>1, <2>1 DEF WellFormed, Stream, StreamPlaces
  <2> HIDE DEF st
  <2>3. QED
    BY <2>1, <2>2, Replaced
<1>14. CASE Complete(k)
  <2> DEFINE e == IF streams[k].emitter = "open" THEN "completed" ELSE streams[k].emitter
             st == [streams[k] EXCEPT !.at = "ended", !.emitter = e]
  <2>1. streams' = [streams EXCEPT ![k] = st] /\ streams[k].at = "complete"
    BY <1>14 DEF Complete
  <2>2. WellFormed(st)
    BY <1>1, <2>1 DEF WellFormed, Stream, StreamPlaces, EmitterStates
  <2> HIDE DEF st
  <2>3. QED
    BY <2>1, <2>2, Replaced
<1>15. CASE CloseEmitter(k)
  <2>1. PICK e \in {"timedOut", "gone"} : streams' = [streams EXCEPT ![k].emitter = e]
    BY <1>15 DEF CloseEmitter
  <2> DEFINE st == [streams[k] EXCEPT !.emitter = e]
  <2>2. streams' = [streams EXCEPT ![k] = st] /\ streams[k].emitter = "open"
    BY <1>15, <2>1 DEF CloseEmitter
  <2>3. WellFormed(st)
    BY <1>1, <2>2 DEF WellFormed, Stream, EmitterStates, Unopened
  <2> HIDE DEF st
  <2>4. QED
    BY <2>2, <2>3, Replaced
<1>16. QED
  BY <1>4, <1>5, <1>6, <1>7, <1>8, <1>9, <1>10, <1>11, <1>12, <1>13, <1>14, <1>15
     DEF StreamStep, GetEventEmitter, ConsumerStep

-----------------------------------------------------------------------------
LEMMA DeliveryTypeInit == DeliveryInit => TInv
<1> SUFFICES ASSUME DeliveryInit PROVE TInv
  OBVIOUS
<1>1. QInv
  BY TypeInit DEF DeliveryInit
<1>2. Unopened \in Stream /\ Unopened.at = "unopened" /\ Unopened.holding = Null
  BY IdsAreNumbers DEF Unopened, Stream, StreamPlaces, EmitterStates
<1>3. WellFormed(Unopened)
  BY <1>2 DEF WellFormed, Opening
<1>4. QED
  BY <1>1, <1>2, <1>3 DEF DeliveryInit, StreamsInit, TInv, StreamsType

LEMMA DeliveryTypeNext == TInv /\ [DeliveryNext]_deliveryVars => TInv'
<1> SUFFICES ASSUME TInv, [DeliveryNext]_deliveryVars PROVE TInv'
  OBVIOUS
<1>1. UNCHANGED listenerVars => QInv'
  BY DEF TInv, listenerVars, queueVars, QInv, QueuesTypeOK, AuthorsAreUsers
<1>2. UNCHANGED streams => StreamsType'
  BY DEF TInv, StreamsType
<1>3. CASE UNCHANGED deliveryVars
  BY <1>1, <1>2, <1>3 DEF deliveryVars, TInv
<1>4. ASSUME NEW d \in Ticks, NEW ev \in EventsAt(LastTime + d), MulticastEvent(ev)
      PROVE  QInv'
  BY <1>4, TimesAreNumbers, MulticastType DEF TInv
<1>5. ASSUME NEW n \in Ids, HandlerStep(n) PROVE QInv'
  BY <1>5, TypeStep DEF TInv
<1>6. ASSUME NEW k \in Streams, StreamStep(k) \/ CloseEmitter(k)
             \/ \E s \in Sessions, u \in Users : OpenStream(k, s, u)
      PROVE  TInv'
  BY <1>1, <1>6, StreamsLeaveListeners, QueuesTypeTake, StreamTypeStep DEF TInv
<1>7. QED
  BY <1>2, <1>3, <1>4, <1>5, <1>6 DEF DeliveryNext, TInv

(***************************************************************************)
(* In every reachable state of the listeners and the streams together, the *)
(* streams are type correct: a consumer past isActive() has a queue, one   *)
(* that sends has an event (getEventEmitter, PoisonPillStrategy).          *)
(***************************************************************************)
THEOREM DeliveryTypeCorrect == DeliverySpec => []DeliveryTypeOK
<1>1. TInv => DeliveryTypeOK
  BY DEF TInv, QInv, StreamsType, WellFormed, DeliveryTypeOK
<1>2. QED
  BY <1>1, DeliveryTypeInit, DeliveryTypeNext, PTL DEF DeliverySpec

-----------------------------------------------------------------------------
(***************************************************************************)
(* What a step may make of the stream k it is a step of.  The session and  *)
(* user are set once, the map is the one the session has at that moment,   *)
(* the queue comes from that map, and events go from the queue to the hand *)
(* and from there to the emitter.                                          *)
(***************************************************************************)
Keeps(a, b) ==
  /\ b.sid = a.sid /\ b.uid = a.uid
  /\ \/ b.map \in {Null, a.map}
     \/ a.at # "unopened" /\ b.map = sessionUserEventMap[a.sid]
  /\ \/ b.queue = a.queue
     \/ a.map # Null /\ b.queue = userEventMaps[a.map][a.uid]

Opens(a, b) ==
  b.map = Null /\ b.queue = Null /\ b.holding = Null /\ b.sent = <<>>

Drops(a, b) ==
  /\ b.sent = a.sent /\ b.holding \in {Null, a.holding}
  /\ a.at \in {"complete", "ended"} => b.at \in {"complete", "ended"}

Takes(a, b) ==
  /\ a.at = "take" /\ b.sent = a.sent
  /\ a.queue \in Ids /\ b.holding \in eventQueues[a.queue].events

Sends(a, b) ==
  /\ a.at = "send" /\ a.holding # Null
  /\ b.sent = Append(a.sent, a.holding) /\ b.holding = Null
  /\ published[a.holding].type = VoteReset => b.at = "complete"

LEMMA StreamsMove ==
  ASSUME TInv, NEW k \in Streams, StreamStep(k) \/ CloseEmitter(k)
         \/ \E s \in Sessions, u \in Users : OpenStream(k, s, u)
  PROVE  /\ \A j \in Streams \ {k} : streams'[j] = streams[j]
         /\ \/ Opens(streams[k], streams'[k])
            \/ /\ Keeps(streams[k], streams'[k])
               /\ \/ Drops(streams[k], streams'[k])
                  \/ Take(k) /\ Takes(streams[k], streams'[k])
                  \/ Sends(streams[k], streams'[k])
<1> DEFINE Others == \A j \in Streams \ {k} : streams'[j] = streams[j]
           a == streams[k]
           b == streams'[k]
<1>1. WellFormed(a) /\ a \in Stream /\ streams \in [Streams -> Stream]
  BY DEF TInv, StreamsType
<1>2. ASSUME NEW s \in Sessions, NEW u \in Users, OpenStream(k, s, u)
      PROVE  Others /\ Opens(a, b)
  <2>1. Others /\ b = [a EXCEPT !.at = "containsSession", !.sid = s, !.uid = u] /\ a = Unopened
    BY <1>1, <1>2 DEF OpenStream, WellFormed
  <2>2. a.map = Null /\ a.queue = Null /\ a.holding = Null /\ a.sent = <<>>
    BY <2>1 DEF Unopened
  <2>3. QED
    BY <1>1, <2>1, <2>2 DEF Opens, Stream
<1>3. ASSUME NEW l \in StreamPlaces \ {"complete", "ended"}, NEW m, Advance(k, l, m)
      PROVE  Others /\ Keeps(a, b) /\ Drops(a, b)
  <2>1. Others /\ b = [a EXCEPT !.at = m] /\ a.at = l
    BY <1>1, <1>3 DEF Advance
  <2>2. QED
    BY <1>1, <2>1 DEF Keeps, Drops, Stream
<1>4. CASE ContainsSession(k) \/ ContainsUser(k) \/ IsActive(k) \/ NoQueue(k)
  BY <1>3, <1>4 DEF ContainsSession, ContainsUser, IsActive, NoQueue, StreamPlaces
<1>5. ASSUME NEW l \in {"getMap", "getMapAgain"}, NEW m, GetUserMap(k, l, m)
      PROVE  Others /\ Keeps(a, b) /\ Drops(a, b)
  <2>1. \E i : /\ Others /\ a.at = l
               /\ b = [a EXCEPT !.at = i, !.map = sessionUserEventMap[a.sid]]
    BY <1>1, <1>5 DEF GetUserMap
  <2>2. QED
    BY <1>1, <2>1 DEF Keeps, Drops, Stream
<1>6. CASE execute(k)
  <2>1. /\ Others /\ a.at = "getQueue"
        /\ b = [a EXCEPT !.at = "loop", !.queue = userEventMaps[a.map][a.uid], !.map = Null,
                         !.emitter = "open"]
    BY <1>1, <1>6 DEF execute
  <2>2. QED
    BY <1>1, <2>1 DEF Keeps, Drops, Stream, WellFormed
<1>7. CASE Take(k)
  <2>1. PICK n \in eventQueues[a.queue].events :
          /\ Others /\ b = [a EXCEPT !.at = "send", !.holding = n]
          /\ a.queue \in Ids
    BY <1>1, <1>7, TakeShrinks
  <2>2. a.at = "take"
    BY <1>7 DEF Take
  <2>3. QED
    BY <1>1, <1>7, <2>1, <2>2 DEF Keeps, Takes, Stream
<1>8. CASE Send(k)
  <2>1. /\ Others /\ a.at = "send"
        /\ b = [a EXCEPT !.at = IF published[a.holding].type = VoteReset
                                THEN "complete" ELSE "loop",
                         !.holding = Null, !.sent = Append(a.sent, a.holding)]
    BY <1>1, <1>8 DEF Send
  <2>2. QED
    BY <1>1, <2>1 DEF Keeps, Sends, Stream, WellFormed
<1>9. ASSUME NEW h, h \in {Null, a.holding}, NEW i, NEW e,
             a.at \in {"complete", "ended"} => i \in {"complete", "ended"},
             b = [a EXCEPT !.at = i, !.holding = h, !.emitter = e]
      PROVE  Keeps(a, b) /\ Drops(a, b)
  BY <1>1, <1>9 DEF Keeps, Drops, Stream
<1>10. CASE SendFails(k) \/ SendTooLate(k) \/ Complete(k)
  <2>1. Others
    BY <1>1, <1>10 DEF SendFails, SendTooLate, Complete
  <2>2. \E e : \E h \in {Null, a.holding} :
          \/ b = [a EXCEPT !.at = "ended", !.holding = h, !.emitter = e]
          \/ b = [a EXCEPT !.at = "crashed", !.holding = h, !.emitter = e] /\ a.at = "send"
    <3>1. CASE SendFails(k)
      BY <1>1, <3>1 DEF SendFails
    <3>2. CASE SendTooLate(k)
      <4>1. /\ a.at = "send"
            /\ b = [a EXCEPT !.at = "crashed", !.holding = Null, !.emitter = a.emitter]
        BY <1>1, <3>2 DEF SendTooLate, Stream
      <4>2. QED
        BY <4>1
    <3>3. CASE Complete(k)
      <4>1. \E e : b = [a EXCEPT !.at = "ended", !.holding = a.holding, !.emitter = e]
        BY <1>1, <3>3 DEF Complete, Stream
      <4>2. QED
        BY <4>1
    <3>4. QED
      BY <1>10, <3>1, <3>2, <3>3
  <2>3. QED
    BY <1>9, <2>1, <2>2
<1>11. CASE CloseEmitter(k)
  <2>1. Others /\ \E e : b = [a EXCEPT !.emitter = e]
    BY <1>1, <1>11 DEF CloseEmitter
  <2>2. QED
    BY <1>1, <2>1 DEF Keeps, Drops, Stream
<1>12. QED
  BY <1>2, <1>4, <1>5, <1>6, <1>7, <1>8, <1>10, <1>11
     DEF StreamStep, GetEventEmitter, ConsumerStep

-----------------------------------------------------------------------------
(***************************************************************************)
(* The inductive form of StreamsEndAtReset: what a stream works on belongs *)
(* to its session and its user from the moment it looks for its queue, and *)
(* what it has taken has been published.                                   *)
(***************************************************************************)
StreamOwned(st) ==
  /\ st.map # Null => OfSession(st.map, st.sid)
  /\ st.queue # Null => MadeFor(st.queue, st.sid, st.uid)
  /\ \A n \in TakenBy(st) : n \in DOMAIN published /\ published[n].sid = st.sid
  /\ \A i \in DOMAIN st.sent :
       published[st.sent[i]].type = VoteReset =>
         i = Len(st.sent) /\ st.at \in {"complete", "ended"}

StreamsOwned == \A k \in Streams : StreamOwned(streams[k])

DInv == TInv /\ OwnInv /\ StreamsOwned

LEMMA OwnTake ==
  ASSUME TInv, OwnInv, NEW k \in Streams, Take(k)
  PROVE  OwnInv'
<1>1. /\ UNCHANGED <<published, sessionUserEventMap, userEventMaps, handlers>>
      /\ \A q \in Ids : eventQueues'[q].events \subseteq eventQueues[q].events
  BY TakeShrinks
<1>2. MapsOwned' /\ AttachedOwned' /\ HeldOwned'
  BY <1>1 DEF OwnInv, MapsOwned, AttachedOwned, HeldOwned, MadeFor, OfSession
<1>3. EventsOwned'
  BY <1>1 DEF OwnInv, EventsOwned
<1>4. QED
  BY <1>2, <1>3 DEF OwnInv

\* What has been published stays, so what streams own they keep owning.
LEMMA OwnedStays ==
  ASSUME StreamsOwned, UNCHANGED streams,
         DOMAIN published \subseteq DOMAIN published',
         \A n \in DOMAIN published : published'[n] = published[n]
  PROVE  StreamsOwned'
<1> SUFFICES ASSUME NEW k \in Streams PROVE StreamOwned(streams[k])'
  BY DEF StreamsOwned
<1>1. StreamOwned(streams[k]) /\ streams' = streams
  BY DEF StreamsOwned
<1>2. \A i \in DOMAIN streams[k].sent : streams[k].sent[i] \in DOMAIN published
  BY <1>1 DEF StreamOwned, TakenBy
<1>3. QED
  BY <1>1, <1>2 DEF StreamOwned, OfSession, MadeFor, TakenBy

LEMMA OwnedMove ==
  ASSUME DInv, NEW k \in Streams, StreamStep(k) \/ CloseEmitter(k)
         \/ \E s \in Sessions, u \in Users : OpenStream(k, s, u)
  PROVE  StreamsOwned'
<1> USE IdsAreNumbers
<1> DEFINE a == streams[k]
           b == streams'[k]
<1>1. /\ a \in Stream /\ WellFormed(a) /\ StreamOwned(a) /\ OwnInv
      /\ sessionUserEventMap \in [Sessions -> Ids \cup {Null}]
  BY DEF DInv, TInv, QInv, QueuesTypeOK, StreamsType, StreamsOwned
<1>2. published' = published
  BY StreamsLeaveListeners, TakeShrinks DEF DInv, listenerVars
<1>3. \A j \in Streams \ {k} : streams'[j] = streams[j]
  BY StreamsMove DEF DInv
<1>4. SUFFICES StreamOwned(b)
  BY <1>2, <1>3, <1>4 DEF DInv, StreamsOwned, StreamOwned, OfSession, MadeFor
<1>5. CASE Opens(a, b)
  BY <1>5 DEF Opens, StreamOwned, TakenBy
<1>6. ASSUME Keeps(a, b)
      PROVE  /\ b.map # Null => OfSession(b.map, b.sid)
             /\ b.queue # Null => MadeFor(b.queue, b.sid, b.uid)
  <2>1. ASSUME b.map # Null PROVE OfSession(b.map, b.sid)
    <3>1. CASE b.map = a.map
      BY <1>1, <1>6, <2>1, <3>1 DEF Keeps, StreamOwned
    <3>2. CASE a.at # "unopened" /\ b.map = sessionUserEventMap[a.sid]
      <4>1. a.sid \in Sessions
        BY <1>1, <3>2 DEF WellFormed
      <4>2. QED
        BY <1>1, <1>6, <2>1, <3>2, <4>1 DEF OwnInv, AttachedOwned, Keeps
    <3>3. QED
      BY <1>6, <2>1, <3>1, <3>2 DEF Keeps
  <2>2. ASSUME b.queue # Null PROVE MadeFor(b.queue, b.sid, b.uid)
    <3>1. CASE b.queue = a.queue
      BY <1>1, <1>6, <2>2, <3>1 DEF Keeps, StreamOwned
    <3>2. CASE a.map # Null /\ b.queue = userEventMaps[a.map][a.uid]
      <4>1. a.map \in Ids /\ OfSession(a.map, a.sid) /\ a.uid \in Users
        BY <1>1, <3>2 DEF StreamOwned, Stream, WellFormed, Unopened
      <4>2. MadeFor(b.queue, published[a.map].sid, a.uid)
        BY <1>1, <2>2, <3>2, <4>1 DEF OwnInv, MapsOwned
      <4>3. QED
        BY <1>6, <4>1, <4>2 DEF Keeps, OfSession
    <3>3. QED
      BY <1>6, <3>1, <3>2 DEF Keeps
  <2>3. QED
    BY <2>1, <2>2
<1>7. /\ a.sent \in Seq(Ids)
      /\ \A i \in DOMAIN a.sent : a.sent[i] \in TakenBy(a)
      /\ a.holding # Null => a.holding \in TakenBy(a)
      /\ \A n \in TakenBy(a) : n \in DOMAIN published /\ published[n].sid = a.sid
      /\ \A i \in DOMAIN a.sent :
           published[a.sent[i]].type = VoteReset =>
             i = Len(a.sent) /\ a.at \in {"complete", "ended"}
  BY <1>1 DEF Stream, TakenBy, StreamOwned
<1>8. ASSUME Keeps(a, b), Drops(a, b) PROVE StreamOwned(b)
  <2>1. TakenBy(b) \subseteq TakenBy(a)
    BY <1>8 DEF Drops, TakenBy
  <2>2. \A i \in DOMAIN b.sent :
          published[b.sent[i]].type = VoteReset =>
            i = Len(b.sent) /\ b.at \in {"complete", "ended"}
    BY <1>7, <1>8 DEF Drops
  <2>3. QED
    BY <1>6, <1>7, <1>8, <2>1, <2>2 DEF StreamOwned, Keeps
<1>9. ASSUME Keeps(a, b), Takes(a, b) PROVE StreamOwned(b)
  <2>1. /\ b.holding \in DOMAIN published
        /\ published[b.holding].sid = published[a.queue].sid
    BY <1>1, <1>9 DEF Takes, OwnInv, EventsOwned
  <2>2. published[a.queue].sid = a.sid
    BY <1>1, <1>9 DEF Takes, StreamOwned, MadeFor
  <2>3. TakenBy(b) \subseteq TakenBy(a) \cup {b.holding}
    BY <1>9 DEF Takes, TakenBy
  <2>4. \A i \in DOMAIN b.sent : published[b.sent[i]].type # VoteReset
    BY <1>7, <1>9 DEF Takes
  <2>5. QED
    BY <1>6, <1>7, <1>9, <2>1, <2>2, <2>3, <2>4 DEF StreamOwned, Keeps
<1>10. ASSUME Keeps(a, b), Sends(a, b) PROVE StreamOwned(b)
  <2>1. /\ DOMAIN b.sent = 1 .. Len(a.sent) + 1 /\ Len(b.sent) = Len(a.sent) + 1
        /\ \A i \in 1 .. Len(a.sent) : i \in DOMAIN a.sent /\ b.sent[i] = a.sent[i]
        /\ b.sent[Len(a.sent) + 1] = a.holding /\ Len(a.sent) \in Nat
    <3>1. a.holding \in Ids
      BY <1>1, <1>10 DEF Sends, Stream
    <3>2. QED
      BY <1>7, <1>10, <3>1 DEF Sends
  <2>2. TakenBy(b) \subseteq TakenBy(a)
    <3>1. \A i \in DOMAIN b.sent : b.sent[i] \in TakenBy(a)
      BY <1>7, <1>10, <2>1 DEF Sends
    <3>2. QED
      BY <1>10, <3>1 DEF Sends, TakenBy
  <2>3. \A i \in DOMAIN b.sent :
          published[b.sent[i]].type = VoteReset =>
            i = Len(b.sent) /\ b.at \in {"complete", "ended"}
    BY <1>7, <1>10, <2>1 DEF Sends
  <2>4. QED
    BY <1>6, <1>7, <1>10, <2>2, <2>3 DEF StreamOwned, Keeps
<1>11. QED
  BY <1>5, <1>8, <1>9, <1>10, StreamsMove DEF DInv

LEMMA OwnedInit == DeliveryInit => DInv
<1> SUFFICES ASSUME DeliveryInit PROVE DInv
  OBVIOUS
<1>1. TInv /\ OwnInv
  BY DeliveryTypeInit, OwnInit DEF DeliveryInit
<1>2. StreamOwned(Unopened)
  BY DEF StreamOwned, TakenBy, Unopened
<1>3. QED
  BY <1>1, <1>2 DEF DInv, StreamsOwned, DeliveryInit, StreamsInit

LEMMA OwnedNext == DInv /\ [DeliveryNext]_deliveryVars => DInv'
<1> SUFFICES ASSUME DInv, [DeliveryNext]_deliveryVars PROVE DInv'
  OBVIOUS
<1>1. TInv'
  BY DeliveryTypeNext DEF DInv
<1>2. UNCHANGED listenerVars => OwnInv'
  BY OwnNext DEF DInv, TInv
<1>3. CASE UNCHANGED deliveryVars
  BY <1>1, <1>2, <1>3, OwnedStays DEF deliveryVars, listenerVars, DInv
<1>4. ASSUME UNCHANGED streams, NEW d \in Ticks, NEW ev \in EventsAt(LastTime + d),
             MulticastEvent(ev)
      PROVE  DInv'
  <2>1. OwnInv'
    BY <1>4, TimesAreNumbers, OwnMulticast DEF DInv, TInv
  <2>2. StreamsOwned'
    BY <1>4, PublishedStays, OwnedStays DEF DInv, TInv
  <2>3. QED
    BY <1>1, <2>1, <2>2 DEF DInv
<1>5. ASSUME UNCHANGED streams, NEW n \in Ids, HandlerStep(n) PROVE DInv'
  <2>1. OwnInv'
    BY <1>5, OwnStep DEF DInv, TInv
  <2>2. StreamsOwned'
    BY <1>5, WhatChanges, OwnedStays DEF DInv
  <2>3. QED
    BY <1>1, <2>1, <2>2 DEF DInv
<1>6. ASSUME NEW k \in Streams, StreamStep(k) \/ CloseEmitter(k)
             \/ \E s \in Sessions, u \in Users : OpenStream(k, s, u)
      PROVE  DInv'
  BY <1>1, <1>2, <1>6, StreamsLeaveListeners, OwnTake, OwnedMove DEF DInv
<1>7. QED
  BY <1>3, <1>4, <1>5, <1>6 DEF DeliveryNext

(***************************************************************************)
(* A stream carries nothing after a reset, and only votes and resets of    *)
(* the session it was opened for, from a queue of the user who opened it,  *)
(* whatever handlers, consumers and clients do meanwhile (getEventEmitter, *)
(* PoisonPillStrategy.execute).                                            *)
(***************************************************************************)
THEOREM StreamsAreOfOneRound == DeliverySpec => []StreamsEndAtReset
<1>1. DInv => StreamsEndAtReset
  BY DEF DInv, StreamsOwned, StreamOwned, StreamsEndAtReset, MadeFor, TakenBy, Taken, Sent
<1>2. QED
  BY <1>1, OwnedInit, OwnedNext, PTL DEF DeliverySpec

-----------------------------------------------------------------------------
\* The consumer of an open emitter leaves only where it finds no active queue.
LEMMA ConsumersLeave ==
  ASSUME TInv, NEW k \in Streams, StreamStep(k) \/ CloseEmitter(k)
         \/ \E s \in Sessions, u \in Users : OpenStream(k, s, u),
         streams'[k].emitter = "open", streams'[k].at \in {"ended", "crashed"}
  PROVE  /\ streams'[k].queue = streams[k].queue
         /\ streams[k].queue = Null \/ ~eventQueues[streams[k].queue].active
<1> DEFINE a == streams[k]
           b == streams'[k]
           Goal == b.queue = a.queue /\ (a.queue = Null \/ ~eventQueues[a.queue].active)
<1>1. a \in Stream /\ streams \in [Streams -> Stream]
  BY DEF TInv, StreamsType
<1>2. ASSUME NEW l, NEW m, Advance(k, l, m) PROVE b.at = m /\ b.queue = a.queue
  <2>1. b = [a EXCEPT !.at = m]
    BY <1>1, <1>2 DEF Advance
  <2>2. QED
    BY <1>1, <2>1 DEF Stream
<1>3. CASE IsActive(k) \/ NoQueue(k)
  <2>1. CASE IsActive(k)
    <3>1. a.queue # Null /\ b.queue = a.queue
          /\ b.at = IF eventQueues[a.queue].active THEN "take" ELSE "ended"
      BY <1>2, <2>1 DEF IsActive
    <3>2. QED
      BY <3>1
  <2>2. CASE NoQueue(k)
    BY <1>2, <2>2 DEF NoQueue
  <2>3. QED
    BY <1>3, <2>1, <2>2
<1>4. ASSUME b.at \notin {"ended", "crashed"} \/ b.emitter # "open" PROVE Goal
  BY <1>4
<1>5. CASE ContainsSession(k) \/ ContainsUser(k)
  <2>1. b.at \in {"refused", "getMap", "getMapAgain"}
    BY <1>2, <1>5 DEF ContainsSession, ContainsUser
  <2>2. QED
    BY <1>4, <2>1
<1>6. CASE GetUserMap(k, "getMap", "containsUser") \/ GetUserMap(k, "getMapAgain", "getQueue")
  BY <1>1, <1>4, <1>6 DEF GetUserMap, Stream
<1>7. CASE execute(k)
  BY <1>1, <1>4, <1>7 DEF execute, Stream
<1>8. CASE Take(k)
  <2>1. b.at = "send"
    BY <1>1, <1>8 DEF Take, Stream
  <2>2. QED
    BY <1>4, <2>1
<1>9. CASE Send(k)
  BY <1>1, <1>4, <1>9 DEF Send, Stream
<1>10. CASE SendFails(k) \/ SendTooLate(k) \/ Complete(k)
  BY <1>1, <1>4, <1>10 DEF SendFails, SendTooLate, Complete, Stream
<1>11. CASE CloseEmitter(k)
  BY <1>1, <1>4, <1>11 DEF CloseEmitter, Stream
<1>12. ASSUME NEW s \in Sessions, NEW u \in Users, OpenStream(k, s, u) PROVE Goal
  <2>1. b = [a EXCEPT !.at = "containsSession", !.sid = s, !.uid = u]
    BY <1>1, <1>12 DEF OpenStream
  <2>2. QED
    BY <1>1, <1>4, <2>1 DEF Stream
<1>13. QED
  BY <1>3, <1>5, <1>6, <1>7, <1>8, <1>9, <1>10, <1>11, <1>12
     DEF StreamStep, GetEventEmitter, ConsumerStep

\* A queue that has been disabled stays disabled.
LEMMA DisabledForGood ==
  ASSUME QInv, NEW n \in Ids, HandlerStep(n), NEW q \in Ids, ~eventQueues[q].active
  PROVE  ~eventQueues'[q].active
<1>1. eventQueues \in [Ids -> [events : SUBSET Ids, active : BOOLEAN]]
  BY DEF QInv, QueuesTypeOK
<1>2. CASE ClearEvents(n)
  BY <1>1, <1>2 DEF ClearEvents
<1>3. CASE Disable(n)
  BY <1>1, <1>3 DEF Disable
<1>4. CASE AddEvent(n)
  BY <1>1, <1>4 DEF AddEvent
<1>5. QED
  BY <1>2, <1>3, <1>4, WhatChanges

LEMMA ConsumersNext ==
  TInv /\ OpenStreamsHaveConsumers /\ [DeliveryNext]_deliveryVars => OpenStreamsHaveConsumers'
<1> SUFFICES ASSUME TInv, OpenStreamsHaveConsumers, [DeliveryNext]_deliveryVars
             PROVE  OpenStreamsHaveConsumers'
  OBVIOUS
<1>1. \A k \in Streams : streams[k].queue \in Ids \cup {Null}
  BY DEF TInv, StreamsType, Stream
<1>2. ASSUME UNCHANGED streams,
             \A q \in Ids : ~eventQueues[q].active => ~eventQueues'[q].active
      PROVE  OpenStreamsHaveConsumers'
  BY <1>1, <1>2 DEF OpenStreamsHaveConsumers
<1>3. CASE UNCHANGED deliveryVars
  BY <1>2, <1>3 DEF deliveryVars, listenerVars, queueVars
<1>4. ASSUME UNCHANGED streams, NEW ev, MulticastEvent(ev)
      PROVE  OpenStreamsHaveConsumers'
  BY <1>2, <1>4 DEF MulticastEvent, queueVars
<1>5. ASSUME UNCHANGED streams, NEW n \in Ids, HandlerStep(n)
      PROVE  OpenStreamsHaveConsumers'
  BY <1>2, <1>5, DisabledForGood DEF TInv
<1>6. ASSUME NEW k \in Streams, StreamStep(k) \/ CloseEmitter(k)
             \/ \E s \in Sessions, u \in Users : OpenStream(k, s, u)
      PROVE  OpenStreamsHaveConsumers'
  <2>1. \A q \in Ids : ~eventQueues[q].active => ~eventQueues'[q].active
    BY <1>6, StreamsLeaveListeners, TakeShrinks DEF listenerVars, queueVars
  <2>2. \A j \in Streams \ {k} : streams'[j] = streams[j]
    BY <1>6, StreamsMove
  <2>3. ASSUME streams'[k].emitter = "open", streams'[k].at \in {"ended", "crashed"}
        PROVE  /\ streams'[k].queue = streams[k].queue
               /\ streams[k].queue = Null \/ ~eventQueues[streams[k].queue].active
    BY <1>6, <2>3, ConsumersLeave
  <2>4. QED
    BY <1>1, <2>1, <2>2, <2>3 DEF OpenStreamsHaveConsumers
<1>7. QED
  BY <1>3, <1>4, <1>5, <1>6 DEF DeliveryNext

(***************************************************************************)
(* No open stream is left without a consumer unless its queue was retired, *)
(* or gone before the stream had got it: whatever makes a consumer return  *)
(* or fail otherwise closes its emitter (PoisonPillStrategy.execute).      *)
(***************************************************************************)
THEOREM OpenStreamsAreServed == DeliverySpec => []OpenStreamsHaveConsumers
<1>1. DeliveryInit => OpenStreamsHaveConsumers
  BY DEF DeliveryInit, StreamsInit, Unopened, OpenStreamsHaveConsumers
<1>2. QED
  BY <1>1, DeliveryTypeInit, DeliveryTypeNext, ConsumersNext, PTL DEF DeliverySpec

-----------------------------------------------------------------------------
(***************************************************************************)
(* Streams take events from the queues and nothing else, so what holds of  *)
(* the maps and the queues in them holds beside any streams.               *)
(***************************************************************************)
KeepingInv == DInv /\ LInv /\ TidyInv

LEMMA KeepingTake ==
  ASSUME KeepingInv, NEW k \in Streams, Take(k)
  PROVE  /\ LInv' /\ TidyInv'
         /\ SettledInv => SettledInv'
<1>1. /\ UNCHANGED <<published, sessionUserEventMap, userEventMaps, handlers>>
      /\ \A q \in Ids : /\ eventQueues'[q].active = eventQueues[q].active
                        /\ eventQueues'[q].events \subseteq eventQueues[q].events
  BY TakeShrinks DEF KeepingInv, DInv
<1>2. LInv'
  <2>1. QInv' /\ OwnInv'
    BY QueuesTypeTake, OwnTake DEF KeepingInv, DInv
  <2>2. LeaveInv'
    BY <1>1 DEF KeepingInv, LInv, LeaveInv, NewQueues, OneMap, RetiresOwn, Leaving, InPlace,
       Empties
  <2>3. QED
    BY <2>1, <2>2 DEF LInv
<1>3. TidyInv'
  BY <1>1 DEF KeepingInv, TidyInv, EventsInBound, NewHandlers, FinishedIdle, NewMaps, Handled
<1>4. ASSUME SettledInv PROVE SettledInv'
  <2>1. OrderlyInv'
    BY <1>1, <1>4 DEF SettledInv, OrderlyInv, Settled, InOrder, MapsCurrent, AnswersCurrent,
       AnswerCurrent, Handled, MapOf, QueueIn
  <2>2. ASSUME NEW s \in Sessions, NEW u \in Users, ~Changing(s, u)' PROVE QueueFollows(s, u)'
    <3>1. ~Changing(s, u) /\ QueueDue(s, u)' = QueueDue(s, u)
          /\ Registered(s, u)' = Registered(s, u)
      BY <1>1, <2>2 DEF Changing, Handled, QueueDue, After, Registered
    <3>2. QueueFollows(s, u)
      BY <1>4, <3>1 DEF SettledInv, QueuesFollow
    <3>3. \A q \in QueueDue(s, u) : q \in Ids
      BY DEF QueueDue, After, KeepingInv, TidyInv, EventsInBound
    <3>4. QED
      BY <1>1, <3>1, <3>2, <3>3 DEF QueueFollows
  <2>3. QED
    BY <2>1, <2>2 DEF SettledInv, QueuesFollow
<1>5. QED
  BY <1>2, <1>3, <1>4

LEMMA KeepingNext == KeepingInv /\ [DeliveryNext]_deliveryVars => KeepingInv'
<1> SUFFICES ASSUME KeepingInv, [DeliveryNext]_deliveryVars PROVE LInv' /\ TidyInv'
  BY OwnedNext DEF KeepingInv
<1>1. DInv' /\ QInv' /\ OwnInv'
  BY OwnedNext DEF KeepingInv, DInv, TInv
<1>2. CASE UNCHANGED listenerVars
  BY <1>2, LeaveNext, TidyNext DEF KeepingInv
<1>3. ASSUME NEW ev, MulticastEvent(ev) PROVE LInv' /\ TidyInv'
  BY <1>1, <1>3, LeaveMulticast, TidyMulticast DEF KeepingInv, LInv
<1>4. ASSUME NEW n \in Ids, HandlerStep(n) PROVE LInv' /\ TidyInv'
  BY <1>1, <1>4, LeaveStep, TidyStep DEF KeepingInv, LInv
<1>5. ASSUME NEW k \in Streams, StreamStep(k) \/ CloseEmitter(k)
             \/ \E s \in Sessions, u \in Users : OpenStream(k, s, u)
      PROVE  LInv' /\ TidyInv'
  BY <1>2, <1>5, StreamsLeaveListeners, KeepingTake
<1>6. QED
  BY <1>2, <1>3, <1>4, <1>5 DEF DeliveryNext, deliveryVars

(***************************************************************************)
(* As long as the listeners are left the time to settle, streams or not.   *)
(***************************************************************************)
LEMMA SettledNext ==
  KeepingInv /\ SettledInv /\ [DeliveryNext]_deliveryVars /\ Settled' => SettledInv'
<1> SUFFICES ASSUME KeepingInv, SettledInv, [DeliveryNext]_deliveryVars, Settled'
             PROVE  SettledInv'
  OBVIOUS
<1>1. CASE UNCHANGED listenerVars
  BY <1>1 DEF listenerVars, queueVars, SettledInv, OrderlyInv, Settled, InOrder, MapsCurrent,
     AnswersCurrent, AnswerCurrent, QueuesFollow, QueueFollows, Changing, Handled, MapOf, QueueIn,
     QueueDue, After, Registered
<1>2. ASSUME NEW ev, MulticastEvent(ev) PROVE SettledInv'
  BY <1>2, SettledMulticast DEF KeepingInv
<1>3. ASSUME NEW n \in Ids, HandlerStep(n) PROVE SettledInv'
  BY <1>3, SettledStep DEF KeepingInv
<1>4. ASSUME NEW k \in Streams, StreamStep(k) \/ CloseEmitter(k)
             \/ \E s \in Sessions, u \in Users : OpenStream(k, s, u)
      PROVE  SettledInv'
  BY <1>1, <1>4, StreamsLeaveListeners, KeepingTake
<1>5. QED
  BY <1>1, <1>2, <1>3, <1>4 DEF DeliveryNext, deliveryVars

LEMMA KeepingInit == DeliveryInit => KeepingInv /\ SettledInv
<1>1. DeliveryInit => ListenersInit
  BY DEF DeliveryInit
<1>2. QED
  BY <1>1, OwnedInit, TypeInit, OwnInit, LeaveInit, TidyInit, SettledInit DEF KeepingInv, LInv

(***************************************************************************)
(* Whoever has been announced in a session that has not been terminated    *)
(* has a queue due: the one of the last announcement.                      *)
(***************************************************************************)
AnnouncedAreDue ==
  \A s \in Sessions, u \in Users :
    Announced(s, u) /\ ~Occurred(AutoTerminated, s) => QueueDue(s, u) # {}

LEMMA DueNext == KeepingInv /\ AnnouncedAreDue /\ [DeliveryNext]_deliveryVars => AnnouncedAreDue'
<1> SUFFICES ASSUME KeepingInv, AnnouncedAreDue, [DeliveryNext]_deliveryVars,
                    NEW s \in Sessions, NEW u \in Users,
                    Announced(s, u)', ~Occurred(AutoTerminated, s)'
             PROVE  QueueDue(s, u)' # {}
  BY DEF AnnouncedAreDue
<1>1. CASE published' = published
  BY <1>1 DEF AnnouncedAreDue, Announced, Occurred, QueueDue, After
<1>2. ASSUME NEW ev, MulticastEvent(ev) PROVE QueueDue(s, u)' # {}
  <2>1. PICK k \in Ids :
           /\ k = Len(published) + 1 /\ Len(published') = k
           /\ DOMAIN published = 1 .. Len(published) /\ Len(published) \in Nat
           /\ DOMAIN published' = DOMAIN published \cup {k} /\ k \notin DOMAIN published
           /\ \A n \in DOMAIN published : published'[n] = published[n]
    BY <1>2, NewNumber DEF KeepingInv
  <2>2. \A n \in DOMAIN published : n \in Nat /\ 0 < n /\ n < k
    BY <2>1
  <2>3. k \in Nat /\ 0 < k
    BY <2>1
  <2> DEFINE made(n) == /\ published'[n].type \in Creates
                        /\ published'[n].sid = s
                        /\ published'[n].uid = u
  <2>4. CASE made(k)
    <3>1. \A m \in DOMAIN published' : ~(m > k)
      BY <2>1, <2>2, <2>3
    <3>2. k \in QueueDue(s, u)'
      BY <2>1, <2>3, <2>4, <3>1 DEF QueueDue, After
    <3>3. QED
      BY <3>2
  <2>5. CASE ~made(k)
    <3>1. Announced(s, u) /\ ~Occurred(AutoTerminated, s)
      BY <2>1, <2>5 DEF Announced, Occurred, Creates
    <3>2. PICK n \in QueueDue(s, u) : TRUE
      BY <3>1 DEF AnnouncedAreDue
    <3>3. /\ n \in DOMAIN published /\ n > 0 /\ published[n].sid = s
          /\ published[n].type \in Creates /\ published[n].uid = u
          /\ \A m \in DOMAIN published :
               /\ m > n /\ published[m].sid = s
               /\ published[m].type \in Creates \cup Clears
               => published[m].type \in Creates /\ published[m].uid # u
      BY <3>2 DEF QueueDue, After
    <3>4. published'[k].sid = s => published'[k].type \notin Clears
      BY <2>1 DEF Occurred, Clears
    <3>5. n \in QueueDue(s, u)'
      BY <2>1, <2>5, <3>3, <3>4 DEF QueueDue, After
    <3>6. QED
      BY <3>5
  <2>6. QED
    BY <2>4, <2>5
<1>3. ASSUME NEW n \in Ids, HandlerStep(n) PROVE published' = published
  BY <1>3, WhatChanges
<1>4. ASSUME NEW k \in Streams, StreamStep(k) \/ CloseEmitter(k)
             \/ \E x \in Sessions, v \in Users : OpenStream(k, x, v)
      PROVE  published' = published
  BY <1>4, StreamsLeaveListeners DEF listenerVars, Take
<1>5. QED
  BY <1>1, <1>2, <1>3, <1>4 DEF DeliveryNext, deliveryVars, listenerVars

(***************************************************************************)
(* Streams beside listeners that are left the time to settle, and what     *)
(* follows for the users: when nothing is left to be handled, whoever has  *)
(* been announced in a session that was not terminated has a queue in use. *)
(***************************************************************************)
SettledDeliverySpec == DeliveryInit /\ [][DeliveryNext /\ Settled']_deliveryVars

AnnouncedHaveQueues ==
  AllHandled =>
    \A s \in Sessions, u \in Users :
      Announced(s, u) /\ ~Occurred(AutoTerminated, s) =>
        Registered(s, u) # Null /\ eventQueues[Registered(s, u)].active

THEOREM AnnouncedUsersHaveQueues == SettledDeliverySpec => []AnnouncedHaveQueues
<1>1. DeliveryInit => AnnouncedAreDue
  BY DEF DeliveryInit, ListenersInit, AnnouncedAreDue, Announced
<1>2. SettledInv /\ AnnouncedAreDue => AnnouncedHaveQueues
  <2> SUFFICES ASSUME SettledInv, AnnouncedAreDue, AllHandled,
                      NEW s \in Sessions, NEW u \in Users,
                      Announced(s, u), ~Occurred(AutoTerminated, s)
               PROVE  Registered(s, u) # Null /\ eventQueues[Registered(s, u)].active
    BY DEF AnnouncedHaveQueues
  <2>1. QueueFollows(s, u)
    BY DEF AllHandled, Changing, SettledInv, QueuesFollow
  <2>2. QueueDue(s, u) # {}
    BY DEF AnnouncedAreDue
  <2>3. QED
    BY <2>1, <2>2 DEF QueueFollows
<1>3. [DeliveryNext /\ Settled']_deliveryVars => [DeliveryNext]_deliveryVars
  OBVIOUS
<1>4. KeepingInv /\ SettledInv /\ [DeliveryNext /\ Settled']_deliveryVars => SettledInv'
  <2>1. SettledInv /\ UNCHANGED deliveryVars => Settled'
    BY DEF deliveryVars, listenerVars, queueVars, SettledInv, OrderlyInv, Settled, Handled
  <2>2. QED
    BY <1>3, <2>1, SettledNext
<1>5. QED
  BY <1>1, <1>2, <1>3, <1>4, KeepingInit, KeepingNext, DueNext, PTL DEF SettledDeliverySpec

-----------------------------------------------------------------------------
LEMMA HandledStays ==
  ASSUME NEW n \in Ids, HandlerStep(n), QInv, NEW x \in Ids, Handled(x)
  PROVE  Handled(x)'
BY StepsUnfinished, OthersStay DEF Handled, StaysAt

\* The one step that gives a stream another queue
LEMMA QueueIsSetOnce ==
  ASSUME TInv, NEW k \in Streams, StreamStep(k) \/ CloseEmitter(k)
         \/ \E s \in Sessions, u \in Users : OpenStream(k, s, u)
  PROVE  streams'[k].queue = streams[k].queue \/ execute(k)
<1>1. streams \in [Streams -> Stream] /\ streams[k] \in Stream
  BY DEF TInv, StreamsType
<1>2. ASSUME NEW l, NEW m, Advance(k, l, m) PROVE streams'[k].queue = streams[k].queue
  BY <1>1, <1>2 DEF Advance, Stream
<1>3. ASSUME NEW l, NEW m, GetUserMap(k, l, m) PROVE streams'[k].queue = streams[k].queue
  BY <1>1, <1>3 DEF GetUserMap, Stream
<1>4. CASE Take(k)
  BY <1>1, <1>4 DEF Take, Stream
<1>5. CASE Send(k) \/ SendFails(k) \/ SendTooLate(k) \/ Complete(k) \/ CloseEmitter(k)
  BY <1>1, <1>5 DEF Send, SendFails, SendTooLate, Complete, CloseEmitter, Stream
<1>6. ASSUME NEW s \in Sessions, NEW u \in Users, OpenStream(k, s, u)
      PROVE  streams'[k].queue = streams[k].queue
  BY <1>1, <1>6 DEF OpenStream, Stream
<1>7. QED
  BY <1>2, <1>3, <1>4, <1>5, <1>6 DEF StreamStep, GetEventEmitter, ConsumerStep, ContainsSession,
     ContainsUser, IsActive, NoQueue

\* A queue that a stream finds in a map is made.
LEMMA ExecuteFinds ==
  ASSUME KeepingInv, NEW k \in Streams, execute(k)
  PROVE  /\ TakenBy(streams'[k]) = {} /\ streams'[k].sent = <<>> /\ streams'[k].holding = Null
         /\ UNCHANGED listenerVars
         /\ streams'[k].queue # Null => streams'[k].queue \in Ids /\ Handled(streams'[k].queue)
<1>1. /\ streams \in [Streams -> Stream] /\ WellFormed(streams[k]) /\ streams[k] \in Stream
      /\ streams[k].at = "getQueue"
  BY DEF KeepingInv, DInv, TInv, StreamsType, execute
<1>2. /\ streams[k].map \in Ids /\ streams[k].uid \in Users
      /\ streams[k].holding = Null /\ streams[k].sent = <<>>
  BY <1>1 DEF WellFormed, Stream, Opening
<1>3. /\ streams'[k].sent = <<>> /\ streams'[k].holding = Null
      /\ streams'[k].queue = userEventMaps[streams[k].map][streams[k].uid]
      /\ UNCHANGED listenerVars
  BY <1>1, <1>2 DEF execute, Stream
<1>4. userEventMaps[streams[k].map][streams[k].uid] \in Ids \cup {Null}
  BY <1>2 DEF KeepingInv, LInv, QInv, QueuesTypeOK
<1>5. streams'[k].queue # Null => streams'[k].queue \in Ids /\ Handled(streams'[k].queue)
  BY <1>2, <1>3, <1>4 DEF KeepingInv, LInv, LeaveInv, NewQueues, InPlace, Handled
<1>6. QED
  BY <1>3, <1>5 DEF TakenBy

-----------------------------------------------------------------------------
(***************************************************************************)
(* The inductive form of the first half of EventsAreGivenOnce: a vote or   *)
(* reset has at most one place with a queue, the queue or a stream on it,  *)
(* and none while its handler may yet bring it to that queue.              *)
(***************************************************************************)
InQueue(q, n) == n \in eventQueues[q].events

OnStream(k, q, n) == streams[k].queue = q /\ n \in TakenBy(streams[k])

Broadcast(n) == n \in DOMAIN published /\ published[n].type \in Broadcasts

Awaits(n, q) ==
  /\ Broadcast(n)
  /\ \/ handlers[n].at \in {"start", "getMap"}
     \/ q \in handlers[n].todo
     \/ handlers[n].at = "add" /\ handlers[n].queue = q
     \/ ~Handled(q)

\* A traversal does not meet the same queue again.
VisitsOnce == \A n \in Ids : Broadcast(n) => handlers[n].queue \notin handlers[n].todo

OnePlace ==
  \A n \in Ids, q \in Ids :
    /\ Awaits(n, q) => ~InQueue(q, n) /\ \A k \in Streams : ~OnStream(k, q, n)
    /\ \A k \in Streams : ~InQueue(q, n) \/ ~OnStream(k, q, n)
    /\ \A k, l \in Streams : OnStream(k, q, n) /\ OnStream(l, q, n) => k = l

SentOnce(st) ==
  /\ \A i, j \in DOMAIN st.sent : st.sent[i] = st.sent[j] => i = j
  /\ \A i \in DOMAIN st.sent : st.sent[i] # st.holding
  /\ st.queue = Null => st.sent = <<>>

SentsOnce == \A k \in Streams : SentOnce(streams[k])

OnceInv == VisitsOnce /\ OnePlace /\ SentsOnce

\* Where the handler of a vote or a reset goes: it learns the queues from the
\* map, and then meets or misses them one by one.
LEMMA BroadcastMoves ==
  ASSUME QInv, NEW n \in Ids, HandlerStep(n), Broadcast(n)
  PROVE  \/ /\ handlers[n].at = "start"
            /\ Carries(n, "getMap", handlers[n].map, handlers[n].queue, handlers[n].todo)
         \/ \E l \in Finished : Carries(n, l, Null, Null, {})
         \/ /\ handlers[n].at = "getMap"
            /\ handlers'[n].at = "visit" /\ handlers'[n].queue = Null
         \/ /\ AddEvent(n)
            /\ Carries(n, "visit", handlers[n].map, handlers[n].queue, handlers[n].todo)
         \/ \E q \in handlers[n].todo :
              /\ handlers[n].at = "visit" /\ Meet(n, q, "add")
              /\ Carries(n, "add", handlers[n].map, q, handlers[n].todo \ {q})
         \/ \E q \in handlers[n].todo :
              /\ handlers[n].at = "visit"
              /\ Carries(n, "visit", handlers[n].map, handlers[n].queue, handlers[n].todo \ {q})
<1> DEFINE Goal ==
         \/ /\ handlers[n].at = "start"
            /\ Carries(n, "getMap", handlers[n].map, handlers[n].queue, handlers[n].todo)
         \/ \E l \in Finished : Carries(n, l, Null, Null, {})
         \/ /\ handlers[n].at = "getMap"
            /\ handlers'[n].at = "visit" /\ handlers'[n].queue = Null
         \/ /\ AddEvent(n)
            /\ Carries(n, "visit", handlers[n].map, handlers[n].queue, handlers[n].todo)
         \/ \E q \in handlers[n].todo :
              /\ handlers[n].at = "visit" /\ Meet(n, q, "add")
              /\ Carries(n, "add", handlers[n].map, q, handlers[n].todo \ {q})
         \/ \E q \in handlers[n].todo :
              /\ handlers[n].at = "visit"
              /\ Carries(n, "visit", handlers[n].map, handlers[n].queue, handlers[n].todo \ {q})
<1>1. /\ published[n].type \in Broadcasts /\ published[n].type \notin Creates \cup Clears
      /\ published[n].type # UserExited
      /\ {"done", "dropped", "failed"} \subseteq Finished
  BY TypeDistinct DEF Broadcast, Finished
<1>2. CASE SessionKnown(n)
  BY <1>2, GotoMoves DEF SessionKnown, At
<1>3. CASE SessionUnknown(n)
  BY <1>1, <1>3, FinishMoves DEF SessionUnknown, At
<1>4. CASE GetMap(n)
  <2>1. handlers[n].at = "getMap" /\ NextAfterGet(n) = "visit"
    BY <1>1, <1>4 DEF GetMap, At, NextAfterGet
  <2>2. QED
    BY <1>1, <1>4, <2>1, GetMapMoves DEF Carries
<1>5. CASE AddEvent(n)
  <2>1. Goto(n, "visit")
    BY <1>5 DEF AddEvent
  <2>2. QED
    BY <1>5, <2>1, GotoMoves
<1>6. CASE VisitedAll(n)
  BY <1>1, <1>6, FinishMoves DEF VisitedAll
<1>7. ASSUME NEW q \in Ids, Visit(n, q) PROVE Goal
  <2>1. handlers[n].at = "visit" /\ (Meet(n, q, "add") \/ Miss(n, q))
    BY <1>7 DEF Visit, At
  <2>2. CASE Meet(n, q, "add")
    <3>1. q \in handlers[n].todo /\ Carries(n, "add", handlers[n].map, q, handlers[n].todo \ {q})
      BY <2>2, MeetMoves
    <3>2. QED
      BY <2>1, <2>2, <3>1
  <2>3. CASE Miss(n, q)
    BY <2>1, <2>3, MissMoves
  <2>4. QED
    BY <2>1, <2>2, <2>3
<1>8. /\ ~clearUserEventQueue(n) /\ ~Install(n) /\ ~Probe(n) /\ ~GetQueue(n)
      /\ ~ClearEvents(n) /\ ~Disable(n) /\ ~RemoveQueue(n) /\ ~PutQueue(n)
      /\ ~IsEmpty(n) /\ ~SweptAll(n) /\ ~Detach(n)
      /\ (\A q \in Ids : ~Sweep(n, q)) /\ \A u \in Users : ~Wipe(n, u)
  BY <1>1 DEF clearUserEventQueue, Install, Probe, GetQueue, ClearEvents, Disable, RemoveQueue,
     PutQueue, IsEmpty, SweptAll, Detach, Sweep, Wipe, At
<1>9. Goal
  BY <1>2, <1>3, <1>4, <1>5, <1>6, <1>7, <1>8 DEF HandlerStep
<1>10. QED
  BY <1>9

LEMMA AwaitsShrinks ==
  ASSUME KeepingInv, VisitsOnce, NEW n \in Ids, HandlerStep(n)
  PROVE  /\ VisitsOnce'
         /\ \A x \in Ids, q \in Ids : Awaits(x, q)' => Awaits(x, q)
         /\ AddEvent(n) => \E q \in Ids : /\ handlers[n].queue = q
                                           /\ Awaits(n, q) /\ ~Awaits(n, q)'
<1>1. /\ QInv /\ published' = published
      /\ \A q \in Ids : Handled(q) => Handled(q)'
      /\ \A q \in Ids : ~Handled(q) =>
           \A x \in Ids : handlers[x].queue # q /\ q \notin handlers[x].todo
      /\ handlers[n].todo \in SUBSET Ids
  <2>1. \A q \in Ids : Handled(q) => Handled(q)'
    BY HandledStays DEF KeepingInv, LInv
  <2>2. \A q \in Ids : ~Handled(q) =>
          \A x \in Ids : handlers[x].queue # q /\ q \notin handlers[x].todo
    BY DEF KeepingInv, LInv, LeaveInv, NewQueues, Handled
  <2>3. QED
    BY <2>1, <2>2, WhatChanges DEF KeepingInv, LInv, QInv, QueuesTypeOK, Handler
<1>2. ASSUME NEW x \in Ids \ {n}
      PROVE  /\ Broadcast(x)' => handlers'[x].queue \notin handlers'[x].todo
             /\ \A q \in Ids : Awaits(x, q)' => Awaits(x, q)
  <2>1. /\ StaysAt(x)
        /\ handlers'[x].todo = handlers[x].todo \/ handlers'[x].todo = handlers[x].todo \cup {n}
    BY <1>1, OthersStay
  <2>2. ~Handled(n)
    BY StepsUnfinished DEF Handled
  <2>3. QED
    BY <1>1, <2>1, <2>2 DEF StaysAt, VisitsOnce, Broadcast, Awaits
<1>3. ASSUME Broadcast(n)
      PROVE  /\ handlers'[n].queue \notin handlers'[n].todo
             /\ \A q \in Ids : Awaits(n, q)' => Awaits(n, q)
  <2>1. handlers[n].queue \notin handlers[n].todo
    BY <1>3 DEF VisitsOnce
  <2>2. handlers'[n].todo \in SUBSET Ids
    <3>1. QInv'
      BY <1>1, TypeStep
    <3>2. QED
      BY <3>1 DEF QInv, QueuesTypeOK, Handler
  <2>3. handlers'[n].queue \notin handlers'[n].todo
    BY <1>1, <1>3, <2>1, <2>2, BroadcastMoves, IdsAreNumbers DEF Carries
  <2>4. ASSUME NEW q \in Ids, Awaits(n, q)' PROVE Awaits(n, q)
    <3>1. CASE ~Handled(q)'
      BY <1>1, <1>3, <3>1 DEF Awaits
    <3>2. CASE Handled(q)'
      BY <1>1, <1>3, <2>4, <3>2, BroadcastMoves, PlaceNames DEF Carries, Awaits
    <3>3. QED
      BY <3>1, <3>2
  <2>5. QED
    BY <2>3, <2>4
<1>4. ASSUME AddEvent(n)
      PROVE  \E q \in Ids : /\ handlers[n].queue = q
                             /\ Awaits(n, q) /\ ~Awaits(n, q)'
  <2>1. At(n, Broadcasts, "add") /\ Goto(n, "visit")
    BY <1>4 DEF AddEvent
  <2>2. /\ Broadcast(n) /\ handlers[n].at = "add"
        /\ Carries(n, "visit", handlers[n].map, handlers[n].queue, handlers[n].todo)
    BY <1>1, <2>1, GotoMoves DEF At, Broadcast
  <2>3. PICK q \in Ids : handlers[n].queue = q
    BY <1>1, <2>2 DEF QInv, QueuesTypeOK, Handler
  <2>4. Handled(q)'
    BY <1>1, <2>3
  <2>5. q \notin handlers[n].todo
    BY <2>2, <2>3 DEF VisitsOnce
  <2>6. QED
    BY <1>1, <2>2, <2>3, <2>4, <2>5 DEF Carries, Awaits
<1>5. VisitsOnce'
  BY <1>1, <1>2, <1>3 DEF VisitsOnce, Broadcast
<1>6. \A x \in Ids, q \in Ids : Awaits(x, q)' => Awaits(x, q)
  BY <1>1, <1>2, <1>3 DEF Awaits, Broadcast
<1>7. QED
  BY <1>4, <1>5, <1>6

-----------------------------------------------------------------------------
\* No place has an event that has not been published.
LEMMA PlacesArePublished ==
  ASSUME DInv, NEW n, NEW q \in Ids
  PROVE  /\ InQueue(q, n) => n \in DOMAIN published
         /\ \A k \in Streams : OnStream(k, q, n) => n \in DOMAIN published
BY DEF DInv, OwnInv, EventsOwned, InQueue, OnStream, StreamsOwned, StreamOwned

\* Where no place gets an event and none is awaited anew, OnePlace stays.
LEMMA PlacesShrink ==
  ASSUME OnePlace,
         \A n \in Ids, q \in Ids :
           /\ Awaits(n, q)' /\ ~Awaits(n, q) =>
                ~InQueue(q, n) /\ \A k \in Streams : ~OnStream(k, q, n)
           /\ InQueue(q, n)' => InQueue(q, n)
           /\ \A k \in Streams : OnStream(k, q, n)' => OnStream(k, q, n)
  PROVE  OnePlace'
<1> SUFFICES ASSUME NEW n \in Ids, NEW q \in Ids
             PROVE  /\ Awaits(n, q)' =>
                         ~InQueue(q, n)' /\ \A k \in Streams : ~OnStream(k, q, n)'
                    /\ \A k \in Streams : ~InQueue(q, n)' \/ ~OnStream(k, q, n)'
                    /\ \A k, l \in Streams : OnStream(k, q, n)' /\ OnStream(l, q, n)' => k = l
  BY DEF OnePlace
<1>1. /\ Awaits(n, q) => ~InQueue(q, n) /\ \A k \in Streams : ~OnStream(k, q, n)
      /\ \A k \in Streams : ~InQueue(q, n) \/ ~OnStream(k, q, n)
      /\ \A k, l \in Streams : OnStream(k, q, n) /\ OnStream(l, q, n) => k = l
  BY DEF OnePlace
<1>2. QED
  BY <1>1

\* Only a broadcast puts an event into a queue.
LEMMA EventsArePut ==
  ASSUME QInv, NEW n \in Ids, HandlerStep(n), NEW q \in Ids, NEW x, InQueue(q, x)'
  PROVE  InQueue(q, x) \/ (AddEvent(n) /\ q = handlers[n].queue /\ x = n)
<1>1. eventQueues \in [Ids -> [events : SUBSET Ids, active : BOOLEAN]]
  BY DEF QInv, QueuesTypeOK
<1>2. CASE ClearEvents(n)
  BY <1>1, <1>2 DEF ClearEvents, InQueue
<1>3. CASE Disable(n)
  BY <1>1, <1>3 DEF Disable, InQueue
<1>4. CASE AddEvent(n)
  BY <1>1, <1>4 DEF AddEvent, InQueue
<1>5. CASE eventQueues' = eventQueues
  BY <1>5 DEF InQueue
<1>6. QED
  BY <1>2, <1>3, <1>4, <1>5, WhatChanges

LEMMA OnceMulticast ==
  ASSUME KeepingInv, OnceInv, UNCHANGED streams, NEW ev, MulticastEvent(ev)
  PROVE  OnceInv'
<1>1. /\ DOMAIN published \subseteq DOMAIN published'
      /\ \A n \in DOMAIN published : published'[n] = published[n]
      /\ UNCHANGED queueVars
  BY PublishedStays DEF KeepingInv, DInv, TInv
<1>2. \A n \in Ids : n \notin DOMAIN published => handlers[n].queue = Null /\ handlers[n].todo = {}
  BY DEF KeepingInv, TidyInv, NewHandlers, Idle
<1>3. VisitsOnce'
  BY <1>1, <1>2 DEF VisitsOnce, OnceInv, Broadcast, queueVars
<1>4. OnePlace'
  <2> SUFFICES ASSUME NEW n \in Ids, NEW q \in Ids
               PROVE  /\ Awaits(n, q)' /\ ~Awaits(n, q) =>
                           ~InQueue(q, n) /\ \A k \in Streams : ~OnStream(k, q, n)
                      /\ InQueue(q, n)' => InQueue(q, n)
                      /\ \A k \in Streams : OnStream(k, q, n)' => OnStream(k, q, n)
    BY PlacesShrink DEF OnceInv
  <2>1. Awaits(n, q)' /\ n \in DOMAIN published => Awaits(n, q)
    BY <1>1 DEF Awaits, Broadcast, Handled, queueVars
  <2>2. /\ InQueue(q, n)' => InQueue(q, n)
        /\ \A k \in Streams : OnStream(k, q, n)' => OnStream(k, q, n)
    BY <1>1 DEF InQueue, OnStream, TakenBy, queueVars
  <2>3. QED
    BY <2>1, <2>2, PlacesArePublished DEF KeepingInv
<1>5. SentsOnce'
  BY DEF OnceInv, SentsOnce, SentOnce
<1>6. QED
  BY <1>3, <1>4, <1>5 DEF OnceInv

LEMMA OnceHandler ==
  ASSUME KeepingInv, OnceInv, UNCHANGED streams, NEW n \in Ids, HandlerStep(n)
  PROVE  OnceInv'
<1>1. /\ published' = published /\ VisitsOnce /\ OnePlace
      /\ eventQueues \in [Ids -> [events : SUBSET Ids, active : BOOLEAN]]
  BY WhatChanges DEF KeepingInv, LInv, OnceInv, QInv, QueuesTypeOK
<1>2. /\ VisitsOnce'
      /\ \A x \in Ids, q \in Ids : Awaits(x, q)' => Awaits(x, q)
      /\ AddEvent(n) => \E q \in Ids : /\ handlers[n].queue = q
                                        /\ Awaits(n, q) /\ ~Awaits(n, q)'
  BY <1>1, AwaitsShrinks
<1>3. \A k \in Streams, x \in Ids, q \in Ids : OnStream(k, q, x)' <=> OnStream(k, q, x)
  BY DEF OnStream, TakenBy
<1>4. \A q \in Ids, x \in Ids : InQueue(q, x)' /\ ~InQueue(q, x) =>
        AddEvent(n) /\ q = handlers[n].queue /\ x = n
  BY EventsArePut DEF KeepingInv, LInv
<1>5. OnePlace'
  <2>1. CASE \A q \in Ids, x \in Ids : InQueue(q, x)' => InQueue(q, x)
    BY <1>1, <1>2, <1>3, <2>1, PlacesShrink
  <2>2. CASE \E q \in Ids, x \in Ids : InQueue(q, x)' /\ ~InQueue(q, x)
    <3>1. PICK q \in Ids : AddEvent(n) /\ q = handlers[n].queue
      BY <1>4, <2>2
    <3>2. ~Awaits(n, q)' /\ \A k \in Streams : ~OnStream(k, q, n)'
      BY <1>1, <1>2, <1>3, <3>1 DEF OnePlace
    <3>3. \A r \in Ids, x \in Ids : x # n \/ r # q => (InQueue(r, x)' => InQueue(r, x))
      BY <1>4, <3>1
    <3>4. QED
      BY <1>1, <1>2, <1>3, <3>2, <3>3 DEF OnePlace
  <2>3. QED
    BY <2>1, <2>2
<1>6. QED
  BY <1>2, <1>5 DEF OnceInv, SentsOnce, SentOnce

LEMMA OnceStream ==
  ASSUME KeepingInv, OnceInv, NEW k \in Streams, StreamStep(k) \/ CloseEmitter(k)
         \/ \E s \in Sessions, u \in Users : OpenStream(k, s, u)
  PROVE  OnceInv'
<1> USE IdsAreNumbers
<1> DEFINE a == streams[k]
           b == streams'[k]
<1>1. /\ TInv /\ OnePlace /\ VisitsOnce /\ SentOnce(a)
      /\ a \in Stream /\ WellFormed(a)
  BY DEF KeepingInv, DInv, TInv, OnceInv, SentsOnce, StreamsType
<1>2. /\ UNCHANGED <<published, handlers>>
      /\ \A q \in Ids : eventQueues'[q].events \subseteq eventQueues[q].events
  BY <1>1, StreamsLeaveListeners, TakeShrinks DEF listenerVars, queueVars
<1>3. \A j \in Streams \ {k} : streams'[j] = streams[j]
  BY <1>1, StreamsMove
<1>4. /\ \A x \in Ids, q \in Ids : Awaits(x, q)' <=> Awaits(x, q)
      /\ VisitsOnce'
  BY <1>1, <1>2 DEF Awaits, Broadcast, Handled, VisitsOnce
<1>5. \A q \in Ids, x \in Ids : InQueue(q, x)' => InQueue(q, x)
  BY <1>2 DEF InQueue
<1>6. \A j \in Streams \ {k}, q \in Ids, x \in Ids : OnStream(j, q, x)' <=> OnStream(j, q, x)
  BY <1>3 DEF OnStream, TakenBy
<1>7. ASSUME SentOnce(b) PROVE SentsOnce'
  BY <1>3, <1>7 DEF OnceInv, SentsOnce, SentOnce
<1>8. ASSUME SentOnce(b), TakenBy(b) \subseteq TakenBy(a),
             b.queue = a.queue \/ TakenBy(b) = {}
      PROVE  OnceInv'
  <2>1. \A q \in Ids, x \in Ids : OnStream(k, q, x)' => OnStream(k, q, x)
    BY <1>8 DEF OnStream, TakenBy
  <2>2. OnePlace'
    BY <1>1, <1>4, <1>5, <1>6, <2>1, PlacesShrink
  <2>3. QED
    BY <1>4, <1>7, <1>8, <2>2 DEF OnceInv
<1>9. CASE b.queue # a.queue
  <2>1. TakenBy(b) = {} /\ b.sent = <<>>
    BY <1>1, <1>9, QueueIsSetOnce, ExecuteFinds
  <2>2. SentOnce(b)
    BY <2>1 DEF SentOnce
  <2>3. QED
    BY <1>8, <2>1, <2>2
<1>10. CASE b.queue = a.queue /\ Opens(a, b)
  BY <1>8, <1>10 DEF Opens, TakenBy, SentOnce
<1>11. CASE b.queue = a.queue /\ Drops(a, b)
  <2>1. TakenBy(b) \subseteq TakenBy(a)
    BY <1>11 DEF Drops, TakenBy
  <2>2. SentOnce(b)
    <3>1. \A i \in DOMAIN a.sent : a.sent[i] # Null
      BY <1>1 DEF Stream
    <3>2. QED
      BY <1>1, <1>11, <3>1 DEF Drops, SentOnce
  <2>3. QED
    BY <1>8, <1>11, <2>1, <2>2
<1>12. CASE b.queue = a.queue /\ Sends(a, b)
  <2>1. /\ DOMAIN b.sent = 1 .. Len(a.sent) + 1
        /\ DOMAIN a.sent = 1 .. Len(a.sent) /\ Len(a.sent) \in Nat
        /\ \A i \in 1 .. Len(a.sent) : b.sent[i] = a.sent[i] /\ a.sent[i] \in Ids
        /\ b.sent[Len(a.sent) + 1] = a.holding /\ a.holding \in Ids
    <3>1. a.holding \in Ids /\ a.sent \in Seq(Ids)
      BY <1>1, <1>12 DEF Sends, Stream
    <3>2. QED
      BY <1>12, <3>1 DEF Sends
  <2>2. SentOnce(b)
    BY <1>1, <1>12, <2>1 DEF Sends, SentOnce, WellFormed
  <2>3. \A i \in DOMAIN b.sent : b.sent[i] \in TakenBy(a)
    BY <1>12, <2>1 DEF Sends, TakenBy
  <2>4. TakenBy(b) \subseteq TakenBy(a)
    BY <1>12, <2>3 DEF Sends, TakenBy
  <2>5. QED
    BY <1>8, <1>12, <2>2, <2>4
<1>13. CASE Take(k)
  <2>1. PICK n \in eventQueues[a.queue].events :
          /\ streams' = [streams EXCEPT ![k].at = "send", ![k].holding = n]
          /\ eventQueues' = [eventQueues EXCEPT ![a.queue].events = @ \ {n}]
          /\ a.queue \in Ids
    BY <1>1, <1>13, TakeShrinks
  <2>2. /\ b.holding = n /\ b.queue = a.queue /\ b.sent = a.sent /\ n \in Ids
        /\ n \notin eventQueues'[a.queue].events
    <3>1. b = [a EXCEPT !.at = "send", !.holding = n]
      BY <1>1, <2>1 DEF TInv, StreamsType
    <3>2. /\ n \in Ids
          /\ eventQueues \in [Ids -> [events : SUBSET Ids, active : BOOLEAN]]
      BY <1>1, <2>1 DEF TInv, QInv, QueuesTypeOK
    <3>3. b.holding = n /\ b.queue = a.queue /\ b.sent = a.sent
      BY <1>1, <3>1 DEF Stream
    <3>4. n \notin eventQueues'[a.queue].events
      BY <2>1, <3>2
    <3>5. QED
      BY <3>2, <3>3, <3>4
  <2>3. PICK h \in Ids : h = a.queue
    BY <2>1
  <2>4. /\ ~Awaits(n, h) /\ ~InQueue(h, n)'
        /\ \A j \in Streams : ~OnStream(j, h, n)
    BY <1>1, <2>1, <2>2, <2>3 DEF OnePlace, InQueue
  <2>5. TakenBy(b) \subseteq TakenBy(a) \cup {n}
    BY <2>2 DEF TakenBy
  <2>6. SentOnce(b)
    <3>1. \A i \in DOMAIN a.sent : a.sent[i] \in TakenBy(a)
      BY DEF TakenBy
    <3>2. n \notin TakenBy(a)
      BY <2>3, <2>4 DEF OnStream
    <3>3. QED
      BY <1>1, <2>2, <3>1, <3>2 DEF SentOnce
  <2>7. \A q \in Ids, x \in Ids :
          OnStream(k, q, x)' => OnStream(k, q, x) \/ (q = h /\ x = n)
    <3>1. \A q \in Ids, x \in Ids : OnStream(k, q, x)' <=> b.queue = q /\ x \in TakenBy(b)
      BY DEF OnStream, TakenBy
    <3>2. QED
      BY <2>2, <2>3, <2>5, <3>1 DEF OnStream
  <2>8. OnePlace'
    <3> SUFFICES ASSUME NEW x \in Ids, NEW q \in Ids
                 PROVE  /\ Awaits(x, q)' =>
                             ~InQueue(q, x)' /\ \A j \in Streams : ~OnStream(j, q, x)'
                        /\ \A j \in Streams : ~InQueue(q, x)' \/ ~OnStream(j, q, x)'
                        /\ \A j, l \in Streams :
                             OnStream(j, q, x)' /\ OnStream(l, q, x)' => j = l
      BY DEF OnePlace
    <3>1. CASE q = h /\ x = n
      BY <1>4, <1>6, <2>2, <2>4, <2>7, <3>1
    <3>2. CASE ~(q = h /\ x = n)
      <4>1. \A j \in Streams : OnStream(j, q, x)' => OnStream(j, q, x)
        BY <1>6, <2>7, <3>2
      <4>2. QED
        BY <1>1, <1>4, <1>5, <4>1 DEF OnePlace
    <3>3. QED
      BY <3>1, <3>2
  <2>9. QED
    BY <1>4, <1>7, <2>6, <2>8 DEF OnceInv
<1>14. Take(k) \/ Opens(a, b) \/ Drops(a, b) \/ Sends(a, b)
  BY <1>1, StreamsMove
<1>15. QED
  BY <1>9, <1>10, <1>11, <1>12, <1>13, <1>14

LEMMA OnceNext == KeepingInv /\ OnceInv /\ [DeliveryNext]_deliveryVars => OnceInv'
<1> SUFFICES ASSUME KeepingInv, OnceInv, [DeliveryNext]_deliveryVars PROVE OnceInv'
  OBVIOUS
<1>1. CASE UNCHANGED deliveryVars
  BY <1>1 DEF deliveryVars, listenerVars, queueVars, OnceInv, VisitsOnce, OnePlace, SentsOnce,
     SentOnce, Awaits, Handled, Broadcast, InQueue, OnStream, TakenBy
<1>2. QED
  BY <1>1, OnceMulticast, OnceHandler, OnceStream DEF DeliveryNext

LEMMA OnceInit == DeliveryInit => OnceInv
<1> SUFFICES ASSUME DeliveryInit PROVE OnceInv
  OBVIOUS
<1>1. published = <<>> /\ QueuesInit /\ streams = [k \in Streams |-> Unopened]
  BY DEF DeliveryInit, ListenersInit, StreamsInit
<1>2. VisitsOnce
  BY <1>1 DEF VisitsOnce, Broadcast
<1>3. OnePlace
  BY <1>1 DEF OnePlace, Awaits, Broadcast, InQueue, QueuesInit, OnStream, TakenBy, Unopened
<1>4. SentsOnce
  BY <1>1 DEF SentsOnce, SentOnce, Unopened
<1>5. QED
  BY <1>2, <1>3, <1>4 DEF OnceInv

-----------------------------------------------------------------------------
(***************************************************************************)
(* Clients with patience: an event is published when all before it have    *)
(* been handled, and later than they were.  Then the events of a queue are *)
(* put in and taken in the order they were published.                      *)
(***************************************************************************)
Patient ==
  published' # published =>
    AllHandled /\ published'[Len(published')].ts > LastTime

OneByOne == \A n \in DOMAIN published : Handled(n) \/ n = Len(published)

TimesRise ==
  \A m, n \in DOMAIN published : m < n => published[m].ts < published[n].ts

TakenFirst ==
  \A k \in Streams :
    streams[k].queue # Null =>
      \A n \in TakenBy(streams[k]), m \in eventQueues[streams[k].queue].events : n < m

SentRising(st) ==
  /\ \A i, j \in DOMAIN st.sent : i < j => st.sent[i] < st.sent[j]
  /\ st.holding # Null => \A i \in DOMAIN st.sent : st.sent[i] < st.holding

SentsRise == \A k \in Streams : SentRising(streams[k])

\* What a stream reads, or has taken from, is a queue whose handler is done.
ReadMade ==
  \A k \in Streams : streams[k].queue # Null => Handled(streams[k].queue)

PatientInv == OneByOne /\ TimesRise /\ TakenFirst /\ SentsRise /\ ReadMade

LEMMA PatientInit == DeliveryInit => PatientInv
<1> SUFFICES ASSUME DeliveryInit PROVE PatientInv
  OBVIOUS
<1>1. DOMAIN published = {} /\ \A k \in Streams : streams[k] = Unopened
  BY DEF DeliveryInit, ListenersInit, StreamsInit
<1>2. QED
  BY <1>1 DEF PatientInv, OneByOne, TimesRise, TakenFirst, SentsRise, SentRising, ReadMade,
     Unopened

\* Patience leaves the listeners the time to settle.
LEMMA PatientSettles == OneByOne => Settled
<1> SUFFICES ASSUME OneByOne, NEW n \in DOMAIN published, ~Handled(n)
             PROVE  n = Len(published) /\ \A m \in DOMAIN published \ {n} : Handled(m)
  BY DEF Settled
<1>1. QED
  BY DEF OneByOne

LEMMA PatientMulticast ==
  ASSUME KeepingInv, KeepingInv', PatientInv, Patient, UNCHANGED streams,
         NEW ev, MulticastEvent(ev)
  PROVE  PatientInv'
<1>1. PICK k \in Ids :
         /\ k = Len(published) + 1 /\ Len(published') = k
         /\ DOMAIN published = 1 .. Len(published) /\ Len(published) \in Nat
         /\ DOMAIN published' = DOMAIN published \cup {k} /\ k \notin DOMAIN published
         /\ \A n \in DOMAIN published : published'[n] = published[n]
         /\ UNCHANGED queueVars
  BY NewNumber DEF KeepingInv
<1>2. published' # published
  BY <1>1
<1>3. AllHandled /\ published'[k].ts > LastTime
  BY <1>1, <1>2 DEF Patient
<1>4. OneByOne'
  BY <1>1, <1>3 DEF OneByOne, AllHandled, Handled, queueVars
<1>5. TimesRise'
  <2> SUFFICES ASSUME NEW m \in DOMAIN published', NEW n \in DOMAIN published', m < n
               PROVE  published'[m].ts < published'[n].ts
    BY DEF TimesRise
  <2>1. /\ \A x \in DOMAIN published : published[x].ts \in Nat
        /\ published'[k].ts \in Nat
    <3>1. published \in Seq(PokerEvent) /\ published' \in Seq(PokerEvent)
      BY DEF KeepingInv, DInv, TInv, QInv, QueuesTypeOK
    <3>2. published'[k] \in PokerEvent /\ \A x \in DOMAIN published : published[x] \in PokerEvent
      BY <1>1, <3>1
    <3>3. QED
      BY <3>2 DEF PokerEvent
  <2>2. m \in DOMAIN published /\ m <= Len(published)
    BY <1>1
  <2>3. CASE n \in DOMAIN published
    BY <1>1, <2>2, <2>3 DEF PatientInv, TimesRise
  <2>4. CASE n = k
    <3>1. Len(published) \in DOMAIN published /\ published # <<>>
      BY <1>1, <2>2
    <3>2. m = Len(published) \/ published[m].ts < published[Len(published)].ts
      BY <1>1, <2>2, <3>1 DEF PatientInv, TimesRise
    <3>3. published[m].ts <= LastTime /\ LastTime \in Nat /\ published[m].ts \in Nat
      BY <2>1, <2>2, <3>1, <3>2 DEF LastTime
    <3>4. QED
      BY <1>1, <1>3, <2>1, <2>4, <3>3
  <2>5. QED
    BY <1>1, <2>3, <2>4
<1>6. TakenFirst' /\ SentsRise' /\ ReadMade'
  BY <1>1 DEF PatientInv, TakenFirst, SentsRise, SentRising, ReadMade, Handled, queueVars
<1>7. QED
  BY <1>4, <1>5, <1>6 DEF PatientInv

LEMMA PatientHandler ==
  ASSUME KeepingInv, OnceInv', PatientInv, UNCHANGED streams, NEW n \in Ids, HandlerStep(n)
  PROVE  PatientInv'
<1>1. /\ QInv /\ TidyInv /\ DOMAIN published \subseteq Ids
      /\ published' = published /\ n \in DOMAIN published /\ ~Handled(n)
  BY HandlersMove, StepsUnfinished, WhatChanges
     DEF KeepingInv, DInv, TInv, TidyInv, EventsInBound, Handled
<1>2. \A x \in Ids : Handled(x) => Handled(x)'
  BY <1>1, HandledStays
<1>3. n = Len(published) /\ DOMAIN published = 1 .. n /\ n \in Nat
  <2>1. n = Len(published)
    BY <1>1 DEF PatientInv, OneByOne
  <2>2. QED
    BY <1>1, <2>1 DEF QInv, QueuesTypeOK
<1>4. OneByOne' /\ TimesRise' /\ SentsRise'
  BY <1>1, <1>2 DEF PatientInv, OneByOne, TimesRise, SentsRise, SentRising
<1>5. ASSUME NEW k \in Streams, streams[k].queue # Null
      PROVE  /\ streams[k].queue \in Ids /\ streams[k].uid \in Users
             /\ MadeFor(streams[k].queue, streams[k].sid, streams[k].uid)
             /\ TakenBy(streams[k]) \subseteq DOMAIN published
  <2>1. streams[k] \in Stream /\ WellFormed(streams[k]) /\ StreamOwned(streams[k])
    BY DEF KeepingInv, DInv, TInv, StreamsType, StreamsOwned
  <2>2. streams[k].at # "unopened"
    BY <1>5, <2>1 DEF WellFormed, Unopened
  <2>3. QED
    BY <1>1, <1>5, <2>1, <2>2 DEF WellFormed, StreamOwned, MadeFor
<1>6. ReadMade'
  BY <1>2, <1>5 DEF PatientInv, ReadMade
<1>7. TakenFirst'
  <2> SUFFICES ASSUME NEW k \in Streams, streams[k].queue # Null,
                      NEW t \in TakenBy(streams[k]),
                      NEW m \in eventQueues'[streams[k].queue].events
               PROVE  t < m
    BY DEF TakenFirst
  <2>1. CASE m \in eventQueues[streams[k].queue].events
    BY <2>1 DEF PatientInv, TakenFirst
  <2>2. CASE m \notin eventQueues[streams[k].queue].events
    <3>1. m = n
      <4>1. eventQueues \in [Ids -> [events : SUBSET Ids, active : BOOLEAN]]
        BY <1>1 DEF QInv, QueuesTypeOK
      <4>2. ~ClearEvents(n) /\ ~Disable(n)
        BY <1>5, <2>2, <4>1 DEF ClearEvents, Disable
      <4>3. AddEvent(n)
        BY <2>2, <4>2, WhatChanges
      <4>4. QED
        BY <1>5, <2>2, <4>1, <4>3 DEF AddEvent
    <3>2. InQueue(streams[k].queue, n)' /\ streams'[k].queue = streams[k].queue
      BY <3>1 DEF InQueue
    <3>3. ~OnStream(k, streams[k].queue, n)'
      BY <1>5, <3>2 DEF OnceInv, OnePlace
    <3>4. t # n
      BY <3>3 DEF OnStream, TakenBy
    <3>5. QED
      BY <1>3, <1>5, <3>1, <3>4
  <2>3. QED
    BY <2>1, <2>2
<1>8. QED
  BY <1>4, <1>6, <1>7 DEF PatientInv

LEMMA PatientStream ==
  ASSUME KeepingInv, PatientInv, NEW k \in Streams,
         StreamStep(k) \/ CloseEmitter(k)
         \/ \E s \in Sessions, u \in Users : OpenStream(k, s, u)
  PROVE  PatientInv'
<1> DEFINE a == streams[k]
           b == streams'[k]
           Fine == /\ SentRising(b)
                   /\ b.queue # Null =>
                        /\ Handled(b.queue)
                        /\ \A t \in TakenBy(b), m \in eventQueues'[b.queue].events : t < m
<1>1. /\ TInv /\ QInv /\ a \in Stream /\ WellFormed(a) /\ StreamOwned(a)
      /\ DOMAIN published \subseteq Ids
      /\ TakenFirst /\ SentRising(a) /\ ReadMade
  BY DEF KeepingInv, DInv, TInv, StreamsType, StreamsOwned, TidyInv, EventsInBound, PatientInv,
     SentsRise
<1>2. /\ UNCHANGED <<published, handlers>>
      /\ \A q \in Ids : eventQueues'[q].events \subseteq eventQueues[q].events
      /\ \A j \in Streams \ {k} : streams'[j] = streams[j]
  BY <1>1, StreamsLeaveListeners, TakeShrinks, StreamsMove DEF listenerVars, queueVars
<1>3. OneByOne' /\ TimesRise'
  BY <1>2 DEF PatientInv, OneByOne, TimesRise, Handled
<1>4. ASSUME NEW j \in Streams, streams[j].queue # Null
      PROVE  streams[j].queue \in Ids
  BY <1>4 DEF KeepingInv, DInv, TInv, StreamsType, Stream
<1>5. ASSUME Fine PROVE PatientInv'
  <2>1. SentsRise'
    BY <1>2, <1>5 DEF PatientInv, SentsRise, SentRising
  <2>2. ReadMade'
    BY <1>1, <1>2, <1>5 DEF ReadMade, Handled
  <2>3. TakenFirst'
    <3> SUFFICES ASSUME NEW j \in Streams, streams'[j].queue # Null
                 PROVE  \A t \in TakenBy(streams'[j]),
                           m \in eventQueues'[streams'[j].queue].events : t < m
      BY DEF TakenFirst
    <3>1. CASE j = k
      BY <1>5, <3>1
    <3>2. CASE j # k
      <4>1. streams'[j] = streams[j] /\ streams[j].queue \in Ids
        BY <1>2, <1>4, <3>2
      <4>2. QED
        BY <1>1, <1>2, <4>1 DEF TakenFirst
    <3>3. QED
      BY <3>1, <3>2
  <2>4. QED
    BY <1>3, <2>1, <2>2, <2>3 DEF PatientInv
<1>6. ASSUME execute(k) PROVE Fine
  BY <1>6, ExecuteFinds DEF SentRising
<1>7. ASSUME b.queue = a.queue PROVE Fine
  <2>1. b.queue # Null => Handled(b.queue) /\ b.queue \in Ids
    BY <1>1, <1>4, <1>7 DEF ReadMade
  <2>2. CASE Take(k)
    <3>1. PICK n \in eventQueues[a.queue].events :
            /\ a.queue \in Ids /\ a.at = "take"
            /\ b = [a EXCEPT !.at = "send", !.holding = n]
            /\ eventQueues' = [eventQueues EXCEPT ![a.queue].events = @ \ {n}]
            /\ \A m \in eventQueues[a.queue].events : published[n].ts <= published[m].ts
      <4>1. streams \in [Streams -> Stream] /\ a.queue \in Ids
        BY <1>1, <2>2, TakeShrinks DEF TInv, StreamsType
      <4>2. QED
        BY <2>2, <4>1 DEF Take, Earliest
    <3>2. eventQueues'[a.queue].events = eventQueues[a.queue].events \ {n}
      BY <1>1, <3>1 DEF QInv, QueuesTypeOK
    <3>3. b.sent = a.sent /\ b.holding = n /\ TakenBy(b) \subseteq TakenBy(a) \cup {n}
      <4>1. b.sent = a.sent /\ b.holding = n
        BY <1>1, <3>1 DEF Stream
      <4>2. QED
        BY <4>1 DEF TakenBy
    <3>4. ASSUME NEW m \in eventQueues'[a.queue].events PROVE n < m
      <4>1. n \in DOMAIN published /\ m \in DOMAIN published /\ n # m
        BY <3>1, <3>2, <3>4 DEF KeepingInv, DInv, OwnInv, EventsOwned
      <4>2. published[n] \in PokerEvent /\ published[m] \in PokerEvent
        BY <1>1, <4>1 DEF QInv, QueuesTypeOK
      <4>3. published[n].ts \in Nat /\ published[m].ts \in Nat /\ n \in Nat /\ m \in Nat
        BY <1>1, <4>1, <4>2, IdsAreNumbers DEF PokerEvent
      <4>4. ~(published[m].ts < published[n].ts)
        BY <3>1, <3>2, <3>4, <4>3
      <4>5. ~(m < n)
        BY <4>1, <4>4 DEF PatientInv, TimesRise
      <4>6. QED
        BY <4>1, <4>3, <4>5
    <3>5. \A t \in TakenBy(b), m \in eventQueues'[b.queue].events : t < m
      BY <1>1, <1>7, <3>1, <3>2, <3>3, <3>4, IdsAreNumbers DEF TakenFirst
    <3>6. \A i \in DOMAIN a.sent : a.sent[i] < n
      BY <1>1, <3>1, IdsAreNumbers DEF TakenFirst, TakenBy
    <3>7. SentRising(b)
      BY <1>1, <3>3, <3>6 DEF SentRising
    <3>8. QED
      BY <2>1, <3>5, <3>7
  <2>3. ASSUME SentRising(b), TakenBy(b) \subseteq TakenBy(a) PROVE Fine
    BY <1>1, <1>2, <1>7, <2>1, <2>3 DEF TakenFirst
  <2>4. CASE Opens(a, b)
    BY <2>3, <2>4 DEF Opens, SentRising, TakenBy
  <2>5. CASE Drops(a, b)
    BY <1>1, <2>3, <2>5 DEF Drops, SentRising, TakenBy
  <2>6. CASE Sends(a, b)
    <3>1. a.sent \in Seq(Ids) /\ a.holding \in Ids
      BY <1>1, <2>6 DEF Stream, Sends
    <3>2. /\ b.sent = Append(a.sent, a.holding) /\ b.holding = Null
          /\ DOMAIN b.sent = DOMAIN a.sent \cup {Len(a.sent) + 1}
          /\ b.sent[Len(a.sent) + 1] = a.holding
          /\ \A i \in DOMAIN a.sent : b.sent[i] = a.sent[i] /\ i <= Len(a.sent)
      BY <2>6, <3>1 DEF Sends
    <3>3. TakenBy(b) \subseteq TakenBy(a)
      BY <2>6, <3>2 DEF TakenBy, Sends
    <3>4. \A i \in DOMAIN a.sent : a.sent[i] < a.holding
      BY <1>1, <2>6 DEF Sends, SentRising
    <3>5. ASSUME NEW i \in DOMAIN b.sent, NEW j \in DOMAIN b.sent, i < j
          PROVE  b.sent[i] < b.sent[j]
      <4>1. i \in DOMAIN a.sent
        BY <3>1, <3>2, <3>5
      <4>2. CASE j \in DOMAIN a.sent
        BY <1>1, <3>2, <3>5, <4>1, <4>2 DEF SentRising
      <4>3. CASE j = Len(a.sent) + 1
        BY <3>2, <3>4, <4>1, <4>3
      <4>4. QED
        BY <3>2, <4>2, <4>3
    <3>6. SentRising(b)
      BY <3>2, <3>5 DEF SentRising
    <3>7. QED
      BY <2>3, <3>3, <3>6
  <2>7. QED
    BY <1>1, <2>2, <2>4, <2>5, <2>6, StreamsMove
<1>8. QED
  BY <1>1, <1>5, <1>6, <1>7, QueueIsSetOnce

LEMMA PatientNext ==
  ASSUME KeepingInv, OnceInv, PatientInv, [DeliveryNext]_deliveryVars, Patient
  PROVE  PatientInv'
<1>1. KeepingInv' /\ OnceInv'
  BY KeepingNext, OnceNext
<1>2. CASE UNCHANGED deliveryVars
  BY <1>2 DEF deliveryVars, listenerVars, queueVars, PatientInv, OneByOne, TimesRise, TakenFirst,
     SentsRise, SentRising, ReadMade, Handled, TakenBy
<1>3. QED
  BY <1>1, <1>2, PatientMulticast, PatientHandler, PatientStream DEF DeliveryNext

-----------------------------------------------------------------------------
(***************************************************************************)
(* Nothing gets lost: as long as no consumer fails to send what it has     *)
(* taken, the votes and resets since the user's queue was made are in the  *)
(* queue, have been taken from it, or are on their way to it.              *)
(***************************************************************************)
LosesNone == \A k \in Streams : TakenBy(streams[k]) \subseteq TakenBy(streams'[k])

HasHad(q) == eventQueues[q].events \cup TakenFrom(q)

EventsKept(s, u) ==
  \A q \in QueueDue(s, u) :
    /\ HasHad(q) \subseteq After(q, s, Broadcasts)
    /\ \A b \in After(q, s, Broadcasts) : b \in HasHad(q) \/ Coming(b, q)

KeptInv == \A s \in Sessions, u \in Users : ~Changing(s, u) => EventsKept(s, u)

LEMMA TakenFromIs ==
  ASSUME NEW q
  PROVE  \A n : n \in TakenFrom(q) <=>
                  \E k \in Streams : streams[k].queue = q /\ n \in TakenBy(streams[k])
<1>1. \A k : TakenBy(streams[k]) = Taken(k)
  BY DEF TakenBy, Taken, Sent
<1>2. QED
  BY <1>1 DEF TakenFrom

LEMMA KeptHandler ==
  ASSUME KeepingInv, SettledInv, ReadMade, KeptInv, UNCHANGED streams,
         NEW x \in Ids, HandlerStep(x)
  PROVE  KeptInv'
<1>1. /\ LInv /\ TidyInv /\ OrderlyInv /\ published' = published
      /\ DOMAIN published \subseteq Ids
      /\ x \in DOMAIN published /\ ~Handled(x)
  BY WhatChanges, HandlersMove, StepsUnfinished
     DEF KeepingInv, LInv, SettledInv, TidyInv, EventsInBound, Handled
<1>2. \A q : TakenFrom(q)' = TakenFrom(q)
  BY DEF TakenFrom, Taken, Sent
<1>3. SUFFICES ASSUME NEW s \in Sessions, NEW u \in Users, ~Changing(s, u)',
                      NEW q \in QueueDue(s, u)
               PROVE  /\ HasHad(q)' \subseteq After(q, s, Broadcasts)
                      /\ \A b \in After(q, s, Broadcasts) : b \in HasHad(q)' \/ Coming(b, q)'
  <2>1. \A s \in Sessions, u \in Users : QueueDue(s, u)' = QueueDue(s, u)
    BY <1>1 DEF QueueDue, After
  <2>2. \A s \in Sessions : \A q : After(q, s, Broadcasts)' = After(q, s, Broadcasts)
    BY <1>1 DEF After
  <2>3. QED
    BY <1>3, <2>1, <2>2 DEF KeptInv, EventsKept
<1>4. CASE Changing(s, u)
  <2>1. q = x /\ q = Len(published) /\ eventQueues'[q].events = {}
    BY <1>1, <1>3, <1>4, QueueReplaced
  <2>2. After(q, s, Broadcasts) = {}
    BY <1>1, <2>1 DEF After, LInv, QInv, QueuesTypeOK
  <2>3. TakenFrom(q) = {}
    <3>1. \A k \in Streams : streams[k].queue # q
      BY <1>1, <2>1, IdsAreNumbers DEF ReadMade
    <3>2. QED
      BY <3>1 DEF TakenFrom
  <2>4. QED
    BY <1>2, <2>1, <2>2, <2>3 DEF HasHad
<1>5. CASE ~Changing(s, u)
  <2>1. /\ HasHad(q) \subseteq After(q, s, Broadcasts)
        /\ \A b \in After(q, s, Broadcasts) : b \in HasHad(q) \/ Coming(b, q)
    BY <1>3, <1>5 DEF KeptInv, EventsKept
  <2>2. /\ eventQueues[q].events \subseteq eventQueues'[q].events
        /\ eventQueues'[q].events \subseteq eventQueues[q].events \cup {x}
        /\ x \in eventQueues'[q].events \ eventQueues[q].events => q < x
    BY <1>1, <1>3, <1>5, DueEventsStay
  <2>3. ASSUME NEW b \in After(q, s, Broadcasts)
        PROVE  b \in HasHad(q)' \/ Coming(b, q)'
    <3>1. b \in Ids /\ q \in Ids
      BY <1>1, <1>3 DEF After, QueueDue
    <3>2. CASE b \in HasHad(q)
      BY <1>2, <2>2, <3>2 DEF HasHad
    <3>3. CASE Coming(b, q)
      <4>1. Coming(b, q)' \/ b \in eventQueues'[q].events
        BY <1>1, <1>3, <1>5, <2>3, <3>1, <3>3, ComesOrArrives
      <4>2. QED
        BY <4>1 DEF HasHad
    <3>4. QED
      BY <2>1, <2>3, <3>2, <3>3
  <2>4. ASSUME x \in eventQueues'[q].events \ eventQueues[q].events
        PROVE  x \in After(q, s, Broadcasts)
    <3>1. EventsOwned'
      BY OwnStep DEF KeepingInv, LInv, OwnInv
    <3>2. MadeFor(q, s, u) /\ q \in Ids
      BY <1>1, <1>3, DueQueuesAreMade DEF LInv, MadeFor
    <3>3. QED
      BY <1>1, <2>2, <2>4, <3>1, <3>2 DEF EventsOwned, MadeFor, After
  <2>5. HasHad(q)' \subseteq After(q, s, Broadcasts)
    BY <1>2, <2>1, <2>2, <2>4 DEF HasHad
  <2>6. QED
    BY <2>3, <2>5
<1>6. QED
  BY <1>4, <1>5

LEMMA KeptMulticast ==
  ASSUME KeepingInv, KeptInv, UNCHANGED streams, NEW ev, MulticastEvent(ev)
  PROVE  KeptInv'
<1>1. UNCHANGED queueVars /\ handlers[Len(published) + 1] = Idle("start")
  BY NewNumber DEF KeepingInv
<1>2. \A q : HasHad(q)' = HasHad(q)
  BY <1>1 DEF HasHad, TakenFrom, Taken, Sent, queueVars
<1>3. SUFFICES ASSUME NEW s \in Sessions, NEW u \in Users, ~Changing(s, u)'
               PROVE  EventsKept(s, u)'
  BY DEF KeptInv
<1>4. /\ ~Changing(s, u) /\ QueueDue(s, u)' = QueueDue(s, u)
      /\ \A q \in QueueDue(s, u) :
           After(q, s, Broadcasts)' \subseteq After(q, s, Broadcasts) \cup {Len(published) + 1}
  BY <1>3, DueAfterMulticast DEF KeepingInv
<1>5. ASSUME NEW q \in QueueDue(s, u)
      PROVE  /\ HasHad(q) \subseteq After(q, s, Broadcasts)'
             /\ \A b \in After(q, s, Broadcasts)' : b \in HasHad(q) \/ Coming(b, q)
  <2>1. /\ HasHad(q) \subseteq After(q, s, Broadcasts)
        /\ \A b \in After(q, s, Broadcasts) : b \in HasHad(q) \/ Coming(b, q)
    BY <1>4, <1>5 DEF KeptInv, EventsKept
  <2>2. Coming(Len(published) + 1, q)
    BY <1>1 DEF Coming, Idle
  <2>3. After(q, s, Broadcasts) \subseteq After(q, s, Broadcasts)'
    BY NewNumber DEF KeepingInv, After
  <2>4. QED
    BY <1>4, <2>1, <2>2, <2>3
<1>6. \A q, b : Coming(b, q)' <=> Coming(b, q)
  BY <1>1 DEF Coming, queueVars
<1>7. QED
  BY <1>2, <1>4, <1>5, <1>6 DEF EventsKept

(***************************************************************************)
(* What a step of a stream takes: one event of its queue, or nothing.      *)
(***************************************************************************)
Picks(k) ==
  /\ streams[k].queue \in Ids /\ streams'[k].queue = streams[k].queue
  /\ \E n \in eventQueues[streams[k].queue].events :
       /\ TakenBy(streams'[k]) = TakenBy(streams[k]) \cup {n}
       /\ eventQueues'[streams[k].queue].events = eventQueues[streams[k].queue].events \ {n}
       /\ \A q \in Ids \ {streams[k].queue} : eventQueues'[q] = eventQueues[q]

LEMMA StreamTakes ==
  ASSUME KeepingInv, NEW k \in Streams,
         StreamStep(k) \/ CloseEmitter(k)
         \/ \E s \in Sessions, u \in Users : OpenStream(k, s, u)
  PROVE  /\ streams[k].queue # Null => streams'[k].queue = streams[k].queue
         /\ streams'[k].queue # streams[k].queue => TakenBy(streams'[k]) = {}
         /\ Take(k) => Picks(k)
         /\ ~Take(k) => TakenBy(streams'[k]) \subseteq TakenBy(streams[k])
<1> DEFINE a == streams[k]
           b == streams'[k]
<1>1. /\ TInv /\ QInv /\ a \in Stream /\ WellFormed(a) /\ DOMAIN published \subseteq Ids
      /\ streams \in [Streams -> Stream]
  BY DEF KeepingInv, DInv, TInv, StreamsType, TidyInv, EventsInBound
<1>2. ASSUME Take(k) PROVE Picks(k)
  <2>1. PICK n \in eventQueues[a.queue].events :
          /\ a.queue \in Ids /\ a.at = "take"
          /\ b = [a EXCEPT !.at = "send", !.holding = n]
          /\ eventQueues' = [eventQueues EXCEPT ![a.queue].events = @ \ {n}]
    <3>1. PICK n \in eventQueues[a.queue].events :
            /\ streams' = [streams EXCEPT ![k].at = "send", ![k].holding = n]
            /\ eventQueues' = [eventQueues EXCEPT ![a.queue].events = @ \ {n}]
      BY <1>1, <1>2, TakeShrinks
    <3>2. b = [a EXCEPT !.at = "send", !.holding = n]
      BY <1>1, <3>1
    <3>3. a.queue \in Ids /\ a.at = "take"
      BY <1>1, <1>2, TakeShrinks DEF Take
    <3>4. QED
      BY <3>1, <3>2, <3>3
  <2>2. /\ eventQueues'[a.queue].events = eventQueues[a.queue].events \ {n}
        /\ \A q \in Ids \ {a.queue} : eventQueues'[q] = eventQueues[q]
        /\ n \in Ids
    BY <1>1, <2>1 DEF QInv, QueuesTypeOK
  <2>3. b.sent = a.sent /\ b.holding = n /\ b.queue = a.queue /\ a.holding = Null
    BY <1>1, <2>1 DEF Stream, WellFormed
  <2>4. TakenBy(b) = TakenBy(a) \cup {n}
    BY <2>2, <2>3, IdsAreNumbers DEF TakenBy
  <2>5. QED
    BY <2>1, <2>2, <2>3, <2>4 DEF Picks
<1>3. a.queue # Null => b.queue = a.queue
  BY <1>1, QueueIsSetOnce DEF execute, WellFormed, Opening
<1>4. b.queue # a.queue => TakenBy(b) = {}
  BY <1>1, QueueIsSetOnce, ExecuteFinds
<1>5. ~Take(k) => TakenBy(b) \subseteq TakenBy(a)
  <2>1. Opens(a, b) => TakenBy(b) = {}
    BY DEF Opens, TakenBy
  <2>2. Drops(a, b) => TakenBy(b) \subseteq TakenBy(a)
    BY DEF Drops, TakenBy
  <2>3. ASSUME Sends(a, b) PROVE TakenBy(b) \subseteq TakenBy(a)
    <3>1. a.sent \in Seq(Ids) /\ a.holding # Null /\ b.sent = Append(a.sent, a.holding)
          /\ b.holding = Null
      BY <1>1, <2>3 DEF Stream, Sends
    <3>2. QED
      BY <3>1 DEF TakenBy
  <2>4. QED
    BY <1>1, <2>1, <2>2, <2>3, StreamsMove
<1>6. QED
  BY <1>2, <1>3, <1>4, <1>5

LEMMA KeptStream ==
  ASSUME KeepingInv, KeptInv, LosesNone, NEW k \in Streams,
         StreamStep(k) \/ CloseEmitter(k)
         \/ \E s \in Sessions, u \in Users : OpenStream(k, s, u)
  PROVE  KeptInv'
<1> DEFINE a == streams[k]
           b == streams'[k]
<1>1. /\ TInv /\ QInv /\ a \in Stream /\ WellFormed(a) /\ DOMAIN published \subseteq Ids
      /\ streams \in [Streams -> Stream]
  BY DEF KeepingInv, DInv, TInv, StreamsType, TidyInv, EventsInBound
<1>2. /\ UNCHANGED <<published, handlers>>
      /\ \A j \in Streams \ {k} : streams'[j] = streams[j]
      /\ Take(k) \/ UNCHANGED eventQueues
  BY <1>1, StreamsLeaveListeners, TakeShrinks, StreamsMove DEF listenerVars, queueVars
<1>3. Take(k) => Picks(k)
  BY StreamTakes
<1>4. a.queue # Null => b.queue = a.queue
  BY StreamTakes
<1>5. b.queue # a.queue => TakenBy(b) = {}
  BY StreamTakes
<1>6. ~Take(k) => TakenBy(b) \subseteq TakenBy(a)
  BY StreamTakes
<1>7. ASSUME NEW q \in Ids PROVE HasHad(q)' = HasHad(q)
  <2>0. /\ q # Null
        /\ \A n : n \in TakenFrom(q) <=>
                    \E j \in Streams : streams[j].queue = q /\ n \in TakenBy(streams[j])
        /\ \A n : n \in TakenFrom(q)' <=>
                    \E j \in Streams : streams'[j].queue = q /\ n \in TakenBy(streams'[j])
    <3>1. /\ \A j : TakenBy(streams[j]) = Taken(j)
          /\ \A j : TakenBy(streams'[j]) = Taken(j)'
      BY DEF TakenBy, Taken, Sent
    <3>2. QED
      BY <3>1, IdsAreNumbers DEF TakenFrom
  <2>1. CASE Take(k) /\ a.queue = q
    <3>1. PICK n \in eventQueues[q].events :
             /\ TakenBy(b) = TakenBy(a) \cup {n} /\ b.queue = q
             /\ eventQueues'[q].events = eventQueues[q].events \ {n}
      BY <1>3, <2>1 DEF Picks
    <3>2. TakenFrom(q)' = TakenFrom(q) \cup {n}
      BY <1>2, <2>0, <2>1, <3>1
    <3>3. QED
      BY <3>1, <3>2 DEF HasHad
  <2>2. CASE ~(Take(k) /\ a.queue = q)
    <3>1. eventQueues'[q].events = eventQueues[q].events
      BY <1>2, <1>3, <2>2 DEF Picks
    <3>2. TakenFrom(q)' = TakenFrom(q)
      <4>1. ASSUME NEW n PROVE (b.queue = q /\ n \in TakenBy(b)) <=> (a.queue = q /\ n \in TakenBy(a))
        <5>1. CASE b.queue # a.queue
          BY <1>4, <1>5, <2>0, <5>1
        <5>2. CASE b.queue = a.queue /\ a.queue = q
          BY <1>6, <2>2, <5>2 DEF LosesNone
        <5>3. QED
          BY <5>1, <5>2
      <4>2. QED
        BY <1>2, <2>0, <4>1
    <3>3. QED
      BY <3>1, <3>2 DEF HasHad
  <2>3. QED
    BY <2>1, <2>2
<1>8. ASSUME NEW s \in Sessions, NEW u \in Users
      PROVE  /\ Changing(s, u)' <=> Changing(s, u)
             /\ QueueDue(s, u)' = QueueDue(s, u)
  BY <1>2 DEF Changing, Handled, QueueDue, After
<1>9. /\ \A q, s : After(q, s, Broadcasts)' = After(q, s, Broadcasts)
      /\ \A c, q : Coming(c, q)' <=> Coming(c, q)
  BY <1>2 DEF After, Coming
<1>10. \A s \in Sessions, u \in Users : QueueDue(s, u) \subseteq Ids
  BY <1>1 DEF QueueDue, After
<1>11. QED
  BY <1>7, <1>8, <1>9, <1>10 DEF KeptInv, EventsKept

LEMMA KeptNext ==
  ASSUME KeepingInv, SettledInv, ReadMade, KeptInv, [DeliveryNext]_deliveryVars, LosesNone
  PROVE  KeptInv'
<1>1. CASE UNCHANGED deliveryVars
  BY <1>1 DEF deliveryVars, listenerVars, queueVars, KeptInv, EventsKept, Changing, Handled,
     QueueDue, After, HasHad, TakenFrom, Taken, Sent, Coming
<1>2. QED
  BY <1>1, KeptMulticast, KeptHandler, KeptStream DEF DeliveryNext

LEMMA KeptInit == DeliveryInit => KeptInv
<1> SUFFICES ASSUME DeliveryInit, NEW s \in Sessions, NEW u \in Users PROVE EventsKept(s, u)
  BY DEF KeptInv
<1>1. QueueDue(s, u) = {}
  BY DEF DeliveryInit, ListenersInit, QueueDue, After
<1>2. QED
  BY <1>1 DEF EventsKept

\* When everything is handled, the queue and its streams have it all.
LEMMA KeptAll ==
  ASSUME KeepingInv, SettledInv, KeptInv, AllHandled,
         NEW s \in Sessions, NEW u \in Users, Registered(s, u) # Null
  PROVE  LET q == Registered(s, u)
         IN  /\ q \in QueueDue(s, u) /\ q \in Ids /\ MadeFor(q, s, u)
             /\ HasHad(q) = After(q, s, Broadcasts)
<1> DEFINE q == Registered(s, u)
<1>1. ~Changing(s, u)
  BY DEF AllHandled, Changing
<1>2. q \in QueueDue(s, u) /\ EventsKept(s, u)
  BY <1>1 DEF KeptInv, SettledInv, QueuesFollow, QueueFollows
<1> HIDE DEF q
<1>3. MadeFor(q, s, u) /\ q \in Ids
  BY <1>2, DueQueuesAreMade DEF KeepingInv, LInv, TidyInv, EventsInBound, MadeFor
<1>4. After(q, s, Broadcasts) \subseteq HasHad(q)
  BY <1>2 DEF EventsKept, AllHandled, After, Handled, Finished, Coming
<1>5. HasHad(q) = After(q, s, Broadcasts)
  BY <1>2, <1>4 DEF EventsKept
<1>6. QED
  BY <1>2, <1>3, <1>5 DEF q

-----------------------------------------------------------------------------
(***************************************************************************)
(* The inductive form of the second half of EventsAreGivenOnce: where all  *)
(* queues are of one user, a traversal that has met one meets no other.    *)
(***************************************************************************)
Holds(n, q) == q \in handlers[n].todo \/ handlers[n].queue = q

HeldMade == \A n, q \in Ids : Holds(n, q) => published[q].type \in Creates

HadBroadcast == \A q \in Ids : \A n \in HasHad(q) : Broadcast(n)

AloneOnce(n) ==
  /\ \A q, r \in Ids : n \in HasHad(q) /\ n \in HasHad(r) => q = r
  /\ ~Handled(n) => \A q \in Ids : n \in HasHad(q) => q = handlers[n].queue
  /\ handlers[n].at \in {"visit", "add"} /\ handlers[n].queue # Null =>
       \A q \in handlers[n].todo : ~InMap(n, q)

AloneInv ==
  /\ HeldMade /\ HadBroadcast
  /\ \A n \in Ids, u \in Users : Broadcast(n) /\ Alone(published[n].sid, u) => AloneOnce(n)

LEMMA HeldMadeHandler ==
  ASSUME KeepingInv, HeldMade, NEW x \in Ids, HandlerStep(x)
  PROVE  HeldMade'
<1>1. /\ published' = published /\ QInv
      /\ userEventMaps \in [Ids -> [Users -> Ids \cup {Null}]]
      /\ \A n \in Ids : handlers'[n].map \in Ids \cup {Null}
  <2>1. QInv'
    BY TypeStep DEF KeepingInv, LInv
  <2>2. QED
    BY <2>1, WhatChanges DEF KeepingInv, LInv, QInv, QueuesTypeOK, Handler
<1>2. \A m \in Ids, u \in Users :
        userEventMaps[m][u] # Null => published[userEventMaps[m][u]].type \in Creates
  BY DEF KeepingInv, LInv, OwnInv, MapsOwned, MadeFor
<1>3. ASSUME NEW n \in Ids, NEW q \in Ids, Holds(n, q)'
      PROVE  published[q].type \in Creates
  <2>1. CASE Holds(n, q)
    BY <2>1 DEF HeldMade
  <2>2. CASE ~Holds(n, q) /\ n # x
    <3>1. q = x /\ PutQueue(x)
      BY <1>1, <1>3, <2>2, OthersStay DEF Holds, StaysAt
    <3>2. QED
      BY <3>1 DEF PutQueue, At
  <2>3. CASE ~Holds(n, q) /\ n = x
    <3>1. \/ q \in handlers'[x].todo
          \/ /\ published[x].uid \in Users /\ handlers[x].map \in Ids
             /\ q = userEventMaps[handlers[x].map][published[x].uid]
      BY <1>1, <1>3, <2>3, HandlersMove, IdsAreNumbers DEF Holds
    <3>2. CASE q \in handlers'[x].todo
      <4>1. q \in QueuesOf(handlers'[x].map) /\ handlers'[x].map \in Ids
        BY <1>1, <2>3, <3>2, HandlersMove DEF Holds
      <4>2. QED
        BY <1>2, <4>1 DEF QueuesOf
    <3>3. CASE ~(q \in handlers'[x].todo)
      BY <1>2, <3>1, <3>3, IdsAreNumbers
    <3>4. QED
      BY <3>2, <3>3
  <2>4. QED
    BY <2>1, <2>2, <2>3
<1>4. QED
  BY <1>1, <1>3 DEF HeldMade

\* What a handler meets in the session of a user who is alone is the user's.
LEMMA AloneOwns ==
  ASSUME KeepingInv, HeldMade, NEW n \in Ids, NEW u \in Users,
         Alone(published[n].sid, u), NEW q \in Ids, Holds(n, q)
  PROVE  published[q].uid = u
<1>1. OfSession(q, published[n].sid)
  BY IdsAreNumbers DEF KeepingInv, LInv, OwnInv, HeldOwned, Holds
<1>2. QED
  BY <1>1 DEF HeldMade, OfSession, Alone

\* A traversal that has met a queue of this user is not shown another one.
LEMMA ShownNoMore ==
  ASSUME KeepingInv, HeldMade, NEW n \in Ids, NEW u \in Users, Broadcast(n),
         Alone(published[n].sid, u), AloneOnce(n),
         handlers[n].at \in {"visit", "add"}, handlers[n].queue # Null,
         NEW x \in Ids, PutQueue(x), Shown(n, x)
  PROVE  FALSE
<1>1. /\ handlers[n].map = handlers[x].map /\ handlers[n].map \in Ids
      /\ handlers[n].queue \in Ids /\ handlers[n].todo \in SUBSET Ids
  BY PlaceNames DEF KeepingInv, LInv, QInv, QueuesTypeOK, Handler, Shown
<1>2. /\ x \in DOMAIN published /\ published[x].type \in Creates
  BY DEF PutQueue, At
<1>3. published[x].sid = published[n].sid
  BY <1>1, IdsAreNumbers DEF KeepingInv, LInv, OwnInv, HeldOwned, OfSession
<1>4. published[x].uid = u
  BY <1>2, <1>3 DEF Alone
<1>5. \A r \in handlers[n].todo \cup {handlers[n].queue} : published[r].uid = u
  BY <1>1, AloneOwns DEF Holds
<1>6. ~MayMeet(n, x)
  BY <1>4, <1>5 DEF MayMeet, OfOthers
<1>7. QueueIn(x, u) # Null /\ QueueIn(x, u) \in handlers[n].todo
  BY <1>4, <1>6 DEF Shown
<1>8. InMap(n, QueueIn(x, u))
  BY <1>1, <1>5, <1>7 DEF InMap, QueueIn
<1>9. QED
  BY <1>7, <1>8 DEF AloneOnce

LEMMA AloneOther ==
  ASSUME KeepingInv, HeldMade, NEW n \in Ids, NEW u \in Users, Broadcast(n),
         Alone(published[n].sid, u), AloneOnce(n),
         NEW x \in Ids, x # n, HandlerStep(x),
         \A q \in Ids : n \in HasHad(q)' => n \in HasHad(q)
  PROVE  AloneOnce(n)'
<1>1. /\ published' = published /\ StaysAt(n)
      /\ handlers[n].at \in {"visit", "add"} => handlers[n].map \in Ids
      /\ handlers[n].todo \in SUBSET Ids
      /\ userEventMaps \in [Ids -> [Users -> Ids \cup {Null}]]
  BY WhatChanges, OthersStay, PlaceNames DEF KeepingInv, LInv, QInv, QueuesTypeOK, Handler
<1>2. ASSUME handlers[n].at \in {"visit", "add"}, handlers[n].queue # Null,
             NEW q \in handlers'[n].todo
      PROVE  ~InMap(n, q)'
  <2>1. q \in handlers[n].todo
    BY <1>2, OthersStay, ShownNoMore DEF KeepingInv, LInv
  <2>2. ~InMap(n, q) /\ q \in Ids /\ q # Null
    BY <1>1, <1>2, <2>1, IdsAreNumbers DEF AloneOnce
  <2>3. q # x
    BY <2>1, StepsUnfinished DEF KeepingInv, LInv, LeaveInv, NewQueues
  <2>4. published[q].uid \in Users /\ handlers[n].map \in Ids
    BY <1>1, <1>2, <2>1, <2>2, AloneOwns DEF Holds
  <2>5. userEventMaps[handlers[n].map][published[q].uid] # q
    BY <2>2 DEF InMap, QueueIn
  <2>6. userEventMaps'[handlers[n].map][published[q].uid] # q
    <3>1. ASSUME NEW m \in Ids, NEW v \in Users, NEW k \in {Null, x},
                 userEventMaps' = [userEventMaps EXCEPT ![m][v] = k]
          PROVE  userEventMaps'[handlers[n].map][published[q].uid] # q
      BY <1>1, <2>2, <2>3, <2>4, <2>5, <3>1
    <3>2. QED
      BY <2>5, <3>1, PlacesChange DEF KeepingInv, LInv
  <2>7. QED
    BY <1>1, <2>6 DEF InMap, QueueIn, StaysAt
<1>3. QED
  BY <1>1, <1>2 DEF AloneOnce, StaysAt, Handled

LEMMA AloneOwn ==
  ASSUME KeepingInv, OnePlace, HeldMade, NEW n \in Ids, NEW u \in Users, Broadcast(n),
         Alone(published[n].sid, u), AloneOnce(n), HandlerStep(n),
         \A q \in Ids : n \in HasHad(q)' =>
           n \in HasHad(q) \/ (AddEvent(n) /\ q = handlers[n].queue)
  PROVE  AloneOnce(n)'
<1>1. /\ published' = published /\ userEventMaps' = userEventMaps /\ ~Handled(n)
      /\ QInv /\ handlers[n].todo \in SUBSET Ids /\ handlers[n].queue \in Ids \cup {Null}
  <2>1. ~Install(n) /\ ~RemoveQueue(n) /\ ~PutQueue(n) /\ \A v \in Users : ~Wipe(n, v)
    BY TypeDistinct DEF Broadcast, Install, RemoveQueue, PutQueue, Wipe, At
  <2>2. QED
    BY <2>1, WhatChanges, StepsUnfinished
       DEF KeepingInv, LInv, QInv, QueuesTypeOK, Handler, Handled
<1>2. \A q \in Ids : n \in HasHad(q) => q = handlers[n].queue
  BY <1>1 DEF AloneOnce
<1>3. \A q \in Ids : n \in HasHad(q)' => q = handlers[n].queue
  BY <1>2
<1>4. \A q, r \in Ids : n \in HasHad(q)' /\ n \in HasHad(r)' => q = r
  BY <1>3
<1>5. CASE handlers[n].at = "getMap" \/ handlers[n].at = "start"
  <2>1. \A q \in Ids : n \notin HasHad(q)
    <3>1. \A q \in Ids : Awaits(n, q)
      BY <1>5 DEF Awaits
    <3>2. QED
      BY <3>1, TakenFromIs DEF OnePlace, HasHad, InQueue, OnStream
  <2>2. ~AddEvent(n)
    BY <1>5 DEF AddEvent, At
  <2>3. \A q \in Ids : n \notin HasHad(q)'
    BY <2>1, <2>2
  <2>4. handlers'[n].at \in {"visit", "add"} => handlers'[n].queue = Null
    BY <1>1, <1>5, <2>2, BroadcastMoves, PlaceNames DEF Carries
  <2>5. QED
    BY <1>4, <2>3, <2>4 DEF AloneOnce
<1>6. CASE \E l \in Finished : Carries(n, l, Null, Null, {})
  BY <1>4, <1>6 DEF AloneOnce, Carries, Handled
<1>7. ASSUME handlers[n].at \in {"visit", "add"},
             Carries(n, "visit", handlers[n].map, handlers[n].queue, handlers'[n].todo),
             handlers'[n].todo \subseteq handlers[n].todo
      PROVE  AloneOnce(n)'
  <2>1. handlers[n].queue # Null => \A q \in handlers'[n].todo : ~InMap(n, q)
    BY <1>7 DEF AloneOnce
  <2>2. \A q : InMap(n, q)' <=> InMap(n, q)
    BY <1>1, <1>7 DEF Carries, InMap, QueueIn
  <2>3. QED
    BY <1>3, <1>4, <1>7, <2>1, <2>2 DEF AloneOnce, Carries
<1>8. ASSUME NEW q \in handlers[n].todo, handlers[n].at = "visit", Meet(n, q, "add"),
             Carries(n, "add", handlers[n].map, q, handlers[n].todo \ {q})
      PROVE  AloneOnce(n)'
  <2>1. q \in Ids /\ published[q].uid = u
    BY <1>1, <1>8, AloneOwns DEF Holds
  <2>2. handlers[n].queue = Null
    <3>1. SUFFICES ASSUME handlers[n].queue # Null PROVE FALSE
      OBVIOUS
    <3>2. ~InMap(n, q) /\ published[handlers[n].queue].uid = u
      BY <1>1, <1>8, <3>1, AloneOwns DEF AloneOnce, Holds
    <3>3. QED
      BY <1>8, <2>1, <3>2 DEF Meet, OfOthers
  <2>3. \A r \in Ids : n \notin HasHad(r)
    BY <1>2, <2>2, IdsAreNumbers
  <2>4. ~AddEvent(n)
    BY <1>8 DEF AddEvent, At
  <2>5. \A r \in Ids : n \notin HasHad(r)'
    BY <2>3, <2>4
  <2>6. userEventMaps[handlers[n].map][u] = q
    BY <1>8, <2>1, <2>2 DEF Meet, InMap, QueueIn
  <2>7. ASSUME NEW r \in handlers'[n].todo PROVE ~InMap(n, r)'
    <3>1. r \in handlers[n].todo /\ r # q
      BY <1>8, <2>7 DEF Carries
    <3>2. published[r].uid = u
      BY <1>1, <3>1, AloneOwns DEF Holds
    <3>3. QED
      BY <1>1, <1>8, <2>6, <3>1, <3>2 DEF Carries, InMap, QueueIn
  <2>8. QED
    BY <2>5, <2>7 DEF AloneOnce
<1>9. CASE AddEvent(n)
  BY <1>1, <1>7, <1>9, GotoMoves DEF AddEvent, At, Carries
<1>10. QED
  BY <1>1, <1>5, <1>6, <1>7, <1>8, <1>9, BroadcastMoves DEF Carries

LEMMA AloneHandler ==
  ASSUME KeepingInv, OnePlace, AloneInv, UNCHANGED streams, NEW x \in Ids, HandlerStep(x)
  PROVE  AloneInv'
<1>1. published' = published /\ HeldMade'
  BY WhatChanges, HeldMadeHandler DEF AloneInv
<1>2. ASSUME NEW q \in Ids, NEW n, n \in HasHad(q)'
      PROVE  n \in HasHad(q) \/ (AddEvent(x) /\ q = handlers[x].queue /\ n = x)
  <2>1. TakenFrom(q)' = TakenFrom(q)
    BY DEF TakenFrom, Taken, Sent
  <2>2. QED
    BY <1>2, <2>1, EventsArePut DEF HasHad, InQueue, KeepingInv, LInv
<1>3. HadBroadcast'
  BY <1>1, <1>2 DEF AloneInv, HadBroadcast, Broadcast, AddEvent, At
<1>4. ASSUME NEW n \in Ids, NEW u \in Users, Broadcast(n), Alone(published[n].sid, u)
      PROVE  AloneOnce(n)'
  <2>1. AloneOnce(n) /\ HeldMade
    BY <1>4 DEF AloneInv
  <2>2. CASE n # x
    BY <1>2, <1>4, <2>1, <2>2, AloneOther
  <2>3. CASE n = x
    BY <1>2, <1>4, <2>1, <2>3, AloneOwn
  <2>4. QED
    BY <2>2, <2>3
<1>5. QED
  BY <1>1, <1>3, <1>4 DEF AloneInv, Broadcast, Alone

LEMMA AloneMulticast ==
  ASSUME KeepingInv, AloneInv, UNCHANGED streams, NEW ev, MulticastEvent(ev)
  PROVE  AloneInv'
<1>1. /\ DOMAIN published \subseteq DOMAIN published'
      /\ \A n \in DOMAIN published : published'[n] = published[n]
      /\ UNCHANGED queueVars
  BY PublishedStays DEF KeepingInv, LInv
<1>2. \A q : HasHad(q)' = HasHad(q)
  BY <1>1 DEF HasHad, TakenFrom, Taken, Sent, queueVars
<1>3. \A n, q \in Ids : Holds(n, q) => q \in DOMAIN published
  BY IdsAreNumbers DEF KeepingInv, LInv, OwnInv, HeldOwned, OfSession, Holds
<1>4. HeldMade' /\ HadBroadcast'
  BY <1>1, <1>2, <1>3 DEF AloneInv, HeldMade, HadBroadcast, Holds, Broadcast, queueVars
<1>5. ASSUME NEW n \in Ids, NEW u \in Users, Broadcast(n)', Alone(published[n].sid, u)'
      PROVE  AloneOnce(n)'
  <2>1. CASE n \in DOMAIN published
    <3>1. Broadcast(n) /\ Alone(published[n].sid, u)
      BY <1>1, <1>5, <2>1 DEF Broadcast, Alone
    <3>2. AloneOnce(n)
      BY <3>1 DEF AloneInv
    <3>3. \A q \in handlers[n].todo : InMap(n, q)' <=> InMap(n, q)
      <4>1. handlers[n].todo \in SUBSET Ids
        BY DEF KeepingInv, LInv, QInv, QueuesTypeOK, Handler
      <4>2. QED
        BY <1>1, <1>3, <4>1 DEF InMap, QueueIn, Holds, queueVars
    <3>4. QED
      BY <1>1, <1>2, <3>2, <3>3 DEF AloneOnce, Handled, queueVars
  <2>2. CASE n \notin DOMAIN published
    <3>1. \A q \in Ids : n \notin HasHad(q)
      BY <2>2 DEF AloneInv, HadBroadcast, Broadcast
    <3>2. handlers[n].at = "start"
      BY <2>2 DEF KeepingInv, TidyInv, NewHandlers, Idle
    <3>3. QED
      BY <1>1, <1>2, <3>1, <3>2 DEF AloneOnce, queueVars
  <2>3. QED
    BY <2>1, <2>2
<1>6. QED
  BY <1>4, <1>5 DEF AloneInv

\* A stream takes nothing but what its queue has had.
LEMMA HadStays ==
  ASSUME KeepingInv, NEW k \in Streams,
         StreamStep(k) \/ CloseEmitter(k)
         \/ \E s \in Sessions, u \in Users : OpenStream(k, s, u),
         NEW q \in Ids
  PROVE  HasHad(q)' \subseteq HasHad(q)
<1> DEFINE a == streams[k]
           b == streams'[k]
<1>1. /\ \A j \in Streams \ {k} : streams'[j] = streams[j]
      /\ Take(k) \/ UNCHANGED eventQueues
  BY StreamsLeaveListeners, StreamsMove DEF listenerVars, queueVars, KeepingInv, DInv
<1>2. /\ \A n : n \in TakenFrom(q) <=>
                  \E j \in Streams : streams[j].queue = q /\ n \in TakenBy(streams[j])
      /\ \A n : n \in TakenFrom(q)' <=>
                  \E j \in Streams : streams'[j].queue = q /\ n \in TakenBy(streams'[j])
  <2>1. /\ \A j : TakenBy(streams[j]) = Taken(j)
        /\ \A j : TakenBy(streams'[j]) = Taken(j)'
    BY DEF TakenBy, Taken, Sent
  <2>2. QED
    BY <2>1 DEF TakenFrom
<1>3. ASSUME NEW n, b.queue = q, n \in TakenBy(b) PROVE n \in HasHad(q)
  <2>1. a.queue = q
    BY <1>3, StreamTakes
  <2>2. CASE Take(k)
    BY <1>2, <1>3, <2>1, <2>2, StreamTakes DEF Picks, HasHad
  <2>3. CASE ~Take(k)
    BY <1>2, <1>3, <2>1, <2>3, StreamTakes DEF HasHad
  <2>4. QED
    BY <2>2, <2>3
<1>4. TakenFrom(q)' \subseteq HasHad(q)
  BY <1>1, <1>2, <1>3 DEF HasHad
<1>5. eventQueues'[q].events \subseteq HasHad(q)
  <2>1. Take(k) => eventQueues'[q].events \subseteq eventQueues[q].events
    BY TakeShrinks DEF KeepingInv, DInv
  <2>2. QED
    BY <1>1, <2>1 DEF HasHad
<1>6. QED
  BY <1>4, <1>5 DEF HasHad

LEMMA AloneStream ==
  ASSUME KeepingInv, AloneInv, NEW k \in Streams, StreamStep(k) \/ CloseEmitter(k)
         \/ \E s \in Sessions, u \in Users : OpenStream(k, s, u)
  PROVE  AloneInv'
<1>1. UNCHANGED <<published, userEventMaps, handlers>>
  BY StreamsLeaveListeners, TakeShrinks DEF listenerVars, queueVars, KeepingInv, DInv
<1>2. \A q \in Ids : HasHad(q)' \subseteq HasHad(q)
  BY HadStays
<1>3. HeldMade' /\ HadBroadcast'
  BY <1>1, <1>2 DEF AloneInv, HeldMade, HadBroadcast, Holds, Broadcast
<1>4. ASSUME NEW n \in Ids, AloneOnce(n) PROVE AloneOnce(n)'
  BY <1>1, <1>2, <1>4 DEF AloneOnce, Handled, InMap, QueueIn
<1>5. QED
  BY <1>1, <1>3, <1>4 DEF AloneInv, Broadcast, Alone

LEMMA AloneNext ==
  KeepingInv /\ OnceInv /\ AloneInv /\ [DeliveryNext]_deliveryVars => AloneInv'
<1> SUFFICES ASSUME KeepingInv, OnePlace, AloneInv, [DeliveryNext]_deliveryVars
             PROVE  AloneInv'
  BY DEF OnceInv
<1>1. CASE UNCHANGED deliveryVars
  BY <1>1 DEF deliveryVars, listenerVars, queueVars, AloneInv, HeldMade, HadBroadcast, AloneOnce,
     Holds, Broadcast, Alone, HasHad, TakenFrom, Taken, Sent, Handled, InMap, QueueIn
<1>2. QED
  BY <1>1, AloneMulticast, AloneHandler, AloneStream DEF DeliveryNext

LEMMA AloneInit == DeliveryInit => AloneInv
<1> SUFFICES ASSUME DeliveryInit PROVE AloneInv
  OBVIOUS
<1>1. published = <<>> /\ QueuesInit /\ streams = [k \in Streams |-> Unopened]
  BY DEF DeliveryInit, ListenersInit, StreamsInit
<1>2. \A q \in Ids : HasHad(q) = {}
  BY <1>1 DEF QueuesInit, HasHad, TakenFrom, Taken, Sent, Unopened
<1>3. \A n, q \in Ids : ~Holds(n, q)
  BY <1>1, IdsAreNumbers DEF QueuesInit, Holds, Idle
<1>4. QED
  BY <1>1, <1>2, <1>3 DEF AloneInv, HeldMade, HadBroadcast, Broadcast

LEMMA OnceProperty == KeepingInv /\ OnceInv /\ AloneInv => EventsAreGivenOnce
<1> SUFFICES ASSUME KeepingInv, OnceInv, AloneInv PROVE EventsAreGivenOnce
  OBVIOUS
<1>1. DOMAIN published \subseteq Ids
  BY DEF KeepingInv, TidyInv, EventsInBound
<1>2. \A n, l : n \in Taken(l) <=> n \in TakenBy(streams[l])
  BY DEF Taken, Sent, TakenBy
<1>3. ASSUME NEW k \in Streams
      PROVE  /\ \A i, j \in DOMAIN streams[k].sent :
                  streams[k].sent[i] = streams[k].sent[j] => i = j
             /\ streams[k].holding \notin Sent(k)
             /\ \A l \in Streams \ {k} :
                  streams[l].queue = streams[k].queue => Taken(k) \cap Taken(l) = {}
             /\ \A q \in DOMAIN published :
                  streams[k].queue = q => eventQueues[q].events \cap Taken(k) = {}
  <2>1. SentOnce(streams[k]) /\ OnePlace
    BY DEF OnceInv, SentsOnce
  <2>2. streams[k] \in Stream /\ WellFormed(streams[k]) /\ StreamOwned(streams[k])
    BY DEF KeepingInv, DInv, TInv, StreamsType, StreamsOwned
  <2>3. ASSUME NEW n \in Taken(k) PROVE n \in Ids /\ streams[k].queue \in Ids
    <3>1. n \in Ids
      BY <2>2, <2>3 DEF Taken, Sent, Stream
    <3>2. streams[k].queue # Null
      BY <2>1, <2>2, <2>3 DEF SentOnce, WellFormed, Taken, Sent
    <3>3. QED
      BY <2>2, <3>1, <3>2 DEF Stream
  <2>4. ASSUME NEW l \in Streams \ {k}, streams[l].queue = streams[k].queue, NEW n \in Taken(k)
        PROVE  n \notin Taken(l)
    BY <1>2, <2>1, <2>3, <2>4 DEF OnePlace, OnStream
  <2>5. ASSUME NEW q \in DOMAIN published, streams[k].queue = q, NEW n \in Taken(k)
        PROVE  n \notin eventQueues[q].events
    BY <1>1, <1>2, <2>1, <2>3, <2>5 DEF OnePlace, OnStream, InQueue
  <2>6. streams[k].holding \notin Sent(k)
    BY <2>1 DEF SentOnce, Sent
  <2>7. QED
    BY <2>1, <2>4, <2>5, <2>6 DEF SentOnce
<1>4. ASSUME NEW e \in DOMAIN published, NEW u \in Users, Alone(published[e].sid, u),
             NEW q \in ReachedQueues(e, u), NEW r \in ReachedQueues(e, u)
      PROVE  q = r
  <2>1. /\ q \in Ids /\ r \in Ids /\ e \in Ids
        /\ e \in HasHad(q) /\ e \in HasHad(r)
    BY <1>1, <1>4 DEF ReachedQueues, HasHad
  <2>2. AloneOnce(e)
    BY <1>4, <2>1 DEF AloneInv, HadBroadcast
  <2>3. QED
    BY <2>1, <2>2 DEF AloneOnce
<1>5. QED
  BY <1>3, <1>4 DEF EventsAreGivenOnce

(***************************************************************************)
(* No queue gives an event twice, to the same stream or to two; and a user *)
(* who is alone in the session gets it from one queue only, whatever joins *)
(* of the user replace that queue while the event goes round the map       *)
(* (createUserEventQueue, broadcastEvent, PoisonPillStrategy.execute).     *)
(***************************************************************************)
THEOREM EventsGivenOnce == DeliverySpec => []EventsAreGivenOnce
<1>1. /\ KeepingInv /\ OnceInv /\ AloneInv /\ [DeliveryNext]_deliveryVars =>
           (KeepingInv /\ OnceInv /\ AloneInv)'
      /\ DeliveryInit => KeepingInv /\ OnceInv /\ AloneInv
  BY KeepingNext, OnceNext, AloneNext, KeepingInit, OnceInit, AloneInit
<1>2. QED
  BY <1>1, OnceProperty, PTL DEF DeliverySpec
=============================================================================
