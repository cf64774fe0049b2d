------------------------- MODULE QueueHistoryProofs -------------------------
(***************************************************************************)
(* Whom a broadcast reaches and, in settled runs, what the queues are in   *)
(* the end, for any number of users, sessions and events.                  *)
(***************************************************************************)
EXTENDS QueueHistory, UserEventQueuesProofs

USE EventsAssumption, QueuesAssumption

\* The queues a broadcast met when it got its map are not new: the handlers
\* that made them have put them where they are and finished.
PresentAreMade ==
  \A n \in Ids : \A q \in present[n] : q \in Ids /\ handlers[q].at \in Finished

\* Queue q is in use in the map handler n works on, and was there when the
\* handler got the map.
Meets(n, u, q) ==
  /\ At(n, Broadcasts, "visit") \/ At(n, Broadcasts, "add")
  /\ q \in present[n]
  /\ InPlace(handlers[n].map, u, q)
  /\ eventQueues[q].active
  /\ ~Retiring(q)

(***************************************************************************)
(* The broadcast has yet to come to the user, or has seen this very queue  *)
(* and is about to add the event, or has added it.                         *)
(***************************************************************************)
Reached(n, q) ==
  \/ q \in handlers[n].todo
  \/ handlers[n].at = "add" /\ handlers[n].queue = q
  \/ n \in eventQueues[q].events

ReachInv ==
  /\ present \in [Ids -> SUBSET Ids]
  /\ PresentAreMade
  /\ \A n, q \in Ids, u \in Users : Meets(n, u, q) => Reached(n, q)

HInv == LInv /\ ReachInv

-----------------------------------------------------------------------------
LEMMA ReachInit == HistoryInit => ReachInv
BY DEF HistoryInit, ListenersInit, QueuesInit, ReachInv, PresentAreMade, Meets, At

\* What a handler has met when it gets its map are queues in their places.
LEMMA PresentChanges ==
  ASSUME LInv, NEW x \in Ids, HandlerStep(x), HistoryNext, ReachInv
  PROVE  /\ present' \in [Ids -> SUBSET Ids]
         /\ \A n \in Ids, q \in Ids :
              q \in present'[n] \ present[n] => handlers[q].at \in Finished
         /\ \A n \in Ids : handlers[n].map # Null \/ handlers'[n].map = Null =>
                             present'[n] = present[n]
<1>1. /\ present \in [Ids -> SUBSET Ids]
      /\ \A n \in Ids : handlers'[n].map \in Ids \cup {Null}
      /\ NewQueues
  BY TypeStep DEF ReachInv, LInv, LeaveInv, QInv, QueuesTypeOK, Handler
<1>2. present' = [n \in Ids |->
         IF handlers[n].map = Null /\ handlers'[n].map # Null
         THEN QueuesOf(handlers'[n].map)
         ELSE present[n]]
  BY DEF HistoryNext
<1>3. ASSUME NEW n \in Ids, handlers'[n].map # Null
      PROVE  /\ QueuesOf(handlers'[n].map) \subseteq Ids
             /\ \A q \in QueuesOf(handlers'[n].map) : handlers[q].at \in Finished
  <2>1. QueuesOf(handlers'[n].map) \subseteq Ids
    BY <1>1, <1>3, QueuesOfType DEF LInv
  <2>2. ASSUME NEW q \in QueuesOf(handlers'[n].map) PROVE handlers[q].at \in Finished
    BY <1>1, <1>3, <2>1 DEF NewQueues, InPlace, QueuesOf
  <2>3. QED
    BY <2>1, <2>2
<1>4. QED
  BY <1>1, <1>2, <1>3

\* A handler gets its map once, and has every queue in it before it then.
LEMMA BroadcastStarts ==
  ASSUME QInv, NEW x \in Ids, HandlerStep(x),
         At(x, Broadcasts, "visit")' \/ At(x, Broadcasts, "add")'
  PROVE  /\ GetMap(x) => /\ handlers'[x].todo = QueuesOf(handlers'[x].map)
         /\ ~GetMap(x) => /\ handlers[x].map # Null
                          /\ AddEvent(x) \/ \E q \in Ids : Visit(x, q)
<1> USE TypeDistinct, PlaceNames DEF At, Carries
<1>1. /\ handlers[x].at \in {"visit", "add"} => handlers[x].map # Null
      /\ published' = published
  BY WhatChanges DEF QInv, QueuesTypeOK
<1>2. handlers'[x].at \in {"visit", "add"} /\ published[x].type \in Broadcasts
  BY <1>1
<1>3. ~SessionKnown(x) /\ ~SessionUnknown(x) /\ ~clearUserEventQueue(x) /\ ~VisitedAll(x)
  BY <1>2, GotoMoves, FinishMoves
     DEF SessionKnown, SessionUnknown, clearUserEventQueue, VisitedAll, Finished
<1>4. /\ ~Install(x) /\ ~Probe(x) /\ ~GetQueue(x) /\ ~ClearEvents(x) /\ ~Disable(x)
      /\ ~RemoveQueue(x) /\ ~PutQueue(x) /\ ~IsEmpty(x) /\ ~SweptAll(x) /\ ~Detach(x)
      /\ \A q \in Ids : ~Sweep(x, q)
      /\ \A u \in Users : ~Wipe(x, u)
  <2>1. /\ ~Install(x) /\ ~Probe(x) /\ ~GetQueue(x) /\ ~RemoveQueue(x) /\ ~PutQueue(x)
        /\ ~IsEmpty(x) /\ ~SweptAll(x) /\ ~Detach(x) /\ \A q \in Ids : ~Sweep(x, q)
        /\ \A u \in Users : ~Wipe(x, u)
    BY <1>2 DEF Install, Probe, GetQueue, RemoveQueue, PutQueue, IsEmpty, SweptAll, Detach,
       Sweep, Wipe
  <2>2. ~ClearEvents(x) /\ ~Disable(x)
    BY <1>2, GotoMoves DEF ClearEvents, Disable
  <2>3. QED
    BY <2>1, <2>2
<1>5. CASE GetMap(x)
  BY <1>2, <1>5, GetMapMoves
<1>6. AddEvent(x) \/ (\E q \in Ids : Visit(x, q)) => handlers[x].map # Null
  BY <1>1 DEF Visit, AddEvent
<1>7. QED
  BY <1>3, <1>4, <1>5, <1>6 DEF HandlerStep

\* A queue in use that is not being retired has not been retired before, and
\* keeps its events.
LEMMA StillInUse ==
  ASSUME QInv, NEW x \in Ids, HandlerStep(x), NEW q \in Ids, eventQueues'[q].active,
         ~Retiring(q)'
  PROVE  /\ eventQueues[q].active /\ ~Retiring(q)
         /\ eventQueues[q].events \subseteq eventQueues'[q].events
<1>1. /\ eventQueues \in [Ids -> [events : SUBSET Ids, active : BOOLEAN]]
      /\ handlers[x].queue \in Ids \cup {Null}
      /\ handlers[x].at \in {"clear", "disable", "add"} => handlers[x].queue # Null
      /\ \A n \in Ids \ {x} : StaysAt(n)
  BY OthersStay DEF QInv, QueuesTypeOK, Handler
<1>2. ~(Disable(x) /\ handlers[x].queue = q)
  BY <1>1 DEF Disable
<1>3. eventQueues[q].active
  <2>1. CASE ClearEvents(x)
    BY <1>1, <2>1 DEF ClearEvents
  <2>2. CASE Disable(x)
    BY <1>1, <1>2, <2>2 DEF Disable
  <2>3. CASE AddEvent(x)
    BY <1>1, <2>3 DEF AddEvent
  <2>4. QED
    BY <2>1, <2>2, <2>3, WhatChanges
<1>4. ~(handlers[x].at = "clear" /\ handlers[x].queue = q)
  <2>1. handlers[x].at = "clear" => ClearEvents(x)
    BY DEF HandlerStep, SessionKnown, SessionUnknown, GetMap, clearUserEventQueue, Install,
       Probe, GetQueue, Disable, RemoveQueue, PutQueue, AddEvent, VisitedAll, IsEmpty, SweptAll,
       Detach, Visit, Sweep, Wipe, At
  <2>2. ClearEvents(x) => /\ handlers'[x].at = "disable"
                          /\ handlers'[x].queue = handlers[x].queue
    BY GotoMoves DEF ClearEvents, Carries
  <2>3. QED
    BY <2>1, <2>2 DEF Retiring
<1>5. ~(handlers[x].at = "disable" /\ handlers[x].queue = q)
  <2>1. handlers[x].at = "disable" => Disable(x)
    BY DEF HandlerStep, SessionKnown, SessionUnknown, GetMap, clearUserEventQueue, Install,
       Probe, GetQueue, ClearEvents, RemoveQueue, PutQueue, AddEvent, VisitedAll, IsEmpty,
       SweptAll, Detach, Visit, Sweep, Wipe, At
  <2>2. QED
    BY <1>2, <2>1
<1>6. ~Retiring(q)
  BY <1>1, <1>4, <1>5 DEF Retiring, StaysAt
<1>7. eventQueues[q].events \subseteq eventQueues'[q].events
  <2>1. CASE ClearEvents(x)
    BY <1>1, <1>4, <2>1 DEF ClearEvents, At
  <2>2. CASE Disable(x)
    BY <1>1, <2>2 DEF Disable
  <2>3. CASE AddEvent(x)
    BY <1>1, <2>3 DEF AddEvent
  <2>4. QED
    BY <2>1, <2>2, <2>3, WhatChanges
<1>8. QED
  BY <1>3, <1>6, <1>7

LEMMA ReachStep ==
  ASSUME HInv, NEW x \in Ids, HandlerStep(x), HistoryNext
  PROVE  ReachInv'
<1> USE IdsAreNumbers
<1>1. /\ QInv /\ LInv /\ ReachInv /\ PresentAreMade
      /\ handlers[x].at \notin Finished
      /\ published' = published
      /\ \A n \in Ids \ {x} : StaysAt(n) /\ handlers[n].todo \subseteq handlers'[n].todo
      /\ userEventMaps \in [Ids -> [Users -> Ids \cup {Null}]]
      /\ eventQueues \in [Ids -> [events : SUBSET Ids, active : BOOLEAN]]
      /\ present' \in [Ids -> SUBSET Ids]
  <2>1. \A n \in Ids \ {x} : StaysAt(n) /\ handlers[n].todo \subseteq handlers'[n].todo
    BY OthersStay DEF HInv, LInv
  <2>2. QED
    BY <2>1, StepsUnfinished, WhatChanges, PresentChanges
       DEF HInv, ReachInv, LInv, QInv, QueuesTypeOK
<1>2. PresentAreMade'
  <2> SUFFICES ASSUME NEW n \in Ids, NEW q \in Ids, q \in present'[n]
               PROVE  handlers'[q].at \in Finished
    BY <1>1 DEF PresentAreMade
  <2>1. handlers[q].at \in Finished
    BY <1>1, PresentChanges DEF PresentAreMade
  <2>2. QED
    BY <1>1, <2>1 DEF StaysAt
<1>3. ASSUME NEW n \in Ids, NEW q \in Ids, NEW u \in Users, Meets(n, u, q)'
      PROVE  Reached(n, q)'
  <2>1. /\ At(n, Broadcasts, "visit")' \/ At(n, Broadcasts, "add")'
        /\ q \in present'[n] /\ InPlace(handlers[n].map, u, q)'
        /\ eventQueues'[q].active /\ ~Retiring(q)'
    BY <1>3 DEF Meets
  <2>2. CASE n = x /\ GetMap(x)
    <3>1. handlers'[x].todo = QueuesOf(handlers'[x].map) /\ userEventMaps' = userEventMaps
      BY <1>1, <2>1, <2>2, BroadcastStarts DEF GetMap
    <3>2. q \in handlers'[x].todo
      BY <2>1, <2>2, <3>1 DEF InPlace, QueuesOf
    <3>3. QED
      BY <2>2, <3>2 DEF Reached
  <2>3. CASE ~(n = x /\ GetMap(x))
    <3>1. /\ handlers[n].map # Null /\ handlers'[n].map = handlers[n].map
          /\ At(n, Broadcasts, "visit") \/ At(n, Broadcasts, "add")
          /\ n = x => AddEvent(x) \/ \E r \in Ids : Visit(x, r)
      <4>1. CASE n # x
        <5>1. /\ handlers'[n].map = handlers[n].map /\ handlers'[n].at = handlers[n].at
              /\ handlers[n].at \in {"visit", "add"}
          BY <1>1, <2>1, <4>1 DEF At, StaysAt
        <5>2. handlers[n].map # Null
          BY <1>1, <5>1, PlaceNames DEF QInv, QueuesTypeOK
        <5>3. QED
          BY <1>1, <2>1, <4>1, <5>1, <5>2 DEF At
      <4>2. CASE n = x
        <5>1. handlers[x].map # Null /\ (AddEvent(x) \/ \E r \in Ids : Visit(x, r))
          BY <1>1, <2>1, <2>3, <4>2, BroadcastStarts
        <5>2. /\ handlers'[x].map = handlers[x].map
              /\ At(x, Broadcasts, "visit") \/ At(x, Broadcasts, "add")
          <6>1. CASE AddEvent(x)
            BY <1>1, <6>1, GotoMoves DEF AddEvent, Carries
          <6>2. ASSUME NEW r \in Ids, Visit(x, r)
                PROVE  handlers'[x].map = handlers[x].map /\ At(x, Broadcasts, "visit")
            BY <1>1, <6>2, MeetMoves, MissMoves DEF Visit, Carries
          <6>3. QED
            BY <5>1, <6>1, <6>2
        <5>3. QED
          BY <4>2, <5>1, <5>2
      <4>3. QED
        BY <4>1, <4>2
    <3>2. q \in present[n] /\ handlers[q].at \in Finished /\ q # x
      BY <1>1, <2>1, <3>1, PresentChanges DEF PresentAreMade
    <3>3. InPlace(handlers[n].map, u, q)
      <4>1. userEventMaps'[handlers[n].map][u] = q /\ handlers[n].map \in Ids
        <5>1. handlers[n] \in Handler
          BY <1>1, <2>1 DEF QInv, QueuesTypeOK
        <5>2. QED
          BY <1>1, <2>1, <3>1, <5>1 DEF InPlace, Handler
      <4>2. ASSUME NEW m \in Ids, NEW v \in Users, NEW k \in {Null, x},
                   userEventMaps' = [userEventMaps EXCEPT ![m][v] = k]
            PROVE  userEventMaps[handlers[n].map][u] = q
        BY <1>1, <3>2, <4>1, <4>2
      <4>3. QED
        BY <1>1, <4>1, <4>2, PlacesChange DEF InPlace
    <3>4. /\ eventQueues[q].active /\ ~Retiring(q)
          /\ eventQueues[q].events \subseteq eventQueues'[q].events
      BY <1>1, <2>1, StillInUse
    <3>5. Reached(n, q)
      BY <1>1, <3>1, <3>2, <3>3, <3>4 DEF ReachInv, Meets
    <3>6. CASE n # x
      BY <1>1, <3>4, <3>5, <3>6 DEF Reached, StaysAt
    <3>7. CASE n = x /\ AddEvent(x)
      <4>1. CASE handlers[x].queue = q
        BY <1>1, <3>7, <4>1 DEF Reached, AddEvent
      <4>2. CASE handlers[x].queue # q
        <5>1. handlers'[x].todo = handlers[x].todo
          BY <1>1, <3>7, GotoMoves DEF AddEvent, Carries
        <5>2. QED
          BY <3>4, <3>5, <3>7, <4>2, <5>1 DEF Reached
      <4>3. QED
        BY <4>1, <4>2
    <3>8. ASSUME n = x, NEW r \in Ids, Visit(x, r) PROVE Reached(n, q)'
      <4>1. InMap(n, q)
        <5>1. userEventMaps[handlers[n].map][u] = q /\ handlers[n].map \in Ids
          BY <1>1, <3>1, <3>3 DEF InPlace, QInv, QueuesTypeOK, Handler
        <5>2. published[q].uid = u
          BY <1>1, <5>1 DEF LInv, OwnInv, MapsOwned, MadeFor
        <5>3. QED
          BY <5>1, <5>2 DEF InMap, QueueIn
      <4>2. handlers[n].at = "visit"
        BY <3>8 DEF Visit, At
      <4>3. CASE Meet(x, r, "add")
        BY <1>1, <3>4, <3>5, <3>8, <4>2, <4>3, MeetMoves DEF Reached, Carries
      <4>4. CASE Miss(x, r)
        BY <1>1, <3>4, <3>5, <3>8, <4>1, <4>2, <4>4, MissMoves DEF Reached, Carries
      <4>5. QED
        BY <3>8, <4>3, <4>4 DEF Visit
    <3>9. QED
      BY <3>1, <3>6, <3>7, <3>8
  <2>4. QED
    BY <2>2, <2>3
<1>4. QED
  BY <1>1, <1>2, <1>3 DEF ReachInv

LEMMA ReachMulticast ==
  ASSUME HInv, NEW ev, MulticastEvent(ev), HistoryNext
  PROVE  ReachInv'
<1>1. /\ \A n \in DOMAIN published : published'[n] = published[n]
      /\ UNCHANGED <<handlers, userEventMaps, eventQueues>>
  BY PublishedStays DEF HInv, LInv, queueVars
<1>2. present \in [Ids -> SUBSET Ids] /\ present' = present
  BY <1>1 DEF HInv, ReachInv, HistoryNext
<1>3. ASSUME NEW n \in Ids, NEW l \in {"visit", "add"}, At(n, Broadcasts, l)'
      PROVE  At(n, Broadcasts, l)
  <2>1. handlers[n].at = l /\ handlers[n].map # Null
    BY <1>1, <1>3, PlaceNames DEF At, HInv, LInv, QInv, QueuesTypeOK
  <2>2. n \in DOMAIN published
    BY <2>1 DEF HInv, LInv, OwnInv, HeldOwned
  <2>3. QED
    BY <1>1, <1>3, <2>1, <2>2 DEF At
<1>4. \A n, q \in Ids, u \in Users : Meets(n, u, q)' => Meets(n, u, q)
  BY <1>1, <1>2, <1>3 DEF Meets, InPlace, Retiring
<1>5. QED
  BY <1>1, <1>2, <1>4 DEF HInv, ReachInv, PresentAreMade, Reached

LEMMA ReachNext == HInv /\ [HistoryNext]_queueHistVars => HInv'
<1> SUFFICES ASSUME HInv, [HistoryNext]_queueHistVars PROVE HInv'
  OBVIOUS
<1>1. LInv'
  BY LeaveNext DEF HInv, HistoryNext, queueHistVars
<1>2. CASE UNCHANGED queueHistVars
  <2>1. UNCHANGED <<published, handlers, userEventMaps, eventQueues, present>>
    BY <1>2 DEF queueHistVars, listenerVars, queueVars
  <2>2. ASSUME NEW n \in Ids, NEW q \in Ids, NEW u \in Users, Meets(n, u, q)'
        PROVE  Reached(n, q)'
    <3>1. Meets(n, u, q)
      BY <2>1, <2>2 DEF Meets, InPlace, Retiring, At
    <3>2. Reached(n, q)
      BY <3>1 DEF HInv, ReachInv
    <3>3. QED
      BY <2>1, <3>2 DEF Reached
  <2>3. QED
    <3>1. PresentAreMade'
      BY <2>1 DEF HInv, ReachInv, PresentAreMade
    <3>2. QED
      BY <1>1, <2>1, <2>2, <3>1 DEF HInv, ReachInv
<1>3. CASE HistoryNext
  <2>1. ListenersNext
    BY <1>3 DEF HistoryNext
  <2>2. ASSUME NEW ev, MulticastEvent(ev) PROVE ReachInv'
    BY <1>3, <2>2, ReachMulticast
  <2>3. ASSUME NEW x \in Ids, HandlerStep(x) PROVE ReachInv'
    BY <1>3, <2>3, ReachStep
  <2>4. QED
    BY <1>1, <2>1, <2>2, <2>3 DEF ListenersNext, HInv
<1>4. QED
  BY <1>1, <1>2, <1>3 DEF HInv

\* A broadcast that returns has come to everybody.
LEMMA ReachesEverybody ==
  ASSUME HInv, [HistoryNext]_queueHistVars, NEW n \in Ids, NEW u \in Users,
         At(n, Broadcasts, "visit"), handlers'[n].at = "done",
         QueueIn(n, u) \in present[n], eventQueues[QueueIn(n, u)].active,
         ~Retiring(QueueIn(n, u))
  PROVE  n \in eventQueues[QueueIn(n, u)].events
<1> DEFINE q == QueueIn(n, u)
<1>1. /\ q \in Ids /\ handlers[n].at = "visit"
      /\ n \in DOMAIN published /\ published[n].type \in Broadcasts
  BY DEF HInv, ReachInv, LInv, QInv, QueuesTypeOK, At
<1>2. handlers[n].todo = {}
  <2>1. PICK x \in Ids : HandlerStep(x)
    BY <1>1 DEF HistoryNext, ListenersNext, MulticastEvent, queueHistVars, listenerVars,
       queueVars
  <2>2. x = n
    BY <1>1, <2>1, OthersStay DEF HInv, LInv, StaysAt
  <2>3. VisitedAll(n) \/ \E r \in Ids : Visit(n, r)
    BY <1>1, <2>1, <2>2, TypeDistinct DEF HandlerStep, SessionKnown, SessionUnknown, GetMap,
       clearUserEventQueue, Install, Probe, GetQueue, ClearEvents, Disable, RemoveQueue,
       PutQueue, AddEvent, IsEmpty, SweptAll, Detach, Sweep, Wipe, At
  <2>4. ASSUME NEW r \in Ids, Visit(n, r) PROVE FALSE
    BY <1>1, <2>4, MeetMoves, MissMoves DEF Visit, Carries, HInv, LInv
  <2>5. QED
    BY <2>3, <2>4 DEF VisitedAll
<1>3. Meets(n, u, q)
  BY DEF Meets, InPlace, QueueIn
<1>4. Reached(n, q)
  BY <1>1, <1>3 DEF HInv, ReachInv
<1>5. QED
  BY <1>1, <1>2, <1>4 DEF Reached

(***************************************************************************)
(* broadcastEvent returns when its event is in every queue that was in the *)
(* map all the time and is in use, however many handlers work on the map   *)
(* and on the queues meanwhile.                                            *)
(***************************************************************************)
THEOREM BroadcastsReach == HistorySpec => BroadcastsReachEverybody
<1>1. HistoryInit => HInv
  BY TypeInit, OwnInit, LeaveInit, ReachInit DEF HInv, LInv, HistoryInit
<1>2. HInv /\ [HistoryNext]_queueHistVars =>
        [\A n \in Ids, u \in Users :
           LET q == QueueIn(n, u)
           IN  /\ At(n, Broadcasts, "visit")
               /\ handlers'[n].at = "done"
               /\ q \in present[n]
               /\ eventQueues[q].active
               /\ ~Retiring(q)
               => n \in eventQueues[q].events]_queueHistVars
  BY ReachesEverybody
<1>3. QED
  BY <1>1, <1>2, ReachNext, PTL DEF HistorySpec, BroadcastsReachEverybody

-----------------------------------------------------------------------------
(***************************************************************************)
(* The inductive form of SettledQueuesFollowEvents: a queue that is due    *)
(* holds votes and resets from after it was made only, and whichever of    *)
(* them it does not hold is on its way.                                    *)
(***************************************************************************)
EventsFollow(s, u) ==
  \A q \in QueueDue(s, u) :
    /\ \A e \in eventQueues[q].events : q < e
    /\ \A b \in After(q, s, Broadcasts) : b \in eventQueues[q].events \/ Coming(b, q)

FollowInv ==
  settling =>
    /\ SettledInv
    /\ \A s \in Sessions, u \in Users : ~Changing(s, u) => EventsFollow(s, u)

SInv == LInv /\ TidyInv /\ FollowInv

LEMMA FollowStep ==
  ASSUME SInv, NEW x \in Ids, HandlerStep(x), settling,
         NEW s \in Sessions, NEW u \in Users, ~Changing(s, u)'
  PROVE  EventsFollow(s, u)'
<1>1. /\ LInv /\ TidyInv /\ SettledInv /\ OrderlyInv /\ published' = published
      /\ DOMAIN published \subseteq Ids
  BY WhatChanges DEF SInv, FollowInv, SettledInv, TidyInv, EventsInBound
<1>2. QueueDue(s, u)' = QueueDue(s, u)
  BY <1>1 DEF QueueDue, After
<1>3. SUFFICES ASSUME NEW q \in QueueDue(s, u)
               PROVE  /\ \A e \in eventQueues'[q].events : q < e
                      /\ \A b \in After(q, s, Broadcasts) :
                           b \in eventQueues'[q].events \/ Coming(b, q)'
  <2>1. \A q \in QueueDue(s, u) : After(q, s, Broadcasts)' = After(q, s, Broadcasts)
    BY <1>1 DEF After
  <2>2. QED
    BY <1>2, <2>1 DEF EventsFollow
<1>4. CASE Changing(s, u)
  <2>1. q = Len(published) /\ eventQueues'[q].events = {}
    BY <1>1, <1>3, <1>4, QueueReplaced
  <2>2. After(q, s, Broadcasts) = {}
    BY <1>1, <2>1 DEF After, LInv, QInv, QueuesTypeOK
  <2>3. QED
    BY <2>1, <2>2
<1>5. CASE ~Changing(s, u)
  <2>1. /\ \A e \in eventQueues[q].events : q < e
        /\ \A b \in After(q, s, Broadcasts) : b \in eventQueues[q].events \/ Coming(b, q)
    BY <1>1, <1>3, <1>5 DEF SInv, FollowInv, EventsFollow
  <2>2. /\ eventQueues[q].events \subseteq eventQueues'[q].events
        /\ eventQueues'[q].events \subseteq eventQueues[q].events \cup {x}
        /\ x \in eventQueues'[q].events \ eventQueues[q].events => q < x
    BY <1>1, <1>3, <1>5, DueEventsStay
  <2>3. ASSUME NEW b \in After(q, s, Broadcasts)
        PROVE  b \in eventQueues'[q].events \/ Coming(b, q)'
    <3>1. b \in Ids /\ q \in Ids
      BY <1>1, <1>3 DEF After, QueueDue
    <3>2. CASE b \in eventQueues[q].events
      BY <2>2, <3>2
    <3>3. CASE Coming(b, q)
      BY <1>1, <1>3, <1>5, <2>3, <3>1, <3>3, ComesOrArrives
    <3>4. QED
      BY <2>1, <2>3, <3>2, <3>3
  <2>4. QED
    BY <2>1, <2>2, <2>3
<1>6. QED
  BY <1>4, <1>5

LEMMA FollowMulticast ==
  ASSUME SInv, NEW ev, MulticastEvent(ev), settling,
         NEW s \in Sessions, NEW u \in Users, ~Changing(s, u)'
  PROVE  EventsFollow(s, u)'
<1>1. /\ LInv /\ TidyInv /\ ~Changing(s, u)
      /\ QueueDue(s, u)' = QueueDue(s, u)
      /\ \A q \in QueueDue(s, u) :
           After(q, s, Broadcasts)' \subseteq After(q, s, Broadcasts) \cup {Len(published) + 1}
  BY DueAfterMulticast DEF SInv
<1>2. UNCHANGED queueVars /\ handlers[Len(published) + 1] = Idle("start")
  BY <1>1, NewNumber
<1>3. SUFFICES ASSUME NEW q \in QueueDue(s, u)
               PROVE  /\ \A e \in eventQueues[q].events : q < e
                      /\ \A b \in After(q, s, Broadcasts)' :
                           b \in eventQueues[q].events \/ Coming(b, q)
  BY <1>1, <1>2 DEF EventsFollow, Coming, queueVars
<1>4. /\ \A e \in eventQueues[q].events : q < e
      /\ \A b \in After(q, s, Broadcasts) : b \in eventQueues[q].events \/ Coming(b, q)
  BY <1>1, <1>3 DEF SInv, FollowInv, EventsFollow
<1>5. Coming(Len(published) + 1, q)
  BY <1>2 DEF Coming, Idle
<1>6. QED
  BY <1>1, <1>3, <1>4, <1>5

LEMMA FollowNext == SInv /\ [HistoryNext]_queueHistVars => SInv'
<1> SUFFICES ASSUME SInv, [HistoryNext]_queueHistVars PROVE SInv'
  OBVIOUS
<1>1. LInv' /\ TidyInv'
  BY LeaveNext, TidyNext DEF SInv, HistoryNext, queueHistVars
<1>2. CASE UNCHANGED queueHistVars
  <2>1. UNCHANGED <<published, sessionUserEventMap, userEventMaps, eventQueues, handlers,
                    settling>>
    BY <1>2 DEF queueHistVars, listenerVars, queueVars
  <2>2. SettledInv' = SettledInv
    BY <2>1 DEF SettledInv, OrderlyInv, Settled, InOrder, MapsCurrent, AnswersCurrent,
       AnswerCurrent, QueuesFollow, QueueFollows, Changing, Handled, MapOf, QueueIn, QueueDue,
       After, Registered
  <2>3. ASSUME NEW s \in Sessions, NEW u \in Users
        PROVE  Changing(s, u)' = Changing(s, u) /\ EventsFollow(s, u)' = EventsFollow(s, u)
    BY <2>1 DEF Changing, Handled, EventsFollow, QueueDue, After, Coming
  <2>4. QED
    BY <1>1, <2>1, <2>2, <2>3 DEF SInv, FollowInv
<1>3. CASE HistoryNext /\ settling'
  <2>1. settling /\ Settled' /\ ListenersNext /\ LInv /\ TidyInv /\ SettledInv
    BY <1>3 DEF HistoryNext, SInv, FollowInv
  <2>2. ASSUME NEW ev, MulticastEvent(ev) PROVE FollowInv'
    BY <2>1, <2>2, SettledMulticast, FollowMulticast DEF FollowInv
  <2>3. ASSUME NEW x \in Ids, HandlerStep(x) PROVE FollowInv'
    BY <2>1, <2>3, SettledStep, FollowStep DEF FollowInv
  <2>4. QED
    BY <1>1, <2>1, <2>2, <2>3 DEF ListenersNext, SInv
<1>4. QED
  BY <1>1, <1>2, <1>3 DEF SInv, FollowInv

LEMMA FollowProperty == SInv => SettledQueuesFollowEvents
<1> SUFFICES ASSUME SInv, settling, AllHandled, NEW s \in Sessions, NEW u \in Users
             PROVE  /\ QueueDue(s, u) = {Registered(s, u)} \ {Null}
                    /\ \A q \in QueueDue(s, u) :
                         eventQueues[q] = [events |-> After(q, s, Broadcasts), active |-> TRUE]
  BY DEF SettledQueuesFollowEvents
<1>1. ~Changing(s, u)
  BY DEF AllHandled, Changing
<1>2. QueueFollows(s, u) /\ EventsFollow(s, u)
  BY <1>1 DEF SInv, FollowInv, SettledInv, QueuesFollow
<1>3. ASSUME NEW q \in QueueDue(s, u)
      PROVE  eventQueues[q] = [events |-> After(q, s, Broadcasts), active |-> TRUE]
  <2>1. q \in Ids /\ MadeFor(q, s, u)
    BY DueQueuesAreMade DEF SInv, LInv, TidyInv, EventsInBound, MadeFor
  <2>2. eventQueues[q] \in [events : SUBSET Ids, active : BOOLEAN]
    BY <2>1 DEF SInv, LInv, QInv, QueuesTypeOK
  <2>3. After(q, s, Broadcasts) \subseteq eventQueues[q].events
    BY <1>2 DEF EventsFollow, AllHandled, After, Handled, Finished, Coming
  <2>4. eventQueues[q].events \subseteq After(q, s, Broadcasts)
    BY <1>2, <2>1 DEF EventsFollow, SInv, LInv, OwnInv, EventsOwned, MadeFor, After
  <2>5. eventQueues[q].active
    BY <1>2 DEF QueueFollows
  <2>6. QED
    BY <2>2, <2>3, <2>4, <2>5
<1>4. QED
  BY <1>2, <1>3 DEF QueueFollows

(***************************************************************************)
(* Once listeners that were given the time to settle have handled every    *)
(* event, the queues are the ones the events call for: one active queue    *)
(* for every user created or joined since the last termination of the      *)
(* session, holding exactly the votes and resets since then, and none for  *)
(* anybody else (createUserEventQueue, broadcastEvent, clearSession).      *)
(***************************************************************************)
THEOREM QueuesFollowEvents == HistorySpec => []SettledQueuesFollowEvents
<1>1. HistoryInit => SInv
  <2> SUFFICES ASSUME HistoryInit PROVE SInv
    OBVIOUS
  <2>1. ListenersInit
    BY DEF HistoryInit
  <2>2. LInv /\ TidyInv /\ SettledInv
    BY <2>1, TypeInit, OwnInit, LeaveInit, TidyInit, SettledInit DEF LInv
  <2>3. \A s \in Sessions, u \in Users : QueueDue(s, u) = {}
    BY <2>1 DEF ListenersInit, QueueDue, After
  <2>4. QED
    BY <2>2, <2>3 DEF SInv, FollowInv, EventsFollow
<1>2. QED
  BY <1>1, FollowNext, FollowProperty, PTL DEF HistorySpec
=============================================================================
