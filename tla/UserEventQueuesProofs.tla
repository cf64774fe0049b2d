----------------------- MODULE UserEventQueuesProofs -----------------------
(***************************************************************************)
(* Theorems about the listeners and their queues, for any number of users, *)
(* sessions and events, handled in any order and interleaving.             *)
(***************************************************************************)
EXTENDS UserEventQueues, TLAPS

USE EventsAssumption, QueuesAssumption

\* Only automatic terminations have no user for author: the missing part of
\* the inductive type invariant.
AuthorsAreUsers ==
  \A n \in DOMAIN published :
    published[n].type # AutoTerminated => published[n].uid \in Users

QInv == QueuesTypeOK /\ AuthorsAreUsers

LEMMA TypeDistinct ==
  /\ Creates \subseteq EventTypes /\ Broadcasts \subseteq EventTypes
  /\ Clears \subseteq EventTypes
  /\ Creates \cap Broadcasts = {} /\ Creates \cap Clears = {} /\ Broadcasts \cap Clears = {}
  /\ AutoTerminated \notin Creates \cup Broadcasts
  /\ UserExited \notin Creates \cup Broadcasts \cup Clears
  /\ EventTypes = Creates \cup Broadcasts \cup Clears \cup {UserExited}
BY DEF Creates, Broadcasts, Clears, EventTypes, SessionCreated, UserJoined, UserVoted,
   VoteReset, UserExited, AutoTerminated

LEMMA IdsAreNumbers == Ids \subseteq Nat /\ Null \notin Ids /\ Null \in Nat
BY DEF Ids, Null

\* The events published so far stay what they are.
LEMMA PublishedStays ==
  ASSUME QInv, NEW ev, MulticastEvent(ev)
  PROVE  /\ DOMAIN published \subseteq DOMAIN published'
         /\ \A n \in DOMAIN published : published'[n] = published[n]
         /\ \A n \in DOMAIN published' \ DOMAIN published : published'[n] = ev
         /\ UNCHANGED queueVars
<1>1. published \in Seq(PokerEvent)
  BY DEF QInv, QueuesTypeOK
<1>2. published' = Append(published, ev) /\ UNCHANGED queueVars
  BY DEF MulticastEvent
<1>3. Len(published) \in Nat /\ DOMAIN published = 1 .. Len(published)
  BY <1>1
<1>4. /\ DOMAIN published' = 1 .. Len(published) + 1
      /\ \A n \in 1 .. Len(published) : published'[n] = published[n]
      /\ published'[Len(published) + 1] = ev
  BY <1>1, <1>2
<1>5. QED
  BY <1>2, <1>3, <1>4

LEMMA MulticastType ==
  ASSUME QInv, NEW t \in Nat, NEW ev \in EventsAt(t), MulticastEvent(ev)
  PROVE  QInv'
<1>1. ev \in PokerEvent /\ (ev.type # AutoTerminated => ev.uid \in Users)
  BY DEF EventsAt, PokerEvent, Authors
<1>2. published' \in Seq(PokerEvent)
  BY <1>1 DEF MulticastEvent, QInv, QueuesTypeOK
<1>3. QED
  BY <1>1, <1>2, PublishedStays DEF QInv, QueuesTypeOK, AuthorsAreUsers, queueVars

-----------------------------------------------------------------------------
\* The queues in a map are queues.
LEMMA QueuesOfType ==
  ASSUME QInv, NEW m \in Ids
  PROVE  QueuesOf(m) \in SUBSET Ids
<1>1. userEventMaps \in [Ids -> [Users -> Ids \cup {Null}]]
  BY DEF QInv, QueuesTypeOK
<1>2. \A u \in Users : userEventMaps[m][u] \in Ids \cup {Null}
  BY <1>1
<1>3. QED
  BY <1>2 DEF QueuesOf

\* The queue the map of handler n has for a user is a queue or null.
LEMMA QueueInType ==
  ASSUME QInv, NEW n \in Ids, handlers[n].map # Null, NEW u \in Users
  PROVE  QueueIn(n, u) \in Ids \cup {Null}
<1>1. handlers[n].map \in Ids
  BY DEF QInv, QueuesTypeOK, Handler
<1>2. QED
  BY <1>1 DEF QInv, QueuesTypeOK, QueueIn

\* Handler n runs an event of a session, of one of the types.
LEMMA AtEvent ==
  ASSUME QInv, NEW n \in Ids, NEW T, NEW l, At(n, T, l)
  PROVE  /\ n \in DOMAIN published
         /\ published[n].type \in T /\ published[n].type \in EventTypes
         /\ published[n].sid \in Sessions
         /\ AutoTerminated \notin T => published[n].uid \in Users
         /\ MapOf(n) \in Ids \cup {Null}
         /\ handlers[n].at = l
<1>1. n \in DOMAIN published /\ published[n].type \in T /\ handlers[n].at = l
  BY DEF At
<1>2. published[n] \in PokerEvent
  BY <1>1 DEF QInv, QueuesTypeOK
<1>3. published[n].type \in EventTypes /\ published[n].sid \in Sessions
  BY <1>2 DEF PokerEvent
<1>4. MapOf(n) \in Ids \cup {Null}
  BY <1>3 DEF QInv, QueuesTypeOK, MapOf
<1>5. QED
  BY <1>1, <1>3, <1>4 DEF QInv, AuthorsAreUsers

\* The steps that change the maps of queues, the queues, and the map of maps.
LEMMA WhatChanges ==
  ASSUME NEW n \in Ids, HandlerStep(n)
  PROVE  /\ published' = published
         /\ \/ userEventMaps' = userEventMaps
            \/ Install(n) \/ RemoveQueue(n) \/ PutQueue(n)
            \/ \E u \in Users : Wipe(n, u)
         /\ \/ eventQueues' = eventQueues
            \/ ClearEvents(n) \/ Disable(n) \/ AddEvent(n)
         /\ \/ sessionUserEventMap' = sessionUserEventMap
            \/ Install(n) \/ Detach(n)
BY DEF HandlerStep, SessionKnown, SessionUnknown, GetMap, clearUserEventQueue, Probe, Install,
   GetQueue, ClearEvents, Disable, RemoveQueue, PutQueue, AddEvent, VisitedAll, IsEmpty,
   SweptAll, Detach, Visit, Sweep, Wipe

\* A step leaves the handlers of other events where they are; a put may show
\* those that traverse the map another queue.
StaysAt(x) ==
  /\ handlers'[x].at = handlers[x].at
  /\ handlers'[x].map = handlers[x].map
  /\ handlers'[x].queue = handlers[x].queue
  /\ handlers'[x].bins = handlers[x].bins

\* Traversal x may be shown the queue that handler n puts.
Shown(x, n) ==
  /\ Traversing(x)
  /\ handlers[x].map = handlers[n].map
  /\ QueueIn(n, published[n].uid) = Null => MayMeet(x, n)
  /\ QueueIn(n, published[n].uid) # Null =>
       QueueIn(n, published[n].uid) \in handlers[x].todo

LEMMA PutMoves ==
  ASSUME QInv, NEW n \in Ids, PutQueue(n)
  PROVE  /\ handlers'[n] = Idle("done")
         /\ \A x \in Ids \ {n} :
              /\ StaysAt(x)
              /\ \/ handlers'[x] = handlers[x]
                 \/ handlers'[x].todo = handlers[x].todo \cup {n} /\ Shown(x, n)
         /\ handlers' \in [Ids -> Handler]
<1>1. handlers \in [Ids -> Handler]
  BY DEF QInv, QueuesTypeOK
<1>2. PICK M \in MeetingsOf(n) :
        handlers' = [m \in Ids |->
          IF m = n THEN Idle("done")
          ELSE IF m \in M THEN [handlers[m] EXCEPT !.todo = @ \cup {n}]
          ELSE handlers[m]]
  BY DEF PutQueue
<1>3. \A m \in M : Shown(m, n)
  BY <1>2 DEF MeetingsOf, Shown
<1>4. Idle("done") \in Handler
  BY IdsAreNumbers DEF Idle, Places, Finished, Handler
<1>5. QED
  BY <1>1, <1>2, <1>3, <1>4 DEF StaysAt, Handler

LEMMA PlaceNames ==
  /\ {"install", "getMap", "probe", "getQueue", "clear", "disable", "remove", "put", "visit",
      "add", "isEmpty", "sweep", "wipe", "detach"} \subseteq Places \ Finished
  /\ Finished \subseteq Places
  /\ {"start", "install", "getMap"} \cap Finished = {}
BY DEF Places, Finished

LEMMA TypeStep ==
  ASSUME QInv, NEW n \in Ids, HandlerStep(n)
  PROVE  QInv'
<1> USE IdsAreNumbers
<1>1. /\ published \in Seq(PokerEvent)
      /\ sessionUserEventMap \in [Sessions -> Ids \cup {Null}]
      /\ userEventMaps \in [Ids -> [Users -> Ids \cup {Null}]]
      /\ eventQueues \in [Ids -> [events : SUBSET Ids, active : BOOLEAN]]
  BY DEF QInv, QueuesTypeOK
<1>0. handlers \in [Ids -> Handler]
  BY DEF QInv, QueuesTypeOK
<1>2. \A x \in Ids :
       /\ handlers[x].at \notin {"start", "install", "getMap"} \cup Finished =>
            handlers[x].map # Null
       /\ handlers[x].at \in {"clear", "disable", "add"} => handlers[x].queue # Null
  BY DEF QInv, QueuesTypeOK
<1> DEFINE Fine(h) ==
       /\ h \in Handler
       /\ h.at \notin {"start", "install", "getMap"} \cup Finished => h.map # Null
       /\ h.at \in {"clear", "disable", "add"} => h.queue # Null
<1> DEFINE Moved == \E h : Fine(h) /\ handlers' = [handlers EXCEPT ![n] = h]
<1>3. published' = published
  BY WhatChanges
<1>4. sessionUserEventMap' \in [Sessions -> Ids \cup {Null}]
  BY <1>1, WhatChanges DEF Install, Detach
<1>5. userEventMaps' \in [Ids -> [Users -> Ids \cup {Null}]]
  <2>1. ASSUME NEW u, NEW q \in Ids \cup {Null}, SetQueueIn(n, u, q) PROVE  userEventMaps' \in [Ids -> [Users -> Ids \cup {Null}]]
    BY <1>1, <2>1 DEF SetQueueIn
  <2>2. CASE Install(n)
    BY <1>1, <2>2 DEF Install
  <2>3. QED
    BY <1>1, <2>1, <2>2, WhatChanges DEF RemoveQueue, PutQueue, Wipe
<1>6. eventQueues' \in [Ids -> [events : SUBSET Ids, active : BOOLEAN]]
  <2>1. CASE ClearEvents(n)
    BY <1>1, <2>1 DEF ClearEvents
  <2>2. CASE Disable(n)
    BY <1>1, <2>2 DEF Disable
  <2>3. CASE AddEvent(n)
    BY <1>1, <2>3 DEF AddEvent
  <2>4. QED
    BY <1>1, <2>1, <2>2, <2>3, WhatChanges
<1>7. CASE ~PutQueue(n)
  <2> SUFFICES Moved
    <3>1. ASSUME Moved
          PROVE  handlers' \in [Ids -> Handler] /\ \A x \in Ids : Fine(handlers'[x])
      BY <1>0, <1>2, <3>1
    <3>2. QED
      BY <1>1, <1>3, <1>4, <1>5, <1>6, <3>1 DEF QInv, QueuesTypeOK, AuthorsAreUsers
  <2>h. handlers[n] \in Handler
    BY <1>0
  <2>0. ASSUME NEW l \in Places, NEW q \in Ids, NEW U \in SUBSET Ids,
               handlers[n].map # Null,
               handlers' = [handlers EXCEPT ![n].todo = U, ![n].at = l, ![n].queue = q]
        PROVE  Moved
    <3> DEFINE h == [handlers[n] EXCEPT !.todo = U, !.at = l, !.queue = q]
    <3>1. handlers' = [handlers EXCEPT ![n] = h]
      BY <2>0
    <3>2. h \in Handler /\ h.at = l /\ h.map = handlers[n].map /\ h.queue = q
      BY <2>h DEF Handler
    <3>3. QED
      BY <2>0, <3>1, <3>2
  <2>1. ASSUME NEW l \in Finished, Finish(n, l) PROVE Moved
    <3>1. Fine(Idle(l))
      BY <2>1, PlaceNames DEF Idle, Handler, Finished
    <3>2. QED
      BY <2>1, <3>1 DEF Finish
  <2>2. ASSUME NEW l \in Places, Goto(n, l),
               l \in {"start", "install", "getMap"} \/ handlers[n].map # Null,
               l \in {"clear", "disable", "add"} => handlers[n].queue # Null
        PROVE  Moved
    <3>1. handlers' = [handlers EXCEPT ![n] = [handlers[n] EXCEPT !.at = l]]
      BY <2>2 DEF Goto
    <3> DEFINE h == [handlers[n] EXCEPT !.at = l]
    <3>2. h \in Handler
      BY <2>h DEF Handler
    <3>3. h.at = l /\ h.map = handlers[n].map /\ h.queue = handlers[n].queue
      BY <2>h DEF Handler
    <3>4. QED
      BY <2>2, <3>1, <3>2, <3>3
  <2>3. CASE SessionKnown(n)
    BY <2>3, <2>2, PlaceNames DEF SessionKnown
  <2>4. CASE SessionUnknown(n)
    BY <2>4, <2>1, <2>2, PlaceNames DEF SessionUnknown, Finished
  <2>5. CASE GetMap(n)
    <3>1. /\ published[n].type \in EventTypes \ {UserExited} /\ MapOf(n) \in Ids \cup {Null}
      BY <2>5, AtEvent DEF GetMap
    <3>2. CASE MapOf(n) = Null
      BY <2>5, <2>1, <3>2 DEF GetMap, Finished
    <3>3. CASE MapOf(n) # Null
      <4>1. NextAfterGet(n) \in {"probe", "visit", "isEmpty"}
        BY <3>1, TypeDistinct DEF NextAfterGet
      <4> DEFINE h == [at |-> NextAfterGet(n), map |-> MapOf(n), queue |-> Null,
                       bins |-> {},
                       todo |-> IF published[n].type \in Broadcasts
                                THEN QueuesOf(MapOf(n)) ELSE {}]
      <4>2. QueuesOf(MapOf(n)) \in SUBSET Ids
        BY <3>1, <3>3, QueuesOfType
      <4>3. Fine(h)
        BY <3>1, <3>3, <4>1, <4>2, PlaceNames DEF Handler
      <4>4. handlers' = [handlers EXCEPT ![n] = h]
        BY <2>5, <3>3 DEF GetMap
      <4>5. QED
        BY <4>3, <4>4
    <3>4. QED
      BY <3>2, <3>3
  <2>6. CASE clearUserEventQueue(n)
    BY <2>6, <2>1 DEF clearUserEventQueue, Finished
  <2>7. CASE Install(n) \/ VisitedAll(n) \/ Detach(n)
    BY <2>7, <2>1 DEF Install, VisitedAll, Detach, Finished
  <2>8. CASE Probe(n)
    BY <1>2, <2>8, <2>2, PlaceNames DEF Probe, At
  <2>9. CASE GetQueue(n)
    <3>0. handlers[n].map # Null /\ published[n].uid \in Users
      BY <1>2, <2>9, AtEvent, TypeDistinct, PlaceNames DEF GetQueue
    <3>1. QueueIn(n, published[n].uid) \in Ids \cup {Null}
      BY <3>0, QueueInType
    <3>2. CASE QueueIn(n, published[n].uid) = Null
      BY <2>9, <2>1, <3>2 DEF GetQueue, Finished
    <3>3. CASE QueueIn(n, published[n].uid) # Null
      <4>1. /\ handlers[n].map # Null
            /\ handlers' = [handlers EXCEPT ![n].at = "clear",
                                            ![n].queue = QueueIn(n, published[n].uid)]
        BY <2>9, <3>0, <3>3, PlaceNames DEF GetQueue, At
      <4>2. handlers' = [handlers EXCEPT ![n].todo = handlers[n].todo, ![n].at = "clear",
                                         ![n].queue = QueueIn(n, published[n].uid)]
        BY <4>1
      <4>3. "clear" \in Places /\ handlers[n].todo \in SUBSET Ids
        BY <2>h, PlaceNames DEF Handler
      <4>4. QED
        BY <2>0, <3>1, <3>3, <4>1, <4>2, <4>3
    <3>4. QED
      BY <3>2, <3>3
  <2>10. CASE ClearEvents(n)
    BY <1>2, <2>10, <2>2, PlaceNames DEF ClearEvents, At
  <2>11. CASE Disable(n)
    BY <1>2, <2>11, <2>2, PlaceNames DEF Disable, At
  <2>12. CASE RemoveQueue(n)
    BY <1>2, <2>12, <2>2, PlaceNames DEF RemoveQueue, At
  <2>13. ASSUME NEW q \in Ids, Visit(n, q) \/ Sweep(n, q) PROVE Moved
    <3>1. handlers[n].map # Null /\ q # Null /\ handlers[n].todo \ {q} \in SUBSET Ids
      BY <1>2, <2>h, <2>13, PlaceNames DEF Visit, Sweep, At, Handler
    <3>2. ASSUME NEW l \in {"add", "clear"}, Meet(n, q, l) PROVE Moved
      <4>1. l \in Places /\ q \in Ids \cup {Null}
        BY PlaceNames
      <4>2. QED
        BY <2>0, <3>1, <3>2, <4>1 DEF Meet
    <3>3. CASE Miss(n, q)
      <4> DEFINE h == [handlers[n] EXCEPT !.todo = @ \ {q}]
      <4>1. handlers' = [handlers EXCEPT ![n] = h]
        BY <3>3 DEF Miss
      <4>2. h \in Handler
        BY <2>h, <3>1 DEF Handler
      <4>3. h.at = handlers[n].at /\ h.map = handlers[n].map /\ h.queue = handlers[n].queue
        BY <2>h DEF Handler
      <4>4. QED
        BY <1>2, <4>1, <4>2, <4>3
    <3>4. QED
      BY <2>13, <3>2, <3>3 DEF Visit, Sweep
  <2>14. CASE AddEvent(n)
    BY <1>2, <2>14, <2>2, PlaceNames DEF AddEvent, At
  <2>15. CASE IsEmpty(n)
    <3> DEFINE Q == QueuesOf(handlers[n].map)
               h == [handlers[n] EXCEPT !.at = IF Q = {} THEN "detach" ELSE "sweep",
                                        !.todo = Q]
    <3>0. handlers[n].map # Null
      BY <1>2, <2>15, PlaceNames DEF IsEmpty, At
    <3>4. handlers[n].map \in Ids
      BY <2>h, <3>0 DEF Handler
    <3>6. Q \in SUBSET Ids
      BY <3>4, QueuesOfType
    <3>1. handlers' = [handlers EXCEPT ![n] = h]
      BY <2>15 DEF IsEmpty
    <3>2. h \in Handler /\ h.at \in {"detach", "sweep"} /\ h.map = handlers[n].map
      <4> DEFINE l == IF Q = {} THEN "detach" ELSE "sweep"
      <4>1. l \in Places /\ l \in {"detach", "sweep"}
        BY PlaceNames
      <4>2. QED
        BY <2>h, <3>6, <4>1 DEF Handler
    <3>3. QED
      BY <3>0, <3>1, <3>2
  <2>16. CASE SweptAll(n)
    <3> DEFINE h == [handlers[n] EXCEPT !.at = "wipe", !.queue = Null, !.bins = Users]
    <3>1. handlers' = [handlers EXCEPT ![n] = h]
      BY <2>16 DEF SweptAll
    <3>2. handlers[n].map # Null /\ "wipe" \in Places
      BY <1>2, <2>16, PlaceNames DEF SweptAll, At
    <3>3. h \in Handler /\ h.at = "wipe" /\ h.map = handlers[n].map
      BY <2>h, <3>2 DEF Handler
    <3>4. QED
      BY <3>1, <3>2, <3>3
  <2>17. ASSUME NEW u \in Users, Wipe(n, u) PROVE Moved
    <3> DEFINE h == [handlers[n] EXCEPT
                      !.bins = @ \ {u},
                      !.at = IF handlers[n].bins = {u} THEN "detach" ELSE "wipe"]
    <3>1. handlers' = [handlers EXCEPT ![n] = h]
      BY <2>17 DEF Wipe
    <3>2. /\ handlers[n].map # Null /\ {"wipe", "detach"} \subseteq Places
          /\ handlers[n].bins \ {u} \in SUBSET Users
      BY <1>2, <2>h, <2>17, PlaceNames DEF Wipe, At, Handler
    <3>3. h \in Handler /\ h.at \in {"wipe", "detach"} /\ h.map = handlers[n].map
      <4> DEFINE l == IF handlers[n].bins = {u} THEN "detach" ELSE "wipe"
      <4>1. l \in Places /\ l \in {"wipe", "detach"}
        BY <3>2
      <4>2. QED
        BY <2>h, <3>2, <4>1 DEF Handler
    <3>4. QED
      BY <3>1, <3>2, <3>3
  <2>18. QED
    BY <1>7, <2>3, <2>4, <2>5, <2>6, <2>7, <2>8, <2>9, <2>10, <2>11, <2>12, <2>13, <2>14,
       <2>15, <2>16, <2>17 DEF HandlerStep
<1>8. CASE PutQueue(n)
  <2>1. \A x \in Ids : Fine(handlers'[x])
    <3>1. /\ handlers'[n] = Idle("done") /\ \A x \in Ids \ {n} : StaysAt(x)
          /\ handlers' \in [Ids -> Handler]
      BY <1>8, PutMoves
    <3>2. Fine(handlers'[n])
      BY <3>1 DEF Idle, Finished
    <3>3. QED
      BY <1>2, <3>1, <3>2 DEF StaysAt
  <2>2. handlers' \in [Ids -> Handler]
    BY <1>8, PutMoves
  <2>3. QED
    BY <1>1, <1>3, <1>4, <1>5, <1>6, <2>1, <2>2 DEF QInv, QueuesTypeOK, AuthorsAreUsers
<1>9. QED
  BY <1>7, <1>8

LEMMA TypeInit == ListenersInit => QInv
BY IdsAreNumbers DEF ListenersInit, QueuesInit, QInv, QueuesTypeOK, AuthorsAreUsers, Idle,
   Places, Finished, Handler

LEMMA TypeNext == QInv /\ [ListenersNext]_listenerVars => QInv'
<1> SUFFICES ASSUME QInv, [ListenersNext]_listenerVars PROVE QInv'
  OBVIOUS
<1>1. CASE UNCHANGED listenerVars
  BY <1>1 DEF listenerVars, queueVars, QInv, QueuesTypeOK, AuthorsAreUsers
<1>2. ASSUME NEW ev \in EventsAt(Len(published)), MulticastEvent(ev) PROVE QInv'
  <2>1. Len(published) \in Nat
    BY DEF QInv, QueuesTypeOK
  <2>2. QED
    BY <1>2, <2>1, MulticastType
<1>3. ASSUME NEW n \in Ids, HandlerStep(n) PROVE QInv'
  BY <1>3, TypeStep
<1>4. QED
  BY <1>1, <1>2, <1>3 DEF ListenersNext

(***************************************************************************)
(* In every reachable state the maps, queues and handlers are type         *)
(* correct, and a handler that has come past a get() of                    *)
(* SessionUserEventServiceImpl has what it got in hand: one that got null  *)
(* has called it, and failed.                                              *)
(***************************************************************************)
THEOREM QueuesTypeCorrect == ListenersSpec => []QueuesTypeOK
<1>1. ListenersSpec => []QInv
  BY TypeInit, TypeNext, PTL DEF ListenersSpec
<1>2. QED
  BY <1>1, PTL DEF QInv

-----------------------------------------------------------------------------
(***************************************************************************)
(* Where the steps of a handler take it, with what it has in hand then.    *)
(***************************************************************************)
Carries(n, l, m, q, U) ==
  /\ handlers'[n].at = l
  /\ handlers'[n].map = m
  /\ handlers'[n].queue = q
  /\ handlers'[n].todo = U

LEMMA GotoMoves ==
  ASSUME QInv, NEW n \in Ids, NEW l, Goto(n, l)
  PROVE  /\ Carries(n, l, handlers[n].map, handlers[n].queue, handlers[n].todo)
         /\ handlers'[n].bins = handlers[n].bins
<1>1. handlers \in [Ids -> Handler]
  BY DEF QInv, QueuesTypeOK
<1>2. QED
  BY <1>1 DEF Goto, Carries, Handler

LEMMA FinishMoves ==
  ASSUME QInv, NEW n \in Ids, NEW l, Finish(n, l)
  PROVE  Carries(n, l, Null, Null, {}) /\ handlers'[n] = Idle(l)
<1>1. handlers \in [Ids -> Handler]
  BY DEF QInv, QueuesTypeOK
<1>2. handlers'[n] = Idle(l)
  BY <1>1 DEF Finish
<1>3. QED
  BY <1>2 DEF Idle, Carries

LEMMA MeetMoves ==
  ASSUME QInv, NEW n \in Ids, NEW q, NEW l, Meet(n, q, l)
  PROVE  /\ q \in handlers[n].todo
         /\ InMap(n, q) \/ handlers[n].queue # Null
         /\ Carries(n, l, handlers[n].map, q, handlers[n].todo \ {q})
<1>1. handlers \in [Ids -> Handler]
  BY DEF QInv, QueuesTypeOK
<1>2. QED
  BY <1>1 DEF Meet, Carries, Handler

LEMMA MissMoves ==
  ASSUME QInv, NEW n \in Ids, NEW q, Miss(n, q)
  PROVE  /\ q \in handlers[n].todo /\ ~InMap(n, q)
         /\ Carries(n, handlers[n].at, handlers[n].map, handlers[n].queue,
                    handlers[n].todo \ {q})
<1>1. handlers \in [Ids -> Handler]
  BY DEF QInv, QueuesTypeOK
<1>2. QED
  BY <1>1 DEF Miss, Carries, Handler

LEMMA GetMapMoves ==
  ASSUME QInv, NEW n \in Ids, GetMap(n)
  PROVE  \/ /\ MapOf(n) = Null
            /\ Carries(n, "failed", Null, Null, {}) /\ handlers'[n] = Idle("failed")
         \/ /\ MapOf(n) \in Ids
            /\ NextAfterGet(n) \in {"probe", "visit", "isEmpty"}
            /\ Carries(n, NextAfterGet(n), MapOf(n), Null,
                       IF published[n].type \in Broadcasts THEN QueuesOf(MapOf(n)) ELSE {})
<1>1. handlers \in [Ids -> Handler]
  BY DEF QInv, QueuesTypeOK
<1>2. MapOf(n) \in Ids \cup {Null} /\ published[n].type \in EventTypes \ {UserExited}
  BY AtEvent DEF GetMap
<1>3. CASE MapOf(n) = Null
  BY <1>3, FinishMoves DEF GetMap
<1>4. CASE MapOf(n) # Null
  <2>1. NextAfterGet(n) \in {"probe", "visit", "isEmpty"}
    BY <1>2, TypeDistinct DEF NextAfterGet
  <2>2. QED
    BY <1>1, <1>2, <1>4, <2>1 DEF GetMap, Carries
<1>5. QED
  BY <1>3, <1>4

LEMMA GetQueueMoves ==
  ASSUME QInv, NEW n \in Ids, GetQueue(n)
  PROVE  /\ published[n].uid \in Users /\ handlers[n].map \in Ids
         /\ \/ /\ QueueIn(n, published[n].uid) = Null
               /\ Carries(n, "failed", Null, Null, {}) /\ handlers'[n] = Idle("failed")
            \/ /\ QueueIn(n, published[n].uid) \in Ids
               /\ Carries(n, "clear", handlers[n].map, QueueIn(n, published[n].uid),
                          handlers[n].todo)
<1>1. /\ handlers \in [Ids -> Handler]
      /\ handlers[n].at = "getQueue" => handlers[n].map # Null
  BY PlaceNames DEF QInv, QueuesTypeOK
<1>2. published[n].uid \in Users /\ handlers[n].map # Null
  BY <1>1, AtEvent, TypeDistinct DEF GetQueue
<1>3. handlers[n].map \in Ids
  BY <1>1, <1>2 DEF Handler
<1>4. QueueIn(n, published[n].uid) \in Ids \cup {Null}
  BY <1>2, QueueInType
<1>5. CASE QueueIn(n, published[n].uid) = Null
  BY <1>2, <1>3, <1>5, FinishMoves DEF GetQueue
<1>6. CASE QueueIn(n, published[n].uid) # Null
  <2>1. Carries(n, "clear", handlers[n].map, QueueIn(n, published[n].uid), handlers[n].todo)
    BY <1>1, <1>6 DEF GetQueue, Carries, Handler
  <2>2. QED
    BY <1>2, <1>3, <1>4, <1>6, <2>1
<1>7. QED
  BY <1>5, <1>6

LEMMA ClearingMoves ==
  ASSUME QInv, NEW n \in Ids
  PROVE  /\ IsEmpty(n) =>
              /\ handlers[n].map \in Ids
              /\ \E l \in {"detach", "sweep"} :
                   Carries(n, l, handlers[n].map, handlers[n].queue,
                           QueuesOf(handlers[n].map))
         /\ SweptAll(n) =>
              /\ Carries(n, "wipe", handlers[n].map, Null, handlers[n].todo)
              /\ handlers'[n].bins = Users
         /\ \A u \in Users : Wipe(n, u) =>
              /\ handlers[n].map \in Ids
              /\ Carries(n, IF handlers[n].bins = {u} THEN "detach" ELSE "wipe",
                         handlers[n].map, handlers[n].queue, handlers[n].todo)
              /\ handlers'[n].bins = handlers[n].bins \ {u}
<1>1. /\ handlers \in [Ids -> Handler]
      /\ handlers[n].at \in {"isEmpty", "wipe"} => handlers[n].map # Null
  BY PlaceNames DEF QInv, QueuesTypeOK
<1>2. handlers[n].at \in {"isEmpty", "wipe"} => handlers[n].map \in Ids
  BY <1>1 DEF Handler
<1>3. ASSUME IsEmpty(n)
      PROVE  /\ handlers[n].map \in Ids
             /\ \E l \in {"detach", "sweep"} :
                  Carries(n, l, handlers[n].map, handlers[n].queue,
                          QueuesOf(handlers[n].map))
  BY <1>1, <1>2, <1>3 DEF IsEmpty, At, Carries, Handler
<1>4. ASSUME SweptAll(n)
      PROVE  /\ Carries(n, "wipe", handlers[n].map, Null, handlers[n].todo)
             /\ handlers'[n].bins = Users
  BY <1>1, <1>4 DEF SweptAll, At, Carries, Handler
<1>5. ASSUME NEW u \in Users, Wipe(n, u)
      PROVE  /\ handlers[n].map \in Ids
             /\ Carries(n, IF handlers[n].bins = {u} THEN "detach" ELSE "wipe",
                        handlers[n].map, handlers[n].queue, handlers[n].todo)
             /\ handlers'[n].bins = handlers[n].bins \ {u}
  BY <1>1, <1>2, <1>5 DEF Wipe, At, Carries, Handler
<1>6. QED
  BY <1>3, <1>4, <1>5

\* The handlers of other events stay where they are; traversals that are
\* shown the queue that is put may meet it.
LEMMA OthersStay ==
  ASSUME QInv, NEW n \in Ids, HandlerStep(n)
  PROVE  \A x \in Ids \ {n} :
           /\ StaysAt(x)
           /\ \/ handlers'[x] = handlers[x]
              \/ /\ PutQueue(n) /\ Shown(x, n)
                 /\ handlers'[x].todo = handlers[x].todo \cup {n}
<1>1. CASE PutQueue(n)
  BY <1>1, PutMoves
<1>2. CASE ~PutQueue(n)
  <2>1. handlers \in [Ids -> Handler]
    BY DEF QInv, QueuesTypeOK
  <2>2. \E h : handlers' = [handlers EXCEPT ![n] = h]
    BY <1>2 DEF HandlerStep, SessionKnown, SessionUnknown, GetMap, clearUserEventQueue, Probe,
       Install, GetQueue, ClearEvents, Disable, RemoveQueue, AddEvent, VisitedAll, IsEmpty,
       SweptAll, Detach, Visit, Sweep, Wipe, Meet, Miss, Goto, Finish
  <2>3. QED
    BY <2>1, <2>2 DEF StaysAt
<1>3. QED
  BY <1>1, <1>2

\* What a handler gets hold of: the map of the session of its event, and
\* queues that are, or were when they were shown to it, in that map.
LEMMA HandlersMove ==
  ASSUME QInv, NEW n \in Ids, HandlerStep(n)
  PROVE  /\ n \in DOMAIN published
         /\ handlers'[n].map \in {Null, handlers[n].map, MapOf(n)}
         /\ \/ handlers'[n].queue \in {Null, handlers[n].queue}
            \/ /\ published[n].type \notin Creates
               /\ handlers'[n].queue \in handlers[n].todo
            \/ /\ published[n].uid \in Users /\ handlers[n].map \in Ids
               /\ handlers'[n].queue = userEventMaps[handlers[n].map][published[n].uid]
         /\ handlers'[n].queue # Null => handlers'[n].map = handlers[n].map
         /\ \/ handlers'[n].todo = {}
            \/ handlers'[n].map = handlers[n].map /\ handlers'[n].todo \subseteq handlers[n].todo
            \/ handlers'[n].map # Null /\ handlers'[n].todo = QueuesOf(handlers'[n].map)
<1> DEFINE Goal ==
     /\ n \in DOMAIN published
     /\ handlers'[n].map \in {Null, handlers[n].map, MapOf(n)}
     /\ \/ handlers'[n].queue \in {Null, handlers[n].queue}
        \/ /\ published[n].type \notin Creates
           /\ handlers'[n].queue \in handlers[n].todo
        \/ /\ published[n].uid \in Users /\ handlers[n].map \in Ids
           /\ handlers'[n].queue = userEventMaps[handlers[n].map][published[n].uid]
     /\ handlers'[n].queue # Null => handlers'[n].map = handlers[n].map
     /\ \/ handlers'[n].todo = {}
        \/ handlers'[n].map = handlers[n].map /\ handlers'[n].todo \subseteq handlers[n].todo
        \/ handlers'[n].map # Null /\ handlers'[n].todo = QueuesOf(handlers'[n].map)
<1>1. n \in DOMAIN published
  BY DEF HandlerStep, SessionKnown, SessionUnknown, GetMap, clearUserEventQueue, Probe, Install,
     GetQueue, ClearEvents, Disable, RemoveQueue, PutQueue, AddEvent, VisitedAll, IsEmpty,
     SweptAll, Detach, Visit, Sweep, Wipe, At
<1>2. CASE \E l : Goto(n, l)
  BY <1>1, <1>2, GotoMoves DEF Carries
<1>3. CASE \E l : Finish(n, l)
  BY <1>1, <1>3, FinishMoves DEF Carries
<1>4. CASE GetMap(n)
  BY <1>1, <1>4, GetMapMoves, IdsAreNumbers DEF Carries
<1>5. CASE GetQueue(n)
  BY <1>1, <1>5, GetQueueMoves DEF Carries, QueueIn
<1>6. ASSUME NEW q \in Ids, Visit(n, q) \/ Sweep(n, q) PROVE Goal
  <2>1. published[n].type \notin Creates
    BY <1>6, TypeDistinct DEF Visit, Sweep, At
  <2>2. (\E l : Meet(n, q, l)) \/ Miss(n, q)
    BY <1>6 DEF Visit, Sweep
  <2>3. QED
    BY <1>1, <2>1, <2>2, MeetMoves, MissMoves DEF Carries
<1>7. CASE IsEmpty(n) \/ SweptAll(n) \/ \E u \in Users : Wipe(n, u)
  BY <1>1, <1>7, ClearingMoves, IdsAreNumbers DEF Carries
<1>8. CASE PutQueue(n)
  BY <1>1, <1>8, PutMoves DEF Idle
<1>9. QED
  BY <1>2, <1>3, <1>4, <1>5, <1>6, <1>7, <1>8
     DEF HandlerStep, SessionKnown, SessionUnknown, clearUserEventQueue, Install, Probe,
         ClearEvents, Disable, RemoveQueue, AddEvent, VisitedAll, Detach

-----------------------------------------------------------------------------
\* Queue q was made for user u of session s.
MadeFor(q, s, u) ==
  /\ q \in DOMAIN published
  /\ published[q].type \in Creates
  /\ published[q].sid = s
  /\ published[q].uid = u

\* Map m, or queue m, belongs to session s.
OfSession(m, s) == m \in DOMAIN published /\ published[m].sid = s

(***************************************************************************)
(* The inductive form of QueuesBelongToTheirUsers: it speaks of every map, *)
(* attached to its session or not, and of what the handlers hold.          *)
(***************************************************************************)
MapsOwned ==
  \A m \in Ids, u \in Users :
    userEventMaps[m][u] # Null =>
      /\ m \in DOMAIN published
      /\ MadeFor(userEventMaps[m][u], published[m].sid, u)

AttachedOwned ==
  \A s \in Sessions : sessionUserEventMap[s] # Null => OfSession(sessionUserEventMap[s], s)

HeldOwned ==
  \A n \in Ids :
    /\ handlers[n].map # Null =>
         n \in DOMAIN published /\ OfSession(handlers[n].map, published[n].sid)
    /\ handlers[n].queue # Null =>
         n \in DOMAIN published /\ OfSession(handlers[n].queue, published[n].sid)
    /\ \A q \in handlers[n].todo :
         n \in DOMAIN published /\ OfSession(q, published[n].sid)

EventsOwned ==
  \A q \in Ids : \A e \in eventQueues[q].events :
    /\ {q, e} \subseteq DOMAIN published
    /\ published[e].type \in Broadcasts
    /\ published[e].sid = published[q].sid

OwnInv == MapsOwned /\ AttachedOwned /\ HeldOwned /\ EventsOwned

LEMMA OwnInit == ListenersInit => OwnInv
BY DEF ListenersInit, QueuesInit, OwnInv, MapsOwned, AttachedOwned, HeldOwned, EventsOwned, Idle

LEMMA OwnMulticast ==
  ASSUME QInv, OwnInv, NEW t \in Nat, NEW ev \in EventsAt(t), MulticastEvent(ev)
  PROVE  OwnInv'
<1>1. /\ DOMAIN published \subseteq DOMAIN published'
      /\ \A n \in DOMAIN published : published'[n] = published[n]
      /\ UNCHANGED queueVars
  BY PublishedStays
<1>2. MapsOwned'
  BY <1>1 DEF OwnInv, MapsOwned, MadeFor, queueVars
<1>3. AttachedOwned'
  BY <1>1 DEF OwnInv, AttachedOwned, OfSession, queueVars
<1>4. HeldOwned'
  <2>1. \A q : \A s : OfSession(q, s) => OfSession(q, s)'
    BY <1>1 DEF OfSession
  <2>2. QED
    BY <1>1, <2>1 DEF OwnInv, HeldOwned, queueVars
<1>5. EventsOwned'
  BY <1>1 DEF OwnInv, EventsOwned, queueVars
<1>6. QED
  BY <1>2, <1>3, <1>4, <1>5 DEF OwnInv

LEMMA OwnStep ==
  ASSUME QInv, OwnInv, NEW n \in Ids, HandlerStep(n)
  PROVE  OwnInv'
<1> USE IdsAreNumbers
<1>1. /\ published' = published /\ n \in DOMAIN published
      /\ published[n].sid \in Sessions
  <2>1. published' = published /\ n \in DOMAIN published
    BY WhatChanges, HandlersMove
  <2>2. published[n] \in PokerEvent
    BY <2>1 DEF QInv, QueuesTypeOK
  <2>3. QED
    BY <2>1, <2>2 DEF PokerEvent
<1>2. /\ sessionUserEventMap \in [Sessions -> Ids \cup {Null}]
      /\ userEventMaps \in [Ids -> [Users -> Ids \cup {Null}]]
      /\ eventQueues \in [Ids -> [events : SUBSET Ids, active : BOOLEAN]]
      /\ handlers[n].map \in Ids \cup {Null} /\ handlers[n].queue \in Ids \cup {Null}
      /\ handlers[n].at \notin {"start", "install", "getMap"} \cup Finished =>
           handlers[n].map # Null
      /\ handlers[n].at \in {"clear", "disable", "add"} => handlers[n].queue # Null
  BY DEF QInv, QueuesTypeOK, Handler
<1>3. MapsOwned'
  <2> SUFFICES ASSUME NEW m \in Ids, NEW u \in Users, userEventMaps'[m][u] # Null
               PROVE  /\ m \in DOMAIN published
                      /\ MadeFor(userEventMaps'[m][u], published[m].sid, u)
    BY <1>1 DEF MapsOwned, MadeFor
  <2>1. CASE userEventMaps'[m][u] = userEventMaps[m][u]
    BY <2>1 DEF OwnInv, MapsOwned
  <2>2. CASE Install(n)
    BY <1>1, <1>2, <2>1, <2>2 DEF Install, At, MadeFor
  <2>3. CASE PutQueue(n)
    <3>1. handlers[n].map # Null /\ OfSession(handlers[n].map, published[n].sid)
      BY <1>2, <2>3 DEF PutQueue, At, Finished, OwnInv, HeldOwned
    <3>2. QED
      BY <1>1, <1>2, <2>1, <2>3, <3>1 DEF PutQueue, SetQueueIn, At, MadeFor, OfSession
  <2>4. CASE RemoveQueue(n)
    BY <1>2, <2>1, <2>4 DEF RemoveQueue, SetQueueIn
  <2>5. ASSUME NEW v \in Users, Wipe(n, v) PROVE userEventMaps'[m][u] = userEventMaps[m][u]
    BY <1>2, <2>5 DEF Wipe, SetQueueIn
  <2>6. QED
    BY <2>1, <2>2, <2>3, <2>4, <2>5, WhatChanges
<1>4. AttachedOwned'
  <2>1. ASSUME NEW s \in Sessions, sessionUserEventMap'[s] # Null
        PROVE  OfSession(sessionUserEventMap'[s], s)
    <3>1. CASE sessionUserEventMap' = sessionUserEventMap
      BY <2>1, <3>1 DEF OwnInv, AttachedOwned
    <3>2. CASE Install(n)
      BY <1>1, <1>2, <2>1, <3>2 DEF Install, OwnInv, AttachedOwned, OfSession
    <3>3. CASE Detach(n)
      BY <1>1, <1>2, <2>1, <3>3 DEF Detach, OwnInv, AttachedOwned
    <3>4. QED
      BY <3>1, <3>2, <3>3, WhatChanges
  <2>2. QED
    BY <1>1, <2>1 DEF AttachedOwned, OfSession
<1>5. HeldOwned'
  <2> SUFFICES ASSUME NEW x \in Ids
               PROVE  /\ handlers'[x].map # Null =>
                           /\ x \in DOMAIN published
                           /\ OfSession(handlers'[x].map, published[x].sid)
                      /\ handlers'[x].queue # Null =>
                           /\ x \in DOMAIN published
                           /\ OfSession(handlers'[x].queue, published[x].sid)
                      /\ \A q \in handlers'[x].todo :
                           /\ x \in DOMAIN published
                           /\ OfSession(q, published[x].sid)
    BY <1>1 DEF HeldOwned, OfSession
  <2>1. CASE x # n
    <3>1. ASSUME PutQueue(n), Shown(x, n)
          PROVE  x \in DOMAIN published /\ OfSession(n, published[x].sid)
      <4>1. handlers[n].map # Null /\ handlers[x].map = handlers[n].map
        BY <1>2, <3>1, PlaceNames DEF PutQueue, At, Shown
      <4>2. QED
        BY <1>1, <4>1 DEF OwnInv, HeldOwned, OfSession
    <3>2. QED
      BY <2>1, <3>1, OthersStay DEF StaysAt, OwnInv, HeldOwned
  <2>2. MapOf(n) # Null => OfSession(MapOf(n), published[n].sid)
    BY <1>1 DEF OwnInv, AttachedOwned, MapOf
  <2>3. /\ handlers'[n].map # Null => OfSession(handlers'[n].map, published[n].sid)
        /\ handlers'[n].map \in Ids \cup {Null}
    BY <1>2, <2>2, AtEvent, HandlersMove, TypeStep
       DEF OwnInv, HeldOwned, QInv, QueuesTypeOK, Handler
  <2>4. ASSUME NEW m \in Ids, OfSession(m, published[n].sid), NEW u \in Users,
               userEventMaps[m][u] # Null
        PROVE  OfSession(userEventMaps[m][u], published[n].sid)
    BY <1>2, <2>4 DEF OwnInv, MapsOwned, OfSession, MadeFor
  <2>5. handlers'[n].queue # Null => OfSession(handlers'[n].queue, published[n].sid)
    <3>1. /\ handlers[n].map # Null => OfSession(handlers[n].map, published[n].sid)
          /\ handlers[n].queue # Null => OfSession(handlers[n].queue, published[n].sid)
          /\ \A q \in handlers[n].todo : OfSession(q, published[n].sid)
      BY DEF OwnInv, HeldOwned
    <3>2. CASE handlers'[n].queue \in {Null, handlers[n].queue} \cup handlers[n].todo
      BY <3>1, <3>2
    <3>3. CASE /\ published[n].uid \in Users /\ handlers[n].map \in Ids
               /\ handlers'[n].queue = userEventMaps[handlers[n].map][published[n].uid]
      BY <2>4, <3>1, <3>3
    <3>4. QED
      BY <3>2, <3>3, HandlersMove
  <2>6. ASSUME NEW q \in handlers'[n].todo PROVE OfSession(q, published[n].sid)
    <3>1. CASE q \in handlers[n].todo
      BY <3>1 DEF OwnInv, HeldOwned
    <3>2. CASE handlers'[n].map # Null /\ q \in QueuesOf(handlers'[n].map)
      <4>1. PICK u \in Users : q = userEventMaps[handlers'[n].map][u] /\ q # Null
        BY <3>2 DEF QueuesOf
      <4>2. QED
        BY <2>3, <2>4, <3>2, <4>1
    <3>3. QED
      BY <2>6, <3>1, <3>2, HandlersMove
  <2>7. QED
    BY <1>1, <2>1, <2>3, <2>5, <2>6
<1>6. EventsOwned'
  <2> SUFFICES ASSUME NEW q \in Ids, NEW e \in eventQueues'[q].events
               PROVE  /\ {q, e} \subseteq DOMAIN published
                      /\ published[e].type \in Broadcasts
                      /\ published[e].sid = published[q].sid
    BY <1>1 DEF EventsOwned
  <2>1. CASE e \in eventQueues[q].events
    BY <2>1 DEF OwnInv, EventsOwned
  <2>2. CASE AddEvent(n) /\ q = handlers[n].queue /\ e = n
    BY <1>1, <1>2, <2>2 DEF AddEvent, At, OwnInv, HeldOwned, OfSession
  <2>3. \/ e \in eventQueues[q].events
        \/ AddEvent(n) /\ q = handlers[n].queue /\ e = n
    <3>1. CASE ClearEvents(n)
      BY <1>2, <3>1 DEF ClearEvents
    <3>2. CASE Disable(n)
      BY <1>2, <3>2 DEF Disable
    <3>3. CASE AddEvent(n)
      BY <1>2, <3>3 DEF AddEvent
    <3>4. QED
      BY <3>1, <3>2, <3>3, WhatChanges
  <2>4. QED
    BY <2>1, <2>2, <2>3
<1>7. QED
  BY <1>3, <1>4, <1>5, <1>6 DEF OwnInv

LEMMA OwnNext == QInv /\ OwnInv /\ [ListenersNext]_listenerVars => OwnInv'
<1> SUFFICES ASSUME QInv, OwnInv, [ListenersNext]_listenerVars PROVE OwnInv'
  OBVIOUS
<1>1. CASE UNCHANGED listenerVars
  BY <1>1 DEF listenerVars, queueVars, OwnInv, MapsOwned, AttachedOwned, HeldOwned, EventsOwned,
     MadeFor, OfSession
<1>2. ASSUME NEW ev \in EventsAt(Len(published)), MulticastEvent(ev) PROVE OwnInv'
  <2>1. Len(published) \in Nat
    BY DEF QInv, QueuesTypeOK
  <2>2. QED
    BY <1>2, <2>1, OwnMulticast
<1>3. ASSUME NEW n \in Ids, HandlerStep(n) PROVE OwnInv'
  BY <1>3, OwnStep
<1>4. QED
  BY <1>1, <1>2, <1>3 DEF ListenersNext

LEMMA OwnProperty == QInv /\ OwnInv => QueuesBelongToTheirUsers
<1> SUFFICES ASSUME QInv, OwnInv PROVE QueuesBelongToTheirUsers
  OBVIOUS
<1>1. ASSUME NEW s \in Sessions, NEW u \in Users, Registered(s, u) # Null
      PROVE  MadeFor(Registered(s, u), s, u)
  <2>1. /\ sessionUserEventMap[s] \in Ids
        /\ Registered(s, u) = userEventMaps[sessionUserEventMap[s]][u]
    BY <1>1 DEF Registered, QInv, QueuesTypeOK
  <2>2. OfSession(sessionUserEventMap[s], s)
    BY <2>1, IdsAreNumbers DEF OwnInv, AttachedOwned
  <2>3. MadeFor(Registered(s, u), published[sessionUserEventMap[s]].sid, u)
    BY <1>1, <2>1 DEF OwnInv, MapsOwned
  <2>4. QED
    BY <2>2, <2>3 DEF OfSession
<1>2. QED
  BY <1>1 DEF QueuesBelongToTheirUsers, MadeFor, OwnInv, EventsOwned

(***************************************************************************)
(* However the handlers of any events of any sessions interleave, a user   *)
(* finds no queue but its own, and in a queue there are only votes and     *)
(* resets of its session (createUserEventQueue, broadcastEvent).           *)
(***************************************************************************)
THEOREM QueuesAreOwned == ListenersSpec => []QueuesBelongToTheirUsers
<1>1. ListenersInit => QInv /\ OwnInv
  BY TypeInit, OwnInit
<1>2. QInv /\ OwnInv /\ [ListenersNext]_listenerVars => (QInv /\ OwnInv)'
  BY TypeNext, OwnNext
<1>3. QED
  BY <1>1, <1>2, OwnProperty, PTL DEF ListenersSpec

-----------------------------------------------------------------------------
(***************************************************************************)
(* The inductive form of DisabledQueuesAreLeaving.  A queue has at most    *)
(* one place, the map it was put into, and a handler that is to disable a  *)
(* queue works on that map; so the handler that disabled it is one that    *)
(* still has to remove what is in that place.                              *)
(***************************************************************************)
InPlace(m, u, q) == userEventMaps[m][u] = q

\* Until its handler is done with it, nobody knows a new queue.
NewQueues ==
  \A q \in Ids :
    handlers[q].at \notin Finished =>
      /\ \A m \in Ids, u \in Users : ~InPlace(m, u, q)
      /\ \A n \in Ids : handlers[n].queue # q /\ q \notin handlers[n].todo
      /\ eventQueues[q].active

OneMap ==
  \A q \in Ids, m \in Ids, u \in Users :
    InPlace(m, u, q) =>
      /\ \A k \in Ids, v \in Users : InPlace(k, v, q) => k = m
      /\ \A n \in Ids :
           handlers[n].queue = q \/ q \in handlers[n].todo => handlers[n].map = m

\* createUserEventQueue retires a queue of its own user.
RetiresOwn ==
  \A n \in Ids :
    n \in DOMAIN published /\ published[n].type \in Creates /\ handlers[n].queue # Null =>
      published[handlers[n].queue].uid = published[n].uid

\* Handler n will remove what map m has for user u.
Empties(n, m, u) ==
  /\ n \in DOMAIN published
  /\ handlers[n].map = m
  /\ \/ handlers[n].at = "remove" /\ published[n].uid = u
     \/ handlers[n].at \in {"clear", "disable", "sweep"} /\ published[n].type \in Clears
     \/ handlers[n].at = "wipe" /\ u \in handlers[n].bins

Leaving ==
  \A m, q \in Ids, u \in Users :
    InPlace(m, u, q) /\ ~eventQueues[q].active => \E n \in Ids : Empties(n, m, u)

LeaveInv == NewQueues /\ OneMap /\ RetiresOwn /\ Leaving

LInv == QInv /\ OwnInv /\ LeaveInv

\* A place changes when its queue is removed, or a new one put there.
LEMMA PlacesChange ==
  ASSUME QInv, NEW n \in Ids, HandlerStep(n)
  PROVE  \/ userEventMaps' = userEventMaps
         \/ \E m \in Ids, u \in Users : userEventMaps' = [userEventMaps EXCEPT ![m][u] = Null]
         \/ /\ \E m \in Ids, u \in Users : userEventMaps' = [userEventMaps EXCEPT ![m][u] = n]
            /\ handlers[n].at \in {"install", "put"}
            /\ handlers'[n] = Idle("done")
<1>1. /\ userEventMaps \in [Ids -> [Users -> Ids \cup {Null}]]
      /\ handlers[n].at \in {"put", "remove", "wipe"} => handlers[n].map \in Ids
  BY PlaceNames DEF QInv, QueuesTypeOK, Handler
<1>2. CASE Install(n)
  <2>1. published[n].uid \in Users
    BY <1>2, AtEvent, TypeDistinct DEF Install
  <2>2. QED
    BY <1>1, <1>2, <2>1, FinishMoves DEF Install, At
<1>3. CASE PutQueue(n)
  <2>1. published[n].uid \in Users /\ handlers[n].map \in Ids
    BY <1>1, <1>3, AtEvent, TypeDistinct DEF PutQueue, At
  <2>2. QED
    BY <1>1, <1>3, <2>1, PutMoves DEF PutQueue, SetQueueIn, At
<1>4. CASE RemoveQueue(n)
  <2>1. published[n].uid \in Users /\ handlers[n].map \in Ids
    BY <1>1, <1>4, AtEvent, TypeDistinct DEF RemoveQueue, At
  <2>2. QED
    BY <1>4, <2>1 DEF RemoveQueue, SetQueueIn
<1>5. ASSUME NEW v \in Users, Wipe(n, v)
      PROVE  userEventMaps' = [userEventMaps EXCEPT ![handlers[n].map][v] = Null]
             /\ handlers[n].map \in Ids
  BY <1>1, <1>5 DEF Wipe, SetQueueIn, At
<1>6. QED
  BY <1>2, <1>3, <1>4, <1>5, WhatChanges

LEMMA ActiveChanges ==
  ASSUME QInv, NEW n \in Ids, HandlerStep(n)
  PROVE  \/ \A q \in Ids : eventQueues'[q].active = eventQueues[q].active
         \/ /\ Disable(n) /\ handlers[n].queue \in Ids
            /\ \A q \in Ids \ {handlers[n].queue} : eventQueues'[q].active = eventQueues[q].active
<1>1. /\ eventQueues \in [Ids -> [events : SUBSET Ids, active : BOOLEAN]]
      /\ handlers[n].queue \in Ids \cup {Null}
      /\ handlers[n].at = "disable" => handlers[n].queue # Null
  BY DEF QInv, QueuesTypeOK, Handler
<1>2. CASE ClearEvents(n)
  BY <1>1, <1>2 DEF ClearEvents
<1>3. CASE Disable(n)
  BY <1>1, <1>3 DEF Disable, At
<1>4. CASE AddEvent(n)
  BY <1>1, <1>4 DEF AddEvent
<1>5. QED
  BY <1>2, <1>3, <1>4, WhatChanges

LEMMA StepsUnfinished ==
  ASSUME NEW n \in Ids, HandlerStep(n)
  PROVE  handlers[n].at \notin Finished
BY DEF HandlerStep, SessionKnown, SessionUnknown, GetMap, clearUserEventQueue, Probe, Install,
   GetQueue, ClearEvents, Disable, RemoveQueue, PutQueue, AddEvent, VisitedAll, IsEmpty,
   SweptAll, Detach, Visit, Sweep, Wipe, At, Finished

\* A handler that is to empty a place does so, or is still to do it.
LEMMA EmptiesStays ==
  ASSUME QInv, NEW n \in Ids, HandlerStep(n), NEW m \in Ids, NEW u \in Users, Empties(n, m, u)
  PROVE  Empties(n, m, u)' \/ userEventMaps'[m][u] = Null
<1> USE TypeDistinct DEF At, Empties, Carries
<1>1. /\ userEventMaps \in [Ids -> [Users -> Ids \cup {Null}]]
      /\ published' = published
  BY WhatChanges DEF QInv, QueuesTypeOK
<1>2. CASE RemoveQueue(n)
  BY <1>1, <1>2 DEF RemoveQueue, SetQueueIn
<1>3. CASE ClearEvents(n)
  BY <1>1, <1>3, GotoMoves DEF ClearEvents
<1>4. CASE Disable(n)
  BY <1>1, <1>4, GotoMoves DEF Disable
<1>5. CASE SweptAll(n)
  BY <1>1, <1>5, ClearingMoves DEF SweptAll
<1>6. ASSUME NEW q \in Ids, Sweep(n, q) PROVE Empties(n, m, u)'
  BY <1>1, <1>6, MeetMoves, MissMoves DEF Sweep
<1>7. ASSUME NEW v \in Users, Wipe(n, v)
      PROVE  Empties(n, m, u)' \/ userEventMaps'[m][u] = Null
  <2>1. CASE u = v
    <3>1. SetQueueIn(n, u, Null) /\ handlers[n].map = m
      BY <1>7, <2>1 DEF Wipe
    <3>2. QED
      BY <1>1, <3>1 DEF SetQueueIn
  <2>2. CASE u # v
    <3>1. /\ handlers'[n].map = m /\ published'[n].type \in Clears /\ u \in handlers[n].bins
          /\ handlers[n].at = "wipe"
      BY <1>1, <1>7, ClearingMoves DEF Wipe
    <3>2. /\ handlers'[n].bins = handlers[n].bins \ {v}
          /\ handlers'[n].at = IF handlers[n].bins = {v} THEN "detach" ELSE "wipe"
      BY <1>7, ClearingMoves
    <3>3. QED
      BY <1>1, <2>2, <3>1, <3>2
  <2>3. QED
    BY <2>1, <2>2
<1>8. /\ ~SessionKnown(n) /\ ~SessionUnknown(n) /\ ~GetMap(n) /\ ~clearUserEventQueue(n)
      /\ ~Install(n) /\ ~Probe(n) /\ ~GetQueue(n) /\ ~PutQueue(n) /\ ~AddEvent(n)
      /\ ~VisitedAll(n) /\ ~IsEmpty(n) /\ ~Detach(n) /\ \A q \in Ids : ~Visit(n, q)
  BY DEF SessionKnown, SessionUnknown, GetMap, clearUserEventQueue, Probe, Install, GetQueue,
     PutQueue, AddEvent, VisitedAll, IsEmpty, Detach, Visit
<1>9. QED
  BY <1>2, <1>3, <1>4, <1>5, <1>6, <1>7, <1>8 DEF HandlerStep

LEMMA LeaveStep ==
  ASSUME LInv, NEW n \in Ids, HandlerStep(n)
  PROVE  LeaveInv'
<1> USE IdsAreNumbers
<1>1. /\ QInv /\ NewQueues /\ OneMap /\ RetiresOwn /\ Leaving
      /\ handlers[n].at \notin Finished
      /\ userEventMaps \in [Ids -> [Users -> Ids \cup {Null}]]
      /\ published' = published
      /\ \A x \in Ids \ {n} : StaysAt(x)
  BY StepsUnfinished, WhatChanges, OthersStay DEF LInv, LeaveInv, QInv, QueuesTypeOK
<1>0. ASSUME NEW m \in Ids, NEW u \in Users, NEW q \in Ids, InPlace(m, u, q)
      PROVE  published[q].uid = u
  <2>1. userEventMaps[m][u] # Null /\ MapsOwned
    BY <1>0 DEF InPlace, LInv, OwnInv
  <2>2. MadeFor(userEventMaps[m][u], published[m].sid, u)
    BY <2>1 DEF MapsOwned
  <2>3. QED
    BY <1>0, <2>2 DEF MadeFor, InPlace
<1>2. ASSUME NEW m \in Ids, NEW u \in Users, NEW q \in Ids, InPlace(m, u, q)'
      PROVE  \/ InPlace(m, u, q)
             \/ /\ q = n /\ handlers[n].at \in {"install", "put"} /\ handlers'[n] = Idle("done")
                /\ userEventMaps' = [userEventMaps EXCEPT ![m][u] = n]
  <2>1. CASE \E k \in Ids, v \in Users : userEventMaps' = [userEventMaps EXCEPT ![k][v] = Null]
    BY <1>1, <1>2, <2>1 DEF InPlace
  <2>2. ASSUME NEW k \in Ids, NEW v \in Users,
               userEventMaps' = [userEventMaps EXCEPT ![k][v] = n], k # m \/ v # u
        PROVE  InPlace(m, u, q)
    BY <1>1, <1>2, <2>2 DEF InPlace
  <2>3. ASSUME userEventMaps' = [userEventMaps EXCEPT ![m][u] = n] PROVE q = n
    BY <1>1, <1>2, <2>3 DEF InPlace
  <2>4. userEventMaps' = userEventMaps => InPlace(m, u, q)
    BY <1>2 DEF InPlace
  <2>5. QED
    BY <1>1, <2>1, <2>2, <2>3, <2>4, PlacesChange
<1>3. ASSUME NEW x \in Ids, NEW q \in Ids,
             handlers'[x].queue = q \/ q \in handlers'[x].todo
      PROVE  \/ /\ handlers'[x].map = handlers[x].map
                /\ handlers[x].queue = q \/ q \in handlers[x].todo
             \/ \E u \in Users : handlers'[x].map \in Ids /\ InPlace(handlers'[x].map, u, q)
             \/ PutQueue(n) /\ q = n /\ x # n /\ handlers'[x].map = handlers[n].map
  <2>1. CASE x # n
    <3>1. CASE handlers'[x] = handlers[x]
      BY <1>3, <3>1
    <3>2. CASE /\ PutQueue(n) /\ Shown(x, n) /\ StaysAt(x)
               /\ handlers'[x].todo = handlers[x].todo \cup {n}
      BY <1>3, <2>1, <3>2 DEF StaysAt, Shown
    <3>3. QED
      BY <1>1, <2>1, <3>1, <3>2, OthersStay
  <2>2. CASE x = n
    <3>1. handlers'[n].map \in Ids \cup {Null}
      BY <1>1, TypeStep DEF QInv, QueuesTypeOK, Handler
    <3>2. CASE q = handlers'[n].queue
      <4>1. /\ handlers'[n].map = handlers[n].map
            /\ \/ q \in {Null, handlers[n].queue} \/ q \in handlers[n].todo
               \/ /\ published[n].uid \in Users /\ handlers[n].map \in Ids
                  /\ q = userEventMaps[handlers[n].map][published[n].uid]
        BY <1>1, <3>2, HandlersMove
      <4>2. QED
        BY <2>2, <4>1 DEF InPlace
    <3>3. CASE q \in handlers'[n].todo
      <4>1. \/ q \in handlers[n].todo /\ handlers'[n].map = handlers[n].map
            \/ handlers'[n].map \in Ids /\ q \in QueuesOf(handlers'[n].map)
        BY <1>1, <3>1, <3>3, HandlersMove
      <4>2. QED
        BY <2>2, <4>1 DEF InPlace, QueuesOf
    <3>4. QED
      BY <1>3, <2>2, <3>2, <3>3
  <2>3. QED
    BY <2>1, <2>2
<1>4. NewQueues'
  <2> SUFFICES ASSUME NEW q \in Ids, handlers'[q].at \notin Finished
               PROVE  /\ \A m \in Ids, u \in Users : ~InPlace(m, u, q)'
                      /\ \A x \in Ids : handlers'[x].queue # q /\ q \notin handlers'[x].todo
                      /\ eventQueues'[q].active
    BY DEF NewQueues
  <2>1. /\ \A m \in Ids, u \in Users : ~InPlace(m, u, q)
        /\ \A x \in Ids : handlers[x].queue # q /\ q \notin handlers[x].todo
        /\ eventQueues[q].active
    BY <1>1 DEF NewQueues, StaysAt
  <2>2. \A m \in Ids, u \in Users : ~InPlace(m, u, q)'
    BY <1>2, <2>1 DEF Idle, Finished
  <2>3. \A x \in Ids : handlers'[x].queue # q /\ q \notin handlers'[x].todo
    <3>1. PutQueue(n) => q # n
      BY PutMoves, <1>1 DEF Idle, Finished
    <3>2. QED
      BY <1>3, <2>1, <3>1
  <2>4. eventQueues'[q].active
    BY <1>1, <2>1, ActiveChanges
  <2>5. QED
    BY <2>2, <2>3, <2>4
<1>5. OneMap'
  <2> SUFFICES ASSUME NEW q \in Ids, NEW m \in Ids, NEW u \in Users, InPlace(m, u, q)'
               PROVE  /\ \A k \in Ids, v \in Users : InPlace(k, v, q)' => k = m
                      /\ \A x \in Ids : handlers'[x].queue = q \/ q \in handlers'[x].todo =>
                                         handlers'[x].map = m
    BY DEF OneMap
  <2>1. CASE InPlace(m, u, q)
    <3>1. /\ \A k \in Ids, v \in Users : InPlace(k, v, q) => k = m
          /\ \A x \in Ids :
               handlers[x].queue = q \/ q \in handlers[x].todo => handlers[x].map = m
          /\ q = n => FALSE
      BY <1>1, <2>1 DEF OneMap, NewQueues
    <3>2. QED
      BY <1>2, <1>3, <3>1
  <2>2. CASE ~InPlace(m, u, q)
    <3>1. q = n /\ userEventMaps' = [userEventMaps EXCEPT ![m][u] = n]
      BY <1>2, <2>2
    <3>2. /\ \A k \in Ids, v \in Users : ~InPlace(k, v, q)
          /\ \A x \in Ids : handlers[x].queue # q /\ q \notin handlers[x].todo
      BY <1>1, <3>1 DEF NewQueues
    <3>3. \A k \in Ids, v \in Users : InPlace(k, v, q)' => k = m
      BY <1>1, <3>1, <3>2 DEF InPlace
    <3>5. PutQueue(n) => handlers[n].map = m
      <4> SUFFICES ASSUME PutQueue(n) PROVE handlers[n].map = m
        OBVIOUS
      <4>1. handlers[n].map \in Ids /\ userEventMaps'[m][u] = n /\ userEventMaps[m][u] # n
        BY <1>1, <2>2, <3>1, PlaceNames
           DEF PutQueue, At, QInv, QueuesTypeOK, Handler, InPlace
      <4>2. QED
        BY <1>1, <4>1 DEF PutQueue, SetQueueIn
    <3>4. QED
      BY <1>3, <3>2, <3>3, <3>5
  <2>3. QED
    BY <2>1, <2>2
<1>6. RetiresOwn'
  <2> SUFFICES ASSUME NEW x \in Ids, x \in DOMAIN published, published[x].type \in Creates,
                      handlers'[x].queue # Null
               PROVE  published[handlers'[x].queue].uid = published[x].uid
    BY <1>1 DEF RetiresOwn
  <2>1. handlers'[x].queue \in Ids
    BY <1>1, TypeStep DEF QInv, QueuesTypeOK, Handler
  <2>2. CASE handlers'[x].queue = handlers[x].queue
    BY <1>1, <2>1, <2>2 DEF RetiresOwn
  <2>3. CASE handlers'[x].queue # handlers[x].queue
    <3>1. x = n
      BY <1>1, <2>3 DEF StaysAt
    <3>2. PICK q \in Ids : q = handlers'[n].queue /\ q # Null
      BY <2>1, <3>1
    <3>3. q # handlers[n].queue /\ published[n].type \in Creates
      BY <2>3, <3>1, <3>2
    <3>4. /\ published[n].uid \in Users /\ handlers[n].map \in Ids
          /\ q = userEventMaps[handlers[n].map][published[n].uid]
      BY <1>1, <3>2, <3>3, HandlersMove
    <3>5. InPlace(handlers[n].map, published[n].uid, q)
      BY <3>4 DEF InPlace
    <3>6. published[q].uid = published[n].uid
      BY <1>0, <3>4, <3>5
    <3>7. QED
      BY <3>1, <3>2, <3>6
  <2>4. QED
    BY <2>2, <2>3
<1>7. Leaving'
  <2> SUFFICES ASSUME NEW m \in Ids, NEW q \in Ids, NEW u \in Users,
                      InPlace(m, u, q)', ~eventQueues'[q].active
               PROVE  \E x \in Ids : Empties(x, m, u)'
    BY DEF Leaving
  <2>1. InPlace(m, u, q)
    <3>1. CASE q = n /\ handlers[n].at \in {"install", "put"}
      <4>1. eventQueues[n].active /\ ~Disable(n)
        BY <1>1, <3>1 DEF NewQueues, Disable, At
      <4>2. QED
        BY <1>1, <3>1, <4>1, ActiveChanges
    <3>2. QED
      BY <1>2, <3>1
  <2>2. CASE ~eventQueues[q].active
    <3>1. PICK x \in Ids : Empties(x, m, u)
      BY <1>1, <2>1, <2>2 DEF Leaving
    <3>2. CASE x # n
      BY <1>1, <3>1, <3>2 DEF Empties, StaysAt
    <3>3. CASE x = n
      BY <1>1, <3>1, <3>3, EmptiesStays DEF InPlace
    <3>4. QED
      BY <3>2, <3>3
  <2>3. CASE eventQueues[q].active
    <3>1. Disable(n) /\ q = handlers[n].queue
      BY <1>1, <2>3, ActiveChanges
    <3>2. handlers[n].map = m
      BY <1>1, <2>1, <3>1 DEF OneMap
    <3>3. published[q].uid = u
      BY <1>0, <2>1
    <3>4. /\ n \in DOMAIN published /\ handlers'[n].map = m
          /\ \/ published[n].type \in Creates /\ handlers'[n].at = "remove"
             \/ published[n].type \in Clears /\ handlers'[n].at = "sweep"
      BY <1>1, <3>1, <3>2, GotoMoves, TypeDistinct DEF Disable, At, Carries
    <3>5. published[n].type \in Creates => published[n].uid = u
      BY <1>1, <3>1, <3>3, <3>4 DEF RetiresOwn
    <3>6. Empties(n, m, u)'
      BY <1>1, <3>4, <3>5 DEF Empties
    <3>7. QED
      BY <3>6
  <2>4. QED
    BY <2>2, <2>3
<1>8. QED
  BY <1>4, <1>5, <1>6, <1>7 DEF LeaveInv

LEMMA LeaveInit == ListenersInit => LeaveInv
<1> SUFFICES ASSUME ListenersInit PROVE LeaveInv
  OBVIOUS
<1>1. /\ \A m \in Ids, u \in Users : userEventMaps[m][u] = Null
      /\ \A n \in Ids : handlers[n].queue = Null /\ handlers[n].todo = {}
      /\ \A q \in Ids : eventQueues[q].active
      /\ published = <<>>
  BY DEF ListenersInit, QueuesInit, Idle
<1>2. QED
  BY <1>1, IdsAreNumbers DEF LeaveInv, NewQueues, OneMap, RetiresOwn, Leaving, InPlace

LEMMA LeaveMulticast ==
  ASSUME LInv, NEW ev, MulticastEvent(ev)
  PROVE  LeaveInv'
<1>1. /\ DOMAIN published \subseteq DOMAIN published'
      /\ \A n \in DOMAIN published : published'[n] = published[n]
      /\ UNCHANGED queueVars
  BY PublishedStays DEF LInv
<1>2. \A n \in Ids : handlers[n].queue # Null =>
        n \in DOMAIN published /\ handlers[n].queue \in DOMAIN published
  BY DEF LInv, OwnInv, HeldOwned, OfSession
<1>3. NewQueues' /\ OneMap'
  BY <1>1 DEF LInv, LeaveInv, NewQueues, OneMap, InPlace, queueVars
<1>4. RetiresOwn'
  BY <1>1, <1>2 DEF LInv, LeaveInv, RetiresOwn, queueVars
<1>5. Leaving'
  <2>1. \A n, m \in Ids, u \in Users : Empties(n, m, u) => Empties(n, m, u)'
    BY <1>1 DEF Empties, queueVars
  <2>2. QED
    BY <1>1, <2>1 DEF LInv, LeaveInv, Leaving, InPlace, queueVars
<1>6. QED
  BY <1>3, <1>4, <1>5 DEF LeaveInv

LEMMA LeaveNext == LInv /\ [ListenersNext]_listenerVars => LInv'
<1> SUFFICES ASSUME LInv, [ListenersNext]_listenerVars PROVE LeaveInv'
  BY TypeNext, OwnNext DEF LInv
<1>1. CASE UNCHANGED listenerVars
  BY <1>1 DEF listenerVars, queueVars, LInv, LeaveInv, NewQueues, OneMap, RetiresOwn, Leaving,
     InPlace, Empties
<1>2. QED
  BY <1>1, LeaveMulticast, LeaveStep DEF ListenersNext

LEMMA LeaveProperty == LInv => DisabledQueuesAreLeaving
<1> SUFFICES ASSUME LInv, NEW s \in Sessions, NEW u \in Users, Registered(s, u) # Null,
                    ~eventQueues[Registered(s, u)].active
             PROVE  \E n \in Ids : Removes(n, s, u)
  BY DEF DisabledQueuesAreLeaving
<1>1. /\ sessionUserEventMap[s] \in Ids /\ Registered(s, u) \in Ids
      /\ InPlace(sessionUserEventMap[s], u, Registered(s, u))
  BY DEF LInv, QInv, QueuesTypeOK, Registered, InPlace
<1>2. PICK n \in Ids : Empties(n, sessionUserEventMap[s], u)
  BY <1>1 DEF LInv, LeaveInv, Leaving
<1>3. QED
  BY <1>2 DEF Empties, Removes

(***************************************************************************)
(* Where a user finds a disabled queue, the handler that disabled it still *)
(* has to take it away, whatever other handlers do to the map of the       *)
(* session meanwhile (createUserEventQueue, clearSession).                 *)
(***************************************************************************)
THEOREM DisabledQueuesLeave == ListenersSpec => []DisabledQueuesAreLeaving
<1>1. ListenersInit => LInv
  BY TypeInit, OwnInit, LeaveInit DEF LInv
<1>2. QED
  BY <1>1, LeaveNext, LeaveProperty, PTL DEF ListenersSpec

-----------------------------------------------------------------------------
(***************************************************************************)
(* What is not in use yet: the handlers of events still to be published,   *)
(* and the map and the queue a handler will bring along.                   *)
(***************************************************************************)
EventsInBound == DOMAIN published \subseteq Ids

NewHandlers == \A n \in Ids : n \notin DOMAIN published => handlers[n] = Idle("start")

FinishedIdle == \A n \in Ids : Handled(n) => handlers[n] = Idle(handlers[n].at)

NewMaps ==
  \A m \in Ids :
    ~Handled(m) =>
      /\ \A u \in Users : userEventMaps[m][u] = Null
      /\ \A s \in Sessions : sessionUserEventMap[s] # m
      /\ \A n \in Ids : handlers[n].map # m
      /\ eventQueues[m].events = {}

TidyInv == EventsInBound /\ NewHandlers /\ FinishedIdle /\ NewMaps

LEMMA TidyInit == ListenersInit => TidyInv
<1> SUFFICES ASSUME ListenersInit PROVE TidyInv
  OBVIOUS
<1>1. /\ \A n \in Ids : handlers[n] = Idle("start")
      /\ \A m \in Ids, u \in Users : userEventMaps[m][u] = Null
      /\ \A s \in Sessions : sessionUserEventMap[s] = Null
      /\ \A q \in Ids : eventQueues[q].events = {}
      /\ DOMAIN published = {}
  BY DEF ListenersInit, QueuesInit
<1>2. EventsInBound
  BY <1>1 DEF EventsInBound
<1>3. \A n \in Ids : handlers[n].at = "start" /\ handlers[n].map = Null
  BY <1>1 DEF Idle
<1>4. NewHandlers /\ FinishedIdle
  BY <1>1, <1>3 DEF NewHandlers, FinishedIdle, Handled, Finished
<1>5. NewMaps
  BY <1>1, <1>3, IdsAreNumbers DEF NewMaps
<1>6. QED
  BY <1>2, <1>4, <1>5 DEF TidyInv

LEMMA TidyMulticast ==
  ASSUME LInv, TidyInv, NEW ev, MulticastEvent(ev)
  PROVE  TidyInv'
<1>1. DOMAIN published \subseteq DOMAIN published' /\ UNCHANGED queueVars
  BY PublishedStays DEF LInv
<1>2. EventsInBound'
  <2>1. published \in Seq(PokerEvent) /\ MaxEvents \in Nat
    BY DEF LInv, QInv, QueuesTypeOK
  <2>2. Len(published) < MaxEvents /\ published' = Append(published, ev)
    BY DEF MulticastEvent
  <2>3. DOMAIN published' = 1 .. Len(published) + 1
    BY <2>1, <2>2
  <2>4. Len(published) \in Nat
    BY <2>1
  <2>5. QED
    BY <2>1, <2>2, <2>3, <2>4 DEF EventsInBound, Ids
<1>3. QED
  BY <1>1, <1>2 DEF TidyInv, NewHandlers, FinishedIdle, NewMaps, Handled, queueVars

\* A handler that returns keeps nothing.
LEMMA FinishesIdle ==
  ASSUME QInv, NEW n \in Ids, HandlerStep(n), handlers'[n].at \in Finished
  PROVE  handlers'[n] = Idle(handlers'[n].at)
<1> USE PlaceNames DEF Carries
<1>1. ASSUME NEW l, Finish(n, l) PROVE handlers'[n] = Idle(handlers'[n].at)
  BY <1>1, FinishMoves
<1>2. ASSUME NEW l \in Places \ Finished, Goto(n, l) PROVE FALSE
  BY <1>2, GotoMoves
<1>3. CASE GetMap(n) \/ GetQueue(n)
  <2>1. CASE handlers'[n] = Idle("failed")
    BY <2>1 DEF Idle
  <2>2. CASE handlers'[n].at \in {"probe", "visit", "isEmpty", "clear"}
    BY <2>2
  <2>3. CASE GetMap(n)
    BY <2>1, <2>2, <2>3, GetMapMoves
  <2>4. CASE GetQueue(n)
    BY <2>1, <2>2, <2>4, GetQueueMoves
  <2>5. QED
    BY <1>3, <2>3, <2>4
<1>4. CASE PutQueue(n)
  <2>1. handlers'[n] = Idle("done")
    BY <1>4, PutMoves
  <2>2. handlers'[n].at = "done"
    BY <2>1 DEF Idle
  <2>3. QED
    BY <2>1, <2>2
<1>5. ~IsEmpty(n) /\ ~SweptAll(n) /\ \A u \in Users : ~Wipe(n, u)
  BY ClearingMoves
<1>6. ASSUME NEW q \in Ids, Visit(n, q) \/ Sweep(n, q) PROVE FALSE
  BY <1>6, MeetMoves, MissMoves DEF Visit, Sweep, At
<1>7. CASE SessionKnown(n) \/ SessionUnknown(n) \/ clearUserEventQueue(n)
  BY <1>1, <1>2, <1>7 DEF SessionKnown, SessionUnknown, clearUserEventQueue
<1>8. CASE Install(n) \/ VisitedAll(n) \/ Detach(n)
  BY <1>1, <1>8 DEF Install, VisitedAll, Detach
<1>9. CASE Probe(n) \/ ClearEvents(n) \/ Disable(n) \/ RemoveQueue(n) \/ AddEvent(n)
  BY <1>2, <1>9 DEF Probe, ClearEvents, Disable, RemoveQueue, AddEvent
<1>10. QED
  BY <1>3, <1>4, <1>5, <1>6, <1>7, <1>8, <1>9 DEF HandlerStep

\* One that has nothing in hand is shown nothing.
LEMMA OthersRest ==
  ASSUME QInv, NEW n \in Ids, HandlerStep(n), NEW x \in Ids \ {n},
         handlers[x].at \notin {"visit", "add", "sweep", "clear", "disable"}
  PROVE  handlers'[x] = handlers[x]
BY OthersStay DEF Shown, Traversing

LEMMA TidyStep ==
  ASSUME LInv, TidyInv, NEW n \in Ids, HandlerStep(n)
  PROVE  TidyInv'
<1> USE IdsAreNumbers
<1>1. /\ QInv /\ NewQueues /\ NewHandlers /\ FinishedIdle /\ NewMaps
      /\ n \in DOMAIN published /\ published' = published
      /\ ~Handled(n)
      /\ \A x \in Ids \ {n} : StaysAt(x)
      /\ sessionUserEventMap \in [Sessions -> Ids \cup {Null}]
      /\ userEventMaps \in [Ids -> [Users -> Ids \cup {Null}]]
      /\ eventQueues \in [Ids -> [events : SUBSET Ids, active : BOOLEAN]]
  BY HandlersMove, OthersStay, StepsUnfinished, WhatChanges
     DEF LInv, LeaveInv, TidyInv, Handled, QInv, QueuesTypeOK
<1>2. NewHandlers'
  <2>1. \A x \in Ids : x \notin DOMAIN published => x # n /\ handlers[x].at = "start"
    BY <1>1 DEF NewHandlers, Idle
  <2>2. QED
    BY <1>1, <2>1, OthersRest DEF NewHandlers
<1>3. FinishedIdle'
  <2>1. ASSUME NEW x \in Ids \ {n}, Handled(x)' PROVE handlers'[x] = Idle(handlers'[x].at)
    <3>1. Handled(x)
      BY <1>1, <2>1 DEF Handled, StaysAt
    <3>2. handlers'[x] = handlers[x]
      BY <1>1, <3>1, OthersRest DEF Handled, Finished
    <3>3. QED
      BY <1>1, <3>1, <3>2 DEF FinishedIdle
  <2>2. QED
    BY <1>1, <2>1, FinishesIdle DEF FinishedIdle, Handled
<1>4. ASSUME NEW m \in Ids, ~Handled(m)' PROVE ~Handled(m)
  BY <1>1, <1>4 DEF Handled, StaysAt
<1>5. ASSUME NEW m \in Ids, ~Handled(m)', NEW u \in Users PROVE userEventMaps'[m][u] = Null
  <2>1. userEventMaps[m][u] = Null /\ \A x \in Ids : handlers[x].map # m
    BY <1>1, <1>4, <1>5 DEF NewMaps
  <2>2. CASE Install(n)
    <3>1. m # n
      BY <1>1, <1>5, <2>2, FinishMoves DEF Install, Carries, Handled, Finished
    <3>2. QED
      BY <1>1, <2>1, <2>2, <3>1 DEF Install
  <2>3. CASE RemoveQueue(n) \/ PutQueue(n)
    BY <1>1, <2>1, <2>3 DEF RemoveQueue, PutQueue, SetQueueIn
  <2>4. ASSUME NEW v \in Users, Wipe(n, v) PROVE userEventMaps'[m][u] = Null
    BY <1>1, <2>1, <2>4 DEF Wipe, SetQueueIn
  <2>5. QED
    BY <2>1, <2>2, <2>3, <2>4, WhatChanges
<1>6. ASSUME NEW m \in Ids, ~Handled(m)', NEW s \in Sessions PROVE sessionUserEventMap'[s] # m
  <2>1. sessionUserEventMap[s] # m
    BY <1>1, <1>4, <1>6 DEF NewMaps
  <2>2. CASE Install(n)
    <3>1. m # n
      BY <1>1, <1>6, <2>2, FinishMoves DEF Install, Carries, Handled, Finished
    <3>2. QED
      BY <1>1, <2>1, <2>2, <3>1 DEF Install
  <2>3. CASE Detach(n)
    BY <1>1, <2>1, <2>3 DEF Detach
  <2>4. QED
    BY <2>1, <2>2, <2>3, WhatChanges
<1>7. ASSUME NEW m \in Ids, ~Handled(m)', NEW x \in Ids PROVE handlers'[x].map # m
  <2>1. handlers[x].map # m /\ MapOf(n) # m
    <3>1. published[n] \in PokerEvent
      BY <1>1 DEF QInv, QueuesTypeOK
    <3>2. published[n].sid \in Sessions
      BY <3>1 DEF PokerEvent
    <3>3. QED
      BY <1>1, <1>4, <1>7, <3>2 DEF NewMaps, MapOf
  <2>2. QED
    BY <1>1, <1>7, <2>1, HandlersMove DEF StaysAt, NewMaps
<1>8. ASSUME NEW m \in Ids, ~Handled(m)' PROVE eventQueues'[m].events = {}
  <2>1. eventQueues[m].events = {} /\ handlers[n].queue # m
    BY <1>1, <1>4, <1>8 DEF NewMaps, NewQueues, Handled
  <2>2. CASE ClearEvents(n)
    BY <1>1, <2>1, <2>2 DEF ClearEvents
  <2>3. CASE Disable(n)
    BY <1>1, <2>1, <2>3 DEF Disable
  <2>4. CASE AddEvent(n)
    BY <1>1, <2>1, <2>4 DEF AddEvent
  <2>5. QED
    BY <2>1, <2>2, <2>3, <2>4, WhatChanges
<1>9. NewMaps'
  BY <1>5, <1>6, <1>7, <1>8 DEF NewMaps
<1>10. QED
  BY <1>1, <1>2, <1>3, <1>9 DEF TidyInv, EventsInBound

LEMMA TidyNext == LInv /\ TidyInv /\ [ListenersNext]_listenerVars => TidyInv'
<1> SUFFICES ASSUME LInv, TidyInv, [ListenersNext]_listenerVars PROVE TidyInv'
  OBVIOUS
<1>1. CASE UNCHANGED listenerVars
  BY <1>1 DEF listenerVars, queueVars, TidyInv, EventsInBound, NewHandlers, FinishedIdle,
     NewMaps, Handled
<1>2. QED
  BY <1>1, TidyMulticast, TidyStep DEF ListenersNext

-----------------------------------------------------------------------------
(***************************************************************************)
(* The inductive form of FailuresFollowRemovals: whoever took away what a  *)
(* handler has seen and is about to get, has come past the removal.        *)
(***************************************************************************)
FindsNull(n) ==
  \/ handlers[n].at = "failed"
  \/ handlers[n].at = "getMap" /\ MapOf(n) = Null
  \/ /\ published[n].type \in Creates /\ handlers[n].at = "getQueue"
     /\ QueueIn(n, published[n].uid) = Null

NullsFollow ==
  \A n \in DOMAIN published :
    FindsNull(n) => \E m \in DOMAIN published \ {n} : HasRemoved(m, n)

LEMMA RemovedStays ==
  ASSUME QInv, NEW x \in Ids, HandlerStep(x), NEW n, NEW m \in Ids, HasRemoved(m, n)
  PROVE  HasRemoved(m, n)'
<1> USE TypeDistinct, PlaceNames DEF HasRemoved, Carries, At
<1>1. published' = published
  BY WhatChanges
<1>2. CASE m # x
  BY <1>1, <1>2, OthersStay DEF StaysAt
<1>3. CASE m = x
  <2>1. handlers[x].at \in {"wipe", "detach", "put"}
    BY <1>3, StepsUnfinished DEF Finished
  <2>2. CASE PutQueue(x) \/ Detach(x)
    BY <1>1, <1>3, <2>2, PutMoves, FinishMoves DEF PutQueue, Detach, Idle
  <2>3. ASSUME NEW u \in Users, Wipe(x, u) PROVE HasRemoved(m, n)'
    <3>1. handlers'[x].at \in {"detach", "wipe"}
      BY <2>3, ClearingMoves
    <3>2. published[x].type \in Clears
      BY <2>3 DEF Wipe
    <3>3. QED
      BY <1>1, <1>3, <3>1, <3>2
  <2>4. /\ ~SessionKnown(x) /\ ~SessionUnknown(x) /\ ~GetMap(x) /\ ~clearUserEventQueue(x)
        /\ ~Install(x) /\ ~Probe(x) /\ ~GetQueue(x) /\ ~ClearEvents(x) /\ ~Disable(x)
        /\ ~RemoveQueue(x) /\ ~AddEvent(x) /\ ~VisitedAll(x) /\ ~IsEmpty(x) /\ ~SweptAll(x)
        /\ \A q \in Ids : ~Visit(x, q) /\ ~Sweep(x, q)
    BY <2>1 DEF SessionKnown, SessionUnknown, GetMap, clearUserEventQueue, Install, Probe,
       GetQueue, ClearEvents, Disable, RemoveQueue, AddEvent, VisitedAll, IsEmpty, SweptAll,
       Visit, Sweep
  <2>5. QED
    BY <2>2, <2>3, <2>4 DEF HandlerStep
<1>4. QED
  BY <1>2, <1>3

\* A handler does not come to a call on null by a step of its own.
LEMMA NoOwnNulls ==
  ASSUME QInv, NEW n \in Ids, HandlerStep(n), FindsNull(n)'
  PROVE  FindsNull(n)
<1> USE TypeDistinct, PlaceNames DEF FindsNull, Carries, At
<1>1. published' = published
  BY WhatChanges
<1>2. CASE SessionKnown(n)
  BY <1>1, <1>2, GotoMoves DEF SessionKnown, MapOf
<1>3. CASE SessionUnknown(n)
  BY <1>1, <1>3, GotoMoves, FinishMoves DEF SessionUnknown
<1>4. CASE GetMap(n)
  BY <1>4, GetMapMoves DEF GetMap
<1>5. CASE clearUserEventQueue(n)
  BY <1>5, FinishMoves DEF clearUserEventQueue
<1>6. CASE Install(n) \/ VisitedAll(n) \/ Detach(n)
  BY <1>6, FinishMoves DEF Install, VisitedAll, Detach
<1>7. CASE PutQueue(n)
  BY <1>7, PutMoves DEF Idle
<1>8. CASE Probe(n)
  <2>1. /\ Goto(n, IF QueueIn(n, published[n].uid) = Null THEN "put" ELSE "getQueue")
        /\ userEventMaps' = userEventMaps
    BY <1>8 DEF Probe
  <2>2. /\ handlers'[n].map = handlers[n].map
        /\ handlers'[n].at = IF QueueIn(n, published[n].uid) = Null THEN "put" ELSE "getQueue"
    BY <2>1, GotoMoves
  <2>3. QED
    BY <1>1, <2>1, <2>2 DEF QueueIn
<1>9. CASE GetQueue(n)
  BY <1>9, GetQueueMoves DEF GetQueue
<1>10. CASE ClearEvents(n) \/ Disable(n) \/ RemoveQueue(n) \/ AddEvent(n)
  BY <1>10, GotoMoves DEF ClearEvents, Disable, RemoveQueue, AddEvent
<1>11. CASE IsEmpty(n) \/ SweptAll(n) \/ \E u \in Users : Wipe(n, u)
  BY <1>11, ClearingMoves
<1>12. ASSUME NEW q \in Ids, Visit(n, q) \/ Sweep(n, q) PROVE FALSE
  BY <1>12, MeetMoves, MissMoves DEF Visit, Sweep
<1>13. QED
  BY <1>2, <1>3, <1>4, <1>5, <1>6, <1>7, <1>8, <1>9, <1>10, <1>11, <1>12 DEF HandlerStep

\* What another handler finds to be null by this step, this step has removed.
LEMMA OthersNulls ==
  ASSUME QInv, OwnInv, NEW x \in Ids, HandlerStep(x), NEW n \in Ids \ {x},
         n \in DOMAIN published, FindsNull(n)', ~FindsNull(n)
  PROVE  HasRemoved(x, n)'
<1> USE IdsAreNumbers, TypeDistinct, PlaceNames
<1>1. /\ published' = published /\ x \in DOMAIN published /\ StaysAt(n)
      /\ published[n].sid \in Sessions /\ published[x].sid \in Sessions
  <2>1. published' = published /\ x \in DOMAIN published /\ StaysAt(n)
    BY WhatChanges, HandlersMove, OthersStay
  <2>2. published[n] \in PokerEvent /\ published[x] \in PokerEvent
    BY <2>1 DEF QInv, QueuesTypeOK
  <2>3. QED
    BY <2>1, <2>2 DEF PokerEvent
<1>2. CASE handlers[n].at = "getMap"
  <2>1. MapOf(n)' = Null /\ MapOf(n) # Null
    BY <1>1, <1>2 DEF FindsNull, StaysAt
  <2>2. ~Install(x)
    BY <1>1, <2>1 DEF Install, MapOf, QInv, QueuesTypeOK
  <2>3. Detach(x)
    BY <1>1, <2>1, <2>2, WhatChanges DEF MapOf
  <2>4. published[x].sid = published[n].sid
    BY <1>1, <2>1, <2>3 DEF Detach, MapOf, QInv, QueuesTypeOK
  <2>5. handlers'[x].at = "done" /\ published[x].type \in Clears
    BY <2>3, FinishMoves DEF Detach, At, Carries
  <2>6. QED
    BY <1>1, <2>4, <2>5 DEF HasRemoved
<1>3. CASE handlers[n].at = "getQueue"
  <2> DEFINE u == published[n].uid
             m == handlers[n].map
  <2>1. /\ published[n].type \in Creates /\ u \in Users
        /\ userEventMaps'[m][u] = Null /\ userEventMaps[m][u] # Null
    BY <1>1, <1>3 DEF FindsNull, StaysAt, QueueIn, QInv, AuthorsAreUsers
  <2>2. handlers[n] \in Handler /\ m # Null
    BY <1>3 DEF QInv, QueuesTypeOK
  <2>3. m \in Ids /\ userEventMaps \in [Ids -> [Users -> Ids \cup {Null}]]
    BY <2>2 DEF QInv, QueuesTypeOK, Handler
  <2>4. ASSUME NEW v, NEW q, SetQueueIn(x, v, q), handlers[x].map # Null,
               published[x].type \in Creates \cup Clears
        PROVE  q = Null /\ v = u /\ handlers[x].map = m /\ published[x].sid = published[n].sid
    <3>1. q = Null /\ v = u /\ handlers[x].map = m
      BY <2>1, <2>3, <2>4 DEF SetQueueIn
    <3>2. QED
      BY <2>2, <2>4, <3>1 DEF OwnInv, HeldOwned, OfSession
  <2>5. ~Install(x)
    BY <1>1, <2>1, <2>3 DEF Install
  <2>6. handlers[x].at \in {"put", "remove", "wipe"} => handlers[x].map # Null
    BY DEF QInv, QueuesTypeOK
  <2>7. ~PutQueue(x)
    BY <2>4, <2>6 DEF PutQueue, At
  <2>8. CASE RemoveQueue(x)
    <3>1. published[x].uid = u /\ published[x].sid = published[n].sid
      BY <2>4, <2>6, <2>8 DEF RemoveQueue, At
    <3>2. handlers'[x].at = "put" /\ published[x].type \in Creates
      BY <2>8, GotoMoves DEF RemoveQueue, At, Carries
    <3>3. QED
      BY <1>1, <2>1, <3>1, <3>2 DEF HasRemoved
  <2>9. ASSUME NEW v \in Users, Wipe(x, v) PROVE HasRemoved(x, n)'
    <3>1. published[x].sid = published[n].sid /\ published[x].type \in Clears
      BY <2>4, <2>6, <2>9 DEF Wipe, At
    <3>2. handlers'[x].at \in {"wipe", "detach"}
      BY <2>9, ClearingMoves DEF Carries
    <3>3. QED
      BY <1>1, <3>1, <3>2 DEF HasRemoved
  <2>10. QED
    BY <2>1, <2>5, <2>7, <2>8, <2>9, WhatChanges
<1>4. QED
  BY <1>1, <1>2, <1>3 DEF FindsNull, StaysAt

LEMMA NullsNext ==
  ASSUME LInv, TidyInv, NullsFollow, [ListenersNext]_listenerVars
  PROVE  NullsFollow'
<1>1. QInv /\ OwnInv /\ NewHandlers /\ DOMAIN published \subseteq Ids
  BY DEF LInv, TidyInv, EventsInBound
<1>2. CASE UNCHANGED listenerVars
  BY <1>2 DEF listenerVars, queueVars, NullsFollow, FindsNull, HasRemoved, MapOf, QueueIn
<1>3. ASSUME NEW x \in Ids, HandlerStep(x) PROVE NullsFollow'
  <2>1. published' = published /\ x \in DOMAIN published
    BY <1>1, <1>3, WhatChanges, HandlersMove
  <2>2. ASSUME NEW n \in DOMAIN published, FindsNull(n)'
        PROVE  \E m \in DOMAIN published \ {n} : HasRemoved(m, n)'
    <3>1. CASE FindsNull(n)
      BY <1>1, <1>3, <3>1, RemovedStays DEF NullsFollow
    <3>2. CASE ~FindsNull(n)
      <4>1. n \in Ids \ {x}
        BY <1>1, <1>3, <2>2, <3>2, NoOwnNulls
      <4>2. QED
        BY <1>1, <1>3, <2>1, <2>2, <3>2, <4>1, OthersNulls
    <3>3. QED
      BY <3>1, <3>2
  <2>3. QED
    BY <2>1, <2>2 DEF NullsFollow
<1>4. ASSUME NEW ev, MulticastEvent(ev) PROVE NullsFollow'
  <2>1. /\ DOMAIN published \subseteq DOMAIN published' /\ UNCHANGED queueVars
        /\ \A n \in DOMAIN published : published'[n] = published[n]
    BY <1>1, <1>4, PublishedStays
  <2>2. ASSUME NEW n \in DOMAIN published', FindsNull(n)'
        PROVE  n \in DOMAIN published /\ FindsNull(n)
    <3>1. n \in Ids
      BY <1>4, TidyMulticast DEF TidyInv, EventsInBound
    <3>2. handlers'[n].at # "start"
      BY <2>2 DEF FindsNull
    <3>3. n \in DOMAIN published
      BY <1>1, <2>1, <3>1, <3>2 DEF NewHandlers, Idle, queueVars
    <3>4. QED
      BY <2>1, <2>2, <3>3 DEF FindsNull, MapOf, QueueIn, queueVars
  <2>3. \A m, n \in DOMAIN published : HasRemoved(m, n) => HasRemoved(m, n)'
    BY <2>1 DEF HasRemoved, queueVars
  <2>4. QED
    BY <2>1, <2>2, <2>3 DEF NullsFollow
<1>5. QED
  BY <1>2, <1>3, <1>4 DEF ListenersNext

(***************************************************************************)
(* A handler that calls null, which it may in every operation of           *)
(* SessionUserEventServiceImpl, has been overtaken by a termination of its *)
(* session or by another creation of its user's queue, however many        *)
(* handlers run at once.                                                   *)
(***************************************************************************)
THEOREM FailuresAreOvertaken == ListenersSpec => []FailuresFollowRemovals
<1>1. ListenersInit => LInv /\ TidyInv /\ NullsFollow
  <2>1. ListenersInit => NullsFollow
    BY DEF ListenersInit, NullsFollow
  <2>2. QED
    BY <2>1, TypeInit, OwnInit, LeaveInit, TidyInit DEF LInv
<1>2. LInv /\ TidyInv /\ NullsFollow /\ [ListenersNext]_listenerVars =>
        (LInv /\ TidyInv /\ NullsFollow)'
  BY LeaveNext, TidyNext, NullsNext
<1>3. NullsFollow => FailuresFollowRemovals
  BY DEF NullsFollow, FindsNull, FailuresFollowRemovals
<1>4. QED
  BY <1>1, <1>2, <1>3, PTL DEF ListenersSpec

-----------------------------------------------------------------------------
(***************************************************************************)
(* Listeners that settle.  While an event that makes or clears queues is   *)
(* handled nothing else is, so a user whose queue is not being changed has *)
(* the queue the events call for.  Broadcasts overlap each other and leave *)
(* the queues where they are.                                              *)
(***************************************************************************)
Changing(s, u) ==
  \E n \in DOMAIN published :
    /\ ~Handled(n)
    /\ published[n].sid = s
    /\ \/ published[n].type \in Clears
       \/ published[n].type \in Creates /\ published[n].uid = u

\* A broadcast that is still under way is the younger one.
InOrder ==
  \A b, c \in DOMAIN published :
    /\ published[b].type \in Broadcasts /\ ~Handled(b)
    /\ published[c].type \notin Broadcasts
    => c < b

\* A handler works on the map the session has now,
MapsCurrent ==
  \A n \in Ids : handlers[n].map # Null => handlers[n].map = MapOf(n)

\* and what createUserEventQueue has been told by a containsKey is still so.
AnswerCurrent(n) ==
  /\ handlers[n].at = "install" => MapOf(n) = Null
  /\ handlers[n].at = "getMap" => MapOf(n) # Null
  /\ handlers[n].at = "getQueue" => QueueIn(n, published[n].uid) # Null

AnswersCurrent ==
  \A n \in DOMAIN published : published[n].type \in Creates => AnswerCurrent(n)

QueueFollows(s, u) ==
  /\ QueueDue(s, u) = {Registered(s, u)} \ {Null}
  /\ \A q \in QueueDue(s, u) : eventQueues[q].active

QueuesFollow == \A s \in Sessions, u \in Users : ~Changing(s, u) => QueueFollows(s, u)

OrderlyInv == Settled /\ InOrder /\ MapsCurrent /\ AnswersCurrent

SettledInv == OrderlyInv /\ QueuesFollow

LEMMA SettledInit == ListenersInit => SettledInv
<1> SUFFICES ASSUME ListenersInit PROVE SettledInv
  OBVIOUS
<1>1. /\ DOMAIN published = {}
      /\ \A n \in Ids : handlers[n].map = Null
      /\ \A s \in Sessions : sessionUserEventMap[s] = Null
  BY DEF ListenersInit, QueuesInit, Idle
<1>2. \A s \in Sessions, u \in Users : QueueDue(s, u) = {} /\ Registered(s, u) = Null
  BY <1>1 DEF QueueDue, After, Registered
<1>3. QED
  BY <1>1, <1>2 DEF SettledInv, OrderlyInv, Settled, InOrder, MapsCurrent, AnswersCurrent,
     QueuesFollow, QueueFollows

\* Whose turn it is: a broadcast's among broadcasts, or the last event's,
\* alone.
LEMMA Turns ==
  ASSUME LInv, TidyInv, Settled, NEW x \in Ids, HandlerStep(x)
  PROVE  /\ x \in DOMAIN published /\ ~Handled(x)
         /\ \/ /\ published[x].type \in Broadcasts
               /\ \A n \in DOMAIN published : ~Handled(n) => published[n].type \in Broadcasts
            \/ /\ published[x].type \notin Broadcasts
               /\ x = Len(published)
               /\ \A n \in DOMAIN published \ {x} : Handled(n)
               /\ \A n \in Ids \ {x} : handlers[n].map = Null /\ handlers[n].queue = Null
<1>1. x \in DOMAIN published /\ ~Handled(x)
  BY HandlersMove, StepsUnfinished DEF LInv, Handled
<1>2. CASE published[x].type \in Broadcasts
  BY <1>1, <1>2 DEF Settled
<1>3. CASE published[x].type \notin Broadcasts
  <2>1. x = Len(published) /\ \A n \in DOMAIN published \ {x} : Handled(n)
    BY <1>1, <1>3 DEF Settled
  <2>2. ASSUME NEW n \in Ids \ {x} PROVE handlers[n].map = Null /\ handlers[n].queue = Null
    <3>1. handlers[n] = Idle("start") \/ handlers[n] = Idle(handlers[n].at)
      BY <2>1 DEF TidyInv, NewHandlers, FinishedIdle
    <3>2. \A l : Idle(l).map = Null /\ Idle(l).queue = Null
      BY DEF Idle
    <3>3. QED
      BY <3>1, <3>2
  <2>3. QED
    BY <1>1, <1>3, <2>1, <2>2
<1>4. QED
  BY <1>1, <1>2, <1>3

\* How the handlers end, and what they have found then
LEMMA HowItEnds ==
  ASSUME QInv, NEW n \in Ids, HandlerStep(n), Handled(n)'
  PROVE  /\ published[n].type \in Creates =>
              \/ Install(n) \/ PutQueue(n)
              \/ handlers[n].at = "getMap" /\ MapOf(n) = Null
              \/ handlers[n].at = "getQueue" /\ QueueIn(n, published[n].uid) = Null
         /\ published[n].type \in Clears =>
              Detach(n) \/ (MapOf(n) = Null /\ UNCHANGED sessionUserEventMap)
         /\ published[n].type \in Broadcasts =>
              MapOf(n) = Null \/ VisitedAll(n)
<1> USE TypeDistinct, PlaceNames DEF At, Carries, Handled
<1>1. published[n].type \in EventTypes
  <2>1. published[n] \in PokerEvent
    BY HandlersMove DEF QInv, QueuesTypeOK
  <2>2. QED
    BY <2>1 DEF PokerEvent
<1>2. ASSUME NEW l \in Places \ Finished, Goto(n, l) PROVE FALSE
  BY <1>2, GotoMoves
<1>3. CASE SessionKnown(n)
  BY <1>2, <1>3 DEF SessionKnown
<1>4. CASE SessionUnknown(n)
  BY <1>2, <1>4 DEF SessionUnknown
<1>5. CASE GetMap(n)
  <2>1. MapOf(n) = Null
    BY <1>5, GetMapMoves
  <2>2. handlers[n].at = "getMap" /\ UNCHANGED sessionUserEventMap
    BY <1>5 DEF GetMap
  <2>3. QED
    BY <2>1, <2>2
<1>6. CASE clearUserEventQueue(n)
  BY <1>6 DEF clearUserEventQueue
<1>7. CASE Install(n) \/ PutQueue(n) \/ Detach(n) \/ VisitedAll(n)
  <2>1. /\ Install(n) \/ PutQueue(n) => published[n].type \in Creates
        /\ Detach(n) => published[n].type \in Clears
        /\ VisitedAll(n) => published[n].type \in Broadcasts
    BY DEF Install, PutQueue, Detach, VisitedAll
  <2>2. QED
    BY <1>7, <2>1
<1>8. CASE GetQueue(n)
  <2>1. QueueIn(n, published[n].uid) = Null
    BY <1>8, GetQueueMoves
  <2>2. handlers[n].at = "getQueue" /\ published[n].type \in Creates
    BY <1>8 DEF GetQueue
  <2>3. QED
    BY <2>1, <2>2
<1>9. ~Probe(n) /\ ~ClearEvents(n) /\ ~RemoveQueue(n) /\ ~Disable(n) /\ ~AddEvent(n)
  BY <1>2 DEF Probe, ClearEvents, RemoveQueue, Disable, AddEvent
<1>10. ~IsEmpty(n) /\ ~SweptAll(n) /\ \A u \in Users : ~Wipe(n, u)
  BY ClearingMoves
<1>11. ASSUME NEW q \in Ids, Visit(n, q) \/ Sweep(n, q) PROVE FALSE
  BY <1>11, MeetMoves, MissMoves DEF Visit, Sweep
<1>12. QED
  BY <1>3, <1>4, <1>5, <1>6, <1>7, <1>8, <1>9, <1>10, <1>11 DEF HandlerStep

\* Which calls of containsKey lead createUserEventQueue where
LEMMA WhoAsks ==
  ASSUME QInv, NEW x \in Ids, HandlerStep(x), published[x].type \in Creates
  PROVE  /\ handlers'[x].at = "install" => SessionUnknown(x)
         /\ handlers'[x].at = "getMap" => SessionKnown(x)
         /\ handlers'[x].at = "getQueue" => Probe(x)
<1> USE TypeDistinct DEF At, Carries
<1>1. CASE SessionKnown(x)
  BY <1>1, GotoMoves DEF SessionKnown
<1>2. CASE SessionUnknown(x)
  BY <1>2, GotoMoves DEF SessionUnknown
<1>3. CASE Probe(x)
  BY <1>3, GotoMoves DEF Probe
<1>4. CASE GetMap(x) \/ GetQueue(x)
  BY <1>4, GetMapMoves, GetQueueMoves
<1>5. CASE Install(x)
  BY <1>5, FinishMoves DEF Install
<1>6. CASE PutQueue(x)
  BY <1>6, PutMoves DEF Idle
<1>7. CASE ClearEvents(x) \/ Disable(x) \/ RemoveQueue(x)
  BY <1>7, GotoMoves DEF ClearEvents, Disable, RemoveQueue
<1>8. /\ ~clearUserEventQueue(x) /\ ~AddEvent(x) /\ ~VisitedAll(x) /\ ~IsEmpty(x)
      /\ ~SweptAll(x) /\ ~Detach(x) /\ \A q \in Ids : ~Visit(x, q) /\ ~Sweep(x, q)
      /\ \A u \in Users : ~Wipe(x, u)
  BY DEF clearUserEventQueue, AddEvent, VisitedAll, IsEmpty, SweptAll, Detach, Visit, Sweep, Wipe
<1>9. QED
  BY <1>1, <1>2, <1>3, <1>4, <1>5, <1>6, <1>7, <1>8 DEF HandlerStep

\* What the publisher asks for and what has been established, a step of a
\* handler leaves so.
LEMMA OrderlyStep ==
  ASSUME LInv, TidyInv, OrderlyInv, NEW x \in Ids, HandlerStep(x)
  PROVE  OrderlyInv'
<1> USE IdsAreNumbers, TypeDistinct
<1>1. /\ QInv /\ Settled /\ InOrder /\ MapsCurrent /\ AnswersCurrent
      /\ x \in DOMAIN published /\ published' = published /\ DOMAIN published \subseteq Ids
      /\ \A n \in Ids \ {x} : StaysAt(n)
      /\ handlers'[x].map \in {Null, handlers[x].map, MapOf(x)}
  BY HandlersMove, OthersStay, WhatChanges DEF LInv, TidyInv, EventsInBound, OrderlyInv
<1>2. ~Handled(x) /\ \A n \in Ids : ~Handled(n)' => ~Handled(n)
  BY <1>1, Turns DEF Handled, StaysAt
<1>3. Settled' /\ InOrder'
  BY <1>1, <1>2 DEF Settled, InOrder
<1>4. MapsCurrent'
  <2>1. CASE sessionUserEventMap' = sessionUserEventMap
    BY <1>1, <2>1 DEF MapsCurrent, MapOf, StaysAt
  <2>2. CASE Install(x) \/ Detach(x)
    <3>1. published[x].type \notin Broadcasts /\ handlers'[x].map = Null
      BY <1>1, <2>2, FinishMoves DEF Install, Detach, At, Carries
    <3>2. \A n \in Ids \ {x} : handlers[n].map = Null
      BY <1>1, <3>1, Turns
    <3>3. QED
      BY <1>1, <3>1, <3>2 DEF MapsCurrent, StaysAt
  <2>3. QED
    BY <2>1, <2>2, WhatChanges
<1>5. AnswersCurrent'
  <2> SUFFICES ASSUME NEW n \in DOMAIN published, published[n].type \in Creates
               PROVE  AnswerCurrent(n)'
    BY <1>1 DEF AnswersCurrent
  <2>1. CASE n # x
    <3>1. Handled(n)
      BY <1>1, <2>1, Turns
    <3>2. QED
      BY <1>1, <2>1, <3>1 DEF Handled, Finished, AnswerCurrent, StaysAt
  <2>2. CASE n = x
    <3> USE PlaceNames DEF At, AnswerCurrent, Carries
    <3>1. CASE handlers'[x].at = "install"
      <4>1. SessionUnknown(x)
        BY <1>1, <2>2, <3>1, WhoAsks
      <4>2. QED
        BY <1>1, <2>2, <3>1, <4>1 DEF SessionUnknown, MapOf
    <3>2. CASE handlers'[x].at = "getMap"
      <4>1. SessionKnown(x)
        BY <1>1, <2>2, <3>2, WhoAsks
      <4>2. QED
        BY <1>1, <2>2, <3>2, <4>1 DEF SessionKnown, MapOf
    <3>3. CASE handlers'[x].at = "getQueue"
      <4>1. Probe(x)
        BY <1>1, <2>2, <3>3, WhoAsks
      <4>2. QED
        <5>1. /\ Goto(x, IF QueueIn(x, published[x].uid) = Null THEN "put" ELSE "getQueue")
              /\ userEventMaps' = userEventMaps
          BY <4>1 DEF Probe
        <5>2. QueueIn(x, published[x].uid) # Null /\ handlers'[x].map = handlers[x].map
          BY <1>1, <3>3, <5>1, GotoMoves
        <5>3. QED
          BY <1>1, <2>2, <3>3, <5>1, <5>2 DEF QueueIn
    <3>4. QED
      BY <2>2, <3>1, <3>2, <3>3 DEF AnswerCurrent
  <2>3. QED
    BY <2>1, <2>2
<1>6. QED
  BY <1>3, <1>4, <1>5 DEF OrderlyInv

\* A user whose queue is not being changed keeps what is found for it, as the
\* queues due to the user stay active.
LEMMA RegisteredStays ==
  ASSUME LInv, TidyInv, OrderlyInv, NEW x \in Ids, HandlerStep(x),
         NEW s \in Sessions, NEW u \in Users, ~Changing(s, u)
  PROVE  Registered(s, u)' = Registered(s, u)
<1> USE IdsAreNumbers
<1>1. /\ published[x].sid = s => published[x].type \notin Clears
      /\ published[x].sid = s /\ published[x].type \in Creates => published[x].uid # u
  BY Turns DEF Changing, OrderlyInv
<1>2. /\ sessionUserEventMap \in [Sessions -> Ids \cup {Null}]
      /\ userEventMaps \in [Ids -> [Users -> Ids \cup {Null}]]
      /\ sessionUserEventMap[s] # x
      /\ userEventMaps[x][u] = Null
      /\ x \in DOMAIN published
      /\ handlers[x].at \in {"remove", "put", "wipe"} => handlers[x].map \in Ids
  BY Turns, PlaceNames DEF LInv, QInv, QueuesTypeOK, TidyInv, NewMaps, OrderlyInv, Handler
<1>3. sessionUserEventMap[s] # Null /\ sessionUserEventMap[s] = handlers[x].map =>
        published[x].sid = s
  BY <1>2 DEF LInv, OwnInv, AttachedOwned, HeldOwned, OfSession
<1>4. CASE Install(x)
  <2>1. published[x].sid \in Sessions
    BY <1>4, AtEvent DEF Install, LInv
  <2>2. CASE published[x].sid = s
    <3>1. MapOf(x) = Null /\ published[x].uid # u
      BY <1>1, <1>2, <1>4, <2>2 DEF Install, At, OrderlyInv, AnswersCurrent,
         AnswerCurrent
    <3>2. QED
      BY <1>2, <1>4, <2>2, <3>1 DEF Install, Registered, MapOf
  <2>3. CASE published[x].sid # s
    BY <1>2, <1>4, <2>1, <2>3 DEF Install, Registered
  <2>4. QED
    BY <2>2, <2>3
<1>5. CASE RemoveQueue(x) \/ PutQueue(x)
  BY <1>1, <1>2, <1>3, <1>5 DEF RemoveQueue, PutQueue, SetQueueIn, At, Registered
<1>6. ASSUME NEW v \in Users, Wipe(x, v) PROVE Registered(s, u)' = Registered(s, u)
  BY <1>1, <1>2, <1>3, <1>6 DEF Wipe, SetQueueIn, At, Registered
<1>7. CASE Detach(x)
  BY <1>1, <1>2, <1>7 DEF Detach, At, Registered
<1>8. CASE UNCHANGED <<sessionUserEventMap, userEventMaps>>
  BY <1>8 DEF Registered
<1>9. QED
  BY <1>4, <1>5, <1>6, <1>7, <1>8, WhatChanges DEF Install, Detach

LEMMA DueQueuesAreMade ==
  ASSUME QInv, NEW s \in Sessions, NEW u \in Users, NEW q \in QueueDue(s, u)
  PROVE  MadeFor(q, s, u)
BY DEF QueueDue, After, MadeFor

LEMMA DueQueuesStay ==
  ASSUME LInv, TidyInv, OrderlyInv, NEW x \in Ids, HandlerStep(x),
         NEW s \in Sessions, NEW u \in Users, ~Changing(s, u), NEW q \in QueueDue(s, u)
  PROVE  /\ q \in Ids
         /\ ~(handlers[x].queue = q /\ published[x].type \in Creates \cup Clears)
         /\ eventQueues'[q].active = eventQueues[q].active
<1>1. MadeFor(q, s, u) /\ q \in Ids
  BY DueQueuesAreMade DEF LInv, TidyInv, EventsInBound, MadeFor
<1>2. ~(handlers[x].queue = q /\ published[x].type \in Creates \cup Clears)
  <2> SUFFICES ASSUME handlers[x].queue = q, published[x].type \in Creates \cup Clears
               PROVE  FALSE
    OBVIOUS
  <2>1. published[x].sid = s /\ x \in DOMAIN published
    BY <1>1, IdsAreNumbers DEF LInv, OwnInv, HeldOwned, OfSession, MadeFor
  <2>2. published[x].type \in Creates => published[x].uid = u
    BY <1>1, <2>1, IdsAreNumbers DEF LInv, LeaveInv, RetiresOwn, MadeFor
  <2>3. QED
    BY <2>1, <2>2, Turns DEF Changing, OrderlyInv
<1>3. QED
  BY <1>1, <1>2, ActiveChanges DEF LInv, Disable, At

\* The handler that was changing a user's queue leaves the one that is due.
LEMMA QueueReplaced ==
  ASSUME LInv, TidyInv, OrderlyInv, NEW x \in Ids, HandlerStep(x),
         NEW s \in Sessions, NEW u \in Users, Changing(s, u), ~Changing(s, u)'
  PROVE  /\ QueueFollows(s, u)'
         /\ \A q \in QueueDue(s, u) : /\ q = x /\ x = Len(published)
                                      /\ eventQueues'[q].events = {}
<1> USE IdsAreNumbers, TypeDistinct
<1>1. /\ published \in Seq(PokerEvent) /\ published' = published
      /\ \A n \in Ids \ {x} : StaysAt(n)
      /\ sessionUserEventMap \in [Sessions -> Ids \cup {Null}]
      /\ userEventMaps \in [Ids -> [Users -> Ids \cup {Null}]]
      /\ handlers[x].at = "put" => handlers[x].map \in Ids
      /\ DOMAIN published \subseteq Ids
  <2>1. handlers[x] \in Handler
    BY DEF LInv, QInv, QueuesTypeOK
  <2>2. handlers[x].at = "put" => handlers[x].map \in Ids
    BY <2>1, PlaceNames DEF LInv, QInv, QueuesTypeOK, Handler
  <2>3. QED
    BY <2>2, OthersStay, WhatChanges DEF LInv, QInv, QueuesTypeOK, TidyInv, EventsInBound
<1>2. PICK n \in DOMAIN published :
        /\ ~Handled(n) /\ published[n].sid = s
        /\ \/ published[n].type \in Clears
           \/ published[n].type \in Creates /\ published[n].uid = u
  BY DEF Changing
<1>3. n = x /\ Handled(x)'
  <2>1. n = x
    BY <1>2, Turns DEF OrderlyInv
  <2>2. QED
    BY <1>1, <1>2, <2>1 DEF Changing, Handled, StaysAt
<1>4. x = Len(published) /\ DOMAIN published = 1 .. x /\ x \in DOMAIN published
  BY <1>1, <1>2, <1>3, Turns DEF OrderlyInv
<1>5. QueueDue(s, u)' = QueueDue(s, u)
  BY <1>1 DEF QueueDue, After
<1>6. CASE published[x].type \in Clears
  <2>1. QueueDue(s, u) = {}
    <3> SUFFICES ASSUME NEW q \in QueueDue(s, u) PROVE FALSE
      OBVIOUS
    <3>1. q \in DOMAIN published /\ published[q].type \in Creates
      BY DEF QueueDue, After
    <3>2. q < x
      BY <1>4, <1>6, <3>1
    <3>3. x \in After(q, s, Creates \cup Clears)
      BY <1>2, <1>3, <1>6, <3>2 DEF After
    <3>4. QED
      BY <1>6, <3>3 DEF QueueDue
  <2>2. sessionUserEventMap'[s] = Null
    BY <1>1, <1>2, <1>3, <1>6, HowItEnds DEF LInv, Detach, MapOf
  <2>3. QED
    BY <1>5, <2>1, <2>2 DEF QueueFollows, Registered
<1>7. CASE published[x].type \in Creates /\ published[x].uid = u
  <2>1. QueueDue(s, u) = {x}
    <3>1. \A q \in QueueDue(s, u) : q = x
      <4> SUFFICES ASSUME NEW q \in QueueDue(s, u), q # x PROVE FALSE
        OBVIOUS
      <4>1. q \in DOMAIN published
        BY DEF QueueDue, After
      <4>2. q < x
        BY <1>4, <4>1
      <4>3. x \in After(q, s, Creates \cup Clears)
        BY <1>2, <1>3, <1>7, <4>2 DEF After
      <4>4. QED
        BY <1>7, <4>3 DEF QueueDue
    <3>2. x \in QueueDue(s, u)
      <4>1. After(x, s, Creates \cup Clears) = {}
        BY <1>4 DEF After
      <4>2. x \in After(0, s, Creates)
        BY <1>2, <1>3, <1>4, <1>7 DEF After
      <4>3. QED
        BY <1>7, <4>1, <4>2 DEF QueueDue
    <3>3. QED
      BY <3>1, <3>2
  <2>2. Registered(s, u)' = x
    <3>1. Install(x) \/ PutQueue(x)
      BY <1>2, <1>3, <1>7, HowItEnds DEF LInv, OrderlyInv, AnswersCurrent, AnswerCurrent
    <3>2. CASE Install(x)
      BY <1>1, <1>2, <1>3, <1>7, <3>2 DEF Install, Registered
    <3>3. CASE PutQueue(x)
      <4>1. handlers[x].map \in Ids /\ handlers[x].map = sessionUserEventMap[s]
        BY <1>1, <1>2, <1>3, <3>3 DEF PutQueue, At, OrderlyInv, MapsCurrent, MapOf
      <4>2. QED
        BY <1>1, <1>7, <3>3, <4>1 DEF PutQueue, SetQueueIn, Registered
    <3>4. QED
      BY <3>1, <3>2, <3>3
  <2>3. eventQueues[x].active /\ eventQueues[x].events = {}
    BY <1>2, <1>3 DEF LInv, LeaveInv, NewQueues, TidyInv, NewMaps, Handled
  <2>4. eventQueues' = eventQueues
    BY <1>2, <1>3, <1>7, HowItEnds DEF LInv, OrderlyInv, AnswersCurrent, AnswerCurrent, Install, PutQueue
  <2>5. QED
    BY <1>4, <1>5, <2>1, <2>2, <2>3, <2>4 DEF QueueFollows
<1>8. QED
  BY <1>2, <1>3, <1>6, <1>7

LEMMA SettledStep ==
  ASSUME LInv, TidyInv, SettledInv, NEW x \in Ids, HandlerStep(x)
  PROVE  SettledInv'
<1>1. OrderlyInv'
  BY OrderlyStep DEF SettledInv
<1>2. ASSUME NEW s \in Sessions, NEW u \in Users, ~Changing(s, u)' PROVE QueueFollows(s, u)'
  <2>1. CASE Changing(s, u)
    BY <1>2, <2>1, QueueReplaced DEF SettledInv
  <2>2. CASE ~Changing(s, u)
    <3>1. QueueFollows(s, u) /\ Registered(s, u)' = Registered(s, u)
      BY <2>2, RegisteredStays DEF SettledInv, QueuesFollow
    <3>2. QueueDue(s, u)' = QueueDue(s, u)
      BY WhatChanges DEF QueueDue, After
    <3>3. \A q \in QueueDue(s, u) : eventQueues'[q].active
      BY <2>2, <3>1, DueQueuesStay DEF SettledInv, QueueFollows
    <3>4. QED
      BY <3>1, <3>2, <3>3 DEF QueueFollows
  <2>3. QED
    BY <2>1, <2>2
<1>3. QED
  BY <1>1, <1>2 DEF SettledInv, QueuesFollow

-----------------------------------------------------------------------------
LEMMA NewNumber ==
  ASSUME LInv, TidyInv, NEW ev, MulticastEvent(ev)
  PROVE  \E k \in Ids :
           /\ k = Len(published) + 1 /\ Len(published') = k
           /\ DOMAIN published = 1 .. Len(published) /\ Len(published) \in Nat
           /\ DOMAIN published' = DOMAIN published \cup {k} /\ k \notin DOMAIN published
           /\ \A n \in DOMAIN published : published'[n] = published[n]
           /\ UNCHANGED queueVars
           /\ handlers[k] = Idle("start") /\ ~Handled(k)'
<1>1. published \in Seq(PokerEvent) /\ Len(published) \in Nat
  BY DEF LInv, QInv, QueuesTypeOK
<1>2. PICK k \in Nat : k = Len(published) + 1
  BY <1>1
<1>3. DOMAIN published' = 1 .. k /\ Len(published') = k
  BY <1>1, <1>2 DEF MulticastEvent
<1>4. DOMAIN published' \subseteq Ids
  BY TidyMulticast DEF TidyInv, EventsInBound
<1>5. k \in Ids /\ k \notin DOMAIN published /\ UNCHANGED queueVars
  BY <1>1, <1>2, <1>3, <1>4, PublishedStays DEF LInv
<1>6. handlers[k] = Idle("start") /\ handlers' = handlers
  BY <1>5 DEF TidyInv, NewHandlers, queueVars
<1>7. ~Handled(k)'
  BY <1>6 DEF Handled, Idle, Finished
<1>8. QED
  BY <1>1, <1>2, <1>3, <1>5, <1>6, <1>7, PublishedStays DEF LInv

\* A new event leaves what is due to a user as it is, unless it is one that
\* changes the user's queue, or a broadcast that is to come to it.
LEMMA DueAfterMulticast ==
  ASSUME LInv, TidyInv, NEW ev, MulticastEvent(ev),
         NEW s \in Sessions, NEW u \in Users, ~Changing(s, u)'
  PROVE  /\ ~Changing(s, u)
         /\ QueueDue(s, u)' = QueueDue(s, u)
         /\ \A q \in QueueDue(s, u) :
              After(q, s, Broadcasts)' \subseteq
                After(q, s, Broadcasts) \cup {Len(published) + 1}
<1>2. PICK k \in Ids :
           /\ k = Len(published) + 1 /\ Len(published') = k
           /\ DOMAIN published = 1 .. Len(published) /\ Len(published) \in Nat
           /\ DOMAIN published' = DOMAIN published \cup {k} /\ k \notin DOMAIN published
           /\ \A n \in DOMAIN published : published'[n] = published[n]
           /\ UNCHANGED queueVars
           /\ handlers[k] = Idle("start") /\ ~Handled(k)'
  BY NewNumber
<1>4. \A n \in DOMAIN published : Handled(n)' = Handled(n)
  BY <1>2 DEF Handled, queueVars
<1>5. ~Changing(s, u)
  BY <1>2, <1>4 DEF Changing
<1>6. ~(/\ published'[k].sid = s
        /\ \/ published'[k].type \in Clears
           \/ published'[k].type \in Creates /\ published'[k].uid = u)
  BY <1>2 DEF Changing
<1>7. ASSUME NEW n \in Nat, NEW T
      PROVE  /\ After(n, s, T) \subseteq After(n, s, T)'
             /\ After(n, s, T)' \subseteq After(n, s, T) \cup {k}
             /\ k \in After(n, s, T)' => published'[k].type \in T /\ published'[k].sid = s
  BY <1>2 DEF After
<1>8. QueueDue(s, u)' \subseteq QueueDue(s, u)
  <2> SUFFICES ASSUME NEW n \in QueueDue(s, u)' PROVE n \in QueueDue(s, u)
    OBVIOUS
  <2>1. /\ n \in After(0, s, Creates)' /\ published'[n].uid = u
        /\ \A m \in After(n, s, Creates \cup Clears)' :
             published'[m].type \in Creates /\ published'[m].uid # u
    BY DEF QueueDue
  <2>2. n # k
    BY <1>6, <1>7, <2>1
  <2>3. n \in After(0, s, Creates) /\ n \in Nat
    BY <1>2, <1>7, <2>1, <2>2 DEF After
  <2>4. published[n].uid = u
    BY <1>2, <2>1, <2>3 DEF After
  <2>5. \A m \in After(n, s, Creates \cup Clears) :
          published[m].type \in Creates /\ published[m].uid # u
    BY <1>2, <1>7, <2>1, <2>3 DEF After
  <2>6. QED
    BY <2>3, <2>4, <2>5 DEF QueueDue
<1>9. QueueDue(s, u) \subseteq QueueDue(s, u)'
  <2> SUFFICES ASSUME NEW n \in QueueDue(s, u) PROVE n \in QueueDue(s, u)'
    OBVIOUS
  <2>1. /\ n \in After(0, s, Creates) /\ published[n].uid = u
        /\ \A m \in After(n, s, Creates \cup Clears) :
             published[m].type \in Creates /\ published[m].uid # u
    BY DEF QueueDue
  <2>2. n \in DOMAIN published /\ n \in Nat
    BY <1>2, <2>1 DEF After
  <2>3. n \in After(0, s, Creates)' /\ published'[n].uid = u
    BY <1>2, <1>7, <2>1, <2>2
  <2>4. ASSUME NEW m \in After(n, s, Creates \cup Clears)'
        PROVE  published'[m].type \in Creates /\ published'[m].uid # u
    <3>1. CASE m = k
      BY <1>6, <1>7, <2>2, <2>4, <3>1
    <3>2. CASE m # k
      BY <1>2, <1>7, <2>1, <2>2, <2>4, <3>2 DEF After
    <3>3. QED
      BY <3>1, <3>2
  <2>5. QED
    BY <2>3, <2>4 DEF QueueDue
<1>10. \A q \in QueueDue(s, u) : q \in Nat
  BY <1>2 DEF QueueDue, After
<1>11. QED
  BY <1>2, <1>5, <1>7, <1>8, <1>9, <1>10

LEMMA SettledMulticast ==
  ASSUME LInv, TidyInv, SettledInv, NEW ev, MulticastEvent(ev), Settled'
  PROVE  SettledInv'
<1>1. PICK k \in Ids :
           /\ k = Len(published) + 1 /\ Len(published') = k
           /\ DOMAIN published = 1 .. Len(published) /\ Len(published) \in Nat
           /\ DOMAIN published' = DOMAIN published \cup {k} /\ k \notin DOMAIN published
           /\ \A n \in DOMAIN published : published'[n] = published[n]
           /\ UNCHANGED queueVars
           /\ handlers[k] = Idle("start") /\ ~Handled(k)'
  BY NewNumber
<1>2. handlers[k].at = "start" /\ handlers' = handlers
  BY <1>1 DEF Idle, queueVars
<1>3. \A n \in DOMAIN published : n < k /\ Handled(n)' = Handled(n)
  BY <1>1, <1>2 DEF Handled
<1>4. InOrder'
  <2> SUFFICES ASSUME NEW b \in DOMAIN published', NEW c \in DOMAIN published',
                      published'[b].type \in Broadcasts, ~Handled(b)',
                      published'[c].type \notin Broadcasts
               PROVE  c < b
    BY DEF InOrder
  <2>1. CASE c = k
    <3>1. \A m \in DOMAIN published' \ {k} : Handled(m)'
      BY <1>1, <2>1 DEF Settled
    <3>2. QED
      BY <2>1, <3>1
  <2>2. CASE c # k /\ b = k
    BY <1>1, <1>3, <2>2
  <2>3. CASE c # k /\ b # k
    BY <1>1, <1>3, <2>3 DEF SettledInv, OrderlyInv, InOrder
  <2>4. QED
    BY <2>1, <2>2, <2>3
<1>5. MapsCurrent'
  BY <1>1 DEF SettledInv, OrderlyInv, MapsCurrent, MapOf, LInv, OwnInv, HeldOwned, queueVars
<1>6. AnswersCurrent'
  <2> SUFFICES ASSUME NEW n \in DOMAIN published', published'[n].type \in Creates
               PROVE  AnswerCurrent(n)'
    BY DEF AnswersCurrent
  <2>1. CASE n = k
    BY <1>2, <2>1 DEF AnswerCurrent
  <2>2. CASE n # k
    <3>1. n \in DOMAIN published /\ published[n].type \in Creates /\ AnswerCurrent(n)
      BY <1>1, <2>2 DEF SettledInv, OrderlyInv, AnswersCurrent
    <3>2. QED
      BY <1>1, <3>1 DEF AnswerCurrent, MapOf, QueueIn, queueVars
  <2>3. QED
    BY <2>1, <2>2
<1>7. ASSUME NEW s \in Sessions, NEW u \in Users, ~Changing(s, u)' PROVE QueueFollows(s, u)'
  <2>1. QueueFollows(s, u) /\ QueueDue(s, u)' = QueueDue(s, u)
    BY <1>7, DueAfterMulticast DEF SettledInv, QueuesFollow
  <2>2. Registered(s, u)' = Registered(s, u) /\ eventQueues' = eventQueues
    BY <1>1 DEF Registered, queueVars
  <2>3. QED
    BY <2>1, <2>2 DEF QueueFollows
<1>8. QED
  BY <1>4, <1>5, <1>6, <1>7 DEF SettledInv, OrderlyInv, QueuesFollow

-----------------------------------------------------------------------------
(***************************************************************************)
(* The broadcasts since a queue was made are in it or on their way: a      *)
(* handler that has yet to come to the user finds the queue, because the   *)
(* user's queue is not changed while there are broadcasts.                 *)
(***************************************************************************)
Coming(b, q) ==
  \/ handlers[b].at \in {"start", "getMap"}
  \/ handlers[b].at \in {"visit", "add"} /\ q \in handlers[b].todo
  \/ handlers[b].at = "add" /\ handlers[b].queue = q

\* A handler to which a queue is due finds it through the map of the session.
LEMMA DueIsFound ==
  ASSUME LInv, SettledInv, NEW s \in Sessions, NEW u \in Users, ~Changing(s, u),
         NEW q \in QueueDue(s, u), NEW b \in DOMAIN published, b \in Ids, published[b].sid = s
  PROVE  /\ q # Null /\ MapOf(b) # Null
         /\ handlers[b].map # Null => QueueIn(b, u) = q
<1>1. Registered(s, u) = q /\ q # Null
  BY DEF SettledInv, QueuesFollow, QueueFollows
<1>2. MapOf(b) # Null /\ userEventMaps[MapOf(b)][u] = q
  BY <1>1 DEF Registered, MapOf
<1>3. QED
  BY <1>1, <1>2 DEF SettledInv, OrderlyInv, MapsCurrent, QueueIn

LEMMA ComesOrArrives ==
  ASSUME LInv, SettledInv, NEW x \in Ids, HandlerStep(x),
         NEW s \in Sessions, NEW u \in Users, ~Changing(s, u), NEW q \in QueueDue(s, u),
         q \in Ids, NEW b \in After(q, s, Broadcasts), b \in Ids, Coming(b, q)
  PROVE  Coming(b, q)' \/ b \in eventQueues'[q].events
<1> USE IdsAreNumbers, TypeDistinct DEF At, Carries, Coming
<1>1. /\ eventQueues \in [Ids -> [events : SUBSET Ids, active : BOOLEAN]]
      /\ \A n \in Ids \ {x} : StaysAt(n) /\ handlers[n].todo \subseteq handlers'[n].todo
      /\ handlers[b].at \in {"visit", "add"} => handlers[b].map # Null
  <2>1. handlers[b].at \in {"visit", "add"} => handlers[b].map # Null
    BY PlaceNames DEF LInv, QInv, QueuesTypeOK
  <2>2. \A n \in Ids \ {x} : StaysAt(n) /\ handlers[n].todo \subseteq handlers'[n].todo
    BY OthersStay DEF LInv
  <2>3. QED
    BY <2>1, <2>2 DEF LInv, QInv, QueuesTypeOK
<1>2. /\ b \in DOMAIN published /\ published[b].sid = s /\ published[b].type \in Broadcasts
      /\ published[q].uid = u
  BY DueQueuesAreMade DEF After, MadeFor, LInv
<1>3. q # Null /\ MapOf(b) # Null /\ (handlers[b].map # Null => QueueIn(b, u) = q)
  BY <1>2, DueIsFound
<1>4. CASE x # b
  BY <1>1, <1>4 DEF StaysAt
<1>5. CASE x = b
  <2>1. CASE SessionKnown(b)
    BY <2>1, GotoMoves DEF SessionKnown, LInv
  <2>2. CASE GetMap(b)
    <3>1. NextAfterGet(b) = "visit" /\ userEventMaps[MapOf(b)][u] = q
      BY <1>2, <1>3 DEF NextAfterGet, SettledInv, QueuesFollow, QueueFollows, Registered, MapOf
    <3>2. q \in QueuesOf(MapOf(b))
      BY <1>3, <3>1 DEF QueuesOf
    <3>3. QED
      BY <1>2, <1>3, <2>2, <3>1, <3>2, GetMapMoves DEF LInv
  <2>3. ASSUME NEW r \in Ids, Visit(b, r) PROVE Coming(b, q)'
    <3>1. handlers[b].at = "visit" /\ q \in handlers[b].todo /\ InMap(b, q)
      BY <1>1, <1>2, <1>3, <2>3 DEF Visit, InMap
    <3>2. CASE Meet(b, r, "add")
      BY <3>1, <3>2, MeetMoves DEF LInv
    <3>3. CASE Miss(b, r)
      BY <3>1, <3>3, MissMoves DEF LInv
    <3>4. QED
      BY <2>3, <3>2, <3>3 DEF Visit
  <2>4. CASE AddEvent(b)
    <3>1. CASE q = handlers[b].queue
      BY <1>1, <2>4, <3>1 DEF AddEvent
    <3>2. CASE q # handlers[b].queue
      BY <2>4, <3>2, GotoMoves DEF AddEvent, LInv
    <3>3. QED
      BY <3>1, <3>2
  <2>5. ~VisitedAll(b) /\ ~SessionUnknown(b)
    BY <1>3 DEF VisitedAll, SessionUnknown
  <2>6. /\ ~clearUserEventQueue(b) /\ ~Install(b) /\ ~Probe(b) /\ ~GetQueue(b)
        /\ ~ClearEvents(b) /\ ~Disable(b) /\ ~RemoveQueue(b) /\ ~PutQueue(b) /\ ~IsEmpty(b)
        /\ ~SweptAll(b) /\ ~Detach(b) /\ \A r \in Ids : ~Sweep(b, r)
        /\ \A v \in Users : ~Wipe(b, v)
    BY <1>2 DEF clearUserEventQueue, Install, Probe, GetQueue, ClearEvents, Disable,
       RemoveQueue, PutQueue, IsEmpty, SweptAll, Detach, Sweep, Wipe
  <2>7. QED
    BY <1>5, <2>1, <2>2, <2>3, <2>4, <2>5, <2>6 DEF HandlerStep
<1>6. QED
  BY <1>4, <1>5

\* What is in a queue that is due, stays; what is added, came after it.
LEMMA DueEventsStay ==
  ASSUME LInv, TidyInv, SettledInv, NEW x \in Ids, HandlerStep(x),
         NEW s \in Sessions, NEW u \in Users, ~Changing(s, u), NEW q \in QueueDue(s, u)
  PROVE  /\ eventQueues[q].events \subseteq eventQueues'[q].events
         /\ eventQueues'[q].events \subseteq eventQueues[q].events \cup {x}
         /\ x \in eventQueues'[q].events \ eventQueues[q].events => q < x
<1>1. /\ q \in Ids /\ MadeFor(q, s, u)
      /\ ~(handlers[x].queue = q /\ published[x].type \in Creates \cup Clears)
      /\ eventQueues \in [Ids -> [events : SUBSET Ids, active : BOOLEAN]]
  BY DueQueuesStay, DueQueuesAreMade DEF LInv, QInv, QueuesTypeOK, SettledInv
<1>2. CASE ClearEvents(x)
  BY <1>1, <1>2 DEF ClearEvents, At
<1>3. CASE Disable(x)
  BY <1>1, <1>3 DEF Disable
<1>4. CASE AddEvent(x)
  <2>1. q < x
    BY <1>1, <1>4, Turns, TypeDistinct
       DEF AddEvent, At, SettledInv, OrderlyInv, InOrder, MadeFor
  <2>2. QED
    BY <1>1, <1>4, <2>1 DEF AddEvent
<1>5. QED
  BY <1>1, <1>2, <1>3, <1>4, WhatChanges
=============================================================================
