-------------------------- MODULE UserEventQueues --------------------------
(***************************************************************************)
(* The listeners of the poker events: the handlers behind                  *)
(* PokerEventListener and the event queues SessionUserEventServiceImpl     *)
(* keeps, one per user and session.                                        *)
(*                                                                         *)
(* The event multicaster has a SimpleAsyncTaskExecutor: every event is     *)
(* handled on a new thread, at any time after it is published, in any      *)
(* order and interleaving with the others.  Nothing is locked; one call on *)
(* one ConcurrentHashMap, PriorityBlockingQueue or AtomicBoolean is one    *)
(* step, and the handler's `at` names its next call.                       *)
(*                                                                         *)
(* Event number n is handled by handler n.  The map of queues a handler    *)
(* installs and the EventQueue it brings along are known by its number     *)
(* too; Null stands for Java's null.                                       *)
(***************************************************************************)
EXTENDS PokerEvents

CONSTANT MaxEvents  \* bound on the number of events published

ASSUME QueuesAssumption == MaxEvents \in Nat

VARIABLES
  sessionUserEventMap,  \* session -> the map of its users' queues, or Null
  userEventMaps,        \* every map installed so far: user -> queue, or Null
  eventQueues,          \* every EventQueue: its events, and whether it is active
  handlers              \* where the handler of every event is

queueVars == <<sessionUserEventMap, userEventMaps, eventQueues, handlers>>
listenerVars == <<published, queueVars>>

Null == 0
Ids == 1 .. MaxEvents

\* A handler that has returned keeps nothing.  "dropped": the session had no
\* queues and the event was discarded; "failed": a null was dereferenced.
Finished == {"done", "dropped", "failed"}

Places == {"start", "install", "getMap", "probe", "getQueue", "clear", "disable",
           "remove", "put", "visit", "add", "isEmpty", "sweep", "wipe", "detach"}
          \cup Finished

\* The map and the queue it works on, the queues a traversal may still meet,
\* and the users whose bins clear() has not come to
Handler == [at : Places, map : Ids \cup {Null}, queue : Ids \cup {Null},
            todo : SUBSET Ids, bins : SUBSET Users]

\* Types, and what a handler has in hand: past a get() it goes on with what it
\* got, or it has got null and called it, which makes it "failed".
QueuesTypeOK ==
  /\ published \in Seq(PokerEvent)
  /\ sessionUserEventMap \in [Sessions -> Ids \cup {Null}]
  /\ userEventMaps \in [Ids -> [Users -> Ids \cup {Null}]]
  /\ eventQueues \in [Ids -> [events : SUBSET Ids, active : BOOLEAN]]
  /\ handlers \in [Ids -> Handler]
  /\ \A n \in Ids :
       /\ handlers[n].at \notin {"start", "install", "getMap"} \cup Finished =>
            handlers[n].map # Null
       /\ handlers[n].at \in {"clear", "disable", "add"} => handlers[n].queue # Null

\* The thread of a handler before its first call and after its last one
Idle(l) == [at |-> l, map |-> Null, queue |-> Null, todo |-> {}, bins |-> {}]

QueuesInit ==
  /\ sessionUserEventMap = [s \in Sessions |-> Null]
  /\ userEventMaps = [m \in Ids |-> [u \in Users |-> Null]]
  /\ eventQueues = [q \in Ids |-> [events |-> {}, active |-> TRUE]]
  /\ handlers = [n \in Ids |-> Idle("start")]

-----------------------------------------------------------------------------
\* Handler n runs an event of one of the types and is at l.
At(n, types, l) ==
  /\ n \in DOMAIN published
  /\ published[n].type \in types
  /\ handlers[n].at = l

Creates    == {SessionCreated, UserJoined}  \* -> createUserEventQueue
Broadcasts == {UserVoted, VoteReset}        \* -> broadcastEvent
Clears     == {AutoTerminated}              \* -> clearSession

Goto(n, l) == handlers' = [handlers EXCEPT ![n].at = l]
Finish(n, l) == handlers' = [handlers EXCEPT ![n] = Idle(l)]

\* sessionUserEventMap.get of the session of event n
MapOf(n) == sessionUserEventMap[published[n].sid]

\* The queue the map handler n works on has for u
QueueIn(n, u) == userEventMaps[handlers[n].map][u]

SetQueueIn(n, u, q) ==
  userEventMaps' = [userEventMaps EXCEPT ![handlers[n].map][u] = q]

InMap(n, q) == QueueIn(n, published[q].uid) = q

\* The queues in map m
QueuesOf(m) == {userEventMaps[m][u] : u \in Users} \ {Null}

-----------------------------------------------------------------------------
(***************************************************************************)
(* values().forEach goes through the entries of the map while others       *)
(* change it: `queue` is the one it has met last, `todo` those it may      *)
(* still meet.  Entries of users whose ids fall into one bin of the table  *)
(* are a list: put() appends to it, and an entry that has been removed     *)
(* still leads to the one that followed it.  Which users share a bin is    *)
(* left open, so                                                           *)
(*   - an entry in the map is met, unless it was put when the traversal    *)
(*     had passed its bin;                                                 *)
(*   - an entry put while the traversal runs is met behind an entry of     *)
(*     another user, even if the user has been met already with the queue  *)
(*     that was removed;                                                   *)
(*   - an entry removed while the traversal runs is met from another one   *)
(*     that was removed after it had been met.                             *)
(***************************************************************************)
Traversing(m) ==
  \/ handlers[m].at \in {"visit", "add", "sweep"}
  \/ handlers[m].at \in {"clear", "disable"} /\ published[m].type \in Clears

OfOthers(q, r) == published[q].uid # published[r].uid

MayMeet(m, q) ==
  \/ handlers[m].queue = Null
  \/ \E r \in handlers[m].todo \cup {handlers[m].queue} : OfOthers(q, r)

\* The traversals that may meet the queue handler n is about to put: any of
\* those it is ahead of, or, if it takes the place of a queue, the ones that
\* would have met that.
MeetingsOf(n) ==
  LET old == QueueIn(n, published[n].uid)
      traversals == {m \in Ids : Traversing(m) /\ handlers[m].map = handlers[n].map}
  IN  IF old = Null THEN SUBSET {m \in traversals : MayMeet(m, n)}
                    ELSE {{m \in traversals : old \in handlers[m].todo}}

Meet(n, q, l) ==
  LET r == handlers[n].queue
  IN  /\ q \in handlers[n].todo
      /\ \/ InMap(n, q)
         \/ r # Null /\ OfOthers(q, r) /\ ~InMap(n, r)
      /\ handlers' = [handlers EXCEPT
           ![n].todo = @ \ {q}, ![n].at = l, ![n].queue = q]

Miss(n, q) ==
  /\ q \in handlers[n].todo
  /\ ~InMap(n, q)
  /\ handlers' = [handlers EXCEPT ![n].todo = @ \ {q}]

-----------------------------------------------------------------------------
(***************************************************************************)
(* Faulty variants of actions below, each with a mistake that is easy to   *)
(* make in the code.  ListenersNext has none of them; they are there to    *)
(* show that the properties tell them from the real ones.                  *)
(***************************************************************************)

\* Probe that leaves a user the queue it has
Probe_keepsQueue(n) ==
  /\ At(n, Creates, "probe")
  /\ IF QueueIn(n, published[n].uid) = Null THEN Goto(n, "put") ELSE Finish(n, "done")
  /\ UNCHANGED <<published, sessionUserEventMap, userEventMaps, eventQueues>>

\* GetQueue that trusts the answer of containsKey
GetQueue_unchecked(n) ==
  /\ At(n, Creates, "getQueue")
  /\ handlers' = [handlers EXCEPT ![n].at = "clear",
                                  ![n].queue = QueueIn(n, published[n].uid)]
  /\ UNCHANGED <<published, sessionUserEventMap, userEventMaps, eventQueues>>

\* PutQueue that gives the user a queue another user of the session has
PutQueue_shared(n) ==
  /\ At(n, Creates, "put")
  /\ \E u \in Users :
       SetQueueIn(n, published[n].uid, IF QueueIn(n, u) = Null THEN n ELSE QueueIn(n, u))
  /\ Finish(n, "done")
  /\ UNCHANGED <<published, sessionUserEventMap, eventQueues>>

\* RemoveQueue that removes from the wrong map
RemoveQueue_ofSession(n) ==
  /\ At(n, Creates, "remove")
  /\ sessionUserEventMap' = [sessionUserEventMap EXCEPT ![published[n].sid] = Null]
  /\ Goto(n, "put")
  /\ UNCHANGED <<published, userEventMaps, eventQueues>>

\* Visit that leaves out the user who caused the event
Visit_skipsAuthor(n, q) ==
  /\ At(n, Broadcasts, "visit")
  /\ q \in handlers[n].todo
  /\ IF published[q].uid = published[n].uid
     THEN handlers' = [handlers EXCEPT ![n].todo = @ \ {q}]
     ELSE Meet(n, q, "add") \/ Miss(n, q)
  /\ UNCHANGED <<published, sessionUserEventMap, userEventMaps, eventQueues>>

\* SweptAll after which the map is neither cleared nor detached
SweptAll_keepsMap(n) ==
  /\ At(n, Clears, "sweep")
  /\ handlers[n].todo = {}
  /\ Finish(n, "done")
  /\ UNCHANGED <<published, sessionUserEventMap, userEventMaps, eventQueues>>

-----------------------------------------------------------------------------
(***************************************************************************)
(* All four operations first ask sessionUserEventMap.containsKey(session). *)
(***************************************************************************)
SessionKnown(n) ==
  /\ At(n, EventTypes, "start")
  /\ MapOf(n) # Null
  /\ Goto(n, "getMap")
  /\ UNCHANGED <<published, sessionUserEventMap, userEventMaps, eventQueues>>

\* createUserEventQueue goes on to install a map, broadcastEvent throws
\* PokerSessionNotFoundException, which its handler logs, and the clearing
\* operations have nothing to do.
SessionUnknown(n) ==
  /\ At(n, EventTypes, "start")
  /\ MapOf(n) = Null
  /\ \/ At(n, Creates, "start") /\ Goto(n, "install")
     \/ At(n, Broadcasts, "start") /\ Finish(n, "dropped")
     \/ At(n, Clears \cup {UserExited}, "start") /\ Finish(n, "done")
  /\ UNCHANGED <<published, sessionUserEventMap, userEventMaps, eventQueues>>

(***************************************************************************)
(* sessionUserEventMap.get(session), which another handler may have        *)
(* removed meanwhile: then the next call is on null.                       *)
(*                                                                         *)
(* The handler of UserExited passes the session id in place of the user    *)
(* id to clearUserEventQueue, so the map it gets never has the key it asks *)
(* for and its work ends here.                                             *)
(***************************************************************************)
NextAfterGet(n) ==
  CASE published[n].type \in Creates    -> "probe"
    [] published[n].type \in Broadcasts -> "visit"
    [] published[n].type \in Clears     -> "isEmpty"

GetMap(n) ==
  /\ At(n, EventTypes \ {UserExited}, "getMap")
  /\ IF MapOf(n) = Null
     THEN Finish(n, "failed")
     ELSE handlers' = [handlers EXCEPT ![n] =
            [at |-> NextAfterGet(n), map |-> MapOf(n), queue |-> Null, bins |-> {},
             todo |-> IF published[n].type \in Broadcasts THEN QueuesOf(MapOf(n)) ELSE {}]]
  /\ UNCHANGED <<published, sessionUserEventMap, userEventMaps, eventQueues>>

clearUserEventQueue(n) ==
  /\ At(n, {UserExited}, "getMap")
  /\ Finish(n, IF MapOf(n) = Null THEN "failed" ELSE "done")
  /\ UNCHANGED <<published, sessionUserEventMap, userEventMaps, eventQueues>>

-----------------------------------------------------------------------------
\* createUserEventQueue, session unknown: a new map with the user's new queue
\* becomes the map of the session, in place of any installed meanwhile.
Install(n) ==
  /\ At(n, Creates, "install")
  /\ userEventMaps' = [userEventMaps EXCEPT ![n][published[n].uid] = n]
  /\ sessionUserEventMap' = [sessionUserEventMap EXCEPT ![published[n].sid] = n]
  /\ Finish(n, "done")
  /\ UNCHANGED <<published, eventQueues>>

\* userEventMap.containsKey(user): a queue that is there is retired first.
Probe(n) ==
  /\ At(n, Creates, "probe")
  /\ Goto(n, IF QueueIn(n, published[n].uid) = Null THEN "put" ELSE "getQueue")
  /\ UNCHANGED <<published, sessionUserEventMap, userEventMaps, eventQueues>>

\* userEventMap.get(user), null if another handler has removed it meanwhile
GetQueue(n) ==
  /\ At(n, Creates, "getQueue")
  /\ IF QueueIn(n, published[n].uid) = Null
     THEN Finish(n, "failed")
     ELSE handlers' = [handlers EXCEPT ![n].at = "clear",
                                       ![n].queue = QueueIn(n, published[n].uid)]
  /\ UNCHANGED <<published, sessionUserEventMap, userEventMaps, eventQueues>>

\* clearAll: the queue is emptied, then disabled (Disable).
ClearEvents(n) ==
  /\ At(n, Creates \cup Clears, "clear")
  /\ eventQueues' = [eventQueues EXCEPT ![handlers[n].queue].events = {}]
  /\ Goto(n, "disable")
  /\ UNCHANGED <<published, sessionUserEventMap, userEventMaps>>

Disable(n) ==
  /\ At(n, Creates \cup Clears, "disable")
  /\ eventQueues' = [eventQueues EXCEPT ![handlers[n].queue].active = FALSE]
  /\ Goto(n, IF published[n].type \in Creates THEN "remove" ELSE "sweep")
  /\ UNCHANGED <<published, sessionUserEventMap, userEventMaps>>

\* userEventMap.remove(user), whatever queue the user has by now
RemoveQueue(n) ==
  /\ At(n, Creates, "remove")
  /\ SetQueueIn(n, published[n].uid, Null)
  /\ Goto(n, "put")
  /\ UNCHANGED <<published, sessionUserEventMap, eventQueues>>

\* userEventMap.put(user, eventQueue)
PutQueue(n) ==
  /\ At(n, Creates, "put")
  /\ SetQueueIn(n, published[n].uid, n)
  /\ \E M \in MeetingsOf(n) :
       handlers' = [m \in Ids |->
         IF m = n THEN Idle("done")
         ELSE IF m \in M THEN [handlers[m] EXCEPT !.todo = @ \cup {n}]
         ELSE handlers[m]]
  /\ UNCHANGED <<published, sessionUserEventMap, eventQueues>>

-----------------------------------------------------------------------------
\* broadcastEvent: values().forEach(addEvent)
Visit(n, q) ==
  /\ At(n, Broadcasts, "visit")
  /\ Meet(n, q, "add") \/ Miss(n, q)
  /\ UNCHANGED <<published, sessionUserEventMap, userEventMaps, eventQueues>>

\* addEvent on the queue just seen, even if it has been retired meanwhile
AddEvent(n) ==
  /\ At(n, Broadcasts, "add")
  /\ eventQueues' = [eventQueues EXCEPT ![handlers[n].queue].events = @ \cup {n}]
  /\ Goto(n, "visit")
  /\ UNCHANGED <<published, sessionUserEventMap, userEventMaps>>

VisitedAll(n) ==
  /\ At(n, Broadcasts, "visit")
  /\ handlers[n].todo = {}
  /\ Finish(n, "done")
  /\ UNCHANGED <<published, sessionUserEventMap, userEventMaps, eventQueues>>

-----------------------------------------------------------------------------
\* clearSession: an empty map only has to be detached from the session.
IsEmpty(n) ==
  /\ At(n, Clears, "isEmpty")
  /\ LET queues == QueuesOf(handlers[n].map)
     IN  handlers' = [handlers EXCEPT ![n].at = IF queues = {} THEN "detach" ELSE "sweep",
                                      ![n].todo = queues]
  /\ UNCHANGED <<published, sessionUserEventMap, userEventMaps, eventQueues>>

\* values().forEach(clearAll)
Sweep(n, q) ==
  /\ At(n, Clears, "sweep")
  /\ Meet(n, q, "clear") \/ Miss(n, q)
  /\ UNCHANGED <<published, sessionUserEventMap, userEventMaps, eventQueues>>

SweptAll(n) ==
  /\ At(n, Clears, "sweep")
  /\ handlers[n].todo = {}
  /\ handlers' = [handlers EXCEPT ![n].at = "wipe", ![n].queue = Null, ![n].bins = Users]
  /\ UNCHANGED <<published, sessionUserEventMap, userEventMaps, eventQueues>>

\* userEventMap.clear() empties the map entry by entry.
Wipe(n, u) ==
  /\ At(n, Clears, "wipe")
  /\ u \in handlers[n].bins
  /\ SetQueueIn(n, u, Null)
  /\ handlers' = [handlers EXCEPT
       ![n].bins = @ \ {u},
       ![n].at = IF handlers[n].bins = {u} THEN "detach" ELSE "wipe"]
  /\ UNCHANGED <<published, sessionUserEventMap, eventQueues>>

\* sessionUserEventMap.remove(session), whatever map the session has by now
Detach(n) ==
  /\ At(n, Clears, "detach")
  /\ sessionUserEventMap' = [sessionUserEventMap EXCEPT ![published[n].sid] = Null]
  /\ Finish(n, "done")
  /\ UNCHANGED <<published, userEventMaps, eventQueues>>

-----------------------------------------------------------------------------
HandlerStep(n) ==
  \/ SessionKnown(n) \/ SessionUnknown(n) \/ GetMap(n) \/ clearUserEventQueue(n)
  \/ Install(n) \/ Probe(n) \/ GetQueue(n) \/ ClearEvents(n) \/ Disable(n) \/ RemoveQueue(n)
  \/ PutQueue(n) \/ AddEvent(n) \/ VisitedAll(n) \/ IsEmpty(n) \/ SweptAll(n) \/ Detach(n)
  \/ \E q \in Ids : Visit(n, q) \/ Sweep(n, q)
  \/ \E u \in Users : Wipe(n, u)

\* The service, as far as the listeners are concerned: it publishes any event
\* the contract allows.
MulticastEvent(ev) ==
  /\ Len(published) < MaxEvents
  /\ MayFollow(ev)
  /\ published' = Append(published, ev)
  /\ UNCHANGED queueVars

\* The events as the service makes them, at time ts
EventsAt(ts) ==
  {ev \in [type : EventTypes, sid : Sessions, uid : Authors,
           point : Points \cup {NoVote}, ts : {ts}] :
     /\ ev.uid = "auto" <=> ev.type = AutoTerminated
     /\ ev.point # NoVote <=> ev.type = UserVoted}

ListenersInit == published = <<>> /\ QueuesInit

ListenersNext ==
  \/ \E ev \in EventsAt(Len(published)) : MulticastEvent(ev)
  \/ \E n \in Ids : HandlerStep(n)

ListenersSpec == ListenersInit /\ [][ListenersNext]_listenerVars

-----------------------------------------------------------------------------
\* The queue getEventEmitter would find for user u of session s
Registered(s, u) ==
  IF sessionUserEventMap[s] = Null THEN Null ELSE userEventMaps[sessionUserEventMap[s]][u]

(***************************************************************************)
(* A user finds no queue but one made for this user in this session, and   *)
(* in any queue, retired or not, only the votes and resets of the session  *)
(* it belongs to, however the handlers of both sessions interleave.        *)
(***************************************************************************)
QueuesBelongToTheirUsers ==
  /\ \A s \in Sessions, u \in Users :
       LET q == Registered(s, u)
       IN  q # Null => /\ q \in DOMAIN published
                       /\ published[q].type \in Creates
                       /\ published[q].sid = s
                       /\ published[q].uid = u
  /\ \A q \in Ids : \A e \in eventQueues[q].events :
       /\ {q, e} \subseteq DOMAIN published
       /\ published[e].type \in Broadcasts
       /\ published[e].sid = published[q].sid

(***************************************************************************)
(* A disabled queue does not stay where a user finds it (its stream would  *)
(* end at once, without the emitter being completed): the handler that     *)
(* disabled it still has to remove it from the map, whatever the other     *)
(* handlers of the session do to the map meanwhile.                        *)
(***************************************************************************)
Removes(n, s, u) ==
  /\ n \in DOMAIN published
  /\ handlers[n].map = sessionUserEventMap[s]
  /\ \/ handlers[n].at = "remove" /\ published[n].uid = u
     \/ handlers[n].at \in {"clear", "disable", "sweep"} /\ published[n].type \in Clears
     \/ handlers[n].at = "wipe" /\ u \in handlers[n].bins

DisabledQueuesAreLeaving ==
  \A s \in Sessions, u \in Users :
    LET q == Registered(s, u)
    IN  q # Null /\ ~eventQueues[q].active => \E n \in Ids : Removes(n, s, u)

(***************************************************************************)
(* Between the calls of a handler others may remove what it has just seen: *)
(* it then calls null and dies, and its event is lost or the user left     *)
(* without the new queue.  That happens to no handler but one that runs    *)
(* beside a termination of its session or another creation of its user's   *)
(* queue which has come to the removal.                                    *)
(***************************************************************************)
HasRemoved(m, n) ==
  /\ published[m].sid = published[n].sid
  /\ \/ published[m].type \in Clears /\ handlers[m].at \in {"wipe", "detach", "done"}
     \/ /\ {published[m].type, published[n].type} \subseteq Creates
        /\ published[m].uid = published[n].uid
        /\ handlers[m].at \in {"put", "done"}

FailuresFollowRemovals ==
  \A n \in DOMAIN published : handlers[n].at = "failed" =>
    \E m \in DOMAIN published \ {n} : HasRemoved(m, n)

-----------------------------------------------------------------------------
(***************************************************************************)
(* A publisher that leaves the listeners the time to settle: an event that *)
(* makes queues, or is meant to clear them, is published when every event  *)
(* before it has been handled, and handled before anything else is         *)
(* published.  Broadcasts still overlap each other.                        *)
(***************************************************************************)
Handled(n) == handlers[n].at \in Finished

AllHandled == \A n \in DOMAIN published : Handled(n)

Settled ==
  \A n \in DOMAIN published :
    (published[n].type \notin Broadcasts /\ ~Handled(n)) =>
      /\ n = Len(published)
      /\ \A m \in DOMAIN published \ {n} : Handled(m)

\* Events of session s published after number n
After(n, s, types) ==
  {m \in DOMAIN published : m > n /\ published[m].sid = s /\ published[m].type \in types}

\* The events that gave user u of session s the queue it should have now:
\* the last one that created it, unless the session has been terminated since.
QueueDue(s, u) ==
  {n \in After(0, s, Creates) :
     /\ published[n].uid = u
     /\ \A m \in After(n, s, Creates \cup Clears) :
          published[m].type \in Creates /\ published[m].uid # u}
=============================================================================
