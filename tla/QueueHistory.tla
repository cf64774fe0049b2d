---------------------------- MODULE QueueHistory ----------------------------
(***************************************************************************)
(* What the listeners make of the events: whom a broadcast reaches, and    *)
(* what queues there are once all events have been handled.                *)
(*                                                                         *)
(* The module adds to UserEventQueues two history variables; it models no  *)
(* further code.                                                           *)
(***************************************************************************)
EXTENDS UserEventQueues

VARIABLES
  present,  \* the queues in the map handler n works on when it got that map
  settling  \* whether the publisher has left the listeners the time to settle

queueHistVars == <<listenerVars, present, settling>>

HistoryInit ==
  /\ ListenersInit
  /\ present = [n \in Ids |-> {}]
  /\ settling = TRUE

HistoryNext ==
  /\ ListenersNext
  /\ present' = [n \in Ids |->
       IF handlers[n].map = Null /\ handlers'[n].map # Null
       THEN QueuesOf(handlers'[n].map)
       ELSE present[n]]
  /\ settling' = (settling /\ Settled')

HistorySpec == HistoryInit /\ [][HistoryNext]_queueHistVars

Retiring(q) ==
  \E n \in Ids : handlers[n].at \in {"clear", "disable"} /\ handlers[n].queue = q

(***************************************************************************)
(* broadcastEvent leaves nobody out: when it returns, the event is in      *)
(* every queue that was in the map all the time, whichever users joined or *)
(* were replaced while it went through the map.                            *)
(***************************************************************************)
BroadcastsReachEverybody ==
  [][\A n \in Ids, u \in Users :
       LET q == QueueIn(n, u)
       IN  /\ At(n, Broadcasts, "visit")
           /\ handlers'[n].at = "done"
           /\ q \in present[n]
           /\ eventQueues[q].active
           /\ ~Retiring(q)
           => n \in eventQueues[q].events]_queueHistVars

-----------------------------------------------------------------------------
(***************************************************************************)
(* Handlers that settle leave behind what their events call for, counted   *)
(* from the events alone: every user created or joined since the last      *)
(* termination has one active queue, which holds exactly the votes and     *)
(* resets of the session since then; everybody else has none.              *)
(***************************************************************************)
SettledQueuesFollowEvents ==
  settling /\ AllHandled =>
    \A s \in Sessions, u \in Users :
      /\ QueueDue(s, u) = {Registered(s, u)} \ {Null}
      /\ \A q \in QueueDue(s, u) :
           eventQueues[q] = [events |-> After(q, s, Broadcasts), active |-> TRUE]

(***************************************************************************)
(* SessionUserEventService.clearUserEventQueue(sessionId, userId), called  *)
(* by the handler of UserExited, is there to clear the queue of the user   *)
(* who left.  It is called with the session id as the user id and clears   *)
(* nothing, even if the listeners settle after every event.                *)
(***************************************************************************)
ExitClearsTheUsersQueue ==
  settling /\ AllHandled =>
    \A n \in DOMAIN published :
      LET s == published[n].sid
          u == published[n].uid
      IN  /\ published[n].type = UserExited
          /\ \A m \in After(n, s, Creates) : published[m].uid # u
          => Registered(s, u) = Null
=============================================================================
