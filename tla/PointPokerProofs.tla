-------------------------- MODULE PointPokerProofs --------------------------
(***************************************************************************)
(* The service is a publisher the listeners and streams are made for, for  *)
(* any number of users, sessions, request threads and requests: every step *)
(* of the whole server is a step of VoteStreams or leaves it alone.        *)
(***************************************************************************)
EXTENDS PointPoker, PokerSessionsProofs, FiniteSetTheorems

USE SystemAssumption

-----------------------------------------------------------------------------
\* Seen from the service, a step of the server is one of the service.
LEMMA ServiceSide == [ServerNext]_serverVars => [Next]_vars
BY DEF ServerNext, serverVars, FetchVotes, Next, vars

(***************************************************************************)
(* The times of the events are those of the clock.                         *)
(***************************************************************************)
ClockInv == Delivery!LastTime = clock

-----------------------------------------------------------------------------
\* The event of a step is one VoteStreams lets its publisher make.
LEMMA PublishedIsAnEvent ==
  ASSUME TInv, VotesOnly, ClockInv,
         NEW t \in Threads, Step(t), published' # published
  PROVE  /\ ClockInv'
         /\ \E d \in Ticks : \E ev \in Delivery!EventsAt(Delivery!LastTime + d) :
              published' = Append(published, ev)
<1>1. PICK ty \in EventTypes, u \in Authors, v \in Votes, d \in Ticks :
        LET ev == Event(ty, request[t].sid, u, v, clock + d)
        IN  /\ request[t].sid \in Sessions
            /\ u = "auto" <=> ty = AutoTerminated
            /\ v # NoVote <=> ty = UserVoted
            /\ published' = Append(published, ev)
            /\ clock' = clock + d
  <2>1. CASE Publish(t)
    <3> DEFINE r == request[t]
    <3>1. /\ r \in Request
          /\ r.op \in DOMAIN EventOf
          /\ r.op = "vote" => r.vote \in Points
          /\ r.op # "vote" => r.vote = NoVote
      BY <2>1 DEF Publish, TInv, PlacesOK, PlaceOK, VotesOnly
    <3>2. /\ EventOf[r.op] \in EventTypes
          /\ EventOf[r.op] # AutoTerminated
          /\ EventOf[r.op] = UserVoted <=> r.op = "vote"
      BY <3>1 DEF EventOf, EventTypes, AutoTerminated, SessionCreated, UserJoined, UserVoted,
         VoteReset, UserExited
    <3>3. /\ r.user \in Authors /\ r.user # "auto"
          /\ r.vote \in Votes
          /\ r.vote # NoVote <=> EventOf[r.op] = UserVoted
          /\ r.sid \in Sessions
      <4> HIDE DEF r
      <4>1. r.user \in Users /\ r.sid \in Sessions
        BY <3>1 DEF Request
      <4>2. NoVote \notin Points /\ "auto" \notin Users
        BY EventsAssumption
      <4>3. CASE r.op = "vote"
        BY <3>1, <3>2, <4>1, <4>2, <4>3 DEF Authors, Votes
      <4>4. CASE r.op # "vote"
        BY <3>1, <3>2, <4>1, <4>2, <4>4 DEF Authors, Votes
      <4>5. QED
        BY <4>3, <4>4
    <3>4. PICK d \in Ticks :
            /\ clock' = clock + d
            /\ published' = Append(published, Event(EventOf[r.op], r.sid, r.user, r.vote, clock + d))
      BY <2>1 DEF Publish, publishEvent, Event
    <3> HIDE DEF r
    <3>5. QED
      BY <3>2, <3>3, <3>4 DEF r
  <2>2. CASE Announce(t)
    <3>1. request[t].sid \in Sessions
      BY <2>2 DEF Announce, TInv, PlacesOK, PlaceOK, Request
    <3>2. PICK d \in Ticks :
            /\ clock' = clock + d
            /\ published' = Append(published,
                 Event(AutoTerminated, request[t].sid, "auto", NoVote, clock + d))
      BY <2>2 DEF Announce, publishEvent, Event
    <3>3. /\ AutoTerminated \in EventTypes /\ AutoTerminated # UserVoted
          /\ "auto" \in Authors /\ NoVote \in Votes
      BY DEF AutoTerminated, UserVoted, EventTypes, Authors, Votes
    <3>4. QED
      BY <3>1, <3>2, <3>3
  <2>3. QED
    BY <2>1, <2>2, PublishedChange
<1> DEFINE ev == Event(ty, request[t].sid, u, v, clock + d)
<1>2. ev \in Delivery!EventsAt(clock + d)
  BY <1>1 DEF Event, Votes, Delivery!EventsAt, Delivery!EventTypes, Delivery!Authors,
     EventTypes, Authors, Delivery!AutoTerminated, Delivery!UserVoted, AutoTerminated,
     UserVoted, Delivery!SessionCreated, Delivery!UserJoined, Delivery!VoteReset,
     Delivery!UserExited, SessionCreated, UserJoined, VoteReset, UserExited
<1>3. ev.ts = clock + d
  BY DEF Event
<1>4. Delivery!LastTime' = ev.ts
  <2>1. published \in Seq(PokerEvent)
    BY DEF TInv, TypeOK
  <2>2. published' = Append(published, ev)
    BY <1>1
  <2> HIDE DEF ev
  <2>3. published' # <<>> /\ published'[Len(published')] = ev
    BY <2>1, <2>2
  <2>4. QED
    BY <2>3 DEF Delivery!LastTime
<1>5. QED
  BY <1>1, <1>2, <1>3, <1>4 DEF ClockInv

LEMMA ClockNext ==
  TInv /\ VotesOnly /\ ClockInv /\ [Next]_vars => ClockInv'
<1> SUFFICES ASSUME TInv, VotesOnly, ClockInv, [Next]_vars PROVE ClockInv'
  OBVIOUS
<1>1. CASE UNCHANGED vars
  BY <1>1 DEF vars, ClockInv, Delivery!LastTime
<1>2. ASSUME NEW t \in Threads, Step(t) PROVE ClockInv'
  <2>1. CASE published' # published
    BY <1>2, <2>1, PublishedIsAnEvent
  <2>2. CASE published' = published
    <3>1. ~Publish(t) /\ ~Announce(t)
      BY <1>2, <2>2, PublishedChange DEF TInv, TypeOK
    <3>2. clock' = clock
      BY <1>2, <3>1 DEF Step, Arrival, createSession, Receive, ServiceStep, LookupFound,
         LookupNotFound, ValidateMember, ValidateStranger, joinSession, vote, exitSession,
         resetScan, resetWipe, resetWiped, CheckEmpty, Terminate, broadcastEvents, eventVars
    <3>3. QED
      BY <2>2, <3>2 DEF ClockInv, Delivery!LastTime
  <2>3. QED
    BY <2>1, <2>2
<1>3. QED
  BY <1>1, <1>2 DEF Next, Step

-----------------------------------------------------------------------------
(***************************************************************************)
(* The bound of the delivery side leaves room for every event of the       *)
(* service: a request publishes two at most, an exit that has published    *)
(* its first one more.                                                     *)
(***************************************************************************)
Exiting == {t \in Threads : pc[t] \in {"check", "terminate", "announce"}}

Working == {t \in Threads : pc[t] # "idle"} \ Exiting

BudgetInv ==
  /\ IsFiniteSet(Working) /\ IsFiniteSet(Exiting)
  /\ Len(published) + 2 * Cardinality(Working) + Cardinality(Exiting) <= 2 * accepted
  /\ accepted <= MaxRequests

\* How a step of thread t moves it, what it publishes and what it is charged
Moves(t) ==
  \/ /\ Working' = Working \cup {t} /\ t \notin Working /\ Exiting' = Exiting
     /\ accepted' = accepted + 1 /\ accepted < MaxRequests /\ published' = published
  \/ /\ Working' = Working /\ Exiting' = Exiting
     /\ accepted' = accepted /\ published' = published
  \/ /\ Working' = Working \ {t} /\ t \in Working /\ Exiting' = Exiting
     /\ accepted' = accepted /\ Len(published') <= Len(published) + 1
  \/ /\ Working' = Working \ {t} /\ t \in Working
     /\ Exiting' = Exiting \cup {t} /\ t \notin Exiting
     /\ accepted' = accepted /\ Len(published') <= Len(published) + 1
  \/ /\ Working' = Working /\ Exiting' = Exiting \ {t} /\ t \in Exiting
     /\ accepted' = accepted /\ Len(published') <= Len(published) + 1

LEMMA StepMoves == ASSUME TInv, NEW t \in Threads, Step(t) PROVE Moves(t)
<1> USE DEF TInv, TypeOK, PlacesOK, PlaceOK
<1>1. \A x \in Threads \ {t} : pc'[x] = pc[x]
  BY OthersStay
<1>2. published' # published => Len(published') = Len(published) + 1
  BY PublishedChange
<1>3. CASE Arrival(t)
  <2>1. /\ pc[t] = "idle" /\ pc'[t] \in {"publish", "lookup"}
        /\ accepted' = accepted + 1 /\ accepted < MaxRequests /\ published' = published
    BY <1>3 DEF Arrival, createSession, Receive, eventVars
  <2>2. t \notin Working /\ Exiting' = Exiting /\ Working' = Working \cup {t}
    BY <1>1, <2>1 DEF Working, Exiting
  <2>3. QED
    BY <2>1, <2>2 DEF Moves
<1>4. CASE Publish(t)
  <2>1. /\ pc[t] = "publish" /\ pc'[t] \in {"idle", "check"} /\ accepted' = accepted
        /\ pc'[t] = "check" => t \notin Exiting
    BY <1>4 DEF Publish, Goto, Return, Exiting
  <2>2. Working' = Working \ {t} /\ t \in Working
    BY <1>1, <2>1 DEF Working, Exiting
  <2>3. Exiting' = IF pc'[t] = "check" THEN Exiting \cup {t} ELSE Exiting
    BY <1>1, <2>1 DEF Exiting
  <2>4. Len(published') <= Len(published) + 1
    BY <1>2
  <2>5. QED
    BY <2>1, <2>2, <2>3, <2>4 DEF Moves
<1>5. CASE CheckEmpty(t) \/ Terminate(t) \/ Announce(t)
  <2>1. /\ pc[t] \in {"check", "terminate", "announce"}
        /\ pc'[t] \in {"idle", "terminate", "announce"} /\ accepted' = accepted
        /\ pc'[t] # "idle" => published' = published
    BY <1>5 DEF CheckEmpty, Terminate, Announce, Goto, Return, eventVars
  <2>2. Working' = Working /\ t \in Exiting
    BY <1>1, <2>1 DEF Working, Exiting
  <2>3. Exiting' = IF pc'[t] = "idle" THEN Exiting \ {t} ELSE Exiting
    BY <1>1, <2>1 DEF Exiting
  <2>4. Len(published') <= Len(published) + 1
    BY <1>2
  <2>5. QED
    BY <2>1, <2>2, <2>3, <2>4 DEF Moves
<1>6. CASE ~(\/ Arrival(t) \/ Publish(t)
             \/ CheckEmpty(t) \/ Terminate(t) \/ Announce(t))
  <2>1. /\ pc[t] \notin {"idle", "check", "terminate", "announce"}
        /\ pc'[t] \notin {"check", "terminate", "announce"}
        /\ accepted' = accepted
    BY <1>6 DEF Step, ServiceStep, LookupFound, LookupNotFound, ValidateMember,
       ValidateStranger, joinSession, vote, exitSession, resetScan, resetWipe, resetWiped,
       broadcastEvents, Goto, Return, Body, Operations
  <2>2. published' = published
    BY <1>6, PublishedChange
  <2>3. Exiting' = Exiting /\ t \in Working
    BY <1>1, <2>1 DEF Working, Exiting
  <2>4. Working' = IF pc'[t] = "idle" THEN Working \ {t} ELSE Working
    BY <1>1, <2>1 DEF Working, Exiting
  <2>5. QED
    BY <2>1, <2>2, <2>3, <2>4 DEF Moves
<1>7. QED
  BY <1>3, <1>4, <1>5, <1>6

LEMMA BudgetNext == TInv /\ BudgetInv /\ [Next]_vars => BudgetInv'
<1> SUFFICES ASSUME TInv, BudgetInv, [Next]_vars PROVE BudgetInv'
  OBVIOUS
<1>1. CASE UNCHANGED vars
  BY <1>1 DEF vars, BudgetInv, Working, Exiting
<1>2. ASSUME NEW t \in Threads, Step(t) PROVE BudgetInv'
  <2> DEFINE w == Cardinality(Working)
             e == Cardinality(Exiting)
  <2>1. w \in Nat /\ e \in Nat
    BY FS_CardinalityType DEF BudgetInv
  <2>2. Len(published) \in Nat /\ Len(published') \in Nat /\ accepted \in Nat
    BY TypeNext DEF TInv, TypeOK
  <2>3. /\ IsFiniteSet(Working \cup {t}) /\ IsFiniteSet(Working \ {t})
        /\ t \notin Working => Cardinality(Working \cup {t}) = w + 1
        /\ t \in Working => Cardinality(Working \ {t}) = w - 1
    BY FS_AddElement, FS_RemoveElement DEF BudgetInv
  <2>4. /\ IsFiniteSet(Exiting \cup {t}) /\ IsFiniteSet(Exiting \ {t})
        /\ t \notin Exiting => Cardinality(Exiting \cup {t}) = e + 1
        /\ t \in Exiting => Cardinality(Exiting \ {t}) = e - 1
    BY FS_AddElement, FS_RemoveElement DEF BudgetInv
  <2>5. Moves(t)
    BY <1>2, StepMoves
  <2> DEFINE n == Len(published)
  <2>6. n + 2 * w + e <= 2 * accepted /\ accepted <= MaxRequests /\ MaxRequests \in Nat
    BY ServiceAssumption DEF BudgetInv
  <2>7. /\ IsFiniteSet(Working') /\ Cardinality(Working') \in Nat
        /\ IsFiniteSet(Exiting') /\ Cardinality(Exiting') \in Nat
    <3>1. IsFiniteSet(Working') /\ IsFiniteSet(Exiting')
      BY <2>3, <2>4, <2>5 DEF BudgetInv, Moves
    <3>2. QED
      BY <3>1, FS_CardinalityType
  <2> DEFINE n1 == Len(published')
             w1 == Cardinality(Working')
             e1 == Cardinality(Exiting')
  <2>8. n1 + 2 * w1 + e1 <= 2 * accepted' /\ accepted' <= MaxRequests
    <3>1. \/ /\ w1 = w + 1 /\ e1 = e /\ n1 = n
             /\ accepted' = accepted + 1 /\ accepted < MaxRequests
          \/ w1 = w /\ e1 = e /\ accepted' = accepted /\ n1 = n
          \/ w1 = w - 1 /\ e1 \in {e, e + 1} /\ accepted' = accepted /\ n1 <= n + 1
          \/ w1 = w /\ e1 = e - 1 /\ accepted' = accepted /\ n1 <= n + 1
      BY <2>3, <2>4, <2>5 DEF Moves
    <3>2. n \in Nat /\ n1 \in Nat /\ w1 \in Nat /\ e1 \in Nat
      BY <2>2, <2>7
    <3> HIDE DEF n, w, e, n1, w1, e1
    <3>3. n1 + 2 * w1 + e1 <= 2 * accepted'
      <4>1. CASE w1 = w + 1 /\ e1 = e /\ accepted' = accepted + 1 /\ n1 = n
        BY <2>1, <2>2, <2>6, <3>2, <4>1
      <4>2. CASE w1 = w /\ e1 = e /\ accepted' = accepted /\ n1 = n
        BY <2>6, <4>2
      <4>3. CASE w1 = w - 1 /\ e1 \in {e, e + 1} /\ accepted' = accepted /\ n1 <= n + 1
        BY <2>1, <2>2, <2>6, <3>2, <4>3
      <4>4. CASE w1 = w /\ e1 = e - 1 /\ accepted' = accepted /\ n1 <= n + 1
        BY <2>1, <2>2, <2>6, <3>2, <4>4
      <4>5. QED
        BY <3>1, <4>1, <4>2, <4>3, <4>4
    <3>4. QED
      BY <2>2, <2>6, <3>1, <3>3
  <2>9. QED
    BY <2>7, <2>8 DEF BudgetInv
<1>3. QED
  BY <1>1, <1>2 DEF Next, Step

\* There is room for the event of the next step.
LEMMA RoomToPublish ==
  ASSUME TInv, BudgetInv, NEW t \in Threads, Step(t), published' # published
  PROVE  Len(published) < MaxEvents
<1>1. t \in Working \/ t \in Exiting
  BY PublishedChange DEF Publish, Announce, Working, Exiting
<1>2. Cardinality(Working) \in Nat /\ Cardinality(Exiting) \in Nat
  BY FS_CardinalityType DEF BudgetInv
<1>3. Cardinality(Working) > 0 \/ Cardinality(Exiting) > 0
  BY <1>1, <1>2, FS_EmptySet DEF BudgetInv
<1>4. Len(published) \in Nat /\ accepted \in Nat
  BY DEF TInv, TypeOK
<1>5. QED
  BY <1>2, <1>3, <1>4, ServiceAssumption DEF BudgetInv

-----------------------------------------------------------------------------
ServerInv == TInv /\ IdsInv /\ OrderInv /\ VotesOnly /\ ClockInv /\ BudgetInv

LEMMA ServerAlways == ServerSpec => []ServerInv
<1>1. ServerInit => Init
  BY DEF ServerInit
<1>2. Init => IdsInv /\ OrderInv /\ VotesOnly /\ ClockInv /\ BudgetInv
  <2>1. Init => IdsInv /\ OrderInv /\ VotesOnly
    BY DEF Init, IdsInv, Members, BeyondLookup, OrderInv, Creating, VotesOnly
  <2>2. Init => ClockInv
    BY DEF Init, ClockInv, Delivery!LastTime
  <2>3. ASSUME Init PROVE BudgetInv
    <3>1. Working = {} /\ Exiting = {}
      BY <2>3 DEF Init, Working, Exiting
    <3>2. Len(published) = 0 /\ accepted = 0
      BY <2>3 DEF Init
    <3>3. QED
      BY <3>1, <3>2, FS_EmptySet, ServiceAssumption DEF BudgetInv
  <2>4. QED
    BY <2>1, <2>2, <2>3
<1>3. QED
  BY <1>1, <1>2, ServiceSide, TypeInit, TypeNext, IdsNext, OrderNext, VotesOnlyNext, ClockNext,
     BudgetNext, PTL DEF ServerSpec, ServerInv

\* What a step of the service is to the listeners
LEMMA ServiceDelivers ==
  ASSUME ServerInv, NEW t \in Threads, Arrival(t) \/ ServiceStep(t), UNCHANGED deliverySide
  PROVE  [Delivery!DeliveryNext]_(Delivery!deliveryVars)
<1> USE DEF ServerInv
<1>1. Step(t)
  BY DEF Step
<1>2. CASE published' = published
  BY <1>2 DEF deliverySide, Delivery!deliveryVars, Delivery!listenerVars, Delivery!queueVars
<1>3. CASE published' # published
  <2>1. PICK d \in Ticks : \E ev \in Delivery!EventsAt(Delivery!LastTime + d) :
          published' = Append(published, ev)
    BY <1>1, <1>3, PublishedIsAnEvent
  <2>2. PICK ev \in Delivery!EventsAt(Delivery!LastTime + d) : published' = Append(published, ev)
    BY <2>1
  <2>3. PICK i \in DOMAIN published' :
          published' = Append(published, published'[i]) /\ MayFollow(published'[i])
    BY <1>1, <1>3, PublishMayFollow
  <2>4. published'[i] = ev
    <3>1. published \in Seq(PokerEvent)
      BY DEF TInv, TypeOK
    <3>2. /\ published'[Len(published) + 1] = ev
          /\ published'[Len(published) + 1] = published'[i]
      BY <2>2, <2>3, <3>1, AppendedIsThere
    <3>3. QED
      BY <3>2
  <2>5. Delivery!MayFollow(ev)
    BY <2>3, <2>4 DEF MayFollow, Delivery!MayFollow, Occurred, Delivery!Occurred,
       SessionCreated, Delivery!SessionCreated, UserExited, Delivery!UserExited,
       AutoTerminated, Delivery!AutoTerminated
  <2>6. Len(published) < MaxEvents
    BY <1>1, <1>3, RoomToPublish
  <2>7. Delivery!MulticastEvent(ev) /\ UNCHANGED streams
    BY <2>2, <2>5, <2>6 DEF Delivery!MulticastEvent, deliverySide, Delivery!queueVars
  <2>8. Delivery!DeliveryNext
    BY <2>7 DEF Delivery!DeliveryNext
  <2>9. QED
    BY <2>8
<1>4. QED
  BY <1>2, <1>3

LEMMA ServerDelivers ==
  ServerInv /\ [ServerNext]_serverVars => [Delivery!DeliveryNext]_(Delivery!deliveryVars)
<1> SUFFICES ASSUME ServerInv, [ServerNext]_serverVars
             PROVE  [Delivery!DeliveryNext]_(Delivery!deliveryVars)
  OBVIOUS
<1>1. CASE UNCHANGED serverVars
  BY <1>1 DEF serverVars, vars, deliverySide, Delivery!deliveryVars, Delivery!listenerVars,
     Delivery!queueVars
<1>2. ASSUME NEW t \in Threads, Arrival(t) \/ ServiceStep(t), UNCHANGED deliverySide
      PROVE  [Delivery!DeliveryNext]_(Delivery!deliveryVars)
  BY <1>2, ServiceDelivers
<1>3. ASSUME NEW t \in Threads, NEW k \in Streams, FetchVotes(t, k)
      PROVE  Delivery!DeliveryNext
  <2>1. request[t].sid \in Sessions /\ request[t].user \in Users
    BY <1>3 DEF FetchVotes, broadcastEvents, ServerInv, TInv, PlacesOK, PlaceOK, Request
  <2>2. Delivery!OpenStream(k, request[t].sid, request[t].user)
    BY <1>3 DEF FetchVotes
  <2>3. QED
    BY <2>1, <2>2 DEF Delivery!DeliveryNext
<1>4. ASSUME NEW n \in Delivery!Ids, Delivery!HandlerStep(n), UNCHANGED <<vars, streams>>
      PROVE  Delivery!DeliveryNext
  BY <1>4 DEF Delivery!DeliveryNext
<1>5. ASSUME NEW k \in Streams, Delivery!StreamStep(k) \/ Delivery!CloseEmitter(k)
      PROVE  Delivery!DeliveryNext
  BY <1>5 DEF Delivery!DeliveryNext
<1>6. QED
  BY <1>1, <1>2, <1>3, <1>4, <1>5 DEF ServerNext

(***************************************************************************)
(* The whole server is a server VoteStreams allows: the service hands the  *)
(* listeners only events they are made for, in an order they can live      *)
(* with, and never more than their bound, and opens streams for users      *)
(* only.  So what is proved of every such environment holds in the server. *)
(***************************************************************************)
THEOREM DeliveryImplemented == ServerSpec => ImplementsDelivery
<1>1. ServerInit => Delivery!DeliveryInit
  BY DEF ServerInit, Init, Delivery!DeliveryInit, Delivery!ListenersInit
<1>2. QED
  BY <1>1, ServerAlways, ServerDelivers, PTL DEF ServerSpec, ImplementsDelivery,
     Delivery!DeliverySpec

-----------------------------------------------------------------------------
(***************************************************************************)
(* The delivery side once more, with what is proved about it: the two      *)
(* instances are of the same definitions.                                  *)
(***************************************************************************)
Proved == INSTANCE VoteStreamsProofs

\* The assumptions the proofs of the delivery side rest on
LEMMA DeliveryAssumptions == Proved!EventsAssumption /\ Proved!QueuesAssumption
BY EventsAssumption, ServiceAssumption DEF Proved!EventsAssumption, Proved!QueuesAssumption

LEMMA SameInit == Delivery!DeliveryInit => Proved!DeliveryInit
BY DEF Delivery!DeliveryInit, Proved!DeliveryInit, Delivery!ListenersInit, Proved!ListenersInit,
   Delivery!QueuesInit, Proved!QueuesInit, Delivery!StreamsInit, Proved!StreamsInit,
   Delivery!Unopened, Proved!Unopened, Delivery!Idle, Proved!Idle, Delivery!Null, Proved!Null,
   Delivery!Ids, Proved!Ids

LEMMA SameTraversals ==
  /\ Delivery!Null = Proved!Null /\ Delivery!Ids = Proved!Ids
  /\ \A m : Delivery!QueuesOf(m) = Proved!QueuesOf(m)
  /\ \A n : Delivery!MeetingsOf(n) = Proved!MeetingsOf(n)
  /\ \A n, q, l : Delivery!Meet(n, q, l) => Proved!Meet(n, q, l)
  /\ \A n, q : Delivery!Miss(n, q) => Proved!Miss(n, q)
BY DEF Delivery!Null, Proved!Null, Delivery!Ids, Proved!Ids, Delivery!QueuesOf, Proved!QueuesOf,
   Delivery!MeetingsOf, Proved!MeetingsOf, Delivery!Traversing, Proved!Traversing,
   Delivery!MayMeet, Proved!MayMeet, Delivery!OfOthers, Proved!OfOthers, Delivery!Meet,
   Proved!Meet, Delivery!Miss, Proved!Miss, Delivery!InMap, Proved!InMap, Delivery!QueueIn,
   Proved!QueueIn, Delivery!Clears, Proved!Clears, Delivery!AutoTerminated,
   Proved!AutoTerminated

LEMMA SameHandlers ==
  ASSUME NEW n, Delivery!HandlerStep(n) PROVE Proved!HandlerStep(n)
<1> USE DEF Delivery!At, Proved!At, Delivery!Goto, Proved!Goto, Delivery!Finish, Proved!Finish,
    Delivery!Idle, Proved!Idle, Delivery!Null, Proved!Null, Delivery!MapOf, Proved!MapOf,
    Delivery!QueueIn, Proved!QueueIn, Delivery!SetQueueIn, Proved!SetQueueIn, Delivery!Creates,
    Proved!Creates, Delivery!Clears, Proved!Clears, Delivery!Broadcasts, Proved!Broadcasts,
    Delivery!SessionCreated, Proved!SessionCreated, Delivery!UserJoined, Proved!UserJoined,
    Delivery!UserVoted, Proved!UserVoted, Delivery!VoteReset, Proved!VoteReset,
    Delivery!UserExited, Proved!UserExited, Delivery!AutoTerminated, Proved!AutoTerminated,
    Delivery!EventTypes, Proved!EventTypes
<1>1. /\ Delivery!SessionKnown(n) => Proved!SessionKnown(n)
      /\ Delivery!SessionUnknown(n) => Proved!SessionUnknown(n)
      /\ Delivery!clearUserEventQueue(n) => Proved!clearUserEventQueue(n)
      /\ Delivery!Install(n) => Proved!Install(n)
      /\ Delivery!Probe(n) => Proved!Probe(n)
      /\ Delivery!GetQueue(n) => Proved!GetQueue(n)
  BY DEF Delivery!SessionKnown, Proved!SessionKnown, Delivery!SessionUnknown,
     Proved!SessionUnknown, Delivery!clearUserEventQueue, Proved!clearUserEventQueue,
     Delivery!Install, Proved!Install, Delivery!Probe, Proved!Probe, Delivery!GetQueue,
     Proved!GetQueue
<1>2. Delivery!GetMap(n) => Proved!GetMap(n)
  BY DEF Delivery!GetMap, Proved!GetMap, Delivery!NextAfterGet, Proved!NextAfterGet,
     Delivery!QueuesOf, Proved!QueuesOf
<1>3. /\ Delivery!ClearEvents(n) => Proved!ClearEvents(n)
      /\ Delivery!Disable(n) => Proved!Disable(n)
      /\ Delivery!RemoveQueue(n) => Proved!RemoveQueue(n)
      /\ Delivery!AddEvent(n) => Proved!AddEvent(n)
      /\ Delivery!VisitedAll(n) => Proved!VisitedAll(n)
      /\ Delivery!SweptAll(n) => Proved!SweptAll(n)
      /\ Delivery!Detach(n) => Proved!Detach(n)
      /\ \A u : Delivery!Wipe(n, u) => Proved!Wipe(n, u)
  BY DEF Delivery!ClearEvents, Proved!ClearEvents, Delivery!Disable, Proved!Disable,
     Delivery!RemoveQueue, Proved!RemoveQueue, Delivery!AddEvent, Proved!AddEvent,
     Delivery!VisitedAll, Proved!VisitedAll, Delivery!SweptAll, Proved!SweptAll,
     Delivery!Detach, Proved!Detach, Delivery!Wipe, Proved!Wipe
<1>4. Delivery!IsEmpty(n) => Proved!IsEmpty(n)
  BY DEF Delivery!IsEmpty, Proved!IsEmpty, Delivery!QueuesOf, Proved!QueuesOf
<1>5. Delivery!PutQueue(n) => Proved!PutQueue(n)
  <2>1. Delivery!MeetingsOf(n) = Proved!MeetingsOf(n) /\ Delivery!Ids = Proved!Ids
    BY SameTraversals
  <2>2. QED
    BY <2>1 DEF Delivery!PutQueue, Proved!PutQueue
<1>6. \A q : /\ Delivery!Visit(n, q) => Proved!Visit(n, q)
             /\ Delivery!Sweep(n, q) => Proved!Sweep(n, q)
  BY SameTraversals DEF Delivery!Visit, Proved!Visit, Delivery!Sweep, Proved!Sweep
<1>7. Delivery!Ids = Proved!Ids
  BY SameTraversals
<1>8. QED
  BY <1>1, <1>2, <1>3, <1>4, <1>5, <1>6, <1>7 DEF Delivery!HandlerStep, Proved!HandlerStep

LEMMA SameStreams ==
  ASSUME NEW k PROVE /\ Delivery!StreamStep(k) => Proved!StreamStep(k)
                     /\ Delivery!CloseEmitter(k) => Proved!CloseEmitter(k)
                     /\ \A s, u : Delivery!OpenStream(k, s, u) => Proved!OpenStream(k, s, u)
BY DEF Delivery!StreamStep, Proved!StreamStep, Delivery!GetEventEmitter, Proved!GetEventEmitter,
   Delivery!ConsumerStep, Proved!ConsumerStep, Delivery!ContainsSession, Proved!ContainsSession,
   Delivery!GetUserMap, Proved!GetUserMap, Delivery!ContainsUser, Proved!ContainsUser,
   Delivery!execute, Proved!execute, Delivery!Advance, Proved!Advance, Delivery!IsActive,
   Proved!IsActive, Delivery!NoQueue, Proved!NoQueue, Delivery!Earliest, Proved!Earliest,
   Delivery!Take, Proved!Take, Delivery!Send, Proved!Send, Delivery!SendFails, Proved!SendFails,
   Delivery!SendTooLate, Proved!SendTooLate, Delivery!Complete, Proved!Complete,
   Delivery!CloseEmitter, Proved!CloseEmitter, Delivery!OpenStream, Proved!OpenStream,
   Delivery!Null, Proved!Null, Delivery!UserVoted, Proved!UserVoted, Delivery!VoteReset,
   Proved!VoteReset, Delivery!listenerVars, Proved!listenerVars, Delivery!queueVars,
   Proved!queueVars

LEMMA SameEvents ==
  /\ Delivery!LastTime = Proved!LastTime
  /\ \A x : Delivery!EventsAt(x) = Proved!EventsAt(x)
  /\ \A ev : Delivery!MulticastEvent(ev) => Proved!MulticastEvent(ev)
BY DEF Delivery!MulticastEvent, Proved!MulticastEvent, Delivery!EventsAt, Proved!EventsAt,
   Delivery!Authors, Proved!Authors, Delivery!LastTime, Proved!LastTime, Delivery!MayFollow,
   Proved!MayFollow, Delivery!Occurred, Proved!Occurred, Delivery!queueVars, Proved!queueVars,
   Delivery!SessionCreated, Proved!SessionCreated, Delivery!UserJoined, Proved!UserJoined,
   Delivery!UserVoted, Proved!UserVoted, Delivery!VoteReset, Proved!VoteReset,
   Delivery!UserExited, Proved!UserExited, Delivery!AutoTerminated, Proved!AutoTerminated,
   Delivery!EventTypes, Proved!EventTypes

LEMMA SameNext ==
  [Delivery!DeliveryNext]_(Delivery!deliveryVars) => [Proved!DeliveryNext]_(Proved!deliveryVars)
<1>1. Delivery!deliveryVars = Proved!deliveryVars /\ Delivery!Ids = Proved!Ids
  BY DEF Delivery!deliveryVars, Proved!deliveryVars, Delivery!listenerVars, Proved!listenerVars,
   Delivery!queueVars, Proved!queueVars, Delivery!Ids, Proved!Ids
<1>2. Delivery!DeliveryNext => Proved!DeliveryNext
  BY <1>1, SameHandlers, SameStreams, SameEvents DEF Delivery!DeliveryNext, Proved!DeliveryNext
<1>3. QED
  BY <1>2 DEF Delivery!deliveryVars, Proved!deliveryVars, Delivery!listenerVars, Proved!listenerVars,
   Delivery!queueVars, Proved!queueVars

LEMMA SameSettled == Delivery!Settled' => Proved!Settled'
BY DEF Delivery!Settled, Proved!Settled, Delivery!Handled, Proved!Handled, Delivery!Finished,
   Proved!Finished, Delivery!Broadcasts, Proved!Broadcasts, Delivery!UserVoted, Proved!UserVoted,
   Delivery!VoteReset, Proved!VoteReset

(***************************************************************************)
(* When nothing is left to be handled, whoever is in a session that exists *)
(* and has been announced in it can be sent its votes: there is a queue in *)
(* use, whatever requests of any number of users interleaved to get there  *)
(* (createUserEventQueue, clearSession, getEventEmitter).  A session that  *)
(* exists has not been announced terminated, and the listeners, given the  *)
(* time to settle, leave every announced user of such a session its queue. *)
(***************************************************************************)
THEOREM MembersCanBeServed == SettledServerSpec => []MembersHaveQueues
<1>1. SettledServerSpec => ServerSpec
  <2>1. [ServerNext /\ Delivery!Settled']_serverVars => [ServerNext]_serverVars
    OBVIOUS
  <2>2. QED
    BY <2>1, PTL DEF SettledServerSpec, ServerSpec
<1>2. SettledServerSpec => []TerminationsAreAnnounced
  <2>1. ServerInit => Init
    BY DEF ServerInit
  <2>2. QED
    BY <1>1, <2>1, ServiceSide, TerminationsAgree, PTL DEF ServerSpec, Spec
<1>3. SettledServerSpec => Proved!SettledDeliverySpec
  <2>1. ServerInit => Proved!DeliveryInit
    BY SameInit DEF ServerInit, Init, Delivery!DeliveryInit, Delivery!ListenersInit
  <2>2. ASSUME ServerInv, [ServerNext /\ Delivery!Settled']_serverVars
        PROVE  [Proved!DeliveryNext /\ Proved!Settled']_(Proved!deliveryVars)
    <3>1. CASE UNCHANGED serverVars
      BY <3>1 DEF serverVars, vars, deliverySide, Proved!deliveryVars, Proved!listenerVars,
         Proved!queueVars
    <3>2. CASE ServerNext /\ Delivery!Settled'
      BY <2>2, <3>2, ServerDelivers, SameNext, SameSettled
    <3>3. QED
      BY <2>2, <3>1, <3>2
  <2>3. QED
    BY <1>1, <2>1, <2>2, ServerAlways, PTL DEF SettledServerSpec, Proved!SettledDeliverySpec
<1>4. SettledServerSpec => []Proved!AnnouncedHaveQueues
  BY <1>3, DeliveryAssumptions, Proved!AnnouncedUsersHaveQueues, PTL
<1>5. TypeOK /\ TerminationsAreAnnounced /\ Proved!AnnouncedHaveQueues => MembersHaveQueues
  <2> SUFFICES ASSUME TypeOK, TerminationsAreAnnounced, Proved!AnnouncedHaveQueues,
                      Delivery!AllHandled, NEW s \in pokerSessions, NEW u \in Members(s),
                      Announced(s, u)
               PROVE  /\ Delivery!Registered(s, u) # Delivery!Null
                      /\ eventQueues[Delivery!Registered(s, u)].active
    BY DEF MembersHaveQueues
  <2>1. s \in Sessions /\ u \in Users /\ ~Occurred(AutoTerminated, s)
    BY DEF TypeOK, TerminationsAreAnnounced, Members
  <2>2. Proved!AllHandled
    BY DEF Delivery!AllHandled, Proved!AllHandled, Delivery!Handled, Proved!Handled,
       Delivery!Finished, Proved!Finished
  <2>3. Proved!Announced(s, u) /\ ~Proved!Occurred(Proved!AutoTerminated, s)
    BY <2>1 DEF Announced, Proved!Announced, Occurred, Proved!Occurred, AutoTerminated,
       Proved!AutoTerminated, SessionCreated, Proved!SessionCreated, UserJoined,
       Proved!UserJoined
  <2>4. Delivery!Registered(s, u) = Proved!Registered(s, u) /\ Delivery!Null = Proved!Null
    BY DEF Delivery!Registered, Proved!Registered, Delivery!Null, Proved!Null
  <2>5. QED
    BY <2>1, <2>2, <2>3, <2>4 DEF Proved!AnnouncedHaveQueues
<1>6. QED
  BY <1>1, <1>2, <1>4, <1>5, ServerAlways, PTL DEF ServerInv, TInv

=============================================================================
