------------------------ MODULE PokerSessionsProofs ------------------------
(***************************************************************************)
(* Theorems about the poker service for any number of users, sessions,     *)
(* request threads and requests.                                           *)
(***************************************************************************)
EXTENDS PokerSessions, TLAPS

(***************************************************************************)
(* What the place of a thread says about its request: the missing part of  *)
(* the inductive invariant.                                                *)
(***************************************************************************)
PlaceOK(t) ==
  /\ pc[t] = "idle" => request[t] = NoRequest
  /\ pc[t] # "idle" =>
       request[t] \in Request /\ (request[t].op = "vote" => request[t].vote \in Points)
  /\ pc[t] \in {"lookup", "validate"} => request[t].op \in Operations
  /\ pc[t] = "validate" => request[t].op # "join"
  /\ pc[t] = "put" => request[t].op = "join"
  /\ pc[t] = "update" => request[t].op = "vote"
  /\ pc[t] \in {"scan", "wipe"} => request[t].op = "reset"
  /\ pc[t] = "publish" => request[t].op \in DOMAIN EventOf
  /\ pc[t] \in {"remove", "check", "terminate", "announce"} => request[t].op = "exit"
  /\ pc[t] = "emitter" => request[t].op = "fetch"

PlacesOK == \A t \in Threads : PlaceOK(t)

TInv == TypeOK /\ PlacesOK

USE EventsAssumption, ServiceAssumption

-----------------------------------------------------------------------------
(***************************************************************************)
(* The events published by publishEvent are events, and nothing else       *)
(* happens to the sequence.                                                *)
(***************************************************************************)
LEMMA PublishTypes ==
  ASSUME published \in Seq(PokerEvent), clock \in Nat,
         NEW ty \in EventTypes, NEW s \in Sessions, NEW u \in Authors,
         NEW v \in Votes, publishEvent(ty, s, u, v)
  PROVE  published' \in Seq(PokerEvent) /\ clock' \in Nat
<1>1. PICK d \in Ticks :
        /\ clock' = clock + d
        /\ published' = Append(published,
             [type |-> ty, sid |-> s, uid |-> u, point |-> v, ts |-> clock + d])
  BY DEF publishEvent
<1>2. d \in Nat
  OBVIOUS
<1>3. [type |-> ty, sid |-> s, uid |-> u, point |-> v, ts |-> clock + d] \in PokerEvent
  BY <1>2 DEF PokerEvent, Votes
<1>4. QED
  BY <1>1, <1>2, <1>3

LEMMA TypeInit == Init => TInv
BY DEF Init, TInv, TypeOK, PlacesOK, PlaceOK, NoRequest, Steps, Votes

\* A thread that is served next, and how it leaves the others alone.
LEMMA TypeNext == TInv /\ [Next]_vars => TInv'
<1> SUFFICES ASSUME TInv, [Next]_vars PROVE TInv'
  OBVIOUS
<1> USE DEF TInv, PlacesOK, PlaceOK, TypeOK
<1>1. ASSUME NEW t \in Threads, NEW s \in Sessions, NEW u \in Users, createSession(t, s, u)
      PROVE  TInv'
  BY <1>1 DEF createSession, Put, scanVars, eventVars, Request, Steps, Votes, EventOf
<1>2. ASSUME NEW t \in Threads, NEW r \in Request, Receive(t, r)
      PROVE  TInv'
  BY <1>2 DEF Receive, Votes, Request, sessionVars, scanVars, eventVars, Steps
<1>3. ASSUME NEW t \in Threads, ServiceStep(t)
      PROVE  TInv'
  <2>1. CASE LookupFound(t)
    BY <2>1 DEF LookupFound, Goto, sessionVars, scanVars, eventVars, Steps, Operations
  <2>2. CASE LookupNotFound(t)
    BY <2>2 DEF LookupNotFound, Return, sessionVars, scanVars, eventVars, Steps
  <2>3. CASE ValidateMember(t)
    BY <2>3, request[t].op \in {"vote", "reset", "exit", "fetch"}
    DEF ValidateMember, Goto, sessionVars, eventVars, Steps, Operations, Body, Request
  <2>4. CASE ValidateStranger(t)
    BY <2>4 DEF ValidateStranger, Return, sessionVars, scanVars, eventVars, Steps
  <2>5. CASE joinSession(t)
    BY <2>5 DEF joinSession, Put, Goto, scanVars, eventVars, Steps, Votes, Request, EventOf
  <2>6. CASE vote(t)
    BY <2>6 DEF vote, Put, Goto, scanVars, eventVars, Steps, Votes, Request, EventOf
  <2>7. CASE exitSession(t)
    BY <2>7 DEF exitSession, Put, Goto, scanVars, eventVars, Steps, Votes, Request, EventOf
  <2>8. ASSUME NEW u \in Users, resetScan(t, u)
        PROVE  TInv'
    BY <2>8 DEF resetScan, Goto, sessionVars, eventVars, Steps
  <2>9. ASSUME NEW u \in Users, resetWipe(t, u)
        PROVE  TInv'
    BY <2>9 DEF resetWipe, Put, eventVars, Steps, Votes, Request
  <2>10. CASE resetWiped(t)
    BY <2>10 DEF resetWiped, Goto, sessionVars, scanVars, eventVars, Steps, EventOf
  <2>11. CASE Publish(t)
    <3>1. /\ request[t] \in Request
          /\ EventOf[request[t].op] \in EventTypes
          /\ request[t].sid \in Sessions
          /\ request[t].user \in Authors
          /\ request[t].vote \in Votes
      BY <2>11 DEF Publish, Request, EventOf, EventTypes, Authors
    <3>2. published' \in Seq(PokerEvent) /\ clock' \in Nat
      BY <2>11, <3>1, PublishTypes DEF Publish
    <3>3. CASE request[t].op = "exit"
      BY <2>11, <3>2, <3>3 DEF Publish, Goto, sessionVars, scanVars, Steps
    <3>4. CASE request[t].op # "exit"
      BY <2>11, <3>2, <3>4 DEF Publish, Return, sessionVars, scanVars, Steps
    <3>5. QED
      BY <3>3, <3>4
  <2>12. CASE CheckEmpty(t)
    BY <2>12 DEF CheckEmpty, Goto, Return, sessionVars, scanVars, eventVars, Steps
  <2>13. CASE Terminate(t)
    BY <2>13 DEF Terminate, Goto, scanVars, eventVars, Steps
  <2>14. CASE Announce(t)
    <3>1. /\ AutoTerminated \in EventTypes
          /\ request[t].sid \in Sessions
          /\ "auto" \in Authors
          /\ NoVote \in Votes
      BY <2>14 DEF Announce, Request, EventTypes, Authors, Votes
    <3>2. published' \in Seq(PokerEvent) /\ clock' \in Nat
      BY <2>14, <3>1, PublishTypes DEF Announce
    <3>3. QED
      BY <2>14, <3>2 DEF Announce, Return, sessionVars, scanVars, Steps
  <2>15. QED
    BY <1>3, <2>1, <2>2, <2>3, <2>4, <2>5, <2>6, <2>7, <2>8, <2>9, <2>10, <2>11, <2>12,
       <2>13, <2>14 DEF ServiceStep
<1>4. ASSUME NEW t \in Threads, broadcastEvents(t)
      PROVE  TInv'
  BY <1>4 DEF broadcastEvents, Return, sessionVars, scanVars, eventVars, Steps
<1>5. CASE UNCHANGED vars
  BY <1>5 DEF vars
<1>6. QED
  BY <1>1, <1>2, <1>3, <1>4, <1>5 DEF Next, Arrival

(***************************************************************************)
(* Every variable of the service always has the type its declaration says, *)
(* the events it publishes included.                                       *)
(***************************************************************************)
THEOREM TypeCorrect == Spec => []TypeOK
<1>1. Spec => []TInv
  BY TypeInit, TypeNext, PTL DEF Spec
<1>2. QED
  BY <1>1, PTL DEF TInv

-----------------------------------------------------------------------------
\* A step of thread t
Step(t) == Arrival(t) \/ ServiceStep(t) \/ broadcastEvents(t)

\* A thread that takes a step leaves the place of all others alone.
LEMMA OthersStay ==
  ASSUME TInv, NEW t \in Threads, Step(t), NEW t2 \in Threads \ {t}
  PROVE  pc'[t2] = pc[t2] /\ request'[t2] = request[t2]
<1> USE DEF TInv, TypeOK
<1>1. CASE Arrival(t)
  BY <1>1 DEF Arrival, createSession, Receive
<1>2. CASE ServiceStep(t)
  BY <1>2 DEF ServiceStep, LookupFound, LookupNotFound, ValidateMember, ValidateStranger,
     joinSession, vote, exitSession, resetScan, resetWipe, resetWiped, Publish, CheckEmpty,
     Terminate, Announce, Goto, Return
<1>3. CASE broadcastEvents(t)
  BY <1>3 DEF broadcastEvents, Return
<1>4. QED
  BY <1>1, <1>2, <1>3 DEF Step

\* participants.put and participants.remove change who is in one session.
LEMMA PutMembers ==
  ASSUME TypeOK, NEW s \in Sessions, NEW u \in Users, NEW v \in Votes \cup {Absent},
         Put(s, u, v), NEW z \in Sessions
  PROVE  Members(z)' = IF z # s THEN Members(z)
                       ELSE IF v = Absent THEN Members(z) \ {u} ELSE Members(z) \cup {u}
BY DEF TypeOK, Put, Members

\* The steps that put a user into a session, and the only one that takes a
\* user out.
LEMMA MembersChange ==
  ASSUME TInv, NEW t \in Threads, Step(t), NEW s \in Sessions
  PROVE  \/ Members(s)' = Members(s)
         \/ \E u \in Users : createSession(t, s, u) /\ Members(s)' = Members(s) \cup {u}
         \/ /\ joinSession(t) \/ vote(t)
            /\ s = request[t].sid /\ Members(s)' = Members(s) \cup {request[t].user}
         \/ \E u \in participantSet[t] :
              /\ resetWipe(t, u)
              /\ s = request[t].sid /\ Members(s)' = Members(s) \cup {u}
         \/ exitSession(t) /\ s = request[t].sid /\ Members(s)' = Members(s) \ {request[t].user}
<1> USE DEF TInv, TypeOK, PlacesOK, PlaceOK
<1>1. CASE UNCHANGED participants
  BY <1>1 DEF Members
<1>2. NoVote \in Votes /\ NoVote # Absent /\ Points \subseteq Votes /\ Absent \notin Points
  BY DEF Votes
<1>3. ASSUME NEW s2 \in Sessions, NEW u \in Users, createSession(t, s2, u)
      PROVE  IF s2 = s THEN Members(s)' = Members(s) \cup {u} ELSE Members(s)' = Members(s)
  BY <1>2, <1>3, PutMembers DEF createSession
<1>4. CASE joinSession(t)
  BY <1>2, <1>4, PutMembers DEF joinSession, Request
<1>5. CASE vote(t)
  <2>1. request[t].vote \in Votes /\ request[t].vote # Absent
    BY <1>2, <1>5 DEF vote
  <2>2. QED
    BY <1>5, <2>1, PutMembers DEF vote, Request
<1>6. CASE exitSession(t)
  BY <1>2, <1>6, PutMembers DEF exitSession, Request
<1>7. ASSUME NEW u \in Users, resetWipe(t, u)
      PROVE  IF s = request[t].sid THEN Members(s)' = Members(s) \cup {u}
             ELSE Members(s)' = Members(s)
  BY <1>2, <1>7, PutMembers DEF resetWipe, Request
<1>8. ASSUME NEW u \in Users, resetWipe(t, u) PROVE u \in participantSet[t]
  BY <1>8 DEF resetWipe
<1>9. \/ UNCHANGED participants
      \/ \E s2 \in Sessions, u \in Users : createSession(t, s2, u)
      \/ joinSession(t) \/ vote(t) \/ exitSession(t)
      \/ \E u \in Users : resetWipe(t, u)
  BY DEF Step, Arrival, Receive, ServiceStep, LookupFound, LookupNotFound, ValidateMember,
     ValidateStranger, resetScan, resetWiped, Publish, CheckEmpty, Terminate, Announce,
     broadcastEvents, sessionVars
<1>10. QED
  BY <1>1, <1>3, <1>4, <1>5, <1>6, <1>7, <1>8, <1>9

\* The repository gains a session only by createSession and loses one only by
\* removePokerSession.
LEMMA RepositoryChange ==
  ASSUME TInv, NEW t \in Threads, Step(t)
  PROVE  \/ pokerSessions' = pokerSessions /\ issued' = issued
         \/ \E s \in Sessions \ issued, u \in Users :
              /\ createSession(t, s, u)
              /\ pokerSessions' = pokerSessions \cup {s} /\ issued' = issued \cup {s}
         \/ Terminate(t) /\ pokerSessions' = pokerSessions \ {request[t].sid} /\ issued' = issued
BY DEF Step, Arrival, createSession, Receive, ServiceStep, LookupFound, LookupNotFound,
   ValidateMember, ValidateStranger, joinSession, vote, exitSession, resetScan, resetWipe,
   resetWiped, Publish, CheckEmpty, Terminate, Announce, broadcastEvents, sessionVars

-----------------------------------------------------------------------------
LEMMA EmptyNext ==
  TInv /\ EmptySessionIsBeingTerminated /\ [Next]_vars => EmptySessionIsBeingTerminated'
<1> SUFFICES ASSUME TInv, EmptySessionIsBeingTerminated, [Next]_vars,
                    NEW s \in pokerSessions', Members(s)' = {}
             PROVE  \E t \in Threads :
                      Serving(t, "exit", s, {"publish", "check", "terminate"})'
  BY DEF EmptySessionIsBeingTerminated
<1>1. CASE UNCHANGED vars
  BY <1>1 DEF vars, EmptySessionIsBeingTerminated, Members, Serving
<1>2. CASE Next
  <2>1. PICK t \in Threads : Step(t)
    BY <1>2 DEF Next, Step
  <2>2. s \in Sessions
    BY <2>1, RepositoryChange DEF TInv, TypeOK
  <2> DEFINE Witness(x) == Serving(x, "exit", s, {"publish", "check", "terminate"})
  \* Whoever takes care of the empty session goes on doing so, unless it is
  \* the thread that takes the step.
  <2>3. ASSUME Members(s) = {}, s \in pokerSessions, ~Witness(t)
        PROVE  \E x \in Threads : Witness(x)'
    <3>1. PICK x \in Threads : Witness(x)
      BY <2>3 DEF EmptySessionIsBeingTerminated
    <3>2. x # t
      BY <2>3, <3>1
    <3>3. pc'[x] = pc[x] /\ request'[x] = request[x]
      BY <2>1, <3>2, OthersStay
    <3>4. Witness(x)'
      BY <3>1, <3>3 DEF Serving
    <3>5. QED
      BY <3>4
  <2>4. CASE Members(s) # {}
    <3>1. exitSession(t) /\ s = request[t].sid
      BY <1>2, <2>1, <2>2, <2>4, MembersChange
    <3>2. pc'[t] = "publish" /\ request'[t] = request[t] /\ request[t].op = "exit"
      BY <3>1 DEF exitSession, Goto, TInv, TypeOK, PlacesOK, PlaceOK
    <3>3. Witness(t)'
      BY <3>1, <3>2 DEF Serving
    <3>4. QED
      BY <3>3
  <2>5. CASE Members(s) = {} /\ ~Witness(t)
    <3>1. s \in pokerSessions
      <4>1. ASSUME NEW u \in Users, createSession(t, s, u)
            PROVE  u \in Members(s)'
        <5>1. NoVote \in Votes /\ NoVote # Absent
          BY DEF Votes
        <5>2. QED
          BY <2>2, <4>1, <5>1, PutMembers DEF createSession, TInv
      <4>2. QED
        BY <2>1, <4>1, RepositoryChange
    <3>2. QED
      BY <2>3, <2>5, <3>1
  <2>6. CASE Members(s) = {} /\ Witness(t)
    <3>1. /\ pc[t] \in {"publish", "check", "terminate"}
          /\ request[t].op = "exit" /\ request[t].sid = s
      BY <2>6 DEF Serving
    <3>2. ~Terminate(t)
      BY <3>1 DEF Terminate
    <3>3. Publish(t) \/ CheckEmpty(t)
      BY <2>1, <3>1, <3>2 DEF Step, Arrival, createSession, Receive, ServiceStep, LookupFound,
         LookupNotFound, ValidateMember, ValidateStranger, joinSession, vote, exitSession,
         resetScan, resetWipe, resetWiped, Announce, broadcastEvents
    <3>4. pc'[t] \in {"check", "terminate"} /\ request'[t] = request[t]
      BY <2>6, <3>1, <3>3 DEF Publish, CheckEmpty, Goto, TInv, TypeOK
    <3>5. Witness(t)'
      BY <3>1, <3>4 DEF Serving
    <3>6. QED
      BY <3>5
  <2>7. QED
    BY <2>4, <2>5, <2>6
<1>3. QED
  BY <1>1, <1>2

(***************************************************************************)
(* A session without participants never stays behind in the repository,    *)
(* for any number of users and request threads: some exit still has its    *)
(* isEmpty() or removePokerSession() ahead of it (exitSession).            *)
(***************************************************************************)
THEOREM EmptySessionsAreBeingTerminated == Spec => []EmptySessionIsBeingTerminated
<1>1. Init => EmptySessionIsBeingTerminated
  BY DEF Init, EmptySessionIsBeingTerminated
<1>2. Spec => []TInv
  BY TypeInit, TypeNext, PTL DEF Spec
<1>3. QED
  BY <1>1, <1>2, EmptyNext, PTL DEF Spec

-----------------------------------------------------------------------------
\* An event as publishEvent makes it
Event(ty, s, u, v, ts) == [type |-> ty, sid |-> s, uid |-> u, point |-> v, ts |-> ts]

\* The events published by a step
LEMMA PublishedChange ==
  ASSUME TInv, NEW t \in Threads, Step(t)
  PROVE  \/ published' = published /\ ~Publish(t) /\ ~Announce(t)
         \/ /\ Publish(t)
            /\ \E ts \in Nat : published' = Append(published,
                 Event(EventOf[request[t].op], request[t].sid, request[t].user,
                       request[t].vote, ts))
         \/ /\ Announce(t)
            /\ \E ts \in Nat : published' = Append(published,
                 Event(AutoTerminated, request[t].sid, "auto", NoVote, ts))
<1>0. ASSUME NEW ty, NEW s, NEW u, NEW v, publishEvent(ty, s, u, v)
    PROVE  \E ts \in Nat : published' = Append(published, Event(ty, s, u, v, ts))
  <2>1. PICK d \in Ticks :
          published' = Append(published, Event(ty, s, u, v, clock + d))
    BY <1>0 DEF publishEvent, Event
  <2>2. clock + d \in Nat
    BY DEF TInv, TypeOK
  <2>3. QED
    BY <2>1, <2>2
<1>1. CASE Publish(t)
  BY <1>0, <1>1 DEF Publish
<1>2. CASE Announce(t)
  BY <1>0, <1>2 DEF Announce
<1>3. CASE ~Publish(t) /\ ~Announce(t)
  BY <1>3 DEF Step, Arrival, createSession, Receive, ServiceStep, LookupFound,
     LookupNotFound, ValidateMember, ValidateStranger, joinSession, vote, exitSession,
     resetScan, resetWipe, resetWiped, CheckEmpty, Terminate, broadcastEvents, eventVars
<1>4. QED
  BY <1>1, <1>2, <1>3

\* What has been published stays published, at its place.
LEMMA PublishedStays ==
  ASSUME TInv, NEW t \in Threads, Step(t)
  PROVE  /\ DOMAIN published \subseteq DOMAIN published'
         /\ \A i \in DOMAIN published : published'[i] = published[i]
         /\ \A i \in DOMAIN published' \ DOMAIN published :
              i = Len(published) + 1 /\ published' = Append(published, published'[i])
<1>1. published \in Seq(PokerEvent)
  BY DEF TInv, TypeOK
<1>2. CASE published' = published
  BY <1>2
<1>3. ASSUME NEW e, published' = Append(published, e)
      PROVE  /\ DOMAIN published \subseteq DOMAIN published'
             /\ \A i \in DOMAIN published : published'[i] = published[i]
             /\ \A i \in DOMAIN published' \ DOMAIN published :
                  i = Len(published) + 1 /\ published' = Append(published, published'[i])
  BY <1>1, <1>3
<1>4. QED
  BY <1>2, <1>3, PublishedChange

\* The new event can be found.
LEMMA AppendedIsThere ==
  ASSUME published \in Seq(PokerEvent), NEW e, published' = Append(published, e)
  PROVE  Len(published) + 1 \in DOMAIN published' /\ published'[Len(published) + 1] = e
OBVIOUS

\* The event a step publishes, field by field
LEMMA PublishedEvent ==
  ASSUME TInv, NEW t \in Threads, Step(t), published' # published
  PROVE  LET n == Len(published) + 1
         IN  /\ n \in DOMAIN published'
             /\ published'[n].sid = request[t].sid
             /\ \/ /\ Publish(t) /\ ~Announce(t)
                   /\ published'[n].type = EventOf[request[t].op]
                   /\ published'[n].uid = request[t].user
                \/ /\ Announce(t) /\ ~Publish(t)
                   /\ published'[n].type = AutoTerminated
<1>1. ~(Publish(t) /\ Announce(t))
  BY DEF Publish, Announce
<1>2. ASSUME NEW ty, NEW s, NEW u, NEW v, NEW ts,
             published' = Append(published, Event(ty, s, u, v, ts))
      PROVE  LET n == Len(published) + 1
             IN  /\ n \in DOMAIN published'
                 /\ published'[n].sid = s
                 /\ published'[n].type = ty
                 /\ published'[n].uid = u
  BY <1>2 DEF Event, TInv, TypeOK
<1>3. QED
  BY <1>1, <1>2, PublishedChange

LEMMA OccurredStays ==
  ASSUME TInv, NEW t \in Threads, Step(t), NEW ty, NEW s, Occurred(ty, s)
  PROVE  Occurred(ty, s)'
BY PublishedStays DEF Occurred

-----------------------------------------------------------------------------
\* A user who has been introduced stays so: the thread that was about to
\* announce it can only do that.
LEMMA IntroducedStays ==
  ASSUME TInv, NEW t \in Threads, Step(t), NEW s, NEW u, Introduced(s, u)
  PROVE  Introduced(s, u)'
<1>1. CASE Announced(s, u)
  BY <1>1, PublishedStays DEF Announced, Introduced
<1>2. ASSUME NEW x \in Threads,
             Serving(x, "create", s, {"publish"}) \/ Serving(x, "join", s, {"publish"}),
             request[x].user = u
      PROVE  Introduced(s, u)'
  <2>1. CASE x # t
    BY <1>2, <2>1, OthersStay DEF Introduced, Serving
  <2>2. CASE x = t
    <3>1. /\ pc[t] = "publish" /\ request[t].op \in {"create", "join"}
          /\ request[t].sid = s /\ request[t].user = u
      BY <1>2, <2>2 DEF Serving
    <3>2. Publish(t)
      BY <3>1 DEF Step, Arrival, createSession, Receive, ServiceStep, LookupFound,
         LookupNotFound, ValidateMember, ValidateStranger, joinSession, vote, exitSession,
         resetScan, resetWipe, resetWiped, CheckEmpty, Terminate, Announce, broadcastEvents
    <3>3. PICK ts \in Nat : published' = Append(published,
            Event(EventOf[request[t].op], s, u, request[t].vote, ts))
      BY <3>1, <3>2, PublishedChange DEF Publish, Announce
    <3>4. EventOf[request[t].op] \in {SessionCreated, UserJoined}
      BY <3>1 DEF EventOf
    <3>5. Announced(s, u)'
      BY <3>3, <3>4, AppendedIsThere DEF Announced, Event, TInv, TypeOK
    <3>6. QED
      BY <3>5 DEF Introduced
  <2>3. QED
    BY <2>1, <2>2
<1>3. QED
  BY <1>1, <1>2 DEF Introduced

(***************************************************************************)
(* Why even a vote or a reset that puts a user back introduces nobody: the *)
(* users these threads hold on to have been introduced themselves.         *)
(***************************************************************************)
HeldIntroduced ==
  \A t \in Threads :
    /\ pc[t] = "update" => Introduced(request[t].sid, request[t].user)
    /\ participantSet[t] # {} => pc[t] \in {"scan", "wipe"}
    /\ \A u \in participantSet[t] : Introduced(request[t].sid, u)

IntroInv == MembersWereIntroduced /\ HeldIntroduced

LEMMA IntroNext == TInv /\ IntroInv /\ [Next]_vars => IntroInv'
<1> SUFFICES ASSUME TInv, IntroInv, [Next]_vars PROVE IntroInv'
  OBVIOUS
<1>1. CASE UNCHANGED vars
  BY <1>1 DEF vars, IntroInv, MembersWereIntroduced, HeldIntroduced, Members, Introduced,
     Announced, Serving
<1>2. ASSUME NEW t \in Threads, Step(t) PROVE IntroInv'
  <2> USE DEF TInv, TypeOK, PlacesOK, PlaceOK
  <2>1. ASSUME NEW s \in Sessions, NEW u \in Members(s)' PROVE Introduced(s, u)'
    <3>1. CASE u \in Members(s)
      BY <1>2, <3>1, IntroducedStays DEF IntroInv, MembersWereIntroduced
    <3>2. CASE createSession(t, s, u)
      BY <1>2, <3>2 DEF createSession, Introduced, Serving
    <3>3. CASE joinSession(t) /\ s = request[t].sid /\ u = request[t].user
      BY <1>2, <3>3 DEF joinSession, Goto, Introduced, Serving
    <3>4. CASE vote(t) /\ s = request[t].sid /\ u = request[t].user
      BY <1>2, <3>4, IntroducedStays DEF vote, IntroInv, HeldIntroduced
    <3>5. CASE s = request[t].sid /\ u \in participantSet[t]
      BY <1>2, <3>5, IntroducedStays DEF IntroInv, HeldIntroduced
    <3>6. QED
      <4>1. u \in Users
        BY DEF Members
      <4>2. QED
        BY <1>2, <2>1, <3>1, <3>2, <3>3, <3>4, <3>5, <4>1, MembersChange
  <2>2. ASSUME NEW x \in Threads \ {t}
        PROVE  /\ pc'[x] = "update" => Introduced(request[x].sid, request[x].user)'
               /\ participantSet'[x] # {} => pc'[x] \in {"scan", "wipe"}
               /\ \A u \in participantSet'[x] : Introduced(request[x].sid, u)'
    <3>1. pc'[x] = pc[x] /\ request'[x] = request[x]
      BY <1>2, <2>2, OthersStay
    <3>2. participantSet'[x] = participantSet[x]
      BY <1>2 DEF Step, Arrival, createSession, Receive, ServiceStep, LookupFound,
         LookupNotFound, ValidateMember, ValidateStranger, joinSession, vote, exitSession,
         resetScan, resetWipe, resetWiped, Publish, CheckEmpty, Terminate, Announce,
         broadcastEvents, scanVars
    <3>3. ASSUME NEW u, Introduced(request[x].sid, u)
          PROVE  Introduced(request[x].sid, u)'
      <4>1. Introduced(request[x].sid, u)'
        BY <1>2, <3>1, <3>3, IntroducedStays
      <4>2. QED
        BY <4>1
    <3>4. QED
      BY <3>1, <3>2, <3>3 DEF IntroInv, HeldIntroduced
  <2>3. pc'[t] = "update" => Introduced(request[t].sid, request[t].user)'
    <3>1. SUFFICES ASSUME pc'[t] = "update"
                   PROVE  Introduced(request[t].sid, request[t].user)'
      OBVIOUS
    <3>2. ValidateMember(t)
      BY <1>2, <3>1 DEF Step, Arrival, createSession, Receive, ServiceStep, LookupFound,
         LookupNotFound, ValidateStranger, joinSession, vote, exitSession, resetScan,
         resetWipe, resetWiped, Publish, CheckEmpty, Terminate, Announce, broadcastEvents,
         Goto, Return
    <3>3. request' = request /\ Introduced(request[t].sid, request[t].user)
      BY <3>2 DEF ValidateMember, Goto, IntroInv, MembersWereIntroduced, Request
    <3>4. QED
      BY <1>2, <3>3, IntroducedStays
  <2>4. participantSet'[t] # {} => pc'[t] \in {"scan", "wipe"}
    BY <1>2 DEF IntroInv, HeldIntroduced, Step, Arrival, createSession, Receive, ServiceStep,
       LookupFound, LookupNotFound, ValidateMember, ValidateStranger, joinSession, vote,
       exitSession, resetScan, resetWipe, resetWiped, Publish, CheckEmpty, Terminate,
       Announce, broadcastEvents, Goto, Return, scanVars
  <2>5. ASSUME NEW u \in participantSet'[t] PROVE Introduced(request[t].sid, u)'
    <3>1. pc'[t] \in {"scan", "wipe"}
      BY <2>4, <2>5
    <3>2. \/ ValidateMember(t) \/ resetWipe(t, u) \/ \E z \in Users : resetWipe(t, z)
          \/ \E z \in Users : resetScan(t, z)
      BY <1>2, <3>1 DEF Step, Arrival, createSession, Receive, ServiceStep, LookupFound,
         LookupNotFound, ValidateStranger, joinSession, vote, exitSession,
         resetWiped, Publish, CheckEmpty, Terminate, Announce, broadcastEvents, Goto, Return
    <3>3. request' = request
      BY <3>2 DEF ValidateMember, resetWipe, resetScan, Goto
    <3>4. CASE u \in participantSet[t]
      BY <1>2, <3>3, <3>4, IntroducedStays DEF IntroInv, HeldIntroduced
    <3>5. CASE u \notin participantSet[t]
      <4>1. resetScan(t, u) /\ u \in Members(request[t].sid)
        BY <2>5, <3>2, <3>5 DEF ValidateMember, resetWipe, resetScan
      <4>2. Introduced(request[t].sid, u)
        BY <4>1 DEF resetScan, IntroInv, MembersWereIntroduced, Request
      <4>3. QED
        BY <1>2, <3>3, <4>2, IntroducedStays
    <3>6. QED
      BY <3>4, <3>5
  <2>6. HeldIntroduced'
    BY <2>2, <2>3, <2>4, <2>5 DEF HeldIntroduced
  <2>7. MembersWereIntroduced'
    BY <2>1 DEF MembersWereIntroduced
  <2>8. QED
    BY <2>6, <2>7 DEF IntroInv
<1>3. QED
  BY <1>1, <1>2 DEF Next, Step

(***************************************************************************)
(* Whoever is in a session, even put back by a vote or a reset after       *)
(* leaving it, has been announced to the listeners or is about to be, for  *)
(* any number of users, sessions and request threads.                      *)
(***************************************************************************)
THEOREM MembersAreIntroduced == Spec => []MembersWereIntroduced
<1>1. Init => IntroInv
  BY DEF Init, IntroInv, MembersWereIntroduced, HeldIntroduced, Members
<1>2. Spec => []TInv
  BY TypeInit, TypeNext, PTL DEF Spec
<1>3. Spec => []IntroInv
  BY <1>1, <1>2, IntroNext, PTL DEF Spec
<1>4. QED
  BY <1>3, PTL DEF IntroInv

-----------------------------------------------------------------------------
(***************************************************************************)
(* Session ids: whatever lies beyond the lookup of a request, in the       *)
(* events and in the participants is about a session that was created, and *)
(* while a session is being created nobody else names it.                  *)
(***************************************************************************)
BeyondLookup(t) == pc[t] \notin {"idle", "lookup"}

IdsInv ==
  /\ \A t \in Threads : BeyondLookup(t) => request[t].sid \in issued
  /\ \A i \in DOMAIN published : published[i].sid \in issued
  /\ \A s \in Sessions \ issued : Members(s) = {}

LEMMA IdsNext == TInv /\ IdsInv /\ [Next]_vars => IdsInv'
<1> SUFFICES ASSUME TInv, IdsInv, [Next]_vars PROVE IdsInv'
  OBVIOUS
<1>1. CASE UNCHANGED vars
  BY <1>1 DEF vars, IdsInv, Members, BeyondLookup
<1>2. ASSUME NEW t \in Threads, Step(t) PROVE IdsInv'
  <2> USE DEF TInv, TypeOK, PlacesOK, PlaceOK
  <2>0. issued \subseteq issued'
    BY <1>2, RepositoryChange
  <2>1. ASSUME NEW x \in Threads, BeyondLookup(x)'
        PROVE  request'[x].sid \in issued'
    <3>1. CASE x # t
      BY <1>2, <2>0, <2>1, <3>1, OthersStay DEF IdsInv, BeyondLookup
    <3>2. CASE x = t
      <4>1. CASE Arrival(t)
        BY <2>1, <3>2, <4>1 DEF Arrival, createSession, Receive, BeyondLookup
      <4>2. CASE LookupFound(t)
        BY <3>2, <4>2 DEF LookupFound, Goto, sessionVars
      <4>3. CASE ~Arrival(t) /\ ~LookupFound(t)
        <5>1. BeyondLookup(t) /\ request'[t] = request[t]
          BY <1>2, <2>1, <3>2, <4>3 DEF BeyondLookup, Step, ServiceStep, LookupNotFound,
             ValidateMember, ValidateStranger, joinSession, vote, exitSession, resetScan,
             resetWipe, resetWiped, Publish, CheckEmpty, Terminate, Announce,
             broadcastEvents, Goto, Return
        <5>2. QED
          BY <2>0, <3>2, <5>1 DEF IdsInv
      <4>4. QED
        BY <4>1, <4>2, <4>3
    <3>3. QED
      BY <3>1, <3>2
  <2>2. ASSUME NEW i \in DOMAIN published' PROVE published'[i].sid \in issued'
    <3>1. CASE i \in DOMAIN published
      BY <1>2, <2>0, <3>1, PublishedStays DEF IdsInv
    <3>2. CASE i \notin DOMAIN published
      <4>1. published' # published
        BY <2>2, <3>2
      <4>2. published'[Len(published) + 1].sid = request[t].sid
        BY <1>2, <4>1, PublishedEvent
      <4>3. request[t].sid \in issued
        BY <1>2, <4>1, PublishedChange DEF IdsInv, BeyondLookup, Publish, Announce
      <4>4. QED
        BY <1>2, <2>0, <2>2, <3>2, <4>2, <4>3, PublishedStays
    <3>3. QED
      BY <3>1, <3>2
  <2>3. ASSUME NEW s \in Sessions \ issued' PROVE Members(s)' = {}
    <3>1. Members(s) = {}
      BY <2>0, <2>3 DEF IdsInv
    <3>2. ~\E u \in Users : createSession(t, s, u)
      BY <2>3 DEF createSession
    <3>3. BeyondLookup(t) => s # request[t].sid
      BY <2>0, <2>3 DEF IdsInv
    <3>4. QED
      BY <1>2, <2>3, <3>1, <3>2, <3>3, MembersChange
         DEF BeyondLookup, joinSession, vote, resetWipe, exitSession
  <2>4. QED
    BY <2>1, <2>2, <2>3 DEF IdsInv
<1>3. QED
  BY <1>1, <1>2 DEF Next, Step

LEMMA IdsAlways == Spec => [](TInv /\ IdsInv)
<1>1. Init => IdsInv
  BY DEF Init, IdsInv, Members, BeyondLookup
<1>2. QED
  BY <1>1, TypeInit, TypeNext, IdsNext, PTL DEF Spec

-----------------------------------------------------------------------------
(***************************************************************************)
(* A thread that is about to announce a termination has removed the        *)
(* session, and the events agree with the repository.                      *)
(***************************************************************************)
TerminationInv ==
  /\ \A t \in Threads : pc[t] = "announce" => request[t].sid \notin pokerSessions
  /\ TerminationsAreAnnounced

LEMMA TerminationNext ==
  TInv /\ IdsInv /\ TerminationInv /\ [Next]_vars => TerminationInv'
<1> SUFFICES ASSUME TInv, IdsInv, TerminationInv, [Next]_vars PROVE TerminationInv'
  OBVIOUS
<1>1. CASE UNCHANGED vars
  BY <1>1 DEF vars, TerminationInv, TerminationsAreAnnounced, Occurred, Serving
<1>2. ASSUME NEW t \in Threads, Step(t) PROVE TerminationInv'
  <2> USE DEF TInv, TypeOK, PlacesOK, PlaceOK
  <2>1. \A s \in issued : s \in pokerSessions' => s \in pokerSessions
    BY <1>2, RepositoryChange
  <2>2. ASSUME NEW x \in Threads, pc'[x] = "announce"
        PROVE  request'[x].sid \notin pokerSessions'
    <3>1. CASE x # t
      <4>1. pc[x] = "announce" /\ request'[x] = request[x]
        BY <1>2, <2>2, <3>1, OthersStay
      <4>2. request[x].sid \in issued \ pokerSessions
        BY <4>1 DEF IdsInv, BeyondLookup, TerminationInv
      <4>3. QED
        BY <2>1, <4>1, <4>2
    <3>2. CASE x = t
      <4>0. ~ValidateMember(t)
        <5>1. pc[t] = "validate" => request[t].op \in {"vote", "reset", "exit", "fetch"}
          BY DEF Operations
        <5>2. QED
          BY <2>2, <3>2, <5>1 DEF ValidateMember, Goto, Body
      <4>1. Terminate(t)
        BY <1>2, <2>2, <3>2, <4>0 DEF Step, Arrival, createSession, Receive, ServiceStep,
           LookupFound, LookupNotFound, ValidateStranger, joinSession, vote,
           exitSession, resetScan, resetWipe, resetWiped, Publish, CheckEmpty, Announce,
           broadcastEvents, Goto, Return
      <4>2. QED
        BY <3>2, <4>1 DEF Terminate, Goto
    <3>3. QED
      BY <3>1, <3>2
  <2>3. ASSUME NEW s \in issued', Occurred(AutoTerminated, s)' PROVE s \notin pokerSessions'
    <3>1. CASE Occurred(AutoTerminated, s)
      <4>1. s \in issued
        BY <3>1 DEF Occurred, IdsInv
      <4>2. QED
        BY <2>1, <3>1, <4>1 DEF TerminationInv, TerminationsAreAnnounced
    <3>2. CASE ~Occurred(AutoTerminated, s)
      <4>1. PICK i \in DOMAIN published' :
              published'[i].type = AutoTerminated /\ published'[i].sid = s
        BY <2>3 DEF Occurred
      <4>2. i \notin DOMAIN published
        BY <1>2, <3>2, <4>1, PublishedStays DEF Occurred
      <4>3. i = Len(published) + 1 /\ published' # published
        BY <1>2, <4>1, <4>2, PublishedStays
      <4>4. ASSUME Publish(t) PROVE FALSE
        <5>1. EventOf[request[t].op] # AutoTerminated
          BY <4>4 DEF Publish, EventOf, AutoTerminated, SessionCreated, UserJoined,
             UserVoted, VoteReset, UserExited
        <5>2. published'[i].type = EventOf[request[t].op]
          BY <1>2, <4>3, <4>4, PublishedEvent
        <5>3. QED
          BY <4>1, <5>1, <5>2
      <4>5. Announce(t) /\ published'[i].sid = request[t].sid
        BY <1>2, <4>3, <4>4, PublishedEvent
      <4>6. s \in issued \ pokerSessions
        BY <4>1, <4>5 DEF Announce, TerminationInv, IdsInv, BeyondLookup
      <4>7. QED
        BY <2>1, <4>6
    <3>3. QED
      BY <3>1, <3>2
  <2>4. ASSUME NEW s \in issued' \ pokerSessions'
        PROVE  \/ Occurred(AutoTerminated, s)'
               \/ \E x \in Threads : Serving(x, "exit", s, {"announce"})'
    <3>1. CASE s \in pokerSessions
      <4>1. Terminate(t) /\ s = request[t].sid
        BY <1>2, <2>4, <3>1, RepositoryChange
      <4>2. Serving(t, "exit", s, {"announce"})'
        BY <4>1 DEF Terminate, Goto, Serving
      <4>3. QED
        BY <4>2
    <3>2. CASE s \notin pokerSessions
      <4>1. s \in issued
        BY <1>2, <2>4, RepositoryChange
      <4>2. CASE Occurred(AutoTerminated, s)
        BY <1>2, <4>2, OccurredStays
      <4>3. ASSUME NEW x \in Threads, Serving(x, "exit", s, {"announce"})
            PROVE  \/ Occurred(AutoTerminated, s)'
                   \/ \E z \in Threads : Serving(z, "exit", s, {"announce"})'
        <5>1. CASE x # t
          BY <1>2, <4>3, <5>1, OthersStay DEF Serving
        <5>2. CASE x = t
          <6>1. Announce(t) /\ ~Publish(t)
            BY <1>2, <4>3, <5>2 DEF Serving, Step, Arrival, createSession, Receive,
               ServiceStep, LookupFound, LookupNotFound, ValidateMember, ValidateStranger,
               joinSession, vote, exitSession, resetScan, resetWipe, resetWiped, Publish,
               CheckEmpty, Terminate, broadcastEvents
          <6>2. Occurred(AutoTerminated, s)'
            BY <1>2, <4>3, <5>2, <6>1, PublishedChange, PublishedEvent DEF Occurred, Serving
          <6>3. QED
            BY <6>2
        <5>3. QED
          BY <5>1, <5>2
      <4>4. QED
        BY <3>2, <4>1, <4>2, <4>3 DEF TerminationInv, TerminationsAreAnnounced
    <3>3. QED
      BY <3>1, <3>2
  <2>5. TerminationsAreAnnounced'
    BY <2>3, <2>4 DEF TerminationsAreAnnounced
  <2>6. QED
    BY <2>2, <2>5 DEF TerminationInv
<1>3. QED
  BY <1>1, <1>2 DEF Next, Step

(***************************************************************************)
(* A session whose termination has been published is out of the            *)
(* repository and never comes back, and a session that is out of it has    *)
(* had its termination published or is about to, for any number of threads *)
(* that terminate it at once.                                              *)
(***************************************************************************)
THEOREM TerminationsAgree == Spec => []TerminationsAreAnnounced
<1>1. Init => TerminationInv
  BY DEF Init, TerminationInv, TerminationsAreAnnounced
<1>2. Spec => []TerminationInv
  BY <1>1, IdsAlways, TerminationNext, PTL DEF Spec
<1>3. QED
  BY <1>2, PTL DEF TerminationInv

-----------------------------------------------------------------------------
(***************************************************************************)
(* Why the events come in order: nothing has been published of, and nobody *)
(* else names, a session that is being created; every other session's      *)
(* creation has been published; and an exit has published that before it   *)
(* looks whether the session is empty.                                     *)
(***************************************************************************)
Creating(t) == pc[t] = "publish" /\ request[t].op = "create"

OrderInv ==
  /\ \A t \in Threads : Creating(t) =>
       /\ \A i \in DOMAIN published : published[i].sid # request[t].sid
       /\ \A x \in Threads \ {t} : pc[x] # "idle" => request[x].sid # request[t].sid
  /\ \A s \in issued :
       Occurred(SessionCreated, s) \/ \E t \in Threads : Creating(t) /\ request[t].sid = s
  /\ \A t \in Threads :
       pc[t] \in {"check", "terminate", "announce"} => Occurred(UserExited, request[t].sid)

LEMMA OrderNext == TInv /\ IdsInv /\ OrderInv /\ [Next]_vars => OrderInv'
<1> SUFFICES ASSUME TInv, IdsInv, OrderInv, [Next]_vars PROVE OrderInv'
  OBVIOUS
<1>1. CASE UNCHANGED vars
  BY <1>1 DEF vars, OrderInv, Creating, Occurred
<1>2. ASSUME NEW t \in Threads, Step(t) PROVE OrderInv'
  <2> USE DEF TInv, TypeOK, PlacesOK, PlaceOK
  \* the creations in progress
  <2>1. ASSUME NEW x \in Threads, Creating(x)'
        PROVE  /\ \A i \in DOMAIN published' : published'[i].sid # request'[x].sid
               /\ \A z \in Threads \ {x} : pc'[z] # "idle" => request'[z].sid # request'[x].sid
    <3>1. CASE x = t
      <4>1. PICK s \in Sessions, u \in Users : createSession(t, s, u)
        BY <1>2, <2>1, <3>1 DEF Creating, Step, Arrival, Receive, ServiceStep, LookupFound,
           LookupNotFound, ValidateMember, ValidateStranger, joinSession, vote, exitSession,
           resetScan, resetWipe, resetWiped, Publish, CheckEmpty, Terminate, Announce,
           broadcastEvents, Goto, Return, Operations, NoRequest
      <4>2. s \notin issued /\ ~Named(s) /\ published' = published /\ request'[t].sid = s
        BY <4>1 DEF createSession, eventVars
      <4>3. \A i \in DOMAIN published : published[i].sid # s
        BY <4>2 DEF IdsInv
      <4>4. \A z \in Threads \ {t} : pc'[z] # "idle" => request'[z].sid # s
        BY <1>2, <4>2, OthersStay DEF Named
      <4>5. QED
        BY <3>1, <4>2, <4>3, <4>4
    <3>2. CASE x # t
      <4>1. Creating(x) /\ request'[x] = request[x] /\ request[x].sid \in issued
        BY <1>2, <2>1, <3>2, OthersStay DEF Creating, IdsInv, BeyondLookup
      <4>2. pc[t] # "idle" => request[t].sid # request[x].sid
        BY <3>2, <4>1 DEF OrderInv
      <4>3. ASSUME NEW i \in DOMAIN published' PROVE published'[i].sid # request[x].sid
        <5>1. CASE i \in DOMAIN published
          BY <1>2, <4>1, <5>1, PublishedStays DEF OrderInv
        <5>2. CASE i \notin DOMAIN published
          <6>1. published'[i].sid = request[t].sid /\ (Publish(t) \/ Announce(t))
            BY <1>2, <4>3, <5>2, PublishedStays, PublishedEvent
          <6>2. QED
            BY <4>2, <6>1 DEF Publish, Announce
        <5>3. QED
          BY <5>1, <5>2
      <4>4. ASSUME NEW z \in Threads \ {x}, pc'[z] # "idle"
            PROVE  request'[z].sid # request[x].sid
        <5>1. CASE z # t
          BY <1>2, <4>1, <4>4, <5>1, OthersStay DEF OrderInv
        <5>2. CASE z = t /\ pc[t] # "idle"
          <6>1. request'[t] = request[t]
            BY <1>2, <4>4, <5>2 DEF Step, Arrival, createSession, Receive, ServiceStep,
               LookupFound, LookupNotFound, ValidateMember, ValidateStranger, joinSession,
               vote, exitSession, resetScan, resetWipe, resetWiped, Publish, CheckEmpty,
               Terminate, Announce, broadcastEvents, Goto, Return
          <6>2. QED
            BY <4>2, <5>2, <6>1
        <5>3. CASE z = t /\ pc[t] = "idle"
          <6>1. Arrival(t)
            BY <1>2, <5>3 DEF Step, ServiceStep, LookupFound, LookupNotFound,
               ValidateMember, ValidateStranger, joinSession, vote, exitSession, resetScan,
               resetWipe, resetWiped, Publish, CheckEmpty, Terminate, Announce,
               broadcastEvents
          <6>2. ASSUME NEW s \in Sessions, NEW u \in Users, createSession(t, s, u)
                PROVE  request'[t].sid # request[x].sid
            BY <4>1, <6>2 DEF createSession
          <6>3. ASSUME NEW r \in Request, Receive(t, r)
                PROVE  request'[t].sid # request[x].sid
            BY <4>1, <6>3 DEF Receive, BeingCreated, Creating
          <6>4. QED
            BY <5>3, <6>1, <6>2, <6>3 DEF Arrival
        <5>4. QED
          BY <5>1, <5>2, <5>3
      <4>5. QED
        BY <4>1, <4>3, <4>4
    <3>3. QED
      BY <3>1, <3>2
  \* the creations that are over
  <2>2. ASSUME NEW s \in issued'
        PROVE  \/ Occurred(SessionCreated, s)'
               \/ \E x \in Threads : Creating(x)' /\ request'[x].sid = s
    <3>1. CASE s \notin issued
      <4>1. PICK u \in Users : createSession(t, s, u)
        BY <1>2, <2>2, <3>1, RepositoryChange
      <4>2. Creating(t)' /\ request'[t].sid = s
        BY <4>1 DEF createSession, Creating
      <4>3. QED
        BY <4>2
    <3>2. CASE Occurred(SessionCreated, s)
      BY <1>2, <3>2, OccurredStays
    <3>3. ASSUME NEW x \in Threads, Creating(x), request[x].sid = s
          PROVE  \/ Occurred(SessionCreated, s)'
                 \/ Creating(x)' /\ request'[x].sid = s
      <4>1. CASE x # t
        BY <1>2, <3>3, <4>1, OthersStay DEF Creating
      <4>2. CASE x = t
        <5>1. Publish(t)
          BY <1>2, <3>3, <4>2 DEF Creating, Step, Arrival, createSession, Receive,
             ServiceStep, LookupFound, LookupNotFound, ValidateMember, ValidateStranger,
             joinSession, vote, exitSession, resetScan, resetWipe, resetWiped, CheckEmpty,
             Terminate, Announce, broadcastEvents
        <5>2. published' # published
          BY <1>2, <5>1, PublishedChange
        <5>3. EventOf[request[t].op] = SessionCreated
          BY <3>3, <4>2 DEF Creating, EventOf
        <5>4. Occurred(SessionCreated, s)'
          BY <1>2, <3>3, <4>2, <5>1, <5>2, <5>3, PublishedEvent DEF Occurred
        <5>5. QED
          BY <5>4
      <4>3. QED
        BY <4>1, <4>2
    <3>4. QED
      BY <3>1, <3>2, <3>3 DEF OrderInv
  \* the exits that have been published
  <2>3. ASSUME NEW x \in Threads, pc'[x] \in {"check", "terminate", "announce"}
        PROVE  Occurred(UserExited, request[x].sid)'
    <3>1. CASE /\ pc[x] \in {"check", "terminate", "announce"}
               /\ request'[x] = request[x]
      BY <1>2, <3>1, OccurredStays DEF OrderInv
    <3>2. CASE x # t
      BY <1>2, <2>3, <3>1, <3>2, OthersStay
    <3>3. CASE x = t /\ Publish(t)
      <4>1. request[t].op = "exit" /\ request'[t] = request[t]
        BY <2>3, <3>3 DEF Publish, Goto, Return
      <4>2. published' # published /\ EventOf[request[t].op] = UserExited
        BY <1>2, <3>3, <4>1, PublishedChange DEF EventOf
      <4>3. QED
        BY <1>2, <3>3, <4>1, <4>2, PublishedEvent DEF Occurred
    <3>4. CASE x = t /\ ~Publish(t)
      <4>1. pc[t] = "validate" => request[t].op \in {"vote", "reset", "exit", "fetch"}
        BY DEF Operations
      <4>2. ~ValidateMember(t)
        BY <2>3, <3>4, <4>1 DEF ValidateMember, Goto, Body
      <4>3. CheckEmpty(t) \/ Terminate(t)
        BY <1>2, <2>3, <3>4, <4>2 DEF Step, Arrival, createSession, Receive, ServiceStep,
           LookupFound, LookupNotFound, ValidateStranger, joinSession, vote, exitSession,
           resetScan, resetWipe, resetWiped, Announce, broadcastEvents, Goto, Return
      <4>4. QED
        BY <2>3, <3>1, <3>4, <4>3 DEF CheckEmpty, Terminate, Goto, Return
    <3>5. QED
      BY <3>2, <3>3, <3>4
  <2>4. QED
    BY <2>1, <2>2, <2>3 DEF OrderInv
<1>3. QED
  BY <1>1, <1>2 DEF Next, Step

LEMMA PublishMayFollow ==
  ASSUME TInv, IdsInv, OrderInv, NEW t \in Threads, Step(t), published' # published
  PROVE  \E i \in DOMAIN published' :
           published' = Append(published, published'[i]) /\ MayFollow(published'[i])
<1> DEFINE n == Len(published) + 1
<1> DEFINE ev == published'[n]
<1>1. n \in DOMAIN published' /\ n \notin DOMAIN published /\ ev.sid = request[t].sid
  BY PublishedEvent DEF TInv, TypeOK
<1>2. published' = Append(published, ev)
  BY <1>1, PublishedStays
<1> HIDE DEF ev
<1>3. CASE Publish(t) /\ ev.type = EventOf[request[t].op]
  <2>1. pc[t] = "publish" /\ request[t].op \in DOMAIN EventOf /\ request[t].sid \in issued
    BY <1>3 DEF Publish, TInv, PlacesOK, PlaceOK, IdsInv, BeyondLookup
  <2>2. /\ ev.type # AutoTerminated
        /\ ev.type = SessionCreated <=> request[t].op = "create"
    BY <1>3, <2>1 DEF EventOf, AutoTerminated, SessionCreated, UserJoined, UserVoted,
       VoteReset, UserExited
  <2>3. ASSUME request[t].op = "create" PROVE MayFollow(ev)
    BY <1>1, <2>1, <2>2, <2>3 DEF MayFollow, OrderInv, Creating
  <2>4. ASSUME request[t].op # "create" PROVE MayFollow(ev)
    <3>1. ~\E x \in Threads : Creating(x) /\ request[x].sid = request[t].sid
      BY <2>1, <2>4 DEF OrderInv, Creating
    <3>2. Occurred(SessionCreated, request[t].sid)
      BY <2>1, <3>1 DEF OrderInv
    <3>3. QED
      BY <1>1, <2>2, <2>4, <3>2 DEF MayFollow
  <2>5. MayFollow(ev)
    BY <2>3, <2>4
  <2>6. QED
    BY <1>1, <1>2, <2>5 DEF ev
<1>4. CASE Announce(t) /\ ev.type = AutoTerminated
  <2>1. pc[t] = "announce" /\ request[t].op = "exit" /\ request[t].sid \in issued
    BY <1>4 DEF Announce, TInv, PlacesOK, PlaceOK, IdsInv, BeyondLookup
  <2>2. ~\E x \in Threads : Creating(x) /\ request[x].sid = request[t].sid
    BY <2>1 DEF OrderInv, Creating
  <2>3. Occurred(SessionCreated, ev.sid) /\ Occurred(UserExited, ev.sid)
    BY <1>1, <2>1, <2>2 DEF OrderInv
  <2>4. ev.type # SessionCreated
    BY <1>4 DEF AutoTerminated, SessionCreated
  <2>5. MayFollow(ev)
    BY <2>3, <2>4 DEF MayFollow
  <2>6. QED
    BY <1>1, <1>2, <2>5 DEF ev
<1>5. QED
  BY <1>3, <1>4, PublishedEvent DEF ev

LEMMA OrderAlways == Spec => [](TInv /\ IdsInv /\ OrderInv)
<1>1. Init => OrderInv
  BY DEF Init, OrderInv, Creating
<1>2. QED
  BY <1>1, IdsAlways, OrderNext, PTL DEF Spec

(***************************************************************************)
(* Every event published keeps the contract with the listeners: a session  *)
(* is announced before and only once, and a termination comes after an     *)
(* exit, for any number of users, sessions and request threads.            *)
(***************************************************************************)
THEOREM EventsInOrder == Spec => PublishesInOrder
<1> DEFINE Good == \E i \in DOMAIN published' :
                     /\ published' = Append(published, published'[i])
                     /\ MayFollow(published'[i])
<1>1. TInv /\ IdsInv /\ OrderInv /\ [Next]_vars => [Good]_published
  BY PublishMayFollow DEF Next, Step, vars
<1>2. QED
  BY <1>1, OrderAlways, PTL DEF Spec, PublishesInOrder

-----------------------------------------------------------------------------
\* A thread enters and leaves "terminate" by CheckEmpty and Terminate only.
LEMMA ClosingChange ==
  ASSUME TInv, NEW t \in Threads, Step(t), NEW s \in Sessions,
         ~(CheckEmpty(t) /\ request[t].sid = s), ~(Terminate(t) /\ request[t].sid = s)
  PROVE  Closing(s)' <=> Closing(s)
<1> USE DEF TInv, TypeOK, PlacesOK, PlaceOK
<1>1. ASSUME NEW x \in Threads \ {t}
      PROVE  Serving(x, "exit", s, {"terminate"})' <=> Serving(x, "exit", s, {"terminate"})
  BY <1>1, OthersStay DEF Serving
<1>2. ~Serving(t, "exit", s, {"terminate"})
  BY DEF Serving, Step, Arrival, createSession, Receive, ServiceStep, LookupFound,
     LookupNotFound, ValidateMember, ValidateStranger, joinSession, vote, exitSession,
     resetScan, resetWipe, resetWiped, Publish, CheckEmpty, Announce, broadcastEvents
<1>3. ~Serving(t, "exit", s, {"terminate"})'
  <2>1. SUFFICES ASSUME pc'[t] = "terminate", request'[t].sid = s PROVE FALSE
    BY DEF Serving
  <2>2. pc[t] = "validate" => request[t].op \in {"vote", "reset", "exit", "fetch"}
    BY DEF Operations
  <2>3. ~ValidateMember(t)
    BY <2>1, <2>2 DEF ValidateMember, Goto, Body
  <2>4. CheckEmpty(t) /\ request'[t] = request[t]
    BY <2>1, <2>3 DEF Step, Arrival, createSession, Receive, ServiceStep, LookupFound,
       LookupNotFound, ValidateStranger, joinSession, vote, exitSession, resetScan,
       resetWipe, resetWiped, Publish, CheckEmpty, Terminate, Announce, broadcastEvents,
       Goto, Return
  <2>5. QED
    BY <2>1, <2>4
<1>4. QED
  BY <1>1, <1>2, <1>3 DEF Closing

\* How the phase of a session may change in one step
LEMMA PhaseChange ==
  ASSUME TInv, IdsInv, NEW t \in Threads, Step(t), NEW s \in Sessions
  PROVE  \/ Phase(s)' = Phase(s)
         \/ /\ \E u \in Users : createSession(t, s, u)
            /\ Phase(s) = "unused" /\ Phase(s)' = "open"
         \/ /\ CheckEmpty(t) /\ s = request[t].sid /\ Members(s) = {}
            /\ Phase(s) = "open" /\ Phase(s)' = "closing"
         \/ /\ Terminate(t) /\ s = request[t].sid
            /\ Phase(s) = "closing" /\ Phase(s)' = "closed"
<1> USE DEF TInv, TypeOK, PlacesOK, PlaceOK
<1>1. ASSUME NEW u \in Users, createSession(t, s, u)
      PROVE  Phase(s) = "unused" /\ Phase(s)' = "open"
  <2>1. s \notin issued /\ s \in issued' /\ s \in pokerSessions'
    BY <1>1 DEF createSession
  <2>2. ~Closing(s)
    BY <2>1 DEF Closing, Serving, IdsInv, BeyondLookup
  <2>3. ~CheckEmpty(t) /\ ~Terminate(t)
    BY <1>1 DEF createSession, CheckEmpty, Terminate
  <2>4. ~Closing(s)'
    BY <2>2, <2>3, ClosingChange
  <2>5. QED
    BY <2>1, <2>4 DEF Phase
<1>2. CASE Terminate(t) /\ s = request[t].sid
  <2>1. s \in issued /\ issued' = issued /\ s \notin pokerSessions'
    BY <1>2 DEF Terminate, IdsInv, BeyondLookup
  <2>2. Closing(s)
    BY <1>2 DEF Terminate, Closing, Serving
  <2>3. QED
    BY <1>2, <2>1, <2>2 DEF Phase
<1>3. CASE CheckEmpty(t) /\ s = request[t].sid
  <2>1. s \in issued /\ issued' = issued /\ pokerSessions' = pokerSessions
    BY <1>3 DEF CheckEmpty, IdsInv, BeyondLookup, sessionVars
  <2>2. CASE Members(s) = {}
    <3>1. Closing(s)'
      BY <1>3, <2>2 DEF CheckEmpty, Goto, Closing, Serving
    <3>2. QED
      BY <1>3, <2>1, <2>2, <3>1 DEF Phase
  <2>3. CASE Members(s) # {}
    <3>1. ASSUME NEW x \in Threads
          PROVE  Serving(x, "exit", s, {"terminate"})' <=> Serving(x, "exit", s, {"terminate"})
      BY <1>3, <2>3 DEF CheckEmpty, Return, Serving
    <3>2. QED
      BY <2>1, <3>1 DEF Phase, Closing
  <2>4. QED
    BY <2>2, <2>3
<1>4. CASE /\ ~\E u \in Users : createSession(t, s, u)
           /\ ~(Terminate(t) /\ s = request[t].sid)
           /\ ~(CheckEmpty(t) /\ s = request[t].sid)
  <2>1. Closing(s)' <=> Closing(s)
    BY <1>4, ClosingChange
  <2>2. (s \in issued' <=> s \in issued) /\ (s \in pokerSessions' <=> s \in pokerSessions)
    BY <1>4, RepositoryChange
  <2>3. QED
    BY <2>1, <2>2 DEF Phase
<1>5. QED
  BY <1>1, <1>2, <1>3, <1>4

LEMMA LifecycleStep ==
  ASSUME TInv, IdsInv, NEW t \in Threads, Step(t)
  PROVE  Lifecycle!Next \/ UNCHANGED Lifecycle!vars
<1> USE DEF TInv, TypeOK, PlacesOK, PlaceOK
<1> DEFINE phase == [s \in Sessions |-> Phase(s)]
           members == [s \in Sessions |-> Members(s)]
<1>1. ASSUME NEW s \in Sessions, NEW u \in Users, createSession(t, s, u)
      PROVE  Lifecycle!Open(s, u)
  <2>1. ASSUME NEW z \in Sessions \ {s}
        PROVE  Phase(z)' = Phase(z) /\ Members(z)' = Members(z)
    <3>1. /\ ~\E v \in Users : createSession(t, z, v)
          /\ ~CheckEmpty(t) /\ ~Terminate(t) /\ ~joinSession(t) /\ ~vote(t) /\ ~exitSession(t)
          /\ ~\E v \in participantSet[t] : resetWipe(t, v)
      BY <1>1, <2>1 DEF createSession, CheckEmpty, Terminate, joinSession, vote,
         exitSession, resetWipe
    <3>2. QED
      BY <3>1, PhaseChange, MembersChange
  <2>2. Phase(s) = "unused" /\ Phase(s)' = "open"
    BY <1>1, PhaseChange DEF createSession, Phase, CheckEmpty, Terminate
  <2>3. Members(s)' = {u}
    <3>1. Members(s) = {}
      BY <1>1 DEF createSession, IdsInv
    <3>2. NoVote \in Votes /\ NoVote # Absent
      BY DEF Votes
    <3>3. QED
      BY <1>1, <3>1, <3>2, PutMembers DEF createSession
  <2>4. phase' = [phase EXCEPT ![s] = "open"] /\ members' = [members EXCEPT ![s] = {u}]
    BY <2>1, <2>2, <2>3
  <2>5. QED
    BY <2>2, <2>4 DEF Lifecycle!Open
<1>2. CASE CheckEmpty(t) \/ Terminate(t)
  <2>1. request[t].sid \in Sessions /\ members' = members
    BY <1>2 DEF CheckEmpty, Terminate, sessionVars, Members, Request
  <2>2. ~\E u \in Users, s \in Sessions : createSession(t, s, u)
    BY <1>2 DEF CheckEmpty, Terminate, createSession
  <2>sid. PICK s \in Sessions : s = request[t].sid
    BY <2>1
  <2>3. \A z \in Sessions \ {s} : Phase(z)' = Phase(z)
    BY <1>2, <2>2, <2>sid, PhaseChange
  <2>4. CASE Phase(s)' = Phase(s)
    BY <2>1, <2>3, <2>4 DEF Lifecycle!vars
  <2>5. CASE Phase(s) = "open" /\ Phase(s)' = "closing" /\ Members(s) = {}
    <3>1. phase' = [phase EXCEPT ![s] = "closing"]
      BY <2>1, <2>3, <2>5
    <3>2. Lifecycle!BeginClosing(s)
      BY <2>1, <2>5, <3>1 DEF Lifecycle!BeginClosing
    <3>3. QED
      BY <2>1, <3>2 DEF Lifecycle!Next
  <2>6. CASE Phase(s) = "closing" /\ Phase(s)' = "closed"
    <3>1. phase' = [phase EXCEPT ![s] = "closed"]
      BY <2>1, <2>3, <2>6
    <3>2. Lifecycle!Close(s)
      BY <2>1, <2>6, <3>1 DEF Lifecycle!Close
    <3>3. QED
      BY <2>1, <3>2 DEF Lifecycle!Next
  <2>7. QED
    BY <2>1, <2>2, <2>4, <2>5, <2>6, <2>sid, PhaseChange
<1>3. CASE /\ ~\E s \in Sessions, u \in Users : createSession(t, s, u)
           /\ ~CheckEmpty(t) /\ ~Terminate(t)
  <2>1. \A s \in Sessions : Phase(s)' = Phase(s)
    BY <1>3, PhaseChange
  <2>2. phase' = phase
    BY <2>1
  <2>3. CASE \A s \in Sessions : Members(s)' = Members(s)
    BY <2>2, <2>3 DEF Lifecycle!vars
  <2>4. ASSUME NEW s \in Sessions, Members(s)' # Members(s)
        PROVE  Lifecycle!Next
    <3>1. s = request[t].sid /\ BeyondLookup(t)
      BY <1>3, <2>4, MembersChange
         DEF joinSession, vote, resetWipe, exitSession, BeyondLookup
    <3>2. Phase(s) # "unused"
      BY <3>1 DEF IdsInv, Phase
    <3>3. \A z \in Sessions \ {s} : Members(z)' = Members(z)
      BY <1>3, <3>1, MembersChange
    <3>4. PICK u \in Users :
            Members(s)' = Members(s) \cup {u} \/ Members(s)' = Members(s) \ {u}
      BY <1>3, <2>4, <3>1, MembersChange DEF Request, BeyondLookup
    <3>5. CASE Members(s)' = Members(s) \cup {u}
      <4>1. members' = [members EXCEPT ![s] = @ \cup {u}]
        BY <3>3, <3>5
      <4>2. Lifecycle!Enter(s, u)
        BY <2>2, <3>2, <4>1 DEF Lifecycle!Enter
      <4>3. QED
        BY <4>2 DEF Lifecycle!Next
    <3>6. CASE Members(s)' = Members(s) \ {u}
      <4>1. members' = [members EXCEPT ![s] = @ \ {u}]
        BY <3>3, <3>6
      <4>2. Lifecycle!Leave(s, u)
        BY <2>2, <3>2, <4>1 DEF Lifecycle!Leave
      <4>3. QED
        BY <4>2 DEF Lifecycle!Next
    <3>7. QED
      BY <3>4, <3>5, <3>6
  <2>5. QED
    BY <2>3, <2>4
<1>4. QED
  BY <1>1, <1>2, <1>3 DEF Lifecycle!Next

(***************************************************************************)
(* PointPokerServiceImpl implements SessionLifecycle for any number of     *)
(* users, sessions and request threads: a session is opened once, begins   *)
(* to close only when it is empty, and is never revived.                   *)
(***************************************************************************)
THEOREM LifecycleImplemented == Spec => ImplementsLifecycle
<1>1. Init => Lifecycle!Init
  BY DEF Init, Lifecycle!Init, Phase, Members
<1>2. TInv /\ IdsInv /\ [Next]_vars => [Lifecycle!Next]_(Lifecycle!vars)
  <2>1. CASE UNCHANGED vars
    BY <2>1 DEF vars, Lifecycle!vars, Phase, Members, Closing, Serving
  <2>2. CASE Next
    <3>1. SUFFICES ASSUME TInv, IdsInv, NEW t \in Threads, Step(t)
                   PROVE  Lifecycle!Next \/ UNCHANGED Lifecycle!vars
      BY <2>2 DEF Next, Step
    <3>2. QED
      BY <3>1, LifecycleStep
  <2>3. QED
    BY <2>1, <2>2
<1>3. QED
  BY <1>1, <1>2, IdsAlways, PTL DEF Spec, ImplementsLifecycle, Lifecycle!Spec

-----------------------------------------------------------------------------
\* Only a vote carries a story point.
VotesOnly == \A t \in Threads :
  pc[t] # "idle" /\ request[t].op # "vote" => request[t].vote = NoVote

LEMMA VotesOnlyNext == TInv /\ VotesOnly /\ [Next]_vars => VotesOnly'
<1> SUFFICES ASSUME TInv, VotesOnly, [Next]_vars PROVE VotesOnly'
  OBVIOUS
<1>1. CASE UNCHANGED vars
  BY <1>1 DEF vars, VotesOnly
<1>2. ASSUME NEW t \in Threads, Step(t), NEW x \in Threads,
             pc'[x] # "idle", request'[x].op # "vote"
      PROVE  request'[x].vote = NoVote
  <2>1. CASE x # t
    BY <1>2, <2>1, OthersStay DEF VotesOnly
  <2>2. CASE x = t /\ Arrival(t)
    BY <1>2, <2>2 DEF Arrival, createSession, Receive, TInv, TypeOK
  <2>3. CASE x = t /\ ~Arrival(t)
    <3>1. pc[t] # "idle" /\ request'[t] = request[t]
      BY <1>2, <2>3 DEF Step, ServiceStep, LookupFound, LookupNotFound, ValidateMember,
         ValidateStranger, joinSession, vote, exitSession, resetScan, resetWipe, resetWiped,
         Publish, CheckEmpty, Terminate, Announce, broadcastEvents, Goto, Return,
         TInv, TypeOK
    <3>2. QED
      BY <1>2, <2>3, <3>1 DEF VotesOnly
  <2>4. QED
    BY <2>1, <2>2, <2>3
<1>3. QED
  BY <1>1, <1>2 DEF Next, Step, VotesOnly
=============================================================================
