------------------------ MODULE SessionHistoryProofs ------------------------
(***************************************************************************)
(* What a reset forgets and what the events tell, for any number of users, *)
(* sessions, request threads and requests.                                 *)
(***************************************************************************)
EXTENDS SessionHistory, PokerSessionsProofs

USE EventsAssumption, ServiceAssumption

(***************************************************************************)
(* What a reset has still to do: a vote that was cast before the reset     *)
(* began belongs to a participant it has yet to pass, or has passed and    *)
(* not put back; it passes all participants before it puts back the first. *)
(***************************************************************************)
ToForget(t) == unscanned[t] \cup participantSet[t]

ForgetsOn(t) ==
  /\ pc[t] = "wipe" => unscanned[t] = {}
  /\ Resetting(t) =>
       \A u \in Users :
         participants[request[t].sid][u] \in Points =>
           u \in votedSince[t] \cup ToForget(t)

ForgetInv == \A t \in Threads : ForgetsOn(t)

-----------------------------------------------------------------------------
\* A thread leaves the reset of every other one alone.
LEMMA OthersScan ==
  ASSUME TInv, NEW x \in Threads, Step(x), NEW t \in Threads \ {x}
  PROVE  /\ unscanned'[t] = unscanned[t] /\ participantSet'[t] = participantSet[t]
         /\ pc'[t] = pc[t] /\ request'[t] = request[t]
<1>1. /\ unscanned \in [Threads -> SUBSET Users] /\ participantSet \in [Threads -> SUBSET Users]
      /\ pc'[t] = pc[t] /\ request'[t] = request[t]
  BY OthersStay DEF TInv, TypeOK
<1>2. CASE UNCHANGED scanVars
  BY <1>1, <1>2 DEF scanVars
<1>3. CASE ValidateMember(x)
  BY <1>1, <1>3 DEF ValidateMember
<1>4. ASSUME NEW u \in Users, resetScan(x, u)
      PROVE  unscanned'[t] = unscanned[t] /\ participantSet'[t] = participantSet[t]
  BY <1>1, <1>4 DEF resetScan
<1>5. ASSUME NEW u \in Users, resetWipe(x, u)
      PROVE  unscanned'[t] = unscanned[t] /\ participantSet'[t] = participantSet[t]
  BY <1>1, <1>5 DEF resetWipe
<1>6. \/ UNCHANGED scanVars \/ ValidateMember(x)
      \/ \E u \in Users : resetScan(x, u) \/ resetWipe(x, u)
  BY DEF Step, Arrival, createSession, Receive, ServiceStep, LookupFound, LookupNotFound,
     ValidateStranger, joinSession, vote, exitSession, resetWiped, Publish, CheckEmpty,
     Terminate, Announce, broadcastEvents
<1>7. QED
  BY <1>1, <1>2, <1>3, <1>4, <1>5, <1>6

\* A vote that is in a session after a step was there before, or is recorded
\* by it.
LEMMA VotesChange ==
  ASSUME TInv, NEW x \in Threads, Step(x), NEW s \in Sessions, NEW u \in Users,
         participants'[s][u] \in Points
  PROVE  \/ participants[s][u] \in Points
         \/ vote(x) /\ request[x].sid = s /\ request[x].user = u
<1>1. participants \in [Sessions -> [Users -> Votes \cup {Absent}]]
      /\ NoVote \notin Points /\ Absent \notin Points
  BY DEF TInv, TypeOK
<1>2. ASSUME NEW z, NEW w, NEW v \in {NoVote, Absent}, Put(z, w, v)
      PROVE  participants[s][u] \in Points
  BY <1>1, <1>2 DEF Put
<1>3. CASE UNCHANGED participants
  BY <1>3
<1>4. CASE vote(x)
  BY <1>1, <1>4 DEF vote, Put
<1>5. \/ UNCHANGED participants \/ vote(x)
      \/ \E z, w : \E v \in {NoVote, Absent} : Put(z, w, v)
  <2>1. CASE \E z \in Sessions, w \in Users : createSession(x, z, w)
    BY <2>1 DEF createSession
  <2>2. CASE joinSession(x) \/ exitSession(x)
    BY <2>2 DEF joinSession, exitSession
  <2>3. CASE \E w \in Users : resetWipe(x, w)
    BY <2>3 DEF resetWipe
  <2>4. QED
    BY <2>1, <2>2, <2>3 DEF Step, Arrival, Receive, ServiceStep, LookupFound, LookupNotFound,
       ValidateMember, ValidateStranger, resetScan, resetWiped, Publish, CheckEmpty, Terminate,
       Announce, broadcastEvents, sessionVars
<1>6. QED
  BY <1>2, <1>3, <1>4, <1>5

\* How a thread gets on with a reset
LEMMA ResetMoves ==
  ASSUME TInv, NEW t \in Threads, Step(t), Resetting(t)'
  PROVE  \/ ~Resetting(t) /\ pc'[t] = "scan" /\ unscanned'[t] = Users
         \/ \E u \in Users : resetScan(t, u) \/ resetWipe(t, u)
<1> USE DEF TInv, TypeOK, PlacesOK, PlaceOK
<1>1. CASE \E u \in Users : resetScan(t, u) \/ resetWipe(t, u)
  BY <1>1
<1>2. CASE ValidateMember(t)
  <2>1. pc[t] = "validate" /\ pc'[t] = Body[request[t].op] /\ request[t].op \in Operations \ {"join"}
    BY <1>2 DEF ValidateMember, Goto
  <2>2. request[t].op = "reset"
    BY <2>1 DEF Resetting, Body, Operations
  <2>3. pc'[t] = "scan" /\ unscanned'[t] = Users
    BY <1>2, <2>1, <2>2 DEF ValidateMember, Body
  <2>4. QED
    BY <2>1, <2>3 DEF Resetting
<1>3. CASE Arrival(t) \/ broadcastEvents(t)
  BY <1>3 DEF Arrival, createSession, Receive, broadcastEvents, Return, Resetting
<1>4. CASE LookupFound(t) \/ LookupNotFound(t) \/ ValidateStranger(t) \/ joinSession(t)
           \/ vote(t) \/ exitSession(t) \/ resetWiped(t)
  BY <1>4 DEF LookupFound, LookupNotFound, ValidateStranger, joinSession, vote, exitSession,
     resetWiped, Goto, Return, Resetting
<1>5. CASE Publish(t) \/ CheckEmpty(t) \/ Terminate(t) \/ Announce(t)
  BY <1>5 DEF Publish, CheckEmpty, Terminate, Announce, Goto, Return, Resetting
<1>6. QED
  BY <1>1, <1>2, <1>3, <1>4, <1>5 DEF Step, ServiceStep

LEMMA ForgetStep ==
  ASSUME TInv, TInv', ForgetInv, History, NEW x \in Threads, Step(x), NEW t \in Threads
  PROVE  ForgetsOn(t)'
<1> DEFINE since == IF Resetting(t) THEN votedSince[t] \cup RecordsVote(request[t].sid) ELSE {}
<1>1. votedSince'[t] = since
  BY DEF History
<1>2. /\ request \in [Threads -> Request \cup {NoRequest}]
      /\ \A z \in Threads : pc[z] # "idle" => request[z] \in Request
      /\ \A z \in Threads : pc[z] = "update" => request[z].op = "vote"
  BY DEF TInv, TypeOK, PlacesOK, PlaceOK
<1>3. CASE x # t
  <2>1. /\ unscanned'[t] = unscanned[t] /\ participantSet'[t] = participantSet[t]
        /\ pc'[t] = pc[t] /\ request'[t] = request[t]
    BY <1>3, OthersScan
  <2> SUFFICES ASSUME Resetting(t), NEW u \in Users, participants'[request[t].sid][u] \in Points
               PROVE  u \in votedSince'[t] \cup ToForget(t)
    BY <2>1 DEF ForgetsOn, Resetting, ToForget, ForgetInv
  <2>2. request[t].sid \in Sessions
    BY <1>2 DEF Resetting, Request
  <2>3. CASE participants[request[t].sid][u] \in Points
    BY <1>1, <2>3 DEF ForgetInv, ForgetsOn
  <2>4. CASE vote(x) /\ request[x].sid = request[t].sid /\ request[x].user = u
    <3>1. pc[x] = "update" /\ pc'[x] = "publish"
      BY <2>4 DEF vote, Goto, TInv, TypeOK
    <3>2. u \in RecordsVote(request[t].sid)
      BY <1>2, <2>4, <3>1 DEF RecordsVote, Serving
    <3>3. QED
      BY <1>1, <3>2
  <2>5. QED
    BY <2>2, <2>3, <2>4, VotesChange
<1>4. CASE x = t /\ ~Resetting(t)'
  BY <1>4 DEF ForgetsOn, Resetting
<1>5. CASE x = t /\ ~Resetting(t) /\ pc'[t] = "scan" /\ unscanned'[t] = Users
  BY <1>5 DEF ForgetsOn, ToForget
<1>6. ASSUME NEW w \in Users, resetScan(t, w) PROVE ForgetsOn(t)'
  <2>1. /\ Resetting(t) /\ request' = request /\ participants' = participants
        /\ unscanned'[t] = unscanned[t] \ {w}
        /\ participantSet'[t] = IF w \in Members(request[t].sid)
                                THEN participantSet[t] \cup {w} ELSE participantSet[t]
        /\ pc'[t] = IF unscanned[t] = {w} THEN "wipe" ELSE "scan"
    BY <1>6 DEF resetScan, Goto, sessionVars, Resetting, TInv, TypeOK
  <2>2. ASSUME NEW u \in Users, participants[request[t].sid][u] \in Points
        PROVE  u \in votedSince'[t] \cup ToForget(t)'
    <3>1. u \in votedSince[t] \cup unscanned[t] \cup participantSet[t]
      BY <2>1, <2>2 DEF ForgetInv, ForgetsOn, ToForget
    <3>2. u = w => w \in Members(request[t].sid)
      BY <2>2 DEF Members
    <3>3. QED
      BY <1>1, <2>1, <3>1, <3>2 DEF ToForget
  <2>3. QED
    BY <2>1, <2>2 DEF ForgetsOn
<1>7. ASSUME NEW w \in Users, resetWipe(t, w) PROVE ForgetsOn(t)'
  <2>1. /\ Resetting(t) /\ pc' = pc /\ request' = request /\ unscanned' = unscanned
        /\ participantSet'[t] = participantSet[t] \ {w}
        /\ Put(request[t].sid, w, NoVote) /\ request[t].sid \in Sessions
    BY <1>2, <1>7 DEF resetWipe, Resetting, TInv, TypeOK, Request
  <2>2. ASSUME NEW u \in Users, participants'[request[t].sid][u] \in Points
        PROVE  u \in votedSince'[t] \cup ToForget(t)'
    <3>1. u # w /\ participants[request[t].sid][u] \in Points
      BY <2>1, <2>2 DEF Put, TInv, TypeOK
    <3>2. u \in votedSince[t] \cup unscanned[t] \cup participantSet[t]
      BY <2>1, <3>1 DEF ForgetInv, ForgetsOn, ToForget
    <3>3. QED
      BY <1>1, <2>1, <3>1, <3>2 DEF ToForget
  <2>3. QED
    BY <2>1, <2>2 DEF ForgetInv, ForgetsOn
<1>8. QED
  BY <1>3, <1>4, <1>5, <1>6, <1>7, ResetMoves

\* A reset returns when it has nothing left to forget.
LEMMA ForgetsEarlier ==
  ASSUME TInv, ForgetInv, NEW x \in Threads, Step(x), NEW t \in Threads,
         Resetting(t), pc'[t] = "publish", NEW u \in Members(request[t].sid)',
         participants'[request[t].sid][u] # NoVote
  PROVE  u \in votedSince[t]
<1>1. x = t
  BY OthersStay DEF Resetting
<1>2. resetWiped(t)
  <2>1. ~(LookupFound(t) \/ LookupNotFound(t) \/ ValidateMember(t) \/ ValidateStranger(t)
          \/ joinSession(t) \/ vote(t) \/ exitSession(t) \/ Publish(t) \/ CheckEmpty(t)
          \/ Terminate(t) \/ Announce(t) \/ broadcastEvents(t) \/ Arrival(t))
    BY DEF Resetting, LookupFound, LookupNotFound, ValidateMember, ValidateStranger, joinSession,
       vote, exitSession, Publish, CheckEmpty, Terminate, Announce, broadcastEvents, Arrival,
       createSession, Receive
  <2>2. \A w \in Users : ~resetScan(t, w) /\ ~resetWipe(t, w)
    BY DEF resetScan, resetWipe, Goto, Resetting, TInv, TypeOK
  <2>3. QED
    BY <1>1, <2>1, <2>2 DEF Step, ServiceStep
<1>3. ToForget(t) = {} /\ participants' = participants /\ request' = request
  BY <1>2 DEF resetWiped, Goto, sessionVars, ForgetInv, ForgetsOn, ToForget
<1>4. request[t].sid \in Sessions
  BY DEF Resetting, TInv, PlacesOK, PlaceOK, Request
<1>5. u \in Users /\ participants[request[t].sid][u] \in Points
  BY <1>3, <1>4 DEF Members, TInv, TypeOK, Votes
<1>6. QED
  BY <1>3, <1>5 DEF ForgetInv, ForgetsOn

-----------------------------------------------------------------------------
(***************************************************************************)
(* resetVotes takes no lock and reads and writes the participants one by   *)
(* one.  Still, for any number of users, threads and sessions, every vote  *)
(* left when it returns has been cast while it was running.                *)
(***************************************************************************)
THEOREM ResetsForget == HistorySpec => ResetForgetsEarlierVotes
<1>1. HistoryInit => TInv /\ ForgetInv
  BY TypeInit DEF HistoryInit, Init, ForgetInv, ForgetsOn, Resetting
<1>2. [HistoryNext]_histVars => [Next]_vars
  BY DEF HistoryNext, histVars
<1>3. TInv /\ [Next]_vars => TInv'
  BY TypeNext
<1>4. TInv /\ TInv' /\ ForgetInv /\ [HistoryNext]_histVars => ForgetInv'
  <2> SUFFICES ASSUME TInv, TInv', ForgetInv, [HistoryNext]_histVars PROVE ForgetInv'
    OBVIOUS
  <2>1. CASE UNCHANGED histVars
    BY <2>1 DEF histVars, vars, ForgetInv, ForgetsOn, Resetting, ToForget
  <2>2. CASE HistoryNext
    <3>1. PICK x \in Threads : Step(x)
      BY <2>2 DEF HistoryNext, Next, Step
    <3>2. History
      BY <2>2 DEF HistoryNext
    <3>3. QED
      BY <3>1, <3>2, ForgetStep DEF ForgetInv
  <2>3. QED
    BY <2>1, <2>2
<1>5. TInv /\ ForgetInv /\ [HistoryNext]_histVars =>
        [\A t \in Threads :
           (Resetting(t) /\ pc'[t] = "publish") =>
             \A u \in Members(request[t].sid)' :
               participants'[request[t].sid][u] # NoVote => u \in votedSince[t]]_histVars
  <2> SUFFICES ASSUME TInv, ForgetInv, HistoryNext, NEW t \in Threads,
                      Resetting(t), pc'[t] = "publish", NEW u \in Members(request[t].sid)',
                      participants'[request[t].sid][u] # NoVote
               PROVE  u \in votedSince[t]
    OBVIOUS
  <2>1. PICK x \in Threads : Step(x)
    BY DEF HistoryNext, Next, Step
  <2>2. QED
    BY <2>1, ForgetsEarlier
<1>6. QED
  BY <1>1, <1>2, <1>3, <1>4, <1>5, PTL DEF HistorySpec, ResetForgetsEarlierVotes

-----------------------------------------------------------------------------
(***************************************************************************)
(* What the events have yet to tell.  A change of one participant is       *)
(* untold until its event is published, and every participant a reset may  *)
(* have written until the reset is published.                              *)
(***************************************************************************)
TellsOne(t) == pc[t] = "publish" /\ request[t].op # "reset"
TellsAll(t) == pc[t] \in {"wipe", "publish"} /\ request[t].op = "reset"

Untold(s, u) ==
  \E t \in Threads :
    /\ TellsAll(t) \/ (TellsOne(t) /\ request[t].user = u)
    /\ request[t].sid = s

\* What the change of a request makes of its user
Gives(r) == IF r.op = "exit" THEN Absent ELSE r.vote

Told == \A s \in Sessions, u \in Users : ~Untold(s, u) => seen[s][u] = participants[s][u]

ChangesStand ==
  \A t \in Threads :
    TellsOne(t) => participants[request[t].sid][request[t].user] = Gives(request[t])

\* A reset that is alone in its session collects exactly its participants, and
\* changes nothing but their votes.
ResetStands(t) ==
  /\ participantSet[t] # {} => Resetting(t)
  /\ Resetting(t) => participantSet[t] \subseteq Members(request[t].sid)
  /\ pc[t] = "scan" => Members(request[t].sid) \subseteq ToForget(t)
  /\ TellsAll(t) =>
       \A u \in Users :
         /\ seen[request[t].sid][u] = Absent <=> participants[request[t].sid][u] = Absent
         /\ participants[request[t].sid][u] \in Points => u \in participantSet[t]

ResetsStand == \A t \in Threads : ResetStands(t)

SeenType == seen \in [Sessions -> [Users -> Votes \cup {Absent}]]

TellingInv == Disciplined /\ Told /\ ChangesStand /\ ResetsStand

FollowerInv == VotesOnly /\ SeenType /\ (disciplined => TellingInv)

\* What the follower makes of an event
WithVote(before, s, u, v) == [before EXCEPT ![s][u] = v]

WithoutVotes(before, s) ==
  [before EXCEPT ![s] = [w \in Users |-> IF @[w] = Absent THEN Absent ELSE NoVote]]

LEMMA Applied ==
  ASSUME NEW before, NEW ev
  PROVE  /\ ev.type \in {SessionCreated, UserJoined, UserVoted} =>
              Apply(before, ev) = WithVote(before, ev.sid, ev.uid, ev.point)
         /\ ev.type = VoteReset => Apply(before, ev) = WithoutVotes(before, ev.sid)
         /\ ev.type = UserExited => Apply(before, ev) = WithVote(before, ev.sid, ev.uid, Absent)
         /\ ev.type = AutoTerminated => Apply(before, ev) = before
<1>1. Apply(before, ev) =
        CASE ev.type \in {SessionCreated, UserJoined, UserVoted} ->
               WithVote(before, ev.sid, ev.uid, ev.point)
          [] ev.type = VoteReset -> WithoutVotes(before, ev.sid)
          [] ev.type = UserExited -> WithVote(before, ev.sid, ev.uid, Absent)
          [] ev.type = AutoTerminated -> before
  BY DEF Apply, WithVote, WithoutVotes
<1>2. QED
  BY <1>1 DEF SessionCreated, UserJoined, UserVoted, VoteReset, UserExited, AutoTerminated

\* What the follower makes of a step
LEMMA SeenAfter ==
  ASSUME TInv, SeenType, VotesOnly, Follow, NEW x \in Threads, Step(x)
  PROVE  /\ SeenType'
         /\ ~Publish(x) => seen' = seen
         /\ Publish(x) /\ request[x].op # "reset" =>
              seen' = [seen EXCEPT ![request[x].sid][request[x].user] = Gives(request[x])]
         /\ Publish(x) /\ request[x].op = "reset" =>
              seen' = [seen EXCEPT ![request[x].sid] =
                        [w \in Users |-> IF @[w] = Absent THEN Absent ELSE NoVote]]
<1> DEFINE e == published'[Len(published')]
           s == request[x].sid
           u == request[x].user
<1>1. published \in Seq(PokerEvent)
  BY DEF TInv, TypeOK
<1>2. ASSUME NEW ev, published' = Append(published, ev)
      PROVE  e = ev /\ seen' = Apply(seen, ev)
  <2>1. published' # published /\ e = ev
    BY <1>1, <1>2
  <2>2. QED
    BY <2>1 DEF Follow
<1> HIDE DEF e
<1>3. CASE published' = published
  <2>1. ~Publish(x) /\ seen' = seen
    BY <1>1, <1>3, PublishedChange DEF Follow
  <2>2. QED
    BY <2>1 DEF SeenType
<1>4. CASE Announce(x)
  <2>1. PICK ts \in Nat :
          published' = Append(published, Event(AutoTerminated, s, "auto", NoVote, ts))
    BY <1>4, PublishedChange DEF Announce, Publish
  <2>2. seen' = seen
    BY <1>2, <2>1, Applied DEF Event
  <2>3. ~Publish(x)
    BY <1>4 DEF Announce, Publish
  <2>4. QED
    BY <2>2, <2>3 DEF SeenType
<1>5. CASE Publish(x)
  <2>1. PICK ts \in Nat : published' =
           Append(published, Event(EventOf[request[x].op], s, u, request[x].vote, ts))
    BY <1>5, PublishedChange DEF Announce, Publish
  <2>2. PICK ev : /\ seen' = Apply(seen, ev)
                  /\ ev.type = EventOf[request[x].op] /\ ev.sid = s /\ ev.uid = u
                  /\ ev.point = request[x].vote
    BY <1>2, <2>1 DEF Event
  <2>3. /\ request[x] \in Request /\ request[x].op \in DOMAIN EventOf
        /\ request[x].op # "vote" => request[x].vote = NoVote
        /\ s \in Sessions /\ u \in Users /\ request[x].vote \in Votes
    BY <1>5 DEF Publish, TInv, PlacesOK, PlaceOK, VotesOnly, Request
  <2>4. CASE request[x].op = "exit"
    <3>0. ev.type = UserExited
      BY <2>2, <2>4 DEF EventOf
    <3>1. seen' = WithVote(seen, s, u, Absent)
      BY <2>2, <3>0, Applied
    <3>2. QED
      BY <1>5, <2>3, <2>4, <3>1 DEF SeenType, Gives, WithVote
  <2>5. CASE request[x].op = "reset"
    <3>0. ev.type = VoteReset
      BY <2>2, <2>5 DEF EventOf
    <3>1. seen' = WithoutVotes(seen, s)
      BY <2>2, <3>0, Applied
    <3>2. QED
      BY <1>5, <2>3, <2>5, <3>1 DEF SeenType, Votes, WithoutVotes
  <2>6. CASE request[x].op \in {"create", "join", "vote"}
    <3>0. ev.type \in {SessionCreated, UserJoined, UserVoted}
      BY <2>2, <2>6 DEF EventOf
    <3>1. seen' = WithVote(seen, s, u, request[x].vote)
      BY <2>2, <3>0, Applied
    <3>2. QED
      BY <1>5, <2>3, <2>6, <3>1 DEF SeenType, Gives, WithVote
  <2>7. QED
    BY <2>3, <2>4, <2>5, <2>6 DEF EventOf
<1>6. QED
  BY <1>3, <1>4, <1>5, PublishedChange

-----------------------------------------------------------------------------
\* The steps of a request that have nothing to do with what is told,
Aside(x) ==
  /\ UNCHANGED <<participants, participantSet>> /\ ~Publish(x)
  /\ pc[x] \notin {"scan", "wipe", "publish"}
  /\ pc'[x] \notin {"wipe", "publish"}
  /\ pc'[x] = "scan" => unscanned'[x] = Users

\* and those that change one participant.
Changes(x) ==
  /\ participants' =
       [participants EXCEPT ![request'[x].sid][request'[x].user] = Gives(request'[x])]
  /\ UNCHANGED participantSet /\ ~Publish(x)
  /\ pc[x] \notin {"scan", "wipe", "publish"}
  /\ pc'[x] = "publish" /\ request'[x].op # "reset"
  /\ request'[x].sid \in Sessions /\ request'[x].user \in Users

LEMMA KindsOfSteps ==
  ASSUME TInv, VotesOnly, VotesOnly', NEW x \in Threads, Step(x)
  PROVE  \/ Aside(x) \/ Changes(x) \/ resetWiped(x) \/ Publish(x)
         \/ \E u \in Users : resetScan(x, u) \/ resetWipe(x, u)
<1> USE DEF TInv, TypeOK, PlacesOK, PlaceOK
<1>1. ASSUME NEW s \in Sessions, NEW u \in Users, createSession(x, s, u) PROVE Changes(x)
  <2>1. /\ request'[x] = [op |-> "create", sid |-> s, user |-> u, vote |-> NoVote]
        /\ pc[x] = "idle" /\ pc'[x] = "publish"
        /\ participants' = [participants EXCEPT ![s][u] = NoVote]
        /\ UNCHANGED participantSet
    BY <1>1 DEF createSession, Put, scanVars
  <2>2. QED
    BY <2>1 DEF Changes, Gives, Publish
<1>2. CASE joinSession(x) \/ vote(x) \/ exitSession(x)
  <2>1. /\ pc[x] \in {"put", "update", "remove"} /\ pc'[x] = "publish"
        /\ request' = request /\ request[x] \in Request /\ request[x].op # "reset"
        /\ UNCHANGED participantSet
    BY <1>2 DEF joinSession, vote, exitSession, Goto, scanVars
  <2>2. participants' =
          [participants EXCEPT ![request[x].sid][request[x].user] = Gives(request[x])]
    <3>1. CASE joinSession(x)
      <4>1. request[x].op = "join" /\ request[x].vote = NoVote
        BY <3>1 DEF joinSession, VotesOnly
      <4>2. QED
        BY <3>1, <4>1 DEF joinSession, Put, Gives
    <3>2. CASE vote(x)
      <4>1. request[x].op = "vote"
        BY <3>2 DEF vote
      <4>2. QED
        BY <3>2, <4>1 DEF vote, Put, Gives
    <3>3. CASE exitSession(x)
      <4>1. request[x].op = "exit"
        BY <3>3 DEF exitSession
      <4>2. QED
        BY <3>3, <4>1 DEF exitSession, Put, Gives
    <3>4. QED
      BY <1>2, <3>1, <3>2, <3>3
  <2>3. request[x].sid \in Sessions /\ request[x].user \in Users
    BY <2>1 DEF Request
  <2>4. QED
    BY <2>1, <2>2, <2>3 DEF Changes, Publish
<1>3. ASSUME NEW r \in Request, Receive(x, r) PROVE Aside(x)
  BY <1>3 DEF Receive, sessionVars, scanVars, Aside, Publish
<1>4. CASE ValidateMember(x)
  <2>1. /\ pc[x] = "validate" /\ request[x].op \in {"vote", "reset", "exit", "fetch"}
        /\ pc'[x] = Body[request[x].op]
        /\ unscanned'[x] = IF request[x].op = "reset" THEN Users ELSE {}
        /\ UNCHANGED <<participants, participantSet>>
    BY <1>4 DEF ValidateMember, Goto, sessionVars, Operations
  <2>2. pc'[x] \notin {"wipe", "publish"} /\ (pc'[x] = "scan" => request[x].op = "reset")
    BY <2>1 DEF Body
  <2>3. QED
    BY <2>1, <2>2 DEF Aside, Publish
<1>5. CASE LookupFound(x) \/ LookupNotFound(x) \/ ValidateStranger(x) \/ CheckEmpty(x)
           \/ Terminate(x) \/ Announce(x) \/ broadcastEvents(x)
  BY <1>5 DEF LookupFound, LookupNotFound, ValidateStranger, CheckEmpty, Terminate, Announce,
     broadcastEvents, Goto, Return, sessionVars, scanVars, Aside, Publish
<1>6. QED
  BY <1>1, <1>2, <1>3, <1>4, <1>5 DEF Step, Arrival, ServiceStep

\* Disciplined requests keep out of each other's way.
LEMMA Apart ==
  ASSUME Disciplined, NEW t \in Threads, NEW x \in Threads, t # x,
         pc[t] # "idle", pc[x] # "idle"
  PROVE  /\ request[t].user # request[x].user
         /\ request[t].op = "reset" \/ request[x].op = "reset" => request[t].sid # request[x].sid
BY DEF Disciplined

LEMMA BusyTypes ==
  ASSUME TInv, NEW t \in Threads, pc[t] # "idle"
  PROVE  request[t].sid \in Sessions /\ request[t].user \in Users
BY DEF TInv, PlacesOK, PlaceOK, Request

\* Whose request is in its session together with a reset: nobody's
LEMMA ResetIsAlone ==
  ASSUME TInv, Disciplined, NEW t \in Threads, NEW x \in Threads, t # x,
         Resetting(t) \/ TellsAll(t), pc[x] # "idle"
  PROVE  request[t].sid # request[x].sid
<1>1. request[t].op = "reset" /\ pc[t] # "idle"
  BY DEF Resetting, TellsAll, TInv, PlacesOK, PlaceOK
<1>2. QED
  BY <1>1, Apart

LEMMA AsideTells ==
  ASSUME TInv, TellingInv, NEW x \in Threads, Step(x), seen' = seen, Aside(x)
  PROVE  Told' /\ ChangesStand' /\ ResetsStand'
<1>1. \A t \in Threads \ {x} :
        /\ unscanned'[t] = unscanned[t] /\ participantSet'[t] = participantSet[t]
        /\ pc'[t] = pc[t] /\ request'[t] = request[t]
  BY OthersScan
<1>2. /\ ~TellsOne(x) /\ ~TellsAll(x) /\ ~TellsOne(x)' /\ ~TellsAll(x)'
      /\ UNCHANGED <<participants, participantSet>>
  BY DEF Aside, TellsOne, TellsAll
<1>3. Told'
  <2>1. ASSUME NEW s \in Sessions, NEW u \in Users, Untold(s, u) PROVE Untold(s, u)'
    BY <1>1, <1>2, <2>1 DEF Untold, TellsOne, TellsAll
  <2>2. QED
    BY <1>2, <2>1 DEF TellingInv, Told
<1>4. ChangesStand'
  BY <1>1, <1>2 DEF TellingInv, ChangesStand, TellsOne
<1>5. ASSUME NEW t \in Threads PROVE ResetStands(t)'
  <2>1. ResetStands(t)
    BY DEF TellingInv, ResetsStand
  <2>2. CASE t # x
    BY <1>1, <1>2, <2>1, <2>2 DEF ResetStands, Resetting, TellsAll, ToForget, Members
  <2>3. CASE t = x
    BY <1>2, <2>1, <2>3 DEF Aside, ResetStands, Resetting, TellsAll, ToForget, Members
  <2>4. QED
    BY <2>2, <2>3
<1>6. QED
  BY <1>3, <1>4, <1>5 DEF ResetsStand

LEMMA ChangeTells ==
  ASSUME TInv, TInv', TellingInv, Disciplined', NEW x \in Threads, Step(x), seen' = seen,
         Changes(x)
  PROVE  Told' /\ ChangesStand' /\ ResetsStand'
<1>1. \A t \in Threads \ {x} :
        /\ unscanned'[t] = unscanned[t] /\ participantSet'[t] = participantSet[t]
        /\ pc'[t] = pc[t] /\ request'[t] = request[t]
  BY OthersScan
<1>2. /\ ~TellsOne(x) /\ ~TellsAll(x) /\ TellsOne(x)' /\ ~TellsAll(x)' /\ ~Resetting(x)
      /\ ~Resetting(x)' /\ UNCHANGED participantSet /\ pc'[x] # "idle"
  BY DEF Changes, TellsOne, TellsAll, Resetting
<1> DEFINE s == request'[x].sid
           u == request'[x].user
<1>3. /\ s \in Sessions /\ u \in Users
      /\ participants \in [Sessions -> [Users -> Votes \cup {Absent}]]
      /\ participants' = [participants EXCEPT ![s][u] = Gives(request'[x])]
  BY DEF Changes, TInv, TypeOK
<1> HIDE DEF s, u
<1>4. \A z \in Sessions, w \in Users :
        participants'[z][w] = IF z = s /\ w = u THEN Gives(request'[x]) ELSE participants[z][w]
  BY <1>3
<1>5. Told'
  <2> SUFFICES ASSUME NEW z \in Sessions, NEW w \in Users, ~Untold(z, w)'
               PROVE  seen[z][w] = participants'[z][w]
    BY DEF Told
  <2>1. ~(z = s /\ w = u)
    BY <1>2 DEF Untold, s, u
  <2>2. ~Untold(z, w)
    BY <1>1, <1>2 DEF Untold, TellsOne, TellsAll
  <2>3. QED
    BY <1>4, <2>1, <2>2 DEF TellingInv, Told
<1>6. ASSUME NEW t \in Threads, TellsOne(t)'
      PROVE  participants'[request'[t].sid][request'[t].user] = Gives(request'[t])
  <2>1. CASE t # x
    <3>1. /\ TellsOne(t) /\ request'[t] = request[t] /\ pc[t] # "idle" /\ pc'[t] # "idle"
      BY <1>1, <1>6, <2>1 DEF TellsOne
    <3>2. request[t].sid \in Sessions /\ request[t].user \in Users
      BY <3>1, BusyTypes
    <3>3. request[t].user # u
      BY <1>2, <2>1, <3>1 DEF Disciplined, u
    <3>4. QED
      BY <1>4, <3>1, <3>2, <3>3 DEF TellingInv, ChangesStand
  <2>2. CASE t = x
    BY <1>3, <1>4, <2>2 DEF s, u
  <2>3. QED
    BY <2>1, <2>2
<1>7. ASSUME NEW t \in Threads PROVE ResetStands(t)'
  <2>1. ResetStands(t)
    BY DEF TellingInv, ResetsStand
  <2>2. CASE t = x \/ ~(Resetting(t) \/ TellsAll(t))
    BY <1>1, <1>2, <2>1, <2>2 DEF ResetStands, Resetting, TellsAll
  <2>3. CASE t # x /\ (Resetting(t) \/ TellsAll(t))
    <3>1. /\ request'[t] = request[t] /\ pc'[t] = pc[t] /\ pc[t] # "idle"
          /\ request[t].op = "reset"
      BY <1>1, <2>3 DEF Resetting, TellsAll, TInv, PlacesOK, PlaceOK
    <3>2. request[t].sid # s /\ request[t].sid \in Sessions
      BY <1>2, <2>3, <3>1, BusyTypes DEF Disciplined, s
    <3>3. \A w \in Users : participants'[request[t].sid][w] = participants[request[t].sid][w]
      BY <1>4, <3>2
    <3>4. QED
      BY <1>1, <2>1, <2>3, <3>1, <3>3 DEF ResetStands, Resetting, TellsAll, ToForget, Members
  <2>4. QED
    BY <2>2, <2>3
<1>8. QED
  BY <1>5, <1>6, <1>7 DEF ChangesStand, ResetsStand

LEMMA ScanTells ==
  ASSUME TInv, TellingInv, NEW x \in Threads, Step(x), seen' = seen,
         NEW u \in Users, resetScan(x, u)
  PROVE  Told' /\ ChangesStand' /\ ResetsStand'
<1>1. \A t \in Threads \ {x} :
        /\ unscanned'[t] = unscanned[t] /\ participantSet'[t] = participantSet[t]
        /\ pc'[t] = pc[t] /\ request'[t] = request[t]
  BY OthersScan
<1> DEFINE s == request[x].sid
<1>2. /\ pc[x] = "scan" /\ pc'[x] = IF unscanned[x] = {u} THEN "wipe" ELSE "scan"
      /\ request' = request /\ participants' = participants
      /\ unscanned'[x] = unscanned[x] \ {u} /\ u \in unscanned[x]
      /\ participantSet'[x] = IF u \in Members(s) THEN participantSet[x] \cup {u}
                              ELSE participantSet[x]
      /\ request[x].op = "reset" /\ s \in Sessions
  BY BusyTypes DEF resetScan, Goto, sessionVars, TInv, TypeOK, PlacesOK, PlaceOK
<1>3. ~TellsOne(x) /\ ~TellsAll(x) /\ ~TellsOne(x)'
  BY <1>2 DEF TellsOne, TellsAll
<1>4. Told'
  <2>1. ASSUME NEW z \in Sessions, NEW w \in Users, Untold(z, w) PROVE Untold(z, w)'
    BY <1>1, <1>3, <2>1 DEF Untold, TellsOne, TellsAll
  <2>2. QED
    BY <1>2, <2>1 DEF TellingInv, Told
<1>5. ChangesStand'
  BY <1>1, <1>2, <1>3 DEF TellingInv, ChangesStand, TellsOne
<1>6. ASSUME NEW t \in Threads \ {x} PROVE ResetStands(t)'
  BY <1>1, <1>2 DEF TellingInv, ResetsStand, ResetStands, Resetting, TellsAll, ToForget, Members
<1>7. \A w \in Users : seen[s][w] = participants[s][w]
  <2>1. \A w \in Users : ~Untold(s, w)
    BY <1>2, <1>3, Apart DEF Untold, TellsOne, TellsAll, TellingInv
  <2>2. QED
    BY <1>2, <2>1 DEF TellingInv, Told
<1>8. ResetStands(x)'
  <2> HIDE DEF s
  <2>1. /\ participantSet[x] \subseteq Members(s)
        /\ Members(s) \subseteq unscanned[x] \cup participantSet[x]
    BY <1>2 DEF TellingInv, ResetsStand, ResetStands, Resetting, ToForget, s
  <2>2. /\ participantSet'[x] \subseteq Members(s)
        /\ Members(s) \subseteq unscanned'[x] \cup participantSet'[x]
    BY <1>2, <2>1
  <2>3. Members(s)' = Members(s) /\ request'[x].sid = s
    BY <1>2 DEF Members, s
  <2>4. pc'[x] = "wipe" => unscanned'[x] = {}
    BY <1>2
  <2>5. \A w \in Users : participants[s][w] \in Points => w \in Members(s)
    BY DEF Members
  <2>6. /\ pc'[x] \in {"scan", "wipe"} /\ participants' = participants /\ seen' = seen
    BY <1>2
  <2>7. QED
    BY <1>7, <2>2, <2>3, <2>4, <2>5, <2>6 DEF ResetStands, Resetting, TellsAll, ToForget, s
<1>9. QED
  BY <1>4, <1>5, <1>6, <1>8 DEF ResetsStand

LEMMA WipeTells ==
  ASSUME TInv, TellingInv, NEW x \in Threads, Step(x), seen' = seen,
         NEW u \in Users, resetWipe(x, u)
  PROVE  Told' /\ ChangesStand' /\ ResetsStand'
<1>1. \A t \in Threads \ {x} : participantSet'[t] = participantSet[t]
  BY OthersScan
<1> DEFINE s == request[x].sid
<1>2. /\ pc[x] = "wipe" /\ u \in participantSet[x]
      /\ UNCHANGED <<pc, request, unscanned>>
      /\ participants' = [participants EXCEPT ![s][u] = NoVote]
      /\ participantSet'[x] = participantSet[x] \ {u}
      /\ request[x].op = "reset" /\ s \in Sessions
      /\ participants \in [Sessions -> [Users -> Votes \cup {Absent}]]
  BY BusyTypes DEF resetWipe, Put, TInv, TypeOK, PlacesOK, PlaceOK
<1>3. ~TellsOne(x) /\ TellsAll(x) /\ pc[x] # "idle"
  BY <1>2 DEF TellsOne, TellsAll
<1> HIDE DEF s
<1>4. \A z \in Sessions, w \in Users :
        participants'[z][w] = IF z = s /\ w = u THEN NoVote ELSE participants[z][w]
  BY <1>2
<1>5. Told'
  <2> SUFFICES ASSUME NEW z \in Sessions, NEW w \in Users, ~Untold(z, w)'
               PROVE  seen[z][w] = participants'[z][w]
    BY DEF Told
  <2>1. ~Untold(z, w)
    BY <1>2 DEF Untold, TellsOne, TellsAll
  <2>2. z # s
    BY <1>3, <2>1 DEF Untold, s
  <2>3. QED
    BY <1>4, <2>1, <2>2 DEF TellingInv, Told
<1>6. ASSUME NEW t \in Threads, TellsOne(t)
      PROVE  participants'[request[t].sid][request[t].user] = Gives(request[t])
  <2>1. t # x /\ pc[t] # "idle"
    BY <1>3, <1>6 DEF TellsOne
  <2>2. request[t].sid # s /\ request[t].sid \in Sessions /\ request[t].user \in Users
    BY <1>3, <2>1, ResetIsAlone, BusyTypes DEF TellingInv, s
  <2>3. QED
    BY <1>4, <1>6, <2>2 DEF TellingInv, ChangesStand
<1>7. ASSUME NEW t \in Threads \ {x} PROVE ResetStands(t)'
  <2>1. ResetStands(t)
    BY DEF TellingInv, ResetsStand
  <2>2. CASE ~(Resetting(t) \/ TellsAll(t))
    BY <1>1, <1>2, <2>1, <2>2 DEF ResetStands, Resetting, TellsAll
  <2>3. CASE Resetting(t) \/ TellsAll(t)
    <3>1. request[t].sid # s /\ request[t].sid \in Sessions
      BY <1>3, <2>3, ResetIsAlone, BusyTypes DEF TellingInv, s, Resetting, TellsAll
    <3>2. \A w \in Users : participants'[request[t].sid][w] = participants[request[t].sid][w]
      BY <1>4, <3>1
    <3>3. QED
      BY <1>1, <1>2, <2>1, <3>2 DEF ResetStands, Resetting, TellsAll, ToForget, Members
  <2>4. QED
    BY <2>2, <2>3
<1>8. ResetStands(x)'
  <2>1. /\ participantSet[x] \subseteq Members(s)
        /\ \A w \in Users :
             /\ seen[s][w] = Absent <=> participants[s][w] = Absent
             /\ participants[s][w] \in Points => w \in participantSet[x]
    BY <1>2, <1>3 DEF TellingInv, ResetsStand, ResetStands, Resetting, s
  <2>2. NoVote # Absent /\ NoVote \notin Points
    BY EventsAssumption, ServiceAssumption
  <2>3. \A w \in Users : participants'[s][w] = Absent <=> participants[s][w] = Absent
    BY <1>2, <1>4, <2>1, <2>2 DEF Members
  <2>4. \A w \in Users :
          /\ seen[s][w] = Absent <=> participants'[s][w] = Absent
          /\ participants'[s][w] \in Points => w \in participantSet'[x]
    BY <1>2, <1>4, <2>1, <2>2 DEF Members
  <2>5. pc'[x] = "wipe" /\ request'[x].sid = s
    BY <1>2 DEF s
  <2>6. participantSet'[x] \subseteq Members(s)
    BY <1>2, <2>1
  <2>7. QED
    BY <2>3, <2>4, <2>5, <2>6 DEF ResetStands, Resetting, TellsAll, Members
<1>9. QED
  BY <1>2, <1>5, <1>6, <1>7, <1>8 DEF ChangesStand, ResetsStand, TellsOne

LEMMA WipedTells ==
  ASSUME TInv, TellingInv, NEW x \in Threads, Step(x), seen' = seen, resetWiped(x)
  PROVE  Told' /\ ChangesStand' /\ ResetsStand'
<1>1. \A t \in Threads \ {x} : pc'[t] = pc[t]
  BY OthersStay
<1>2. /\ pc[x] = "wipe" /\ pc'[x] = "publish" /\ participantSet[x] = {}
      /\ UNCHANGED <<request, participants, scanVars>> /\ request[x].op = "reset"
  BY DEF resetWiped, Goto, sessionVars, TInv, TypeOK, PlacesOK, PlaceOK
<1>3. /\ \A t \in Threads : (TellsOne(t)' <=> TellsOne(t)) /\ (TellsAll(t)' <=> TellsAll(t))
      /\ \A t \in Threads \ {x} : Resetting(t)' <=> Resetting(t)
  BY <1>1, <1>2 DEF TellsOne, TellsAll, Resetting
<1>4. Told'
  BY <1>2, <1>3 DEF TellingInv, Told, Untold
<1>5. ChangesStand'
  BY <1>2, <1>3 DEF TellingInv, ChangesStand
<1>6. ASSUME NEW t \in Threads PROVE ResetStands(t)'
  BY <1>1, <1>2, <1>3
     DEF TellingInv, ResetsStand, ResetStands, Resetting, ToForget, Members, scanVars
<1>7. QED
  BY <1>4, <1>5, <1>6 DEF ResetsStand

\* The event of a request tells what the request has changed.
LEMMA EventTells ==
  ASSUME TInv, TellingInv, SeenType, VotesOnly, Follow, NEW x \in Threads, Step(x), Publish(x)
  PROVE  Told' /\ ChangesStand' /\ ResetsStand'
<1>1. \A t \in Threads \ {x} : pc'[t] = pc[t] /\ request'[t] = request[t]
  BY OthersStay
<1> DEFINE s == request[x].sid
           u == request[x].user
<1>2. /\ pc[x] = "publish" /\ pc'[x] \in {"idle", "check"}
      /\ UNCHANGED <<participants, scanVars>>
      /\ s \in Sessions /\ u \in Users
      /\ participants \in [Sessions -> [Users -> Votes \cup {Absent}]]
  BY BusyTypes DEF Publish, Goto, Return, sessionVars, TInv, TypeOK
<1>3. ~TellsOne(x)' /\ ~TellsAll(x)' /\ ~Resetting(x) /\ ~Resetting(x)' /\ pc[x] # "idle"
  BY <1>2 DEF TellsOne, TellsAll, Resetting
<1>4. \A t \in Threads \ {x} : /\ TellsOne(t)' <=> TellsOne(t)
                               /\ TellsAll(t)' <=> TellsAll(t)
                               /\ Resetting(t)' <=> Resetting(t)
  BY <1>1 DEF TellsOne, TellsAll, Resetting
<1> HIDE DEF s, u
<1>5. /\ \A z \in Sessions, w \in Users : z # s => seen'[z][w] = seen[z][w]
      /\ request[x].op = "reset" =>
           \A w \in Users : seen'[s][w] = IF seen[s][w] = Absent THEN Absent ELSE NoVote
      /\ request[x].op # "reset" =>
           \A w \in Users : seen'[s][w] = IF w = u THEN Gives(request[x]) ELSE seen[s][w]
  <2>1. seen \in [Sessions -> [Users -> Votes \cup {Absent}]]
    BY DEF SeenType
  <2>2. CASE request[x].op = "reset"
    <3>1. seen' = [seen EXCEPT ![s] =
                    [w \in Users |-> IF @[w] = Absent THEN Absent ELSE NoVote]]
      BY <2>2, SeenAfter DEF s
    <3>2. QED
      BY <1>2, <2>1, <2>2, <3>1
  <2>3. CASE request[x].op # "reset"
    <3>1. seen' = [seen EXCEPT ![s][u] = Gives(request[x])]
      BY <2>3, SeenAfter DEF s, u
    <3>2. QED
      BY <1>2, <2>1, <2>3, <3>1
  <2>4. QED
    BY <2>2, <2>3
<1>6. Told'
  <2> SUFFICES ASSUME NEW z \in Sessions, NEW w \in Users, ~Untold(z, w)'
               PROVE  seen'[z][w] = participants'[z][w]
    BY DEF Told
  <2>1. ASSUME ~Untold(z, w) PROVE seen[z][w] = participants[z][w]
    BY <2>1 DEF TellingInv, Told
  <2>2. CASE z # s
    <3>1. ~Untold(z, w)
      BY <1>1, <1>4, <2>2 DEF Untold, s
    <3>2. QED
      BY <1>2, <1>5, <2>1, <2>2, <3>1
  <2>3. CASE z = s /\ request[x].op = "reset"
    <3>1. /\ participants[s][w] \notin Points
          /\ seen[s][w] = Absent <=> participants[s][w] = Absent
      BY <1>2, <1>3, <2>3 DEF TellingInv, ResetsStand, ResetStands, TellsAll, s
    <3>2. QED
      BY <1>2, <1>5, <2>3, <3>1 DEF Votes
  <2>4. CASE z = s /\ request[x].op # "reset" /\ w = u
    <3>1. TellsOne(x)
      BY <1>2, <2>4 DEF TellsOne
    <3>2. participants[s][u] = Gives(request[x])
      BY <3>1 DEF TellingInv, ChangesStand, s, u
    <3>3. QED
      BY <1>2, <1>5, <2>4, <3>2
  <2>5. CASE z = s /\ request[x].op # "reset" /\ w # u
    <3>1. ~Untold(z, w)
      BY <1>1, <1>4, <2>5 DEF Untold, TellsAll, u
    <3>2. QED
      BY <1>2, <1>5, <2>1, <2>5, <3>1
  <2>6. QED
    BY <2>2, <2>3, <2>4, <2>5
<1>7. ChangesStand'
  BY <1>1, <1>2, <1>3, <1>4 DEF TellingInv, ChangesStand
<1>8. ASSUME NEW t \in Threads PROVE ResetStands(t)'
  <2>1. ResetStands(t)
    BY DEF TellingInv, ResetsStand
  <2>2. CASE t = x \/ ~(Resetting(t) \/ TellsAll(t))
    BY <1>1, <1>2, <1>3, <1>4, <2>1, <2>2 DEF ResetStands, Resetting, TellsAll, scanVars
  <2>3. CASE t # x /\ (Resetting(t) \/ TellsAll(t))
    <3>1. request[t].sid # s /\ request[t].sid \in Sessions
      BY <1>3, <2>3, ResetIsAlone, BusyTypes DEF TellingInv, s, Resetting, TellsAll
    <3>2. \A w \in Users : seen'[request[t].sid][w] = seen[request[t].sid][w]
      BY <1>5, <3>1
    <3>3. QED
      BY <1>1, <1>2, <1>4, <2>1, <2>3, <3>2
         DEF ResetStands, Resetting, ToForget, Members, scanVars
  <2>4. QED
    BY <2>2, <2>3
<1>9. QED
  BY <1>6, <1>7, <1>8 DEF ResetsStand

LEMMA FollowerNext ==
  TInv /\ TInv' /\ FollowerInv /\ [HistoryNext]_histVars => FollowerInv'
<1> SUFFICES ASSUME TInv, TInv', FollowerInv, [HistoryNext]_histVars PROVE FollowerInv'
  OBVIOUS
<1>1. CASE UNCHANGED histVars
  BY <1>1 DEF histVars, vars, FollowerInv, VotesOnly, SeenType, TellingInv, Disciplined, Told,
     Untold, TellsOne, TellsAll, ChangesStand, ResetsStand, ResetStands, Resetting, ToForget,
     Members
<1>2. CASE HistoryNext
  <2>1. PICK x \in Threads : Step(x)
    BY <1>2 DEF HistoryNext, Next, Step
  <2>2. Follow /\ VotesOnly /\ SeenType
    BY <1>2 DEF HistoryNext, FollowerInv
  <2>3. VotesOnly'
    BY <1>2, <2>2, VotesOnlyNext DEF HistoryNext
  <2>4. SeenType'
    BY <2>1, <2>2, SeenAfter
  <2>5. ASSUME disciplined' PROVE TellingInv'
    <3>1. TellingInv /\ Disciplined'
      BY <1>2, <2>5 DEF HistoryNext, FollowerInv
    <3>2. CASE Publish(x)
      BY <2>1, <2>2, <3>1, <3>2, EventTells DEF TellingInv
    <3>3. CASE ~Publish(x)
      <4>1. seen' = seen
        BY <2>1, <2>2, <3>3, SeenAfter
      <4>2. \/ Aside(x) \/ Changes(x) \/ resetWiped(x)
            \/ \E u \in Users : resetScan(x, u) \/ resetWipe(x, u)
        BY <2>1, <2>2, <2>3, <3>3, KindsOfSteps
      <4>3. Told' /\ ChangesStand' /\ ResetsStand'
        BY <2>1, <3>1, <4>1, <4>2, AsideTells, ChangeTells, WipedTells, ScanTells, WipeTells
      <4>4. QED
        BY <3>1, <4>3 DEF TellingInv
    <3>4. QED
      BY <3>2, <3>3
  <2>6. QED
    BY <2>3, <2>4, <2>5 DEF FollowerInv
<1>3. QED
  BY <1>1, <1>2

(***************************************************************************)
(* Each operation changes the session first and publishes its event later, *)
(* and nothing orders the two steps of different requests.  Still, if      *)
(* every user waits for its responses and nobody else uses a session while *)
(* it is reset, the events tell a follower who is in every session and     *)
(* what everybody has voted, whenever all requests have been served        *)
(* (joinSession, vote, resetSession and exitSession of                     *)
(* PointPokerServiceImpl).                                                 *)
(***************************************************************************)
THEOREM EventsSuffice == HistorySpec => []EventsTellTheState
<1>1. HistoryInit => TInv /\ FollowerInv
  <2> SUFFICES ASSUME HistoryInit PROVE FollowerInv
    BY TypeInit DEF HistoryInit
  <2>1. /\ \A t \in Threads : pc[t] = "idle" /\ participantSet[t] = {}
        /\ seen = Unseen /\ participants = Unseen
    BY DEF HistoryInit, Init, Unseen
  <2>2. VotesOnly /\ SeenType
    BY <2>1 DEF VotesOnly, SeenType, Unseen
  <2>3. Disciplined /\ Told /\ ChangesStand /\ ResetsStand
    BY <2>1 DEF Disciplined, Told, ChangesStand, ResetsStand, ResetStands, Resetting, TellsAll,
       TellsOne
  <2>4. QED
    BY <2>2, <2>3 DEF FollowerInv, TellingInv
<1>2. TInv /\ [HistoryNext]_histVars => TInv'
  <2>1. [HistoryNext]_histVars => [Next]_vars
    BY DEF HistoryNext, histVars
  <2>2. QED
    BY <2>1, TypeNext
<1>3. TInv /\ FollowerInv => EventsTellTheState
  <2> SUFFICES ASSUME TInv, FollowerInv, Quiet, disciplined PROVE seen = participants
    BY DEF EventsTellTheState
  <2>1. \A s \in Sessions, u \in Users : seen[s][u] = participants[s][u]
    BY DEF FollowerInv, TellingInv, Told, Untold, TellsOne, TellsAll, Quiet
  <2>2. /\ seen \in [Sessions -> [Users -> Votes \cup {Absent}]]
        /\ participants \in [Sessions -> [Users -> Votes \cup {Absent}]]
    BY DEF FollowerInv, SeenType, TInv, TypeOK
  <2>3. \A s \in Sessions : seen[s] = participants[s]
    BY <2>1, <2>2
  <2>4. QED
    BY <2>2, <2>3
<1>4. QED
  BY <1>1, <1>2, <1>3, FollowerNext, PTL DEF HistorySpec
=============================================================================
