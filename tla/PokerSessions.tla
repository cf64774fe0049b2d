--------------------------- MODULE PokerSessions ---------------------------
(***************************************************************************)
(* The poker service: PointPokerServiceImpl, the PokerSession objects and  *)
(* the in-memory repository, under concurrent HTTP requests.               *)
(*                                                                         *)
(* Every request runs on a thread of the servlet container.  No lock is    *)
(* taken anywhere: the repository and the participants of a session are    *)
(* ConcurrentHashMaps, so one call on one of them is one step and whatever *)
(* lies between two calls may interleave with other requests.  `pc` names  *)
(* the next call a thread will make.                                       *)
(*                                                                         *)
(* Session ids come from UUID.randomUUID() and are never used twice, so a  *)
(* PokerSession object is identified with its id; a thread that has looked *)
(* a session up keeps working on the object after its removal from the     *)
(* repository.                                                             *)
(***************************************************************************)
EXTENDS PokerEvents, FiniteSets

CONSTANTS
  Threads,      \* request threads
  Absent,       \* not a key of a session's participants
  MaxRequests   \* bound on the number of requests accepted

ASSUME ServiceAssumption ==
  /\ Absent \notin Points \cup {NoVote}
  /\ MaxRequests \in Nat

VARIABLES
  pokerSessions,   \* keys of the repository
  participants,    \* participants of every session object: user -> vote
  issued,          \* session ids handed out by createSession
  pc,              \* next call of every request thread
  request,         \* the request every thread serves
  unscanned,       \* reset: users the stream over the values has yet to pass
  participantSet,  \* reset: users collected by that stream and not yet written
  clock,           \* Clock.millis()
  accepted         \* number of requests accepted so far (bounded)

sessionVars == <<pokerSessions, participants, issued>>
scanVars    == <<unscanned, participantSet>>
eventVars   == <<published, clock>>
vars == <<pokerSessions, participants, issued, pc, request, unscanned,
          participantSet, published, clock, accepted>>

Votes == Points \cup {NoVote}

\* Operations on an existing session; "create" makes its own.
Operations == {"join", "vote", "reset", "exit", "fetch"}

Request ==
  [op : Operations \cup {"create"}, sid : Sessions, user : Users, vote : Votes]

NoRequest == [op |-> "none"]

Steps == {"idle", "lookup", "validate", "put", "update", "scan", "wipe",
          "remove", "publish", "check", "terminate", "announce", "emitter"}

TypeOK ==
  /\ published \in Seq(PokerEvent)
  /\ pokerSessions \subseteq issued
  /\ issued \subseteq Sessions
  /\ participants \in [Sessions -> [Users -> Votes \cup {Absent}]]
  /\ pc \in [Threads -> Steps]
  /\ request \in [Threads -> Request \cup {NoRequest}]
  /\ unscanned \in [Threads -> SUBSET Users]
  /\ participantSet \in [Threads -> SUBSET Users]
  /\ clock \in Nat
  /\ accepted \in Nat

Members(s) == {u \in Users : participants[s][u] # Absent}

Init ==
  /\ published = <<>>
  /\ pokerSessions = {}
  /\ participants = [s \in Sessions |-> [u \in Users |-> Absent]]
  /\ issued = {}
  /\ pc = [t \in Threads |-> "idle"]
  /\ request = [t \in Threads |-> NoRequest]
  /\ unscanned = [t \in Threads |-> {}]
  /\ participantSet = [t \in Threads |-> {}]
  /\ clock = 0
  /\ accepted = 0

-----------------------------------------------------------------------------
\* The thread goes on to step l of its request.
Goto(t, l) ==
  /\ pc' = [pc EXCEPT ![t] = l]
  /\ UNCHANGED request

\* The request ends, with a result or with an exception.
Return(t) ==
  /\ pc' = [pc EXCEPT ![t] = "idle"]
  /\ request' = [request EXCEPT ![t] = NoRequest]

\* participants.put(u, v) on session object s
Put(s, u, v) == participants' = [participants EXCEPT ![s][u] = v]

\* now() and multicastEvent.  The listeners run on threads of their own, so
\* the call only records the event; two events may share a millisecond.  The
\* time between the two calls is part of the time a listener takes to start.
publishEvent(ty, s, u, v) ==
  \E d \in Ticks :
    /\ clock' = clock + d
    /\ published' = Append(published,
         [type |-> ty, sid |-> s, uid |-> u, point |-> v, ts |-> clock + d])

-----------------------------------------------------------------------------
(***************************************************************************)
(* Faulty variants of actions below, each with a mistake that is easy to   *)
(* make in the code.  Next has none of them; they are there to show that   *)
(* the properties tell them from the real ones.                            *)
(***************************************************************************)

\* LookupNotFound that calls createOrGetPokerSession
LookupNotFound_creates(t) ==
  /\ pc[t] = "lookup"
  /\ request[t].sid \notin pokerSessions
  /\ pokerSessions' = pokerSessions \cup {request[t].sid}
  /\ Goto(t, "validate")
  /\ UNCHANGED <<participants, issued, scanVars, eventVars, accepted>>

\* joinSession without its event
joinSession_silent(t) ==
  /\ pc[t] = "put"
  /\ Put(request[t].sid, request[t].user, NoVote)
  /\ Return(t)
  /\ UNCHANGED <<pokerSessions, issued, scanVars, eventVars, accepted>>

\* joinSession with putIfAbsent
joinSession_keepsVote(t) ==
  /\ pc[t] = "put"
  /\ IF request[t].user \in Members(request[t].sid)
     THEN UNCHANGED participants
     ELSE Put(request[t].sid, request[t].user, NoVote)
  /\ Goto(t, "publish")
  /\ UNCHANGED <<pokerSessions, issued, scanVars, eventVars, accepted>>

\* resetVotes that passes over the user who resets
resetScan_others(t, u) ==
  /\ pc[t] = "scan"
  /\ u \in unscanned[t]
  /\ unscanned' = [unscanned EXCEPT ![t] = @ \ {u}]
  /\ participantSet' = [participantSet EXCEPT ![t] =
       IF u \in Members(request[t].sid) \ {request[t].user} THEN @ \cup {u} ELSE @]
  /\ Goto(t, IF unscanned[t] = {u} THEN "wipe" ELSE "scan")
  /\ UNCHANGED <<sessionVars, eventVars, accepted>>

\* exitSession without the UserExited event
exitSession_silent(t) ==
  /\ pc[t] = "remove"
  /\ Put(request[t].sid, request[t].user, Absent)
  /\ Goto(t, "check")
  /\ UNCHANGED <<pokerSessions, issued, scanVars, eventVars, accepted>>

\* Publish after which no exit looks whether the session is empty
Publish_returns(t) ==
  /\ pc[t] = "publish"
  /\ \E ty \in {[create |-> SessionCreated, join |-> UserJoined, vote |-> UserVoted,
                 reset |-> VoteReset, exit |-> UserExited][request[t].op]} :
       publishEvent(ty, request[t].sid, request[t].user, request[t].vote)
  /\ Return(t)
  /\ UNCHANGED <<sessionVars, scanVars, accepted>>

\* CheckEmpty that counts the user who has left
CheckEmpty_offByOne(t) ==
  /\ pc[t] = "check"
  /\ IF Cardinality(Members(request[t].sid)) = 1 THEN Goto(t, "terminate") ELSE Return(t)
  /\ UNCHANGED <<sessionVars, scanVars, eventVars, accepted>>

\* CheckEmpty that does not check
CheckEmpty_always(t) ==
  /\ pc[t] = "check"
  /\ Goto(t, "terminate")
  /\ UNCHANGED <<sessionVars, scanVars, eventVars, accepted>>

\* Terminate without the SessionAutoTerminated event
Terminate_silent(t) ==
  /\ pc[t] = "terminate"
  /\ pokerSessions' = pokerSessions \ {request[t].sid}
  /\ Return(t)
  /\ UNCHANGED <<participants, issued, scanVars, eventVars, accepted>>

\* Terminate that leaves the session in the repository
Terminate_keepsSession(t) ==
  /\ pc[t] = "terminate"
  /\ Goto(t, "announce")
  /\ UNCHANGED <<sessionVars, scanVars, eventVars, accepted>>

-----------------------------------------------------------------------------
\* Some request in progress names session s.
Named(s) == \E t \in Threads : pc[t] # "idle" /\ request[t].sid = s

\* Session s is being created: its id has not reached any client.
BeingCreated(s) ==
  \E t \in Threads : pc[t] # "idle" /\ request[t].op = "create" /\ request[t].sid = s

(***************************************************************************)
(* createSession: a fresh id, the session with its creator in it, then the *)
(* SessionCreated event (Publish).  The id is random and unknown to any    *)
(* client before the response, so putting the session in the repository    *)
(* and the creator in the session are one step.                            *)
(***************************************************************************)
createSession(t, s, u) ==
  /\ pc[t] = "idle" /\ accepted < MaxRequests
  /\ s \in Sessions \ issued /\ ~Named(s)
  /\ accepted' = accepted + 1
  /\ issued' = issued \cup {s}
  /\ pokerSessions' = pokerSessions \cup {s}
  /\ Put(s, u, NoVote)
  /\ pc' = [pc EXCEPT ![t] = "publish"]
  /\ request' = [request EXCEPT ![t] =
                   [op |-> "create", sid |-> s, user |-> u, vote |-> NoVote]]
  /\ UNCHANGED <<scanVars, eventVars>>

\* The controller receives a request on a session id a client may know, or
\* on one that does not exist; only a vote carries a story point.
Receive(t, r) ==
  /\ pc[t] = "idle" /\ accepted < MaxRequests
  /\ r.op \in Operations
  /\ (r.op = "vote") <=> (r.vote # NoVote)
  /\ ~BeingCreated(r.sid)
  /\ accepted' = accepted + 1
  /\ pc' = [pc EXCEPT ![t] = "lookup"]
  /\ request' = [request EXCEPT ![t] = r]
  /\ UNCHANGED <<sessionVars, scanVars, eventVars>>

\* getPokerSession found the session: a join goes on at once, every other
\* operation checks that the user participates.
LookupFound(t) ==
  /\ pc[t] = "lookup"
  /\ request[t].sid \in pokerSessions
  /\ Goto(t, IF request[t].op = "join" THEN "put" ELSE "validate")
  /\ UNCHANGED <<sessionVars, scanVars, eventVars, accepted>>

\* PokerSessionNotFoundException (404)
LookupNotFound(t) ==
  /\ pc[t] = "lookup"
  /\ request[t].sid \notin pokerSessions
  /\ Return(t)
  /\ UNCHANGED <<sessionVars, scanVars, eventVars, accepted>>

\* The first step of each operation past getValidSession
Body == [vote |-> "update", reset |-> "scan", exit |-> "remove", fetch |-> "emitter"]

ValidateMember(t) ==
  /\ pc[t] = "validate"
  /\ request[t].user \in Members(request[t].sid)
  /\ Goto(t, Body[request[t].op])
  /\ unscanned' = [unscanned EXCEPT ![t] =
                     IF request[t].op = "reset" THEN Users ELSE {}]
  /\ UNCHANGED <<sessionVars, participantSet, eventVars, accepted>>

\* UnAssociatedParticipantException (403)
ValidateStranger(t) ==
  /\ pc[t] = "validate"
  /\ request[t].user \notin Members(request[t].sid)
  /\ Return(t)
  /\ UNCHANGED <<sessionVars, scanVars, eventVars, accepted>>

-----------------------------------------------------------------------------
\* joinSession: addParticipantToSession, which also overwrites the vote of a
\* user who is in the session already.
joinSession(t) ==
  /\ pc[t] = "put"
  /\ Put(request[t].sid, request[t].user, NoVote)
  /\ Goto(t, "publish")
  /\ UNCHANGED <<pokerSessions, issued, scanVars, eventVars, accepted>>

\* vote: updateParticipant puts the voter back even if it has left meanwhile.
vote(t) ==
  /\ pc[t] = "update"
  /\ Put(request[t].sid, request[t].user, request[t].vote)
  /\ Goto(t, "publish")
  /\ UNCHANGED <<pokerSessions, issued, scanVars, eventVars, accepted>>

(***************************************************************************)
(* resetVotes, first half: a stream over participants.values() collects    *)
(* every participant, without its vote, in participantSet.  Iteration over *)
(* a ConcurrentHashMap is weakly consistent: the entries are passed one by *)
(* one, each as it is when it is passed.                                   *)
(***************************************************************************)
resetScan(t, u) ==
  /\ pc[t] = "scan"
  /\ u \in unscanned[t]
  /\ unscanned' = [unscanned EXCEPT ![t] = @ \ {u}]
  /\ participantSet' = [participantSet EXCEPT ![t] =
                          IF u \in Members(request[t].sid) THEN @ \cup {u} ELSE @]
  /\ Goto(t, IF unscanned[t] = {u} THEN "wipe" ELSE "scan")
  /\ UNCHANGED <<sessionVars, eventVars, accepted>>

\* resetVotes, second half: the collected participants are put back one by
\* one, over votes cast since and over users who have left since.
resetWipe(t, u) ==
  /\ pc[t] = "wipe"
  /\ u \in participantSet[t]
  /\ Put(request[t].sid, u, NoVote)
  /\ participantSet' = [participantSet EXCEPT ![t] = @ \ {u}]
  /\ UNCHANGED <<pokerSessions, issued, pc, request, unscanned, eventVars, accepted>>

resetWiped(t) ==
  /\ pc[t] = "wipe"
  /\ participantSet[t] = {}
  /\ Goto(t, "publish")
  /\ UNCHANGED <<sessionVars, scanVars, eventVars, accepted>>

\* exitSession: removeParticipant
exitSession(t) ==
  /\ pc[t] = "remove"
  /\ Put(request[t].sid, request[t].user, Absent)
  /\ Goto(t, "publish")
  /\ UNCHANGED <<pokerSessions, issued, scanVars, eventVars, accepted>>

-----------------------------------------------------------------------------
\* The event each operation publishes when its change has been made
EventOf == [create |-> SessionCreated, join |-> UserJoined, vote |-> UserVoted,
            reset |-> VoteReset, exit |-> UserExited]

\* publishEvent of the operation; the request is over, except that an exit
\* goes on to see whether the session is empty.
Publish(t) ==
  /\ pc[t] = "publish"
  /\ publishEvent(EventOf[request[t].op], request[t].sid, request[t].user, request[t].vote)
  /\ IF request[t].op = "exit" THEN Goto(t, "check") ELSE Return(t)
  /\ UNCHANGED <<sessionVars, scanVars, accepted>>

\* exitSession: getParticipants().isEmpty()
CheckEmpty(t) ==
  /\ pc[t] = "check"
  /\ IF Members(request[t].sid) = {} THEN Goto(t, "terminate") ELSE Return(t)
  /\ UNCHANGED <<sessionVars, scanVars, eventVars, accepted>>

\* exitSession: removePokerSession, whoever may have joined since the check
Terminate(t) ==
  /\ pc[t] = "terminate"
  /\ pokerSessions' = pokerSessions \ {request[t].sid}
  /\ Goto(t, "announce")
  /\ UNCHANGED <<participants, issued, scanVars, eventVars, accepted>>

Announce(t) ==
  /\ pc[t] = "announce"
  /\ publishEvent(AutoTerminated, request[t].sid, "auto", NoVote)
  /\ Return(t)
  /\ UNCHANGED <<sessionVars, scanVars, accepted>>

\* broadcastEvents: what follows getValidSession is VoteStreams' part.
broadcastEvents(t) ==
  /\ pc[t] = "emitter"
  /\ Return(t)
  /\ UNCHANGED <<sessionVars, scanVars, eventVars, accepted>>

-----------------------------------------------------------------------------
\* One step of the request thread t has taken on, up to broadcastEvents
ServiceStep(t) ==
  \/ LookupFound(t) \/ LookupNotFound(t)
  \/ ValidateMember(t) \/ ValidateStranger(t)
  \/ joinSession(t) \/ vote(t) \/ exitSession(t)
  \/ \E u \in Users : resetScan(t, u) \/ resetWipe(t, u)
  \/ resetWiped(t)
  \/ Publish(t) \/ CheckEmpty(t) \/ Terminate(t) \/ Announce(t)

\* A new request arrives at the idle thread t.
Arrival(t) ==
  \/ \E s \in Sessions, u \in Users : createSession(t, s, u)
  \/ \E r \in Request : Receive(t, r)

\* All requests have been served.
Quiet == \A t \in Threads : pc[t] = "idle"

Next == \E t \in Threads : Arrival(t) \/ ServiceStep(t) \/ broadcastEvents(t)

\* A thread with a request keeps running: there is nothing to wait for.
Fairness == \A t \in Threads : WF_vars(ServiceStep(t) \/ broadcastEvents(t))

Spec == Init /\ [][Next]_vars
FairSpec == Spec /\ Fairness

-----------------------------------------------------------------------------
\* Thread t serves a request with operation op on session s, and its next
\* call is one of steps.
Serving(t, op, s, steps) ==
  /\ pc[t] \in steps
  /\ request[t].op = op
  /\ request[t].sid = s

(***************************************************************************)
(* A session without participants never stays behind in the repository:    *)
(* whichever exits, votes, joins and resets interleave, some exit that has *)
(* removed a participant has its isEmpty() or removePokerSession() ahead   *)
(* of it (PointPokerServiceImpl.exitSession).                              *)
(***************************************************************************)
EmptySessionIsBeingTerminated ==
  \A s \in pokerSessions :
    Members(s) = {} =>
      \E t \in Threads : Serving(t, "exit", s, {"publish", "check", "terminate"})

\* User u has been announced in session s, or is about to be.
Introduced(s, u) ==
  \/ Announced(s, u)
  \/ \E t \in Threads :
       /\ Serving(t, "create", s, {"publish"}) \/ Serving(t, "join", s, {"publish"})
       /\ request[t].user = u

(***************************************************************************)
(* The listeners learn of every participant: whoever is in a session, even *)
(* put back by a vote or a reset after leaving it, has been announced as   *)
(* its creator or by a join, or the thread that put it there is about to.  *)
(***************************************************************************)
MembersWereIntroduced ==
  \A s \in Sessions : \A u \in Members(s) : Introduced(s, u)

(***************************************************************************)
(* Terminations and their events agree: a session whose termination has    *)
(* been published is gone from the repository for good, and a session that *)
(* is gone has its termination published or about to be, so the listeners  *)
(* get to release its queues.                                              *)
(***************************************************************************)
TerminationsAreAnnounced ==
  \A s \in issued :
    /\ Occurred(AutoTerminated, s) => s \notin pokerSessions
    /\ s \notin pokerSessions =>
         \/ Occurred(AutoTerminated, s)
         \/ \E t \in Threads : Serving(t, "exit", s, {"announce"})

(***************************************************************************)
(* The events are published in an order the listeners may count on: the    *)
(* contract under which UserEventQueues is checked.                        *)
(***************************************************************************)
PublishesInOrder ==
  [][\E i \in DOMAIN published' :
       /\ published' = Append(published, published'[i])
       /\ MayFollow(published'[i])]_published

(***************************************************************************)
(* The life of a session as the callers of the service may count on it: a  *)
(* session is closing once an exit has found it empty and is about to      *)
(* remove it, and closed when it is out of the repository.                 *)
(***************************************************************************)
Closing(s) == \E t \in Threads : Serving(t, "exit", s, {"terminate"})

Phase(s) ==
  IF s \notin issued THEN "unused"
  ELSE IF s \notin pokerSessions THEN "closed"
  ELSE IF Closing(s) THEN "closing" ELSE "open"

Lifecycle == INSTANCE SessionLifecycle WITH
  phase   <- [s \in Sessions |-> Phase(s)],
  members <- [s \in Sessions |-> Members(s)]

(***************************************************************************)
(* PointPokerServiceImpl implements SessionLifecycle: no interleaving of   *)
(* requests opens a session twice, begins to close one that is not empty   *)
(* at that moment, or revives a closed one; and with every request being   *)
(* served to its end, a session that stays empty does get closed.          *)
(***************************************************************************)
ImplementsLifecycle == Lifecycle!Spec
ImplementsFairLifecycle == Lifecycle!FairSpec

(***************************************************************************)
(* What the comment in exitSession says ("If last user exited then         *)
(* terminate the session"): only a session without participants is         *)
(* removed.  The code does not guarantee it: a join or a vote may come     *)
(* between isEmpty() and removePokerSession().                             *)
(***************************************************************************)
TerminatesOnlyEmptySessions ==
  [][\A s \in pokerSessions \ pokerSessions' : Members(s) = {}]_pokerSessions
=============================================================================
