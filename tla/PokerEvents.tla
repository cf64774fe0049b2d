---------------------------- MODULE PokerEvents ----------------------------
(***************************************************************************)
(* The events the poker service hands to Spring's event multicaster.       *)
(*                                                                         *)
(* `published` is the sequence of multicastEvent calls, in the order they  *)
(* are made; the position of an event in it plays the part of its random   *)
(* eventId.  The service (PokerSessions) appends to it, the asynchronous   *)
(* listeners (UserEventQueues) read it.  MayFollow is the contract between *)
(* the two: PokerSessions is shown to keep it, UserEventQueues is checked  *)
(* against every publisher that keeps it.                                  *)
(***************************************************************************)
EXTENDS Naturals, Sequences

CONSTANTS
  Users,     \* user ids
  Sessions,  \* the session ids UUID.randomUUID() may return
  Points,    \* story points a vote may carry
  NoVote,    \* Optional.empty(): no vote cast
  Ticks      \* milliseconds the clock may advance between two events

VARIABLE published

ASSUME EventsAssumption ==
  /\ NoVote \notin Points
  /\ Users \cap Sessions = {}
  /\ "auto" \notin Users
  /\ Ticks \subseteq Nat

\* PokerEvent.getType() of the six kinds of event
SessionCreated == "session-created"
UserJoined     == "user-joined"
UserVoted      == "user-voted"
VoteReset      == "vote-reset"
UserExited     == "user-exited"
AutoTerminated == "session-auto-terminated"

EventTypes ==
  {SessionCreated, UserJoined, UserVoted, VoteReset, UserExited, AutoTerminated}

\* An automatic termination has the fixed user id "auto".
Authors == Users \cup {"auto"}

PokerEvent == [type : EventTypes, sid : Sessions, uid : Authors,
               point : Points \cup {NoVote}, ts : Nat]

\* Some event of kind ty of session s has been published.
Occurred(ty, s) ==
  \E i \in DOMAIN published : published[i].type = ty /\ published[i].sid = s

\* User u has been announced to the listeners of session s, as its creator
\* or by a join: the two kinds of event that give u an event queue.
Announced(s, u) ==
  \E i \in DOMAIN published :
    /\ published[i].type \in {SessionCreated, UserJoined}
    /\ published[i].sid = s
    /\ published[i].uid = u

(***************************************************************************)
(* What the service promises about the next event: a session's creation is *)
(* the first event of that session and happens once (ids are never used    *)
(* again), everything else comes after it, and a termination comes after   *)
(* an exit.                                                                *)
(***************************************************************************)
MayFollow(ev) ==
  /\ ev.type = SessionCreated =>
       \A i \in DOMAIN published : published[i].sid # ev.sid
  /\ ev.type # SessionCreated => Occurred(SessionCreated, ev.sid)
  /\ ev.type = AutoTerminated => Occurred(UserExited, ev.sid)
=============================================================================
