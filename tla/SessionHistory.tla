--------------------------- MODULE SessionHistory ---------------------------
(***************************************************************************)
(* What a client that follows the events of a session may conclude about   *)
(* its participants, and what a reset does to the votes cast before it.    *)
(*                                                                         *)
(* The module adds history variables to PokerSessions; it models no        *)
(* further code.                                                           *)
(***************************************************************************)
EXTENDS PokerSessions

VARIABLES
  votedSince,   \* while thread t resets a session: the users whose vote has been
                \* recorded there since the reset began to read the participants
  disciplined,  \* Disciplined has held all the time
  seen          \* the participants of every session as a follower of the events
                \* sees them

histVars == <<vars, votedSince, disciplined, seen>>

\* The users whose vote this step records in session s
RecordsVote(s) ==
  {request[t].user : t \in {x \in Threads : /\ Serving(x, "vote", s, {"update"})
                                           /\ pc'[x] = "publish"}}

Resetting(t) == pc[t] \in {"scan", "wipe"}

History ==
  votedSince' = [t \in Threads |->
    IF Resetting(t) THEN votedSince[t] \cup RecordsVote(request[t].sid) ELSE {}]

(***************************************************************************)
(* A discipline of the clients the server does not enforce: a user makes   *)
(* one request at a time, and nothing else happens to a session while it   *)
(* is reset.                                                               *)
(***************************************************************************)
Disciplined ==
  \A t1, t2 \in {t \in Threads : pc[t] # "idle"} :
    t1 # t2 =>
      /\ request[t1].user # request[t2].user
      /\ request[t1].sid = request[t2].sid =>
           "reset" \notin {request[t1].op, request[t2].op}

\* The follower starts from nothing and applies one event after the other.
Unseen == [s \in Sessions |-> [u \in Users |-> Absent]]

Apply(before, ev) ==
  CASE ev.type \in {SessionCreated, UserJoined, UserVoted} ->
         [before EXCEPT ![ev.sid][ev.uid] = ev.point]
    [] ev.type = VoteReset ->
         [before EXCEPT ![ev.sid] =
           [u \in Users |-> IF @[u] = Absent THEN Absent ELSE NoVote]]
    [] ev.type = UserExited -> [before EXCEPT ![ev.sid][ev.uid] = Absent]
    [] ev.type = AutoTerminated -> before

Follow ==
  seen' = IF published' = published THEN seen ELSE Apply(seen, published'[Len(published')])

HistoryInit ==
  /\ Init
  /\ votedSince = [t \in Threads |-> {}]
  /\ disciplined = TRUE
  /\ seen = Unseen

HistoryNext == Next /\ History /\ Follow /\ disciplined' = (disciplined /\ Disciplined')

HistorySpec == HistoryInit /\ [][HistoryNext]_histVars

(***************************************************************************)
(* When resetVotes returns, nothing is left of the votes cast before it    *)
(* began, whoever joined, left or voted meanwhile: a vote that is still    *)
(* there has been cast while the reset was running                         *)
(* (PokerSession.resetVotes).                                              *)
(***************************************************************************)
ResetForgetsEarlierVotes ==
  [][\A t \in Threads :
       (Resetting(t) /\ pc'[t] = "publish") =>
         \A u \in Members(request[t].sid)' :
           participants'[request[t].sid][u] # NoVote => u \in votedSince[t]]_histVars

-----------------------------------------------------------------------------
(***************************************************************************)
(* Whenever all requests of disciplined clients have been served, the      *)
(* events published so far tell exactly who is in every session and what   *)
(* everybody has voted, although change and event are two separate steps   *)
(* and different users' requests interleave.                               *)
(***************************************************************************)
EventsTellTheState == Quiet /\ disciplined => seen = participants
=============================================================================
