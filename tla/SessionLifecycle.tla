-------------------------- MODULE SessionLifecycle --------------------------
(***************************************************************************)
(* What the poker service promises about the life of a session, whatever   *)
(* requests are in progress: it is opened once, with its creator in it,    *)
(* closing begins only when nobody is in it, a closed session is never     *)
(* opened again, and a session in which nobody is left gets closed.        *)
(*                                                                         *)
(* It does not promise that nobody enters a session while it is closing or *)
(* later: a request that found the session before may still do so.         *)
(***************************************************************************)
CONSTANTS Users, Sessions

VARIABLES
  phase,    \* how far the life of every session has got
  members   \* who is in it

vars == <<phase, members>>

Init ==
  /\ phase = [s \in Sessions |-> "unused"]
  /\ members = [s \in Sessions |-> {}]

Open(s, u) ==
  /\ phase[s] = "unused"
  /\ phase' = [phase EXCEPT ![s] = "open"]
  /\ members' = [members EXCEPT ![s] = {u}]

Enter(s, u) ==
  /\ phase[s] # "unused"
  /\ members' = [members EXCEPT ![s] = @ \cup {u}]
  /\ UNCHANGED phase

Leave(s, u) ==
  /\ phase[s] # "unused"
  /\ members' = [members EXCEPT ![s] = @ \ {u}]
  /\ UNCHANGED phase

BeginClosing(s) ==
  /\ phase[s] = "open" /\ members[s] = {}
  /\ phase' = [phase EXCEPT ![s] = "closing"]
  /\ UNCHANGED members

Close(s) ==
  /\ phase[s] = "closing"
  /\ phase' = [phase EXCEPT ![s] = "closed"]
  /\ UNCHANGED members

Next ==
  \E s \in Sessions :
    \/ \E u \in Users : Open(s, u) \/ Enter(s, u) \/ Leave(s, u)
    \/ BeginClosing(s)
    \/ Close(s)

\* A session that stays empty is closed; one that is closing gets closed.
Fairness == \A s \in Sessions : WF_vars(BeginClosing(s)) /\ WF_vars(Close(s))

Spec == Init /\ [][Next]_vars
FairSpec == Spec /\ Fairness
=============================================================================
