-------------------------- MODULE MCPokerSessions --------------------------
(* Instances of PokerSessions for TLC. *)
EXTENDS PokerSessions, TLC

\* User and thread ids are interchangeable, session ids too.
Symmetry == Permutations(Users) \cup Permutations(Threads) \cup Permutations(Sessions)
=============================================================================
