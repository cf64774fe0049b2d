-------------------------- MODULE MCSessionHistory --------------------------
(* Instances of SessionHistory for TLC. *)
EXTENDS SessionHistory, TLC

\* The votes users may cast are interchangeable, users and threads too.
Symmetry == Permutations(Users) \cup Permutations(Threads) \cup Permutations(Points)
=============================================================================
