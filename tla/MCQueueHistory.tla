--------------------------- MODULE MCQueueHistory ---------------------------
(* Instances of QueueHistory for TLC. *)
EXTENDS QueueHistory, TLC

\* User ids are interchangeable, session ids too.
Symmetry == Permutations(Users) \cup Permutations(Sessions)
=============================================================================
