--------------------------- MODULE MCSessionPages ---------------------------
(* The instance of SessionPages with several pages for TLC. *)
EXTENDS SessionPages

\* Session ids are interchangeable.
Symmetry == Permutations(Sessions)
=============================================================================
