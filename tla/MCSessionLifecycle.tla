------------------------ MODULE MCSessionLifecycle ------------------------
(* Small instances of SessionLifecycle for TLC. *)
EXTENDS SessionLifecycle, TLC

\* Addresses and workers are interchangeable in the safety properties.
Symmetry == Permutations(Session) \cup Permutations(Worker)
=============================================================================
