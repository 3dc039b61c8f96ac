--------------------------- MODULE MCSessionStore ---------------------------
(* Finite instances of SessionStore. *)
EXTENDS SessionStore, TLC

\* Sessions, users and goroutines are only compared for equality.
Symmetry == Permutations(SessionId) \cup Permutations(Proc) \cup Permutations(User)
=============================================================================
