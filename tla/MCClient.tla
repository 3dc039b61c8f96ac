------------------------------- MODULE MCClient -------------------------------
(* Finite instances of the app. *)
EXTENDS Client, TLC
=============================================================================
