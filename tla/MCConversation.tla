---------------------------- MODULE MCConversation ----------------------------
(* Finite instances of Conversation, with the AI client it calls. *)
EXTENDS Conversation, TLC

\* Connections and frames are only compared for equality.
Symmetry == Permutations(Call) \cup Permutations(Frame)

\* Open connections that cannot be written to or have lost their session.
Troubled == unwritable \cup {s \in Call \ live : turn[s] \notin {"closing", "closed"}}

\* One open connection at a time meets a mishap of its own: what the two share,
\* the AI client, does not look at their sessions and sockets.
OneInTrouble == Cardinality(Troubled) <= 1
=============================================================================
