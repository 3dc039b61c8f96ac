---------------------------- MODULE MCConnections ----------------------------
(* Finite instances of Connections. *)
EXTENDS Connections, TLC

\* Addresses are only compared for equality.
Symmetry == Permutations(IP)

\* Less fairness than in FairSpec, so that what holds here holds there: what a
\* goroutine does next is one weakly fair action, select included, and only
\* CloseAll and the handlers of clients that may get lost are sure to get a
\* mutex that is released again and again.
LeanFairness(c) ==
    /\ WF_vars(Proceed(c) \/ CallReturns(c) \/ LoopLocks(c))
    /\ c \in Losable => SF_vars(LoopLocks(c))
    /\ WF_vars(PingLoop(c))
    /\ WF_vars(GiveUp(c) \/ Deadline(c))

\* CreateSession succeeds, for fewer states: its failure leads to the same
\* wait for connsMu as every other way out.
LeanNext == Next /\ failed' = {}

LeanFairSpec ==
    Init /\ [][LeanNext]_vars /\ SweepFairness /\ \A c \in Conn : LeanFairness(c)
=============================================================================
