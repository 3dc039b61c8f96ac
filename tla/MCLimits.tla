------------------------------- MODULE MCLimits -------------------------------
(* Finite instances of the limiters.  They share no variable, so that a step *)
(* of one neither enables nor hinders a step of the other: TLC takes each of *)
(* them with the other at its beginning.                                     *)
EXTENDS Limits, TLC

OneAtATime ==
    \/ /\ MessageInit
       /\ \/ \E r \in Req : Request(r)
          \/ RestBackground
    \/ /\ RestInit
       /\ \/ Message
          \/ MessageBackground

MCSpec == Init /\ [][OneAtATime]_vars /\ Fairness
=============================================================================
