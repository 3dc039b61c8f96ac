-------------------------------- MODULE Limits --------------------------------
(***************************************************************************)
(* The two limiters of middleware/ratelimit.go and the frame limiter, side *)
(* by side as main and the WebSocket handler create them: they share       *)
(* nothing, so that a client that is banned from REST keeps its messages,  *)
(* and the other way round.                                                *)
(***************************************************************************)
EXTENDS RateLimiter, MessageLimits

vars == <<restVars, messageVars>>

TypeOK == RestTypeOK /\ MessageTypeOK

Init == RestInit /\ MessageInit

\* The clean-up goroutines and the clocks.
RestBackground == (RestCleanup \/ RestTick) /\ UNCHANGED messageVars

MessageBackground == (UserCleanup \/ UserTick \/ FrameTick) /\ UNCHANGED restVars

Request(r) == (Proceed(r) \/ \E a \in IP : Pass(r, a)) /\ UNCHANGED messageVars

Message ==
    /\ \E u \in User \cup {Anonymous} : Text(u) \/ \E c \in Conn : Frame(c, u)
    /\ UNCHANGED restVars

Next ==
    \/ (\E r \in Req : Request(r)) \/ RestBackground
    \/ Message \/ MessageBackground

Spec == Init /\ [][Next]_vars

\* Handlers take their steps, time passes and the tickers of the clean-ups
\* fire; nobody has to send anything.
Fairness ==
    /\ \A r \in Req : WF_vars(Proceed(r) /\ UNCHANGED messageVars)
    /\ WF_vars(RestTick /\ UNCHANGED messageVars)
    /\ WF_vars(RestCleanup /\ UNCHANGED messageVars)

FairSpec == Spec /\ Fairness
=============================================================================
