------------------------------- MODULE AIClient -------------------------------
(***************************************************************************)
(* The client of the AI backend (GeminiService): the circuit breaker, the  *)
(* shared rate limiter and the retries of one AnalyzeFrame call.           *)
(*                                                                         *)
(* A Call is a goroutine that makes calls, one after the other; all share  *)
(* the breaker and the limiter.  The breaker's openUntil is modelled by    *)
(* tripped (it is not zero) and cool, the ticks until it has passed.       *)
(***************************************************************************)
EXTENDS Integers, FiniteSets

CONSTANTS
    Call,        \* goroutines that call AnalyzeFrame
    Threshold,   \* circuitBreakerThreshold
    Cooldown,    \* circuitBreakerTimeout, in ticks
    MaxRetries,  \* maxRetries: requests of one call
    Burst        \* the limiter's burst (GEMINI_RPM)

ASSUME AIClientAssumption ==
    /\ IsFiniteSet(Call)
    /\ Threshold \in Nat \ {0}
    /\ Cooldown \in Nat \ {0}
    /\ MaxRetries \in Nat \ {0}
    /\ Burst \in Nat \ {0}

VARIABLES
    pc,        \* the step a call takes next
    attempt,   \* doWithRetry's attempt
    result,    \* how the call came out
    errs,      \* consecutiveErrs; it stops at Threshold, which is all it is compared with
    tripped,   \* openUntil is not the zero time
    cool,      \* ticks until openUntil
    tokens,    \* apiLimiter
    useProxy,  \* requests go to CLIProxyAPI; fixed when the service is made
    healthy,   \* the backend answers every request
    leaked     \* history: requests sent since the breaker opened

breaker == <<errs, tripped, cool>>
backend == <<useProxy, healthy>>
aiVars == <<pc, attempt, result, breaker, tokens, backend, leaked>>

AITypeOK ==
    /\ pc \in [Call -> {"idle", "wait", "request", "backoff", "record", "answered"}]
    /\ attempt \in [Call -> 0 .. MaxRetries - 1]
    /\ result \in [Call -> {"none", "ok", "failed", "refused"}]
    /\ errs \in 0 .. Threshold
    /\ tripped \in BOOLEAN
    /\ cool \in 0 .. Cooldown
    /\ tokens \in 0 .. Burst
    /\ useProxy \in BOOLEAN /\ healthy \in BOOLEAN
    /\ leaked \in Nat

\* NewGeminiService: the proxy is used when there is no API key.
AIInit ==
    /\ pc = [p \in Call |-> "idle"]
    /\ attempt = [p \in Call |-> 0]
    /\ result = [p \in Call |-> "none"]
    /\ errs = 0 /\ tripped = FALSE /\ cool = 0
    /\ tokens = Burst
    /\ useProxy \in BOOLEAN /\ healthy = TRUE
    /\ leaked = 0

Step(p, from, to) == pc[p] = from /\ pc' = [pc EXCEPT ![p] = to]

-----------------------------------------------------------------------------
(* AnalyzeFrame.                                                           *)

\* isOpen.
Open == tripped /\ cool > 0

Refuse(p) ==
    /\ Open
    /\ Step(p, "idle", "answered")
    /\ result' = [result EXCEPT ![p] = "refused"]
    /\ UNCHANGED <<attempt, breaker, tokens, backend, leaked>>

\* Mutant: a tripped breaker lets calls pass.
AdmitAnyway(p) ==
    /\ Step(p, "idle", "wait")
    /\ UNCHANGED <<attempt, result, breaker, tokens, backend, leaked>>

Admit(p) ==
    /\ ~Open
    /\ Step(p, "idle", "wait")
    /\ UNCHANGED <<attempt, result, breaker, tokens, backend, leaked>>

\* A request goes to the backend.
Sent == leaked' = IF Open THEN leaked + 1 ELSE leaked

\* apiLimiter.Wait returns.  (Its context is not cancelled during a call.)
\* The breaker is not looked at again.
GetToken(p) ==
    /\ tokens > 0
    /\ tokens' = tokens - 1
    /\ Step(p, "wait", "request")
    /\ Sent
    /\ UNCHANGED <<attempt, result, breaker, backend>>

-----------------------------------------------------------------------------
(* What comes back, and what each path makes of it.                        *)

\* A 2xx body with a structured answer; one without (no JSON, no candidate,
\* no part, an empty or unstructured text); 429 or 5xx; another status; a
\* transport error, httpTimeout or a body that breaks off.
Answer == {"structured", "malformed", "busy", "rejected", "lost"}

\* A backend that is well sends structured answers, the other one anything.
Answering == IF healthy THEN {"structured"} ELSE Answer

Parsed(answer) == IF answer = "structured" THEN "ok" ELSE "failed"

doRequest(answer) ==
    CASE answer \in {"structured", "malformed"} -> "body"
      [] answer = "busy" -> "retryable"
      [] OTHER -> "failed"

\* doWithRetry returns the body to parseAIResponse, or goes on.
ViaGemini(answer) == IF doRequest(answer) = "body" THEN Parsed(answer) ELSE doRequest(answer)

\* The proxy's statuses are all the same but 2xx.
ViaProxy(answer) == IF answer \in {"structured", "malformed"} THEN Parsed(answer) ELSE "failed"

Outcome(answer) == IF useProxy THEN ViaProxy(answer) ELSE ViaGemini(answer)

Answers(p) ==
    /\ \E answer \in Answering : Outcome(answer) = "ok"
    /\ Step(p, "request", "record")
    /\ result' = [result EXCEPT ![p] = "ok"]
    /\ UNCHANGED <<attempt, breaker, tokens, backend, leaked>>

\* An error that is not retried, or that is left of the last attempt.
Fails(p) ==
    /\ \E answer \in Answering :
           \/ Outcome(answer) = "failed"
           \/ Outcome(answer) = "retryable" /\ attempt[p] + 1 = MaxRetries
    /\ Step(p, "request", "record")
    /\ result' = [result EXCEPT ![p] = "failed"]
    /\ UNCHANGED <<attempt, breaker, tokens, backend, leaked>>

Retryable == \E answer \in Answering : Outcome(answer) = "retryable"

\* Mutant: the attempt is not counted.
BacksOffForever(p) ==
    /\ Retryable
    /\ Step(p, "request", "backoff")
    /\ UNCHANGED <<attempt, result, breaker, tokens, backend, leaked>>

\* Back off, unless this was the last attempt.
BacksOff(p) ==
    /\ Retryable
    /\ attempt[p] + 1 < MaxRetries
    /\ Step(p, "request", "backoff")
    /\ attempt' = [attempt EXCEPT ![p] = @ + 1]
    /\ UNCHANGED <<result, breaker, tokens, backend, leaked>>

\* The back-off is over: the next attempt, without a token of the limiter.
Retry(p) ==
    /\ Step(p, "backoff", "request")
    /\ Sent
    /\ UNCHANGED <<attempt, result, breaker, tokens, backend>>

\* Mutant: the breaker is closed and the counter not reset.
CloseOnly == tripped' = FALSE /\ cool' = 0 /\ leaked' = 0 /\ UNCHANGED errs

RecordSuccess == errs' = 0 /\ tripped' = FALSE /\ cool' = 0 /\ leaked' = 0

RecordFailure ==
    /\ errs' = IF errs < Threshold THEN errs + 1 ELSE errs
    /\ IF errs' >= Threshold
       THEN tripped' = TRUE /\ cool' = Cooldown
       ELSE UNCHANGED <<tripped, cool>>
    /\ leaked' = IF Open THEN leaked ELSE 0

Record(p) ==
    /\ Step(p, "record", "answered")
    /\ IF result[p] = "ok" THEN RecordSuccess ELSE RecordFailure
    /\ UNCHANGED <<attempt, result, tokens, backend>>

\* The caller has the answer.
Return(p) ==
    /\ Step(p, "answered", "idle")
    /\ attempt' = [attempt EXCEPT ![p] = 0]
    /\ result' = [result EXCEPT ![p] = "none"]
    /\ UNCHANGED <<breaker, tokens, backend, leaked>>

-----------------------------------------------------------------------------
(* The clock and the backend.                                              *)

Refill ==
    /\ tokens < Burst
    /\ tokens' = tokens + 1
    /\ UNCHANGED <<pc, attempt, result, breaker, backend, leaked>>

\* Mutant: the cooldown does not elapse.
NoTick(n) == n

Elapse(n) == n - 1

Cool ==
    /\ cool > 0
    /\ cool' = Elapse(cool)
    /\ UNCHANGED <<pc, attempt, result, errs, tripped, tokens, backend, leaked>>

Health ==
    /\ healthy' = ~healthy
    /\ UNCHANGED <<pc, attempt, result, breaker, tokens, useProxy, leaked>>

-----------------------------------------------------------------------------
\* What a call does by itself, once it was admitted.
Working(p) ==
    \/ GetToken(p) \/ Answers(p) \/ Fails(p) \/ BacksOff(p) \/ Retry(p) \/ Record(p)

Begin(p) == Refuse(p) \/ Admit(p)

AIClock == Refill \/ Cool

AINext == (\E p \in Call : Begin(p) \/ Working(p) \/ Return(p)) \/ AIClock \/ Health

AISpec == AIInit /\ [][AINext]_aiVars

-----------------------------------------------------------------------------
(* Properties.                                                             *)

\* However calls overlap, the breaker has been tripped if and only if there
\* were Threshold failures since the last success was recorded.
TrippedAtThreshold == tripped <=> errs >= Threshold

\* Requests of one call: the proxy's are not retried.
Attempts == IF useProxy THEN 1 ELSE MaxRetries

\* Calls that passed isOpen before the breaker opened still send requests
\* while it is open; together they send at most Attempts for every call but the
\* one that tripped it, also when their failures prolong the cooldown.
OpenExposure == Open => leaked <= Attempts * (Cardinality(Call) - 1)

\* gemini_service.go on isOpen: "Callers must not invoke the upstream service
\* in this state."
NoRequestWhileOpen ==
    [][\A p \in Call : (pc[p] # "request" /\ pc'[p] = "request") => ~Open]_aiVars

\* When the backend is well again for good, and calls keep coming, the breaker
\* does not stay tripped.
BreakerRecovers ==
    (<>[]healthy /\ []<>(\E p \in Call : pc[p] = "answered")) => <>[](~tripped)
=============================================================================
