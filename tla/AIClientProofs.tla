---------------------------- MODULE AIClientProofs ----------------------------
(***************************************************************************)
(* Proofs about AIClient, for every set of calls, threshold, cooldown,     *)
(* number of attempts and burst.                                           *)
(***************************************************************************)
EXTENDS AIClient, FiniteSetTheorems, TLAPS

AIInv == AITypeOK /\ TrippedAtThreshold

\* The initial state.
LEMMA AIInvInit == AIInit => AIInv
<1> SUFFICES ASSUME AIInit PROVE AIInv
  OBVIOUS
<1>1. 0 \in 0 .. MaxRetries - 1 /\ 0 \in 0 .. Threshold /\ 0 \in 0 .. Cooldown
      /\ Burst \in 0 .. Burst /\ ~(0 >= Threshold)
  BY AIClientAssumption
<1>2. AITypeOK
  BY <1>1 DEF AIInit, AITypeOK
<1>3. TrippedAtThreshold
  BY <1>1 DEF AIInit, TrippedAtThreshold
<1> QED
  BY <1>2, <1>3 DEF AIInv

\* Recording a result keeps the breaker's fields in their types, and tripped
\* exactly when the threshold is reached.
LEMMA RecordInv ==
    ASSUME AIInv, NEW p \in Call, Record(p)
    PROVE  AIInv'
<1>1. CASE result[p] = "ok"
  <2>1. 0 \in 0 .. Threshold /\ 0 \in 0 .. Cooldown /\ ~(0 >= Threshold)
    BY AIClientAssumption
  <2>2. errs' = 0 /\ tripped' = FALSE /\ cool' = 0 /\ leaked' = 0
    BY <1>1 DEF Record, RecordSuccess
  <2>3. TrippedAtThreshold'
    BY <2>1, <2>2 DEF TrippedAtThreshold
  <2>4. AITypeOK'
    BY <2>1, <2>2 DEF AIInv, AITypeOK, Record, Step, backend
  <2> QED
    BY <2>3, <2>4 DEF AIInv
<1>2. CASE result[p] # "ok"
  <2>1. errs' \in 0 .. Threshold /\ (errs' >= Threshold => tripped' = TRUE /\ cool' = Cooldown)
        /\ (errs' < Threshold => tripped' = tripped /\ cool' = cool)
    BY <1>2, AIClientAssumption DEF AIInv, AITypeOK, Record, RecordFailure
  <2>2. errs' >= errs
    BY <1>2, AIClientAssumption DEF AIInv, AITypeOK, Record, RecordFailure
  <2>3. TrippedAtThreshold' /\ tripped' \in BOOLEAN /\ cool' \in 0 .. Cooldown
    <3>1. Cooldown \in 0 .. Cooldown /\ errs \in Int /\ errs' \in Int /\ Threshold \in Int
          /\ cool \in 0 .. Cooldown /\ tripped \in BOOLEAN
      BY <2>1, AIClientAssumption DEF AIInv, AITypeOK
    <3>2. CASE errs' >= Threshold
      BY <3>1, <3>2, <2>1 DEF TrippedAtThreshold
    <3>3. CASE ~(errs' >= Threshold)
      <4>1. ~(errs >= Threshold) /\ errs' < Threshold
        BY <3>1, <3>3, <2>2
      <4>2. ~tripped
        BY <4>1 DEF AIInv, TrippedAtThreshold
      <4>3. tripped' = tripped /\ cool' = cool
        BY <4>1, <2>1
      <4> QED
        BY <3>1, <3>3, <4>2, <4>3 DEF TrippedAtThreshold
    <3> QED
      BY <3>2, <3>3
  <2>4. leaked' \in Nat
    BY <1>2 DEF AIInv, AITypeOK, Record, RecordFailure
  <2> QED
    BY <2>1, <2>3, <2>4 DEF AIInv, AITypeOK, Record, Step, backend
<1> QED
  BY <1>1, <1>2

\* Every step keeps the invariant.
LEMMA AIInvStep == AIInv /\ [AINext]_aiVars => AIInv'
<1> SUFFICES ASSUME AIInv, [AINext]_aiVars PROVE AIInv'
  OBVIOUS
<1> USE AIClientAssumption
<1>1. ASSUME NEW p \in Call, Begin(p) \/ Return(p) PROVE AIInv'
  BY <1>1 DEF AIInv, AITypeOK, TrippedAtThreshold, Begin, Refuse, Admit, Return, Step, breaker, backend
<1>2. ASSUME NEW p \in Call, GetToken(p) \/ Retry(p) PROVE AIInv'
  BY <1>2 DEF AIInv, AITypeOK, TrippedAtThreshold, GetToken, Retry, Sent, Step, breaker, backend
<1>3. ASSUME NEW p \in Call, Answers(p) \/ Fails(p) \/ BacksOff(p) PROVE AIInv'
  BY <1>3 DEF AIInv, AITypeOK, TrippedAtThreshold, Answers, Fails, BacksOff, Step, breaker, backend
<1>4. ASSUME NEW p \in Call, Record(p) PROVE AIInv'
  BY <1>4, RecordInv
<1>5. CASE AIClock \/ Health
  <2>1. UNCHANGED <<pc, attempt, result, errs, tripped, leaked>>
    BY <1>5 DEF AIClock, Refill, Cool, Health, breaker, backend
  <2>2. tokens' \in 0 .. Burst /\ cool' \in 0 .. Cooldown
    BY <1>5 DEF AIInv, AITypeOK, AIClock, Refill, Cool, Elapse, Health, breaker, backend
  <2>3. useProxy' \in BOOLEAN /\ healthy' \in BOOLEAN
    BY <1>5 DEF AIInv, AITypeOK, AIClock, Refill, Cool, Health, backend
  <2> QED
    BY <2>1, <2>2, <2>3 DEF AIInv, AITypeOK, TrippedAtThreshold
<1>6. CASE UNCHANGED aiVars
  BY <1>6 DEF AIInv, AITypeOK, TrippedAtThreshold, aiVars, breaker, backend
<1> QED
  BY <1>1, <1>2, <1>3, <1>4, <1>5, <1>6 DEF AINext, Working

\* Every reachable state of the client is well typed.
THEOREM AITypeCorrect == AISpec => []AITypeOK
<1>1. AIInv => AITypeOK
  BY DEF AIInv
<1> QED
  BY <1>1, AIInvInit, AIInvStep, PTL DEF AISpec

\* The breaker has been tripped exactly when threshold failures were recorded
\* since the last success, in whatever order overlapping calls end.
THEOREM TrippedExactly == AISpec => []TrippedAtThreshold
<1>1. AIInv => TrippedAtThreshold
  BY DEF AIInv
<1> QED
  BY <1>1, AIInvInit, AIInvStep, PTL DEF AISpec

-----------------------------------------------------------------------------
(* OpenExposure.  What a call may still send after the breaker opened is   *)
(* counted by pairs, so that a request takes one pair away.                *)

Remaining(p) ==
    CASE pc[p] = "wait" -> Attempts
      [] pc[p] = "request" -> Attempts - 1 - attempt[p]
      [] pc[p] = "backoff" -> Attempts - attempt[p]
      [] OTHER -> 0

Left == {l \in Call \X (1 .. Attempts) : l[2] <= Remaining(l[1])}

Exposed == leaked + Cardinality(Left) <= Attempts * (Cardinality(Call) - 1)

NoRetry == useProxy => \A p \in Call : pc[p] # "backoff" /\ attempt[p] = 0

ExposureInv ==
    /\ AITypeOK
    /\ NoRetry
    /\ Open => Exposed

LEMMA AttemptsNat == AITypeOK => Attempts \in Nat /\ Attempts >= 1 /\ Attempts <= MaxRetries
  BY AIClientAssumption DEF AITypeOK, Attempts

\* Left is a finite set.
LEMMA LeftFinite == AITypeOK => IsFiniteSet(Left) /\ Cardinality(Left) \in Nat
<1> SUFFICES ASSUME AITypeOK PROVE IsFiniteSet(Left) /\ Cardinality(Left) \in Nat
  OBVIOUS
<1>1. IsFiniteSet(Call) /\ IsFiniteSet(1 .. Attempts)
  BY AttemptsNat, FS_Interval, AIClientAssumption
<1>2. IsFiniteSet(Call \X (1 .. Attempts))
  BY <1>1, FS_Product
<1>3. Left \subseteq Call \X (1 .. Attempts)
  BY DEF Left
<1> QED
  BY <1>2, <1>3, FS_Subset, FS_CardinalityType

\* A call that has nothing left leaves Attempts for each of the others.
LEMMA LeftOfOthers ==
    ASSUME AITypeOK, NEW q \in Call, Remaining(q) = 0
    PROVE  Cardinality(Left) <= Attempts * (Cardinality(Call) - 1)
<1> DEFINE Others == Call \ {q}
<1>1. IsFiniteSet(Others) /\ Cardinality(Others) = Cardinality(Call) - 1
  BY FS_RemoveElement, AIClientAssumption
<1>2. Attempts \in Nat /\ IsFiniteSet(1 .. Attempts) /\ Cardinality(1 .. Attempts) = Attempts
  <2>1. Attempts \in Nat /\ Attempts >= 1
    BY AttemptsNat
  <2> QED
    BY <2>1, FS_Interval
<1>3. /\ IsFiniteSet(Others \X (1 .. Attempts))
      /\ Cardinality(Others \X (1 .. Attempts)) = Cardinality(Others) * Attempts
  BY <1>1, <1>2, FS_Product
<1>4. Left \subseteq Others \X (1 .. Attempts)
  BY <1>2 DEF Left
<1>5. Cardinality(Left) <= Cardinality(Others) * Attempts
  BY <1>3, <1>4, FS_Subset
<1>6. Cardinality(Others) \in Nat
  BY <1>1, FS_CardinalityType
<1>7. Cardinality(Others) * Attempts = Attempts * Cardinality(Others)
  BY <1>2, <1>6
<1> QED
  BY <1>1, <1>5, <1>7

\* A step that sends nothing and lets no call have more keeps the bound.
LEMMA ExposedKept ==
    ASSUME AITypeOK, AITypeOK', UNCHANGED <<useProxy, leaked>>, Exposed,
           \A p \in Call : Remaining(p)' <= Remaining(p)
    PROVE  Exposed'
<1>1. Attempts' = Attempts
  BY DEF Attempts
<1>2. ASSUME NEW p \in Call PROVE Remaining(p) \in Int /\ Remaining(p)' \in Int
  BY AttemptsNat, <1>1, AIClientAssumption DEF Remaining, AITypeOK
<1>3. Left' \subseteq Left
  BY <1>1, <1>2, AttemptsNat DEF Left
<1>4. Cardinality(Left') <= Cardinality(Left) /\ Cardinality(Left') \in Nat
  BY <1>3, LeftFinite, FS_Subset, FS_CardinalityType
<1>5. Cardinality(Left) \in Nat /\ leaked \in Nat /\ Attempts \in Nat /\ Cardinality(Call) \in Nat
  BY LeftFinite, AttemptsNat, FS_CardinalityType, AIClientAssumption DEF AITypeOK
<1> QED
  BY <1>1, <1>4, <1>5 DEF Exposed

\* A request takes away at least one pair.
LEMMA ExposedSent ==
    ASSUME AITypeOK, AITypeOK', UNCHANGED useProxy, Exposed, leaked' = leaked + 1,
           NEW q \in Call, Remaining(q) >= 1, Remaining(q) <= Attempts, Remaining(q)' < Remaining(q),
           \A p \in Call \ {q} : Remaining(p)' = Remaining(p)
    PROVE  Exposed'
<1> DEFINE pair == <<q, Remaining(q)>>
<1>1. Attempts' = Attempts
  BY DEF Attempts
<1>2. ASSUME NEW p \in Call PROVE Remaining(p) \in Int /\ Remaining(p)' \in Int
  BY AttemptsNat, <1>1, AIClientAssumption DEF Remaining, AITypeOK
<1>3. pair \in Left
  BY <1>2, AttemptsNat DEF Left
<1>4. Left' \subseteq Left \ {pair}
  <2> SUFFICES ASSUME NEW l \in Left' PROVE l \in Left /\ l # pair
    OBVIOUS
  <2>1. l \in Call \X (1 .. Attempts) /\ l[2] <= Remaining(l[1])'
    BY <1>1 DEF Left
  <2>2. CASE l[1] = q
    BY <2>1, <2>2, <1>2, AttemptsNat DEF Left
  <2>3. CASE l[1] # q
    BY <2>1, <2>3, <1>2, AttemptsNat DEF Left
  <2> QED
    BY <2>2, <2>3
<1>5. IsFiniteSet(Left \ {pair}) /\ Cardinality(Left \ {pair}) = Cardinality(Left) - 1
  BY <1>3, LeftFinite, FS_RemoveElement
<1>6. Cardinality(Left') <= Cardinality(Left) - 1 /\ Cardinality(Left') \in Nat
  BY <1>4, <1>5, FS_Subset, FS_CardinalityType
<1>7. Cardinality(Left) \in Nat /\ leaked \in Nat /\ Attempts \in Nat /\ Cardinality(Call) \in Nat
  BY LeftFinite, AttemptsNat, FS_CardinalityType, AIClientAssumption DEF AITypeOK
<1> QED
  BY <1>1, <1>6, <1>7 DEF Exposed

\* Every step keeps the bound on what the calls may still send.
LEMMA ExposureStep == AIInv /\ AIInv' /\ ExposureInv /\ [AINext]_aiVars => ExposureInv'
<1> SUFFICES ASSUME AIInv, AIInv', ExposureInv, [AINext]_aiVars PROVE ExposureInv'
  OBVIOUS
<1> USE AIClientAssumption
<1>0. AITypeOK /\ AITypeOK' /\ useProxy' = useProxy
  <2>1. AITypeOK /\ AITypeOK'
    BY DEF AIInv
  <2>2. ASSUME NEW p \in Call, Begin(p) \/ Return(p) \/ Working(p) PROVE useProxy' = useProxy
    BY <2>2 DEF Begin, Refuse, Admit, Return, Working, GetToken, Answers, Fails, BacksOff, Retry, Record, backend
  <2>3. ASSUME AIClock \/ Health \/ UNCHANGED aiVars PROVE useProxy' = useProxy
    BY <2>3 DEF AIClock, Refill, Cool, Elapse, Health, aiVars, breaker, backend
  <2> QED
    BY <2>1, <2>2, <2>3 DEF AINext
<1>a. Attempts' = Attempts /\ Attempts \in Nat /\ Attempts >= 1
  BY <1>0, AttemptsNat DEF Attempts
<1>b. NoRetry'
  <2>1. SUFFICES ASSUME useProxy PROVE \A q \in Call : pc'[q] # "backoff" /\ attempt'[q] = 0
    BY <1>0 DEF NoRetry
  <2>2. NoRetry
    BY DEF ExposureInv
  <2>3. ASSUME NEW p \in Call, BacksOff(p) PROVE FALSE
    BY <2>1, <2>3 DEF BacksOff, Retryable, Outcome, ViaProxy, Parsed
  <2>4. ASSUME NEW p \in Call, Begin(p) \/ Return(p) PROVE NoRetry'
    BY <1>0, <2>1, <2>2, <2>4 DEF NoRetry, AITypeOK, Begin, Refuse, Admit, Return, Step
  <2>5. ASSUME NEW p \in Call, Working(p) PROVE NoRetry'
    BY <1>0, <2>1, <2>2, <2>3, <2>5 DEF NoRetry, AITypeOK, Working, GetToken, Answers, Fails, Retry, Record, Step
  <2>6. ASSUME AIClock \/ Health \/ UNCHANGED aiVars PROVE NoRetry'
    BY <1>0, <2>2, <2>6 DEF NoRetry, AIClock, Refill, Cool, Elapse, Health, aiVars, breaker
  <2> QED
    BY <1>0, <2>1, <2>4, <2>5, <2>6 DEF NoRetry, AINext
<1>1. ASSUME NEW p \in Call, Refuse(p) \/ Return(p) PROVE ExposureInv'
  <2>1. \A q \in Call : Remaining(q)' <= Remaining(q)
    BY <1>0, <1>1, <1>a DEF Remaining, Refuse, Return, Step, AITypeOK
  <2>2. UNCHANGED <<leaked, tripped, cool>>
    BY <1>1, <1>0 DEF Refuse, Return, Step, breaker, AITypeOK
  <2>3. Open' => Exposed'
    BY <2>1, <2>2, <1>0, ExposedKept DEF ExposureInv, Open
  <2> QED
    BY <2>2, <2>3, <1>0, <1>b DEF ExposureInv
<1>2. ASSUME NEW p \in Call, Admit(p) PROVE ExposureInv'
  BY <1>0, <1>2, <1>b DEF ExposureInv, Admit, Open, Step, breaker, AITypeOK
<1>3. ASSUME NEW p \in Call, GetToken(p) \/ Retry(p) PROVE ExposureInv'
  <2>1. UNCHANGED <<tripped, cool>>
    BY <1>3, <1>0 DEF GetToken, Retry, Step, breaker, AITypeOK
  <2>2. ASSUME Open PROVE Exposed'
    <3>1. leaked' = leaked + 1
      BY <1>3, <2>2 DEF GetToken, Retry, Sent
    <3>2. Remaining(p) >= 1 /\ Remaining(p) <= Attempts /\ Remaining(p)' < Remaining(p)
      <4>1. CASE GetToken(p)
        BY <4>1, <1>0, <1>a DEF GetToken, Step, Remaining, AITypeOK
      <4>2. CASE Retry(p)
        <5>1. ~useProxy /\ Attempts = MaxRetries
          BY <4>2, <1>0 DEF ExposureInv, NoRetry, Retry, Step, Attempts, AITypeOK
        <5>2. attempt[p] \in 0 .. MaxRetries - 1 /\ attempt' = attempt /\ pc[p] = "backoff" /\ pc'[p] = "request"
          BY <4>2, <1>0 DEF Retry, Step, AITypeOK
        <5> QED
          BY <5>1, <5>2, <1>a DEF Remaining
      <4> QED
        BY <4>1, <4>2, <1>3
    <3>3. \A q \in Call \ {p} : Remaining(q)' = Remaining(q)
      BY <1>3, <1>0, <1>a DEF GetToken, Retry, Step, Remaining, AITypeOK
    <3> QED
      BY <3>1, <3>2, <3>3, <2>2, <1>0, ExposedSent DEF ExposureInv
  <2> QED
    BY <2>1, <2>2, <1>0, <1>b DEF ExposureInv, Open
<1>4. ASSUME NEW p \in Call, Answers(p) \/ Fails(p) \/ BacksOff(p) PROVE ExposureInv'
  <2>1. UNCHANGED <<leaked, tripped, cool>>
    BY <1>4 DEF Answers, Fails, BacksOff, breaker
  <2>4. \A q \in Call : Remaining(q)' <= Remaining(q)
    <3> SUFFICES ASSUME NEW q \in Call PROVE Remaining(q)' <= Remaining(q)
      OBVIOUS
    <3>0. attempt[q] \in Int /\ attempt'[q] \in Int
      BY <1>0 DEF AITypeOK
    <3>1. CASE q # p
      BY <3>0, <3>1, <1>4, <1>0, <1>a DEF Answers, Fails, BacksOff, Step, Remaining, AITypeOK
    <3>2. CASE q = p /\ BacksOff(p)
      BY <3>0, <3>2, <1>0, <1>a DEF BacksOff, Step, Remaining, AITypeOK
    <3>3. CASE q = p /\ (Answers(p) \/ Fails(p))
      <4>1. CASE useProxy
        BY <4>1, <3>3, <1>0, <1>a DEF ExposureInv, NoRetry, Answers, Fails, Step, Remaining, Attempts, AITypeOK
      <4>2. CASE ~useProxy
        BY <4>2, <3>3, <1>0, <1>a DEF Answers, Fails, Step, Remaining, Attempts, AITypeOK
      <4> QED
        BY <4>1, <4>2
    <3> QED
      BY <3>1, <3>2, <3>3, <1>4
  <2> QED
    BY <2>1, <2>4, <1>0, <1>b, ExposedKept DEF ExposureInv, Open
<1>5. ASSUME NEW p \in Call, Record(p) PROVE ExposureInv'
  <2>1. \A q \in Call : Remaining(q)' = Remaining(q)
    BY <1>5, <1>0, <1>a DEF Record, Step, Remaining, AITypeOK
  <2>2. Remaining(p)' = 0
    BY <1>5, <1>0 DEF Record, Step, Remaining, AITypeOK
  <2>3. CASE Open
    <3>1. Open' => leaked' = leaked
      BY <1>5, <2>3 DEF Record, RecordSuccess, RecordFailure, Open
    <3>2. \A q \in Call : Remaining(q)' <= Remaining(q)
      BY <2>1, <1>a, <1>0 DEF Remaining, AITypeOK
    <3>3. Open' => Exposed'
      BY <3>1, <3>2, <2>3, <1>0, <1>b, ExposedKept DEF ExposureInv
    <3> QED
      BY <3>3, <2>2, <1>0, <1>b DEF ExposureInv
  <2>4. CASE ~Open
    <3>1. leaked' = 0
      BY <1>5, <2>4 DEF Record, RecordSuccess, RecordFailure
    <3>2. Left' = Left /\ Remaining(p) = 0
      BY <2>1, <2>2, <1>a DEF Left
    <3>3. Cardinality(Left) <= Attempts * (Cardinality(Call) - 1)
      BY <3>2, <1>0, LeftOfOthers
    <3>4. Exposed'
      BY <3>1, <3>2, <3>3, <1>a, <1>0, LeftFinite DEF Exposed
    <3> QED
      BY <3>4, <2>2, <1>0, <1>b DEF ExposureInv
  <2> QED
    BY <2>3, <2>4
<1>6. CASE AIClock \/ Health \/ UNCHANGED aiVars
  <2>1. UNCHANGED <<pc, attempt, leaked>> /\ (Open' => Open)
    BY <1>6, <1>0 DEF AIClock, Refill, Cool, Elapse, Health, aiVars, breaker, Open, AITypeOK
  <2>2. \A q \in Call : Remaining(q)' <= Remaining(q)
    BY <2>1, <1>a, <1>0 DEF Remaining, AITypeOK
  <2> QED
    BY <2>1, <2>2, <1>0, <1>b, ExposedKept DEF ExposureInv
<1> QED
  BY <1>1, <1>2, <1>3, <1>4, <1>5, <1>6 DEF AINext, Begin, Working

\* Requests sent while the breaker is open, by all the calls that overlapped
\* its opening, are at most Attempts for each call but one.
THEOREM OpenExposureHolds == AISpec => []OpenExposure
<1>1. AIInit => ExposureInv
  BY AIInvInit DEF AIInit, ExposureInv, NoRetry, AIInv, Open
<1>2. ExposureInv => OpenExposure
  <2> SUFFICES ASSUME ExposureInv, Open PROVE leaked <= Attempts * (Cardinality(Call) - 1)
    BY DEF OpenExposure
  <2>1. AITypeOK /\ Exposed
    BY DEF ExposureInv
  <2>2. Cardinality(Left) \in Nat /\ leaked \in Nat /\ Attempts \in Nat /\ Cardinality(Call) \in Nat
    BY <2>1, LeftFinite, AttemptsNat, FS_CardinalityType, AIClientAssumption DEF AITypeOK
  <2> QED
    BY <2>1, <2>2 DEF Exposed
<1> QED
  BY <1>1, <1>2, AIInvInit, AIInvStep, ExposureStep, PTL DEF AISpec
=============================================================================
