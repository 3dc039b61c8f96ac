-------------------------- MODULE ConversationProofs --------------------------
(***************************************************************************)
(* Proofs about Conversation: it uses the AI client as AIClient specifies, *)
(* and, whatever is deleted or fails during a turn, no hash outlives its   *)
(* connection and no turn gets longer; as long as no write has failed, no  *)
(* hash swallows an unanswered frame and no recorded answer stays unsent.  *)
(***************************************************************************)
EXTENDS Conversation, AIClientProofs

-----------------------------------------------------------------------------
(* Conversation implements AIClient.                                       *)

\* Every step of a turn is a step of the client or leaves it alone.
LEMMA ClientStep == [Next]_vars => [AINext]_aiVars
<1> SUFFICES ASSUME [Next]_vars PROVE [AINext]_aiVars
  OBVIOUS
<1>1. ASSUME NEW s \in Call, Start(s) \/ Write(s) \/ Close(s) \/ Cleanup(s) \/ Elsewhere(s)
      PROVE  UNCHANGED aiVars
  BY <1>1 DEF Start, Write, Respond, RespondFails, StartText, StartFrame, Close, Cleanup, Elsewhere, Vanish, HashAges
<1>2. ASSUME NEW s \in Call, Process(s) PROVE [AINext]_aiVars
  BY <1>2 DEF Process, Context, ContextFails, Ask, AIFails, AIAnswers, Problem, RecordAnswer,
              Reply, SessionGone, AINext
<1>3. ASSUME NEW s \in Call, Work(s) PROVE AINext
  BY <1>3 DEF Work, AINext
<1>4. CASE Clock \/ Backend
  BY <1>4 DEF Clock, Backend, AINext
<1>5. CASE UNCHANGED vars
  BY <1>5 DEF vars
<1> QED
  BY <1>1, <1>2, <1>3, <1>4, <1>5 DEF Next

\* ConversationService calls the client the way AIClient says it is called:
\* what is proved of AIClient holds under any load of turns.
THEOREM ImplementsClient == Spec => AISpec
<1>1. Init => AIInit
  BY DEF Init
<1> QED
  BY <1>1, ClientStep, PTL DEF Spec, AISpec

\* The circuit breaker of a server that serves conversations.
THEOREM TrippedExactlyInTurns == Spec => []TrippedAtThreshold
BY ImplementsClient, TrippedExactly, PTL

-----------------------------------------------------------------------------
(* Type correctness.                                                       *)

ConvTypeOK ==
    /\ live \subseteq Call
    /\ turn \in [Call -> {"idle", "context", "ai", "problem", "record", "reply",
                          "write", "closing", "closed"}]
    /\ frame \in [Call -> Frame \cup {NoFrame}]
    /\ hash \in [Call -> Hash]
    /\ answered \in [Call -> Frame \cup {NoFrame}]
    /\ unsaid \subseteq Call
    /\ unwritable \subseteq Call

\* The steps that leave the conversation's own state alone.
LEMMA ConvFrame ==
    ASSUME [Next]_vars
    PROVE  \/ UNCHANGED convVars
           \/ \E s \in Call : \/ Start(s) \/ Process(s) \/ Write(s)
                              \/ Close(s) \/ Cleanup(s) \/ Elsewhere(s)
BY DEF Next, Work, Clock, Backend, vars

\* Every step keeps the conversation's variables in their types.
LEMMA ConvTypes == ConvTypeOK /\ [Next]_vars => ConvTypeOK'
<1> SUFFICES ASSUME ConvTypeOK, [Next]_vars PROVE ConvTypeOK'
  OBVIOUS
<1>1. ASSUME NEW s \in Call, Start(s) PROVE ConvTypeOK'
  BY <1>1 DEF ConvTypeOK, Start, StartText, StartFrame, Goto, Hash
<1>2. ASSUME NEW s \in Call, Context(s) \/ ContextFails(s) PROVE ConvTypeOK'
  BY <1>2 DEF ConvTypeOK, Context, ContextFails, Goto, Finish, ClearHash, Hash
<1>3. ASSUME NEW s \in Call, Ask(s) \/ AIFails(s) \/ AIAnswers(s) PROVE ConvTypeOK'
  BY <1>3 DEF ConvTypeOK, Ask, AIFails, AIAnswers, Goto, Finish, ClearHash, Hash, convVars
<1>4. ASSUME NEW s \in Call, Problem(s) \/ RecordAnswer(s) PROVE ConvTypeOK'
  BY <1>4 DEF ConvTypeOK, Problem, RecordAnswer, Goto
<1>5. ASSUME NEW s \in Call, Reply(s) PROVE ConvTypeOK'
  BY <1>5 DEF ConvTypeOK, Reply, Goto
<1>6. ASSUME NEW s \in Call, NEW at \in {"problem", "record", "reply"}, SessionGone(s, at)
      PROVE  ConvTypeOK'
  BY <1>6 DEF ConvTypeOK, SessionGone, Goto, Finish
<1>7. ASSUME NEW s \in Call, Close(s) \/ Cleanup(s) \/ Elsewhere(s) PROVE ConvTypeOK'
  BY <1>7 DEF ConvTypeOK, Close, Cleanup, Elsewhere, Vanish, HashAges, Remove, Goto, Hash
<1>8. CASE UNCHANGED convVars
  BY <1>8 DEF ConvTypeOK, convVars
<1>9. ASSUME NEW s \in Call, Write(s) PROVE ConvTypeOK'
  BY <1>9 DEF ConvTypeOK, Write, Respond, RespondFails, Goto, Finish
<1> QED
  BY <1>1, <1>2, <1>3, <1>4, <1>5, <1>6, <1>7, <1>8, <1>9, ConvFrame DEF Process

\* Every reachable state is well typed.
THEOREM TypeCorrect == Spec => []TypeOK
<1>1. Init => ConvTypeOK
  BY DEF Init, ConvTypeOK, Hash
<1>2. AITypeOK /\ ConvTypeOK <=> TypeOK
  BY DEF TypeOK, ConvTypeOK
<1>3. Spec => []ConvTypeOK
  BY <1>1, ConvTypes, PTL DEF Spec
<1> QED
  BY <1>2, <1>3, ImplementsClient, AITypeCorrect, PTL

-----------------------------------------------------------------------------
(* De-duplication and the history.                                         *)

\* In a frame turn the stored hash is the turn's own, or its time is over;
\* otherwise it is that of an answered frame.
HashOf(s) ==
    IF frame[s] \in Frame
    THEN hash[s] \in {frame[s], OldFrame}
    ELSE hash[s] \in Frame => answered[s] = hash[s] \/ s \in unwritable

TurnInv ==
    /\ \A s \in Call : turn[s] \notin Busy \cup {"write"} => frame[s] = NoFrame
    /\ \A s \in live : HashOf(s)
    /\ \A s \in unsaid \cap live : turn[s] \in {"reply", "write"} \/ s \in unwritable
    /\ \A s \in Call : turn[s] = "closed" => hash[s] = NoFrame

\* The initial state.
LEMMA TurnInvInit == Init => TurnInv
BY ConversationAssumption DEF Init, TurnInv, HashOf, Busy

\* Every step keeps TurnInv.
LEMMA TurnInvStep == ConvTypeOK /\ TurnInv /\ [Next]_vars => TurnInv'
<1> SUFFICES ASSUME ConvTypeOK, TurnInv, [Next]_vars PROVE TurnInv'
  OBVIOUS
<1> USE ConversationAssumption DEF ConvTypeOK, TurnInv, HashOf, Busy
<1>1. ASSUME NEW s \in Call, NEW f \in Frame, StartFrame(s, f) PROVE TurnInv'
  BY <1>1 DEF StartFrame, Goto
<1>2. ASSUME NEW s \in Call, StartText(s) PROVE TurnInv'
  BY <1>2 DEF StartText, Goto
<1>3. ASSUME NEW s \in Call, Context(s) \/ Problem(s) PROVE TurnInv'
  BY <1>3 DEF Context, Problem, Goto
<1>4. ASSUME NEW s \in Call, ContextFails(s) PROVE TurnInv'
  BY <1>4 DEF ContextFails, Goto, Finish, ClearHash
<1>5. ASSUME NEW s \in Call, AIFails(s) PROVE TurnInv'
  BY <1>5 DEF AIFails, Goto, Finish, ClearHash
<1>6. ASSUME NEW s \in Call, AIAnswers(s) PROVE TurnInv'
  BY <1>6 DEF AIAnswers, Goto
<1>7. ASSUME NEW s \in Call, RecordAnswer(s) PROVE TurnInv'
  BY <1>7 DEF RecordAnswer, Goto
<1>8. ASSUME NEW s \in Call, Reply(s) PROVE TurnInv'
  BY <1>8 DEF Reply, Goto
<1>9. ASSUME NEW s \in Call, NEW at \in {"problem", "record", "reply"}, SessionGone(s, at)
      PROVE  TurnInv'
  BY <1>9 DEF SessionGone, Goto, Finish
<1>10. ASSUME NEW s \in Call, Close(s) PROVE TurnInv'
  BY <1>10 DEF Close, Remove, Goto
<1>11. ASSUME NEW s \in Call, Cleanup(s) PROVE TurnInv'
  BY <1>11 DEF Cleanup, Goto
<1>12. ASSUME NEW s \in Call, Vanish(s) PROVE TurnInv'
  BY <1>12 DEF Vanish, Remove
<1>13. ASSUME NEW s \in Call, HashAges(s) PROVE TurnInv'
  BY <1>13 DEF HashAges
<1>14. CASE UNCHANGED convVars
  BY <1>14 DEF convVars
<1>15. ASSUME NEW s \in Call, Ask(s) PROVE TurnInv'
  BY <1>14, <1>15 DEF Ask
<1>16. ASSUME NEW s \in Call, Respond(s) PROVE TurnInv'
  BY <1>16 DEF Respond, Goto, Finish
<1>17. ASSUME NEW s \in Call, RespondFails(s) PROVE TurnInv'
  BY <1>17 DEF RespondFails, Goto, Finish
<1> QED
  BY <1>1, <1>2, <1>3, <1>4, <1>5, <1>6, <1>7, <1>8, <1>9, <1>10, <1>11, <1>12, <1>13,
     <1>14, <1>15, <1>16, <1>17, ConvFrame DEF Start, Process, Write, Elsewhere

\* TurnInv holds in every reachable state.
LEMMA TurnAlways == Spec => []TurnInv
<1>1. TypeOK => ConvTypeOK
  BY DEF TypeOK, ConvTypeOK
<1> QED
  BY <1>1, TurnInvInit, TurnInvStep, TypeCorrect, PTL DEF Spec

\* As long as no write to the client has failed, no hash of an unanswered frame
\* survives its turn, so that the client's next try is not skipped
\* (checkAndStoreFrameHash, clearFrameHash, writeResponse).
THEOREM SkippedWasAnsweredHolds == Spec => []SkippedWasAnswered
<1>1. TypeOK /\ TurnInv => SkippedWasAnswered
  BY ConversationAssumption DEF TypeOK, TurnInv, HashOf, Busy, SkippedWasAnswered
<1> QED
  BY <1>1, TurnAlways, TypeCorrect, PTL

\* No hash outlives its connection (CleanupSession).
THEOREM HashesFreedHolds == Spec => []HashesFreed
<1>1. TurnInv => HashesFreed
  BY DEF TurnInv, HashesFreed
<1> QED
  BY <1>1, TurnAlways, PTL

\* As long as no write to the client has failed, no recorded answer of an
\* existing session stays unsent after its turn (writeResponse).
THEOREM NothingUnsaidHolds == Spec => []NothingUnsaid
<1>1. TurnInv => NothingUnsaid
  BY DEF TurnInv, NothingUnsaid
<1> QED
  BY <1>1, TurnAlways, PTL

-----------------------------------------------------------------------------
(* The length of a turn.                                                   *)

\* A call is in progress only in the step "ai" of its turn, and begins with
\* the first attempt.
CallInv ==
    \A s \in Call : /\ pc[s] # "idle" => turn[s] = "ai"
                    /\ pc[s] \in {"idle", "wait"} => attempt[s] = 0

\* The initial states satisfy it.
LEMMA CallInvInit == Init => CallInv
BY DEF Init, AIInit, CallInv

\* Every step keeps it.
LEMMA CallInvStep == TypeOK /\ CallInv /\ [Next]_vars => CallInv'
<1> SUFFICES ASSUME TypeOK, CallInv, [Next]_vars PROVE CallInv'
  OBVIOUS
<1> USE DEF TypeOK, AITypeOK, CallInv
<1>1. ASSUME NEW s \in Call, Start(s) \/ Write(s) \/ Close(s) \/ Cleanup(s) \/ Elsewhere(s)
      PROVE  CallInv'
  BY <1>1 DEF Start, StartText, StartFrame, Write, Respond, RespondFails, Finish, Close, Cleanup, Elsewhere, Vanish, HashAges, Goto,
              aiVars
<1>2. ASSUME NEW s \in Call, Context(s) \/ ContextFails(s) \/ Problem(s) \/ RecordAnswer(s)
                            \/ Reply(s)
      PROVE  CallInv'
  BY <1>2 DEF Context, ContextFails, Problem, RecordAnswer, Reply, Finish, Goto, aiVars
<1>3. ASSUME NEW s \in Call, NEW at \in {"problem", "record", "reply"}, SessionGone(s, at)
      PROVE  CallInv'
  BY <1>3 DEF SessionGone, Finish, Goto, aiVars
<1>4. ASSUME NEW s \in Call, Ask(s) PROVE CallInv'
  BY <1>4 DEF Ask, Begin, Refuse, Admit, Step, convVars
<1>5. ASSUME NEW s \in Call, AIFails(s) \/ AIAnswers(s) PROVE CallInv'
  BY <1>5 DEF AIFails, AIAnswers, Return, Step, Finish, Goto
<1>6. ASSUME NEW s \in Call, Work(s) PROVE CallInv'
  BY <1>6 DEF Work, Working, GetToken, Answers, Fails, BacksOff, Retry, Record, Step, convVars
<1>7. CASE Clock \/ Backend
  BY <1>7 DEF Clock, Backend, AIClock, Refill, Cool, Health, convVars
<1>8. CASE UNCHANGED vars
  BY <1>8 DEF vars, aiVars, convVars
<1> QED
  BY <1>1, <1>2, <1>3, <1>4, <1>5, <1>6, <1>7, <1>8 DEF Next, Process

\* A step of the client in a turn brings the call nearer to its end.
LEMMA CallShortens ==
    ASSUME TypeOK, NEW s \in Call, Working(s)
    PROVE  CallLeft(s)' < CallLeft(s)
<1> USE AIClientAssumption DEF TypeOK, AITypeOK
<1>1. CASE GetToken(s)
  BY <1>1 DEF GetToken, Step, CallLeft
<1>2. CASE Answers(s) \/ Fails(s)
  BY <1>2 DEF Answers, Fails, Step, CallLeft
<1>3. CASE BacksOff(s)
  BY <1>3 DEF BacksOff, Step, CallLeft
<1>4. CASE Retry(s)
  BY <1>4 DEF Retry, Step, CallLeft
<1>5. CASE Record(s)
  BY <1>5 DEF Record, Step, CallLeft
<1> QED
  BY <1>1, <1>2, <1>3, <1>4, <1>5 DEF Working

\* The steps of a call are numbers.
LEMMA CallLeftInt ==
    ASSUME TypeOK, NEW s \in Call
    PROVE  CallLeft(s) \in 1 .. 2 * MaxRetries + 3
BY AIClientAssumption DEF TypeOK, AITypeOK, CallLeft

\* A step of a turn leaves fewer steps of it, and no step of others more.
LEMMA TurnStep ==
    ASSUME TypeOK, TypeOK', CallInv, [Next]_vars, NEW s \in Call, turn[s] \in Busy
    PROVE  TurnLeft(s)' < TurnLeft(s) \/ UNCHANGED <<turn[s], pc[s], attempt[s]>>
<1> DEFINE Same == UNCHANGED <<turn[s], pc[s], attempt[s]>>
           Less == TurnLeft(s)' < TurnLeft(s)
<1>0. /\ CallLeft(s) \in 1 .. 2 * MaxRetries + 3 /\ MaxRetries \in Nat \ {0}
      /\ pc \in [Call -> {"idle", "wait", "request", "backoff", "record", "answered"}]
      /\ attempt \in [Call -> 0 .. MaxRetries - 1]
      /\ turn \in [Call -> {"idle", "context", "ai", "problem", "record", "reply",
                            "write", "closing", "closed"}]
  BY CallLeftInt, AIClientAssumption DEF TypeOK, AITypeOK
<1>1. ASSUME NEW r \in Call, Start(r) \/ Write(r) \/ Close(r) \/ Cleanup(r) \/ Elsewhere(r)
      PROVE  Same
  BY <1>0, <1>1 DEF Start, StartText, StartFrame, Write, Respond, RespondFails, Finish, Close, Cleanup, Elsewhere, Vanish, HashAges,
                    Goto, aiVars, Busy
<1>2. ASSUME NEW r \in Call, Context(r) PROVE Less \/ Same
  <2>1. CASE r = s
    <3>1. turn[s] = "context" /\ turn'[s] = "ai" /\ CallLeft(s)' = CallLeft(s)
      BY <1>0, <1>2, <2>1 DEF Context, Goto, aiVars, CallLeft
    <3> QED
      BY <1>0, <3>1 DEF TurnLeft
  <2>2. CASE r # s
    BY <1>0, <1>2, <2>2 DEF Context, Goto, aiVars
  <2> QED
    BY <2>1, <2>2
<1>3. ASSUME NEW r \in Call, ContextFails(r) \/ Problem(r) \/ RecordAnswer(r) \/ Reply(r)
      PROVE  Less \/ Same
  BY <1>0, <1>3 DEF ContextFails, Problem, RecordAnswer, Reply, Finish, Goto, aiVars, TurnLeft
<1>4. ASSUME NEW r \in Call, NEW at \in {"problem", "record", "reply"}, SessionGone(r, at)
      PROVE  Less \/ Same
  BY <1>0, <1>4 DEF SessionGone, Finish, Goto, aiVars, TurnLeft
<1>5. ASSUME NEW r \in Call, Ask(r) PROVE Less \/ Same
  <2>1. CASE r = s
    <3>1. /\ turn[s] = "ai" /\ turn'[s] = "ai"
          /\ pc[s] = "idle" /\ pc'[s] \in {"wait", "answered"}
      BY <1>0, <1>5, <2>1 DEF Ask, Begin, Refuse, Admit, Step, convVars
    <3> QED
      BY <1>0, <3>1 DEF TurnLeft, CallLeft
  <2>2. CASE r # s
    BY <1>0, <1>5, <2>2 DEF Ask, Begin, Refuse, Admit, Step, convVars
  <2> QED
    BY <2>1, <2>2
<1>6. ASSUME NEW r \in Call, AIFails(r) \/ AIAnswers(r) PROVE Less \/ Same
  <2>1. CASE r = s
    <3>1. /\ turn[s] = "ai" /\ turn'[s] \in {"idle", "problem", "record"}
      BY <1>0, <1>6, <2>1 DEF AIFails, AIAnswers, Finish, Goto
    <3> QED
      BY <1>0, <3>1 DEF TurnLeft
  <2>2. CASE r # s
    BY <1>0, <1>6, <2>2 DEF AIFails, AIAnswers, Return, Step, Finish, Goto
  <2> QED
    BY <2>1, <2>2
<1>7. ASSUME NEW r \in Call, Work(r) PROVE Less \/ Same
  <2>1. CASE r = s
    <3>1. turn[s] = "ai" /\ turn'[s] = "ai"
      BY <1>0, <1>7, <2>1 DEF CallInv, Work, Working, GetToken, Answers, Fails, BacksOff, Retry,
                              Record, Step, convVars
    <3>2. CallLeft(s)' < CallLeft(s)
      BY <1>7, <2>1, CallShortens DEF Work
    <3>3. CallLeft(s)' \in Int
      BY AIClientAssumption DEF TypeOK, AITypeOK, CallLeft
    <3> QED
      BY <1>0, <3>1, <3>2, <3>3 DEF TurnLeft
  <2>2. CASE r # s
    BY <1>0, <1>7, <2>2 DEF Work, Working, GetToken, Answers, Fails, BacksOff, Retry, Record,
                            Step, convVars
  <2> QED
    BY <2>1, <2>2
<1>8. CASE Clock \/ Backend
  BY <1>8 DEF Clock, Backend, AIClock, Refill, Cool, Health, convVars
<1>9. CASE UNCHANGED vars
  BY <1>9 DEF vars, aiVars, convVars
<1> QED
  BY <1>1, <1>2, <1>3, <1>4, <1>5, <1>6, <1>7, <1>8, <1>9 DEF Next, Process

\* A turn takes at most 2 * maxRetries + 7 steps by itself, whatever the
\* backend answers, whatever is deleted meanwhile and whatever other turns do.
THEOREM TurnAlwaysShortens == Spec => TurnShortens
<1>1. TypeOK /\ TypeOK' /\ CallInv /\ [Next]_vars
          => [\A s \in Call : turn[s] \in Busy =>
                 TurnLeft(s)' < TurnLeft(s) \/ UNCHANGED <<turn[s], pc[s], attempt[s]>>]_vars
  BY TurnStep
<1>2. Spec => []CallInv
  BY CallInvInit, CallInvStep, TypeCorrect, PTL DEF Spec
<1> QED
  BY <1>1, <1>2, TypeCorrect, PTL DEF Spec, TurnShortens
=============================================================================
