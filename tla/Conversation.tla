----------------------------- MODULE Conversation -----------------------------
(***************************************************************************)
(* Turns of a conversation (ConversationService): a frame or a text of a   *)
(* connection goes through frame de-duplication, the session store and the *)
(* AI backend.  The goroutine of a connection works on one message at a    *)
(* time, so a Call of AIClient is a connection and its session.            *)
(*                                                                         *)
(* Frame stands for frames that differ by the duplicate threshold or more; *)
(* a frame that is closer to the stored one is the stored one as far as    *)
(* this component can tell.  A skipped duplicate changes nothing and is no *)
(* action.                                                                 *)
(***************************************************************************)
EXTENDS AIClient

CONSTANTS
    Frame,      \* frames
    NoFrame,    \* no frame: a text turn, no hash
    OldFrame    \* a hash whose frameHashTTL is over

ASSUME ConversationAssumption == NoFrame \notin Frame /\ OldFrame \notin Frame

VARIABLES
    live,       \* sessions that are in SessionService's map
    turn,       \* the step a connection's message takes next
    frame,      \* the frame the message carries
    hash,       \* frameHashes
    \* History of the sessions in live, read by the properties only:
    answered,   \* the frame answered, with a response that was written, since
                \* the hash was stored
    unsaid,     \* sessions with an assistant message nobody was sent
    unwritable  \* open connections that a write has failed on

convVars == <<live, turn, frame, hash, answered, unsaid, unwritable>>
vars == <<aiVars, convVars>>

Hash == Frame \cup {NoFrame, OldFrame}

TypeOK ==
    /\ AITypeOK
    /\ live \subseteq Call
    /\ turn \in [Call -> {"idle", "context", "ai", "problem", "record", "reply",
                          "write", "closing", "closed"}]
    /\ frame \in [Call -> Frame \cup {NoFrame}]
    /\ hash \in [Call -> Hash]
    /\ answered \in [Call -> Frame \cup {NoFrame}]
    /\ unsaid \subseteq Call
    /\ unwritable \subseteq Call

Init ==
    /\ AIInit
    /\ live = Call
    /\ turn = [s \in Call |-> "idle"]
    /\ frame = [s \in Call |-> NoFrame]
    /\ hash = [s \in Call |-> NoFrame]
    /\ answered = [s \in Call |-> NoFrame]
    /\ unsaid = {}
    /\ unwritable = {}

Goto(s, from, to) == turn[s] = from /\ turn' = [turn EXCEPT ![s] = to]

\* The turn ends, with a response or an error to the client.
Finish(s, from) == Goto(s, from, "idle") /\ frame' = [frame EXCEPT ![s] = NoFrame]

\* Session s leaves the map, its history with it.
Remove(s) ==
    /\ live' = live \ {s}
    /\ answered' = [answered EXCEPT ![s] = NoFrame]
    /\ unsaid' = unsaid \ {s}

-----------------------------------------------------------------------------
(* ProcessFrame and ProcessTextMessage, up to the call.                    *)

\* checkAndStoreFrameHash: not a duplicate, and stored at once.
StartFrame(s, f) ==
    /\ f # hash[s]
    /\ hash' = [hash EXCEPT ![s] = f]
    /\ frame' = [frame EXCEPT ![s] = f]
    /\ Goto(s, "idle", "context")
    /\ answered' = [answered EXCEPT ![s] = NoFrame]
    /\ UNCHANGED <<aiVars, live, unsaid, unwritable>>

\* AddMessage of the user's text.
StartText(s) ==
    /\ s \in live
    /\ Goto(s, "idle", "context")
    /\ UNCHANGED <<aiVars, live, frame, hash, answered, unsaid, unwritable>>

\* Mutant: a failed turn leaves the hash.
KeepHash(s) == UNCHANGED hash

\* clearFrameHash, in a frame turn.
ClearHash(s) ==
    hash' = IF frame[s] = NoFrame THEN hash ELSE [hash EXCEPT ![s] = NoFrame]

\* BuildContextForGemini, which needs the session.
Context(s) ==
    /\ s \in live
    /\ Goto(s, "context", "ai")
    /\ UNCHANGED <<aiVars, live, frame, hash, answered, unsaid, unwritable>>

ContextFails(s) ==
    /\ s \notin live
    /\ Finish(s, "context")
    /\ ClearHash(s)
    /\ UNCHANGED <<aiVars, live, answered, unsaid, unwritable>>

-----------------------------------------------------------------------------
(* The call and what follows it.                                           *)

Ask(s) == turn[s] = "ai" /\ Begin(s) /\ UNCHANGED convVars

Work(s) == Working(s) /\ UNCHANGED convVars

AIFails(s) ==
    /\ result[s] \in {"failed", "refused"}
    /\ Return(s)
    /\ Finish(s, "ai")
    /\ ClearHash(s)
    /\ UNCHANGED <<live, answered, unsaid, unwritable>>

\* A frame's answer may name a problem.
AIAnswers(s) ==
    /\ result[s] = "ok"
    /\ Return(s)
    /\ \/ frame[s] # NoFrame /\ Goto(s, "ai", "problem")
       \/ Goto(s, "ai", "record")
    /\ UNCHANGED <<live, frame, hash, answered, unsaid, unwritable>>

\* SetProblemDetected.
Problem(s) ==
    /\ s \in live
    /\ Goto(s, "problem", "record")
    /\ UNCHANGED <<aiVars, live, frame, hash, answered, unsaid, unwritable>>

\* AddMessage of the assistant's answer.
RecordAnswer(s) ==
    /\ s \in live
    /\ Goto(s, "record", "reply")
    /\ unsaid' = unsaid \cup {s}
    /\ UNCHANGED <<aiVars, live, frame, hash, answered, unwritable>>

\* The snapshot for the step; the result goes to the connection's handler.
Reply(s) ==
    /\ s \in live
    /\ Goto(s, "reply", "write")
    /\ UNCHANGED <<aiVars, live, frame, hash, answered, unsaid, unwritable>>

\* Mutant: the turn gives up although the session exists.
GivesUp(s, at) ==
    /\ Finish(s, at)
    /\ UNCHANGED <<aiVars, live, hash, answered, unsaid, unwritable>>

\* The session went away during the call.  The hash stays.
SessionGone(s, at) ==
    /\ s \notin live
    /\ Finish(s, at)
    /\ UNCHANGED <<aiVars, live, hash, answered, unsaid, unwritable>>

-----------------------------------------------------------------------------
(* writeResponse, without the session and without a deadline.              *)

\* writeJSON returns nil.
Respond(s) ==
    /\ s \notin unwritable
    /\ Finish(s, "write")
    /\ unsaid' = unsaid \ {s}
    /\ answered' = [answered EXCEPT ![s] = IF frame[s] = NoFrame THEN @ ELSE frame[s]]
    /\ UNCHANGED <<aiVars, live, hash, unwritable>>

\* writeJSON fails, which is only logged: the history and the hash stay and the
\* loop reads on.  The WebSocket library lets no later write through.
RespondFails(s) ==
    /\ Finish(s, "write")
    /\ unwritable' = unwritable \cup {s}
    /\ UNCHANGED <<aiVars, live, hash, answered, unsaid>>

-----------------------------------------------------------------------------
(* The rest of the server.                                                 *)

\* Mutant: the clean-up returns when the session is gone already.
CloseOrReturn(s) ==
    /\ Goto(s, "idle", IF s \in live THEN "closing" ELSE "closed")
    /\ Remove(s)
    /\ unwritable' = unwritable \ {s}
    /\ UNCHANGED <<aiVars, frame, hash>>

\* The connection ends: DeleteSession (which may not find it), then CleanupSession.
Close(s) ==
    /\ Goto(s, "idle", "closing")
    /\ Remove(s)
    /\ unwritable' = unwritable \ {s}
    /\ UNCHANGED <<aiVars, frame, hash>>

Cleanup(s) ==
    /\ Goto(s, "closing", "closed")
    /\ hash' = [hash EXCEPT ![s] = NoFrame]
    /\ UNCHANGED <<aiVars, live, frame, answered, unsaid, unwritable>>

\* A REST delete, or the cleaner, takes the session of an open connection.
Vanish(s) ==
    /\ s \in live
    /\ Remove(s)
    /\ UNCHANGED <<aiVars, turn, frame, hash, unwritable>>

\* frameHashTTL passes.
HashAges(s) ==
    /\ hash[s] \in Frame
    /\ hash' = [hash EXCEPT ![s] = OldFrame]
    /\ UNCHANGED <<aiVars, live, turn, frame, answered, unsaid, unwritable>>

-----------------------------------------------------------------------------
Process(s) ==
    \/ Context(s) \/ ContextFails(s)
    \/ Ask(s) \/ AIFails(s) \/ AIAnswers(s)
    \/ Problem(s) \/ RecordAnswer(s) \/ Reply(s)
    \/ \E at \in {"problem", "record", "reply"} : SessionGone(s, at)

Write(s) == Respond(s) \/ RespondFails(s)

Start(s) == StartText(s) \/ \E f \in Frame : StartFrame(s, f)

Elsewhere(s) == Vanish(s) \/ HashAges(s)

Clock == AIClock /\ UNCHANGED convVars

Backend == Health /\ UNCHANGED convVars

Next ==
    \/ \E s \in Call : \/ Start(s) \/ Process(s) \/ Work(s) \/ Write(s)
                       \/ Close(s) \/ Cleanup(s) \/ Elsewhere(s)
    \/ Clock
    \/ Backend

Spec == Init /\ [][Next]_vars

\* Goroutines take their steps, requests end (httpTimeout) and timers fire;
\* the limiter serves those who wait in turn.  No fairness for messages,
\* for deletes, for the state of the backend and for the writes, which have no
\* deadline.
FairSpec ==
    /\ Spec
    /\ WF_vars(Refill /\ UNCHANGED convVars)
    /\ WF_vars(Cool /\ UNCHANGED convVars)
    /\ \A s \in Call : /\ WF_vars(Process(s))
                       /\ WF_vars(Work(s))
                       /\ SF_vars(GetToken(s) /\ UNCHANGED convVars)

-----------------------------------------------------------------------------
(* Properties.                                                             *)

\* As long as no write to the client has failed, a frame is only ever skipped as
\* a duplicate of one whose answer was written to it: between turns, the stored
\* hash of a session that still exists is that of a frame answered since it was
\* stored.  A refused, failed or interrupted call leaves no hash that would
\* swallow the client's next try.
SkippedWasAnswered ==
    \A s \in live \ unwritable :
        (turn[s] = "idle" /\ hash[s] \in Frame) => answered[s] = hash[s]

\* frameHashes keeps no entry of a closed connection, in whatever way and
\* order its session, its connection and its last turn ended.
HashesFreed ==
    \A s \in Call : turn[s] = "closed" => hash[s] = NoFrame

\* As long as no write to the client has failed, the history the model is shown
\* never contains an answer the user was not sent: between turns an existing
\* session has no such message, however its last turn ended.
NothingUnsaid ==
    \A s \in live \ unwritable : turn[s] = "idle" => s \notin unsaid

Busy == {"context", "ai", "problem", "record", "reply"}

\* The steps a turn of ConversationService takes by itself, at most.
CallLeft(s) ==
    CASE pc[s] = "idle"     -> 2 * MaxRetries + 3
      [] pc[s] = "wait"     -> 2 * MaxRetries + 2
      [] pc[s] = "request"  -> 2 * (MaxRetries - attempt[s]) + 1
      [] pc[s] = "backoff"  -> 2 * (MaxRetries - attempt[s]) + 2
      [] pc[s] = "record"   -> 2
      [] pc[s] = "answered" -> 1

TurnLeft(s) ==
    CASE turn[s] = "context" -> 2 * MaxRetries + 7
      [] turn[s] = "ai"      -> CallLeft(s) + 3
      [] turn[s] = "problem" -> 3
      [] turn[s] = "record"  -> 2
      [] turn[s] = "reply"   -> 1
      [] OTHER               -> 0

\* Retries, back-offs and vanishing sessions never make a turn longer: each of
\* its steps leaves fewer to come, and no step of others leaves more.
TurnShortens ==
    [][\A s \in Call : turn[s] \in Busy =>
           TurnLeft(s)' < TurnLeft(s) \/ UNCHANGED <<turn[s], pc[s], attempt[s]>>]_vars

\* Every turn of ConversationService ends, with an error or with a result for
\* writeResponse.
TurnEnds ==
    \A s \in Call : (turn[s] = "context") ~> (turn[s] \in {"write", "idle"})
=============================================================================
