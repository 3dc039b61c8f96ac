----------------------------- MODULE VoiceService -----------------------------
(***************************************************************************)
(* Spoken answers in the app: the queue and the flag of VoiceService, the  *)
(* stream that tells VoiceNotifier of them, and the state the button shows.*)
(*                                                                         *)
(* The speech engine is external: it takes the commands of the platform    *)
(* channel in order, a new utterance cuts off the one that is playing, and *)
(* one that ends by itself is reported, as completed or failed alike.      *)
(* Utterances are counted, not told apart.                                 *)
(***************************************************************************)
EXTENDS Integers, Sequences

CONSTANT MaxPending    \* bound on what is queued, sent and underway together

VARIABLES
    queued,      \* length of _ttsQueue
    speaking,    \* _isSpeaking
    commands,    \* what the engine has not taken yet
    engine,      \* what it is doing
    reports,     \* ends of utterances not yet handled
    returns,     \* answers to stop not yet handled
    events,      \* what speakingStream has not delivered yet
    shown        \* VoiceState.isSpeaking

voiceVars == <<queued, speaking, commands, engine, reports, returns, events, shown>>

VoiceTypeOK ==
    /\ queued \in Nat
    /\ speaking \in BOOLEAN
    /\ commands \in Seq({"speak", "stop"})
    /\ engine \in {"silent", "playing"}
    /\ {reports, returns} \subseteq Nat
    /\ events \in Seq(BOOLEAN)
    /\ shown \in BOOLEAN

VoiceInit ==
    /\ queued = 0 /\ reports = 0 /\ returns = 0
    /\ speaking = FALSE /\ shown = FALSE
    /\ commands = <<>> /\ events = <<>>
    /\ engine = "silent"

Pending == queued + Len(commands) + reports + returns + Len(events)

-----------------------------------------------------------------------------
(* VoiceService.                                                           *)

\* _processQueue, with length utterances queued, after the events told.
ProcessQueue(length, told) ==
    IF length = 0
    THEN /\ queued' = 0
         /\ events' = events \o told
         /\ UNCHANGED commands
    ELSE /\ queued' = length - 1
         /\ events' = events \o told \o <<TRUE>>
         /\ commands' = Append(commands, "speak")

\* VoiceNotifier.speak.
Speak ==
    /\ Pending < MaxPending
    /\ IF speaking
       THEN queued' = queued + 1 /\ UNCHANGED <<events, commands>>
       ELSE ProcessQueue(queued + 1, <<>>)
    /\ speaking' = TRUE
    /\ shown' = TRUE
    /\ UNCHANGED <<engine, reports, returns>>

\* VoiceNotifier.stopSpeaking, up to the await.
Stop ==
    /\ Pending < MaxPending
    /\ queued' = 0
    /\ speaking' = FALSE
    /\ events' = Append(events, FALSE)
    /\ commands' = Append(commands, "stop")
    /\ UNCHANGED <<engine, reports, returns, shown>>

\* The rest of it.
StopReturns ==
    /\ returns > 0
    /\ returns' = returns - 1
    /\ shown' = FALSE
    /\ UNCHANGED <<queued, speaking, commands, engine, reports, events>>

\* Mutant: a handler that leaves the queue alone.
CompletedOnly ==
    /\ reports > 0
    /\ reports' = reports - 1
    /\ speaking' = FALSE
    /\ events' = Append(events, FALSE)
    /\ UNCHANGED <<queued, commands, engine, returns, shown>>

\* The completion handler and the error handler.
Completed ==
    /\ reports > 0
    /\ reports' = reports - 1
    /\ speaking' = (queued > 0)
    /\ ProcessQueue(queued, <<FALSE>>)
    /\ UNCHANGED <<engine, returns, shown>>

\* The listener of VoiceNotifier.
Told ==
    /\ events # <<>>
    /\ shown' = Head(events)
    /\ events' = Tail(events)
    /\ UNCHANGED <<queued, speaking, commands, engine, reports, returns>>

-----------------------------------------------------------------------------
(* The engine.                                                             *)

Takes ==
    /\ commands # <<>>
    /\ commands' = Tail(commands)
    /\ IF Head(commands) = "speak"
       THEN engine' = "playing" /\ UNCHANGED returns
       ELSE engine' = "silent" /\ returns' = returns + 1
    /\ UNCHANGED <<queued, speaking, reports, events, shown>>

Ends ==
    /\ engine = "playing"
    /\ engine' = "silent"
    /\ reports' = reports + 1
    /\ UNCHANGED <<queued, speaking, commands, returns, events, shown>>

VoiceNext == StopReturns \/ Completed \/ Told \/ Takes \/ Ends

-----------------------------------------------------------------------------
(* Properties.                                                             *)

\* The end of an utterance that is still to come.
EndToCome ==
    engine = "playing" \/ reports > 0 \/ \E i \in 1 .. Len(commands) : commands[i] = "speak"

\* Stops, completions that were already underway and new utterances meet in
\* any order, and no utterance is stranded in the queue, the flag that keeps
\* later ones waiting is never left set with nothing to clear it, and the
\* button does not go on showing speech when all is told and the flag is clear.
NothingStranded ==
    /\ queued > 0 => speaking
    /\ speaking => EndToCome
    /\ (shown /\ events = <<>>) => speaking
=============================================================================
