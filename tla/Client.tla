-------------------------------- MODULE Client --------------------------------
(***************************************************************************)
(* The app: its connection, its voice, and the two screens that talk to    *)
(* the server through both (session_screen.dart, camera_screen.dart).      *)
(*                                                                         *)
(* The screens share the state of SessionNotifier, which outlives them; of *)
(* it the model keeps isProcessing.  CameraScreen has a timer for the      *)
(* answer, SessionScreen has none.  Frames go out all the time, so that    *)
(* the server, modelled in Conversation and MessageLimits, may answer or   *)
(* refuse at any time, and owes no answer to a particular message.         *)
(***************************************************************************)
EXTENDS WebSocketService, VoiceService

VARIABLES
    screen,      \* the screen that is mounted
    processing,  \* SessionState.isProcessing
    timed,       \* CameraScreen: _aiTimeoutTimer is pending
    asked,       \* history: something was asked on this screen
    replay       \* SessionScreen: _lastVoiceText is set

screenVars == <<screen, processing, timed, asked, replay>>
vars == <<linkVars, voiceVars, screenVars>>

ScreenTypeOK ==
    /\ screen \in {"none", "session", "camera"}
    /\ processing \in BOOLEAN /\ timed \in BOOLEAN
    /\ asked \in BOOLEAN /\ replay \in BOOLEAN

TypeOK == LinkTypeOK /\ VoiceTypeOK /\ ScreenTypeOK

ScreenInit ==
    /\ screen = "none"
    /\ processing = FALSE /\ timed = FALSE /\ asked = FALSE /\ replay = FALSE

Init == LinkInit /\ VoiceInit /\ ScreenInit

-----------------------------------------------------------------------------
(* The screens.                                                            *)

\* initState; sessionProvider keeps what the last screen left.
Open(s) ==
    /\ screen = "none"
    /\ screen' = s
    /\ UNCHANGED <<processing, timed, asked, replay>>

\* dispose; what belongs to the screen goes with it.
Close ==
    /\ screen # "none"
    /\ screen' = "none"
    /\ timed' = FALSE /\ asked' = FALSE /\ replay' = FALSE
    /\ UNCHANGED processing

\* The last status delivered: connected until onDone has run.
Connected == link \in listened

\* SessionScreen: _sendText, or _captureAndSend up to its await.  What is sent
\* may be lost, and the camera may be busy and have nothing to send.
AskSession ==
    /\ screen = "session"
    /\ processing' = Connected
    /\ asked' = TRUE
    /\ UNCHANGED <<screen, timed, replay>>

\* CameraScreen: a text or a recognised phrase, also without a connection.
AskCamera ==
    /\ screen = "camera"
    /\ processing' = TRUE
    /\ timed' = TRUE
    /\ asked' = TRUE
    /\ UNCHANGED <<screen, replay>>

Timeout ==
    /\ timed
    /\ timed' = FALSE
    /\ processing' = FALSE
    /\ UNCHANGED <<screen, asked, replay>>

\* SessionScreen: the button for a new analysis.
Reset ==
    /\ screen = "session"
    /\ processing' = FALSE
    /\ UNCHANGED <<screen, timed, asked, replay>>

\* Mutant: the screen does not know the message.
Ignored == UNCHANGED processing

\* updateFromResponse and setError.  The server sends responses and errors
\* only: it streams no chunks, and the app sends no ping for it to answer.
Answered == processing' = FALSE

\* A response has something to say or not, and guidance by voice may be off.
MaySpeak ==
    \/ Speak /\ replay' = (screen = "session")
    \/ UNCHANGED voiceVars /\ replay' \in {replay, screen = "session"}

\* A message of the server arrives: a response, which may be spoken, or an error.
Receive ==
    /\ Connected /\ chan[link] = "up"
    /\ screen # "none"
    /\ timed' = FALSE
    /\ Answered
    /\ MaySpeak
    /\ UNCHANGED <<linkVars, screen, asked>>

\* SessionScreen: the voice button stops what it shows, or plays the last answer.
VoiceButton ==
    /\ screen = "session"
    /\ \/ shown /\ Stop
       \/ ~shown /\ replay /\ Speak

Screen ==
    \/ \E s \in {"session", "camera"} : Open(s)
    \/ Close \/ AskSession \/ AskCamera \/ Timeout \/ Reset

Link == LinkNext /\ UNCHANGED <<voiceVars, screenVars>>

Voice == (VoiceNext \/ VoiceButton) /\ UNCHANGED <<linkVars, screenVars>>

Next ==
    \/ Link
    \/ Voice
    \/ Screen /\ UNCHANGED <<linkVars, voiceVars>>
    \/ Receive

Spec == Init /\ [][Next]_vars

\* Timers fire and completions are delivered, an attempt to connect ends, and a
\* server that is tried again and again accepts at some time.  No fairness for
\* answers, for the noticing of a lost connection and for the user.
FairSpec ==
    /\ Spec
    /\ WF_vars(Attempt /\ UNCHANGED <<voiceVars, screenVars>>)
    /\ WF_vars(Timeout /\ UNCHANGED <<linkVars, voiceVars>>)
    /\ WF_vars((\E c \in Chan : Accepted(c) \/ Refused(c)) /\ UNCHANGED <<voiceVars, screenVars>>)
    /\ SF_vars((\E c \in Chan : Accepted(c)) /\ UNCHANGED <<voiceVars, screenVars>>)

-----------------------------------------------------------------------------
(* Properties.                                                             *)

\* Who asks on the camera screen is never left waiting: the timer stands until
\* an answer, an error or its end takes the wait away.
WaitIsTimed ==
    (screen = "camera" /\ asked /\ processing) => timed

-----------------------------------------------------------------------------
(* What the documents say, and the code does not do; the README tells how   *)
(* to see it.                                                               *)

\* FAQ.md: "The app has a 15-second timeout."
WaitEnds == (processing /\ screen # "none") ~> (~processing \/ screen = "none")

\* voice_provider.dart: the subscription keeps isSpeaking "in sync".
ButtonInSync == (speaking /\ events = <<>> /\ returns = 0) => shown
=============================================================================
