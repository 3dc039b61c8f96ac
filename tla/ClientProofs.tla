----------------------------- MODULE ClientProofs -----------------------------
(***************************************************************************)
(* Proofs about the app: about its connection for any number of channel    *)
(* objects, about its voice for any bound on what is underway, and about   *)
(* the wait on the camera screen.                                          *)
(***************************************************************************)
EXTENDS Client, FiniteSetTheorems, SequenceTheorems, TLAPS

-----------------------------------------------------------------------------
(* The connection.                                                         *)

\* Before disconnect: one attempt, one subscription or one timer, of the
\* channel in _channel; with the timer running no connection is left.
OneThing ==
    \/ awaiting = {link} /\ listened = {} /\ timers = 0
    \/ awaiting = {} /\ listened = {link} /\ timers = 0
    \/ awaiting = {} /\ listened = {} /\ timers = 1 /\ chan[link] \notin Live

\* Afterwards: no timer, and so no new attempt.
LinkInv ==
    /\ LinkTypeOK
    /\ link \in Chan
    /\ awaiting \cup listened \subseteq {link}
    /\ \A c \in Chan : chan[c] \in Live => c = link
    /\ disposed <=> leaving # "no"
    /\ ~disposed => OneThing
    /\ disposed => timers = 0
    /\ leaving = "done" => chan[link] \notin Live

LEMMA LinkInvInit == LinkInit => LinkInv
<1> SUFFICES ASSUME LinkInit PROVE LinkInv
  OBVIOUS
<1>1. link \in Chan
  BY WebSocketServiceAssumption DEF LinkInit
<1> QED
  BY <1>1 DEF LinkInit, LinkInv, LinkTypeOK, OneThing, Live

LEMMA AttemptStep == LinkInv /\ Attempt => LinkInv'
<1> SUFFICES ASSUME LinkInv, Attempt PROVE LinkInv'
  OBVIOUS
<1> USE DEF LinkInv, LinkTypeOK, OneThing, Live
<1>1. CASE TimerFires
  <2>1. ~disposed /\ timers = 1 /\ timers' = 0
    BY <1>1 DEF TimerFires
  <2>2. PICK c \in Chan : Connect(c)
    BY <1>1, <2>1 DEF TimerFires, Unused
  <2> QED
    BY <2>1, <2>2 DEF Connect
<1>2. ASSUME NEW c \in Chan, Ready(c) PROVE LinkInv'
  BY <1>2 DEF Ready
<1>3. ASSUME NEW c \in Chan, ConnectFails(c) PROVE LinkInv'
  BY <1>3 DEF ConnectFails, ScheduleReconnect
<1>4. ASSUME NEW c \in Chan, Done(c) PROVE LinkInv'
  BY <1>4 DEF Done, ScheduleReconnect
<1> QED
  BY <1>1, <1>2, <1>3, <1>4 DEF Attempt

LEMMA LeaveStep == LinkInv /\ Leave => LinkInv'
<1> SUFFICES ASSUME LinkInv, Leave PROVE LinkInv'
  OBVIOUS
<1> USE DEF LinkInv, LinkTypeOK, OneThing, Live
<1>1. CASE Disconnect
  BY <1>1 DEF Disconnect, CancelLast
<1>2. CASE CloseSink
  BY <1>2 DEF CloseSink
<1>3. CASE CloseStreams
  BY <1>3, WebSocketServiceAssumption DEF CloseStreams
<1> QED
  BY <1>1, <1>2, <1>3 DEF Leave

\* A connection can end by itself at any time, but not begin.
LEMMA NetworkStep == LinkInv /\ Network => LinkInv'
<1> SUFFICES ASSUME LinkInv, Network PROVE LinkInv'
  OBVIOUS
<1> USE DEF LinkInv, LinkTypeOK, OneThing, Live
<1>1. ASSUME NEW c \in Chan, NEW from \in SUBSET Live, NEW to \in Live \cup {"failed", "down"},
             Becomes(c, from, to)
      PROVE  LinkInv'
  BY <1>1 DEF Becomes
<1>2. ASSUME NEW c \in Chan, Forgotten(c) PROVE LinkInv'
  BY <1>2 DEF Forgotten
<1> QED
  BY <1>1, <1>2 DEF Network, Accepted, Refused, Cut, Ended, SinkCloses

LEMMA LinkStep ==
    LinkInv /\ (LinkNext \/ UNCHANGED linkVars) => LinkInv'
<1>1. LinkInv /\ UNCHANGED linkVars => LinkInv'
  BY DEF linkVars, LinkInv, LinkTypeOK, OneThing, Live
<1> QED
  BY <1>1, AttemptStep, LeaveStep, NetworkStep DEF LinkNext

LEMMA LinkInvImplies == LinkInv => OneLink /\ NothingLeft
<1> SUFFICES ASSUME LinkInv PROVE OneLink /\ NothingLeft
  OBVIOUS
<1>1. Cardinality({}) = 0 /\ Cardinality({link}) = 1
  BY FS_EmptySet, FS_Singleton
<1> QED
  BY <1>1 DEF LinkInv, LinkTypeOK, OneThing, OneLink, NothingLeft

-----------------------------------------------------------------------------
(* The wait on the camera screen.                                          *)

ScreenInv ==
    /\ ScreenTypeOK
    /\ WaitIsTimed
    /\ screen = "none" => ~asked

LEMMA ScreenStep ==
    ASSUME ScreenInv, Screen \/ Receive \/ UNCHANGED screenVars
    PROVE  ScreenInv'
<1> USE DEF ScreenInv, ScreenTypeOK, WaitIsTimed
<1>1. ASSUME NEW s \in {"session", "camera"}, Open(s) PROVE ScreenInv'
  BY <1>1 DEF Open
<1>2. CASE Close
  BY <1>2 DEF Close
<1>3. CASE AskSession
  BY <1>3 DEF AskSession, Connected
<1>4. CASE AskCamera
  BY <1>4 DEF AskCamera
<1>5. CASE Timeout
  BY <1>5 DEF Timeout
<1>6. CASE Reset
  BY <1>6 DEF Reset
<1>7. CASE Receive
  BY <1>7 DEF Receive, MaySpeak, Answered
<1>8. CASE UNCHANGED screenVars
  BY <1>8 DEF screenVars
<1> QED
  BY <1>1, <1>2, <1>3, <1>4, <1>5, <1>6, <1>7, <1>8 DEF Screen

-----------------------------------------------------------------------------
(* The voice.                                                              *)

LastIs(s, e) == Len(s) > 0 /\ s[Len(s)] = e

\* The flag is set: the last command is an utterance, or it plays with no
\* command behind it, or its end is reported.
OnItsWay ==
    speaking => \/ LastIs(commands, "speak")
                \/ commands = <<>> /\ engine = "playing"
                \/ reports > 0

\* The last event says what the flag is; with none left the button knows.
Heard ==
    /\ events # <<>> => LastIs(events, speaking)
    /\ (shown /\ events = <<>>) => speaking

VoiceInv ==
    /\ VoiceTypeOK
    /\ queued > 0 => speaking
    /\ OnItsWay
    /\ Heard

LEMMA Appended ==
    ASSUME NEW S, NEW s \in Seq(S), NEW e \in S
    PROVE  /\ Append(s, e) \in Seq(S) /\ LastIs(Append(s, e), e)
           /\ s \o <<e>> \in Seq(S) /\ LastIs(s \o <<e>>, e)
<1>1. Append(s, e) \in Seq(S) /\ LastIs(Append(s, e), e)
  BY AppendProperties DEF LastIs
<1>2. <<e>> \in Seq(S) /\ Len(<<e>>) = 1 /\ <<e>>[1] = e
  OBVIOUS
<1>3. s \o <<e>> \in Seq(S) /\ LastIs(s \o <<e>>, e)
  BY <1>2, ConcatProperties, LenProperties DEF LastIs
<1> QED
  BY <1>1, <1>3

LEMMA Shortened ==
    ASSUME NEW S, NEW s \in Seq(S), s # <<>>
    PROVE  /\ Tail(s) \in Seq(S)
           /\ Head(s) \in S
           /\ Tail(s) = <<>> => LastIs(s, Head(s))
           /\ \A e : Tail(s) # <<>> /\ LastIs(s, e) => LastIs(Tail(s), e)
<1>1. /\ Head(s) \in S /\ Tail(s) \in Seq(S) /\ Len(Tail(s)) = Len(s) - 1
      /\ \A i \in 1 .. Len(Tail(s)) : Tail(s)[i] = s[i + 1]
  BY HeadTailProperties
<1>2. Len(s) \in Nat \ {0} /\ Head(s) = s[1]
  BY EmptySeq
<1>3. Tail(s) = <<>> <=> Len(Tail(s)) = 0
  BY <1>1, EmptySeq
<1> QED
  BY <1>1, <1>2, <1>3 DEF LastIs

\* What _processQueue does, given one event before it or none.
LEMMA ProcessQueueStep ==
    ASSUME VoiceTypeOK, NEW length \in Nat, NEW told \in {<<>>, <<FALSE>>},
           ProcessQueue(length, told)
    PROVE  /\ queued' \in Nat /\ commands' \in Seq({"speak", "stop"}) /\ events' \in Seq(BOOLEAN)
           /\ length = 0 => queued' = 0 /\ commands' = commands
           /\ length > 0 => LastIs(commands', "speak") /\ LastIs(events', TRUE)
           /\ (length = 0 /\ told = <<FALSE>>) => LastIs(events', FALSE)
<1> DEFINE base == events \o told
<1>1. base \in Seq(BOOLEAN)
  <2>1. <<>> \in Seq(BOOLEAN) /\ <<FALSE>> \in Seq(BOOLEAN)
    OBVIOUS
  <2>2. told \in Seq(BOOLEAN)
    BY <2>1
  <2> QED
    BY <2>2, ConcatProperties DEF VoiceTypeOK
<1>2. told = <<FALSE>> => LastIs(base, FALSE)
  BY Appended DEF VoiceTypeOK
<1>3. commands \in Seq({"speak", "stop"})
  BY DEF VoiceTypeOK
<1> HIDE DEF base
<1>4. CASE length = 0
  <2>1. queued' = 0 /\ events' = base /\ commands' = commands
    BY <1>4 DEF ProcessQueue, base
  <2>2. queued' \in Nat /\ ~(length > 0)
    BY <1>4, <2>1
  <2> QED
    BY <1>1, <1>2, <1>3, <2>1, <2>2, Zenon
<1>5. CASE length # 0
  <2>1. /\ queued' = length - 1
        /\ events' = base \o <<TRUE>>
        /\ commands' = Append(commands, "speak")
    BY <1>5 DEF ProcessQueue, base
  <2>2. queued' \in Nat
    BY <1>5, <2>1
  <2>3. events' \in Seq(BOOLEAN) /\ LastIs(events', TRUE)
    BY <1>1, <2>1, Appended
  <2>4. commands' \in Seq({"speak", "stop"}) /\ LastIs(commands', "speak")
    BY <1>3, <2>1, Appended
  <2> QED
    BY <1>5, <2>2, <2>3, <2>4, Zenon
<1> QED
  BY <1>4, <1>5

LEMMA SpeakStep == VoiceInv /\ Speak => VoiceInv'
<1> SUFFICES ASSUME VoiceInv, Speak PROVE VoiceInv'
  OBVIOUS
<1> USE DEF VoiceInv, VoiceTypeOK, OnItsWay, Heard
<1>1. CASE speaking
  <2>1. /\ queued' = queued + 1
        /\ UNCHANGED <<events, commands, engine, reports, returns>>
        /\ speaking' = TRUE /\ shown' = TRUE
    BY <1>1 DEF Speak
  <2>2. queued' \in Nat
    BY <2>1
  <2>3. LastIs(events, speaking) => LastIs(events', speaking')
    BY <1>1, <2>1, Zenon DEF LastIs
  <2>4. LastIs(commands, "speak") => LastIs(commands', "speak")
    BY <2>1 DEF LastIs
  <2> QED
    BY <1>1, <2>1, <2>2, <2>3, <2>4, Zenon
<1>2. CASE ~speaking
  <2>1. queued = 0 /\ queued + 1 \in Nat /\ queued + 1 > 0
    BY <1>2
  <2>2. /\ ProcessQueue(queued + 1, <<>>)
        /\ speaking' = TRUE /\ shown' = TRUE
        /\ UNCHANGED <<engine, reports, returns>>
    BY <1>2 DEF Speak
  <2>3. /\ queued' \in Nat /\ commands' \in Seq({"speak", "stop"}) /\ events' \in Seq(BOOLEAN)
        /\ LastIs(commands', "speak") /\ LastIs(events', TRUE)
    BY <2>1, <2>2, ProcessQueueStep
  <2> QED
    BY <2>2, <2>3
<1> QED
  BY <1>1, <1>2

LEMMA StopStep == VoiceInv /\ Stop => VoiceInv'
<1> SUFFICES ASSUME VoiceInv, Stop PROVE VoiceInv'
  OBVIOUS
<1> USE DEF VoiceInv, VoiceTypeOK, OnItsWay, Heard
<1>1. events' \in Seq(BOOLEAN) /\ LastIs(events', FALSE)
  BY Appended DEF Stop
<1>2. commands' \in Seq({"speak", "stop"})
  BY Appended DEF Stop
<1>3. /\ queued' = 0 /\ speaking' = FALSE
      /\ UNCHANGED <<engine, reports, returns, shown>>
  BY DEF Stop
<1>4. events' # <<>>
  BY <1>1, EmptySeq DEF LastIs
<1>5. ~(queued' > 0) /\ queued' \in Nat
  BY <1>3
<1>6. LastIs(events', speaking')
  BY <1>1, <1>3, Zenon
<1> QED
  BY <1>1, <1>2, <1>3, <1>4, <1>5, <1>6, Zenon

LEMMA CompletedStep == VoiceInv /\ Completed => VoiceInv'
<1> SUFFICES ASSUME VoiceInv, Completed PROVE VoiceInv'
  OBVIOUS
<1> USE DEF VoiceInv, VoiceTypeOK, OnItsWay, Heard
<1>1. /\ ProcessQueue(queued, <<FALSE>>)
      /\ reports' = reports - 1 /\ reports > 0
      /\ speaking' = (queued > 0)
      /\ UNCHANGED <<engine, returns, shown>>
  BY DEF Completed
<1>2. /\ queued' \in Nat /\ commands' \in Seq({"speak", "stop"}) /\ events' \in Seq(BOOLEAN)
      /\ queued = 0 => queued' = 0 /\ LastIs(events', FALSE)
      /\ queued > 0 => LastIs(commands', "speak") /\ LastIs(events', TRUE)
  BY <1>1, ProcessQueueStep
<1>3. events' # <<>>
  BY <1>2, EmptySeq DEF LastIs
<1>4. reports' \in Nat
  BY <1>1
<1>5. CASE queued = 0
  <2>1. (queued > 0) = FALSE
    BY <1>5
  <2>2. speaking' = FALSE
    BY <1>1, <2>1
  <2>3. queued' = 0 /\ LastIs(events', FALSE)
    BY <1>2, <1>5, Zenon
  <2>4. ~(queued' > 0)
    BY <2>3
  <2> QED
    BY <1>1, <1>2, <1>3, <1>4, <2>2, <2>3, <2>4, Zenon
<1>6. CASE queued > 0
  <2>1. speaking' = TRUE
    BY <1>1, <1>6, Zenon
  <2>2. LastIs(commands', "speak") /\ LastIs(events', TRUE)
    BY <1>2, <1>6
  <2> QED
    BY <1>1, <1>2, <1>3, <1>4, <2>1, <2>2, Zenon
<1> QED
  BY <1>5, <1>6

LEMMA ToldStep == VoiceInv /\ Told => VoiceInv'
<1> SUFFICES ASSUME VoiceInv, Told PROVE VoiceInv'
  OBVIOUS
<1> USE DEF VoiceInv, VoiceTypeOK, OnItsWay, Heard
<1>1. /\ events # <<>> /\ shown' = Head(events) /\ events' = Tail(events)
      /\ UNCHANGED <<queued, speaking, commands, engine, reports, returns>>
  BY DEF Told
<1>2. /\ Tail(events) \in Seq(BOOLEAN) /\ Head(events) \in BOOLEAN
      /\ Tail(events) = <<>> => LastIs(events, Head(events))
      /\ Tail(events) # <<>> => LastIs(Tail(events), speaking)
  BY <1>1, Shortened
<1>3. Tail(events) = <<>> => Head(events) = speaking
  BY <1>1, <1>2 DEF LastIs
<1> QED
  BY <1>1, <1>2, <1>3

LEMMA TakesStep == VoiceInv /\ Takes => VoiceInv'
<1> SUFFICES ASSUME VoiceInv, Takes PROVE VoiceInv'
  OBVIOUS
<1> USE DEF VoiceInv, VoiceTypeOK, OnItsWay, Heard
<1>1. /\ commands # <<>> /\ commands' = Tail(commands)
      /\ UNCHANGED <<queued, speaking, reports, events, shown>>
  BY DEF Takes
<1>2. /\ Tail(commands) \in Seq({"speak", "stop"})
      /\ Tail(commands) = <<>> => LastIs(commands, Head(commands))
      /\ \A e : Tail(commands) # <<>> /\ LastIs(commands, e) => LastIs(Tail(commands), e)
  BY <1>1, Shortened
<1>3. /\ engine' \in {"silent", "playing"} /\ returns' \in Nat
      /\ Head(commands) = "speak" => engine' = "playing"
  BY DEF Takes
<1>4. OnItsWay'
  <2>1. Tail(commands) = <<>> /\ LastIs(commands, "speak") => Head(commands) = "speak"
    BY <1>2 DEF LastIs
  <2> QED
    BY <1>1, <1>2, <1>3, <2>1
<1> QED
  BY <1>1, <1>2, <1>3, <1>4

LEMMA VoiceStep ==
    ASSUME VoiceInv, Speak \/ Stop \/ VoiceNext \/ UNCHANGED voiceVars
    PROVE  VoiceInv'
<1>1. CASE StopReturns
  <2>1. /\ returns' = returns - 1 /\ returns > 0 /\ shown' = FALSE
        /\ UNCHANGED <<queued, speaking, commands, engine, reports, events>>
    BY <1>1 DEF StopReturns
  <2>2. returns' \in Nat
    BY <2>1 DEF VoiceInv, VoiceTypeOK
  <2>3. LastIs(commands, "speak") => LastIs(commands', "speak")
    BY <2>1 DEF LastIs
  <2>4. LastIs(events, speaking) => LastIs(events', speaking')
    BY <2>1 DEF LastIs
  <2> QED
    BY <2>1, <2>2, <2>3, <2>4, Zenon DEF VoiceInv, VoiceTypeOK, OnItsWay, Heard
<1>2. CASE Ends
  BY <1>2 DEF Ends, VoiceInv, VoiceTypeOK, OnItsWay, Heard, LastIs
<1>3. CASE UNCHANGED voiceVars
  BY <1>3 DEF voiceVars, VoiceInv, VoiceTypeOK, OnItsWay, Heard, LastIs
<1> QED
  BY <1>1, <1>2, <1>3, SpeakStep, StopStep, CompletedStep, ToldStep, TakesStep DEF VoiceNext

LEMMA VoiceInvImplies == VoiceInv => NothingStranded
<1> SUFFICES ASSUME VoiceInv PROVE NothingStranded
  OBVIOUS
<1>1. LastIs(commands, "speak") => \E i \in 1 .. Len(commands) : commands[i] = "speak"
  BY DEF LastIs, VoiceInv, VoiceTypeOK
<1> QED
  BY <1>1 DEF VoiceInv, OnItsWay, Heard, NothingStranded, EndToCome

-----------------------------------------------------------------------------
(* The app.                                                                *)

Inv == LinkInv /\ VoiceInv /\ ScreenInv

LEMMA InvInit == Init => Inv
<1> SUFFICES ASSUME Init PROVE Inv
  OBVIOUS
<1>1. LinkInv
  BY LinkInvInit DEF Init
<1>2. VoiceInv
  <2>1. /\ queued = 0 /\ reports = 0 /\ returns = 0
        /\ speaking = FALSE /\ shown = FALSE
        /\ commands = <<>> /\ events = <<>> /\ engine = "silent"
    BY DEF Init, VoiceInit
  <2>2. ~(queued > 0) /\ {reports, returns} \subseteq Nat /\ queued \in Nat
    BY <2>1
  <2>3. commands \in Seq({"speak", "stop"}) /\ events \in Seq(BOOLEAN)
    BY <2>1
  <2> QED
    BY <2>1, <2>2, <2>3, Zenon DEF VoiceInv, VoiceTypeOK, OnItsWay, Heard
<1>3. ScreenInv
  BY DEF Init, ScreenInit, ScreenInv, ScreenTypeOK, WaitIsTimed
<1> QED
  BY <1>1, <1>2, <1>3 DEF Inv

\* Each part of the app keeps its part of the invariant, whatever the others do.
LEMMA Step == Inv /\ [Next]_vars => Inv'
<1> SUFFICES ASSUME Inv, [Next]_vars PROVE Inv'
  OBVIOUS
<1>1. LinkNext \/ UNCHANGED linkVars
  BY DEF Next, Link, Voice, Receive, vars
<1>2. Speak \/ Stop \/ VoiceNext \/ UNCHANGED voiceVars
  BY DEF Next, Link, Voice, VoiceButton, Receive, MaySpeak, vars
<1>3. Screen \/ Receive \/ UNCHANGED screenVars
  BY DEF Next, Link, Voice, vars
<1> QED
  BY <1>1, <1>2, <1>3, LinkStep, VoiceStep, ScreenStep DEF Inv

LEMMA InvAlways == Spec => []Inv
  BY InvInit, Step, PTL DEF Spec

\* Every reachable state of the app is well typed.
THEOREM TypeCorrect == Spec => []TypeOK
<1>1. Inv => TypeOK
  BY DEF Inv, LinkInv, VoiceInv, ScreenInv, TypeOK
<1> QED
  BY <1>1, InvAlways, PTL

\* In whatever order attempts fail, connections end and timers fire, the app
\* has exactly one of them going until disconnect is called.
THEOREM OneLinkHolds == Spec => []OneLink
<1>1. Inv => OneLink
  BY LinkInvImplies DEF Inv
<1> QED
  BY <1>1, InvAlways, PTL

\* After disconnect there is no timer and no connection, also when an attempt
\* succeeded or failed while disconnect waited.
THEOREM NothingLeftHolds == Spec => []NothingLeft
<1>1. Inv => NothingLeft
  BY LinkInvImplies DEF Inv
<1> QED
  BY <1>1, InvAlways, PTL

\* No utterance is stranded, the flag never stays set for nothing, and the
\* button does not show speech that is over.
THEOREM NothingStrandedHolds == Spec => []NothingStranded
<1>1. Inv => NothingStranded
  BY VoiceInvImplies DEF Inv
<1> QED
  BY <1>1, InvAlways, PTL

\* A wait that began on the camera screen that is mounted always has its timer.
THEOREM WaitIsTimedHolds == Spec => []WaitIsTimed
<1>1. Inv => WaitIsTimed
  BY DEF Inv, ScreenInv
<1> QED
  BY <1>1, InvAlways, PTL
===============================================================================
