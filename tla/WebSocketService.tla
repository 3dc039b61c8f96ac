--------------------------- MODULE WebSocketService ---------------------------
(***************************************************************************)
(* The connection of the app to the server (WebSocketService in Dart):     *)
(* connect(), its continuation after the await, the stream's onDone, the   *)
(* reconnect timer and disconnect().                                       *)
(*                                                                         *)
(* Dart runs one piece of code at a time; pieces are separated by awaits,  *)
(* timers and stream events.  The channel objects of web_socket_channel    *)
(* are external: connecting, then up or failed, and down when either side  *)
(* has closed; once up, a channel reports no errors, only its end.  How    *)
(* long the timer runs is not modelled.                                    *)
(***************************************************************************)
EXTENDS Integers, FiniteSets

CONSTANTS
    Chan,      \* channel objects; one that is over and forgotten is used again
    NoChan     \* null

ASSUME WebSocketServiceAssumption == Chan # {} /\ NoChan \notin Chan

VARIABLES
    chan,      \* what a channel's connection is doing
    closing,   \* channels whose sink was closed by disconnect
    awaiting,  \* channels whose connect() waits for ready
    listened,  \* channels with a subscription that may still call onDone
    link,      \* _channel
    sub,       \* the channel _subscription belongs to
    timers,    \* pending reconnect timers; _reconnectTimer is the last
    disposed,  \* _disposed
    leaving    \* where disconnect() is

linkVars == <<chan, closing, awaiting, listened, link, sub, timers, disposed, leaving>>

Live == {"connecting", "up", "cut"}

LinkTypeOK ==
    /\ chan \in [Chan -> Live \cup {"none", "failed", "down"}]
    /\ closing \subseteq Chan
    /\ awaiting \subseteq Chan
    /\ listened \subseteq Chan
    /\ {link, sub} \subseteq Chan \cup {NoChan}
    /\ timers \in Nat
    /\ disposed \in BOOLEAN
    /\ leaving \in {"no", "subscription", "sink", "done"}

\* The provider has created the service and called connect().
LinkInit ==
    /\ link = CHOOSE c \in Chan : TRUE
    /\ chan = [c \in Chan |-> IF c = link THEN "connecting" ELSE "none"]
    /\ closing = {} /\ awaiting = {link} /\ listened = {}
    /\ sub = NoChan
    /\ timers = 0
    /\ disposed = FALSE
    /\ leaving = "no"

-----------------------------------------------------------------------------
(* Connecting.                                                             *)

Unused == {c \in Chan : chan[c] = "none" /\ c \notin awaiting \cup listened \cup closing}

\* connect(), up to the await.
Connect(c) ==
    /\ chan' = [chan EXCEPT ![c] = "connecting"]
    /\ link' = c
    /\ awaiting' = awaiting \cup {c}
    /\ UNCHANGED <<closing, listened, sub, disposed, leaving>>

\* The callback of the timer.
TimerFires ==
    /\ timers > 0
    /\ timers' = timers - 1
    /\ \/ ~disposed /\ Unused # {} /\ Connect(CHOOSE c \in Unused : TRUE)
       \/ disposed /\ UNCHANGED <<chan, closing, awaiting, listened, link, sub, disposed, leaving>>

\* Mutant: onError and onDone both call it for one failure.
ScheduleTwice == timers' = IF disposed THEN timers ELSE timers + 2

\* _scheduleReconnect.
ScheduleReconnect == timers' = IF disposed THEN timers ELSE timers + 1

\* ready has completed: listen.
Ready(c) ==
    /\ c \in awaiting
    /\ chan[c] \in {"up", "cut", "down"}
    /\ awaiting' = awaiting \ {c}
    /\ listened' = listened \cup {c}
    /\ sub' = c
    /\ UNCHANGED <<chan, closing, link, timers, disposed, leaving>>

\* Mutant: the catch branch gives up.
ConnectFailsQuietly(c) ==
    /\ c \in awaiting
    /\ chan[c] = "failed"
    /\ awaiting' = awaiting \ {c}
    /\ chan' = [chan EXCEPT ![c] = "none"]
    /\ closing' = closing \ {c}
    /\ UNCHANGED <<listened, link, sub, timers, disposed, leaving>>

\* ready has failed: the catch branch.
ConnectFails(c) ==
    /\ c \in awaiting
    /\ chan[c] = "failed"
    /\ awaiting' = awaiting \ {c}
    /\ chan' = [chan EXCEPT ![c] = "none"]
    /\ closing' = closing \ {c}
    /\ ScheduleReconnect
    /\ UNCHANGED <<listened, link, sub, disposed, leaving>>

\* onDone.
Done(c) ==
    /\ c \in listened
    /\ chan[c] = "down"
    /\ listened' = listened \ {c}
    /\ chan' = [chan EXCEPT ![c] = "none"]
    /\ closing' = closing \ {c}
    /\ ScheduleReconnect
    /\ UNCHANGED <<awaiting, link, sub, disposed, leaving>>

-----------------------------------------------------------------------------
(* disconnect(), a piece for each await.                                   *)

CancelLast == timers' = IF timers > 0 THEN timers - 1 ELSE 0

\* Mutant: _disposed is set at the end.
DisconnectUnmarked ==
    /\ leaving = "no"
    /\ CancelLast
    /\ listened' = listened \ {sub}
    /\ leaving' = "subscription"
    /\ UNCHANGED <<chan, closing, awaiting, link, sub, disposed>>

\* Up to the cancel of the subscription, which takes effect at once.
Disconnect ==
    /\ leaving = "no"
    /\ CancelLast
    /\ disposed' = TRUE
    /\ listened' = listened \ {sub}
    /\ leaving' = "subscription"
    /\ UNCHANGED <<chan, closing, awaiting, link, sub>>

\* The sink of the channel there is now is closed.
CloseSink ==
    /\ leaving = "subscription"
    /\ closing' = IF link = NoChan THEN closing ELSE closing \cup {link}
    /\ leaving' = "sink"
    /\ UNCHANGED <<chan, awaiting, listened, link, sub, timers, disposed>>

\* The two streams are closed.
CloseStreams ==
    /\ leaving = "sink"
    /\ link = NoChan \/ chan[link] \notin Live
    /\ leaving' = "done"
    /\ UNCHANGED <<chan, closing, awaiting, listened, link, sub, timers, disposed>>

-----------------------------------------------------------------------------
(* The channels.                                                           *)

Becomes(c, from, to) ==
    /\ chan[c] \in from
    /\ chan' = [chan EXCEPT ![c] = to]
    /\ UNCHANGED <<closing, awaiting, listened, link, sub, timers, disposed, leaving>>

Accepted(c) == Becomes(c, {"connecting"}, "up")
Refused(c)  == Becomes(c, {"connecting"}, "failed")

\* The connection is lost without a word; the app does not ping.
Cut(c) == Becomes(c, {"up"}, "cut")

\* The server closes, or TCP gives up bytes it could not deliver.
Ended(c) == Becomes(c, {"up", "cut"}, "down")

\* A closed sink ends the connection, at the latest after the library's five seconds.
SinkCloses(c) == c \in closing /\ Becomes(c, {"up", "cut"}, "down")

\* Nobody is told of the end of a channel whose subscription was cancelled.
Forgotten(c) ==
    /\ c \notin awaiting \cup listened
    /\ chan[c] \in {"failed", "down"}
    /\ chan' = [chan EXCEPT ![c] = "none"]
    /\ closing' = closing \ {c}
    /\ UNCHANGED <<awaiting, listened, link, sub, timers, disposed, leaving>>

Attempt == TimerFires \/ \E c \in Chan : Ready(c) \/ ConnectFails(c) \/ Done(c)

Leave == Disconnect \/ CloseSink \/ CloseStreams

Network ==
    \E c \in Chan :
        Accepted(c) \/ Refused(c) \/ Cut(c) \/ Ended(c) \/ SinkCloses(c) \/ Forgotten(c)

LinkNext == Attempt \/ Leave \/ Network

-----------------------------------------------------------------------------
(* Properties.                                                             *)

\* Failures, closes and timers arrive in any order, and still the app has one
\* thing going: an attempt, a connection it listens to, or a timer.  With none
\* it would stay offline; with two it would hold two connections, of which
\* disconnect and the send methods know one.
OneLink ==
    /\ ~disposed => Cardinality(awaiting) + Cardinality(listened) + timers = 1
    /\ \A c \in Chan : chan[c] \in Live => c = link

\* When disconnect has returned, whatever happened during its awaits, no
\* timer is left and no connection is open or will be opened.
NothingLeft ==
    leaving = "done" => timers = 0 /\ \A c \in Chan : chan[c] \notin Live

\* A connection whose end was noticed comes back, as long as the server can
\* be reached now and then and nobody disconnects.
BackOnline ==
    (chan[link] \in {"failed", "down"}) ~> (chan[link] \in {"up", "cut"} \/ disposed)
=============================================================================
