----------------------------- MODULE Connections -----------------------------
(***************************************************************************)
(* The life of the WebSocket connections of WSHandler: admission, the      *)
(* counters and the registry, the read loop with its calls and writes, the *)
(* ping goroutine, the deferred clean-up, and CloseAll at shutdown.        *)
(*                                                                         *)
(* One element of Conn is one connection, served by one run of Handle.     *)
(* phase[c] names the step its goroutine takes next.  What the peer and    *)
(* the network do is client[c]:                                            *)
(*    alive    reads, and answers every ping with a pong                   *)
(*    stalled  keeps the TCP connection open and does not read             *)
(*    lost     went away without a word: nothing arrives any more          *)
(*    gone     the connection is closed or reset, and the server can see it *)
(***************************************************************************)
EXTENDS Integers, FiniteSets

CONSTANTS
    Conn,        \* connections that are opened during the server's life
    IP,          \* remote addresses
    Limit,       \* maxConnsPerIP
    Stallable,   \* the connections whose client may stop reading
    Losable,     \* the connections whose client may be lost or disconnect
    NoConn       \* "no connection" for the sweep

ASSUME ConnectionsAssumption ==
    /\ IsFiniteSet(Conn)
    /\ Stallable \subseteq Conn /\ Losable \subseteq Conn
    /\ NoConn \notin Conn
    /\ Limit \in Nat \ {0}

VARIABLES
    addr,      \* the address a connection comes from
    phase,     \* the step Handle takes next
    client,    \* the state of the peer
    late,      \* the read deadline has passed
    sock,      \* the server's end: "open", "wfailed" after a write timed out, "closed"
    wmu,       \* who holds safeConn.mu: "free", "loop", "ping" or "sweep"
    ping,      \* the ping goroutine
    ipCount,   \* ipConnTracker.conns
    active,    \* WSHandler.activeConns
    gauge,     \* metrics.WsActiveConnections
    reg,       \* WSHandler.conns
    listening, \* the server accepts connections
    sweep,     \* where CloseAll is; it holds connsMu in "next", "lock" and "write"
    todo,      \* connections CloseAll has still to visit
    cur,       \* the connection CloseAll is at
    \* History, read by the properties only:
    failed,    \* connections whose session could not be created
    tracked    \* connections in the registry when CloseAll began

counters == <<ipCount, active, gauge>>
peer == <<client, late, sock>>
closeAll == <<sweep, todo, cur, tracked>>
vars == <<addr, phase, peer, wmu, ping, counters, reg, listening, closeAll, failed>>

Setup == {"count", "gauge", "register", "create"}
Serving == {"read", "call", "write"}
\* The read loop has ended and close(done) has run.
Leaving == {"delete", "uncount", "ungauge", "release", "deregister"}
Over == {"rejected", "done"}
Phase == {"new"} \cup Setup \cup Serving \cup Leaving \cup Over

\* The phases in which a connection is in ipConns, activeConns, the gauge and conns.
Admitted == Setup \cup Serving \cup {"delete", "uncount", "ungauge", "release"}
Counted == {"gauge", "register", "create"} \cup Serving \cup {"delete", "uncount"}
Gauged == {"register", "create"} \cup Serving \cup {"delete", "uncount", "ungauge"}
Registered == {"create"} \cup Serving \cup Leaving

In(phases) == {c \in Conn : phase[c] \in phases}
From(ip) == {c \in Conn : addr[c] = ip}

TypeOK ==
    /\ addr \in [Conn -> IP]
    /\ phase \in [Conn -> Phase]
    /\ client \in [Conn -> {"alive", "stalled", "lost", "gone"}]
    /\ late \in [Conn -> BOOLEAN]
    /\ sock \in [Conn -> {"open", "wfailed", "closed"}]
    /\ wmu \in [Conn -> {"free", "loop", "ping", "sweep"}]
    /\ ping \in [Conn -> {"none", "wait", "lock", "write", "ended"}]
    /\ ipCount \in [IP -> Nat]
    /\ active \in Int
    /\ gauge \in Int
    /\ reg \subseteq Conn
    /\ listening \in BOOLEAN
    /\ sweep \in {"idle", "next", "lock", "write", "ended"}
    /\ todo \subseteq Conn
    /\ cur \in Conn \cup {NoConn}
    /\ sweep \in {"lock", "write"} => cur \in Conn
    /\ failed \subseteq Conn
    /\ tracked \subseteq Conn

Init ==
    /\ addr \in [Conn -> IP]
    /\ phase = [c \in Conn |-> "new"]
    /\ client = [c \in Conn |-> "alive"]
    /\ late = [c \in Conn |-> FALSE]
    /\ sock = [c \in Conn |-> "open"]
    /\ wmu = [c \in Conn |-> "free"]
    /\ ping = [c \in Conn |-> "none"]
    /\ ipCount = [ip \in IP |-> 0]
    /\ active = 0
    /\ gauge = 0
    /\ reg = {}
    /\ listening = TRUE
    /\ sweep = "idle" /\ todo = {} /\ cur = NoConn
    /\ failed = {} /\ tracked = {}

Goto(c, from, to) == phase[c] = from /\ phase' = [phase EXCEPT ![c] = to]

\* Mutant: CloseAll returns with connsMu locked.
ConnsFreeBeforeSweep == sweep = "idle"

\* connsMu is free: register and deregister hold it for one step only.
ConnsFree == sweep \in {"idle", "ended"}

-----------------------------------------------------------------------------
(* Handle, up to the read loop.                                            *)

BelowLimit(ip) == ipCount[ip] < Limit

\* ipConnTracker.add: the check and the increment under one lock.
Accept(c) ==
    /\ listening
    /\ BelowLimit(addr[c])
    /\ Goto(c, "new", "count")
    /\ ipCount' = [ipCount EXCEPT ![addr[c]] = @ + 1]
    /\ UNCHANGED <<addr, peer, wmu, ping, active, gauge, reg, listening, closeAll, failed>>

Reject(c) ==
    /\ listening
    /\ ~BelowLimit(addr[c])
    /\ Goto(c, "new", "rejected")
    /\ sock' = [sock EXCEPT ![c] = "closed"]
    /\ UNCHANGED <<addr, client, late, wmu, ping, counters, reg, listening, closeAll, failed>>

Count(c) ==
    /\ Goto(c, "count", "gauge")
    /\ active' = active + 1
    /\ UNCHANGED <<addr, peer, wmu, ping, ipCount, gauge, reg, listening, closeAll, failed>>

GaugeInc(c) ==
    /\ Goto(c, "gauge", "register")
    /\ gauge' = gauge + 1
    /\ UNCHANGED <<addr, peer, wmu, ping, ipCount, active, reg, listening, closeAll, failed>>

Register(c) ==
    /\ ConnsFree
    /\ Goto(c, "register", "create")
    /\ reg' = reg \cup {c}
    /\ UNCHANGED <<addr, peer, wmu, ping, counters, listening, closeAll, failed>>

\* CreateSession succeeds: the ping goroutine is started and the loop entered.
Serve(c) ==
    /\ Goto(c, "create", "read")
    /\ ping' = [ping EXCEPT ![c] = "wait"]
    /\ UNCHANGED <<addr, peer, wmu, counters, reg, listening, closeAll, failed>>

\* Mutant: the failure path returns without undoing anything.
CreateFailsQuietly(c) ==
    /\ Goto(c, "create", "done")
    /\ failed' = failed \cup {c}
    /\ UNCHANGED <<addr, peer, wmu, ping, counters, reg, listening, closeAll>>

\* CreateSession fails (the user's quota): Handle undoes what it did, except
\* the gauge, which only the deferred clean-up decrements.
CreateFails(c) ==
    /\ Goto(c, "create", "uncount")
    /\ failed' = failed \cup {c}
    /\ UNCHANGED <<addr, peer, wmu, ping, counters, reg, listening, closeAll>>

-----------------------------------------------------------------------------
(* The read loop.                                                          *)

\* A frame or a text leads to a call of the AI backend; a refused one, or an
\* application ping, to an immediate answer.  (Messages that are dropped
\* without an answer change nothing.)  A message that is in the connection's
\* buffer already is read even after the deadline.
Receive(c) ==
    /\ client[c] \in {"alive", "stalled"}
    /\ sock[c] # "closed"
    /\ \/ Goto(c, "read", "call")
       \/ Goto(c, "read", "write")
    /\ UNCHANGED <<addr, peer, wmu, ping, counters, reg, listening, closeAll, failed>>

\* The backend answers, fails or times out; connCtx is cancelled by a defer of
\* this same goroutine, never during the call.
CallReturns(c) ==
    /\ Goto(c, "call", "write")
    /\ UNCHANGED <<addr, peer, wmu, ping, counters, reg, listening, closeAll, failed>>

\* ReadJSON returns an error: the peer or CloseAll closed the connection, or
\* the deadline has passed.  close(done) runs first.
ReadFails(c) ==
    /\ client[c] = "gone" \/ late[c] \/ sock[c] = "closed"
    /\ Goto(c, "read", "delete")
    /\ UNCHANGED <<addr, peer, wmu, ping, counters, reg, listening, closeAll, failed>>

\* safeConn.mu is taken for a write.
LoopLocks(c) ==
    /\ phase[c] = "write" /\ wmu[c] = "free"
    /\ wmu' = [wmu EXCEPT ![c] = "loop"]
    /\ UNCHANGED <<addr, phase, peer, ping, counters, reg, listening, closeAll, failed>>

\* A write without a deadline has to return: there is somebody to take the
\* bytes, or it fails at once.
Returns(c) == client[c] \in {"alive", "gone"} \/ sock[c] # "open"

\* Mutant: an error returns without the unlock.
LoopWroteNoUnlock(c) ==
    /\ wmu[c] = "loop"
    /\ wmu' = [wmu EXCEPT ![c] = IF client[c] = "gone" THEN @ ELSE "free"]
    /\ Goto(c, "write", "read")
    /\ UNCHANGED <<addr, peer, ping, counters, reg, listening, closeAll, failed>>

\* writeJSON returns; an error is logged and the loop goes on reading.
LoopWrote(c) ==
    /\ wmu[c] = "loop"
    /\ wmu' = [wmu EXCEPT ![c] = "free"]
    /\ Goto(c, "write", "read")
    /\ UNCHANGED <<addr, peer, ping, counters, reg, listening, closeAll, failed>>

-----------------------------------------------------------------------------
(* The deferred clean-up, and the failure path of CreateSession.           *)

DeleteSession(c) ==
    /\ Goto(c, "delete", "uncount")
    /\ UNCHANGED <<addr, peer, wmu, ping, counters, reg, listening, closeAll, failed>>

Uncount(c) ==
    /\ Goto(c, "uncount", IF c \in failed THEN "release" ELSE "ungauge")
    /\ active' = active - 1
    /\ UNCHANGED <<addr, peer, wmu, ping, ipCount, gauge, reg, listening, closeAll, failed>>

GaugeDec(c) ==
    /\ Goto(c, "ungauge", "release")
    /\ gauge' = gauge - 1
    /\ UNCHANGED <<addr, peer, wmu, ping, ipCount, active, reg, listening, closeAll, failed>>

\* ipConnTracker.remove.
Release(c) ==
    /\ Goto(c, "release", "deregister")
    /\ ipCount' = [ipCount EXCEPT ![addr[c]] = IF @ > 0 THEN @ - 1 ELSE @]
    /\ UNCHANGED <<addr, peer, wmu, ping, active, gauge, reg, listening, closeAll, failed>>

\* Mutant: the entry is deleted without connsMu.
DeregisterUnlocked(c) ==
    /\ Goto(c, "deregister", "done")
    /\ reg' = reg \ {c}
    /\ sock' = [sock EXCEPT ![c] = "closed"]
    /\ UNCHANGED <<addr, client, late, wmu, ping, counters, listening, closeAll, failed>>

\* The last step of Handle: the library then closes the connection.
Deregister(c) ==
    /\ ConnsFree
    /\ Goto(c, "deregister", "done")
    /\ reg' = reg \ {c}
    /\ sock' = [sock EXCEPT ![c] = "closed"]
    /\ UNCHANGED <<addr, client, late, wmu, ping, counters, listening, closeAll, failed>>

-----------------------------------------------------------------------------
(* pingLoop.                                                               *)

PingGoto(c, from, to) == ping[c] = from /\ ping' = [ping EXCEPT ![c] = to]

\* The ticker's case of the select; it may be chosen although done is closed.
PingTick(c) ==
    /\ PingGoto(c, "wait", "lock")
    /\ UNCHANGED <<addr, phase, peer, wmu, counters, reg, listening, closeAll, failed>>

\* done is closed.
DoneClosed(c) == phase[c] \in Leaving \cup {"done"}

PingDone(c) ==
    /\ DoneClosed(c)
    /\ PingGoto(c, "wait", "ended")
    /\ UNCHANGED <<addr, phase, peer, wmu, counters, reg, listening, closeAll, failed>>

PingLocks(c) ==
    /\ wmu[c] = "free"
    /\ wmu' = [wmu EXCEPT ![c] = "ping"]
    /\ PingGoto(c, "lock", "write")
    /\ UNCHANGED <<addr, phase, peer, counters, reg, listening, closeAll, failed>>

PingSent(c) ==
    /\ client[c] # "gone" /\ sock[c] = "open"
    /\ wmu' = [wmu EXCEPT ![c] = "free"]
    /\ PingGoto(c, "write", "wait")
    /\ UNCHANGED <<addr, phase, peer, counters, reg, listening, closeAll, failed>>

\* The write fails, after writeWait at the latest; the connection accepts no
\* further write.
PingFails(c) ==
    /\ client[c] # "alive" \/ sock[c] # "open"
    /\ wmu' = [wmu EXCEPT ![c] = "free"]
    /\ PingGoto(c, "write", "ended")
    /\ sock' = [sock EXCEPT ![c] = IF @ = "open" THEN "wfailed" ELSE @]
    /\ UNCHANGED <<addr, phase, client, late, counters, reg, listening, closeAll, failed>>

-----------------------------------------------------------------------------
(* CloseAll and the rest of the shutdown.                                  *)

SweepStart ==
    /\ sweep = "idle"
    /\ sweep' = "next"
    /\ todo' = reg
    /\ tracked' = reg
    /\ UNCHANGED <<addr, phase, peer, wmu, ping, counters, reg, listening, cur, failed>>

SweepNext ==
    /\ sweep = "next"
    /\ \E c \in todo : cur' = c /\ todo' = todo \ {c}
    /\ sweep' = "lock"
    /\ UNCHANGED <<addr, phase, peer, wmu, ping, counters, reg, listening, tracked,
                   failed>>

SweepLocks ==
    /\ sweep = "lock"
    /\ wmu[cur] = "free"
    /\ wmu' = [wmu EXCEPT ![cur] = "sweep"]
    /\ sweep' = "write"
    /\ UNCHANGED <<addr, phase, peer, ping, counters, reg, listening, todo, cur,
                   tracked, failed>>

\* Mutant: the close frame is sent and the connection left open.
FrameOnly(c) == UNCHANGED sock

\* writeClose: the frame (its failure is ignored), then Close.
Shut(c) == sock' = [sock EXCEPT ![c] = "closed"]

SweepWrote ==
    /\ sweep = "write"
    /\ Shut(cur)
    /\ wmu' = [wmu EXCEPT ![cur] = "free"]
    /\ sweep' = "next"
    /\ UNCHANGED <<addr, phase, client, late, ping, counters, reg, listening, todo, cur,
                   tracked, failed>>

SweepEnd ==
    /\ sweep = "next" /\ todo = {}
    /\ sweep' = "ended"
    /\ UNCHANGED <<addr, phase, peer, wmu, ping, counters, reg, listening, todo, cur,
                   tracked, failed>>

\* app.ShutdownWithTimeout closes the listener, after CloseAll and a pause.
StopListening ==
    /\ sweep = "ended"
    /\ listening
    /\ listening' = FALSE
    /\ UNCHANGED <<addr, phase, peer, wmu, ping, counters, reg, closeAll, failed>>

-----------------------------------------------------------------------------
(* The peer, the network and the clock.                                    *)

Open(c) == phase[c] \notin {"new"} \cup Over

Stall(c) ==
    /\ c \in Stallable /\ Open(c)
    /\ client[c] = "alive"
    /\ client' = [client EXCEPT ![c] = "stalled"]
    /\ UNCHANGED <<addr, phase, late, sock, wmu, ping, counters, reg, listening, closeAll, failed>>

ReadsAgain(c) ==
    /\ client[c] = "stalled"
    /\ client' = [client EXCEPT ![c] = "alive"]
    /\ UNCHANGED <<addr, phase, late, sock, wmu, ping, counters, reg, listening, closeAll, failed>>

Lose(c) ==
    /\ c \in Losable /\ Open(c)
    /\ client[c] \in {"alive", "stalled"}
    /\ client' = [client EXCEPT ![c] = "lost"]
    /\ UNCHANGED <<addr, phase, late, sock, wmu, ping, counters, reg, listening, closeAll, failed>>

Disconnect(c) ==
    /\ c \in Losable /\ Open(c)
    /\ client[c] \in {"alive", "stalled"}
    /\ client' = [client EXCEPT ![c] = "gone"]
    /\ UNCHANGED <<addr, phase, late, sock, wmu, ping, counters, reg, listening, closeAll, failed>>

\* TCP gives up on bytes a lost peer does not acknowledge.
GiveUp(c) ==
    /\ client[c] = "lost" /\ wmu[c] # "free"
    /\ client' = [client EXCEPT ![c] = "gone"]
    /\ UNCHANGED <<addr, phase, late, sock, wmu, ping, counters, reg, listening, closeAll, failed>>

\* Mutant: no read deadline is set.
NoDeadline(c) == FALSE

\* The pong handler, which moves the deadline, runs inside ReadJSON only: it
\* cannot for a peer that sends no pong, nor during a call of the backend.
DeadlineMayPass(c) == client[c] # "alive" \/ phase[c] = "call"

Deadline(c) ==
    /\ phase[c] \in Serving
    /\ DeadlineMayPass(c)
    /\ ~late[c]
    /\ late' = [late EXCEPT ![c] = TRUE]
    /\ UNCHANGED <<addr, phase, client, sock, wmu, ping, counters, reg, listening, closeAll, failed>>

-----------------------------------------------------------------------------
Arrive(c) == Accept(c) \/ Reject(c)

Enter(c) == Count(c) \/ GaugeInc(c) \/ Register(c) \/ Serve(c) \/ CreateFails(c)

Loop(c) == Receive(c) \/ CallReturns(c) \/ ReadFails(c) \/ LoopLocks(c) \/ LoopWrote(c)

CleanUp(c) ==
    DeleteSession(c) \/ Uncount(c) \/ GaugeDec(c) \/ Release(c) \/ Deregister(c)

Handle(c) == Arrive(c) \/ Enter(c) \/ Loop(c) \/ CleanUp(c)

PingLoop(c) ==
    PingTick(c) \/ PingDone(c) \/ PingLocks(c) \/ PingSent(c) \/ PingFails(c)

CloseAll == SweepStart \/ SweepNext \/ SweepLocks \/ SweepWrote \/ SweepEnd

Environment(c) ==
    \/ Stall(c) \/ ReadsAgain(c) \/ Lose(c) \/ Disconnect(c) \/ GiveUp(c)
    \/ Deadline(c)

Next ==
    \/ \E c \in Conn : Handle(c) \/ PingLoop(c) \/ Environment(c)
    \/ CloseAll
    \/ StopListening

Spec == Init /\ [][Next]_vars

\* What the handler's goroutine does without waiting for a message, for the
\* backend, for safeConn.mu, or for a peer to take bytes.
Proceed(c) ==
    Enter(c) \/ ReadFails(c) \/ (LoopWrote(c) /\ Returns(c)) \/ CleanUp(c)

\* Goroutines that can take a step do; the timers of Go and of TCP fire.  A Go
\* mutex that is released again and again is not withheld for ever from one
\* who waits, and select does not ignore a closed channel for ever (strong
\* fairness).  No fairness for arrivals, for messages and for what the peer
\* does, and none for a write nobody takes.
ConnFairness(c) ==
    /\ WF_vars(Proceed(c))
    /\ SF_vars(LoopLocks(c))
    /\ WF_vars(PingTick(c) \/ PingDone(c) \/ PingSent(c) \/ PingFails(c))
    /\ SF_vars(PingDone(c))
    /\ SF_vars(PingLocks(c))
    /\ WF_vars(GiveUp(c) \/ Deadline(c))

SweepFairness ==
    /\ WF_vars(SweepNext \/ SweepEnd \/ (SweepWrote /\ Returns(cur)))
    /\ SF_vars(SweepLocks)

\* The backend may take as long as it likes.
SlowFairSpec == Spec /\ SweepFairness /\ \A c \in Conn : ConnFairness(c)

\* The backend answers, or its client times out.
FairSpec == SlowFairSpec /\ \A c \in Conn : WF_vars(CallReturns(c))

-----------------------------------------------------------------------------
(* Properties.                                                             *)

\* Whatever fails and whatever interleaves, the three counters and the
\* registry hold exactly the connections that are between their entry and
\* their exit; the gauge also keeps every connection whose session could not
\* be created.  In particular nothing stays behind when all have left, and
\* the guard of ipConnTracker.remove never has to stop a count at zero.
CountsExact ==
    /\ \A ip \in IP : ipCount[ip] = Cardinality(In(Admitted) \cap From(ip))
    /\ active = Cardinality(In(Counted))
    /\ gauge = Cardinality(In(Gauged) \cup failed)
    /\ reg = In(Registered)

\* No address ever has more than Limit connections between admission and exit.
IpLimit ==
    \A ip \in IP : Cardinality(In(Admitted) \cap From(ip)) <= Limit

\* CloseAll works on a copy of pointers while handlers leave: it never waits
\* for, or writes to, a connection whose Handle has returned (the library may
\* have given the connection object to somebody else by then).
SweepOnlyOpen ==
    sweep \in {"lock", "write"} => phase[cur] \in Registered

\* When CloseAll has returned, every connection that was in the registry when
\* it began is closed, also those that wrote, pinged or left in between.
SweepCloses ==
    sweep = "ended" => \A c \in tracked : sock[c] = "closed"

\* Who waits for whom: for safeConn.mu of a connection, which its read loop,
\* its ping goroutine and CloseAll lock, or for connsMu, which CloseAll keeps
\* while it waits for the other one.
Sweep == <<"sweep", NoConn>>

Holder(c) == IF wmu[c] = "sweep" THEN Sweep ELSE <<wmu[c], c>>

Waits ==
    {<<<<"loop", c>>, Holder(c)>> :
         c \in {d \in Conn : phase[d] = "write" /\ wmu[d] \notin {"free", "loop"}}}
    \cup {<<<<"ping", c>>, Holder(c)>> :
         c \in {d \in Conn : ping[d] = "lock" /\ wmu[d] # "free"}}
    \cup {<<Sweep, Holder(c)>> :
         c \in {d \in Conn : sweep = "lock" /\ d = cur /\ wmu[d] # "free"}}
    \cup {<<<<"loop", c>>, Sweep>> :
         c \in {d \in Conn : phase[d] \in {"register", "deregister"} /\ ~ConnsFree}}

\* No deadlock: a chain of goroutines that wait for each other has at most two
\* links, a handler that leaves and CloseAll, and whoever holds a write mutex
\* is at a write, whatever happened to earlier writes.
NoWaitCycle ==
    /\ \A w, v, u \in Waits : ~(w[2] = v[1] /\ v[2] = u[1])
    /\ \A c \in Conn : /\ wmu[c] = "loop" => phase[c] = "write"
                       /\ wmu[c] = "ping" => ping[c] = "write"
                       /\ wmu[c] = "sweep" => sweep = "write" /\ cur = c

\* The steps CloseAll has before it, for the connections it has to visit.
SweepLeft ==
    CASE sweep = "next"  -> 3 * Cardinality(todo) + 1
      [] sweep = "lock"  -> 3 * Cardinality(todo) + 3
      [] sweep = "write" -> 3 * Cardinality(todo) + 2
      [] OTHER           -> 0

\* CloseAll comes nearer to its end with each of its steps, whoever arrives,
\* leaves, pings or writes meanwhile.
SweepShortens ==
    [][(sweep \in {"next", "lock", "write"}) =>
           SweepLeft' < SweepLeft \/ UNCHANGED closeAll]_vars

\* CloseAll, which keeps connsMu, is at a client that does not read.
SweepStuck == ~ConnsFree /\ cur \in Conn /\ client[cur] = "stalled"

\* The handler of a client that went away, with or without a word, and any
\* handler that is on its way out, ends and gives every counter back.  It may
\* meet CloseAll there, which holds connsMu and waits for writers; only if
\* CloseAll is stuck at a client that does not read does it wait with it.
HandlerEnds ==
    \A c \in Conn : (client[c] \in {"lost", "gone"} \/ phase[c] \in Leaving)
                        ~> (phase[c] = "done" \/ SweepStuck)

\* The ping goroutine does not outlive its connection for ever.
PingEnds ==
    \A c \in Conn : (phase[c] = "done") ~> (ping[c] \in {"none", "ended"})

\* CloseAll returns, so that the shutdown goes on: nothing but a client that
\* does not read can hold it up.
ShutdownProceeds == (sweep = "next") ~> (sweep = "ended" \/ SweepStuck)

-----------------------------------------------------------------------------
(* What comments and documents say, and the code does not do.  The first  *)
(* has a run that shows it; the README tells how to see the others.        *)

\* WEBSOCKET_PROTOCOL.md: the server closes the connection of a client that
\* does not answer pings.  One that does is served until CloseAll closes it.
ResponsiveKept ==
    [][\A c \in Conn : (phase[c] = "read" /\ phase'[c] = "delete" /\ client[c] = "alive")
                           => sock[c] = "closed"]_vars

\* API.md on the shutdown: close frames, a grace period, a limit of ten
\* seconds, exit; whatever the clients do, CloseAll comes to its end.
ShutdownBounded == (sweep = "next") ~> (sweep = "ended")

\* metrics.go: "Number of currently active WebSocket connections".
GaugeIsOpenConnections ==
    (\A c \in Conn : phase[c] \in {"new"} \cup Over) => gauge = 0

\* websocket_handler.go on the ping goroutine: a client that does not answer
\* has its connection closed and all resources freed.
SilentClientFreed ==
    \A c \in Conn : (client[c] = "stalled") ~> (phase[c] = "done" \/ client[c] # "stalled")

\* websocket_handler.go on connCtx: calls are cancelled when the client disconnects.
DisconnectEndsCall ==
    \A c \in Conn : (phase[c] = "call" /\ client[c] = "gone") ~> (phase[c] # "call")

\* websocket_handler.go on pingLoop: it sends pings "until done is closed".
NoPingAfterDone ==
    [][\A c \in Conn : (ping[c] = "lock" /\ ping'[c] = "write") => ~DoneClosed(c)]_vars
=============================================================================
