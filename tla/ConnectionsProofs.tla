-------------------------- MODULE ConnectionsProofs --------------------------
(***************************************************************************)
(* Proofs about Connections, for every set of connections and addresses:   *)
(* the counters and the registry are exact, no address exceeds its limit,  *)
(* CloseAll closes what was registered when it began and never touches a   *)
(* connection whose Handle has returned, and nobody waits in a circle.     *)
(***************************************************************************)
EXTENDS Connections, FiniteSetTheorems, TLAPS

\* The steps that move a connection's goroutine.
Move(c) ==
    \/ Accept(c) \/ Reject(c)
    \/ Count(c) \/ GaugeInc(c) \/ Register(c) \/ Serve(c) \/ CreateFails(c)
    \/ Receive(c) \/ CallReturns(c) \/ ReadFails(c) \/ LoopWrote(c)
    \/ DeleteSession(c) \/ Uncount(c) \/ GaugeDec(c) \/ Release(c) \/ Deregister(c)

\* The steps of everybody else.
Quiet == UNCHANGED <<addr, phase, counters, reg, failed>>

-----------------------------------------------------------------------------
(* Type correctness.                                                       *)

\* A counter of the per-IP table never becomes negative, because of the guard
\* of ipConnTracker.remove.
LEMMA NatPred == \A n \in Nat : (IF n > 0 THEN n - 1 ELSE n) \in Nat
OBVIOUS

\* A step of a connection's goroutine keeps every variable in its type.
LEMMA HandleTypes ==
    ASSUME NEW c \in Conn, TypeOK, Handle(c)
    PROVE  TypeOK'
<1>1. CASE Accept(c)
  BY <1>1, ConnectionsAssumption DEF TypeOK, Accept, Goto, BelowLimit, Phase, Setup, peer, closeAll
<1>2. CASE Reject(c)
  BY <1>2 DEF TypeOK, Reject, Goto, Phase, Over, peer, counters, closeAll
<1>3. CASE Enter(c)
  BY <1>3 DEF TypeOK, Enter, Count, GaugeInc, Register, Serve, CreateFails, Goto, Phase,
              Setup, Serving, Leaving, peer, counters, closeAll
<1>4. CASE Loop(c)
  BY <1>4 DEF TypeOK, Loop, Receive, CallReturns, ReadFails, LoopLocks, LoopWrote, Goto,
              Phase, Serving, Leaving, peer, counters, closeAll
<1>5. CASE DeleteSession(c) \/ Uncount(c) \/ GaugeDec(c)
  BY <1>5 DEF TypeOK, DeleteSession, Uncount, GaugeDec, Goto, Phase, Leaving, peer,
              counters, closeAll
<1>6. CASE Release(c)
  <2>1. ipCount' \in [IP -> Nat]
    BY <1>6, NatPred DEF TypeOK, Release
  <2> QED
    BY <1>6, <2>1 DEF TypeOK, Release, Goto, Phase, Leaving, peer, closeAll
<1>7. CASE Deregister(c)
  BY <1>7 DEF TypeOK, Deregister, Goto, Phase, Over, peer, counters, closeAll
<1> QED
  BY <1>1, <1>2, <1>3, <1>4, <1>5, <1>6, <1>7 DEF Handle, Arrive, CleanUp

\* Every step keeps every variable in its type.
LEMMA StepTypes == TypeOK /\ [Next]_vars => TypeOK'
<1> SUFFICES ASSUME TypeOK, [Next]_vars PROVE TypeOK'
  OBVIOUS
<1>1. ASSUME NEW c \in Conn, Handle(c) PROVE TypeOK'
  BY <1>1, HandleTypes
<1>2. ASSUME NEW c \in Conn, PingLoop(c) PROVE TypeOK'
  BY <1>2 DEF TypeOK, PingLoop, PingTick, PingDone, PingLocks, PingSent, PingFails,
              PingGoto, peer, counters, closeAll
<1>3. ASSUME NEW c \in Conn, Environment(c) PROVE TypeOK'
  BY <1>3 DEF TypeOK, Environment, Stall, ReadsAgain, Lose, Disconnect, GiveUp,
              Deadline, counters, closeAll
<1>4. CASE CloseAll
  BY <1>4 DEF TypeOK, CloseAll, SweepStart, SweepNext, SweepLocks, SweepWrote, SweepEnd,
              Shut, In, peer, counters
<1>5. CASE StopListening
  BY <1>5 DEF TypeOK, StopListening, peer, counters, closeAll
<1>6. CASE UNCHANGED vars
  BY <1>6 DEF TypeOK, vars, peer, counters, closeAll
<1> QED
  BY <1>1, <1>2, <1>3, <1>4, <1>5, <1>6 DEF Next

\* Every reachable state is well typed.
THEOREM TypeCorrect == Spec => []TypeOK
<1>1. Init => TypeOK
  BY DEF Init, TypeOK, Phase
<1> QED
  BY <1>1, StepTypes, PTL DEF Spec

-----------------------------------------------------------------------------
(* Sets of connections by phase.                                           *)

\* Every step moves one goroutine of a connection, or leaves phases, counters
\* and registry alone.
LEMMA StepKinds ==
    ASSUME [Next]_vars
    PROVE  Quiet \/ \E c \in Conn : Move(c)
<1>1. ASSUME NEW c \in Conn, Handle(c) PROVE Quiet \/ Move(c)
  BY <1>1 DEF Handle, Arrive, Enter, Loop, CleanUp, Move, Quiet, LoopLocks
<1>2. ASSUME NEW c \in Conn, PingLoop(c) PROVE Quiet
  BY <1>2 DEF PingLoop, PingTick, PingDone, PingLocks, PingSent, PingFails, Quiet
<1>3. ASSUME NEW c \in Conn, Environment(c) PROVE Quiet
  BY <1>3 DEF Environment, Stall, ReadsAgain, Lose, Disconnect, GiveUp, Deadline, Quiet
<1>4. CASE CloseAll
  BY <1>4 DEF CloseAll, SweepStart, SweepNext, SweepLocks, SweepWrote, SweepEnd, Quiet
<1>5. CASE StopListening \/ UNCHANGED vars
  BY <1>5 DEF StopListening, Quiet, vars
<1> QED
  BY <1>1, <1>2, <1>3, <1>4, <1>5 DEF Next

\* What a move does to the set of connections in some phases.
LEMMA InMove ==
    ASSUME TypeOK, NEW c \in Conn, NEW from, NEW to, Goto(c, from, to), NEW P
    PROVE  /\ (from \in P <=> to \in P) => In(P)' = In(P)
           /\ (from \notin P /\ to \in P) => In(P)' = In(P) \cup {c} /\ c \notin In(P)
           /\ (from \in P /\ to \notin P) => In(P)' = In(P) \ {c} /\ c \in In(P)
BY DEF TypeOK, Goto, In

\* Adding or removing one connection changes a cardinality by one.
LEMMA CardMove ==
    ASSUME NEW S \in SUBSET Conn, NEW c \in Conn
    PROVE  /\ Cardinality(S) \in Nat
           /\ c \notin S => Cardinality(S \cup {c}) = Cardinality(S) + 1
           /\ c \in S => Cardinality(S \ {c}) = Cardinality(S) - 1
<1>1. IsFiniteSet(S)
  BY FS_Subset, ConnectionsAssumption
<1> QED
  BY <1>1, FS_AddElement, FS_RemoveElement, FS_CardinalityType

-----------------------------------------------------------------------------
(* The counters.                                                           *)

\* A connection whose session could not be created is on its way out.
FailedLeave == \A c \in failed : phase[c] \in {"uncount", "release", "deregister", "done"}

IpExact == \A ip \in IP : ipCount[ip] = Cardinality(In(Admitted) \cap From(ip))
ActiveExact == active = Cardinality(In(Counted))
GaugeExact == gauge = Cardinality(In(Gauged) \cup failed)
RegExact == reg = In(Registered)

CountInv == TypeOK /\ FailedLeave /\ CountsExact /\ IpLimit

\* The initial state.
LEMMA CountInit == Init => CountInv
<1> SUFFICES ASSUME Init PROVE CountInv
  OBVIOUS
<1>1. TypeOK /\ FailedLeave
  BY DEF Init, TypeOK, Phase, FailedLeave
<1>2. /\ In(Admitted) = {} /\ In(Counted) = {} /\ In(Gauged) = {} /\ In(Registered) = {}
      /\ failed = {}
  BY DEF Init, In, Admitted, Counted, Gauged, Registered, Setup, Serving, Leaving
<1>3. Cardinality({}) = 0
  BY FS_EmptySet
<1>4. CountsExact
  BY <1>2, <1>3 DEF Init, CountsExact
<1>5. IpLimit
  <2>1. \A ip \in IP : In(Admitted) \cap From(ip) = {}
    BY <1>2
  <2> QED
    BY <2>1, <1>3, ConnectionsAssumption DEF IpLimit
<1> QED
  BY <1>1, <1>4, <1>5 DEF CountInv

\* A failed connection stays on its way out.
LEMMA FailedStep ==
    ASSUME TypeOK, FailedLeave, NEW c \in Conn, Move(c)
    PROVE  FailedLeave'
<1>1. CASE CreateFails(c)
  BY <1>1 DEF TypeOK, FailedLeave, CreateFails, Goto
<1>2. CASE Accept(c) \/ Reject(c) \/ Count(c) \/ GaugeInc(c) \/ Register(c) \/ Serve(c)
  BY <1>2 DEF TypeOK, FailedLeave, Accept, Reject, Count, GaugeInc, Register, Serve, Goto
<1>3. CASE Receive(c) \/ CallReturns(c) \/ ReadFails(c) \/ LoopWrote(c)
  BY <1>3 DEF TypeOK, FailedLeave, Receive, CallReturns, ReadFails, LoopWrote, Goto
<1>4. CASE DeleteSession(c) \/ Uncount(c) \/ GaugeDec(c)
  BY <1>4 DEF TypeOK, FailedLeave, DeleteSession, Uncount, GaugeDec, Goto
<1>5. CASE Release(c) \/ Deregister(c)
  BY <1>5 DEF TypeOK, FailedLeave, Release, Deregister, Goto
<1> QED
  BY <1>1, <1>2, <1>3, <1>4, <1>5 DEF Move

\* activeConns: only Count and Uncount change it, and who is counted.
LEMMA ActiveStep ==
    ASSUME TypeOK, ActiveExact, NEW c \in Conn, Move(c)
    PROVE  ActiveExact'
<1> USE DEF Counted, Serving, Setup
<1>0. In(Counted) \in SUBSET Conn
  BY DEF In
<1>1. CASE Count(c)
  <2>1. Goto(c, "count", "gauge") /\ active' = active + 1
    BY <1>1 DEF Count
  <2>2. In(Counted)' = In(Counted) \cup {c} /\ c \notin In(Counted)
    BY <2>1, InMove
  <2> QED
    BY <1>0, <2>1, <2>2, CardMove DEF ActiveExact
<1>2. CASE Uncount(c)
  <2>1. PICK to \in {"release", "ungauge"} : Goto(c, "uncount", to)
    BY <1>2 DEF Uncount
  <2>2. In(Counted)' = In(Counted) \ {c} /\ c \in In(Counted)
    BY <2>1, InMove
  <2> QED
    BY <1>0, <1>2, <2>2, CardMove DEF ActiveExact, Uncount
<1>3. ASSUME active' = active, In(Counted)' = In(Counted) PROVE ActiveExact'
  BY <1>3 DEF ActiveExact
<1>4. CASE Accept(c) \/ Reject(c) \/ GaugeInc(c) \/ Register(c) \/ Serve(c) \/ CreateFails(c)
  BY <1>3, <1>4, InMove DEF Accept, Reject, GaugeInc, Register, Serve, CreateFails, counters
<1>5. CASE Receive(c) \/ CallReturns(c) \/ ReadFails(c) \/ LoopWrote(c)
  BY <1>3, <1>5, InMove DEF Receive, CallReturns, ReadFails, LoopWrote, counters
<1>6. CASE DeleteSession(c) \/ GaugeDec(c) \/ Release(c) \/ Deregister(c)
  BY <1>3, <1>6, InMove DEF DeleteSession, GaugeDec, Release, Deregister, counters
<1> QED
  BY <1>1, <1>2, <1>4, <1>5, <1>6 DEF Move

\* The gauge: GaugeInc and GaugeDec change it; a failed connection stays in it
\* when it leaves the phases that count.
LEMMA GaugeStep ==
    ASSUME TypeOK, FailedLeave, GaugeExact, NEW c \in Conn, Move(c)
    PROVE  GaugeExact'
<1> USE DEF Gauged, Serving, Setup
<1> DEFINE G == In(Gauged) \cup failed
<1>0. G \in SUBSET Conn
  BY DEF In, TypeOK
<1>1. CASE GaugeInc(c)
  <2>1. Goto(c, "gauge", "register") /\ gauge' = gauge + 1 /\ failed' = failed
    BY <1>1 DEF GaugeInc
  <2>2. In(Gauged)' = In(Gauged) \cup {c} /\ c \notin In(Gauged)
    BY <2>1, InMove
  <2>3. c \notin failed
    BY <2>1 DEF FailedLeave, Goto
  <2>4. G' = G \cup {c} /\ c \notin G
    BY <2>1, <2>2, <2>3
  <2> QED
    BY <1>0, <2>1, <2>4, CardMove DEF GaugeExact
<1>2. CASE GaugeDec(c)
  <2>1. Goto(c, "ungauge", "release") /\ gauge' = gauge - 1 /\ failed' = failed
    BY <1>2 DEF GaugeDec
  <2>2. In(Gauged)' = In(Gauged) \ {c} /\ c \in In(Gauged)
    BY <2>1, InMove
  <2>3. c \notin failed
    BY <2>1 DEF FailedLeave, Goto
  <2>4. G' = G \ {c} /\ c \in G
    BY <2>1, <2>2, <2>3
  <2> QED
    BY <1>0, <2>1, <2>4, CardMove DEF GaugeExact
<1>3. ASSUME gauge' = gauge, G' = G PROVE GaugeExact'
  BY <1>3 DEF GaugeExact
<1>4. CASE CreateFails(c)
  <2>1. Goto(c, "create", "uncount") /\ gauge' = gauge /\ failed' = failed \cup {c}
    BY <1>4 DEF CreateFails, counters
  <2>2. In(Gauged)' = In(Gauged) /\ c \in In(Gauged)
    BY <2>1, InMove DEF Goto, In
  <2> QED
    BY <1>3, <2>1, <2>2
<1>5. CASE Uncount(c) /\ c \in failed
  <2>1. Goto(c, "uncount", "release") /\ gauge' = gauge /\ failed' = failed
    BY <1>5 DEF Uncount
  <2>2. In(Gauged)' = In(Gauged) \ {c}
    BY <2>1, InMove
  <2> QED
    BY <1>3, <1>5, <2>1, <2>2
<1>6. CASE Uncount(c) /\ c \notin failed
  <2>1. Goto(c, "uncount", "ungauge") /\ gauge' = gauge /\ failed' = failed
    BY <1>6 DEF Uncount
  <2>2. In(Gauged)' = In(Gauged)
    BY <2>1, InMove
  <2> QED
    BY <1>3, <2>1, <2>2
<1>7. CASE Accept(c) \/ Reject(c) \/ Count(c) \/ Register(c) \/ Serve(c)
  <2>1. gauge' = gauge /\ failed' = failed
    BY <1>7 DEF Accept, Reject, Count, Register, Serve, counters
  <2>2. In(Gauged)' = In(Gauged)
    BY <1>7, InMove DEF Accept, Reject, Count, Register, Serve
  <2> QED
    BY <1>3, <2>1, <2>2
<1>8. CASE Receive(c) \/ CallReturns(c) \/ ReadFails(c) \/ LoopWrote(c)
  <2>1. gauge' = gauge /\ failed' = failed
    BY <1>8 DEF Receive, CallReturns, ReadFails, LoopWrote, counters
  <2>2. In(Gauged)' = In(Gauged)
    BY <1>8, InMove DEF Receive, CallReturns, ReadFails, LoopWrote
  <2> QED
    BY <1>3, <2>1, <2>2
<1>9. CASE DeleteSession(c) \/ Release(c) \/ Deregister(c)
  <2>1. gauge' = gauge /\ failed' = failed
    BY <1>9 DEF DeleteSession, Release, Deregister, counters
  <2>2. In(Gauged)' = In(Gauged)
    BY <1>9, InMove DEF DeleteSession, Release, Deregister
  <2> QED
    BY <1>3, <2>1, <2>2
<1> QED
  BY <1>1, <1>2, <1>4, <1>5, <1>6, <1>7, <1>8, <1>9 DEF Move

\* The registry: Register and Deregister change it.
LEMMA RegStep ==
    ASSUME TypeOK, RegExact, NEW c \in Conn, Move(c)
    PROVE  RegExact'
<1> USE DEF Registered, Serving, Setup, Leaving
<1>1. CASE Register(c)
  BY <1>1, InMove DEF Register, RegExact
<1>2. CASE Deregister(c)
  BY <1>2, InMove DEF Deregister, RegExact
<1>3. ASSUME reg' = reg, In(Registered)' = In(Registered) PROVE RegExact'
  BY <1>3 DEF RegExact
<1>4. CASE Accept(c) \/ Reject(c) \/ Count(c) \/ GaugeInc(c) \/ Serve(c) \/ CreateFails(c)
  BY <1>3, <1>4, InMove DEF Accept, Reject, Count, GaugeInc, Serve, CreateFails
<1>5. CASE Receive(c) \/ CallReturns(c) \/ ReadFails(c) \/ LoopWrote(c)
  BY <1>3, <1>5, InMove DEF Receive, CallReturns, ReadFails, LoopWrote
<1>6. CASE DeleteSession(c) \/ GaugeDec(c) \/ Release(c)
  BY <1>3, <1>6, InMove DEF DeleteSession, GaugeDec, Release
<1>7. CASE Uncount(c)
  <2>1. PICK to \in {"release", "ungauge"} : Goto(c, "uncount", to)
    BY <1>7 DEF Uncount
  <2>2. In(Registered)' = In(Registered)
    BY <2>1, InMove
  <2> QED
    BY <1>3, <1>7, <2>2 DEF Uncount
<1> QED
  BY <1>1, <1>2, <1>4, <1>5, <1>6, <1>7 DEF Move

\* The per-IP table: Accept and Release change the entry of one address, and
\* Release finds its own connection counted there.
LEMMA IpStep ==
    ASSUME TypeOK, IpExact, IpLimit, NEW c \in Conn, Move(c)
    PROVE  IpExact' /\ IpLimit'
<1> USE DEF Admitted, Serving, Setup
<1> DEFINE S(ip) == In(Admitted) \cap From(ip)
<1>0. \A ip \in IP : S(ip) \in SUBSET Conn
  BY DEF In
<1>1. CASE Accept(c)
  <2>1. /\ Goto(c, "new", "count") /\ addr' = addr
        /\ ipCount' = [ipCount EXCEPT ![addr[c]] = @ + 1]
        /\ ipCount[addr[c]] < Limit
    BY <1>1 DEF Accept, BelowLimit
  <2>2. In(Admitted)' = In(Admitted) \cup {c} /\ c \notin In(Admitted)
    BY <2>1, InMove
  <2>3. addr[c] \in IP
    BY DEF TypeOK
  <2>4. ASSUME NEW ip \in IP, ip # addr[c]
        PROVE  S(ip)' = S(ip) /\ ipCount'[ip] = ipCount[ip]
    BY <2>1, <2>2, <2>4 DEF From, TypeOK
  <2>5. /\ S(addr[c])' = S(addr[c]) \cup {c} /\ c \notin S(addr[c])
        /\ ipCount'[addr[c]] = ipCount[addr[c]] + 1
    BY <2>1, <2>2, <2>3 DEF From, TypeOK
  <2>6. Cardinality(S(addr[c])') = Cardinality(S(addr[c])) + 1
    BY <1>0, <2>3, <2>5, CardMove
  <2>7. Cardinality(S(addr[c])) = ipCount[addr[c]] /\ ipCount[addr[c]] \in Nat
    BY <2>3 DEF IpExact, TypeOK
  <2>8. addr[c]' = addr[c]
    BY <2>1
  <2>9. ASSUME NEW ip \in IP
        PROVE  ipCount'[ip] = Cardinality(S(ip)') /\ Cardinality(S(ip)') <= Limit
    <3>1. CASE ip = addr[c]
      BY <3>1, <2>1, <2>5, <2>6, <2>7, <2>8, ConnectionsAssumption
    <3>2. CASE ip # addr[c]
      BY <3>2, <2>4 DEF IpExact, IpLimit
    <3> QED
      BY <3>1, <3>2
  <2> QED
    BY <2>9 DEF IpExact, IpLimit
<1>2. CASE Release(c)
  <2>1. /\ Goto(c, "release", "deregister") /\ addr' = addr
        /\ ipCount' = [ipCount EXCEPT ![addr[c]] = IF @ > 0 THEN @ - 1 ELSE @]
    BY <1>2 DEF Release
  <2>2. In(Admitted)' = In(Admitted) \ {c} /\ c \in In(Admitted)
    BY <2>1, InMove
  <2>3. addr[c] \in IP
    BY DEF TypeOK
  <2>4. ASSUME NEW ip \in IP, ip # addr[c]
        PROVE  S(ip)' = S(ip) /\ ipCount'[ip] = ipCount[ip]
    BY <2>1, <2>2, <2>4 DEF From, TypeOK
  <2>5. /\ S(addr[c])' = S(addr[c]) \ {c} /\ c \in S(addr[c])
        /\ ipCount'[addr[c]] = IF ipCount[addr[c]] > 0 THEN ipCount[addr[c]] - 1
                                                       ELSE ipCount[addr[c]]
    BY <2>1, <2>2, <2>3 DEF From, TypeOK
  <2>6. /\ Cardinality(S(addr[c])') = Cardinality(S(addr[c])) - 1
        /\ Cardinality(S(addr[c])') \in Nat
    <3>1. S(addr[c])' \in SUBSET Conn
      BY <1>0, <2>3, <2>5
    <3> QED
      BY <1>0, <2>3, <2>5, <3>1, CardMove
  <2>7. /\ Cardinality(S(addr[c])) = ipCount[addr[c]] /\ ipCount[addr[c]] \in Nat
        /\ Cardinality(S(addr[c])) <= Limit
    BY <2>3 DEF IpExact, IpLimit, TypeOK
  <2>8. addr[c]' = addr[c]
    BY <2>1
  <2>9. ASSUME NEW ip \in IP
        PROVE  ipCount'[ip] = Cardinality(S(ip)') /\ Cardinality(S(ip)') <= Limit
    <3>1. CASE ip = addr[c]
      BY <3>1, <2>5, <2>6, <2>7, <2>8, ConnectionsAssumption
    <3>2. CASE ip # addr[c]
      BY <3>2, <2>4 DEF IpExact, IpLimit
    <3> QED
      BY <3>1, <3>2
  <2> QED
    BY <2>9 DEF IpExact, IpLimit
<1>3. ASSUME ipCount' = ipCount, addr' = addr, In(Admitted)' = In(Admitted)
      PROVE  IpExact' /\ IpLimit'
  BY <1>3 DEF IpExact, IpLimit, From
<1>4. CASE Reject(c) \/ Count(c) \/ GaugeInc(c) \/ Register(c) \/ Serve(c) \/ CreateFails(c)
  BY <1>3, <1>4, InMove
     DEF Reject, Count, GaugeInc, Register, Serve, CreateFails, counters, Over
<1>5. CASE Receive(c) \/ CallReturns(c) \/ ReadFails(c) \/ LoopWrote(c)
  BY <1>3, <1>5, InMove DEF Receive, CallReturns, ReadFails, LoopWrote, counters
<1>6. CASE DeleteSession(c) \/ GaugeDec(c) \/ Deregister(c)
  BY <1>3, <1>6, InMove DEF DeleteSession, GaugeDec, Deregister, counters
<1>7. CASE Uncount(c)
  <2>1. PICK to \in {"release", "ungauge"} : Goto(c, "uncount", to)
    BY <1>7 DEF Uncount
  <2>2. In(Admitted)' = In(Admitted)
    BY <2>1, InMove
  <2> QED
    BY <1>3, <1>7, <2>2 DEF Uncount
<1> QED
  BY <1>1, <1>2, <1>4, <1>5, <1>6, <1>7 DEF Move

\* Every step keeps the counters exact.
LEMMA CountStep == CountInv /\ [Next]_vars => CountInv'
<1> SUFFICES ASSUME CountInv, [Next]_vars PROVE CountInv'
  OBVIOUS
<1> USE DEF CountInv
<1>1. TypeOK'
  BY StepTypes
<1>2. CountsExact <=> IpExact /\ ActiveExact /\ GaugeExact /\ RegExact
  BY DEF CountsExact, IpExact, ActiveExact, GaugeExact, RegExact
<1>3. CASE Quiet
  BY <1>1, <1>3 DEF Quiet, counters, FailedLeave, CountsExact, IpLimit, In, From
<1>4. ASSUME NEW c \in Conn, Move(c) PROVE CountInv'
  <2>1. FailedLeave'
    BY <1>4, FailedStep
  <2>2. IpExact' /\ IpLimit'
    BY <1>2, <1>4, IpStep
  <2>3. ActiveExact' /\ GaugeExact' /\ RegExact'
    BY <1>2, <1>4, ActiveStep, GaugeStep, RegStep
  <2>4. CountsExact'
    BY <2>2, <2>3 DEF CountsExact, IpExact, ActiveExact, GaugeExact, RegExact
  <2> QED
    BY <1>1, <2>1, <2>2, <2>4
<1> QED
  BY <1>3, <1>4, StepKinds

\* Whatever fails and interleaves, counters and registry hold exactly the
\* connections that are in between (Handle's setup, its failure path and its
\* deferred clean-up).
THEOREM CountersExact == Spec => []CountsExact
<1>1. CountInv => CountsExact
  BY DEF CountInv
<1> QED
  BY <1>1, CountInit, CountStep, PTL DEF Spec

\* No address has more than maxConnsPerIP connections (ipConnTracker).
THEOREM IpLimitHolds == Spec => []IpLimit
<1>1. CountInv => IpLimit
  BY DEF CountInv
<1> QED
  BY <1>1, CountInit, CountStep, PTL DEF Spec

-----------------------------------------------------------------------------
(* CloseAll.                                                               *)

\* CloseAll's copy of the registry: what is still to visit is registered,
\* and what is neither still to visit nor being closed is closed.
SweepInv ==
    /\ sweep \in {"next", "lock", "write"} => tracked = reg /\ todo \subseteq reg
    /\ sweep \in {"lock", "write"} => cur \in reg
    /\ sweep \in {"idle"} => tracked = {}
    /\ \A c \in tracked : \/ sock[c] = "closed"
                          \/ sweep \in {"next", "lock", "write"} /\ c \in todo
                          \/ sweep \in {"lock", "write"} /\ c = cur

\* A closed socket stays closed, whatever a connection's goroutines do.
LEMMA ClosedStays ==
    ASSUME TypeOK, [Next]_vars, NEW c \in Conn, sock[c] = "closed"
    PROVE  sock'[c] = "closed"
<1>1. ASSUME NEW d \in Conn, Handle(d) PROVE sock'[c] = "closed"
  BY <1>1 DEF Handle, Arrive, Enter, Loop, CleanUp, Accept, Reject, Count, GaugeInc,
              Register, Serve, CreateFails, Receive, CallReturns, ReadFails, LoopLocks,
              LoopWrote, DeleteSession, Uncount, GaugeDec, Release, Deregister, peer, TypeOK
<1>2. ASSUME NEW d \in Conn, PingLoop(d) PROVE sock'[c] = "closed"
  BY <1>2 DEF PingLoop, PingTick, PingDone, PingLocks, PingSent, PingFails, peer, TypeOK
<1>3. ASSUME NEW d \in Conn, Environment(d) PROVE sock'[c] = "closed"
  BY <1>3 DEF Environment, Stall, ReadsAgain, Lose, Disconnect, GiveUp, Deadline
<1>4. CASE CloseAll
  BY <1>4 DEF CloseAll, SweepStart, SweepNext, SweepLocks, SweepWrote, SweepEnd, Shut,
              peer, TypeOK
<1>5. CASE StopListening \/ UNCHANGED vars
  BY <1>5 DEF StopListening, peer, vars
<1> QED
  BY <1>1, <1>2, <1>3, <1>4, <1>5 DEF Next

\* Every step keeps SweepInv.
LEMMA SweepStep == TypeOK /\ SweepInv /\ [Next]_vars => SweepInv'
<1> SUFFICES ASSUME TypeOK, SweepInv, [Next]_vars PROVE SweepInv'
  OBVIOUS
<1>0. \A c \in tracked : sock[c] = "closed" => sock'[c] = "closed"
  BY ClosedStays DEF TypeOK
<1>1. ASSUME UNCHANGED closeAll, reg' = reg \/ ConnsFree PROVE SweepInv'
  BY <1>0, <1>1 DEF SweepInv, closeAll, ConnsFree
<1>2. ASSUME NEW c \in Conn, Handle(c) PROVE SweepInv'
  BY <1>1, <1>2 DEF Handle, Arrive, Enter, Loop, CleanUp, Accept, Reject, Count, GaugeInc,
              Register, Serve, CreateFails, Receive, CallReturns, ReadFails, LoopLocks,
              LoopWrote, DeleteSession, Uncount, GaugeDec, Release, Deregister
<1>3. ASSUME NEW c \in Conn, PingLoop(c) PROVE SweepInv'
  BY <1>1, <1>3 DEF PingLoop, PingTick, PingDone, PingLocks, PingSent, PingFails
<1>4. ASSUME NEW c \in Conn, Environment(c) PROVE SweepInv'
  BY <1>1, <1>4 DEF Environment, Stall, ReadsAgain, Lose, Disconnect, GiveUp, Deadline
<1>5. CASE SweepStart
  BY <1>5 DEF SweepStart, SweepInv
<1>6. CASE SweepNext
  BY <1>0, <1>6 DEF SweepNext, SweepInv
<1>7. CASE SweepLocks
  BY <1>0, <1>7 DEF SweepLocks, SweepInv
<1>8. CASE SweepWrote
  <2>1. sock'[cur] = "closed"
    BY <1>8 DEF SweepWrote, Shut, TypeOK
  <2> QED
    BY <1>0, <1>8, <2>1 DEF SweepWrote, SweepInv
<1>9. CASE SweepEnd
  BY <1>0, <1>9 DEF SweepEnd, SweepInv
<1>10. CASE StopListening \/ UNCHANGED vars
  BY <1>1, <1>10 DEF StopListening, vars
<1> QED
  BY <1>2, <1>3, <1>4, <1>5, <1>6, <1>7, <1>8, <1>9, <1>10 DEF Next, CloseAll

\* SweepInv holds in every reachable state.
LEMMA SweepAlways == Spec => []SweepInv
<1>1. Init => SweepInv
  BY DEF Init, SweepInv
<1> QED
  BY <1>1, SweepStep, TypeCorrect, PTL DEF Spec

\* CloseAll never touches a connection whose Handle has returned: deregister
\* needs the mutex CloseAll holds.
THEOREM SweepOnlyOpenHolds == Spec => []SweepOnlyOpen
<1>1. SweepInv /\ CountsExact /\ TypeOK => SweepOnlyOpen
  BY DEF SweepInv, CountsExact, SweepOnlyOpen, In
<1> QED
  BY <1>1, SweepAlways, CountersExact, TypeCorrect, PTL

\* When CloseAll has returned, all that was registered when it began is closed.
THEOREM SweepClosesHolds == Spec => []SweepCloses
<1>1. SweepInv => SweepCloses
  BY DEF SweepInv, SweepCloses
<1> QED
  BY <1>1, SweepAlways, PTL

-----------------------------------------------------------------------------
(* Waiting for the mutexes.                                                *)

\* safeConn.mu is held during a write only, and by the one who writes; there is
\* no ping goroutine before the session is created.
MutexInv ==
    \A c \in Conn : /\ wmu[c] = "loop" => phase[c] = "write"
                    /\ wmu[c] = "ping" => ping[c] = "write"
                    /\ wmu[c] = "sweep" => sweep = "write" /\ cur = c
                    /\ phase[c] \in {"new"} \cup Setup => ping[c] = "none"

\* The initial states satisfy it.
LEMMA MutexInit == Init => MutexInv
BY DEF Init, MutexInv

\* Every step keeps MutexInv.
LEMMA MutexStep == TypeOK /\ MutexInv /\ [Next]_vars => MutexInv'
<1> SUFFICES ASSUME TypeOK, MutexInv, [Next]_vars PROVE MutexInv'
  OBVIOUS
<1>1. ASSUME NEW c \in Conn, Arrive(c) PROVE MutexInv'
  BY <1>1 DEF Arrive, Accept, Reject, Goto, TypeOK, MutexInv, Setup, closeAll
<1>2. ASSUME NEW c \in Conn, Enter(c) PROVE MutexInv'
  BY <1>2 DEF Enter, Count, GaugeInc, Register, Serve, CreateFails, Goto, TypeOK, MutexInv,
              Setup, closeAll
<1>3. ASSUME NEW c \in Conn, Receive(c) \/ CallReturns(c) \/ ReadFails(c) PROVE MutexInv'
  BY <1>3 DEF Receive, CallReturns, ReadFails, Goto, TypeOK, MutexInv, Setup, closeAll
<1>4. ASSUME NEW c \in Conn, LoopLocks(c) \/ LoopWrote(c) PROVE MutexInv'
  BY <1>4 DEF LoopLocks, LoopWrote, Goto, TypeOK, MutexInv, Setup, closeAll
<1>5. ASSUME NEW c \in Conn, CleanUp(c) PROVE MutexInv'
  BY <1>5 DEF CleanUp, DeleteSession, Uncount, GaugeDec, Release, Deregister, Goto, TypeOK,
              MutexInv, Setup, closeAll
<1>6. ASSUME NEW c \in Conn, PingLoop(c) PROVE MutexInv'
  BY <1>6 DEF PingLoop, PingTick, PingDone, PingLocks, PingSent, PingFails, PingGoto, TypeOK,
              MutexInv, closeAll
<1>7. ASSUME NEW c \in Conn, Environment(c) PROVE MutexInv'
  BY <1>7 DEF Environment, Stall, ReadsAgain, Lose, Disconnect, GiveUp, Deadline, MutexInv,
              closeAll
<1>8. CASE CloseAll
  BY <1>8 DEF CloseAll, SweepStart, SweepNext, SweepLocks, SweepWrote, SweepEnd, TypeOK, MutexInv
<1>9. CASE StopListening \/ UNCHANGED vars
  BY <1>9 DEF StopListening, vars, closeAll, MutexInv
<1> QED
  BY <1>1, <1>2, <1>3, <1>4, <1>5, <1>6, <1>7, <1>8, <1>9 DEF Next, Handle, Loop

\* Whoever waits for a write mutex waits for a goroutine that itself waits for
\* nobody.
LEMMA WriterWaitsNot ==
    ASSUME TypeOK, MutexInv, NEW c \in Conn, wmu[c] # "free", NEW u \in Waits
    PROVE  u[1] # Holder(c)
<1>1. CASE \E d \in Conn : /\ phase[d] = "write" /\ wmu[d] \notin {"free", "loop"}
                           /\ u = <<<<"loop", d>>, Holder(d)>>
  BY <1>1 DEF Holder, Sweep, MutexInv, TypeOK
<1>2. CASE \E d \in Conn : /\ ping[d] = "lock" /\ wmu[d] # "free"
                           /\ u = <<<<"ping", d>>, Holder(d)>>
  BY <1>2 DEF Holder, Sweep, MutexInv, TypeOK
<1>3. CASE \E d \in Conn : sweep = "lock" /\ d = cur /\ u = <<Sweep, Holder(d)>>
  BY <1>3 DEF Holder, Sweep, MutexInv, TypeOK
<1>4. CASE \E d \in Conn : /\ phase[d] \in {"register", "deregister"} /\ ~ConnsFree
                           /\ u = <<<<"loop", d>>, Sweep>>
  BY <1>4 DEF Holder, Sweep, MutexInv, TypeOK
<1> QED
  BY <1>1, <1>2, <1>3, <1>4 DEF Waits

\* Every wait is for the holder of a write mutex, or for CloseAll.
LEMMA WaitKinds ==
    ASSUME NEW w \in Waits
    PROVE  \/ \E c \in Conn : wmu[c] # "free" /\ w[2] = Holder(c)
           \/ w[1] # Sweep /\ w[2] = Sweep
BY DEF Waits, Sweep

\* Handlers, ping goroutines and CloseAll never deadlock over safeConn.mu and
\* connsMu, for any number of connections, whatever their clients do.
THEOREM NoWaitCycleHolds == Spec => []NoWaitCycle
<1>1. TypeOK /\ MutexInv => NoWaitCycle
  <2> SUFFICES ASSUME TypeOK, MutexInv,
                      NEW w \in Waits, NEW v \in Waits, NEW u \in Waits
               PROVE  ~(w[2] = v[1] /\ v[2] = u[1])
    BY DEF NoWaitCycle, MutexInv
  <2>1. CASE \E c \in Conn : wmu[c] # "free" /\ w[2] = Holder(c)
    BY <2>1, WriterWaitsNot
  <2>2. CASE w[2] = Sweep
    <3>1. CASE \E c \in Conn : wmu[c] # "free" /\ v[2] = Holder(c)
      BY <3>1, WriterWaitsNot
    <3>2. CASE v[1] # Sweep
      BY <2>2, <3>2
    <3> QED
      BY <3>1, <3>2, WaitKinds
  <2> QED
    BY <2>1, <2>2, WaitKinds
<1> QED
  BY <1>1, MutexInit, MutexStep, TypeCorrect, PTL DEF Spec

-----------------------------------------------------------------------------
(* The length of CloseAll.                                                 *)

\* A step of CloseAll leaves fewer of them.
LEMMA SweepNearer ==
    ASSUME TypeOK, CloseAll, sweep \in {"next", "lock", "write"}
    PROVE  SweepLeft' < SweepLeft
<1> DEFINE k == Cardinality(todo)
<1>1. IsFiniteSet(todo) /\ k \in Nat
  BY ConnectionsAssumption, FS_Subset, FS_CardinalityType DEF TypeOK
<1>2. CASE SweepNext
  <2>1. PICK c \in todo : todo' = todo \ {c}
    BY <1>2 DEF SweepNext
  <2>2. Cardinality(todo') = k - 1
    BY <1>1, <2>1, FS_RemoveElement
  <2>3. sweep = "next" /\ sweep' = "lock"
    BY <1>2 DEF SweepNext
  <2> QED
    BY <1>1, <2>2, <2>3 DEF SweepLeft
<1>3. CASE SweepLocks
  <2>1. sweep = "lock" /\ sweep' = "write" /\ todo' = todo
    BY <1>3 DEF SweepLocks
  <2> QED
    BY <1>1, <2>1 DEF SweepLeft
<1>4. CASE SweepWrote
  <2>1. sweep = "write" /\ sweep' = "next" /\ todo' = todo
    BY <1>4 DEF SweepWrote
  <2> QED
    BY <1>1, <2>1 DEF SweepLeft
<1>5. CASE SweepEnd
  <2>1. sweep = "next" /\ sweep' = "ended"
    BY <1>5 DEF SweepEnd
  <2> QED
    BY <1>1, <2>1 DEF SweepLeft
<1> QED
  BY <1>2, <1>3, <1>4, <1>5 DEF CloseAll, SweepStart

\* CloseAll takes at most three steps for each connection that was registered
\* when it began, and one: nobody can make its list longer.
THEOREM SweepAlwaysShortens == Spec => SweepShortens
<1>1. TypeOK /\ [Next]_vars =>
          [(sweep \in {"next", "lock", "write"}) =>
              SweepLeft' < SweepLeft \/ UNCHANGED closeAll]_vars
  <2> SUFFICES ASSUME TypeOK, Next, sweep \in {"next", "lock", "write"}
               PROVE  SweepLeft' < SweepLeft \/ UNCHANGED closeAll
    OBVIOUS
  <2>1. ASSUME NEW c \in Conn, Handle(c) PROVE UNCHANGED closeAll
    BY <2>1 DEF Handle, Arrive, Enter, Loop, CleanUp, Accept, Reject, Count, GaugeInc,
                Register, Serve, CreateFails, Receive, CallReturns, ReadFails, LoopLocks,
                LoopWrote, DeleteSession, Uncount, GaugeDec, Release, Deregister
  <2>2. ASSUME NEW c \in Conn, PingLoop(c) PROVE UNCHANGED closeAll
    BY <2>2 DEF PingLoop, PingTick, PingDone, PingLocks, PingSent, PingFails
  <2>3. ASSUME NEW c \in Conn, Environment(c) PROVE UNCHANGED closeAll
    BY <2>3 DEF Environment, Stall, ReadsAgain, Lose, Disconnect, GiveUp, Deadline
  <2>4. CASE CloseAll
    BY <2>4, SweepNearer
  <2>5. CASE StopListening
    BY <2>5 DEF StopListening
  <2> QED
    BY <2>1, <2>2, <2>3, <2>4, <2>5 DEF Next
<1> QED
  BY <1>1, TypeCorrect, PTL DEF Spec, SweepShortens
=============================================================================
