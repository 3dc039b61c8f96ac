----------------------------- MODULE LimitsProofs -----------------------------
(***************************************************************************)
(* Proofs about the limiters, for every number of requests, addresses,     *)
(* buckets, connections and users and all limits.                          *)
(***************************************************************************)
EXTENDS Limits, FiniteSetTheorems, TLAPS

\* A step of the two limiters together is a step, or none, of each.
LEMMA Parts == [Next]_vars => [RestNext]_restVars /\ [MessageNext]_messageVars
  BY DEF Next, vars, Request, Message, RestBackground, MessageBackground, RestNext, MessageNext

-----------------------------------------------------------------------------
(* Types.                                                                  *)

LEMMA CappedRange == ASSUME NEW n \in Int, NEW limit \in Int
                     PROVE  /\ Capped(n, limit) \in Int
                            /\ Capped(n, limit) <= limit /\ Capped(n, limit) <= n
                            /\ Capped(n, limit) \in {n, limit}
  BY DEF Capped

LEMMA GraceNat == Grace \in Nat
  BY RateLimiterAssumption DEF Grace

\* Active requests are requests.
LEMMA ActiveFinite ==
    \A a : IsFiniteSet(Active(a)) /\ Cardinality(Active(a)) \in Nat
<1> TAKE a
<1>1. Active(a) \in SUBSET Req
  BY DEF Active
<1> QED
  BY <1>1, FS_Subset, FS_CardinalityType, RateLimiterAssumption

LEMMA RestTypeInit == RestInit => RestTypeOK
<1> SUFFICES ASSUME RestInit PROVE RestTypeOK
  OBVIOUS
<1>1. /\ Expiry + 1 \in 0 .. Expiry + 1 /\ Burst \in 0 .. Burst /\ 0 \in 0 .. Threshold - 1
      /\ Window + 1 \in 0 .. Window + 1 /\ -1 \in -1 .. BanTime /\ Burst \in Int
      /\ 0 \in 0 .. Grace + 1
  BY RateLimiterAssumption, GraceNat
<1>2. addr \in [Req -> IP]
  BY DEF RestInit
<1> QED
  BY <1>1, <1>2 DEF RestInit, RestTypeOK

\* A ban's history, when it begins or is prolonged.
LEMMA TallyType ==
    ASSUME RestTypeOK, NEW a \in IP, NEW r \in Req, Tally(a, r)
    PROVE  crowd' \in [IP -> Nat] /\ renewed' \in [IP -> Nat]
<1>1. Cardinality(Active(a) \ {r}) \in Nat
  <2>1. Active(a) \ {r} \in SUBSET Active(a)
    OBVIOUS
  <2> QED
    BY <2>1, ActiveFinite, FS_Subset, FS_CardinalityType
<1> DEFINE n == Cardinality(Active(a) \ {r})
<1>2. crowd' = [crowd EXCEPT ![a] = IF InForce(a) THEN @ ELSE n] /\ n \in Nat
  BY <1>1 DEF Tally
<1> HIDE DEF n
<1> QED
  BY <1>2 DEF Tally, RestTypeOK

LEMMA RestTypeStep == RestTypeOK /\ [RestNext]_restVars => RestTypeOK'
<1> SUFFICES ASSUME RestTypeOK, [RestNext]_restVars PROVE RestTypeOK'
  OBVIOUS
<1> USE RateLimiterAssumption, GraceNat
<1>1. ASSUME NEW r \in Req, NEW a \in IP, Pass(r, a) PROVE RestTypeOK'
  BY <1>1 DEF RestTypeOK, Pass, Enter, budgetVars, banVars
<1>2. ASSUME NEW r \in Req, GetLimiter(r) PROVE RestTypeOK'
  <2>1. PICK b \in Bucket :
            /\ held' = [held EXCEPT ![r] = b]
            /\ limiters' = [limiters EXCEPT ![addr[r]] = b]
            /\ tokens' = tokens \/ tokens' = [tokens EXCEPT ![b] = Burst]
    BY <1>2 DEF RestTypeOK, GetLimiter, Unused
  <2>2. tokens' \in [Bucket -> 0 .. Burst]
    BY <2>1 DEF RestTypeOK
  <2>3. /\ pc' = [pc EXCEPT ![r] = "allow"] /\ lastSeen' = [lastSeen EXCEPT ![addr[r]] = 0]
        /\ UNCHANGED <<addr, violations, count, windowAge, bans, left, budgetVars, banVars>>
    BY <1>2 DEF GetLimiter, Enter, Seen
  <2> QED
    BY <2>1, <2>2, <2>3 DEF RestTypeOK, budgetVars, banVars
<1>3. ASSUME NEW r \in Req, Serve(r) PROVE RestTypeOK'
  <2>1. /\ pc' = [pc EXCEPT ![r] = "idle"] /\ held' = [held EXCEPT ![r] = NoBucket]
        /\ waited' = [waited EXCEPT ![r] = 0]
        /\ UNCHANGED <<addr, limiters, lastSeen, violations, count, windowAge, bans, left, banVars>>
    BY <1>3 DEF Serve, Enter, maps
  <2>2. tokens' \in [Bucket -> 0 .. Burst]
    <3>1. tokens \in [Bucket -> 0 .. Burst] /\ tokens[held[r]] > 0
          /\ tokens' = [tokens EXCEPT ![held[r]] = @ - 1]
      BY <1>3 DEF RestTypeOK, Serve
    <3>2. ASSUME NEW b \in Bucket PROVE tokens'[b] \in 0 .. Burst
      <4>1. tokens[b] \in 0 .. Burst
        BY <3>1
      <4>2. CASE b = held[r]
        BY <3>1, <4>1, <4>2
      <4>3. CASE b # held[r]
        BY <3>1, <4>1, <4>3
      <4> QED
        BY <4>2, <4>3
    <3> QED
      BY <3>1, <3>2
  <2>3. spare' \in [IP -> Int]
    <3>1. spare' = spare \/ spare' = [spare EXCEPT ![addr[r]] = @ - 1]
      <4>1. CASE Prompt(r)
        BY <1>3, <4>1 DEF Serve
      <4>2. CASE ~Prompt(r)
        BY <1>3, <4>2 DEF Serve, RestTypeOK
      <4> QED
        BY <4>1, <4>2
    <3> QED
      BY <3>1 DEF RestTypeOK
  <2> QED
    BY <2>1, <2>2, <2>3 DEF RestTypeOK, banVars
<1>4. ASSUME NEW r \in Req, Reject(r) PROVE RestTypeOK'
  BY <1>4 DEF RestTypeOK, Reject, Enter, maps, banVars
<1>5. ASSUME NEW r \in Req, RecordViolation(r) PROVE RestTypeOK'
  <2>1. /\ violations' \subseteq IP /\ bans' \subseteq IP
        /\ count' \in [IP -> 0 .. Threshold - 1]
        /\ windowAge' \in [IP -> 0 .. Window + 1]
        /\ left' \in [IP -> -1 .. BanTime]
    BY <1>5 DEF RestTypeOK, RecordViolation, Ban
  <2>2. /\ pc' = [pc EXCEPT ![r] = "idle"]
        /\ UNCHANGED <<addr, held, limiters, lastSeen, tokens, waited, spare>>
    BY <1>5 DEF RecordViolation, Enter, budgetVars
  <2>3. crowd' \in [IP -> Nat] /\ renewed' \in [IP -> Nat]
    <3>1. UNCHANGED banVars \/ Tally(addr[r], r)
      BY <1>5 DEF RecordViolation
    <3>2. addr[r] \in IP
      BY DEF RestTypeOK
    <3> QED
      BY <3>1, <3>2, TallyType DEF RestTypeOK, banVars
  <2> QED
    BY <2>1, <2>2, <2>3 DEF RestTypeOK
<1>6. CASE RestCleanup
  BY <1>6 DEF RestTypeOK, RestCleanup, OverBans, budgetVars, banVars
<1>7. CASE RestTick
  <2>1. /\ tokens' \in [Bucket -> 0 .. Burst] /\ spare' \in [IP -> Int]
        /\ lastSeen' \in [IP -> 0 .. Expiry + 1] /\ windowAge' \in [IP -> 0 .. Window + 1]
        /\ left' \in [IP -> -1 .. BanTime]
    BY <1>7 DEF RestTypeOK, RestTick, InForce, Capped
  <2>2. waited' \in [Req -> 0 .. Grace + 1]
    BY <1>7 DEF RestTypeOK, RestTick, Capped
  <2>3. crowd' \in [IP -> Nat] /\ renewed' \in [IP -> Nat]
    BY <1>7 DEF RestTypeOK, RestTick
  <2>4. UNCHANGED <<pc, addr, held, limiters, violations, count, bans>>
    BY <1>7 DEF RestTick
  <2> QED
    BY <2>1, <2>2, <2>3, <2>4 DEF RestTypeOK
<1>8. CASE UNCHANGED restVars
  BY <1>8 DEF RestTypeOK, restVars, maps, budgetVars, banVars
<1> QED
  BY <1>1, <1>2, <1>3, <1>4, <1>5, <1>6, <1>7, <1>8 DEF RestNext, Proceed

LEMMA MessageTypeInit == MessageInit => MessageTypeOK
  BY MessageLimitsAssumption DEF MessageInit, MessageTypeOK

\* The ages of the frames that are remembered, after one more.
LEMMA RecentAfterFrame ==
    ASSUME MessageTypeOK, NEW c \in Conn, FrameAllowed(c)
    PROVE  /\ recent' = [recent EXCEPT ![c] = [i \in Remembered |-> IF i = 1 THEN 0 ELSE recent[c][i - 1]]]
           /\ recent'[c][1] = 0
           /\ \A i \in Remembered \ {1} : i - 1 \in Remembered /\ recent'[c][i] = recent[c][i - 1]
  BY MessageLimitsAssumption DEF MessageTypeOK, FrameAllowed, Remembered

LEMMA FrameType ==
    ASSUME MessageTypeOK, NEW c \in Conn, FrameAllowed(c)
    PROVE  /\ frames' \in [Conn -> 0 .. MaxFPS]
           /\ frameAge' \in [Conn -> 0 .. Second]
           /\ recent' \in [Conn -> [Remembered -> 0 .. Second]]
<1>1. frames' \in [Conn -> 0 .. MaxFPS] /\ frameAge' \in [Conn -> 0 .. Second]
  BY MessageLimitsAssumption DEF MessageTypeOK, FrameAllowed, WindowOver, Started
<1>2. [i \in Remembered |-> IF i = 1 THEN 0 ELSE recent[c][i - 1]] \in [Remembered -> 0 .. Second]
  <2>1. \A i \in Remembered : i = 1 \/ i - 1 \in Remembered
    BY MessageLimitsAssumption DEF Remembered
  <2>2. recent[c] \in [Remembered -> 0 .. Second] /\ 0 \in 0 .. Second
    BY MessageLimitsAssumption DEF MessageTypeOK
  <2> QED
    BY <2>1, <2>2
<1>3. recent' \in [Conn -> [Remembered -> 0 .. Second]]
  BY <1>2, RecentAfterFrame DEF MessageTypeOK
<1> QED
  BY <1>1, <1>3

LEMMA UserType ==
    ASSUME MessageTypeOK, NEW u, UserAllow(u)
    PROVE  /\ known' \subseteq User
           /\ quota' \in [User -> 0 .. UserBurst]
           /\ unseen' \in [User -> 0 .. UserExpiry + 1]
           /\ credit' \in [User -> Int]
<1>1. CASE UNCHANGED userVars
  BY <1>1 DEF MessageTypeOK, userVars
<1>2. CASE ~(UNCHANGED userVars)
  <2>1. /\ u \in User
        /\ known' = known \cup {u}
        /\ unseen' = [unseen EXCEPT ![u] = 0]
        /\ quota' = [quota EXCEPT ![u] = IF Available(u) > 0 THEN Available(u) - 1 ELSE 0]
        /\ credit' = [credit EXCEPT ![u] = IF Available(u) > 0 THEN @ - 1 ELSE @]
    BY <1>2 DEF UserAllow, SeenNow
  <2>2. Available(u) \in 0 .. UserBurst
    BY <2>1, MessageLimitsAssumption DEF MessageTypeOK, Available
  <2>3. (IF Available(u) > 0 THEN Available(u) - 1 ELSE 0) \in 0 .. UserBurst
    BY <2>2, MessageLimitsAssumption
  <2> HIDE DEF Available
  <2> QED
    BY <2>1, <2>2, <2>3, MessageLimitsAssumption DEF MessageTypeOK
<1> QED
  BY <1>1, <1>2

LEMMA MessageTypeStep == MessageTypeOK /\ [MessageNext]_messageVars => MessageTypeOK'
<1> SUFFICES ASSUME MessageTypeOK, [MessageNext]_messageVars PROVE MessageTypeOK'
  OBVIOUS
<1>1. ASSUME NEW u, Text(u) PROVE MessageTypeOK'
  BY <1>1, UserType DEF Text, frameVars, MessageTypeOK
<1>2. ASSUME NEW u, NEW c \in Conn, Frame(c, u) PROVE MessageTypeOK'
  BY <1>2, UserType, FrameType DEF Frame, MessageTypeOK
<1>3. CASE UserCleanup
  BY <1>3 DEF UserCleanup, frameVars, MessageTypeOK
<1>4. CASE UserTick
  BY <1>4, MessageLimitsAssumption DEF UserTick, frameVars, MessageTypeOK
<1>5. CASE FrameTick
  <2>1. \A n \in 0 .. Second : Aged(n) \in 0 .. Second
    BY MessageLimitsAssumption DEF Aged
  <2> QED
    BY <1>5, <2>1 DEF FrameTick, userVars, MessageTypeOK
<1>6. CASE UNCHANGED messageVars
  BY <1>6 DEF messageVars, frameVars, userVars, MessageTypeOK
<1> QED
  BY <1>1, <1>2, <1>3, <1>4, <1>5, <1>6 DEF MessageNext

\* Every reachable state of the limiters is well typed.
THEOREM TypeCorrect == Spec => []TypeOK
<1>1. Init => TypeOK
  BY RestTypeInit, MessageTypeInit DEF Init, TypeOK
<1>2. TypeOK /\ [Next]_vars => TypeOK'
  BY Parts, RestTypeStep, MessageTypeStep DEF TypeOK
<1> QED
  BY <1>1, <1>2, PTL DEF Spec

-----------------------------------------------------------------------------
(* The users' budgets.  A user without an entry has been silent for so     *)
(* long that a bucket that was never dropped is full again.                *)

Budget(u) ==
    /\ u \in known => quota[u] <= credit[u]
    /\ u \notin known => unseen[u] = UserExpiry + 1
    /\ credit[u] \in 0 .. UserBurst
    /\ credit[u] >= unseen[u] \/ credit[u] = UserBurst

UserInv == MessageTypeOK /\ \A u \in User : Budget(u)

LEMMA UserInvInit == MessageInit => UserInv
  BY MessageTypeInit, MessageLimitsAssumption DEF MessageInit, UserInv, Budget

\* A message takes from the entry what it takes from the credit.
LEMMA UserAllowBudget ==
    ASSUME UserInv, NEW v, UserAllow(v), NEW u \in User
    PROVE  Budget(u)'
<1>1. CASE UNCHANGED userVars \/ u # v
  <2>1. /\ u \in known' <=> u \in known
        /\ quota'[u] = quota[u] /\ unseen'[u] = unseen[u] /\ credit'[u] = credit[u]
    BY <1>1 DEF UserInv, MessageTypeOK, UserAllow, userVars
  <2> QED
    BY <2>1 DEF UserInv, Budget
<1>2. CASE ~(UNCHANGED userVars) /\ u = v
  <2>1. /\ u \in known' /\ unseen'[u] = 0
        /\ quota'[u] = (IF Available(u) > 0 THEN Available(u) - 1 ELSE 0)
        /\ credit'[u] = (IF Available(u) > 0 THEN credit[u] - 1 ELSE credit[u])
    BY <1>2 DEF UserInv, MessageTypeOK, UserAllow, SeenNow
  <2>2. Available(u) \in 0 .. UserBurst /\ credit[u] \in 0 .. UserBurst
    BY MessageLimitsAssumption DEF UserInv, MessageTypeOK, Budget, Available
  <2>3. Available(u) <= credit[u]
    <3>1. CASE u \in known
      BY <3>1 DEF UserInv, Budget, Available
    <3>2. CASE u \notin known
      BY <3>2, MessageLimitsAssumption DEF UserInv, Budget, Available
    <3> QED
      BY <3>1, <3>2
  <2> HIDE DEF Available
  <2>4. quota'[u] <= credit'[u] /\ credit'[u] \in 0 .. UserBurst
    <3> UserBurst \in Nat
      BY MessageLimitsAssumption
    <3>1. CASE Available(u) > 0
      BY <2>1, <2>2, <2>3, <3>1
    <3>2. CASE ~(Available(u) > 0)
      BY <2>1, <2>2, <2>3, <3>2
    <3> QED
      BY <3>1, <3>2
  <2> QED
    BY <2>1, <2>4 DEF Budget
<1> QED
  BY <1>1, <1>2

LEMMA UserInvStep == UserInv /\ [MessageNext]_messageVars => UserInv'
<1> SUFFICES ASSUME UserInv, [MessageNext]_messageVars, NEW u \in User PROVE Budget(u)'
  BY MessageTypeStep DEF UserInv
<1>1. CASE \E v : UserAllow(v)
  BY <1>1, UserAllowBudget
<1>2. CASE UserCleanup
  <2>1. /\ u \in known' <=> u \in known /\ unseen[u] <= UserExpiry
        /\ quota' = quota /\ unseen' = unseen /\ credit' = credit
    BY <1>2 DEF UserCleanup
  <2>2. unseen[u] \in 0 .. UserExpiry + 1 /\ Budget(u)
    BY DEF UserInv, MessageTypeOK
  <2> QED
    BY <2>1, <2>2, MessageLimitsAssumption DEF Budget
<1>3. CASE UserTick
  <2>1. /\ known' = known
        /\ quota'[u] = (IF quota[u] < UserBurst THEN quota[u] + 1 ELSE UserBurst)
        /\ credit'[u] = (IF credit[u] < UserBurst THEN credit[u] + 1 ELSE UserBurst)
        /\ unseen'[u] = (IF unseen[u] <= UserExpiry THEN unseen[u] + 1 ELSE unseen[u])
    BY <1>3 DEF UserTick
  <2>2. /\ quota[u] \in 0 .. UserBurst /\ unseen[u] \in 0 .. UserExpiry + 1
        /\ credit[u] \in 0 .. UserBurst /\ Budget(u)
    BY DEF UserInv, MessageTypeOK, Budget
  <2> QED
    BY <2>1, <2>2, MessageLimitsAssumption DEF Budget
<1>4. CASE FrameTick \/ UNCHANGED messageVars
  <2>1. UNCHANGED userVars
    BY <1>4 DEF FrameTick, messageVars
  <2> QED
    BY <2>1 DEF UserInv, Budget, userVars
<1> QED
  BY <1>1, <1>2, <1>3, <1>4 DEF MessageNext, Text, Frame

\* However many connections a user has and whatever the clean-up drops, he
\* gets no message through that a bucket which is never dropped would refuse.
THEOREM UserBudgetAlwaysKept == Spec => []UserBudgetKept
<1>1. Init => UserInv
  BY UserInvInit DEF Init
<1>2. UserInv /\ [Next]_vars => UserInv'
  BY Parts, UserInvStep
<1>3. UserInv => UserBudgetKept
  BY DEF UserInv, Budget, UserBudgetKept
<1> QED
  BY <1>1, <1>2, <1>3, PTL DEF Spec

-----------------------------------------------------------------------------
(* Frames.  The latest frames are those of the window, as many as it       *)
(* counts; what came before them is at least as old as the window, and     *)
(* what came before the MaxFPS frames of the window before is a second old *)
(* since that window was full a second before this one began.              *)

Windows(c) ==
    /\ \A i \in Remembered : i > frames[c] => recent[c][i] >= frameAge[c]
    /\ \A i \in Remembered : i > frames[c] + MaxFPS => recent[c][i] >= Second

FrameInv == MessageTypeOK /\ \A c \in Conn : Windows(c)

LEMMA FrameInvInit == MessageInit => FrameInv
  BY MessageTypeInit, MessageLimitsAssumption DEF MessageInit, FrameInv, Windows

\* A frame is the first of a window, or one more of the same.
LEMMA FrameAllowedWindows ==
    ASSUME FrameInv, NEW c \in Conn, FrameAllowed(c), NEW d \in Conn
    PROVE  Windows(d)'
<1>1. CASE d # c
  <2>1. frames'[d] = frames[d] /\ frameAge'[d] = frameAge[d] /\ recent'[d] = recent[d]
    BY <1>1 DEF FrameInv, MessageTypeOK, FrameAllowed
  <2> QED
    BY <2>1 DEF FrameInv, Windows
<1>2. CASE d = c
  <2>1. /\ recent'[c][1] = 0
        /\ \A i \in Remembered \ {1} : i - 1 \in Remembered /\ recent'[c][i] = recent[c][i - 1]
    BY RecentAfterFrame DEF FrameInv
  <2>2. /\ frames[c] \in 0 .. MaxFPS /\ frameAge[c] \in 0 .. Second
        /\ recent[c] \in [Remembered -> 0 .. Second] /\ Windows(c)
    BY DEF FrameInv, MessageTypeOK
  <2>3. \/ frameAge[c] >= Second /\ frames'[c] = 1 /\ frameAge'[c] = 0
        \/ frames'[c] = frames[c] + 1 /\ frameAge'[c] = frameAge[c]
    BY DEF FrameInv, MessageTypeOK, FrameAllowed, WindowOver, Started
  <2>4. ASSUME NEW i \in Remembered
        PROVE  /\ i > frames'[c] => recent'[c][i] >= frameAge'[c]
               /\ i > frames'[c] + MaxFPS => recent'[c][i] >= Second
    <3>1. i \in Nat /\ i >= 1 /\ MaxFPS \in Nat
      BY MessageLimitsAssumption DEF Remembered
    <3>2. i > frames'[c] => i # 1
      BY <2>2, <2>3, <3>1
    <3>3. CASE i # 1
      <4>1. /\ recent'[c][i] = recent[c][i - 1] /\ recent[c][i - 1] \in 0 .. Second
            /\ i - 1 > frames[c] => recent[c][i - 1] >= frameAge[c]
            /\ i - 1 > frames[c] + MaxFPS => recent[c][i - 1] >= Second
        BY <2>1, <2>2, <3>3 DEF Windows
      <4> QED
        BY <2>2, <2>3, <3>1, <4>1, MessageLimitsAssumption
    <3> QED
      BY <2>2, <2>3, <3>1, <3>2, <3>3
  <2> QED
    BY <1>2, <2>4 DEF Windows
<1> QED
  BY <1>1, <1>2

LEMMA FrameTickWindows ==
    ASSUME FrameInv, FrameTick, NEW c \in Conn PROVE Windows(c)'
<1>1. /\ frames' = frames /\ frameAge'[c] = Aged(frameAge[c])
      /\ \A i \in Remembered : recent'[c][i] = Aged(recent[c][i])
  BY DEF FrameTick
<1>2. \A m, n \in 0 .. Second : m <= n => Aged(m) <= Aged(n)
  BY MessageLimitsAssumption DEF Aged
<1>3. Aged(Second) = Second
  BY MessageLimitsAssumption DEF Aged
<1>4. /\ frameAge[c] \in 0 .. Second /\ frames[c] \in Nat /\ Second \in 0 .. Second
      /\ \A i \in Remembered : recent[c][i] \in 0 .. Second
  BY MessageLimitsAssumption DEF FrameInv, MessageTypeOK
<1>5. \A i \in Remembered :
          recent'[c][i] \in 0 .. Second /\ frameAge'[c] \in 0 .. Second
  BY <1>1, <1>4, MessageLimitsAssumption DEF Aged
<1>6. Windows(c)
  BY DEF FrameInv
<1> QED
  BY <1>1, <1>2, <1>3, <1>4, <1>5, <1>6 DEF Windows

LEMMA FrameInvStep == FrameInv /\ [MessageNext]_messageVars => FrameInv'
<1> SUFFICES ASSUME FrameInv, [MessageNext]_messageVars, NEW c \in Conn PROVE Windows(c)'
  BY MessageTypeStep DEF FrameInv
<1>1. CASE \E d \in Conn : FrameAllowed(d)
  BY <1>1, FrameAllowedWindows
<1>2. CASE FrameTick
  BY <1>2, FrameTickWindows
<1>3. CASE UNCHANGED frameVars
  BY <1>3 DEF frameVars, FrameInv, Windows
<1> QED
  BY <1>1, <1>2, <1>3 DEF MessageNext, Text, Frame, UserCleanup, UserTick, messageVars

\* The windows of the limiter are fixed, and still no second, wherever it
\* begins, sees more than twice MaxFPS frames of one connection accepted.
THEOREM FrameRateKept == Spec => []FrameRate
<1>1. Init => FrameInv
  BY FrameInvInit DEF Init
<1>2. FrameInv /\ [Next]_vars => FrameInv'
  BY Parts, FrameInvStep
<1>3. FrameInv => FrameRate
  <2> SUFFICES ASSUME FrameInv, NEW c \in Conn PROVE recent[c][2 * MaxFPS + 1] >= Second
    BY DEF FrameRate
  <2>1. frames[c] \in 0 .. MaxFPS /\ Windows(c)
    BY DEF FrameInv, MessageTypeOK
  <2>2. 2 * MaxFPS + 1 \in Remembered /\ 2 * MaxFPS + 1 > frames[c] + MaxFPS
    BY <2>1, MessageLimitsAssumption DEF Remembered
  <2> QED
    BY <2>1, <2>2 DEF Windows
<1> QED
  BY <1>1, <1>2, <1>3, PTL DEF Spec

-----------------------------------------------------------------------------
(* Bans.  A ban in force has its entry, and what its crowd can still do is *)
(* bounded: each request that was in when it began is still on its way, is *)
(* counted, has helped to prolong it or is gone.                           *)

Crowded(a) == InForce(a) => Threshold * renewed[a] + count[a] + Cardinality(Active(a)) <= crowd[a]

BanInv == RestTypeOK /\ BanStands /\ \A a \in IP : Crowded(a)

\* A request that ends is no longer active.
LEMMA EndActive ==
    ASSUME NEW r \in Req, NEW a, r \in Active(a)
    PROVE  Cardinality(Active(a) \ {r}) = Cardinality(Active(a)) - 1
  BY ActiveFinite, FS_RemoveElement

\* What it takes to prolong a ban once more.
LEMMA OnceMore ==
    ASSUME NEW k \in Nat PROVE Threshold * (k + 1) = Threshold * k + Threshold /\ Threshold * k \in Nat
  BY RateLimiterAssumption

LEMMA BanStandsStep ==
    ASSUME RestTypeOK, BanStands, [RestNext]_restVars
    PROVE  BanStands'
<1> USE RateLimiterAssumption
<1>1. ASSUME NEW r \in Req, NEW a \in IP, Pass(r, a) PROVE BanStands'
  BY <1>1 DEF BanStands, Pass, InForce
<1>2. ASSUME NEW r \in Req, GetLimiter(r) \/ Serve(r) \/ Reject(r) PROVE BanStands'
  BY <1>2 DEF BanStands, GetLimiter, Serve, Reject, InForce, maps
<1>3. ASSUME NEW r \in Req, RecordViolation(r) PROVE BanStands'
  BY <1>3 DEF BanStands, RecordViolation, Ban, InForce, RestTypeOK
<1>4. CASE RestCleanup
  BY <1>4 DEF BanStands, RestCleanup, OverBans, InForce
<1>5. CASE RestTick
  BY <1>5 DEF BanStands, RestTick, InForce, RestTypeOK
<1>6. CASE UNCHANGED restVars
  BY <1>6 DEF BanStands, restVars, maps, InForce
<1> QED
  BY <1>1, <1>2, <1>3, <1>4, <1>5, <1>6 DEF RestNext, Proceed

\* A request that records a violation gives up its place among the active.
LEMMA RecordKeeps ==
    ASSUME BanInv, NEW r \in Req, RecordViolation(r), NEW a \in IP
    PROVE  Crowded(a)'
<1> DEFINE b == addr[r]
           n == Cardinality(Active(a))
           m == Cardinality(Active(a)')
           p == Threshold * renewed[a]
           q == Threshold * renewed'[a]
<1>1. /\ pc[r] = "record" /\ pc' = [pc EXCEPT ![r] = "idle"] /\ addr' = addr /\ b \in IP
      /\ count[a] \in 0 .. Threshold - 1 /\ left[a] \in -1 .. BanTime
      /\ renewed[a] \in Nat /\ crowd[a] \in Nat
      /\ Threshold \in Nat /\ Threshold >= 2 /\ BanTime \in Nat
  BY RateLimiterAssumption DEF BanInv, RestTypeOK, RecordViolation, Enter
<1>2. CASE a # b
  <2>1. Active(a)' = Active(a)
    BY <1>1, <1>2 DEF Active, BanInv, RestTypeOK
  <2>2. count'[a] = count[a] /\ left'[a] = left[a] /\ crowd'[a] = crowd[a] /\ renewed'[a] = renewed[a]
    BY <1>2 DEF RecordViolation, Ban, Tally, banVars, BanInv, RestTypeOK
  <2> QED
    BY <2>1, <2>2 DEF BanInv, Crowded, InForce
<1>3. CASE a = b
  <2>1. r \in Active(a) /\ Active(a)' = Active(a) \ {r}
    BY <1>1, <1>3 DEF Active, BanInv, RestTypeOK
  <2>2. m = n - 1 /\ n \in Nat
    BY <2>1, EndActive, ActiveFinite
  <2>3. InForce(a) => p + count[a] + n <= crowd[a]
    BY DEF BanInv, Crowded
  <2>4. p \in Nat
    BY <1>1, OnceMore
  <2>5. \/ /\ count'[a] = 1 \/ count'[a] = count[a] + 1
           /\ left'[a] = left[a] /\ crowd'[a] = crowd[a] /\ renewed'[a] = renewed[a]
        \/ /\ count[a] + 1 >= Threshold /\ count'[a] = 0 /\ Tally(a, r)
    BY <1>1, <1>3 DEF RecordViolation, Ban, BanInv, RestTypeOK, banVars
  <2>6. CASE /\ count'[a] = 1 \/ count'[a] = count[a] + 1
             /\ left'[a] = left[a] /\ crowd'[a] = crowd[a] /\ renewed'[a] = renewed[a]
    <3>1. q = p
      BY <2>6
    <3> HIDE DEF n, m, p, q
    <3>2. InForce(a)' => q + count'[a] + m <= crowd'[a]
      BY <1>1, <2>2, <2>3, <2>4, <2>6, <3>1 DEF InForce
    <3> QED
      BY <3>2 DEF Crowded, q, m
  <2>7. CASE count[a] + 1 >= Threshold /\ count'[a] = 0 /\ Tally(a, r)
    <3>1. CASE InForce(a)
      <4>1. renewed'[a] = renewed[a] + 1 /\ crowd'[a] = crowd[a]
        BY <2>7, <3>1 DEF Tally, BanInv, RestTypeOK
      <4>2. q = p + Threshold
        BY <1>1, <4>1, OnceMore
      <4> HIDE DEF n, m, p, q
      <4>3. q + count'[a] + m <= crowd'[a]
        BY <1>1, <2>2, <2>3, <2>4, <2>7, <3>1, <4>1, <4>2
      <4> QED
        BY <4>3 DEF Crowded, q, m
    <3>2. CASE ~InForce(a)
      <4>1. renewed'[a] = 0 /\ crowd'[a] = m
        BY <2>1, <2>7, <3>2 DEF Tally, BanInv, RestTypeOK
      <4>2. q = 0 /\ m \in Int
        BY <1>1, <2>2, <4>1
      <4> HIDE DEF n, m, p, q
      <4>3. q + count'[a] + m <= crowd'[a]
        BY <2>7, <4>1, <4>2
      <4> QED
        BY <4>3 DEF Crowded, q, m
    <3> QED
      BY <3>1, <3>2
  <2> QED
    BY <2>5, <2>6, <2>7
<1> QED
  BY <1>2, <1>3

\* Steps that neither ban nor count nor begin a request of a banned address.
LEMMA QuietKeeps ==
    ASSUME BanInv, NEW a \in IP, InForce(a)' => InForce(a),
           count'[a] \in Nat, count'[a] <= count[a],
           InForce(a)' => crowd'[a] = crowd[a] /\ renewed'[a] = renewed[a],
           InForce(a) => Active(a)' \subseteq Active(a)
    PROVE  Crowded(a)'
<1> DEFINE n == Cardinality(Active(a))
           m == Cardinality(Active(a)')
           p == Threshold * renewed[a]
<1> SUFFICES ASSUME InForce(a)' PROVE Threshold * renewed'[a] + count'[a] + m <= crowd'[a]
  BY DEF Crowded
<1>1. m <= n /\ m \in Nat /\ n \in Nat
  BY ActiveFinite, FS_Subset, FS_CardinalityType
<1>2. /\ p + count[a] + n <= crowd[a] /\ count[a] \in Nat
      /\ crowd[a] \in Nat /\ renewed[a] \in Nat
  BY RateLimiterAssumption DEF BanInv, Crowded, RestTypeOK
<1>3. p \in Nat /\ Threshold * renewed'[a] = p
  BY <1>2, OnceMore
<1> HIDE DEF n, m, p
<1> QED
  BY <1>1, <1>2, <1>3

LEMMA BanInvInit == RestInit => BanInv
<1> SUFFICES ASSUME RestInit PROVE BanInv
  OBVIOUS
<1>1. \A a \in IP : ~InForce(a)
  BY DEF RestInit, InForce
<1> QED
  BY <1>1, RestTypeInit DEF BanInv, BanStands, Crowded

LEMMA BanStep ==
    ASSUME BanInv, [RestNext]_restVars, NEW a \in IP
    PROVE  Crowded(a)'
<1>0. left[a] \in -1 .. BanTime /\ count[a] \in Nat /\ BanTime \in Nat
  BY RateLimiterAssumption DEF BanInv, RestTypeOK
<1>1. ASSUME NEW r \in Req, NEW b \in IP, Pass(r, b) PROVE Crowded(a)'
  <2>1. left' = left /\ count' = count /\ crowd' = crowd /\ renewed' = renewed
    BY <1>1 DEF Pass, banVars
  <2>2. InForce(a) => a # b
    BY <1>1 DEF Pass, BanInv, BanStands
  <2>3. a # b => Active(a)' \subseteq Active(a)
    BY <1>1 DEF Active, Pass, Enter, BanInv, RestTypeOK
  <2>4. InForce(a)' => InForce(a)
    BY <2>1 DEF InForce
  <2> QED
    BY <1>0, <2>1, <2>2, <2>3, <2>4, QuietKeeps
<1>2. ASSUME NEW r \in Req, GetLimiter(r) \/ Serve(r) \/ Reject(r) PROVE Crowded(a)'
  <2>1. left' = left /\ count' = count /\ addr' = addr /\ pc[r] # "idle"
        /\ crowd' = crowd /\ renewed' = renewed
        /\ \E to : pc' = [pc EXCEPT ![r] = to]
    BY <1>2 DEF GetLimiter, Serve, Reject, Enter, maps, banVars
  <2>2. Active(a)' \subseteq Active(a)
    BY <2>1 DEF Active, BanInv, RestTypeOK
  <2>3. InForce(a)' => InForce(a)
    BY <2>1 DEF InForce
  <2> QED
    BY <1>0, <2>1, <2>2, <2>3, QuietKeeps
<1>3. CASE RestCleanup \/ RestTick \/ UNCHANGED restVars
  <2>1. pc' = pc /\ addr' = addr
    BY <1>3 DEF RestCleanup, RestTick, restVars
  <2>2. Active(a)' = Active(a)
    BY <2>1 DEF Active
  <2>3. \/ left'[a] = left[a] /\ crowd'[a] = crowd[a] /\ renewed'[a] = renewed[a]
        \/ left[a] > 0 /\ crowd'[a] = crowd[a] /\ renewed'[a] = renewed[a]
        \/ left'[a] < 0
    <3>1. CASE RestCleanup \/ UNCHANGED restVars
      BY <3>1 DEF RestCleanup, restVars, maps, banVars
    <3>2. CASE RestTick
      BY <1>0, <3>2 DEF RestTick, InForce
    <3> QED
      BY <1>3, <3>1, <3>2
  <2>4. InForce(a)' => InForce(a) /\ crowd'[a] = crowd[a] /\ renewed'[a] = renewed[a]
    <3>1. left'[a] \in Int
      BY RestTypeStep DEF BanInv, RestTypeOK
    <3> QED
      BY <1>0, <2>3, <3>1 DEF InForce
  <2>5. count'[a] = 0 \/ count'[a] = count[a]
    BY <1>3 DEF RestCleanup, RestTick, restVars, maps
  <2> QED
    BY <1>0, <2>2, <2>4, <2>5, QuietKeeps
<1> QED
  BY <1>1, <1>2, <1>3, RecordKeeps DEF RestNext, Proceed

LEMMA BanInvStep == BanInv /\ [RestNext]_restVars => BanInv'
<1> SUFFICES ASSUME BanInv, [RestNext]_restVars PROVE BanInv'
  OBVIOUS
<1>1. RestTypeOK' /\ BanStands'
  BY RestTypeStep, BanStandsStep DEF BanInv
<1>2. \A a \in IP : Crowded(a)'
  BY BanStep
<1> QED
  BY <1>1, <1>2 DEF BanInv

\* A ban stays on the map until its time is over.
THEOREM BanAlwaysStands == Spec => []BanStands
<1>1. Init => BanInv
  BY BanInvInit DEF Init
<1>2. BanInv /\ [Next]_vars => BanInv'
  BY Parts, BanInvStep
<1>3. BanInv => BanStands
  BY DEF BanInv
<1> QED
  BY <1>1, <1>2, <1>3, PTL DEF Spec

\* However many requests are in when a ban begins, their violations prolong it
\* at most once for each Threshold of them.
THEOREM RenewalsAlwaysBounded == Spec => []RenewalsBounded
<1>1. Init => BanInv
  BY BanInvInit DEF Init
<1>2. BanInv /\ [Next]_vars => BanInv'
  BY Parts, BanInvStep
<1>3. BanInv => RenewalsBounded
  <2> SUFFICES ASSUME BanInv, NEW a \in IP, InForce(a) PROVE Threshold * renewed[a] <= crowd[a]
    BY DEF RenewalsBounded
  <2> DEFINE p == Threshold * renewed[a]
             n == Cardinality(Active(a))
  <2>1. p + count[a] + n <= crowd[a]
    BY DEF BanInv, Crowded
  <2>2. renewed[a] \in Nat /\ crowd[a] \in Nat /\ count[a] \in Nat
    BY RateLimiterAssumption DEF BanInv, RestTypeOK
  <2>3. p \in Nat /\ n \in Nat
    BY <2>2, OnceMore, ActiveFinite
  <2> HIDE DEF p, n
  <2>4. p <= crowd[a]
    BY <2>1, <2>2, <2>3
  <2> QED
    BY <2>4 DEF p
<1> QED
  BY <1>1, <1>2, <1>3, PTL DEF Spec

-----------------------------------------------------------------------------
(* The budgets of addresses.  A prompt request draws from the bucket on    *)
(* the map, which holds no more than the one that is never dropped.  A     *)
(* bucket that is old enough to be dropped has no prompt request and has   *)
(* filled up, so that a new one gives nothing away.                        *)

Level(a) == IF limiters[a] = NoBucket THEN Burst ELSE tokens[limiters[a]]

Holds(r) ==
    pc[r] = "allow" =>
        /\ held[r] \in Bucket
        /\ Prompt(r) => held[r] = limiters[addr[r]] /\ lastSeen[addr[r]] <= waited[r]

Covered(a) ==
    /\ Level(a) <= spare[a] /\ spare[a] <= Burst
    /\ lastSeen[a] - Grace <= spare[a]
    /\ limiters[a] = NoBucket => lastSeen[a] = Expiry + 1

BudgetInv == RestTypeOK /\ (\A r \in Req : Holds(r)) /\ (\A a \in IP : Covered(a))

\* The numbers that the invariant is about.
LEMMA BudgetTypes ==
    ASSUME RestTypeOK, NEW a \in IP
    PROVE  /\ Level(a) \in 0 .. Burst /\ spare[a] \in Int /\ lastSeen[a] \in 0 .. Expiry + 1
           /\ Burst \in Nat /\ Burst >= 1 /\ Expiry \in Nat
           /\ Grace \in Nat /\ Grace = Expiry + 1 - Burst
<1>1. Level(a) \in 0 .. Burst
  BY RateLimiterAssumption DEF RestTypeOK, Level
<1> QED
  BY <1>1, RateLimiterAssumption, GraceNat DEF RestTypeOK, Grace

LEMMA BudgetInvInit == RestInit => BudgetInv
<1> SUFFICES ASSUME RestInit PROVE BudgetInv
  OBVIOUS
<1>1. RestTypeOK
  BY RestTypeInit
<1>2. ASSUME NEW a \in IP PROVE Covered(a)
  <2>1. spare[a] = Burst /\ Level(a) = Burst /\ lastSeen[a] = Expiry + 1
    BY DEF RestInit, Level
  <2> QED
    BY <1>1, <2>1, BudgetTypes DEF Covered
<1>3. \A r \in Req : Holds(r)
  BY DEF RestInit, Holds
<1> QED
  BY <1>1, <1>2, <1>3 DEF BudgetInv

\* Steps that leave the buckets alone and only let go of them.
LEMMA BudgetUnchanged ==
    ASSUME BudgetInv, RestTypeOK', UNCHANGED <<limiters, lastSeen, tokens, spare>>,
           \A r \in Req : pc'[r] = "allow" =>
               pc[r] = "allow" /\ held'[r] = held[r] /\ addr'[r] = addr[r] /\ waited'[r] = waited[r]
    PROVE  BudgetInv'
<1>1. ASSUME NEW a \in IP PROVE Covered(a)'
  BY DEF BudgetInv, Covered, Level
<1>2. ASSUME NEW r \in Req PROVE Holds(r)'
  BY DEF BudgetInv, Holds, Prompt
<1> QED
  BY <1>1, <1>2 DEF BudgetInv

LEMMA GetLimiterBudget ==
    ASSUME BudgetInv, RestTypeOK', NEW r \in Req, GetLimiter(r) PROVE BudgetInv'
<1> DEFINE c == addr[r]
<1>1. PICK b \in Bucket :
          /\ held' = [held EXCEPT ![r] = b]
          /\ limiters' = [limiters EXCEPT ![c] = b]
          /\ limiters[c] = NoBucket =>
                 b \in Unused /\ tokens' = [tokens EXCEPT ![b] = Burst]
          /\ limiters[c] # NoBucket => b = limiters[c] /\ tokens' = tokens
  BY DEF BudgetInv, RestTypeOK, GetLimiter, Unused
<1>2. /\ pc[r] = "limiter" /\ pc' = [pc EXCEPT ![r] = "allow"] /\ addr' = addr
      /\ lastSeen' = [lastSeen EXCEPT ![c] = 0] /\ spare' = spare /\ waited' = waited /\ c \in IP
  BY DEF GetLimiter, Enter, Seen, BudgetInv, RestTypeOK, budgetVars
<1>3. /\ pc \in [Req -> {"idle", "limiter", "allow", "record"}] /\ NoBucket \notin Bucket
      /\ held \in [Req -> Bucket \cup {NoBucket}] /\ limiters \in [IP -> Bucket \cup {NoBucket}]
      /\ tokens \in [Bucket -> 0 .. Burst] /\ lastSeen \in [IP -> 0 .. Expiry + 1]
      /\ waited \in [Req -> 0 .. Grace + 1] /\ addr \in [Req -> IP] /\ Grace \in Nat
  BY RateLimiterAssumption, GraceNat DEF BudgetInv, RestTypeOK
<1> HIDE DEF c
<1>4. ASSUME NEW a \in IP PROVE Covered(a)'
  <2>1. Covered(a) /\ Level(a) \in 0 .. Burst /\ Burst \in Nat
    BY BudgetTypes DEF BudgetInv
  <2>2. CASE a # c
    <3>1. Level(a)' = Level(a)
      BY <1>1, <1>2, <1>3, <2>2 DEF Level, Unused
    <3> QED
      BY <1>1, <1>2, <1>3, <2>1, <2>2, <3>1 DEF Covered
  <2>3. CASE a = c
    <3>1. Level(a)' = Level(a)
      BY <1>1, <1>2, <1>3, <2>3 DEF Level
    <3>2. lastSeen'[a] = 0 /\ spare'[a] = spare[a] /\ limiters'[a] # NoBucket
      BY <1>1, <1>2, <1>3, <2>3
    <3>3. Level(a) <= spare[a] /\ spare[a] <= Burst /\ spare[a] \in Int
      BY <2>1, BudgetTypes DEF Covered, BudgetInv
    <3>4. 0 - Grace <= spare[a]
      BY <1>3, <2>1, <3>3
    <3> QED
      BY <3>1, <3>2, <3>3, <3>4 DEF Covered
  <2> QED
    BY <2>2, <2>3
<1>5. ASSUME NEW q \in Req PROVE Holds(q)'
  <2>1. CASE q = r
    <3>1. held'[q] = b /\ limiters'[addr'[q]] = b /\ lastSeen'[addr'[q]] = 0 /\ 0 <= waited'[q]
      BY <1>1, <1>2, <1>3, <2>1 DEF c
    <3> QED
      BY <3>1 DEF Holds
  <2>2. CASE q # r
    <3>1. pc'[q] = pc[q] /\ held'[q] = held[q] /\ addr'[q] = addr[q] /\ waited'[q] = waited[q]
      BY <1>1, <1>2, <1>3, <2>2
    <3>2. Holds(q)
      BY DEF BudgetInv
    <3>3. CASE addr[q] = c
      <4>1. lastSeen'[c] = 0 /\ 0 <= waited[q] /\ limiters'[c] = b
        BY <1>1, <1>2, <1>3
      <4>2. limiters[c] # NoBucket => b = limiters[c]
        BY <1>1
      <4> QED
        BY <1>3, <3>1, <3>2, <3>3, <4>1, <4>2 DEF Holds, Prompt
    <3>4. CASE addr[q] # c
      <4>1. limiters'[addr[q]] = limiters[addr[q]] /\ lastSeen'[addr[q]] = lastSeen[addr[q]]
        BY <1>1, <1>2, <1>3, <3>4
      <4> QED
        BY <3>1, <3>2, <4>1 DEF Holds, Prompt
    <3> QED
      BY <3>3, <3>4
  <2> QED
    BY <2>1, <2>2
<1> QED
  BY <1>4, <1>5 DEF BudgetInv

LEMMA ServeBudget ==
    ASSUME BudgetInv, RestTypeOK', NEW r \in Req, Serve(r) PROVE BudgetInv'
<1> DEFINE c == addr[r]
           b == held[r]
<1>1. /\ pc[r] = "allow" /\ pc' = [pc EXCEPT ![r] = "idle"] /\ addr' = addr
      /\ held' = [held EXCEPT ![r] = NoBucket] /\ tokens' = [tokens EXCEPT ![b] = @ - 1]
      /\ waited' = [waited EXCEPT ![r] = 0] /\ tokens[b] > 0
      /\ spare' = [spare EXCEPT ![c] = IF Prompt(r) THEN @ - 1 ELSE @]
      /\ limiters' = limiters /\ lastSeen' = lastSeen /\ c \in IP
  BY DEF Serve, Enter, maps, BudgetInv, RestTypeOK
<1>2. /\ pc \in [Req -> {"idle", "limiter", "allow", "record"}] /\ NoBucket \notin Bucket
      /\ held \in [Req -> Bucket \cup {NoBucket}] /\ limiters \in [IP -> Bucket \cup {NoBucket}]
      /\ tokens \in [Bucket -> 0 .. Burst] /\ spare \in [IP -> Int]
      /\ waited \in [Req -> 0 .. Grace + 1] /\ Grace \in Nat
      /\ b \in Bucket /\ Holds(r)
  BY <1>1, RateLimiterAssumption, GraceNat DEF BudgetInv, RestTypeOK, Holds
<1>3. Prompt(r) => b = limiters[c] /\ lastSeen[c] <= waited[r] /\ waited[r] <= Grace
  BY <1>1, <1>2 DEF Holds, Prompt
<1> HIDE DEF b, c
<1>4. ASSUME NEW a \in IP PROVE Covered(a)'
  <2>1. Level(a)' = IF limiters[a] = b THEN Level(a) - 1 ELSE Level(a)
    BY <1>1, <1>2 DEF Level
  <2>2. /\ Level(a) \in 0 .. Burst /\ Burst \in Nat /\ spare[a] \in Int
        /\ lastSeen[a] \in Int /\ Grace \in Nat
    BY BudgetTypes DEF BudgetInv
  <2>3. Covered(a)
    BY DEF BudgetInv
  <2>4. CASE a = c /\ Prompt(r)
    <3>1. spare'[a] = spare[a] - 1 /\ Level(a)' = Level(a) - 1 /\ Level(a) > 0
      BY <1>1, <1>2, <1>3, <2>1, <2>4 DEF Level
    <3>2. lastSeen[a] <= Grace
      BY <1>1, <1>2, <1>3, <2>2, <2>4
    <3> HIDE DEF Level, Grace
    <3> QED
      BY <1>1, <2>2, <2>3, <3>1, <3>2 DEF Covered
  <2>5. CASE ~(a = c /\ Prompt(r))
    <3>1. spare'[a] = spare[a]
      BY <1>1, <1>2, <2>5
    <3>2. Level(a)' <= spare[a]
      BY <2>1, <2>2, <2>3 DEF Covered
    <3> QED
      BY <1>1, <2>3, <3>1, <3>2 DEF Covered
  <2> QED
    BY <2>4, <2>5
<1>5. ASSUME NEW q \in Req PROVE Holds(q)'
  BY <1>1, <1>2 DEF Holds, Prompt, BudgetInv
<1> QED
  BY <1>4, <1>5 DEF BudgetInv

\* The clean-up.
LEMMA CleanupBudget ==
    ASSUME BudgetInv, RestTypeOK', RestCleanup PROVE BudgetInv'
<1>1. UNCHANGED <<pc, addr, held, tokens, lastSeen, waited, spare>>
  BY DEF RestCleanup, budgetVars
<1>2. \A a \in IP : limiters'[a] = IF lastSeen[a] > Expiry THEN NoBucket ELSE limiters[a]
  BY DEF RestCleanup
<1>3. ASSUME NEW a \in IP PROVE Covered(a)'
  <2>1. CASE lastSeen[a] > Expiry
    <3>1. Level(a)' = Burst
      BY <1>2, <2>1 DEF Level
    <3>2. Covered(a)
      BY DEF BudgetInv
    <3>3. lastSeen[a] = Expiry + 1 /\ Burst <= spare[a]
      BY <2>1, <3>2, BudgetTypes DEF Covered, BudgetInv
    <3> QED
      BY <1>1, <3>1, <3>2, <3>3 DEF Covered
  <2>2. CASE ~(lastSeen[a] > Expiry)
    BY <1>1, <1>2, <2>2 DEF Covered, Level, BudgetInv
  <2> QED
    BY <2>1, <2>2
<1>4. ASSUME NEW r \in Req PROVE Holds(r)'
  <2>1. addr[r] \in IP /\ waited[r] \in Nat
    BY GraceNat DEF BudgetInv, RestTypeOK
  <2>2. Holds(r)
    BY DEF BudgetInv
  <2>3. pc[r] = "allow" /\ Prompt(r) => lastSeen[addr[r]] <= Expiry
    BY <2>1, <2>2, BudgetTypes DEF Holds, Prompt, BudgetInv
  <2>4. pc[r] = "allow" /\ Prompt(r) => limiters'[addr[r]] = limiters[addr[r]]
    BY <1>2, <2>1, <2>3, BudgetTypes DEF BudgetInv
  <2> QED
    BY <1>1, <2>2, <2>4 DEF Holds, Prompt
<1> QED
  BY <1>3, <1>4 DEF BudgetInv

LEMMA TickBudget ==
    ASSUME BudgetInv, RestTypeOK', RestTick PROVE BudgetInv'
<1>1. /\ UNCHANGED <<pc, addr, held, limiters>>
      /\ tokens' = [b \in Bucket |-> Capped(tokens[b] + 1, Burst)]
      /\ \A a \in IP : /\ spare'[a] = Capped(spare[a] + 1, Burst)
                       /\ lastSeen'[a] = Capped(lastSeen[a] + 1, Expiry + 1)
      /\ \A r \in Req : pc[r] = "allow" => waited'[r] = Capped(waited[r] + 1, Grace + 1)
  BY DEF RestTick
<1>2. ASSUME NEW a \in IP PROVE Covered(a)'
  <2>1. Level(a)' = Capped(Level(a) + 1, Burst)
    BY <1>1, RateLimiterAssumption DEF Level, Capped, BudgetInv, RestTypeOK
  <2>2. Covered(a)
    BY DEF BudgetInv
  <2>3. /\ spare'[a] = Capped(spare[a] + 1, Burst)
        /\ lastSeen'[a] = Capped(lastSeen[a] + 1, Expiry + 1)
        /\ limiters'[a] = limiters[a]
    BY <1>1
  <2>4. /\ Level(a) \in 0 .. Burst /\ spare[a] \in Int /\ lastSeen[a] \in 0 .. Expiry + 1
        /\ Burst \in Nat /\ Burst >= 1 /\ Expiry \in Nat
        /\ Grace \in Nat /\ Grace = Expiry + 1 - Burst
    BY BudgetTypes DEF BudgetInv
  <2> HIDE DEF Level, Grace
  <2> QED
    BY <2>1, <2>2, <2>3, <2>4 DEF Covered, Capped
<1>3. ASSUME NEW r \in Req PROVE Holds(r)'
  <2>1. addr[r] \in IP /\ waited[r] \in Nat /\ Grace \in Nat /\ lastSeen[addr[r]] \in Nat
    BY GraceNat, RateLimiterAssumption DEF BudgetInv, RestTypeOK
  <2>2. Holds(r)
    BY DEF BudgetInv
  <2>3. pc[r] = "allow" /\ Prompt(r)' => Prompt(r) /\ waited'[r] = waited[r] + 1
    BY <1>1, <2>1 DEF Prompt, Capped
  <2>4. lastSeen'[addr[r]] <= lastSeen[addr[r]] + 1
    BY <1>1, <2>1, RateLimiterAssumption DEF Capped
  <2>5. lastSeen'[addr[r]] \in Int
    BY <2>1, RateLimiterAssumption DEF RestTypeOK
  <2>6. pc[r] = "allow" /\ Prompt(r)' => lastSeen'[addr[r]] <= waited'[r]
    BY <2>1, <2>2, <2>3, <2>4, <2>5 DEF Holds
  <2> QED
    BY <1>1, <2>2, <2>3, <2>6 DEF Holds
<1> QED
  BY <1>2, <1>3 DEF BudgetInv

LEMMA BudgetInvStep == BudgetInv /\ [RestNext]_restVars => BudgetInv'
<1> SUFFICES ASSUME BudgetInv, [RestNext]_restVars PROVE BudgetInv'
  OBVIOUS
<1>1. RestTypeOK'
  BY RestTypeStep DEF BudgetInv
<1>2. ASSUME NEW r \in Req, Reject(r) PROVE BudgetInv'
  <2>1. UNCHANGED <<limiters, lastSeen, tokens, spare>>
    BY <1>2 DEF Reject, maps
  <2>2. /\ pc' = [pc EXCEPT ![r] = "record"] /\ held' = [held EXCEPT ![r] = NoBucket]
        /\ waited' = [waited EXCEPT ![r] = 0] /\ addr' = addr
    BY <1>2 DEF Reject, Enter
  <2> QED
    BY <1>1, <2>1, <2>2, BudgetUnchanged DEF BudgetInv, RestTypeOK
<1>3. ASSUME NEW r \in Req, RecordViolation(r) \/ \E a \in IP : Pass(r, a) PROVE BudgetInv'
  <2>1. UNCHANGED <<limiters, lastSeen, tokens, spare, held, waited>>
    BY <1>3 DEF RecordViolation, Pass, budgetVars
  <2>2. /\ \E to \in {"idle", "limiter"} : pc' = [pc EXCEPT ![r] = to]
        /\ pc[r] # "allow" /\ \A q \in Req : q # r => addr'[q] = addr[q]
    BY <1>3 DEF RecordViolation, Pass, Enter, BudgetInv, RestTypeOK
  <2> QED
    BY <1>1, <2>1, <2>2, BudgetUnchanged DEF BudgetInv, RestTypeOK
<1>4. CASE UNCHANGED restVars
  BY <1>1, <1>4, BudgetUnchanged DEF restVars, maps, budgetVars
<1> QED
  BY <1>1, <1>2, <1>3, <1>4, GetLimiterBudget, ServeBudget, CleanupBudget, TickBudget
     DEF RestNext, Proceed

\* However many requests an address has in flight, dropping its idle buckets
\* gives those that are served within Grace ticks nothing.
THEOREM BudgetAlwaysKept == Spec => []BudgetKept
<1>1. Init => BudgetInv
  BY BudgetInvInit DEF Init
<1>2. BudgetInv /\ [Next]_vars => BudgetInv'
  BY Parts, BudgetInvStep
<1>3. BudgetInv => BudgetKept
  <2> SUFFICES ASSUME BudgetInv, NEW a \in IP PROVE spare[a] >= 0
    BY DEF BudgetKept
  <2> QED
    BY BudgetTypes DEF BudgetInv, Covered
<1> QED
  BY <1>1, <1>2, <1>3, PTL DEF Spec
===============================================================================
