----------------------------- MODULE MessageLimits -----------------------------
(***************************************************************************)
(* The limits on messages of WebSocket clients: frames in a second of one  *)
(* connection (frameRateLimiter) and messages of one user over all of his  *)
(* connections (UserRateLimiter).                                          *)
(*                                                                         *)
(* The handlers pass the user id of the connection, an input here.  A tick *)
(* is a fraction of a second for frames and the time for one token for     *)
(* users; the two clocks are independent.                                  *)
(***************************************************************************)
EXTENDS Integers

CONSTANTS
    Conn,        \* connections
    User,        \* user ids
    Anonymous,   \* the empty user id
    MaxFPS,      \* frames accepted in a window
    Second,      \* ticks of the frame clock in a second
    UserBurst,   \* userLimiterBurst
    UserExpiry   \* userLimiterExpiry, in ticks of the user clock

\* 10 minutes against 5 tokens of 2 seconds.
ASSUME MessageLimitsAssumption ==
    /\ Anonymous \notin User
    /\ MaxFPS \in Nat \ {0}
    /\ Second \in Nat \ {0}
    /\ UserBurst \in Nat \ {0}
    /\ UserExpiry \in Nat
    /\ UserExpiry + 1 >= UserBurst

VARIABLES
    frames,     \* a connection's count
    frameAge,   \* ticks since its windowStart
    recent,     \* history: the ages of the frames accepted last, latest first
    known,      \* users with an entry in limiters
    quota,      \* the tokens in its bucket
    unseen,     \* ticks since its lastSeen
    credit      \* history: a bucket for each user that is never dropped

frameVars == <<frames, frameAge, recent>>
userVars == <<known, quota, unseen, credit>>
messageVars == <<frameVars, userVars>>

\* One frame more than two windows hold; ages from a second on are not told apart.
Remembered == 1 .. 2 * MaxFPS + 1

MessageTypeOK ==
    /\ frames \in [Conn -> 0 .. MaxFPS]
    /\ frameAge \in [Conn -> 0 .. Second]
    /\ recent \in [Conn -> [Remembered -> 0 .. Second]]
    /\ known \subseteq User
    /\ quota \in [User -> 0 .. UserBurst]
    /\ unseen \in [User -> 0 .. UserExpiry + 1]
    /\ credit \in [User -> Int]

MessageInit ==
    /\ frames = [c \in Conn |-> 0]
    /\ frameAge = [c \in Conn |-> 0]
    /\ recent = [c \in Conn |-> [i \in Remembered |-> Second]]
    /\ known = {}
    /\ quota = [u \in User |-> UserBurst]
    /\ unseen = [u \in User |-> UserExpiry + 1]
    /\ credit = [u \in User |-> UserBurst]

-----------------------------------------------------------------------------
(* Messages.                                                               *)

\* A second has passed since windowStart.
WindowOver(c) == frameAge[c] >= Second

\* Mutant: a new window does not move windowStart.
StartStays(c) == frameAge[c]

\* The age of windowStart after allow.
Started(c) == IF WindowOver(c) THEN 0 ELSE frameAge[c]

\* frameRateLimiter.allow returns true.
FrameAllowed(c) ==
    /\ WindowOver(c) \/ frames[c] < MaxFPS
    /\ frames' = [frames EXCEPT ![c] = IF WindowOver(c) THEN 1 ELSE @ + 1]
    /\ frameAge' = [frameAge EXCEPT ![c] = Started(c)]
    /\ recent' = [recent EXCEPT ![c] = [i \in Remembered |-> IF i = 1 THEN 0 ELSE @[i - 1]]]

\* The tokens UserRateLimiter.Allow finds, in the entry or in a new one.
Available(u) == IF u \in known THEN quota[u] ELSE UserBurst

\* Mutant: the first message alone is seen.
SeenFirst(u) == IF u \in known THEN unseen[u] ELSE 0

\* The age of lastSeen after Allow.
SeenNow(u) == 0

\* UserRateLimiter.Allow, under its mutex, returns true or false.
UserAllow(u) ==
    \/ u = Anonymous /\ UNCHANGED userVars
    \/ /\ u \in User
       /\ known' = known \cup {u}
       /\ unseen' = [unseen EXCEPT ![u] = SeenNow(u)]
       /\ quota' = [quota EXCEPT ![u] = IF Available(u) > 0 THEN Available(u) - 1 ELSE 0]
       /\ credit' = [credit EXCEPT ![u] = IF Available(u) > 0 THEN @ - 1 ELSE @]

\* handleFrame: the frame limit first, then the user's.
Frame(c, u) == FrameAllowed(c) /\ UserAllow(u)

\* handleText.
Text(u) == UserAllow(u) /\ UNCHANGED frameVars

-----------------------------------------------------------------------------
(* Clean-up and time.                                                      *)

UserCleanup ==
    /\ known' = {u \in known : unseen[u] <= UserExpiry}
    /\ UNCHANGED <<frameVars, quota, unseen, credit>>

UserTick ==
    /\ quota' = [u \in User |-> IF quota[u] < UserBurst THEN quota[u] + 1 ELSE UserBurst]
    /\ credit' = [u \in User |-> IF credit[u] < UserBurst THEN credit[u] + 1 ELSE UserBurst]
    /\ unseen' = [u \in User |-> IF unseen[u] <= UserExpiry THEN unseen[u] + 1 ELSE unseen[u]]
    /\ UNCHANGED <<frameVars, known>>

\* An age one tick later; whatever is a second old stays so.
Aged(n) == IF n < Second THEN n + 1 ELSE Second

FrameTick ==
    /\ frameAge' = [c \in Conn |-> Aged(frameAge[c])]
    /\ recent' = [c \in Conn |-> [i \in Remembered |-> Aged(recent[c][i])]]
    /\ UNCHANGED <<frames, userVars>>

-----------------------------------------------------------------------------
MessageNext ==
    \/ \E u \in User \cup {Anonymous} : Text(u) \/ \E c \in Conn : Frame(c, u)
    \/ UserCleanup
    \/ UserTick
    \/ FrameTick

MessageSpec == MessageInit /\ [][MessageNext]_messageVars

-----------------------------------------------------------------------------
(* Properties.                                                             *)

\* Over all of his connections, and although idle buckets are dropped, a user
\* never gets a message through that a bucket that is never dropped would
\* have refused.
UserBudgetKept == \A u \in User : credit[u] >= 0

\* However frames fall on the windows, a connection gets at most twice
\* MaxFPS of them accepted within a second: when one is accepted, the one that
\* came 2 * MaxFPS frames before it is a second old.
FrameRate == \A c \in Conn : recent[c][2 * MaxFPS + 1] >= Second
=============================================================================
