------------------------------ MODULE RateLimiter ------------------------------
(***************************************************************************)
(* The limiter of REST requests (IPRateLimiter): a token bucket for each   *)
(* address, a count of violations and temporary bans.  Its maps share one  *)
(* mutex; a request takes it up to three times, and the bucket's own lock  *)
(* in between.                                                             *)
(*                                                                         *)
(* A tick is the time a bucket needs for one token.  The maps' times are   *)
(* ages or remaining ticks that saturate where the code no longer tells    *)
(* them apart.  An answer with status 403 changes nothing and is no action.*)
(***************************************************************************)
EXTENDS Integers, FiniteSets

CONSTANTS
    Req,        \* goroutines that serve requests, one after the other
    IP,         \* addresses
    Bucket,     \* rate.Limiter objects
    NoBucket,   \* limiters has no entry
    Burst,      \* apiLimiterBurst
    Expiry,     \* limiterExpiry, in ticks
    Threshold,  \* banViolationThreshold
    Window,     \* banViolationWindow, in ticks
    BanTime     \* banDuration, in ticks

\* A bucket that is idle until it is dropped has filled up: 5 minutes against 10
\* tokens of a second.
ASSUME RateLimiterAssumption ==
    /\ IsFiniteSet(Req)
    /\ NoBucket \notin Bucket
    /\ Burst \in Nat \ {0}
    /\ Threshold \in Nat \ {0, 1}
    /\ Window \in Nat
    /\ BanTime \in Nat
    /\ Expiry \in Nat
    /\ Expiry + 1 >= Burst

VARIABLES
    pc,          \* the critical section a request enters next
    addr,        \* c.IP()
    held,        \* the bucket a request got from getLimiter
    limiters,    \* limiters: the bucket of an address
    lastSeen,    \* ticks since lastSeen, of an address with or without entry
    tokens,      \* the tokens in a bucket
    violations,  \* addresses with an entry in violations
    count,       \* its count
    windowAge,   \* ticks since its windowStart
    bans,        \* addresses with an entry in bans
    left,        \* ticks until the last ban is over; -1: it is
    \* History, read by the properties only:
    waited,      \* ticks since a request got its bucket
    spare,       \* a bucket for each address that is never dropped
    crowd,       \* the requests that were in when the ban in force began
    renewed      \* how often it was prolonged since

maps == <<limiters, lastSeen, violations, count, windowAge, bans, left>>
budgetVars == <<waited, spare>>
banVars == <<crowd, renewed>>
restVars == <<pc, addr, held, tokens, maps, budgetVars, banVars>>

\* A request that is served within Grace ticks from getLimiter is charged to spare.
Grace == Expiry + 1 - Burst

RestTypeOK ==
    /\ pc \in [Req -> {"idle", "limiter", "allow", "record"}]
    /\ addr \in [Req -> IP]
    /\ held \in [Req -> Bucket \cup {NoBucket}]
    /\ limiters \in [IP -> Bucket \cup {NoBucket}]
    /\ lastSeen \in [IP -> 0 .. Expiry + 1]
    /\ tokens \in [Bucket -> 0 .. Burst]
    /\ violations \subseteq IP
    /\ count \in [IP -> 0 .. Threshold - 1]
    /\ windowAge \in [IP -> 0 .. Window + 1]
    /\ bans \subseteq IP
    /\ left \in [IP -> -1 .. BanTime]
    /\ waited \in [Req -> 0 .. Grace + 1]
    /\ spare \in [IP -> Int]
    /\ crowd \in [IP -> Nat]
    /\ renewed \in [IP -> Nat]

RestInit ==
    /\ pc = [r \in Req |-> "idle"]
    /\ addr \in {[r \in Req |-> a] : a \in IP}
    /\ held = [r \in Req |-> NoBucket]
    /\ limiters = [a \in IP |-> NoBucket]
    /\ lastSeen = [a \in IP |-> Expiry + 1]
    /\ tokens = [b \in Bucket |-> Burst]
    /\ violations = {} /\ count = [a \in IP |-> 0]
    /\ windowAge = [a \in IP |-> Window + 1]
    /\ bans = {} /\ left = [a \in IP |-> -1]
    /\ waited = [r \in Req |-> 0]
    /\ spare = [a \in IP |-> Burst]
    /\ crowd = [a \in IP |-> 0]
    /\ renewed = [a \in IP |-> 0]

Enter(r, from, to) == pc[r] = from /\ pc' = [pc EXCEPT ![r] = to]

\* A ban that has not ended.
InForce(a) == left[a] >= 0

-----------------------------------------------------------------------------
(* A request, in Middleware.                                               *)

\* isBanned returns false; a ban that is over is taken off the map.
Pass(r, a) ==
    /\ ~(a \in bans /\ InForce(a))
    /\ Enter(r, "idle", "limiter")
    /\ addr' = [addr EXCEPT ![r] = a]
    /\ bans' = bans \ {a}
    /\ UNCHANGED <<held, limiters, lastSeen, tokens, violations, count, windowAge, left,
                   budgetVars, banVars>>

\* Buckets nobody can reach any more.
Unused == {b \in Bucket : (\A a \in IP : limiters[a] # b) /\ (\A r \in Req : held[r] # b)}

\* Mutant: only the first request of an address is seen.
SeenOnce(a) == IF limiters[a] = NoBucket THEN 0 ELSE lastSeen[a]

\* The age of lastSeen after getLimiter.
Seen(a) == 0

\* getLimiter.  A new bucket is full.
GetLimiter(r) ==
    LET a == addr[r] IN
    /\ Enter(r, "limiter", "allow")
    /\ \E b \in IF limiters[a] = NoBucket THEN Unused ELSE {limiters[a]} :
        /\ held' = [held EXCEPT ![r] = b]
        /\ limiters' = [limiters EXCEPT ![a] = b]
        /\ tokens' = IF limiters[a] = NoBucket THEN [tokens EXCEPT ![b] = Burst] ELSE tokens
    /\ lastSeen' = [lastSeen EXCEPT ![a] = Seen(a)]
    /\ UNCHANGED <<addr, violations, count, windowAge, bans, left, budgetVars, banVars>>

\* The request has not stayed longer than Grace before Allow.
Prompt(r) == waited[r] <= Grace

\* Allow takes a token and the request is served.
Serve(r) ==
    /\ Enter(r, "allow", "idle")
    /\ tokens[held[r]] > 0
    /\ tokens' = [tokens EXCEPT ![held[r]] = @ - 1]
    /\ held' = [held EXCEPT ![r] = NoBucket]
    /\ waited' = [waited EXCEPT ![r] = 0]
    /\ spare' = [spare EXCEPT ![addr[r]] = IF Prompt(r) THEN @ - 1 ELSE @]
    /\ UNCHANGED <<addr, maps, banVars>>

Reject(r) ==
    /\ Enter(r, "allow", "record")
    /\ tokens[held[r]] = 0
    /\ held' = [held EXCEPT ![r] = NoBucket]
    /\ waited' = [waited EXCEPT ![r] = 0]
    /\ UNCHANGED <<addr, tokens, maps, spare, banVars>>

\* Mutant: the violations that led to a ban stay on the map.
BanAndKeep(a) ==
    /\ bans' = bans \cup {a}
    /\ left' = [left EXCEPT ![a] = BanTime]
    /\ UNCHANGED <<violations, count, windowAge>>

Ban(a) ==
    /\ bans' = bans \cup {a}
    /\ left' = [left EXCEPT ![a] = BanTime]
    /\ violations' = violations \ {a}
    /\ count' = [count EXCEPT ![a] = 0]
    /\ UNCHANGED windowAge

\* The requests of an address that are in.
Active(a) == {r \in Req : pc[r] # "idle" /\ addr[r] = a}

\* A ban begins at the end of request r, or the one in force is prolonged.
Tally(a, r) ==
    /\ crowd' = [crowd EXCEPT ![a] = IF InForce(a) THEN @ ELSE Cardinality(Active(a) \ {r})]
    /\ renewed' = [renewed EXCEPT ![a] = IF InForce(a) THEN @ + 1 ELSE 0]

\* recordViolation: the first of a window, one more, or the one that bans.
RecordViolation(r) ==
    LET a == addr[r]
        open == a \in violations /\ windowAge[a] <= Window
    IN
    /\ Enter(r, "record", "idle")
    /\ \/ /\ ~open
          /\ violations' = violations \cup {a}
          /\ count' = [count EXCEPT ![a] = 1]
          /\ windowAge' = [windowAge EXCEPT ![a] = 0]
          /\ UNCHANGED <<bans, left, banVars>>
       \/ /\ open /\ count[a] + 1 < Threshold
          /\ count' = [count EXCEPT ![a] = @ + 1]
          /\ UNCHANGED <<violations, windowAge, bans, left, banVars>>
       \/ open /\ count[a] + 1 >= Threshold /\ Ban(a) /\ Tally(a, r)
    /\ UNCHANGED <<addr, held, limiters, lastSeen, tokens, budgetVars>>

-----------------------------------------------------------------------------
(* Clean-up and time.                                                      *)

\* Mutant: a ban is dropped with its address's bucket.
DropIdleBans == {a \in bans : lastSeen[a] > Expiry \/ ~InForce(a)}

\* Mutant: bans are left to isBanned.
DropNoBans == {}

\* The bans a round of cleanupLoop removes.
OverBans == {a \in bans : ~InForce(a)}

\* A round of cleanupLoop, with the mutex held.
RestCleanup ==
    LET stale == {a \in violations : windowAge[a] > Window} IN
    /\ limiters' = [a \in IP |-> IF lastSeen[a] > Expiry THEN NoBucket ELSE limiters[a]]
    /\ violations' = violations \ stale
    /\ count' = [a \in IP |-> IF a \in stale THEN 0 ELSE count[a]]
    /\ bans' = bans \ OverBans
    /\ UNCHANGED <<pc, addr, held, tokens, lastSeen, windowAge, left, budgetVars, banVars>>

Capped(n, limit) == IF n < limit THEN n ELSE limit

RestTick ==
    /\ tokens' = [b \in Bucket |-> Capped(tokens[b] + 1, Burst)]
    /\ spare' = [a \in IP |-> Capped(spare[a] + 1, Burst)]
    /\ lastSeen' = [a \in IP |-> Capped(lastSeen[a] + 1, Expiry + 1)]
    /\ windowAge' = [a \in IP |-> Capped(windowAge[a] + 1, Window + 1)]
    /\ left' = [a \in IP |-> IF InForce(a) THEN left[a] - 1 ELSE -1]
    /\ waited' = [r \in Req |-> IF pc[r] = "allow" THEN Capped(waited[r] + 1, Grace + 1) ELSE 0]
    /\ crowd' = [a \in IP |-> IF left[a] > 0 THEN crowd[a] ELSE 0]
    /\ renewed' = [a \in IP |-> IF left[a] > 0 THEN renewed[a] ELSE 0]
    /\ UNCHANGED <<pc, addr, held, limiters, violations, count, bans>>

-----------------------------------------------------------------------------
Proceed(r) == GetLimiter(r) \/ Serve(r) \/ Reject(r) \/ RecordViolation(r)

RestNext ==
    \/ \E r \in Req : Proceed(r) \/ \E a \in IP : Pass(r, a)
    \/ RestCleanup
    \/ RestTick

RestSpec == RestInit /\ [][RestNext]_restVars

-----------------------------------------------------------------------------
(* Properties.                                                             *)

\* Dropping idle buckets gives an address nothing: what it draws from all of its
\* buckets a bucket that is never dropped would have granted too.  Requests that
\* stay longer than Grace between getLimiter and Allow are not charged: each of
\* them may take one token of a bucket that was dropped meanwhile.
BudgetKept == \A a \in IP : spare[a] >= 0

\* A ban is on the map until its time is over, whatever the clean-up drops.
BanStands == \A a \in IP : InForce(a) => a \in bans

\* Requests that passed isBanned before a ban record their violations during it.
\* They prolong it at most once for each Threshold of them that were in when it
\* began: a ban that began with fewer is never prolonged.
RenewalsBounded == \A a \in IP : InForce(a) => Threshold * renewed[a] <= crowd[a]

\* An address that stops sending is forgotten: its bucket, its violations and
\* its ban leave the maps.
Forgotten ==
    \A a \in IP :
        <>[](\A r \in Req : pc[r] = "idle" \/ addr[r] # a)
            => <>[](limiters[a] = NoBucket /\ a \notin violations /\ a \notin bans)
=============================================================================
