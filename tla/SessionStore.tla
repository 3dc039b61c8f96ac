---------------------------- MODULE SessionStore ----------------------------
(***************************************************************************)
(* The session store of the server: the in-memory map of SessionService,   *)
(* its best-effort write-through to the sessions table of DBService, the   *)
(* background expiry, and what survives a stop and a restart.              *)
(*                                                                         *)
(* A Proc is one goroutine that serves a call: a REST request or the       *)
(* set-up or tear-down of a WebSocket connection.  A call that releases    *)
(* the map's lock between two steps is split into one action per step;     *)
(* proc[p].pc names the step that comes next.                              *)
(*                                                                         *)
(* CreateSession takes the caller's user id, as its tests pass it.  The     *)
(* server's only authenticated caller, the WebSocket handler, gets the id  *)
(* from a middleware that at present never sets one (README, section 6).   *)
(*                                                                         *)
(* Time is abstract: Tick ages every session by one unit, and ages stop    *)
(* at MaxIdle + 1, the first age at which a session is over the limit.     *)
(***************************************************************************)
EXTENDS Integers, FiniteSets

CONSTANTS
    SessionId,    \* the uuids CreateSession may draw
    User,         \* authenticated user ids
    Anonymous,    \* the empty user id of REST calls and of dev mode
    Proc,         \* goroutines that call the store at the same time
    NoSession,    \* "no session yet" in a Proc's record
    MaxPerUser,   \* maxActiveSessionsPerUser
    MaxIdle       \* the maxAge of CleanupExpiredSessions, in ticks

ASSUME SessionStoreAssumption ==
    /\ IsFiniteSet(SessionId) /\ IsFiniteSet(Proc)
    /\ NoSession \notin SessionId
    /\ Anonymous \notin User
    /\ MaxPerUser \in Nat \ {0}
    /\ MaxIdle \in Nat

VARIABLES
    up,        \* the process runs
    attached,  \* SetDB was called in this run of the process
    live,      \* the keys of the in-memory map
    owner,     \* SessionState.UserID
    idle,      \* ticks since LastActivity
    issued,    \* uuids drawn so far, in every run of the process
    status,    \* the status column, "none" when there is no row
    rowIdle,   \* ticks since the last_activity column
    proc,      \* the calls in progress
    wired,     \* sessions an open WebSocket connection works on
    expiring,  \* sessions the cleaner removed and has still to mark in the table
    gauge,     \* metrics.SessionsActive
    \* History, read by the properties only:
    removed,   \* sessions a delete or an expiry took out of the map
    faulted,   \* sessions with a statement that failed, was skipped or was cut off
    overtaken  \* sessions whose row was closed before it was saved

store == <<live, owner, idle, issued>>
table == <<status, rowIdle>>
history == <<removed, faulted, overtaken>>
vars == <<up, attached, store, table, proc, wired, expiring, gauge, history>>

Owner == User \cup {Anonymous}
Age == 0 .. MaxIdle + 1
Older(age) == IF age <= MaxIdle THEN age + 1 ELSE age
Closed == {"completed", "expired"}
Status == {"none", "active"} \cup Closed

ProcRec == [pc : {"idle", "insert", "save", "close", "count", "gauge"},
            id : SessionId \cup {NoSession},
            user : Owner,
            via : {"rest", "ws"},
            seen : Nat]

AtRest == [pc |-> "idle", id |-> NoSession, user |-> Anonymous,
           via |-> "ws", seen |-> 0]

\* Mutant: the query forgets WHERE status = 'active'.
AnyRows == {id \in SessionId : status[id] # "none"}

\* Mutant: the query leaves out the rows that were idle for too long.
RecentRows == {id \in SessionId : status[id] = "active" /\ rowIdle[id] <= MaxIdle}

ActiveRows == {id \in SessionId : status[id] = "active"}

(* ActiveSessionCount. *)
Held(u) == {id \in live : owner[id] = u}

TypeOK ==
    /\ up \in BOOLEAN /\ attached \in BOOLEAN
    /\ live \subseteq SessionId
    /\ issued \subseteq SessionId
    /\ owner \in [SessionId -> Owner]
    /\ idle \in [SessionId -> Age]
    /\ status \in [SessionId -> Status]
    /\ rowIdle \in [SessionId -> Age]
    /\ proc \in [Proc -> ProcRec]
    /\ \A p \in Proc : proc[p].pc \in {"save", "close"} => proc[p].id \in SessionId
    /\ wired \subseteq SessionId
    /\ expiring \subseteq SessionId
    /\ gauge \in Nat
    /\ removed \subseteq SessionId
    /\ faulted \subseteq SessionId
    /\ overtaken \subseteq SessionId

Init ==
    /\ up = TRUE
    /\ attached \in BOOLEAN
    /\ live = {}
    /\ owner = [id \in SessionId |-> Anonymous]
    /\ idle = [id \in SessionId |-> 0]
    /\ issued = {}
    /\ status = [id \in SessionId |-> "none"]
    /\ rowIdle = [id \in SessionId |-> 0]
    /\ proc = [p \in Proc |-> AtRest]
    /\ wired = {}
    /\ expiring = {}
    /\ gauge = 0
    /\ removed = {} /\ faulted = {} /\ overtaken = {}

-----------------------------------------------------------------------------
(* CreateSession.  The quota is read under a read lock that is given back  *)
(* before the insert takes the write lock; the row is saved after that.    *)

\* Mutant: the quota is compared with > instead of >=.
HasRoomOrFull(u) == u = Anonymous \/ Cardinality(Held(u)) <= MaxPerUser

HasRoom(u) == u = Anonymous \/ Cardinality(Held(u)) < MaxPerUser

\* REST creates for the empty user only; a WebSocket passes the user it has.
CreateCheck(p, u, via) ==
    /\ up
    /\ proc[p].pc = "idle"
    /\ via = "rest" => u = Anonymous
    /\ HasRoom(u)
    /\ proc' = [proc EXCEPT ![p] = [AtRest EXCEPT !.pc = "insert", !.user = u,
                                                  !.via = via]]
    /\ UNCHANGED <<up, attached, store, table, wired, expiring, gauge, history>>

\* What a call goes on with once its own work on the store is done: a REST
\* handler then sets the gauge, a WebSocket handler does not.
Finished(via) ==
    IF via = "rest" THEN [AtRest EXCEPT !.pc = "count", !.via = "rest"]
                    ELSE AtRest

\* CreateSession returns session id: a WebSocket connection goes on with it.
Created(p, id) ==
    /\ proc' = [proc EXCEPT ![p] = Finished(proc[p].via)]
    /\ wired' = IF proc[p].via = "ws" THEN wired \cup {id} ELSE wired

CreateInsert(p, id) ==
    /\ proc[p].pc = "insert"
    /\ id \notin issued
    /\ issued' = issued \cup {id}
    /\ live' = live \cup {id}
    /\ owner' = [owner EXCEPT ![id] = proc[p].user]
    /\ idle' = [idle EXCEPT ![id] = 0]
    /\ \/ /\ attached
          /\ proc' = [proc EXCEPT ![p] = [@ EXCEPT !.pc = "save", !.id = id]]
          /\ UNCHANGED <<wired, faulted>>
       \/ /\ ~attached
          /\ Created(p, id)
          /\ faulted' = faulted \cup {id}
    /\ UNCHANGED <<up, attached, table, expiring, gauge, removed, overtaken>>

(* The upsert of DBService.SaveSession: a row that exists keeps its status. *)
CreateSave(p) ==
    LET id == proc[p].id IN
    /\ proc[p].pc = "save"
    /\ Created(p, id)
    /\ status' = [status EXCEPT ![id] = IF @ = "none" THEN "active" ELSE @]
    /\ rowIdle' = [rowIdle EXCEPT ![id] = idle[id]]
    /\ UNCHANGED <<up, attached, store, expiring, gauge, history>>

\* The statement fails: a warning is logged and CreateSession still succeeds.
CreateSaveFails(p) ==
    /\ proc[p].pc = "save"
    /\ Created(p, proc[p].id)
    /\ faulted' = faulted \cup {proc[p].id}
    /\ UNCHANGED <<up, attached, store, table, expiring, gauge, removed, overtaken>>

-----------------------------------------------------------------------------
(* The WebSocket handler's use of a session: AddMessage, UpdateStep and    *)
(* SetProblemDetected all set LastActivity, and fail when it is gone.      *)

Touch(id) ==
    /\ id \in wired \cap live
    /\ idle' = [idle EXCEPT ![id] = 0]
    /\ UNCHANGED <<up, attached, live, owner, issued, table, proc, wired,
                   expiring, gauge, history>>

(* DeleteSession: called by DELETE /api/sessions/:id for any session, and  *)
(* by the deferred clean-up of a connection for its own.                   *)

\* The map's part, under the write lock.
DeleteRemove(p, id, via) ==
    /\ up
    /\ proc[p].pc = "idle"
    /\ via = "ws" => id \in wired
    /\ id \in live
    /\ live' = live \ {id}
    /\ removed' = removed \cup {id}
    /\ wired' = IF via = "ws" THEN wired \ {id} ELSE wired
    /\ proc' = [proc EXCEPT ![p] =
                   IF attached
                   THEN [AtRest EXCEPT !.pc = "close", !.id = id, !.via = via]
                   ELSE Finished(via)]
    /\ UNCHANGED <<up, attached, owner, idle, issued, table, expiring, gauge,
                   faulted, overtaken>>

\* The connection's session is already gone: DeleteSession reports not found.
\* (A REST delete of a missing session changes nothing.)
DeleteMissing(id) ==
    /\ id \in wired \ live
    /\ wired' = wired \ {id}
    /\ UNCHANGED <<up, attached, store, table, proc, expiring, gauge, history>>

(* The UPDATE of DBService.DeleteSession and DBService.ExpireSession: only an *)
(* active row changes its status.                                             *)
\* Mutant: the WHERE clause asks for the new status instead of the old one.
CloseClosedRow(id, as) ==
    /\ status' = [status EXCEPT ![id] = IF @ = as THEN as ELSE @]
    /\ overtaken' = IF status[id] = "none" THEN overtaken \cup {id} ELSE overtaken
    /\ UNCHANGED rowIdle

CloseRow(id, as) ==
    /\ status' = [status EXCEPT ![id] = IF @ = "active" THEN as ELSE @]
    /\ overtaken' = IF status[id] = "none" THEN overtaken \cup {id} ELSE overtaken
    /\ UNCHANGED rowIdle

DeleteRow(p) ==
    /\ proc[p].pc = "close"
    /\ CloseRow(proc[p].id, "completed")
    /\ proc' = [proc EXCEPT ![p] = Finished(@.via)]
    /\ UNCHANGED <<up, attached, store, wired, expiring, gauge, removed, faulted>>

\* The statement fails: a warning is logged and the row stays as it is.
DeleteRowFails(p) ==
    /\ proc[p].pc = "close"
    /\ faulted' = faulted \cup {proc[p].id}
    /\ proc' = [proc EXCEPT ![p] = Finished(@.via)]
    /\ UNCHANGED <<up, attached, store, table, wired, expiring, gauge,
                   removed, overtaken>>

-----------------------------------------------------------------------------
(* The gauge of a REST handler: len(ListSessions()) under the read lock,   *)
(* then Set without it.                                                    *)

CountSessions(p) ==
    /\ proc[p].pc = "count"
    /\ proc' = [proc EXCEPT ![p].pc = "gauge", ![p].seen = Cardinality(live)]
    /\ UNCHANGED <<up, attached, store, table, wired, expiring, gauge, history>>

SetGauge(p) ==
    /\ proc[p].pc = "gauge"
    /\ gauge' = proc[p].seen
    /\ proc' = [proc EXCEPT ![p] = AtRest]
    /\ UNCHANGED <<up, attached, store, table, wired, expiring, history>>

-----------------------------------------------------------------------------
(* CleanupExpiredSessions: the background goroutine empties the map of     *)
(* every idle session in one critical section, then marks the rows one by  *)
(* one; a failed statement does not end the loop.                          *)

\* Mutant: without a table the clean-up returns early.
ExpiredWithTable == {id \in live : attached /\ idle[id] > MaxIdle}

Expired == {id \in live : idle[id] > MaxIdle}

\* Mutant: the expired sessions leave the map only.
MarkNone(ids) == {}

ToMark(ids) == IF attached THEN ids ELSE {}

Cleanup ==
    /\ up
    /\ expiring = {}
    /\ Expired # {}
    /\ live' = live \ Expired
    /\ removed' = removed \cup Expired
    /\ expiring' = ToMark(Expired)
    /\ UNCHANGED <<up, attached, owner, idle, issued, table, proc, wired, gauge,
                   faulted, overtaken>>

ExpireRow(id) ==
    /\ id \in expiring
    /\ expiring' = expiring \ {id}
    /\ CloseRow(id, "expired")
    /\ UNCHANGED <<up, attached, store, proc, wired, gauge, removed, faulted>>

ExpireRowFails(id) ==
    /\ id \in expiring
    /\ expiring' = expiring \ {id}
    /\ faulted' = faulted \cup {id}
    /\ UNCHANGED <<up, attached, store, table, proc, wired, gauge, removed, overtaken>>

-----------------------------------------------------------------------------
(* The process and its clock.                                              *)

\* Sessions whose row a call or the cleaner has still to write.
Pending == {id \in SessionId : \/ id \in expiring
                               \/ \E p \in Proc : /\ proc[p].pc \in {"save", "close"}
                                                  /\ proc[p].id = id}

\* The process ends, in an orderly shutdown or in a crash: the map is lost
\* and so are the statements that were not executed yet.
Stop ==
    /\ up
    /\ up' = FALSE
    /\ live' = {}
    /\ wired' = {}
    /\ expiring' = {}
    /\ proc' = [p \in Proc |-> AtRest]
    /\ gauge' = 0
    /\ faulted' = faulted \cup Pending
    /\ UNCHANGED <<attached, owner, idle, issued, table, removed, overtaken>>

(* HydrateFromDB: every active row becomes a session.  The row has neither *)
(* its user id nor the activity since it was saved.                        *)
\* Mutant: a restored session counts as active now.
HydrateAsNew ==
    /\ live' = ActiveRows
    /\ owner' = [id \in SessionId |-> IF id \in ActiveRows THEN Anonymous ELSE owner[id]]
    /\ idle' = [id \in SessionId |-> IF id \in ActiveRows THEN 0 ELSE idle[id]]

Hydrate ==
    /\ live' = ActiveRows
    /\ owner' = [id \in SessionId |-> IF id \in ActiveRows THEN Anonymous ELSE owner[id]]
    /\ idle' = [id \in SessionId |-> IF id \in ActiveRows THEN rowIdle[id] ELSE idle[id]]

Restart ==
    /\ ~up
    /\ up' = TRUE
    /\ attached' = TRUE
    /\ Hydrate
    /\ UNCHANGED <<issued, table, proc, wired, expiring, gauge, history>>

\* The table cannot be listed, or (attached' = FALSE) not even connected to:
\* the server starts with an empty map.
RestartEmpty ==
    /\ ~up
    /\ up' = TRUE
    /\ attached' \in BOOLEAN
    /\ faulted' = faulted \cup ActiveRows
    /\ UNCHANGED <<store, table, proc, wired, expiring, gauge, removed, overtaken>>

\* Time passes, also while the process is down.
Tick ==
    /\ idle' = [id \in SessionId |-> IF id \in issued THEN Older(idle[id]) ELSE 0]
    /\ rowIdle' = [id \in SessionId |-> IF id \in ActiveRows THEN Older(rowIdle[id])
                                        ELSE rowIdle[id]]
    /\ UNCHANGED <<up, attached, live, owner, issued, status, proc, wired, expiring,
                   gauge, history>>

-----------------------------------------------------------------------------
Create(p) ==
    \/ \E u \in Owner, via \in {"rest", "ws"} : CreateCheck(p, u, via)
    \/ \E id \in SessionId : CreateInsert(p, id)
    \/ CreateSave(p)
    \/ CreateSaveFails(p)

Delete(p) ==
    \/ \E id \in SessionId, via \in {"rest", "ws"} : DeleteRemove(p, id, via)
    \/ DeleteRow(p)
    \/ DeleteRowFails(p)

Gauge(p) == CountSessions(p) \/ SetGauge(p)

Cleaner ==
    \/ Cleanup
    \/ \E id \in SessionId : ExpireRow(id) \/ ExpireRowFails(id)

Next ==
    \/ \E p \in Proc : Create(p) \/ Delete(p) \/ Gauge(p)
    \/ \E id \in SessionId : Touch(id) \/ DeleteMissing(id)
    \/ Cleaner
    \/ Stop
    \/ Restart
    \/ RestartEmpty
    \/ Tick

Spec == Init /\ [][Next]_vars

\* The cleaner's ticker keeps firing, its statements return (with a result
\* or an error), and time passes.
Fairness == WF_vars(Tick) /\ WF_vars(Cleaner)

FairSpec == Spec /\ Fairness

-----------------------------------------------------------------------------
(* Properties.                                                             *)

\* A row the table says is completed or expired is never a session in memory,
\* in this run of the process or, through HydrateFromDB, in a later one.
ClosedStaysClosed ==
    \A id \in live : status[id] \notin Closed

\* The map and the table agree on every session that no call and no cleaner
\* is working on, unless one of its statements failed, was skipped or was cut
\* off by a stop (faulted), or a delete ran between CreateSession's insert and
\* its save (overtaken).  No interleaving of creates, deletes, expiries and
\* restarts is a further exception.
WriteThrough ==
    up => \A id \in issued \ (faulted \cup overtaken \cup Pending) :
              id \in live <=> status[id] = "active"

\* A session that was deleted or that expired does not come back, with the
\* same exceptions.
RemovedForGood ==
    removed \cap live \subseteq faulted \cup overtaken

\* No session is lost: one that was not deleted and did not expire is in
\* memory, through any number of stops and restarts, unless one of its
\* statements failed, was skipped or was cut off.
SessionsSurvive ==
    up => issued \subseteq live \cup removed \cup faulted

\* What HydrateFromDB's comment says: it recovers the sessions that were
\* active before the restart.  Even when no statement ever failed.
RecoversOnlyActive ==
    removed \cap live \subseteq faulted

\* Calls racing between the quota's read and the insert can overshoot it by
\* one session for every further concurrent call, and by no more.
Creating(u) == {p \in Proc : proc[p].pc = "insert" /\ proc[p].user = u}

QuotaOvershoot ==
    \A u \in User : Cardinality(Held(u)) + Cardinality(Creating(u))
                        <= MaxPerUser + Cardinality(Proc) - 1

\* What the comment of maxActiveSessionsPerUser says.
QuotaKept ==
    \A u \in User : Cardinality(Held(u)) <= MaxPerUser

\* Being restored from the table after a restart cannot prolong the life of a
\* session: it is never younger than the time since its last use.
RestartNeverRejuvenates ==
    [][(~up /\ up') => \A id \in live' : idle'[id] >= idle[id]]_vars

\* With no REST call in progress the gauge shows the sessions in memory.
GaugeIsCount ==
    (up /\ \A p \in Proc : proc[p].pc = "idle") => gauge = Cardinality(live)

\* A session over its idle limit is removed, used again, or lost in a stop,
\* although a batch of rows may fail to be marked before its turn comes.
OverLimit(id) == id \in live /\ idle[id] > MaxIdle

OverLimitLeaves ==
    \A id \in SessionId : OverLimit(id) ~> ~OverLimit(id)
=============================================================================
