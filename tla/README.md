# PhysicsCopilot: TLA+ models, checks and proofs

PhysicsCopilot is a Go server (`src/server/`) that looks at camera frames and
answers questions of a Flutter app (`src/app/`) over a WebSocket, with an AI
service and a knowledge base behind it. This directory holds TLA+ models of the
server's stateful parts and of the app's connection, voice and screens, the TLC
configurations that check them on small instances, and TLAPS proofs that hold
for every value of the constants.

Contents: 1 inventory, 2 modules and how they correspond to the code, 3 runs,
bounds and fairness, 4 proofs, 5 where code and documentation disagree, 6 what
is not modelled, 7 what is left, 8 how to run it.

## 1. Inventory

### 1.1 Modelled components

| Component | State | Operations | Interacts with | Hard behaviours |
|---|---|---|---|---|
| Session store: `services/session_service.go`, `services/db_service.go`, create and delete in `handlers/session_handler.go`, start-up and cleaner in `cmd/server/main.go` | the map of sessions under an RWMutex; the `sessions` table; the sessions gauge | `CreateSession`, `AddMessage`/`UpdateStep`/`SetProblemDetected` (they touch), `DeleteSession`, `CleanupExpiredSessions`, `HydrateFromDB` | called by REST handlers, by every connection and by the cleaner | quota read and insert in two critical sections; map and table changed in two steps, the second best-effort; a crash in between; restart from the table |
| Conversation history: `AddMessage`, `GetSessionSnapshot`, `BuildContextForGemini` in `session_service.go` | a Go slice that is appended to and trimmed from the front | append with window, snapshot, prompt | turns, REST reads | a snapshot shares the array with the writer |
| Session reads: `ListSessions`, `GetSession` in `session_handler.go` | none of its own; the client's copy and its ETag | filter, sort, page, ETag, 304 | the store | the map's order is random and sorting is unstable; pages of a list that is built anew each time; integer arithmetic on what the URL says |
| Connections: `WSHandler.Handle`, `pingLoop`, `CloseAll`, `ipConnTracker` in `handlers/websocket_handler.go`; the shutdown in `main.go` | per-IP counts, `activeConns`, the connections gauge, the registry `conns`, a write mutex and a read deadline for each connection | admission, set-up, read loop, writes, pings, deferred clean-up, close at shutdown | calls the session store and the conversation service; `CloseAll` is called by `main` | three goroutines share a write mutex; a lock held during writes; peers that vanish or do not read; deadlines that only move while somebody reads |
| AI client: `services/gemini_service.go` | circuit breaker (errors, open-until), token bucket | `AnalyzeFrame`: breaker check, limiter, up to three attempts with back-off (one through the proxy), bookkeeping | called by every conversation turn; calls the Gemini API or a proxy | the breaker is checked before two waits; results of overlapping calls arrive in any order |
| Conversation turns: `services/conversation_service.go` | the table of frame hashes | `ProcessFrame`, `ProcessTextMessage`, `CleanupSession` | session store, AI client, knowledge base | the hash is stored before the answer is known; the session can vanish in the middle of a turn |
| REST limiter: `IPRateLimiter` in `middleware/ratelimit.go` | buckets, violations and bans by address, under one mutex | a request's `isBanned`, `getLimiter` with `Allow`, `recordViolation`; `cleanupLoop` | the REST routes | three critical sections for each request; buckets dropped while requests hold them |
| Message limiters: `UserRateLimiter` in `middleware/ratelimit.go`, `frameRateLimiter` in `websocket_handler.go` | a bucket for each user, a fixed window for each connection | `Allow`/`allow`, clean-up | `handleFrame`, `handleText` | one budget over several connections; windows that add up |
| Knowledge base: `services/rag_service.go`, `services/vector_store.go` | corpora by domain; an LRU cache with expiry for each | loading, routing with fall-backs, cache look-up, search, cache fill; TF-IDF ranking | conversation turns | look-up and fill are separate critical sections |
| App, connection: `services/websocket_service.dart`, `providers/websocket_provider.dart` | the channel, its subscription, the reconnect timer, `_disposed` | `connect`, `_scheduleReconnect`, `disconnect` | the server; the screens | awaits between which anything happens; timers; disposal during an attempt |
| App, voice: `services/voice_service.dart`, `providers/voice_provider.dart` | the queue, `_isSpeaking`, the button's state | `speak`, `stop`, completion and error handlers | the speech engine; the screens | commands, completions and stream events that are underway |
| App, screens: `screens/session_screen.dart`, `screens/camera_screen.dart`, `providers/session_provider.dart` | `isProcessing`, the camera screen's timer | asking, answers, errors, time-out, the voice button | both of the above | the server owes no answer to a particular message |

What makes them correct:

* Session store: the memory and the table tell the same story except where a
  statement is known to have failed; what was closed or removed never comes
  back; racing creates overshoot the quota by a bounded number; a restart does
  not make sessions younger; idle sessions leave.
* History and reads: a reader's messages do not change under his hands and are
  the last ones in order; a 304 is only given for what a 200 would have sent;
  walking the pages brings each session once.
* Connections: every counter and the registry hold exactly the connections
  between entry and exit, on every path out; the per-IP limit holds; `CloseAll`
  touches only connections whose handler has not returned, and closes all it
  found; handlers, ping goroutines and `CloseAll` all end.
* AI client: the breaker is open for a reason and recovers; an open breaker
  bounds the traffic to a backend that is down.
* Conversation: as long as writes to the client succeed, a skipped frame was
  answered before and no answer is recorded that the client was not sent; hashes
  are freed; every turn ends.
* Limiters: forgetting idle entries gives nobody a budget; a ban stands until it
  is over, and the requests that were in when it began prolong it at most once
  for each `banViolationThreshold` of them, not at all when they are fewer; the
  silent are forgotten.
* Knowledge base: nobody can tell that answers are cached; the caches stay
  within their bounds and evict what was used longest ago; a search ranks.
* App: one attempt, connection or timer at any time, none after `disconnect`;
  back online after a loss; no utterance is stranded; who asks on the camera
  screen does not wait for ever.

### 1.2 Other components

| Component | Where | Why it is not modelled |
|---|---|---|
| Unused limits | `middleware/userlimit.go` | constructed by unit tests only |
| JWT check | `handlers/auth.go` | a stateless comparison; the user id it should pass on is an input of the models (section 5) |
| Perceptual hash | `phash.go` | a floating-point transform; Conversation keeps closeness to the stored hash |
| Other AI backends | `ai_backend.go`, `openai_backend.go` | stubs that return an error |
| REST handlers without state | health, version, domains, stats, feedback, OpenAPI, Swagger | read counters or insert one row |
| Repositories and pool | `internal/db` | not used by `main` |
| Metrics, logging, Sentry, request ids, metrics password | `internal/metrics`, `internal/logger`, `internal/middleware`, `internal/sentry` | output, stateless comparisons |
| App: camera, procedure steps | `services/camera_service.dart`, `providers/step_provider.dart` | a busy flag around one await and pixels; a copy of the last answer |
| App: storage, REST, auth, notifications, the rest of the UI | the rest of `app/lib` | thin wrappers, layout |
| Knowledge base files, migrations, deployment, docs | `kb/`, `server/migrations`, `infra/`, `docs/` | data and prose |

The hazards of the code, each at its line and with the properties that cover it
or the reason why none does, are listed in `PROJECT.json`.

## 2. Modules

`MC*` modules extend a component for TLC and define symmetry sets or the tables
of an instance. `*Proofs` modules extend a component with its theorems.
Comments that begin with `Mutant:` mark operators that are not part of the
model: each is a plausible bug that, put in the place of the definition after
it, breaks one of the properties.

### SessionStore

`live`, `owner` and `idle` are the map (its keys, `UserID`, the age of
`LastActivity`), `status` and `rowIdle` the table, `proc` the calls in
progress. A call that gives back the map's lock between two steps is one action
per critical section:

| Code | Actions |
|---|---|
| `CreateSession` | `CreateCheck` (quota, read lock), `CreateInsert` (write lock), `CreateSave` or `CreateSaveFails` (upsert) |
| `DeleteSession` by REST or by a closing connection | `DeleteRemove`, then `DeleteRow` or `DeleteRowFails`; `DeleteMissing` |
| `CleanupExpiredSessions` | `Cleanup` (one critical section for the map), then `ExpireRow` or `ExpireRowFails` for each row |
| the gauge of the REST handlers | `CountSessions`, `SetGauge` |
| `AddMessage`, `UpdateStep`, `SetProblemDetected` | `Touch` |
| process | `Stop` (orderly or crash), `Restart` (hydration), `RestartEmpty` (no database, or the listing fails) |

Time is abstract: `Tick` ages every session, ages saturate one above the limit.
A connection's use of its session (`Touch`) and its clean-up go through `wired`,
the sessions that open connections hold. The history variables `removed`,
`faulted` and `overtaken` are read by properties only: they name the exceptions
under which memory and table may differ or a session may be lost.

### Connections

One element of `Conn` is one run of `Handle`. `phase` names its next step, in
the order of the code: `count`, `gauge`, `register`, `create`; `read`, `call`,
`write`; `delete`, `uncount`, `ungauge`, `release`, `deregister`. The failure
path of `CreateSession` is the branch `create`, `uncount`, `release`,
`deregister`: it does not decrement the gauge, as in the code. `wmu` is
`safeConn.mu`, taken by the read loop, the ping goroutine and `CloseAll`;
`connsMu` is free when `sweep` is `idle` or `ended`, since `register` and
`deregister` hold it for one step only. `client` is the peer: it answers pings,
stops reading, is lost without a word, or is gone in a way the server can see.
`Waits` are the pairs of goroutines of which the
first waits for a mutex that the second holds, `SweepLeft` is what `CloseAll`
has still to do; both are read by properties only.
`late` says that the read deadline has passed, which can happen while the peer
is silent or while the loop is not inside `ReadJSON`. The library and the
network (`Disconnect`, `GiveUp`) are modelled from how the code uses them.

### AIClient

The steps of `AnalyzeFrame` for any number of overlapping calls: `Refuse` or
`Admit` (the one look at the breaker), `GetToken`, the request with its classes
of answers, `BacksOff` and `Retry`, `Record`, `Return`. `useProxy` is chosen at
the start; through the proxy there is one attempt. `errs` stops at the
threshold, which is all it is compared with. `leaked` is a history variable:
the requests sent since the breaker opened.

### Conversation

EXTENDS AIClient: `Ask`, `Work` and `AIAnswers`/`AIFails` are its steps in the
course of a turn. A turn goes through `context`, `ai`, `problem`, `record`,
`reply`; each but `ai` looks the session up again, and `SessionGone` or
`ContextFails` are the error paths when it has vanished. `reply` takes the
snapshot for the answer; `write` is `writeResponse`, after the service has
returned: `Respond` when `writeJSON` succeeds, `RespondFails` when it does not,
which the code only logs. The history variable `unwritable` has the open
connections on which a write has failed. A frame is a model
value that stands for all frames within the duplicate threshold of each other;
`OldFrame` is a hash whose time-to-live is over. A duplicate that is skipped
changes no state and is no action. `TurnLeft` counts the steps a turn has left
when every attempt fails; only `TurnShortens` reads it.

### History and SlidingWindow, SessionListing, SessionReads

`History` has the conversation of one session as a Go slice: `array`, and
`history` as a place in it. `GetSessionSnapshot` copies the place, so a reader
that has given up the lock goes on reading the writer's array until `append`
leaves it. `SlidingWindow` is what this promises: a window of the last messages
and readers who keep what they got; `HistoryKept` is the refinement.

`SessionListing` has the sessions as records, a client and its `copy`.
`Listings(q)` is the set of lists the code may produce, since the map's order is
random and ties stay where they are; `Start` wraps as the code's `int` does;
an ETag is what it hashes (the whole filtered list), not the hash.
`SessionReads` puts both side by side over one store.

### RateLimiter, MessageLimits, Limits

| Code | Actions |
|---|---|
| `Middleware` | `Pass` (`isBanned`), `GetLimiter`, `Serve` or `Reject` (`Allow`), `RecordViolation` with `Ban` |
| `cleanupLoop` | `RestCleanup`: the three maps under one lock |
| `handleFrame`, `handleText` | `Frame` (frame limiter, then user limiter), `Text` |
| `UserRateLimiter.cleanupLoop` | `UserCleanup` |

`rate.Limiter` is external: a bucket, filled by a clock (`RestTick`,
`UserTick`) up to its burst. Ages saturate where the code stops telling them
apart. `spare`, `credit` and `recent` are history variables: buckets that are
never dropped, and the frames of the last second. So are `waited`, how long a
request has been between `getLimiter` and `Allow` (`spare` is charged for those
that stay no longer than `Grace`, the time from a bucket's filling up to its
being dropped), `crowd`, the requests that were in when the ban in force began,
and `renewed`, how often it was prolonged since. `Limits` puts the limiters
side by side, as `main` and the handler create them; since they share nothing,
`MCLimits` has TLC step one of them while the other is at its beginning.

### VectorStore, RagService, KnowledgeLookup

`VectorStore` is the index and the search as functions of the corpus, over
integers: a text is a bag of words, weights are in units of `1/Unit`, which
divides every share of a word in a text (`UnitAssumption`), logarithms come
from a table (`Ln`), of which it matters that they are positive
(`LnAssumption`). `Sorted` is one of the lists in which scores
descend: `sort.Slice` promises no order among ties, but its result depends on
its input only, and so does the choice. `IsRanking` is its reference, in the words of the
texts: entries that share a word with the query, as many as there are up to the
maximum, best first. `RagService` has
the queries as goroutines: `Hit` answers from a cache, `Miss` removes what has
expired and goes on to `Fill`, which searches and stores; `Skip` is a query that
returns before it looks anywhere. `Store` covers the global corpus and
the domains, each with its cache of a list (`order`) and a map (`items`). Which
files can be read is chosen at the start. `usedAfter` is a history variable:
the pairs of cached keys of which the first was used after the second. The code
has no such thing, it has the list; `EvictsOldest` says that the list is as good. `KnowledgeLookup` is a look-up
without caches; `Transparent` is the refinement.

### WebSocketService, VoiceService, Client

Dart runs one piece of code at a time, and an action is such a piece: up to an
await, a continuation, a callback.

| Code | Actions |
|---|---|
| `connect` | `Connect` up to the await; `Ready` or `ConnectFails` after it |
| `onDone`, the timer, `_scheduleReconnect` | `Done`, `TimerFires`, `ScheduleReconnect` |
| `disconnect` | `Disconnect`, `CloseSink`, `CloseStreams`, one for each await |
| `speak`, `stop`, `_processQueue`, the handlers of the engine | `Speak`, `Stop` and `StopReturns`, `ProcessQueue`, `Completed` |
| the subscription of `VoiceNotifier` | `Told` |
| the screens | `Open`, `Close`, `AskSession`, `AskCamera`, `Timeout`, `Reset`, `Receive`, `VoiceButton` |

Channels (`web_socket_channel`) and the speech engine (`FlutterTts`) are
external. A channel connects or fails, is cut without a word, and ends; once it
is up it reports only its end. The engine takes commands in order, a new
utterance cuts off the one that plays, and one that ends by itself is reported.
`Client` composes the two with the screens. `asked` is a history variable.
The screens share `SessionNotifier`, which outlives them; messages arrive at any
time while the app is connected, because frames go out all the time.

### How they compose

Conversation composes the turns with the AI client by extension, and
`ImplementsClient` proves that it uses the client only as AIClient specifies.
Connections abstracts a turn to `call` followed by `write`; `TurnEnds` of
Conversation says that `ProcessFrame` and `ProcessTextMessage` return, which is
what justifies the fairness of `CallReturns`, and its failing write is the
`wfailed` of Connections. Conversation
abstracts the session store to `live` with `Vanish` and `Remove`, the history
to whether an answer was recorded, and the knowledge base to nothing: a query
changes no state of a turn and, by `Transparent`, its caches show nowhere.
Client abstracts the server to messages that may come: it may refuse any message
(MessageLimits) or skip it (Conversation).

## 3. Runs

| Run | Configuration | Question |
|---|---|---|
| `store` | two sessions, two racing calls, quota 1, idle limit 1 | do memory and table agree, does anything closed return, is any session lost, by how much is the quota missed, across stops and restarts |
| `store_live` | two sessions, one call, idle limit 0 | does a session over its idle limit leave, although statements fail |
| `store_recover` (violation) | one session, two calls | can a deleted session be restored with no statement failing |
| `conns` | two connections, the same or different addresses, limit 1, one peer that may stop reading, one that may vanish | are counters and registry exact on every path, does `CloseAll` touch and close the right connections, can goroutines wait for each other in a circle |
| `conns_live` | two connections from one address, limit 1: one client that may get lost, one that may stop reading, both may disconnect | do the handlers of lost, departed and leaving clients, the ping goroutines and `CloseAll` end, or what are they stuck at |
| `conns_pong` (violation) | one connection | is a client that answers pings kept |
| `turns` | two connections, two frames, threshold 2, two attempts, one token; answers that cannot be written | breaker bookkeeping, exposure while open, de-duplication, history |
| `turns_live` | two connections, no frames, threshold 1 | does every turn end, does the breaker recover |
| `limits` | three requests of one address, three buckets; one connection and one user; burst 2, threshold 2, ban of 2 ticks | do dropped entries give anybody more, do bans stand, how often are they prolonged, what gets through in a second, are the silent forgotten |
| `knowledge` | two goroutines, three questions, two files of which each may be unreadable, capacity 2 | are the caches consistent, do they evict the right entry, can anybody tell an answer from that of a search |
| `reads` | two sessions, five queries, one reader, a window of two messages | is a confirmed copy current, is a walk over the pages complete, does a reader keep what he read |
| `client` | two channel objects, three things underway for the voice | is there always one attempt, connection or timer, and none after `disconnect`; is it back online; is speech never stranded, a wait always timed |

No run checks a type invariant: they are theorems (section 4). `TurnShortens` and
`SweepShortens` are theorems without a run too; as a PROPERTY they hold in
`Conversation.cfg` and `Connections.cfg`, at the price of a longer run.

### Bounds, and why they are enough

* SessionStore: the races are between the steps of two calls on one session,
  and between a batch of the cleaner and a call; two sessions are what a batch
  needs, two calls what a race needs. Quota 1 lets one racing call overshoot.
  Ages 0, 1 and 2 with limit 1 tell fresh, at the limit and over it apart.
  Identifiers are never reused (`issued`), so two sessions also bound the number
  of creates. `MaxPerUser` is 5 in the code; nothing but its being reached matters.
* Connections: a limit of 1 with two connections from one address reaches
  rejection and a second admission after a release. Giving each mishap to one
  connection (`Stallable`, `Losable`) halves the state space; the other
  connection stays well. No property needs two peers with the same mishap: the
  counters and the registry do not look at `client`, and the proofs hold for
  every choice of the two sets. A connection is used once, which bounds every counter.
  The live run has two connections because a handler waits for `connsMu` that
  `CloseAll` holds at another one; there the session can be created, since the
  failure leads to the same wait.
* AIClient and Conversation: threshold 2 distinguishes one failure from the
  failure that trips; two attempts are a first and a last one; one token makes
  the two calls compete; cooldown 1 lets it elapse. `OpenExposure` needs one
  call that trips the breaker and one that is still on its way, with its
  retries: two calls. In the safety run one open connection at a time has lost
  its session or cannot be written to (`OneInTrouble`): what two connections share, the
  AI client, looks at neither, and the proofs are without this restriction. The
  live run takes threshold 1 so that a single failure trips, and no frames
  because ending does not depend on them.
* Limits: the races are between requests of one address and the clean-up, and
  addresses do not touch each other's entries. Three requests hold three
  generations of a bucket; when one of them bans, the other two are just enough
  to prolong the ban with `Threshold` 2. `Expiry` 3 leaves time for a burst of 2 to fill up before it is
  dropped, and `Grace` 2 ticks more, as in the code, where an idle bucket is full
  after ten seconds and dropped after five minutes (the only assumption that
  relates the constants). A window of 3 parts is enough to put frames at the end
  of one and the beginning of the next.
* Knowledge base: three keys and a capacity of two make evictions; two
  goroutines miss the same key together; a time to live of 0 lets an entry
  expire by one tick. Three entries in two files give unreadable files, an
  entry in no domain and different rankings.
* Reads: two sessions are two pages of size 1; the queries have a page and a
  size that are clamped, a filter, an order with ties and a start that wraps at
  `IntLimit` 8. Three changes (`MaxTime`) and three messages (`MaxCap`) reach
  trimming, growth of the array and a snapshot of each generation.
* Client: a channel that is over and forgotten is used again, so two channels
  are an old and a new one for ever. `MaxPending` 3 bounds the utterances,
  commands, reports, answers and events that are underway together: a stop, a
  completion and a new utterance. The proofs hold for any number of each.

### Symmetry and deadlock

Symmetry sets are used in the safety runs only, over constants that are only
compared for equality. Deadlock is checked except in Connections, where the
system does stop: every connection is used once, and after `StopListening`
nothing is left to do.

### Fairness

* SessionStore: weak fairness of time and of the cleaner, which runs from a
  `time.Ticker` and whose statements return with a result or an error. None for
  calls, stops and restarts; the property excuses a stop.
* Connections: weak fairness for what a goroutine does without waiting for
  anybody, for the timers behind `Deadline` and `GiveUp`, and for writes that
  somebody takes or that fail. Strong fairness for locking `safeConn.mu`: a Go
  mutex hands over to a waiter that has starved for a millisecond. Strong
  fairness for the `done` case of `pingLoop`: `select` chooses at random among
  ready cases. No fairness for arrivals, messages and what peers do, and none
  for a write without a deadline to a peer that does not read. While `CloseAll`
  is at such a write, with `connsMu` held, it keeps every handler from leaving:
  `HandlerEnds` and `ShutdownProceeds` except that state (`SweepStuck`) and no
  other, `PingEnds` excepts nothing. The run uses `LeanFairSpec`, which assumes
  less than `FairSpec` and is quicker to check.
* Conversation: weak fairness for each goroutine's steps (a request ends at
  `httpTimeout`), for the refill of the bucket and for the cooldown; strong
  fairness for `GetToken`, since `rate.Limiter.Wait` reserves in order of
  arrival. None for writes, which may block: `TurnEnds` speaks of the
  return of `ProcessFrame`. `BreakerRecovers` assumes that the backend stays well
  and that calls keep coming, both stated in the property itself.
* Limits: weak fairness of a request's steps, of the clock and of the ticker of
  the clean-up. None for arrivals.
* Client: weak fairness of timers and continuations (the event loop), and of
  an attempt ending one way or the other, which the operating system's limit on
  connecting gives and not the code, which has none of its own; strong fairness
  of being accepted, that is, the server can be reached now and then. None for
  answers, for the noticing of a cut connection, for the voice and for the user.

## 4. Proofs

All theorems are checked to the last leaf, for arbitrary constants under the
named assumptions: `SessionStoreAssumption` (finite sets of sessions and
goroutines, positive quota), `ConnectionsAssumption` (finite set of
connections, positive limit), `AIClientAssumption` (finite set of calls,
positive numbers), `ConversationAssumption` (the two marks are no frames),
`RateLimiterAssumption` and `MessageLimitsAssumption` (a bucket that is idle
until it is dropped has filled up; positive limits), `VectorStoreAssumption`,
`RagAssumption` and `WebSocketServiceAssumption` (the constants have the right
types), `UnitAssumption` and `LnAssumption` (integers that stand for shares
and logarithms lose none and have the right sign), `HistoryAssumption`
(positive window and prompt, an array that can hold more than the window) and
`ListingAssumption` (finite set of sessions, fewer than the largest `int`;
page sizes positive). TLC evaluates each of them in a run.

| Theorem | States | Argument |
|---|---|---|
| `SessionStoreProofs!TypeCorrect` | `[]TypeOK` | action by action |
| `StoreConsistent`, `ClosedNeverReturns`, `RemovedNeverReturns` | `[]WriteThrough`, `[]ClosedStaysClosed`, `[]RemovedForGood` | The three are not inductive: a row that will be closed by a call in progress, or saved too late, breaks the next state. `StoreInv` adds what a process may hold while it is between two steps: `SaveInv` (the session to save has no row yet, and is live, excused or about to be closed), `CloseInv` (a session to close has left the map and is removed), `DetachedInv` (without a table every live session is excused), `IssuedInv`, `DownInv` and `RemovedInv` (a removed session is neither live nor active in the table, unless excused or still being closed). |
| `SessionsAlwaysSurvive` | `[]SessionsSurvive` | `SurviveInv`: who was closed was removed before (`ClosedWereRemoved`), so a session leaves the map only by being removed; and while the process is down the active rows take the place of the map: what hydration will find is all that was issued, but for what was removed or has a statement that failed. Rests on `StoreInv`. |
| `RestartKeepsAge` | `RestartNeverRejuvenates` | `RowNeverFresher`: an active row is at least as old as its session; only a save copies an age, and touching makes the session younger. |
| `QuotaOvershootBound` | `[]QuotaOvershoot` | A call past the quota's read counts as if it held its session already; an insert turns one into the other, and a new one is only admitted below the quota, when at most all other calls are between check and insert. |
| `ConnectionsProofs!TypeCorrect` | `[]TypeOK` | `HandleTypes` for a handler's steps, then the rest |
| `CountersExact`, `IpLimitHolds` | `[]CountsExact`, `[]IpLimit` | `StepKinds` reduces the actions to those that move one connection between phases; `CardMove` says what one move does to a cardinality; `CountInv` adds that a failed connection is on its way out (`FailedLeave`), without which the gauge cannot be tracked. |
| `SweepOnlyOpenHolds`, `SweepClosesHolds` | `[]SweepOnlyOpen`, `[]SweepCloses` | `SweepInv`: while `CloseAll` holds `connsMu` no connection can finish `deregister`, so what it has still to visit stays registered; what it visited is closed, and closed stays closed. |
| `NoWaitCycleHolds` | `[]NoWaitCycle` | `MutexInv`: a write mutex is held only by who is in its write, and there is no ping goroutine before `serve`. Who writes waits for nobody (`WriterWaitsNot`), so every wait for a write mutex ends a chain, and only waits for `connsMu` have one behind them (`WaitKinds`): no chain has three links. |
| `SweepAlwaysShortens` | `SweepShortens` | `SweepNearer`: each step of `CloseAll` lowers `SweepLeft`, and no step of a handler, a ping goroutine or a peer touches the list or the place in it. The part of `ShutdownProceeds` that needs no fairness. |
| `AITypeCorrect`, `TrippedExactly` | `[]AITypeOK`, `[]TrippedAtThreshold` | inductive together: `RecordInv` is the only step that changes either side |
| `OpenExposureHolds` | `[]OpenExposure` | The attempts left to every call are a set of pairs, `Left`; `Exposed`: requests already sent while open, together with those left, are at most the attempts of all calls but one. Each request moves one from the second to the first; the call that trips the breaker has none left. |
| `ImplementsClient` | `Conversation!Spec => AISpec` | every step of a turn is a step of the client or leaves it unchanged (`ClientStep`); `TrippedExactly` then carries over (`TrippedExactlyInTurns`) |
| `ConversationProofs!TypeCorrect` | `[]TypeOK` | the client's part from `ImplementsClient`, the rest from `ConvTypes` |
| `SkippedWasAnsweredHolds`, `HashesFreedHolds`, `NothingUnsaidHolds` | the invariants of these names | `TurnInv` says for every step of a turn what `frame`, `hash` and `unsaid` are: the stored hash during a frame turn is that of the frame or has aged, a recorded answer is unsaid only before the write, or on a connection a write has failed on, which the first and the third except. |
| `TurnAlwaysShortens` | `TurnShortens` | `CallInv`: a call is underway only in the step `ai` of a turn, and attempts are counted only in its requests. Then every step of a turn lowers `TurnLeft`, retries and back-offs included, and no step of another turn changes it. The part of `TurnEnds` that needs no fairness. |
| `LimitsProofs!TypeCorrect` | `[]TypeOK` | both limiters, action by action |
| `BudgetAlwaysKept` | `[]BudgetKept`, for any number of requests in flight | `BudgetInv`: a prompt request holds the bucket on the map (`Holds`), for it cannot have been dropped within `Grace`; the bucket on the map has no more tokens than the one that is never dropped, and when it is old enough to be dropped, or was, the latter is full (`Covered`), so that a new one gives nothing away. |
| `UserBudgetAlwaysKept` | `[]UserBudgetKept` | `UserInv`: an entry has at most the credit, and a user without entry has full credit |
| `BanAlwaysStands`, `RenewalsAlwaysBounded` | `[]BanStands`, `[]RenewalsBounded`, for any number of requests in flight | `BanInv` adds `Crowded`: while a ban is in force nobody of its address gets in, and each request that was in when it began is still on its way, has its violation counted, is one of the `Threshold` spent on a renewal, or is gone. |
| `TransparentHolds`, `CacheCurrent` | `RagService!Spec => Transparent`, `[]Current` | `Current`: what is cached is what a search of that store gives; `Waiting`: who is searching has no answer yet. Then every step is a step of the look-up or a stutter. |
| `FrameRateKept` | `[]FrameRate` | `FrameInv`: the frames accepted last are the ones of the window in force, then at most `MaxFPS` of the window before; all else is older than that window's beginning, and so than a second (`Windows`). |
| `HistoryAlwaysKept` | `HistoryKept` (SessionReads implements SlidingWindow) | `HistoryInv`: the slice of the writer and of every reader lies within its array, and no reader's slice on the shared array reaches beyond the end of the history, which is where `append` writes. So what readers see stays (`ReaderTypes`, `AddMessageStep`), and the slice after an append and a trim is the window (`WindowIsLatest`). |
| `SessionReadsProofs!TypeCorrect` | `[]TypeOK` | by the two parts, the type of a copy from `CopyMatches` |
| `CopyAlwaysCurrent`, `WalkAlwaysComplete` | `[]CopyIsCurrent`, `[]WalkComplete` | `ListingInv`: no two sessions share a time (`DistinctTimes`: in the model every change has a time of its own, as nanoseconds give it), so an order by time has one list only (`OneListing`); a confirmed copy's tag is one that a list of the present sessions may have (`Vouched`); the pages of a walk are cut from the list its tag stands for (`Walked`). `StartExact`, `CutIs` and `PagesCover` say what the integer arithmetic of `paginateSessions` does to the pages below the largest `int`. |
| `RagServiceProofs!TypeCorrect` | `[]TypeOK` | `Inv` of the refinement and `CachesInv` |
| `CachesConsistent`, `OldestEvicted` | `[]CacheConsistent`, `EvictsOldest` | `CachesInv`: list and map have the same keys, each once, within the capacity, and an earlier place in the list is a later use in `usedAfter`. One lemma for each thing done to a list: `Dropped` (a key is removed), `Shortened` (the last is evicted), `Pushed` (a new key in front), `Fronted` (a key moves to the front). |
| `AlwaysRanked` | `[]Ranked` | `Search` is a best-first list of the entries with positive score (`SortedIs`), and a score is positive exactly for entries that share a word with the query: terms are never negative (`Products`, `IdfPositive`), and the share of a word that occurs is not rounded to zero (`SharePositive`, which needs `UnitAssumption`). `SearchRanks` is about every corpus and key; what is answered is a search by `Current`. |
| `ClientProofs!TypeCorrect` | `[]TypeOK` | the three parts of `Inv` |
| `OneLinkHolds`, `NothingLeftHolds` | `[]OneLink`, `[]NothingLeft` | `LinkInv`: what is awaited or listened to is the channel in `_channel`, and so is any connection; before `disconnect` there is one thing of three (`OneThing`), afterwards no timer, and so no new attempt |
| `NothingStrandedHolds` | `[]NothingStranded` | `VoiceInv`: while the flag is set, the last command is an utterance, or one plays with no command behind it, or its end is reported (`OnItsWay`); the last event underway says what the flag is (`Heard`). Stated over the last command, because "some command is an utterance" is not inductive. |
| `WaitIsTimedHolds` | `[]WaitIsTimed` | `ScreenInv` adds that nothing is asked where no screen is mounted |

Every invariant, action property and refinement that a passing run checks is a
theorem. What stays with TLC:

* The liveness properties `OverLimitLeaves`, `HandlerEnds`, `PingEnds`,
  `ShutdownProceeds`, `TurnEnds`, `BreakerRecovers`, `Forgotten`
  and `BackOnline`: they need fairness and ENABLED, which this prover does not
  handle. For turns and for the shutdown the theorems above give the half that
  needs neither: a variant that every step of the goroutine lowers and nobody
  raises, so that only a step that is never taken can keep it from ending.
* The counterexamples of the two runs that expect a violation.

Sums over functions, sorted lists and removal from a sequence are defined
through folds or CHOOSE, and what they compute would be shown by induction over
data, which the installed provers cannot do with the library's theorems. The
proofs go another way: a least counterexample among the natural numbers
(`LeastNatural`, `LeastSubset`) shows that a sum and a sorted list exist and are
unique (`SumExists`, `SumUnique`, `SortedExists`), and the rest uses only what
characterises them (`SumPositive`, `SortedIs`, `RemoveFirstIs`).

## 5. Where code and documentation disagree

Shown by a run each:

* `store_recover`: `CreateSession` shows a session to REST before its row is
  saved. A delete in between finds no row; the late insert leaves an active one
  and the next start restores a session that had been deleted.
* `conns_pong`: the pong handler runs inside `ReadJSON` only. When a call
  outlasts the rest of the read deadline, a client that answered every ping is
  disconnected.

Stated in the modules without a run of their own; add the definition as an
invariant or property to the configuration in brackets to see it fail:

* `ShutdownBounded` [`ConnectionsLive`]: `CloseAll` writes to each connection,
  without a deadline, with `connsMu` held and before the time-limited part of
  the shutdown, so that a peer that does not read keeps it from proceeding,
  against the sequence in `API.md`.
* `SilentClientFreed` [`ConnectionsLive`]: a peer that stops reading while an
  answer is written is not freed by the ping time-out, because the blocked write
  holds the mutex the ping needs and the read deadline is not looked at.
* `DisconnectEndsCall` [`ConnectionsPong`, under a specification with fairness
  but none for `CallReturns`: `SlowFairSpec`]: the comment on `connCtx` says
  that calls are cancelled when the client disconnects; the cancel function is
  deferred by the goroutine that is blocked in the call.
* `GaugeIsOpenConnections` [`Connections`]: a connection whose session cannot
  be created is added to the connections gauge and never taken off.
* `NoPingAfterDone` [`Connections`]: `select` may choose the ticker although
  `done` is closed, so one more ping can be sent.
* `NoRequestWhileOpen` [`Conversation`]: the comment of `isOpen` forbids
  requests while the breaker is open; calls that passed the check before it
  opened still send theirs. `OpenExposure` bounds how many.
* `QuotaKept` [`SessionStore`]: the limit of active sessions is not exact, see
  `QuotaOvershoot`.
* `GaugeIsCount` [`SessionStore`]: two REST handlers can set the sessions gauge
  in the opposite order of their counts; sessions of connections and expiries do
  not set it at all.
* `WaitEnds` [`Client`]: the FAQ promises a time-out of 15 seconds. Only the
  camera screen has the timer, and nothing in the app navigates to it; on the
  session screen a question whose frame was dropped without an answer, or lost
  with the connection, leaves the app waiting, also on the next screen, because
  the state of `SessionNotifier` outlives them.
* `ButtonInSync` [`Client`]: `voice_provider.dart` says that the subscription
  keeps `isSpeaking` in sync. `stopSpeaking` assigns FALSE after its await and
  overwrites the TRUE of an utterance that began meanwhile.

Met while modelling, without a definition:

* A failed write of an answer is only logged (`websocket_handler.go:585`) and the
  loop reads on, for as long as reading works. The answer stays in the history
  and the frame's hash in its table although the client got neither; a client
  that sends the frame again has it skipped as a duplicate. `SkippedWasAnswered`
  and `NothingUnsaid` except such connections and say what holds on all others.
* Requests that passed `isBanned` before a ban can prolong it, once they are
  as many as `banViolationThreshold`; `RenewalsBounded` says how often.
* A connection that was counted and is not yet registered when `CloseAll`
  copies the registry is missed; `SweepCloses` speaks of those registered.
* `handlers/auth.go` parses the claims into `*jwt.RegisteredClaims` and then
  asserts `jwt.MapClaims`, so that `user_id` is never set and each connection is
  anonymous to the quota and the per-user limiter. The models take the user id
  as the input it is, the anonymous one included.
* A page number near the largest `int` makes `(page - 1) * page_size` wrap to a
  negative start, which passes both tests of `paginateSessions`; the slice
  expression panics. In the model such a query brings no page.
* `sort_by=status` has ties only: a walk over its pages may lose sessions.
* `GetSessionSteps` and `GetSessionMessages` have no route in `main`.
* `API.md` gives 5 frames a second; the window is fixed, and up to twice the
  limit passes within a second (`FrameRate`). It also gives 429 for more than 60
  REST requests in a minute; the limiter is a token bucket of one token a second
  with a burst of ten.
* `gemini_service.go:50-53` describes a half-open probe; after the cooldown
  every call passes until one of them fails.
* The comment on `AnalyzeFrame` speaks of respecting the limit of the API
  across sessions; a call takes one token and may send three requests.
* `phash.go` describes frames at the threshold as duplicates; the comparison in
  `conversation_service.go` is strict.
* The per-IP limit of WebSocket connections rejects after the upgrade: to the
  app this is a connection that ends, and it resets its back-off.
* `websocket_service.dart` speaks of a cap of 60 seconds in one comment and of
  30 in another, which is what it does, up to the 63rd failure in a row: then
  the shift is negative, later zero, and there is no pause at all.
* The app sends no pings: a connection that is cut without a word is shown as
  connected until TCP gives up.
* A completion that is underway when `stop` is called clears the flag of the
  next utterance, so that a later one cuts it off.
* The camera screen reads the text of an error from `message`; the server sends
  `error`.
* `_captureAndSend` uses `ref` after its await, when the screen may be disposed.
* When the server's address or the language changes, the provider makes a new
  service; a screen that is mounted stays subscribed to the old one.

## 6. Not modelled, and why

* The database is a table with atomic statements that succeed or fail; a
  statement that takes effect although it reports an error is left out. So are
  the insert-only rows of feedback and steps.
* Go's memory model: shared data is accessed under mutexes or atomics in the
  modelled code, except for the array of a conversation, which `History` models;
  each critical section is one action.
* Message contents, the prompt, parsing and languages; floating-point code,
  except the search, which is modelled over integers; the perceptual hash, of
  which only closeness to the stored hash is kept.
* How long the app's back-off is: its timer may fire at any time. What the app
  sends, shows and stores, speech recognition, the camera.
* A speech engine whose initialisation fails: the handlers are installed when
  the voice begins.
* Everything in section 1.2, for the reasons given there.

## 7. What is left

* The server as one module, Connections with SessionStore and Conversation by
  INSTANCE, in place of the abstract `call` and `live`. The product of the
  smallest instances is beyond TLC; it would be for the prover.

## 8. How to run

`tlasany M.tla` parses a module, `tlc -config X.cfg MCM.tla` checks a run,
`tlapm MProofs.tla` checks the proofs. `PROJECT.json` lists components, runs,
the mutants that show that each property can fail, the lines every definition
stands for, findings, hazards and theorems.
