---------------------------- MODULE SessionListing ----------------------------
(***************************************************************************)
(* What REST clients see of the sessions: lists that are filtered, sorted  *)
(* and cut into pages (ListSessions), single sessions (GetSession), and    *)
(* the ETags that tell a client that its copy is still good.  An ETag is   *)
(* what it hashes.                                                         *)
(***************************************************************************)
EXTENDS Integers, FiniteSets, Sequences, SequencesExt

CONSTANTS
    Session,
    Brand,
    Problem,
    NoProblem,
    NoFilter,       \* a filter that is not set
    Query,          \* the queries of the client
    IntLimit,       \* the first number that an int does not hold
    maxPageSize,
    MaxTime         \* bounds the changes of sessions

\* page and page_size may be anything the URL holds; the other parameters
\* are empty, known or taken for the default.
Parameters ==
    [page : -IntLimit .. IntLimit - 1, size : -IntLimit .. IntLimit - 1,
     sort : {"created_at", "last_activity", "status"}, asc : BOOLEAN,
     status : {"active", "closed", NoFilter}, brand : Brand \cup {NoFilter}, problem : Problem \cup {NoFilter}]

ASSUME ListingAssumption ==
    /\ NoProblem \notin Problem
    /\ NoFilter \notin Brand \cup Problem
    /\ IsFiniteSet(Session)
    /\ Query \subseteq Parameters /\ Session \cap Query = {}
    /\ IntLimit \in Nat \ {0} /\ Cardinality(Session) < IntLimit
    /\ maxPageSize \in Nat \ {0}
    /\ MaxTime \in Nat

VARIABLES
    sessions,     \* the live sessions: a record of each
    time,         \* the clock; no two changes fall into one nanosecond
    copy,         \* what the client got last, a page with its query or a session
    confirmed,    \* the last answer was a 304 and nothing changed since
    walk          \* the pages from the first on, while nothing changed

listingVars == <<sessions, time, copy, confirmed, walk>>

Record ==
    [brand : Brand, problem : Problem \cup {NoProblem}, created : 1 .. MaxTime, active : 1 .. MaxTime]

\* toResponse: every live session is active.
Response == [id : Session, status : {"active"}, data : Record]

-----------------------------------------------------------------------------
(* ListSessions.                                                           *)

toResponse(s) == [id |-> s, status |-> "active", data |-> sessions[s]]

Matches(r, q) ==
    /\ q.status \in {NoFilter, r.status}
    /\ q.brand \in {NoFilter, r.data.brand}
    /\ q.problem \in {NoFilter, r.data.problem}

Before(r, t, q) ==
    CASE q.sort = "created_at" -> r.data.created < t.data.created
      [] q.sort = "last_activity" -> r.data.active < t.data.active
      [] q.sort = "status" -> FALSE

filterSessions(q) == {r \in {toResponse(s) : s \in DOMAIN sessions} : Matches(r, q)}

\* sort.Slice moves r behind t.
Later(r, t, q) == IF q.asc THEN Before(t, r, q) ELSE Before(r, t, q)

\* sortSessions: the map's order is random, and ties stay in any order.
Listings(q) ==
    {list \in SetToSeqs(filterSessions(q)) :
        \A i, j \in DOMAIN list : i < j => ~Later(list[i], list[j], q)}

\* parsePagination.
Page(q) == IF q.page < 1 THEN 1 ELSE q.page
PageSize(q) == IF q.size < 1 THEN 1 ELSE IF q.size > maxPageSize THEN maxPageSize ELSE q.size

Wrapped(n) == ((n + IntLimit) % (2 * IntLimit)) - IntLimit

\* Mutant: pages count from zero.
ZeroStart(q) == Wrapped(Page(q) * PageSize(q))

Start(q) == Wrapped((Page(q) - 1) * PageSize(q))

paginateSessions(list, q) ==
    IF Start(q) >= Len(list) THEN <<>>
    ELSE SubSeq(list, Start(q) + 1, Min({Start(q) + PageSize(q), Len(list)}))

totalPages(list, q) ==
    IF list = <<>> THEN 1
    ELSE Len(list) \div PageSize(q) + IF Len(list) % PageSize(q) # 0 THEN 1 ELSE 0

Body(list, q) ==
    [sessions |-> paginateSessions(list, q), total |-> Len(list), pages |-> totalPages(list, q)]

\* Mutant: the ETag is taken from the page.
PageETag(list, q) == paginateSessions(list, q)

sessionListETag(list, q) == list

sessionETag(r) == r

-----------------------------------------------------------------------------
ListingTypeOK ==
    /\ DOMAIN sessions \subseteq Session /\ sessions \in [DOMAIN sessions -> Record]
    /\ time \in 0 .. MaxTime
    /\ confirmed \in BOOLEAN
    /\ \A c \in copy : IF c.query \in Session THEN c.etag \in Response
                       ELSE c.query \in Query /\ c.etag \in Seq(Response)
    /\ Cardinality(copy) <= 1
    /\ walk \in Seq(Seq(Response))

ListingInit ==
    /\ sessions = <<>>
    /\ time = 0
    /\ copy = {} /\ confirmed = FALSE
    /\ walk = <<>>

\* A change of the sessions ends walks and confirmations.
Change ==
    /\ time < MaxTime
    /\ time' = time + 1
    /\ confirmed' = FALSE /\ walk' = <<>>
    /\ UNCHANGED copy

CreateSession(s, b) ==
    /\ s \notin DOMAIN sessions
    /\ Change
    /\ sessions' = [t \in DOMAIN sessions \cup {s} |->
           IF t = s THEN [brand |-> b, problem |-> NoProblem, created |-> time', active |-> time']
           ELSE sessions[t]]

\* DeleteSession and the clean-up.
RemoveSession(s) ==
    /\ s \in DOMAIN sessions
    /\ Change
    /\ sessions' = Restrict(sessions, DOMAIN sessions \ {s})

\* AddMessage and UpdateStep.
Touch(s) ==
    /\ s \in DOMAIN sessions
    /\ Change
    /\ sessions' = [sessions EXCEPT ![s].active = time']

SetProblemDetected(s, p) ==
    /\ s \in DOMAIN sessions
    /\ Change
    /\ sessions' = [sessions EXCEPT ![s].active = time', ![s].problem = p]

\* A query without If-None-Match, or with one that does not match.  When the
\* start is negative the handler panics and the client keeps what it has.
ListSessions(q) ==
    \E list \in Listings(q) :
        /\ Start(q) >= 0
        /\ copy' = {[query |-> q, etag |-> sessionListETag(list, q), body |-> Body(list, q)]}
        /\ confirmed' = FALSE
        /\ walk' = IF Page(q) = 1 THEN <<paginateSessions(list, q)>> ELSE
                   IF \E c \in copy : walk # <<>> /\ Page(q) = Len(walk) + 1 /\ q = [c.query EXCEPT !.page = q.page]
                   THEN Append(walk, paginateSessions(list, q)) ELSE <<>>
        /\ UNCHANGED <<sessions, time>>

\* GetSession, for a session that exists.
GetSession(s) ==
    /\ s \in DOMAIN sessions
    /\ copy' = {[query |-> s, etag |-> sessionETag(toResponse(s)), body |-> toResponse(s)]}
    /\ confirmed' = FALSE /\ walk' = <<>>
    /\ UNCHANGED <<sessions, time>>

\* The same request with the ETag of the copy.
NotModified ==
    /\ \E c \in copy :
           \/ /\ c.query \in Query
              /\ \E list \in Listings(c.query) : c.etag = sessionListETag(list, c.query)
           \/ /\ c.query \in DOMAIN sessions
              /\ c.etag = sessionETag(toResponse(c.query))
    /\ confirmed' = TRUE
    /\ UNCHANGED <<sessions, time, copy, walk>>

ListingNext ==
    \/ \E s \in Session : \E b \in Brand : CreateSession(s, b)
    \/ \E s \in Session : RemoveSession(s) \/ Touch(s) \/ GetSession(s)
    \/ \E s \in Session : \E p \in Problem : SetProblemDetected(s, p)
    \/ \E q \in Query : ListSessions(q)
    \/ NotModified

ListingSpec == ListingInit /\ [][ListingNext]_listingVars

-----------------------------------------------------------------------------
(* Properties.                                                             *)

\* After a 304 the client's copy, the totals included, is a page or a session
\* that a 200 would have brought.
CopyIsCurrent ==
    confirmed => \A c \in copy :
        \/ /\ c.query \in Query
           /\ \E list \in Listings(c.query) : c.body = Body(list, c.query)
        \/ /\ c.query \in DOMAIN sessions
           /\ c.body = toResponse(c.query)

\* Where a session is shown in a walk, and which one.
Places == UNION {{p} \X DOMAIN walk[p] : p \in DOMAIN walk}
Shown(x) == walk[x[1]][x[2]]
Sooner(x, y) == x[1] < y[1] \/ (x[1] = y[1] /\ x[2] < y[2])

\* Who reads from the first page to the last while nothing changes sees all
\* sessions that match and each of them once, in order; for keys without ties.
WalkComplete ==
    \A c \in copy :
        (walk # <<>> /\ c.query.sort # "status" /\ Len(walk) = c.body.pages) =>
            /\ {Shown(x) : x \in Places} = filterSessions(c.query)
            /\ \A x, y \in Places : Sooner(x, y) => Later(Shown(y), Shown(x), c.query)
=============================================================================
