------------------------------ MODULE RagService ------------------------------
(***************************************************************************)
(* Queries of the knowledge base (RAGService) through LRU caches: one for  *)
(* all entries and one for each domain.  A query looks in a cache, searches *)
(* and stores the results, each cache operation under the cache's mutex    *)
(* and nothing in between.  Corpora are read at the start and stay.        *)
(***************************************************************************)
EXTENDS VectorStore

CONSTANTS
    Req,          \* goroutines that query
    File,         \* *.json files in KB_DATA_DIR
    DomainOf,     \* the domain a file names
    Problems,     \* its entries
    Everything,   \* the empty domain; the global store and its cache
    Capacity,     \* ragCacheCapacity
    TTL,          \* ragCacheTTL, in ticks
    NoAnswer      \* a query has not returned

\* The stores that the files may make, and the domains that queries name.
Store == {DomainOf[f] : f \in File} \cup {Everything}
Question == Store \X Key
Results == Seq(Doc)

ASSUME RagAssumption ==
    /\ DOMAIN DomainOf = File
    /\ Problems \in [File -> SUBSET Doc]
    /\ NoAnswer # <<>> /\ \A corpus \in SUBSET Doc, k \in Key : NoAnswer # Search[<<corpus, k>>]
    /\ Key # {}
    /\ Capacity \in Nat \ {0}
    /\ TTL \in Nat

VARIABLES
    loaded,     \* the files that could be read
    pc,         \* where a query is
    question,   \* its domain, its query string and maxResults
    answer,     \* what it returned
    order,      \* a cache's list, most recently used first
    items,      \* its map: the results of a key and their age
    usedAfter   \* history: its pairs of keys of which the first was used after the other

caches == <<order, items, usedAfter>>
vars == <<loaded, pc, question, answer, caches>>

Cached(s) == DOMAIN items[s]
Item == [results : Results, age : 0 .. TTL + 1]

TypeOK ==
    /\ loaded \subseteq File
    /\ pc \in [Req -> {"idle", "search"}]
    /\ question \in [Req -> Question]
    /\ answer \in [Req -> Results \cup {NoAnswer}]
    /\ order \in [Store -> Seq(Key)]
    /\ items = [s \in Store |-> items[s]]
    /\ \A s \in Store : Cached(s) \subseteq Key /\ items[s] \in [Cached(s) -> Item]
    /\ usedAfter \in [Store -> SUBSET (Key \X Key)]

\* NewRAGService: a file that cannot be read is left out.
Init ==
    /\ loaded \in SUBSET File
    /\ pc = [r \in Req |-> "idle"]
    /\ question = [r \in Req |-> CHOOSE q \in Question : TRUE]
    /\ answer = [r \in Req |-> <<>>]
    /\ order = [s \in Store |-> <<>>]
    /\ items = [s \in Store |-> <<>>]
    /\ usedAfter = [s \in Store |-> {}]

-----------------------------------------------------------------------------
(* Routing.                                                                *)

Entries(files, s) == UNION {Problems[f] : f \in {g \in files : s \in {DomainOf[g], Everything}}}

\* QueryKBByDomain: a domain without a store falls back to QueryKB.
StoreOf(files, domain) ==
    IF \E f \in files : DomainOf[f] = domain THEN domain ELSE Everything

Found(files, q) == Search[<<Entries(files, StoreOf(files, q[1])), q[2]>>]

\* The cache for a question.
Cache(q) == StoreOf(loaded, q[1])

\* Mutant: a domain without entries is answered before the fallback.
SkippedEarly(q) == q[2][1] = NoText \/ Entries(loaded, q[1]) = {}

\* QueryKB and QueryKBByDomain return before they look in a cache.
Skipped(q) ==
    \/ q[2][1] = NoText
    \/ Cache(q) = Everything /\ Entries(loaded, Everything) = {}

cacheKey(q) == q[2]

-----------------------------------------------------------------------------
(* The cache.                                                              *)

ToFront(list, k) == <<k>> \o RemoveFirst(list, k)

\* Mutant: a hit leaves the list alone.
Untouched(s, k) == order[s]

\* The list after a hit.
Touched(s, k) == ToFront(order[s], k)

\* Mutant: set does not look for the key again.
SetBlind(s, k) == <<k>> \o SubSeq(order[s], 1, Min({Capacity - 1, Len(order[s])}))

\* The list after set: the last element makes place for a new key.
Stored(s, k) ==
    IF k \in Cached(s) THEN ToFront(order[s], k)
    ELSE <<k>> \o SubSeq(order[s], 1, Min({Capacity - 1, Len(order[s])}))

\* The keys that stay in the map, the new one included.
Kept(s, k) ==
    IF k \notin Cached(s) /\ Len(order[s]) >= Capacity
    THEN (Cached(s) \ {Last(order[s])}) \cup {k}
    ELSE Cached(s) \cup {k}

\* The uses of the keys that are there, and a use of one of them.
Among(pairs, keys) == pairs \cap (keys \X keys)
Use(pairs, keys, k) == Among(pairs, keys \ {k}) \cup {k} \X (keys \ {k})

-----------------------------------------------------------------------------
(* A query.                                                                *)

\* The call of r is over.
Return(r, q, results) ==
    /\ pc' = [pc EXCEPT ![r] = "idle"]
    /\ question' = [question EXCEPT ![r] = q]
    /\ answer' = [answer EXCEPT ![r] = results]
    /\ UNCHANGED loaded

Skip(r, q) ==
    /\ pc[r] = "idle"
    /\ Skipped(q)
    /\ Return(r, q, <<>>)
    /\ UNCHANGED caches

\* get: what is there and has not expired.
Valid(s, k) == k \in Cached(s) /\ items[s][k].age <= TTL

Hit(r, q) ==
    LET s == Cache(q)
        k == cacheKey(q)
    IN
    /\ pc[r] = "idle" /\ ~Skipped(q)
    /\ Valid(s, k)
    /\ order' = [order EXCEPT ![s] = Touched(s, k)]
    /\ usedAfter' = [usedAfter EXCEPT ![s] = Use(@, Cached(s), k)]
    /\ Return(r, q, items[s][k].results)
    /\ UNCHANGED items

\* get finds nothing, or an entry that has expired and that it removes.
Miss(r, q) ==
    LET s == Cache(q)
        k == cacheKey(q)
    IN
    /\ pc[r] = "idle" /\ ~Skipped(q)
    /\ ~Valid(s, k)
    /\ pc' = [pc EXCEPT ![r] = "search"]
    /\ question' = [question EXCEPT ![r] = q]
    /\ answer' = [answer EXCEPT ![r] = NoAnswer]
    /\ order' = [order EXCEPT ![s] = RemoveFirst(@, k)]
    /\ items' = [items EXCEPT ![s] = Restrict(@, Cached(s) \ {k})]
    /\ usedAfter' = [usedAfter EXCEPT ![s] = Among(@, Cached(s) \ {k})]
    /\ UNCHANGED loaded

\* Search, and set with its results.
Fill(r) ==
    LET s == Cache(question[r])
        k == cacheKey(question[r])
        results == Found(loaded, question[r])
    IN
    /\ pc[r] = "search"
    /\ order' = [order EXCEPT ![s] = Stored(s, k)]
    /\ items' = [items EXCEPT ![s] =
           [j \in Kept(s, k) |-> IF j = k THEN [results |-> results, age |-> 0] ELSE @[j]]]
    /\ usedAfter' = [usedAfter EXCEPT ![s] = Use(@, Kept(s, k), k)]
    /\ Return(r, question[r], results)

Older(item) == [item EXCEPT !.age = Min({@ + 1, TTL + 1})]

CacheTick ==
    /\ items' = [s \in Store |-> [k \in Cached(s) |-> Older(items[s][k])]]
    /\ UNCHANGED <<loaded, pc, question, answer, order, usedAfter>>

-----------------------------------------------------------------------------
Next ==
    \/ \E r \in Req : Fill(r) \/ \E q \in Question : Skip(r, q) \/ Hit(r, q) \/ Miss(r, q)
    \/ CacheTick

Spec == Init /\ [][Next]_vars

-----------------------------------------------------------------------------
(* Properties.                                                             *)

\* The list and the map of a cache hold the same keys, each once, and no more
\* than the capacity: also when several queries miss the same key together.
CacheConsistent ==
    \A s \in Store :
        /\ ToSet(order[s]) = Cached(s)
        /\ IsInjective(order[s])
        /\ Len(order[s]) <= Capacity

\* An entry that has not expired leaves a cache only when every other one was
\* used after it.
EvictsOldest ==
    [][\A s \in Store : \A k \in Cached(s) \ Cached(s)' :
           items[s][k].age <= TTL => \A j \in Cached(s) \ {k} : <<j, k>> \in usedAfter[s]]_vars

\* What is cached ranks the entries of its store: a search finds every entry
\* that shares a word with the query, and the best of them first.
Ranked ==
    \A s \in Store : \A k \in Cached(s) : IsRanking(items[s][k].results, Entries(loaded, s), k)

\* Nobody can tell that answers are cached.
Promise == INSTANCE KnowledgeLookup WITH
    Asker <- Req, Files <- SUBSET File, files <- loaded, Fresh <- Found, Nothing <- <<>>

Transparent == Promise!Spec
=============================================================================
