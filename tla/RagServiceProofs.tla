--------------------------- MODULE RagServiceProofs ---------------------------
(***************************************************************************)
(* Proofs about RagService, for every corpus, table of logarithms, set of  *)
(* queries and goroutines, capacity and time to live: nobody can tell that *)
(* answers are cached, the caches are consistent and evict what was used   *)
(* longest ago, and a search ranks.                                        *)
(***************************************************************************)
EXTENDS RagService, SequenceTheorems, FiniteSetTheorems, TLAPS

\* What is cached is what a search of the cache's store gives.
IsCurrent(files, s, map) ==
    /\ map = [k \in DOMAIN map |-> map[k]]
    /\ DOMAIN map \subseteq Key
    /\ \A k \in DOMAIN map : \E age \in 0 .. TTL + 1 :
           map[k] = [results |-> Search[<<Entries(files, s), k>>], age |-> age]

Current == \A s \in Store : IsCurrent(loaded, s, items[s])

\* A query that is searching has no answer yet.
Waiting == \A r \in Req : pc[r] = "search" <=> answer[r] = NoAnswer

Inv ==
    /\ loaded \subseteq File
    /\ pc \in [Req -> {"idle", "search"}]
    /\ question \in [Req -> Question]
    /\ answer = [r \in Req |-> answer[r]]
    /\ items = [s \in Store |-> items[s]]
    /\ Current
    /\ Waiting

\* The entries of a store are a corpus.
LEMMA EntriesCorpus ==
    ASSUME NEW files \in SUBSET File, NEW s PROVE Entries(files, s) \in SUBSET Doc
  BY RagAssumption DEF Entries

\* A question is put to a store.
LEMMA StoreOfStore ==
    ASSUME NEW files \in SUBSET File, NEW q \in Question
    PROVE  StoreOf(files, q[1]) \in Store /\ q[2] \in Key
  BY DEF StoreOf, Store, Question

\* No answer of a search is NoAnswer.
LEMMA FoundIsAnswer ==
    ASSUME NEW files \in SUBSET File, NEW q \in Question
    PROVE  Found(files, q) # NoAnswer
  BY EntriesCorpus, StoreOfStore, RagAssumption DEF Found

\* What is skipped would not have found anything.
LEMMA SkippedFindsNothing ==
    ASSUME loaded \subseteq File, NEW q \in Question, Skipped(q)
    PROVE  Found(loaded, q) = <<>>
<1> DEFINE corpus == Entries(loaded, StoreOf(loaded, q[1]))
<1>1. corpus \in SUBSET Doc /\ q[2] \in Key
  BY EntriesCorpus, StoreOfStore
<1>2. corpus = {} \/ tokenize(q[2][1]) = NoText
  <2>1. CASE q[2][1] = NoText
    BY <2>1 DEF tokenize, NoText
  <2>2. CASE Cache(q) = Everything /\ Entries(loaded, Everything) = {}
    BY <2>2 DEF Cache
  <2> QED
    BY <2>1, <2>2 DEF Skipped
<1>3. Search[<<corpus, q[2]>>] = <<>>
  BY <1>1, <1>2 DEF Search
<1> QED
  BY <1>3 DEF Found

\* The lesser of two numbers.
LEMMA LesserOf ==
    ASSUME NEW a \in Int, NEW b \in Int
    PROVE  Min({a, b}) = IF a <= b THEN a ELSE b
<1>1. \E x \in {a, b} : \A y \in {a, b} : x <= y
  <2>1. CASE a <= b
    BY <2>1
  <2>2. CASE ~(a <= b)
    BY <2>2
  <2> QED
    BY <2>1, <2>2
<1>2. Min({a, b}) \in {a, b} /\ \A y \in {a, b} : Min({a, b}) <= y
  BY <1>1 DEF Min
<1> QED
  BY <1>2

\* The age of an entry stays in its range, and its results stay.
LEMMA OlderKeeps ==
    ASSUME NEW results, NEW age \in 0 .. TTL + 1
    PROVE  \E a \in 0 .. TTL + 1 :
               Older([results |-> results, age |-> age]) = [results |-> results, age |-> a]
<1> DEFINE a == Min({age + 1, TTL + 1})
<1>1. a \in 0 .. TTL + 1
  <2>1. age + 1 \in Int /\ TTL + 1 \in Int /\ age + 1 >= 0 /\ TTL + 1 >= 0
    BY RagAssumption
  <2>2. a = IF age + 1 <= TTL + 1 THEN age + 1 ELSE TTL + 1
    BY <2>1, LesserOf
  <2> HIDE DEF a
  <2> QED
    BY <2>1, <2>2
<1>2. Older([results |-> results, age |-> age]) = [results |-> results, age |-> a]
  BY DEF Older
<1> QED
  BY <1>1, <1>2

LEMMA InvInit == Init => Inv
<1> SUFFICES ASSUME Init PROVE Inv
  OBVIOUS
<1>1. pc \in [Req -> {"idle", "search"}] /\ question \in [Req -> Question]
  <2>1. Question # {}
    <3>1. PICK k \in Key : TRUE
      BY RagAssumption
    <3>2. <<Everything, k>> \in Question
      BY <3>1 DEF Question, Store
    <3> QED
      BY <3>2
  <2>2. (CHOOSE q \in Question : TRUE) \in Question
    BY <2>1
  <2> QED
    BY <2>2 DEF Init
<1>2. Current
  <2> SUFFICES ASSUME NEW s \in Store PROVE IsCurrent(loaded, s, items[s])
    BY DEF Current
  <2>1. items[s] = <<>>
    BY DEF Init
  <2>2. <<>> = [k \in {} |-> <<>>[k]] /\ DOMAIN <<>> = {}
    OBVIOUS
  <2> QED
    BY <2>1, <2>2 DEF IsCurrent
<1>3. Waiting
  BY RagAssumption DEF Init, Waiting
<1> QED
  BY <1>1, <1>2, <1>3 DEF Init, Inv

-----------------------------------------------------------------------------
(* Every step keeps Inv, and is a step of KnowledgeLookup or a stutter.    *)

\* A change of one cache's map, by entries with the results of a search.
LEMMA CurrentStep ==
    ASSUME Inv, NEW s \in Store, NEW map, loaded' = loaded,
           items' = [items EXCEPT ![s] = map], IsCurrent(loaded, s, map)
    PROVE  items' = [t \in Store |-> items'[t]] /\ Current'
<1>1. \A t \in Store : items'[t] = IF t = s THEN map ELSE items[t]
  BY DEF Inv
<1>2. items' = [t \in Store |-> items'[t]]
  BY DEF Inv
<1>3. \A t \in Store : IsCurrent(loaded, t, items'[t])
  BY <1>1 DEF Inv, Current
<1> QED
  BY <1>2, <1>3 DEF Current

\* A call that returns keeps what Inv says of goroutines.
LEMMA ReturnKeeps ==
    ASSUME Inv, NEW r \in Req, NEW q \in Question, NEW results, results # NoAnswer,
           Return(r, q, results)
    PROVE  /\ loaded' = loaded /\ loaded' \subseteq File
           /\ pc' \in [Req -> {"idle", "search"}]
           /\ question' \in [Req -> Question]
           /\ answer' = [a \in Req |-> answer'[a]]
           /\ Waiting'
  BY DEF Inv, Waiting, Return

LEMMA SkipStep ==
    ASSUME Inv, NEW r \in Req, NEW q \in Question, Skip(r, q)
    PROVE  Inv' /\ Promise!Next
<1>1. Found(loaded, q) = <<>>
  BY SkippedFindsNothing DEF Inv, Skip
<1>2. items' = items /\ Return(r, q, <<>>) /\ loaded' = loaded /\ pc[r] = "idle"
  BY DEF Skip, Return, caches
<1>3. Current'
  BY <1>2 DEF Inv, Current
<1>4. Inv'
  BY <1>2, <1>3, ReturnKeeps, RagAssumption DEF Inv
<1>5. answer[r] # NoAnswer
  BY <1>2 DEF Inv, Waiting
<1>6. Promise!Answer(r, q)
  BY <1>1, <1>2 DEF Promise!Answer, Return
<1> QED
  BY <1>4, <1>5, <1>6 DEF Promise!Next

LEMMA HitStep ==
    ASSUME Inv, NEW r \in Req, NEW q \in Question, Hit(r, q)
    PROVE  Inv' /\ Promise!Next
<1> DEFINE s == Cache(q)
           k == cacheKey(q)
<1>1. /\ items' = items /\ Return(r, q, items[s][k].results)
      /\ loaded' = loaded /\ pc[r] = "idle" /\ k \in Cached(s)
  BY DEF Hit, Return, Valid
<1>2. s \in Store /\ k \in Key
  BY StoreOfStore DEF Cache, cacheKey, Inv
<1>3. items[s][k].results = Found(loaded, q)
  <2>1. items[s][k].results = Search[<<Entries(loaded, s), k>>]
    <3> HIDE DEF s, k
    <3>1. IsCurrent(loaded, s, items[s]) /\ k \in DOMAIN items[s]
      BY <1>1, <1>2 DEF Inv, Current, Cached
    <3>2. PICK age \in 0 .. TTL + 1 :
              items[s][k] = [results |-> Search[<<Entries(loaded, s), k>>], age |-> age]
      BY <3>1 DEF IsCurrent
    <3> QED
      BY <3>2
  <2> QED
    BY <2>1 DEF Found, Cache, cacheKey
<1>4. Found(loaded, q) # NoAnswer
  BY FoundIsAnswer DEF Inv
<1>5. Current'
  BY <1>1 DEF Inv, Current
<1>6. Inv'
  BY <1>1, <1>3, <1>4, <1>5, ReturnKeeps DEF Inv
<1>7. answer[r] # NoAnswer
  BY <1>1 DEF Inv, Waiting
<1>8. Promise!Answer(r, q)
  BY <1>1, <1>3 DEF Promise!Answer, Return
<1> QED
  BY <1>6, <1>7, <1>8 DEF Promise!Next

LEMMA MissStep ==
    ASSUME Inv, NEW r \in Req, NEW q \in Question, Miss(r, q)
    PROVE  Inv' /\ Promise!Next
<1> DEFINE s == Cache(q)
           map == [j \in Cached(s) \ {cacheKey(q)} |-> items[s][j]]
<1>1. /\ items' = [items EXCEPT ![s] = map] /\ loaded' = loaded /\ pc[r] = "idle"
      /\ pc' = [pc EXCEPT ![r] = "search"]
      /\ question' = [question EXCEPT ![r] = q]
      /\ answer' = [answer EXCEPT ![r] = NoAnswer]
  BY DEF Miss, Restrict, Inv
<1>2. s \in Store
  BY StoreOfStore DEF Cache, Inv
<1>3. items' = [t \in Store |-> items'[t]] /\ Current'
  <2> HIDE DEF s
  <2>1. IsCurrent(loaded, s, items[s])
    BY <1>2 DEF Inv, Current
  <2>2. IsCurrent(loaded, s, map)
    BY <2>1 DEF IsCurrent, Cached
  <2> HIDE DEF map
  <2> QED
    BY <1>1, <1>2, <2>2, CurrentStep
<1>4. Waiting' /\ pc' \in [Req -> {"idle", "search"}] /\ question' \in [Req -> Question]
  BY <1>1 DEF Inv, Waiting
<1>5. Inv'
  BY <1>1, <1>3, <1>4 DEF Inv
<1>6. answer[r] # NoAnswer
  BY <1>1 DEF Inv, Waiting
<1>7. Promise!Ask(r, q)
  BY <1>1 DEF Promise!Ask
<1> QED
  BY <1>5, <1>6, <1>7 DEF Promise!Next

LEMMA FillStep ==
    ASSUME Inv, NEW r \in Req, Fill(r)
    PROVE  Inv' /\ Promise!Next
<1> DEFINE q == question[r]
           s == Cache(q)
           k == cacheKey(q)
           results == Found(loaded, q)
           map == [j \in Kept(s, k) |->
                      IF j = k THEN [results |-> results, age |-> 0] ELSE items[s][j]]
<1>1. /\ items' = [items EXCEPT ![s] = map] /\ loaded' = loaded /\ pc[r] = "search"
      /\ Return(r, q, results)
  BY DEF Fill, Return, Inv
<1>2. q \in Question /\ s \in Store /\ k \in Key
  BY StoreOfStore DEF Cache, cacheKey, Inv
<1>3. results = Search[<<Entries(loaded, s), k>>]
  BY DEF Found, Cache, cacheKey
<1>4. items' = [t \in Store |-> items'[t]] /\ Current'
  <2>1. Kept(s, k) \subseteq Cached(s) \cup {k}
    BY DEF Kept
  <2> HIDE DEF s, k, results
  <2>2. IsCurrent(loaded, s, items[s])
    BY <1>2 DEF Inv, Current
  <2>3. DOMAIN map = Kept(s, k) /\ map = [j \in DOMAIN map |-> map[j]]
    OBVIOUS
  <2>4. ASSUME NEW j \in Kept(s, k)
        PROVE  \E age \in 0 .. TTL + 1 :
                   map[j] = [results |-> Search[<<Entries(loaded, s), j>>], age |-> age]
    <3>1. CASE j = k
      BY <3>1, <1>3, RagAssumption
    <3>2. CASE j # k
      <4>1. j \in Cached(s) /\ map[j] = items[s][j]
        BY <3>2, <2>1
      <4> QED
        BY <4>1, <2>2 DEF IsCurrent, Cached
    <3> QED
      BY <3>1, <3>2
  <2>5. IsCurrent(loaded, s, map)
    <3> HIDE DEF map
    <3> QED
      BY <1>2, <2>1, <2>2, <2>3, <2>4 DEF IsCurrent, Cached
  <2> HIDE DEF map
  <2> QED
    BY <1>1, <1>2, <2>5, CurrentStep
<1>5. results # NoAnswer
  BY <1>2, FoundIsAnswer DEF Inv
<1>6. Inv'
  BY <1>1, <1>2, <1>4, <1>5, ReturnKeeps DEF Inv
<1>7. answer[r] = NoAnswer
  BY <1>1 DEF Inv, Waiting
<1>8. Promise!Answer(r, question[r])
  BY <1>1 DEF Promise!Answer, Return
<1> QED
  BY <1>6, <1>7, <1>8 DEF Promise!Next

LEMMA CacheTickStep ==
    ASSUME Inv, CacheTick
    PROVE  Inv' /\ UNCHANGED Promise!lookup
<1>1. /\ items' = [s \in Store |-> [k \in Cached(s) |-> Older(items[s][k])]]
      /\ loaded' = loaded /\ pc' = pc /\ question' = question /\ answer' = answer
  BY DEF CacheTick
<1>2. \A s \in Store : items'[s] = [k \in Cached(s) |-> Older(items[s][k])]
  BY <1>1
<1>3. Current'
  <2> SUFFICES ASSUME NEW s \in Store PROVE IsCurrent(loaded, s, items'[s])
    BY <1>1 DEF Current
  <2>1. DOMAIN items'[s] = Cached(s) /\ \A k \in Cached(s) : items'[s][k] = Older(items[s][k])
    BY <1>2
  <2>2. IsCurrent(loaded, s, items[s])
    BY DEF Inv, Current
  <2>3. ASSUME NEW k \in Cached(s)
        PROVE  \E age \in 0 .. TTL + 1 :
                   items'[s][k] = [results |-> Search[<<Entries(loaded, s), k>>], age |-> age]
    <3> DEFINE results == Search[<<Entries(loaded, s), k>>]
    <3>1. PICK age \in 0 .. TTL + 1 : items[s][k] = [results |-> results, age |-> age]
      BY <2>2 DEF IsCurrent, Cached
    <3>2. PICK a \in 0 .. TTL + 1 :
              Older([results |-> results, age |-> age]) = [results |-> results, age |-> a]
      BY OlderKeeps
    <3>3. items'[s][k] = [results |-> results, age |-> a]
      BY <2>1, <3>1, <3>2
    <3> QED
      BY <3>3
  <2>4. items'[s] = [k \in DOMAIN items'[s] |-> items'[s][k]]
    BY <1>2, <2>1
  <2> QED
    BY <2>1, <2>2, <2>3, <2>4 DEF IsCurrent, Cached
<1>4. Inv'
  BY <1>1, <1>3 DEF Inv, Waiting
<1> QED
  BY <1>1, <1>4 DEF Promise!lookup

LEMMA Step == Inv /\ [Next]_vars => Inv' /\ [Promise!Next]_Promise!lookup
<1> SUFFICES ASSUME Inv, [Next]_vars PROVE Inv' /\ [Promise!Next]_Promise!lookup
  OBVIOUS
<1>1. CASE \E r \in Req : Fill(r)
  BY <1>1, FillStep
<1>2. CASE \E r \in Req, q \in Question : Skip(r, q)
  BY <1>2, SkipStep
<1>3. CASE \E r \in Req, q \in Question : Hit(r, q)
  BY <1>3, HitStep
<1>4. CASE \E r \in Req, q \in Question : Miss(r, q)
  BY <1>4, MissStep
<1>5. CASE CacheTick
  BY <1>5, CacheTickStep
<1>6. CASE UNCHANGED vars
  BY <1>6 DEF vars, caches, Inv, Current, Waiting, Promise!lookup
<1> QED
  BY <1>1, <1>2, <1>3, <1>4, <1>5, <1>6 DEF Next

\* What is in a cache is what a search of its store gives now: of the entries
\* that were read at the start, whatever was evicted and stored twice since.
THEOREM CacheCurrent == Spec => []Current
<1>1. Inv => Current
  BY DEF Inv
<1> QED
  BY <1>1, InvInit, Step, PTL DEF Spec

\* RAGService implements KnowledgeLookup: nobody can tell that answers are
\* cached, nor that two queries missed the same key together.
THEOREM TransparentHolds == Spec => Transparent
<1>1. Init => Promise!Init
  <2>1. ASSUME Init PROVE question \in [Req -> Question]
    BY <2>1, InvInit DEF Inv
  <2> QED
    BY <2>1 DEF Init, Promise!Init
<1>2. Spec => Promise!Spec
  BY <1>1, InvInit, Step, PTL DEF Spec, Promise!Spec
<1> QED
  BY <1>2 DEF Transparent

-----------------------------------------------------------------------------
(* The lists of the caches.                                                *)

\* A list and a map hold the same keys, each once, and no more than the
\* capacity, and what stands further in front was used later.
IsCache(list, keys, pairs) ==
    /\ list \in Seq(Key)
    /\ keys = ToSet(list)
    /\ Len(list) <= Capacity
    /\ \A i, j \in 1 .. Len(list) : i < j =>
           list[i] # list[j] /\ <<list[i], list[j]>> \in pairs

\* What a key leaves behind when it is taken out of a list that has it once.
LEMMA RemoveFirstIs ==
    ASSUME NEW list \in Seq(Key), NEW p \in 1 .. Len(list), \A i \in 1 .. Len(list) : list[i] = list[p] => i = p
    PROVE  /\ RemoveFirst(list, list[p]) \in Seq(Key)
           /\ Len(RemoveFirst(list, list[p])) = Len(list) - 1
           /\ \A i \in 1 .. Len(list) - 1 :
                  RemoveFirst(list, list[p])[i] = list[IF i < p THEN i ELSE i + 1]
<1> DEFINE n == Len(list)
           k == list[p]
           front == SubSeq(list, 1, p - 1)
           back == SubSeq(list, p + 1, n)
<1>1. n \in Nat /\ p \in Nat /\ p >= 1 /\ p <= n
  BY LenProperties
<1>2. {i \in 1 .. n : list[i] = k} = {p}
  OBVIOUS
<1>3. SelectInSeq(list, LAMBDA v : v = k) = p
  <2>1. Min({p}) = p
    BY <1>1 DEF Min
  <2> QED
    BY <1>2, <2>1 DEF SelectInSeq
<1>4. RemoveFirst(list, k) = front \o back
  <2>1. \E i \in 1 .. Len(list) : list[i] = k
    OBVIOUS
  <2> HIDE DEF k
  <2> QED
    BY <1>3, <2>1 DEF RemoveFirst, RemoveAt
<1> HIDE DEF k
<1>5. \A i \in 1 .. n : list[i] \in Key
  BY ElementOfSeq
<1>6. front \in Seq(Key) /\ Len(front) = p - 1 /\ \A i \in 1 .. p - 1 : front[i] = list[i]
  <2>1. \A i \in 1 .. p - 1 : i \in 1 .. n
    BY <1>1
  <2> QED
    BY <1>1, <1>5, <2>1, SubSeqProperties
<1>7. /\ back \in Seq(Key) /\ Len(back) = n - p
      /\ \A i \in 1 .. n - p : back[i] = list[p + i]
  <2> DEFINE first == p + 1
  <2>1. \A i \in first .. n : list[i] \in Key
    BY <1>1, <1>5
  <2>2. first \in Nat \ {0} /\ first <= n + 1 /\ n - first + 1 = n - p
    BY <1>1
  <2> HIDE DEF first
  <2>3. /\ SubSeq(list, first, n) \in Seq(Key)
        /\ Len(SubSeq(list, first, n)) = IF first <= n THEN n - first + 1 ELSE 0
        /\ \A i \in 1 .. n - first + 1 : SubSeq(list, first, n)[i] = list[first + i - 1]
    BY <1>1, <2>1, <2>2, SubSeqProperties
  <2>4. Len(SubSeq(list, first, n)) = n - p
    BY <1>1, <2>2, <2>3
  <2>5. ASSUME NEW i \in 1 .. n - p PROVE SubSeq(list, first, n)[i] = list[p + i]
    <3>1. first + i - 1 = p + i
      BY <1>1 DEF first
    <3> QED
      BY <2>2, <2>3, <3>1
  <2> QED
    BY <2>3, <2>4, <2>5 DEF first
<1> HIDE DEF front, back
<1>8. /\ front \o back \in Seq(Key) /\ Len(front \o back) = n - 1
      /\ \A i \in 1 .. n - 1 : (front \o back)[i] = IF i <= p - 1 THEN front[i] ELSE back[i - (p - 1)]
  <2>1. /\ front \o back \in Seq(Key) /\ Len(front \o back) = Len(front) + Len(back)
        /\ \A i \in 1 .. Len(front) + Len(back) :
               (front \o back)[i] = IF i <= Len(front) THEN front[i] ELSE back[i - Len(front)]
    BY <1>6, <1>7, ConcatProperties
  <2>2. Len(front) + Len(back) = n - 1
    BY <1>1, <1>6, <1>7
  <2> QED
    BY <1>6, <2>1, <2>2
<1>9. ASSUME NEW i \in 1 .. n - 1
      PROVE  (front \o back)[i] = list[IF i < p THEN i ELSE i + 1]
  <2>1. CASE i < p
    <3>1. i \in 1 .. p - 1 /\ i <= p - 1
      BY <1>1, <2>1
    <3> QED
      BY <1>6, <1>8, <2>1, <3>1
  <2>2. CASE ~(i < p)
    <3>1. i - (p - 1) \in 1 .. n - p /\ p + (i - (p - 1)) = i + 1 /\ ~(i <= p - 1)
      BY <1>1, <2>2
    <3> QED
      BY <1>7, <1>8, <2>2, <3>1
  <2> QED
    BY <2>1, <2>2
<1> QED
  BY <1>4, <1>8, <1>9 DEF k, n

\* Elements of a list that stay in their order.
LEMMA Thinned ==
    ASSUME NEW list, NEW keys, NEW pairs, IsCache(list, keys, pairs),
           NEW rest \in Seq(Key), NEW at \in [1 .. Len(rest) -> 1 .. Len(list)],
           Len(rest) <= Len(list),
           \A i \in 1 .. Len(rest) : rest[i] = list[at[i]],
           \A i, j \in 1 .. Len(rest) : i < j => at[i] < at[j]
    PROVE  IsCache(rest, ToSet(rest), Among(pairs, ToSet(rest)))
<1>1. Len(rest) \in Nat /\ Len(list) \in Nat /\ Capacity \in Nat /\ Len(list) <= Capacity
  BY LenProperties, RagAssumption DEF IsCache
<1>2. \A i \in 1 .. Len(rest) : rest[i] \in ToSet(rest)
  BY DEF ToSet
<1>3. ASSUME NEW i \in 1 .. Len(rest), NEW j \in 1 .. Len(rest), i < j
      PROVE  rest[i] # rest[j] /\ <<rest[i], rest[j]>> \in Among(pairs, ToSet(rest))
  <2>1. at[i] \in 1 .. Len(list) /\ at[j] \in 1 .. Len(list) /\ at[i] < at[j]
    BY <1>3
  <2>2. list[at[i]] # list[at[j]] /\ <<list[at[i]], list[at[j]]>> \in pairs
    BY <2>1 DEF IsCache
  <2> QED
    BY <1>2, <2>2 DEF Among
<1> QED
  BY <1>1, <1>3 DEF IsCache

\* A key that is taken out.
LEMMA Dropped ==
    ASSUME NEW list, NEW keys, NEW pairs, IsCache(list, keys, pairs), NEW k
    PROVE  /\ IsCache(RemoveFirst(list, k), keys \ {k}, Among(pairs, keys \ {k}))
           /\ k \in keys => Len(RemoveFirst(list, k)) < Capacity
<1> DEFINE n == Len(list)
           rest == RemoveFirst(list, k)
<1>1. list \in Seq(Key) /\ n \in Nat /\ keys = {list[i] : i \in 1 .. n} /\ n <= Capacity /\ Capacity \in Nat
  BY LenProperties, RagAssumption DEF IsCache, ToSet
<1>2. CASE k \notin keys
  <2>1. rest = list /\ keys \ {k} = keys
    BY <1>1, <1>2 DEF RemoveFirst
  <2>2. \A i \in 1 .. n : list[i] \in keys
    BY <1>1
  <2>3. \A i, j \in 1 .. n : i < j => <<list[i], list[j]>> \in Among(pairs, keys)
    BY <2>2 DEF IsCache, Among
  <2> HIDE DEF rest
  <2> QED
    BY <1>2, <2>1, <2>3 DEF IsCache, rest
<1>3. CASE k \in keys
  <2>1. PICK p \in 1 .. n : list[p] = k
    BY <1>1, <1>3
  <2>2. \A i \in 1 .. n : list[i] = list[p] => i = p
    <3> TAKE i \in 1 .. n
    <3>1. i < p \/ p < i \/ i = p
      BY <1>1
    <3> QED
      BY <3>1 DEF IsCache
  <2>3. /\ rest \in Seq(Key) /\ Len(rest) = n - 1
        /\ \A i \in 1 .. n - 1 : rest[i] = list[IF i < p THEN i ELSE i + 1]
    BY <1>1, <2>1, <2>2, RemoveFirstIs
  <2> HIDE DEF rest
  <2> DEFINE at == [i \in 1 .. n - 1 |-> IF i < p THEN i ELSE i + 1]
  <2>4. at \in [1 .. n - 1 -> 1 .. n] /\ \A i, j \in 1 .. n - 1 : i < j => at[i] < at[j]
    BY <1>1
  <2>5. \A i \in 1 .. n - 1 : rest[i] = list[at[i]] /\ at[i] # p
    BY <1>1, <2>3
  <2>6. \A i \in 1 .. n : i # p => \E j \in 1 .. n - 1 : at[j] = i
    <3> TAKE i \in 1 .. n
    <3>1. CASE i < p
      <4>1. i \in 1 .. n - 1 /\ at[i] = i
        BY <1>1, <3>1
      <4> QED
        BY <4>1
    <3>2. CASE i > p
      <4>1. i - 1 \in 1 .. n - 1 /\ at[i - 1] = i
        BY <1>1, <3>2
      <4> QED
        BY <4>1
    <3> QED
      BY <1>1, <3>1, <3>2
  <2> HIDE DEF at
  <2>7. ToSet(rest) = keys \ {k}
    <3>1. ToSet(rest) = {rest[i] : i \in 1 .. n - 1}
      BY <2>3 DEF ToSet
    <3>2. \A i \in 1 .. n - 1 : rest[i] \in keys \ {k}
      BY <1>1, <2>1, <2>2, <2>4, <2>5
    <3>3. \A x \in keys \ {k} : \E i \in 1 .. n - 1 : rest[i] = x
      <4> TAKE x \in keys \ {k}
      <4>1. PICK j \in 1 .. n : list[j] = x
        BY <1>1
      <4>2. j # p
        BY <2>1, <4>1
      <4>3. PICK i \in 1 .. n - 1 : at[i] = j
        BY <2>6, <4>2
      <4> QED
        BY <2>5, <4>1, <4>3
    <3> QED
      BY <3>1, <3>2, <3>3
  <2>8. IsCache(rest, ToSet(rest), Among(pairs, ToSet(rest)))
    <3>1. at \in [1 .. Len(rest) -> 1 .. Len(list)] /\ Len(rest) <= Len(list)
      BY <1>1, <2>3, <2>4
    <3>2. /\ \A i \in 1 .. Len(rest) : rest[i] = list[at[i]]
          /\ \A i, j \in 1 .. Len(rest) : i < j => at[i] < at[j]
      BY <2>3, <2>4, <2>5
    <3> HIDE DEF n
    <3> QED
      BY <2>3, <3>1, <3>2, Thinned
  <2> QED
    BY <1>1, <2>3, <2>7, <2>8 DEF rest
<1> QED
  BY <1>2, <1>3

\* The first elements of a list, as many as there are up to a limit.
LEMMA Shortened ==
    ASSUME NEW list, NEW keys, NEW pairs, IsCache(list, keys, pairs)
    PROVE  LET rest == SubSeq(list, 1, Min({Capacity - 1, Len(list)}))
           IN  /\ IsCache(rest, ToSet(rest), Among(pairs, ToSet(rest)))
               /\ Len(rest) < Capacity
               /\ ToSet(rest) = IF Len(list) >= Capacity THEN keys \ {Last(list)} ELSE keys
<1> DEFINE n == Len(list)
           m == Min({Capacity - 1, n})
           rest == SubSeq(list, 1, m)
<1>1. list \in Seq(Key) /\ n \in Nat /\ keys = {list[i] : i \in 1 .. n} /\ n <= Capacity /\ Capacity \in Nat \ {0}
  BY LenProperties, RagAssumption DEF IsCache, ToSet
<1>2. m = IF n >= Capacity THEN n - 1 ELSE n
  <2>1. m = IF Capacity - 1 <= n THEN Capacity - 1 ELSE n
    BY <1>1, LesserOf
  <2> HIDE DEF m, n
  <2> QED
    BY <1>1, <2>1
<1> HIDE DEF m
<1>3. m \in Nat /\ m <= n /\ m < Capacity
  BY <1>1, <1>2
<1>4. rest \in Seq(Key) /\ Len(rest) = m /\ \A i \in 1 .. m : rest[i] = list[i]
  <2>1. \A i \in 1 .. m : list[i] \in Key
    <3> TAKE i \in 1 .. m
    <3>1. i \in 1 .. n
      BY <1>1, <1>3
    <3> QED
      BY <1>1, <3>1, ElementOfSeq
  <2> QED
    BY <1>3, <2>1, SubSeqProperties
<1> HIDE DEF rest
<1>5. IsCache(rest, ToSet(rest), Among(pairs, ToSet(rest)))
  <2> DEFINE at == [i \in 1 .. m |-> i]
  <2>1. at \in [1 .. Len(rest) -> 1 .. Len(list)]
    BY <1>1, <1>3, <1>4
  <2>2. /\ \A i \in 1 .. Len(rest) : rest[i] = list[at[i]]
        /\ \A i, j \in 1 .. Len(rest) : i < j => at[i] < at[j]
    BY <1>3, <1>4
  <2> HIDE DEF at
  <2> QED
    BY <1>3, <1>4, <2>1, <2>2, Thinned
<1>6. ToSet(rest) = {list[i] : i \in 1 .. m}
  BY <1>4 DEF ToSet
<1>7. CASE n >= Capacity
  <2>1. m = n - 1 /\ Last(list) = list[n] /\ n \in 1 .. n
    BY <1>1, <1>2, <1>7 DEF Last
  <2>2. \A i \in 1 .. m : i \in 1 .. n /\ list[i] # list[n]
    <3> TAKE i \in 1 .. m
    <3>1. i \in 1 .. n /\ i < n
      BY <1>1, <2>1
    <3> QED
      BY <2>1, <3>1 DEF IsCache
  <2>3. \A i \in 1 .. n : i \in 1 .. m \/ i = n
    BY <1>1, <2>1
  <2>4. {list[i] : i \in 1 .. m} = keys \ {list[n]}
    BY <1>1, <2>2, <2>3
  <2> QED
    BY <1>3, <1>4, <1>5, <1>6, <1>7, <2>1, <2>4 DEF rest, m
<1>8. CASE ~(n >= Capacity)
  BY <1>1, <1>2, <1>3, <1>4, <1>5, <1>6, <1>8 DEF rest, m
<1> QED
  BY <1>7, <1>8

\* A key that is put in front.
LEMMA Pushed ==
    ASSUME NEW list, NEW keys, NEW pairs, IsCache(list, keys, Among(pairs, keys)),
           Len(list) < Capacity, NEW k \in Key, k \notin keys
    PROVE  IsCache(<<k>> \o list, keys \cup {k}, Use(pairs, keys \cup {k}, k))
<1> DEFINE n == Len(list)
           new == <<k>> \o list
           all == keys \cup {k}
<1>1. list \in Seq(Key) /\ n \in Nat /\ keys = {list[i] : i \in 1 .. n} /\ n < Capacity /\ Capacity \in Nat
  BY LenProperties, RagAssumption DEF IsCache, ToSet
<1>2. new \in Seq(Key) /\ Len(new) = n + 1
      /\ \A i \in 1 .. n + 1 : new[i] = IF i = 1 THEN k ELSE list[i - 1]
  <2>1. <<k>> \in Seq(Key) /\ Len(<<k>>) = 1 /\ <<k>>[1] = k
    OBVIOUS
  <2>2. /\ new \in Seq(Key) /\ Len(new) = 1 + n
        /\ \A i \in 1 .. 1 + n : new[i] = IF i <= 1 THEN <<k>>[i] ELSE list[i - 1]
    BY <1>1, <2>1, ConcatProperties
  <2> QED
    BY <1>1, <2>1, <2>2
<1> HIDE DEF new
<1>3. ToSet(new) = all
  <2>1. ToSet(new) = {new[i] : i \in 1 .. n + 1}
    <3>1. DOMAIN new = 1 .. n + 1
      BY <1>2
    <3> QED
      BY <3>1 DEF ToSet
  <2>2. \A i \in 1 .. n + 1 : new[i] \in all
    <3> TAKE i \in 1 .. n + 1
    <3>1. i = 1 \/ i - 1 \in 1 .. n
      BY <1>1
    <3> QED
      BY <1>1, <1>2, <3>1
  <2>3. \A x \in all : \E i \in 1 .. n + 1 : new[i] = x
    <3>1. 1 \in 1 .. n + 1 /\ new[1] = k
      BY <1>1, <1>2
    <3>2. \A i \in 1 .. n : i + 1 \in 1 .. n + 1 /\ new[i + 1] = list[i]
      BY <1>1, <1>2
    <3> QED
      BY <1>1, <3>1, <3>2
  <2> QED
    BY <2>1, <2>2, <2>3
<1>4. all \ {k} = keys
  OBVIOUS
<1>5. ASSUME NEW i \in 1 .. n + 1, NEW j \in 1 .. n + 1, i < j
      PROVE  new[i] # new[j] /\ <<new[i], new[j]>> \in Use(pairs, all, k)
  <2>1. j - 1 \in 1 .. n /\ new[j] = list[j - 1] /\ list[j - 1] \in keys
    BY <1>1, <1>2, <1>5
  <2>2. CASE i = 1
    <3>1. new[i] = k
      BY <1>2, <2>2
    <3> QED
      BY <1>4, <2>1, <3>1 DEF Use
  <2>3. CASE i # 1
    <3>1. i - 1 \in 1 .. n /\ new[i] = list[i - 1] /\ i - 1 < j - 1
      BY <1>1, <1>2, <1>5, <2>3
    <3>2. list[i - 1] # list[j - 1] /\ <<list[i - 1], list[j - 1]>> \in Among(pairs, keys)
      BY <2>1, <3>1 DEF IsCache
    <3> QED
      BY <1>4, <2>1, <3>1, <3>2 DEF Use
  <2> QED
    BY <2>2, <2>3
<1>6. Len(new) <= Capacity
  BY <1>1, <1>2
<1> QED
  BY <1>2, <1>3, <1>5, <1>6 DEF IsCache, new

\* A key that moves to the front.
LEMMA Fronted ==
    ASSUME NEW list, NEW keys, NEW pairs, IsCache(list, keys, pairs), NEW k \in Key, k \in keys
    PROVE  IsCache(ToFront(list, k), keys, Use(pairs, keys, k))
<1> DEFINE rest == RemoveFirst(list, k)
           left == keys \ {k}
<1>1. IsCache(rest, left, Among(pairs, left)) /\ Len(rest) < Capacity /\ k \notin left
  BY Dropped
<1>2. left \cup {k} = keys
  OBVIOUS
<1> HIDE DEF rest, left
<1>3. IsCache(<<k>> \o rest, left \cup {k}, Use(pairs, left \cup {k}, k))
  BY <1>1, Pushed
<1> QED
  BY <1>2, <1>3 DEF ToFront, rest

CachesInv ==
    /\ order = [s \in Store |-> order[s]]
    /\ usedAfter = [s \in Store |-> usedAfter[s]]
    /\ \A s \in Store : IsCache(order[s], Cached(s), usedAfter[s])

\* A step that changes one cache.
LEMMA CacheStep ==
    ASSUME Inv, CachesInv, NEW s \in Store, NEW list, NEW keys, NEW pairs, NEW map,
           order' = [order EXCEPT ![s] = list], usedAfter' = [usedAfter EXCEPT ![s] = pairs],
           items' = [items EXCEPT ![s] = map], DOMAIN map = keys,
           IsCache(list, keys, pairs)
    PROVE  CachesInv' /\ \A t \in Store : Cached(t)' = IF t = s THEN keys ELSE Cached(t)
<1>1. /\ items = [t \in Store |-> items[t]]
      /\ order = [t \in Store |-> order[t]] /\ usedAfter = [t \in Store |-> usedAfter[t]]
  BY DEF Inv, CachesInv
<1>2. /\ order' = [t \in Store |-> order'[t]] /\ usedAfter' = [t \in Store |-> usedAfter'[t]]
      /\ \A t \in Store : /\ order'[t] = IF t = s THEN list ELSE order[t]
                          /\ usedAfter'[t] = IF t = s THEN pairs ELSE usedAfter[t]
                          /\ items'[t] = IF t = s THEN map ELSE items[t]
  BY <1>1
<1>3. \A t \in Store : Cached(t)' = IF t = s THEN keys ELSE Cached(t)
  BY <1>2 DEF Cached
<1>4. \A t \in Store : IsCache(order'[t], Cached(t)', usedAfter'[t])
  <2> TAKE t \in Store
  <2>1. CASE t = s
    BY <1>2, <1>3, <2>1
  <2>2. CASE t # s
    BY <1>2, <1>3, <2>2 DEF CachesInv
  <2> QED
    BY <2>1, <2>2
<1> QED
  BY <1>2, <1>3, <1>4 DEF CachesInv

\* What every step keeps of the caches, and that it evicts what was used
\* longest ago.
Oldest ==
    \A s \in Store : \A k \in Cached(s) \ Cached(s)' :
        items[s][k].age <= TTL => \A j \in Cached(s) \ {k} : <<j, k>> \in usedAfter[s]

LEMMA HitCaches ==
    ASSUME Inv, CachesInv, NEW r \in Req, NEW q \in Question, Hit(r, q)
    PROVE  CachesInv' /\ Oldest
<1> DEFINE s == Cache(q)
           k == cacheKey(q)
<1>1. s \in Store /\ k \in Key
  BY StoreOfStore DEF Cache, cacheKey, Inv
<1>2. /\ order' = [order EXCEPT ![s] = ToFront(order[s], k)]
      /\ usedAfter' = [usedAfter EXCEPT ![s] = Use(usedAfter[s], Cached(s), k)]
      /\ items' = items /\ k \in Cached(s)
  BY DEF Hit, Touched, Valid
<1> HIDE DEF s, k
<1>3. items' = [items EXCEPT ![s] = items[s]] /\ DOMAIN items[s] = Cached(s)
  BY <1>2 DEF Inv, Cached
<1>4. IsCache(ToFront(order[s], k), Cached(s), Use(usedAfter[s], Cached(s), k))
  BY <1>1, <1>2, Fronted DEF CachesInv
<1>5. CachesInv'
  BY <1>1, <1>2, <1>3, <1>4, CacheStep
<1>6. Oldest
  BY <1>2 DEF Oldest, Cached
<1> QED
  BY <1>5, <1>6

LEMMA MissCaches ==
    ASSUME Inv, CachesInv, NEW r \in Req, NEW q \in Question, Miss(r, q)
    PROVE  CachesInv' /\ Oldest
<1> DEFINE s == Cache(q)
           k == cacheKey(q)
           left == Cached(s) \ {k}
           map == [j \in left |-> items[s][j]]
<1>1. s \in Store /\ k \in Key
  BY StoreOfStore DEF Cache, cacheKey, Inv
<1>2. /\ order' = [order EXCEPT ![s] = RemoveFirst(order[s], k)]
      /\ usedAfter' = [usedAfter EXCEPT ![s] = Among(usedAfter[s], left)]
      /\ items' = [items EXCEPT ![s] = map]
      /\ ~Valid(s, k)
  BY DEF Miss, Restrict
<1>3. DOMAIN map = left
  OBVIOUS
<1> HIDE DEF s, k, map
<1>4. IsCache(RemoveFirst(order[s], k), left, Among(usedAfter[s], left))
  BY <1>1, Dropped DEF CachesInv
<1>5. CachesInv' /\ \A t \in Store : Cached(t)' = IF t = s THEN left ELSE Cached(t)
  <2> HIDE DEF left
  <2> QED
    BY <1>1, <1>2, <1>3, <1>4, CacheStep
<1>6. ASSUME NEW t \in Store, NEW j \in Cached(t) \ Cached(t)', items[t][j].age <= TTL
      PROVE  FALSE
  <2>1. t = s /\ j = k /\ k \in Cached(s)
    BY <1>5, <1>6
  <2> QED
    BY <1>2, <1>6, <2>1 DEF Valid
<1> QED
  BY <1>5, <1>6 DEF Oldest

LEMMA FillCaches ==
    ASSUME Inv, CachesInv, NEW r \in Req, Fill(r)
    PROVE  CachesInv' /\ Oldest
<1> DEFINE q == question[r]
           s == Cache(q)
           k == cacheKey(q)
           keys == Cached(s)
           list == order[s]
           pairs == usedAfter[s]
           map == [j \in Kept(s, k) |->
                      IF j = k THEN [results |-> Found(loaded, q), age |-> 0] ELSE items[s][j]]
<1>1. q \in Question /\ s \in Store /\ k \in Key
  BY StoreOfStore DEF Cache, cacheKey, Inv
<1>2. /\ order' = [order EXCEPT ![s] = Stored(s, k)]
      /\ usedAfter' = [usedAfter EXCEPT ![s] = Use(pairs, Kept(s, k), k)]
      /\ items' = [items EXCEPT ![s] = map]
  BY DEF Fill
<1>3. DOMAIN map = Kept(s, k)
  OBVIOUS
<1> HIDE DEF q, s, k, map
<1>4. IsCache(list, keys, pairs)
  BY <1>1 DEF CachesInv
<1>5. IsCache(Stored(s, k), Kept(s, k), Use(pairs, Kept(s, k), k))
  <2>1. CASE k \in keys
    <3>1. Stored(s, k) = ToFront(list, k)
      BY <2>1 DEF Stored
    <3>2. Kept(s, k) = keys
      BY <2>1 DEF Kept
    <3> HIDE DEF keys, list, pairs
    <3> QED
      BY <1>1, <1>4, <2>1, <3>1, <3>2, Fronted
  <2>2. CASE k \notin keys
    <3> DEFINE rest == SubSeq(list, 1, Min({Capacity - 1, Len(list)}))
               stay == ToSet(rest)
    <3>1. Stored(s, k) = <<k>> \o rest
      BY <2>2 DEF Stored
    <3>2. Kept(s, k) = (IF Len(list) >= Capacity THEN keys \ {Last(list)} ELSE keys) \cup {k}
      BY <2>2 DEF Kept
    <3> HIDE DEF keys, list, pairs
    <3>3. /\ IsCache(rest, stay, Among(pairs, stay)) /\ Len(rest) < Capacity
          /\ stay = IF Len(list) >= Capacity THEN keys \ {Last(list)} ELSE keys
      BY <1>4, Shortened, Zenon
    <3> HIDE DEF rest, stay
    <3>4. Kept(s, k) = stay \cup {k} /\ k \notin stay
      BY <2>2, <3>2, <3>3
    <3> QED
      BY <1>1, <3>1, <3>3, <3>4, Pushed
  <2> QED
    BY <2>1, <2>2
<1>6. CachesInv' /\ \A t \in Store : Cached(t)' = IF t = s THEN Kept(s, k) ELSE Cached(t)
  BY <1>1, <1>2, <1>3, <1>5, CacheStep
<1>7. ASSUME NEW t \in Store, NEW j \in Cached(t) \ Cached(t)', NEW i \in Cached(t) \ {j}
      PROVE  <<i, j>> \in usedAfter[t]
  <2>1. t = s /\ j \in keys \ Kept(s, k)
    BY <1>6
  <2>2. Len(list) >= Capacity /\ j = Last(list)
    BY <2>1 DEF Kept
  <2> HIDE DEF keys, list, pairs
  <2>3. list \in Seq(Key) /\ Len(list) \in Nat /\ keys = {list[n] : n \in 1 .. Len(list)}
    BY <1>4, LenProperties DEF IsCache, ToSet
  <2>4. Capacity \in Nat \ {0} /\ Len(list) \in 1 .. Len(list) /\ j = list[Len(list)]
    BY <2>2, <2>3, RagAssumption DEF Last
  <2>5. PICK n \in 1 .. Len(list) : i = list[n]
    BY <1>7, <2>1, <2>3 DEF keys
  <2>6. n < Len(list)
    BY <1>7, <2>3, <2>4, <2>5
  <2>7. <<list[n], list[Len(list)]>> \in pairs
    BY <1>4, <2>4, <2>6 DEF IsCache
  <2> QED
    BY <2>1, <2>4, <2>5, <2>7 DEF pairs
<1> QED
  BY <1>6, <1>7 DEF Oldest

LEMMA CachesStep ==
    ASSUME Inv, CachesInv, [Next]_vars
    PROVE  CachesInv' /\ Oldest
<1>1. ASSUME \A s \in Store : Cached(s)' = Cached(s), UNCHANGED <<order, usedAfter>>
      PROVE  CachesInv' /\ Oldest
  BY <1>1 DEF CachesInv, Oldest
<1>2. CASE \E r \in Req : Fill(r)
  BY <1>2, FillCaches
<1>3. CASE \E r \in Req, q \in Question : Skip(r, q)
  BY <1>1, <1>3 DEF Skip, caches, Cached
<1>4. CASE \E r \in Req, q \in Question : Hit(r, q)
  BY <1>4, HitCaches
<1>5. CASE \E r \in Req, q \in Question : Miss(r, q)
  BY <1>5, MissCaches
<1>6. CASE CacheTick
  BY <1>1, <1>6 DEF CacheTick, Cached
<1>7. CASE UNCHANGED vars
  BY <1>1, <1>7 DEF vars, caches, Cached
<1> QED
  BY <1>2, <1>3, <1>4, <1>5, <1>6, <1>7 DEF Next

LEMMA CachesInit == Init => CachesInv
<1> SUFFICES ASSUME Init PROVE CachesInv
  OBVIOUS
<1>1. ASSUME NEW s \in Store PROVE IsCache(order[s], Cached(s), usedAfter[s])
  <2>1. order[s] = <<>> /\ items[s] = <<>> /\ usedAfter[s] = {}
    BY DEF Init
  <2>2. <<>> \in Seq(Key) /\ Len(<<>>) = 0 /\ DOMAIN <<>> = {}
    OBVIOUS
  <2>3. Cached(s) = {} /\ ToSet(order[s]) = {}
    BY <2>1, <2>2 DEF Cached, ToSet
  <2> QED
    BY <2>1, <2>2, <2>3, RagAssumption DEF IsCache
<1> QED
  BY <1>1 DEF Init, CachesInv

LEMMA CachesInvariant == Spec => [](Inv /\ CachesInv)
<1>1. Inv /\ CachesInv /\ [Next]_vars => (Inv /\ CachesInv)'
  BY Step, CachesStep
<1> QED
  BY <1>1, InvInit, CachesInit, PTL DEF Spec

\* ragLRU: its list and its map hold the same keys, each once, and no more
\* than its capacity, also when several queries miss the same key together.
THEOREM CachesConsistent == Spec => []CacheConsistent
<1>1. CachesInv => CacheConsistent
  <2> SUFFICES ASSUME CachesInv, NEW s \in Store
               PROVE  /\ ToSet(order[s]) = Cached(s)
                      /\ IsInjective(order[s])
                      /\ Len(order[s]) <= Capacity
    BY DEF CacheConsistent
  <2>1. IsCache(order[s], Cached(s), usedAfter[s])
    BY DEF CachesInv
  <2>2. DOMAIN order[s] = 1 .. Len(order[s]) /\ Len(order[s]) \in Nat
    BY <2>1 DEF IsCache
  <2>3. IsInjective(order[s])
    <3>1. ASSUME NEW i \in 1 .. Len(order[s]), NEW j \in 1 .. Len(order[s]), i # j
          PROVE  order[s][i] # order[s][j]
      <4>1. i < j \/ j < i
        BY <2>2, <3>1
      <4> QED
        BY <2>1, <4>1 DEF IsCache
    <3> QED
      BY <2>2, <3>1 DEF IsInjective
  <2> QED
    BY <2>1, <2>3 DEF IsCache
<1> QED
  BY <1>1, CachesInvariant, PTL

\* ragLRU.set: an entry that has not expired is evicted only when every other
\* one was used after it, whatever hits and stores of other queries came between.
THEOREM OldestEvicted == Spec => EvictsOldest
<1>1. Inv /\ CachesInv /\ [Next]_vars => [Oldest]_vars
  BY CachesStep
<1>2. Spec => [][Oldest]_vars
  BY <1>1, CachesInvariant, PTL DEF Spec
<1> QED
  BY <1>2 DEF EvictsOldest, Oldest

-----------------------------------------------------------------------------
(* Sums and sorted lists of finite sets.  Induction is by a least           *)
(* counterexample: the library orders the finite subsets of a set.         *)

LEMMA LeastSubset ==
    ASSUME NEW S, IsFiniteSet(S), NEW B \in SUBSET SUBSET S, B # {}
    PROVE  \E low \in B : \A s \in B : s \subseteq low => s = low
<1>1. B \subseteq FiniteSubsetsOf(S)
  BY FS_FiniteSubsetsOfFinite
<1>2. PICK low \in B : \A s \in B : ~(<<s, low>> \in StrictSubsetOrdering(S))
  BY <1>1, WFMin, FS_StrictSubsetOrderingWellFounded
<1>3. ASSUME NEW s \in B, s \subseteq low, s # low PROVE FALSE
  <2>1. s \in SUBSET S /\ low \in SUBSET S
    OBVIOUS
  <2>2. <<s, low>> \in StrictSubsetOrdering(S)
    BY <1>3, <2>1 DEF StrictSubsetOrdering
  <2> QED
    BY <1>2, <2>2
<1> QED
  BY <1>2, <1>3

\* The element that SumFunction takes out first.
First(s) == CHOOSE x \in s : TRUE

\* The sums of a function over the subsets of a set.
IsSum(g, f, S) ==
    g = [s \in SUBSET S |-> IF s = {} THEN 0 ELSE f[First(s)] + g[s \ {First(s)}]]

SumOver(f, S) == (CHOOSE g : IsSum(g, f, S))[S]

LEMMA SumIs ==
    ASSUME NEW S, NEW f, DOMAIN f = S
    PROVE  SumFunction(f) = SumOver(f, S)
  BY DEF SumFunction, SumFunctionOnSet, FoldFunctionOnSet, MapThenFoldSet, SumOver, IsSum, First

LEMMA FirstIn == ASSUME NEW s, s # {} PROVE First(s) \in s
  BY DEF First

\* Sums do not depend on the set whose subsets are summed over.
LEMMA SumUnique ==
    ASSUME NEW S, IsFiniteSet(S), NEW f, NEW A \in SUBSET S, NEW B \in SUBSET S,
           NEW g, IsSum(g, f, A), NEW h, IsSum(h, f, B)
    PROVE  \A s \in SUBSET (A \cap B) : g[s] = h[s]
<1> DEFINE bad == {s \in SUBSET (A \cap B) : g[s] # h[s]}
<1>1. ASSUME bad # {} PROVE FALSE
  <2>1. bad \in SUBSET SUBSET S
    OBVIOUS
  <2>2. PICK low \in bad : \A s \in bad : s \subseteq low => s = low
    <3> HIDE DEF bad
    <3> QED
      BY <1>1, <2>1, LeastSubset
  <2>3. low \in SUBSET A /\ low \in SUBSET B /\ g[low] # h[low]
    OBVIOUS
  <2>4. /\ g[low] = IF low = {} THEN 0 ELSE f[First(low)] + g[low \ {First(low)}]
        /\ h[low] = IF low = {} THEN 0 ELSE f[First(low)] + h[low \ {First(low)}]
    BY <2>3 DEF IsSum
  <2>5. low # {}
    BY <2>3, <2>4
  <2> DEFINE less == low \ {First(low)}
  <2>6. less \subseteq low /\ less # low
    BY <2>5, FirstIn
  <2>7. less \notin bad
    BY <2>2, <2>6
  <2>8. less \in SUBSET (A \cap B)
    BY <2>3
  <2>9. g[less] = h[less]
    BY <2>7, <2>8
  <2> QED
    BY <2>3, <2>4, <2>5, <2>9
<1> QED
  BY <1>1

LEMMA SumExists ==
    ASSUME NEW S, IsFiniteSet(S), NEW f
    PROVE  \E g : IsSum(g, f, S)
<1> DEFINE bad == {T \in SUBSET S : ~\E g : IsSum(g, f, T)}
<1>1. ASSUME bad # {} PROVE FALSE
  <2>1. bad \in SUBSET SUBSET S
    OBVIOUS
  <2>2. PICK low \in bad : \A T \in bad : T \subseteq low => T = low
    <3> HIDE DEF bad
    <3> QED
      BY <1>1, <2>1, LeastSubset
  <2>3. low \in SUBSET S /\ ~\E g : IsSum(g, f, low)
    OBVIOUS
  <2>4. ASSUME NEW T \in SUBSET low, T # low
        PROVE  IsSum(CHOOSE g : IsSum(g, f, T), f, T)
    <3>1. T \in SUBSET S /\ T \notin bad
      BY <2>2, <2>3, <2>4
    <3>2. \E g : IsSum(g, f, T)
      BY <3>1
    <3> QED
      BY <3>2
  <2> HIDE DEF bad
  <2> DEFINE value(T) == IF T = {} THEN 0 ELSE f[First(T)] + SumOver(f, T \ {First(T)})
             g == [T \in SUBSET low |-> value(T)]
  <2>5. ASSUME NEW T \in SUBSET low, T # low
        PROVE  SumOver(f, T) = value(T)
    <3> DEFINE h == CHOOSE h : IsSum(h, f, T)
    <3>1. IsSum(h, f, T) /\ SumOver(f, T) = h[T]
      BY <2>4, <2>5 DEF SumOver
    <3> HIDE DEF h
    <3>2. h[T] = IF T = {} THEN 0 ELSE f[First(T)] + h[T \ {First(T)}]
      BY <3>1 DEF IsSum
    <3>3. ASSUME T # {} PROVE h[T \ {First(T)}] = SumOver(f, T \ {First(T)})
      <4> DEFINE less == T \ {First(T)}
                 h1 == CHOOSE h1 : IsSum(h1, f, less)
      <4>1. less \in SUBSET low /\ less # low
        BY <2>5
      <4>2. IsSum(h1, f, less) /\ SumOver(f, less) = h1[less]
        BY <2>4, <4>1 DEF SumOver
      <4>3. T \in SUBSET S /\ less \in SUBSET S /\ less \in SUBSET (T \cap less)
        BY <2>3
      <4> HIDE DEF h1, less
      <4>4. h[less] = h1[less]
        BY <3>1, <4>2, <4>3, SumUnique
      <4> QED
        BY <4>2, <4>4 DEF less
    <3> QED
      BY <3>1, <3>2, <3>3
  <2>6. ASSUME NEW T \in SUBSET low, T # {}
        PROVE  SumOver(f, T \ {First(T)}) = g[T \ {First(T)}]
    <3>1. T \ {First(T)} \in SUBSET low /\ T \ {First(T)} # low
      BY <2>6, FirstIn
    <3> HIDE DEF value
    <3> QED
      BY <2>5, <3>1
  <2>7. g = [T \in SUBSET low |-> IF T = {} THEN 0 ELSE f[First(T)] + g[T \ {First(T)}]]
    <3>1. \A T \in SUBSET low : value(T) = IF T = {} THEN 0 ELSE f[First(T)] + g[T \ {First(T)}]
      <4> HIDE DEF g
      <4> QED
        BY <2>6
    <3> HIDE DEF value
    <3>2. \A T \in SUBSET low : g[T] = IF T = {} THEN 0 ELSE f[First(T)] + g[T \ {First(T)}]
      BY <3>1
    <3>3. g = [T \in SUBSET low |-> g[T]]
      OBVIOUS
    <3> HIDE DEF g
    <3> QED
      BY <3>2, <3>3
  <2> HIDE DEF g
  <2>8. IsSum(g, f, low)
    BY <2>7 DEF IsSum
  <2> QED
    BY <2>3, <2>8
<1> QED
  BY <1>1

\* A sum of natural numbers is above zero when one of them is.
LEMMA SumPositive ==
    ASSUME NEW S, IsFiniteSet(S), NEW f \in [S -> Nat]
    PROVE  /\ SumFunction(f) \in Nat
           /\ SumFunction(f) > 0 <=> \E x \in S : f[x] > 0
<1> DEFINE g == CHOOSE g : IsSum(g, f, S)
<1>1. IsSum(g, f, S) /\ SumFunction(f) = g[S]
  BY SumExists, SumIs DEF SumOver
<1> HIDE DEF g
<1> DEFINE good(s) == g[s] \in Nat /\ (g[s] > 0 <=> \E x \in s : f[x] > 0)
           bad == {s \in SUBSET S : ~good(s)}
<1>2. ASSUME bad # {} PROVE FALSE
  <2>1. bad \in SUBSET SUBSET S
    OBVIOUS
  <2>2. PICK low \in bad : \A s \in bad : s \subseteq low => s = low
    <3> HIDE DEF bad
    <3> QED
      BY <1>2, <2>1, LeastSubset
  <2>3. low \in SUBSET S /\ ~good(low)
    OBVIOUS
  <2>4. g[low] = IF low = {} THEN 0 ELSE f[First(low)] + g[low \ {First(low)}]
    BY <1>1, <2>3 DEF IsSum
  <2>5. low # {}
    <3> SUFFICES ASSUME low = {} PROVE FALSE
      OBVIOUS
    <3>1. g[low] = 0
      BY <2>4
    <3>2. good(low)
      BY <3>1
    <3> QED
      BY <2>3, <3>2
  <2> DEFINE a == First(low)
             less == low \ {a}
  <2>6. a \in low /\ a \in S /\ f[a] \in Nat /\ less \subseteq low /\ less # low
    BY <2>3, <2>5, FirstIn
  <2>7. good(less)
    <3>1. less \notin bad
      BY <2>2, <2>6
    <3>2. less \in SUBSET S
      BY <2>3
    <3> QED
      BY <3>1, <3>2
  <2>8. g[low] = f[a] + g[less]
    BY <2>4, <2>5
  <2>9. \A x : x \in low <=> x = a \/ x \in less
    BY <2>6
  <2> HIDE DEF a, less, bad
  <2>10. g[less] \in Nat /\ (g[less] > 0 <=> \E x \in less : f[x] > 0)
    BY <2>7
  <2>11. g[low] \in Nat /\ (g[low] > 0 <=> f[a] > 0 \/ g[less] > 0)
    BY <2>6, <2>8, <2>10
  <2>12. g[low] > 0 <=> \E x \in low : f[x] > 0
    BY <2>6, <2>9, <2>10, <2>11
  <2> QED
    BY <2>3, <2>11, <2>12
<1>3. good(S)
  BY <1>2
<1> QED
  BY <1>1, <1>3

\* The element with the lowest value.
LEMMA LowestValue ==
    ASSUME NEW S, IsFiniteSet(S), S # {}, NEW h \in [S -> Nat]
    PROVE  \E x \in S : \A y \in S : h[x] <= h[y]
<1> DEFINE upTo(x) == {y \in S : h[y] <= h[x]}
           B == {upTo(x) : x \in S}
<1>1. B \in SUBSET SUBSET S /\ B # {}
  <2>1. \A x \in S : upTo(x) \in SUBSET S
    OBVIOUS
  <2>2. PICK x \in S : TRUE
    OBVIOUS
  <2> HIDE DEF upTo
  <2> QED
    BY <2>1, <2>2
<1>2. PICK low \in B : \A s \in B : s \subseteq low => s = low
  <2> HIDE DEF B
  <2> QED
    BY <1>1, LeastSubset
<1>3. PICK x \in S : low = upTo(x)
  OBVIOUS
<1>4. ASSUME NEW y \in S, h[y] < h[x] PROVE FALSE
  <2>1. h[x] \in Nat /\ h[y] \in Nat /\ \A z \in S : h[z] \in Nat
    OBVIOUS
  <2>2. upTo(y) \in B
    OBVIOUS
  <2>3. upTo(y) \subseteq low
    BY <1>3, <1>4, <2>1
  <2>4. x \in low /\ x \notin upTo(y)
    BY <1>3, <1>4, <2>1
  <2> QED
    BY <1>2, <2>2, <2>3, <2>4
<1> QED
  BY <1>4

Descends(list, h) == \A i, j \in DOMAIN list : i < j => h[list[i]] >= h[list[j]]

\* A finite set can be sorted, also when elements have the same value.
LEMMA SortedExists ==
    ASSUME NEW S, IsFiniteSet(S), NEW h \in [S -> Nat]
    PROVE  \E list \in SetToSeqs(S) : Descends(list, h)
<1> DEFINE good(T) == \E list \in SetToSeqs(T) : Descends(list, h)
           bad == {T \in SUBSET S : ~good(T)}
<1>1. ASSUME bad # {} PROVE FALSE
  <2>1. bad \in SUBSET SUBSET S
    OBVIOUS
  <2>2. PICK low \in bad : \A s \in bad : s \subseteq low => s = low
    <3> HIDE DEF bad
    <3> QED
      BY <1>1, <2>1, LeastSubset
  <2>3. low \in SUBSET S /\ ~good(low)
    OBVIOUS
  <2>4. IsFiniteSet(low)
    BY <2>3, FS_Subset
  <2>5. low # {}
    <3> SUFFICES ASSUME low = {} PROVE FALSE
      OBVIOUS
    <3>1. Cardinality(low) = 0
      BY FS_EmptySet
    <3>2. <<>> \in [1 .. 0 -> low] /\ DOMAIN <<>> = {} /\ 1 .. 0 = {}
      OBVIOUS
    <3>3. <<>> \in SetToSeqs(low)
      BY <3>1, <3>2 DEF SetToSeqs
    <3>4. Descends(<<>>, h)
      BY <3>2 DEF Descends
    <3> QED
      BY <2>3, <3>3, <3>4
  <2>6. PICK x \in low : \A y \in low : h[x] <= h[y]
    <3> DEFINE part == [y \in low |-> h[y]]
    <3>1. part \in [low -> Nat]
      BY <2>3
    <3>2. \E x \in low : \A y \in low : part[x] <= part[y]
      <4> HIDE DEF part
      <4> QED
        BY <2>4, <2>5, <3>1, LowestValue
    <3> QED
      BY <3>2
  <2> DEFINE rest == low \ {x}
             n == Cardinality(rest)
  <2>7. good(rest)
    <3>1. rest \subseteq low /\ rest # low /\ rest \in SUBSET S
      BY <2>3
    <3>2. rest \notin bad
      BY <2>2, <3>1
    <3> QED
      BY <3>1, <3>2
  <2>8. n \in Nat /\ Cardinality(low) = n + 1
    <3>1. IsFiniteSet(rest) /\ Cardinality(rest) = Cardinality(low) - 1
      BY <2>4, FS_RemoveElement
    <3>2. Cardinality(low) \in Nat /\ n \in Nat
      BY <2>4, <3>1, FS_CardinalityType
    <3> QED
      BY <3>1, <3>2
  <2>9. PICK list \in [1 .. n -> rest] :
            /\ \A i, j \in 1 .. n : i # j => list[i] # list[j]
            /\ Descends(list, h)
    BY <2>7 DEF SetToSeqs
  <2> HIDE DEF bad, good, n
  <2> DEFINE new == [i \in 1 .. n + 1 |-> IF i <= n THEN list[i] ELSE x]
  <2>10. \A i \in 1 .. n : list[i] \in low /\ list[i] # x
    BY <2>9
  <2>11. new \in [1 .. n + 1 -> low]
    BY <2>8, <2>10
  <2>12. \A i \in 1 .. n + 1 : (i \in 1 .. n /\ new[i] = list[i]) \/ (i = n + 1 /\ new[i] = x)
    BY <2>8
  <2> HIDE DEF new
  <2>13. ASSUME NEW i \in 1 .. n + 1, NEW j \in 1 .. n + 1, i < j
         PROVE  new[i] # new[j] /\ h[new[i]] >= h[new[j]]
    <3>1. i \in 1 .. n /\ new[i] = list[i]
      BY <2>8, <2>12, <2>13
    <3>2. CASE j \in 1 .. n /\ new[j] = list[j]
      BY <2>9, <2>13, <3>1, <3>2 DEF Descends
    <3>3. CASE new[j] = x
      <4>1. h[x] \in Nat /\ h[list[i]] \in Nat /\ h[x] <= h[list[i]]
        BY <2>3, <2>6, <2>10, <3>1
      <4> QED
        BY <2>10, <3>1, <3>3, <4>1
    <3> QED
      BY <2>12, <3>2, <3>3
  <2>14. \A i, j \in 1 .. n + 1 : i # j => new[i] # new[j]
    <3> TAKE i, j \in 1 .. n + 1
    <3>1. i < j \/ j < i \/ i = j
      BY <2>8
    <3> QED
      BY <2>13, <3>1
  <2>15. new \in SetToSeqs(low)
    BY <2>8, <2>11, <2>14 DEF SetToSeqs
  <2>16. Descends(new, h)
    BY <2>11, <2>13 DEF Descends
  <2> QED
    BY <2>3, <2>15, <2>16 DEF good
<1>2. good(S)
  BY <1>1
<1> QED
  BY <1>2

-----------------------------------------------------------------------------
(* What the weights say.                                                   *)

LEMMA Products ==
    ASSUME NEW a \in Nat, NEW b \in Nat
    PROVE  a * b \in Nat /\ (a * b > 0 <=> a > 0 /\ b > 0)
<1>1. a * b \in Nat
  OBVIOUS
<1>2. CASE a = 0 \/ b = 0
  <2>1. a * b = 0
    BY <1>2
  <2> QED
    BY <1>2, <2>1
<1>3. CASE a # 0 /\ b # 0
  <2>1. a * b > 0
    BY <1>3
  <2> QED
    BY <1>1, <1>3, <2>1
<1> QED
  BY <1>2, <1>3

LEMMA TokenType ==
    ASSUME NEW text \in Texts, NEW w \in Word
    PROVE  /\ tokenize(text)[w] \in Nat
           /\ tokenize(text)[w] > 0 <=> w \notin Short /\ text[w] > 0
  BY DEF tokenize, Texts

\* A word weighs something in the entries that have it in a field.
LEMMA FreqPositive ==
    ASSUME NEW d \in Doc, NEW w \in Word
    PROVE  /\ Freq[d][w] \in Nat
           /\ Freq[d][w] > 0 <=> w \notin Short /\ \E f \in Field : Text[d][f][w] > 0
<1> DEFINE part == [f \in Field |-> Weight[f] * tokenize(Text[d][f])[w]]
<1>1. ASSUME NEW f \in Field
      PROVE  part[f] \in Nat /\ (part[f] > 0 <=> w \notin Short /\ Text[d][f][w] > 0)
  <2>1. Weight[f] \in Nat \ {0}
    BY DEF Weight, Field
  <2>2. Text[d][f] \in Texts
    BY VectorStoreAssumption
  <2>3. /\ tokenize(Text[d][f])[w] \in Nat
        /\ tokenize(Text[d][f])[w] > 0 <=> w \notin Short /\ Text[d][f][w] > 0
    BY <2>2, TokenType
  <2>4. part[f] = Weight[f] * tokenize(Text[d][f])[w]
    OBVIOUS
  <2> HIDE DEF part
  <2> QED
    BY <2>1, <2>3, <2>4, Products
<1>2. IsFiniteSet(Field)
  <2>1. IsFiniteSet({}) /\ Field = (({} \cup {"name"}) \cup {"description"}) \cup {"symptoms"}
    BY FS_EmptySet DEF Field
  <2> QED
    BY <2>1, FS_AddElement
<1>3. Freq[d][w] = SumFunction(part)
  BY DEF Freq
<1>4. part \in [Field -> Nat]
  <2>1. \A f \in Field : part[f] \in Nat
    BY <1>1
  <2>2. part = [f \in Field |-> part[f]]
    OBVIOUS
  <2> HIDE DEF part
  <2> QED
    BY <2>1, <2>2
<1>5. /\ SumFunction(part) \in Nat
      /\ SumFunction(part) > 0 <=> \E f \in Field : part[f] > 0
  <2> HIDE DEF part
  <2> QED
    BY <1>2, <1>4, SumPositive
<1>6. (\E f \in Field : part[f] > 0) <=> w \notin Short /\ \E f \in Field : Text[d][f][w] > 0
  <2> HIDE DEF part
  <2> QED
    BY <1>1
<1> HIDE DEF part
<1> QED
  BY <1>3, <1>5, <1>6

\* A share of a total, in units of which the total is a divisor.
LEMMA SharePositive ==
    ASSUME NEW unit \in Nat \ {0}, NEW n \in Nat, NEW total \in Nat \ {0}, unit % total = 0
    PROVE  /\ (unit * n) \div total \in Nat
           /\ (unit * n) \div total > 0 <=> n > 0
<1> DEFINE p == unit * n
           q == p \div total
<1>1. p \in Nat /\ (n = 0 => p = 0) /\ (n > 0 => p >= unit)
  <2>1. p \in Nat
    BY Products
  <2>2. ASSUME n = 0 PROVE p = 0
    BY <2>2
  <2>3. ASSUME n > 0 PROVE p >= unit
    <3>1. n - 1 \in Nat /\ unit \in Nat
      BY <2>3
    <3>2. unit * (n - 1) \in Nat
      BY <3>1, Products
    <3>3. p = unit * (n - 1) + unit
      BY <3>1
    <3> QED
      BY <3>1, <3>2, <3>3
  <2> QED
    BY <2>1, <2>2, <2>3
<1>2. unit >= total
  <2>1. unit < total => unit % total = unit
    OBVIOUS
  <2> QED
    BY <2>1
<1> HIDE DEF p
<1>3. q \in Nat /\ p % total \in Nat /\ (p % total) < total /\ p = (total * q) + (p % total)
  BY <1>1
<1> HIDE DEF q
<1>4. CASE n = 0
  <2>1. ASSUME q > 0 PROVE FALSE
    <3> DEFINE t == total * q
               r == p % total
    <3>1. t \in Nat /\ t > 0
      BY <1>3, <2>1, Products
    <3>2. p = 0 /\ p = t + r /\ r \in Nat
      BY <1>1, <1>3, <1>4
    <3> HIDE DEF t, r
    <3> QED
      BY <3>1, <3>2
  <2> QED
    BY <1>3, <1>4, <2>1 DEF q, p
<1>5. CASE n > 0
  <2>1. ASSUME q = 0 PROVE FALSE
    <3> DEFINE r == p % total
    <3>1. total * q = 0
      BY <2>1
    <3>2. p = r /\ r < total
      BY <1>3, <3>1
    <3> HIDE DEF r
    <3> QED
      BY <1>1, <1>2, <1>5, <3>2
  <2> QED
    BY <1>3, <1>5, <2>1 DEF q, p
<1> QED
  BY <1>4, <1>5

LEMMA ShareOfWord ==
    ASSUME NEW d \in Doc, NEW w \in Word
    PROVE  /\ computeDocTF[d][w] \in Nat
           /\ computeDocTF[d][w] > 0 <=> w \notin Short /\ \E f \in Field : Text[d][f][w] > 0
<1>1. Freq[d] \in [Word -> Nat]
  <2>1. Freq[d] = [v \in Word |-> Freq[d][v]]
    BY DEF Freq
  <2> QED
    BY <2>1, FreqPositive
<1>2. Total(d) \in Nat /\ (Total(d) > 0 <=> \E v \in Word : Freq[d][v] > 0)
  BY <1>1, VectorStoreAssumption, SumPositive DEF Total
<1>3. computeDocTF[d][w] = IF Total(d) > 0 THEN (Unit * Freq[d][w]) \div Total(d) ELSE 0
  BY DEF computeDocTF
<1>4. computeDocTF[d][w] \in Nat /\ (computeDocTF[d][w] > 0 <=> Freq[d][w] > 0)
  <2>1. CASE Total(d) > 0
    <3>1. Unit \in Nat \ {0} /\ Freq[d][w] \in Nat /\ Total(d) \in Nat \ {0} /\ Unit % Total(d) = 0
      BY <1>1, <1>2, <2>1, VectorStoreAssumption, UnitAssumption
    <3> DEFINE share == (Unit * Freq[d][w]) \div Total(d)
    <3>2. share \in Nat /\ (share > 0 <=> Freq[d][w] > 0)
      BY <3>1, SharePositive
    <3>3. computeDocTF[d][w] = share
      BY <1>3, <2>1
    <3> HIDE DEF share
    <3> QED
      BY <3>2, <3>3
  <2>2. CASE ~(Total(d) > 0)
    <3>1. computeDocTF[d][w] = 0
      BY <1>3, <2>2
    <3> QED
      BY <1>2, <2>2, <3>1
  <2> QED
    BY <2>1, <2>2
<1> QED
  BY <1>4, FreqPositive

\* A word that every entry has still weighs something.
LEMMA IdfPositive ==
    ASSUME NEW corpus \in SUBSET Doc, corpus # {}, NEW w \in Word
    PROVE  Idf(corpus, w) \in Nat \ {0}
<1> DEFINE df == Frequency(corpus, w)
           size == Cardinality(corpus)
<1>1. IsFiniteSet(corpus) /\ size \in Nat /\ Cardinality(Doc) \in Nat /\ size <= Cardinality(Doc)
  BY VectorStoreAssumption, FS_Subset, FS_CardinalityType
<1>2. size # 0
  BY <1>1, FS_EmptySet
<1>3. df \in Nat /\ df <= size
  <2>1. {d \in corpus : computeDocTF[d][w] > 0} \in SUBSET corpus
    OBVIOUS
  <2> QED
    BY <1>1, <2>1, FS_Subset, FS_CardinalityType DEF Frequency
<1> HIDE DEF df, size
<1>4. size \in 1 .. Cardinality(Doc) /\ df \in 0 .. size
  BY <1>1, <1>2, <1>3
<1>5. Ln(1 + df + size, 1 + df) \in Nat \ {0}
  BY <1>4, LnAssumption
<1> QED
  BY <1>5 DEF Idf, df, size

\* An entry scores when it shares a long word with the query.
LEMMA ScorePositive ==
    ASSUME NEW corpus \in SUBSET Doc, NEW k \in Key, NEW d \in corpus
    PROVE  /\ Score[corpus][k][d] \in Nat
           /\ Score[corpus][k][d] > 0
                  <=> \E f \in Field, w \in Word \ Short : Text[d][f][w] > 0 /\ k[1][w] > 0
<1> DEFINE part == [w \in Word |-> tokenize(k[1])[w] * (computeDocTF[d][w] * Idf(corpus, w))]
<1>1. d \in Doc /\ corpus # {} /\ k[1] \in Texts
  BY VectorStoreAssumption
<1>2. ASSUME NEW w \in Word
      PROVE  /\ part[w] \in Nat
             /\ part[w] > 0 <=> /\ w \notin Short
                                /\ \E f \in Field : Text[d][f][w] > 0 /\ k[1][w] > 0
  <2> DEFINE a == tokenize(k[1])[w]
             b == computeDocTF[d][w]
             c == Idf(corpus, w)
  <2>1. a \in Nat /\ (a > 0 <=> w \notin Short /\ k[1][w] > 0)
    BY <1>1, TokenType
  <2>2. b \in Nat /\ (b > 0 <=> w \notin Short /\ \E f \in Field : Text[d][f][w] > 0)
    BY <1>1, ShareOfWord
  <2>3. c \in Nat /\ c > 0
    BY <1>1, IdfPositive
  <2>4. part[w] = a * (b * c)
    OBVIOUS
  <2> HIDE DEF part, a, b, c
  <2>5. b * c \in Nat /\ (b * c > 0 <=> b > 0)
    BY <2>2, <2>3, Products
  <2>6. part[w] \in Nat /\ (part[w] > 0 <=> a > 0 /\ b * c > 0)
    BY <2>1, <2>4, <2>5, Products
  <2> QED
    BY <2>1, <2>2, <2>5, <2>6
<1>3. Score[corpus][k][d] = SumFunction(part)
  BY <1>1 DEF Score
<1>4. part = [w \in Word |-> part[w]]
  OBVIOUS
<1> HIDE DEF part
<1>5. part \in [Word -> Nat]
  BY <1>2, <1>4
<1>6. SumFunction(part) \in Nat /\ (SumFunction(part) > 0 <=> \E w \in Word : part[w] > 0)
  BY <1>5, VectorStoreAssumption, SumPositive
<1>7. (\E w \in Word : part[w] > 0)
          <=> \E f \in Field, w \in Word \ Short : Text[d][f][w] > 0 /\ k[1][w] > 0
  BY <1>2, VectorStoreAssumption
<1> QED
  BY <1>3, <1>6, <1>7

\* What sort.Slice returns.
LEMMA SortedIs ==
    ASSUME NEW corpus \in SUBSET Doc, NEW k \in Key
    PROVE  /\ Sorted(corpus, k) \in Seq(Doc)
           /\ Len(Sorted(corpus, k)) = Cardinality(Hits(corpus, k))
           /\ \A d \in Doc : d \in Hits(corpus, k)
                  <=> \E i \in 1 .. Len(Sorted(corpus, k)) : Sorted(corpus, k)[i] = d
           /\ \A i, j \in 1 .. Len(Sorted(corpus, k)) : i < j =>
                  /\ Sorted(corpus, k)[i] # Sorted(corpus, k)[j]
                  /\ Score[corpus][k][Sorted(corpus, k)[i]] >= Score[corpus][k][Sorted(corpus, k)[j]]
<1> DEFINE found == Hits(corpus, k)
           n == Cardinality(found)
           list == Sorted(corpus, k)
           score == [d \in found |-> Score[corpus][k][d]]
<1>1. found \in SUBSET Doc /\ found \in SUBSET corpus
  BY DEF Hits
<1>2. IsFiniteSet(found) /\ n \in Nat
  BY <1>1, VectorStoreAssumption, FS_Subset, FS_CardinalityType
<1>3. score \in [found -> Nat]
  BY <1>1, ScorePositive
<1>4. \A l \in SetToSeqs(found) :
          Descends(l, score) <=>
              \A i, j \in DOMAIN l : i < j => Score[corpus][k][l[i]] >= Score[corpus][k][l[j]]
  <2> TAKE l \in SetToSeqs(found)
  <2>1. \A i \in DOMAIN l : l[i] \in found
    BY DEF SetToSeqs
  <2>2. \A i \in DOMAIN l : score[l[i]] = Score[corpus][k][l[i]]
    BY <2>1
  <2> HIDE DEF score
  <2> QED
    BY <2>2 DEF Descends
<1>5. \E l \in SetToSeqs(found) : Descends(l, score)
  <2> HIDE DEF score, found
  <2> QED
    BY <1>2, <1>3, SortedExists
<1>6. /\ list \in SetToSeqs(found)
      /\ \A i, j \in DOMAIN list : i < j => Score[corpus][k][list[i]] >= Score[corpus][k][list[j]]
  BY <1>4, <1>5 DEF Sorted
<1> HIDE DEF list, score
<1>7. /\ list \in [1 .. n -> found] /\ DOMAIN list = 1 .. n
      /\ \A i, j \in 1 .. n : i # j => list[i] # list[j]
  BY <1>6 DEF SetToSeqs
<1> HIDE DEF n, found
<1>8. list \in Seq(Doc) /\ Len(list) = n
  <2>1. list \in [1 .. n -> Doc]
    BY <1>1, <1>7
  <2> QED
    BY <1>2, <2>1
<1>9. list \in Surjection(1 .. n, found)
  <2>1. list \in Injection(1 .. n, found)
    BY <1>7 DEF Injection, IsInjective
  <2>2. Cardinality(1 .. n) = n
    BY <1>2, FS_Interval
  <2> QED
    BY <1>2, <2>1, <2>2, FS_Injection DEF n
<1>10. \A d \in Doc : d \in found <=> \E i \in 1 .. n : list[i] = d
  BY <1>7, <1>9 DEF Surjection
<1>11. \A i, j \in 1 .. n : i < j =>
           list[i] # list[j] /\ Score[corpus][k][list[i]] >= Score[corpus][k][list[j]]
  <2> TAKE i, j \in 1 .. n
  <2>1. i < j => i # j
    BY <1>2
  <2> QED
    BY <1>6, <1>7, <2>1
<1> QED
  BY <1>8, <1>10, <1>11 DEF list, n, found

\* Search keeps its promise.
LEMMA SearchRanks ==
    ASSUME NEW corpus \in SUBSET Doc, NEW k \in Key
    PROVE  Search[<<corpus, k>>] \in Seq(Doc) /\ IsRanking(Search[<<corpus, k>>], corpus, k)
<1> DEFINE found == Hits(corpus, k)
           n == Cardinality(found)
           list == Sorted(corpus, k)
           m == Min({k[2], Len(list)})
           results == Search[<<corpus, k>>]
           better(d, e) == Score[corpus][k][d] >= Score[corpus][k][e]
<1>1. results = IF corpus = {} \/ tokenize(k[1]) = NoText THEN <<>> ELSE SubSeq(list, 1, m)
  BY DEF Search
<1>2. {d \in corpus : \E f \in Field, w \in Word \ Short : Text[d][f][w] > 0 /\ k[1][w] > 0} = found
  BY ScorePositive DEF Hits
<1>3. SUFFICES /\ results \in Seq(Doc)
               /\ ToSet(results) \subseteq found
               /\ Len(results) = Min({k[2], n})
               /\ \A i, j \in DOMAIN results : i < j =>
                      results[i] # results[j] /\ better(results[i], results[j])
               /\ \A d \in ToSet(results), e \in found \ ToSet(results) : better(d, e)
  BY <1>2 DEF IsRanking
<1>4. k[1] \in Texts /\ k[2] \in Nat
  BY VectorStoreAssumption
<1>5. found \in SUBSET Doc
  BY DEF Hits
<1> HIDE DEF results
<1>6. CASE corpus = {} \/ tokenize(k[1]) = NoText
  <2>1. results = <<>>
    BY <1>1, <1>6
  <2>2. found = {}
    <3>1. CASE corpus = {}
      BY <3>1 DEF Hits
    <3>2. CASE tokenize(k[1]) = NoText
      <4>1. \A w \in Word : ~(tokenize(k[1])[w] > 0)
        BY <3>2 DEF NoText
      <4>2. \A w \in Word \ Short : ~(k[1][w] > 0)
        BY <1>4, <4>1, TokenType
      <4> QED
        BY <1>2, <4>2
    <3> QED
      BY <1>6, <3>1, <3>2
  <2>3. n = 0 /\ Min({k[2], 0}) = 0
    BY <1>4, <2>2, FS_EmptySet, LesserOf
  <2>4. results \in Seq(Doc) /\ Len(results) = 0 /\ DOMAIN results = {} /\ ToSet(results) = {}
    BY <2>1 DEF ToSet
  <2> HIDE DEF found, n
  <2> QED
    BY <2>3, <2>4
<1>7. CASE ~(corpus = {} \/ tokenize(k[1]) = NoText)
  <2>1. results = SubSeq(list, 1, m)
    BY <1>1, <1>7
  <2>2. /\ list \in Seq(Doc) /\ Len(list) = n /\ Len(list) \in Nat
        /\ \A d \in Doc : d \in found <=> \E i \in 1 .. n : list[i] = d
        /\ \A i, j \in 1 .. n : i < j => list[i] # list[j] /\ better(list[i], list[j])
    BY SortedIs, LenProperties
  <2> HIDE DEF list, found, n
  <2>3. m = (IF k[2] <= n THEN k[2] ELSE n) /\ m = Min({k[2], n})
    BY <1>4, <2>2, LesserOf
  <2> HIDE DEF m
  <2>4. m \in Nat /\ m <= n /\ n \in Nat
    BY <1>4, <2>2, <2>3
  <2>5. results \in Seq(Doc) /\ Len(results) = m /\ \A i \in 1 .. m : results[i] = list[i]
    <3>1. \A i \in 1 .. m : list[i] \in Doc
      <4> TAKE i \in 1 .. m
      <4>1. i \in 1 .. Len(list)
        BY <2>2, <2>4
      <4> QED
        BY <2>2, <4>1, ElementOfSeq
    <3> QED
      BY <2>1, <2>2, <2>4, <3>1, SubSeqProperties
  <2>6. \A i \in 1 .. m : i \in 1 .. n
    BY <2>4
  <2>7. DOMAIN results = 1 .. m /\ ToSet(results) = {list[i] : i \in 1 .. m}
    BY <2>5 DEF ToSet
  <2>8. \A i \in 1 .. n : list[i] \in found
    <3> TAKE i \in 1 .. n
    <3>1. list[i] \in Doc
      BY <2>2, ElementOfSeq
    <3> QED
      BY <2>2, <3>1
  <2>9. ToSet(results) \subseteq found
    BY <2>6, <2>7, <2>8
  <2>10. \A i, j \in DOMAIN results : i < j =>
             results[i] # results[j] /\ better(results[i], results[j])
    <3> HIDE DEF better
    <3> QED
      BY <2>2, <2>5, <2>6, <2>7
  <2>11. ASSUME NEW d \in ToSet(results), NEW e \in found \ ToSet(results)
         PROVE  better(d, e)
    <3>1. PICK i \in 1 .. m : d = list[i]
      BY <2>7
    <3>2. PICK j \in 1 .. n : e = list[j]
      BY <1>5, <2>2 DEF found
    <3>3. j \notin 1 .. m
      BY <2>7, <2>11, <3>2
    <3>4. i < j /\ i \in 1 .. n
      BY <2>4, <3>3
    <3> HIDE DEF better
    <3> QED
      BY <2>2, <3>1, <3>2, <3>4
  <2> QED
    BY <2>3, <2>5, <2>9, <2>10, <2>11
<1> QED
  BY <1>6, <1>7

\* MemoryVectorStore.Search: what is cached, and so what is returned, finds
\* every entry of the store that shares a long word with the query, and the
\* best of them first, for every knowledge base and every weight of words.
THEOREM AlwaysRanked == Spec => []Ranked
<1>1. Inv => Ranked
  <2> SUFFICES ASSUME Inv, NEW s \in Store, NEW k \in Cached(s)
               PROVE  IsRanking(items[s][k].results, Entries(loaded, s), k)
    BY DEF Ranked
  <2>1. IsCurrent(loaded, s, items[s])
    BY DEF Inv, Current
  <2>2. k \in Key /\ items[s][k].results = Search[<<Entries(loaded, s), k>>]
    <3>1. PICK age \in 0 .. TTL + 1 :
              items[s][k] = [results |-> Search[<<Entries(loaded, s), k>>], age |-> age]
      BY <2>1 DEF IsCurrent, Cached
    <3> QED
      BY <2>1, <3>1 DEF IsCurrent, Cached
  <2>3. Entries(loaded, s) \in SUBSET Doc
    BY EntriesCorpus DEF Inv
  <2> QED
    BY <2>2, <2>3, SearchRanks
<1> QED
  BY <1>1, InvInit, Step, PTL DEF Spec

\* What TypeOK says beside the other invariants.
Typed ==
    /\ answer \in [Req -> Results \cup {NoAnswer}]
    /\ usedAfter \in [Store -> SUBSET (Key \X Key)]

\* The variables of the service keep their types.
THEOREM TypeCorrect == Spec => []TypeOK
<1>1. Init => Typed
  BY DEF Init, Typed, Results
<1>2. Inv /\ CachesInv /\ Typed /\ [Next]_vars => Typed'
  <2> SUFFICES ASSUME Inv, CachesInv, Typed, [Next]_vars PROVE Typed'
    OBVIOUS
  <2>1. \A q \in Question : Found(loaded, q) \in Results
    BY StoreOfStore, EntriesCorpus, SearchRanks DEF Found, Results, Inv
  <2>2. <<>> \in Results /\ NoAnswer \in Results \cup {NoAnswer}
    BY DEF Results
  <2>3. \A pairs \in SUBSET (Key \X Key), keys \in SUBSET Key :
            Among(pairs, keys) \in SUBSET (Key \X Key)
    BY DEF Among
  <2>4. \A pairs \in SUBSET (Key \X Key), keys \in SUBSET Key : \A k \in keys :
            Use(pairs, keys, k) \in SUBSET (Key \X Key)
    BY DEF Use, Among
  <2>5. \A s \in Store : Cached(s) \subseteq Key
    BY DEF Inv, Current, IsCurrent, Cached
  <2>6. CASE \E r \in Req : Fill(r)
    <3>1. PICK r \in Req : Fill(r)
      BY <2>6
    <3> DEFINE s == Cache(question[r])
               k == cacheKey(question[r])
    <3>2. question[r] \in Question /\ s \in Store /\ k \in Key
      BY StoreOfStore DEF Cache, cacheKey, Inv
    <3>3. Kept(s, k) \subseteq Key /\ k \in Kept(s, k)
      BY <2>5, <3>2 DEF Kept
    <3>4. /\ answer' = [answer EXCEPT ![r] = Found(loaded, question[r])]
          /\ usedAfter' = [usedAfter EXCEPT ![s] = Use(usedAfter[s], Kept(s, k), k)]
      BY <3>1 DEF Fill, Return
    <3> HIDE DEF s, k
    <3>5. Use(usedAfter[s], Kept(s, k), k) \in SUBSET (Key \X Key)
      BY <2>4, <3>2, <3>3 DEF Typed
    <3>6. answer' \in [Req -> Results \cup {NoAnswer}]
      BY <2>1, <3>2, <3>4 DEF Typed
    <3>7. usedAfter' \in [Store -> SUBSET (Key \X Key)]
      BY <3>4, <3>5 DEF Typed
    <3> QED
      BY <3>6, <3>7 DEF Typed
  <2>7. CASE \E r \in Req, q \in Question : Skip(r, q)
    BY <2>2, <2>7 DEF Skip, Return, caches, Typed
  <2>8. CASE \E r \in Req, q \in Question : Hit(r, q)
    <3>1. PICK r \in Req, q \in Question : Hit(r, q)
      BY <2>8
    <3> DEFINE s == Cache(q)
               k == cacheKey(q)
    <3>2. s \in Store /\ k \in Key /\ k \in Cached(s)
      BY <3>1, StoreOfStore DEF Cache, cacheKey, Inv, Hit, Valid
    <3>3. /\ answer' = [answer EXCEPT ![r] = items[s][k].results]
          /\ usedAfter' = [usedAfter EXCEPT ![s] = Use(usedAfter[s], Cached(s), k)]
      BY <3>1 DEF Hit, Return
    <3> HIDE DEF s, k
    <3>4. items[s][k].results \in Results
      <4>1. IsCurrent(loaded, s, items[s])
        BY <3>2 DEF Inv, Current
      <4>2. PICK age \in 0 .. TTL + 1 :
                items[s][k] = [results |-> Search[<<Entries(loaded, s), k>>], age |-> age]
        BY <3>2, <4>1 DEF IsCurrent, Cached
      <4>3. Search[<<Entries(loaded, s), k>>] \in Seq(Doc)
        BY <3>2, EntriesCorpus, SearchRanks DEF Inv
      <4> QED
        BY <4>2, <4>3 DEF Results
    <3>5. Use(usedAfter[s], Cached(s), k) \in SUBSET (Key \X Key)
      BY <2>4, <2>5, <3>2 DEF Typed
    <3>6. answer' \in [Req -> Results \cup {NoAnswer}]
      BY <3>3, <3>4 DEF Typed
    <3>7. usedAfter' \in [Store -> SUBSET (Key \X Key)]
      BY <3>3, <3>5 DEF Typed
    <3> QED
      BY <3>6, <3>7 DEF Typed
  <2>9. CASE \E r \in Req, q \in Question : Miss(r, q)
    <3>1. PICK r \in Req, q \in Question : Miss(r, q)
      BY <2>9
    <3> DEFINE s == Cache(q)
               left == Cached(s) \ {cacheKey(q)}
    <3>2. s \in Store /\ left \in SUBSET Key
      BY <2>5, StoreOfStore DEF Cache, Inv
    <3>3. /\ answer' = [answer EXCEPT ![r] = NoAnswer]
          /\ usedAfter' = [usedAfter EXCEPT ![s] = Among(usedAfter[s], left)]
      BY <3>1 DEF Miss
    <3> HIDE DEF s, left
    <3>4. Among(usedAfter[s], left) \in SUBSET (Key \X Key)
      BY <2>3, <3>2 DEF Typed
    <3>5. answer' \in [Req -> Results \cup {NoAnswer}]
      BY <3>3 DEF Typed
    <3>6. usedAfter' \in [Store -> SUBSET (Key \X Key)]
      BY <3>3, <3>4 DEF Typed
    <3> QED
      BY <3>5, <3>6 DEF Typed
  <2>10. CASE CacheTick
    BY <2>10 DEF CacheTick, Typed
  <2>11. CASE UNCHANGED vars
    BY <2>11 DEF vars, caches, Typed
  <2> QED
    BY <2>6, <2>7, <2>8, <2>9, <2>10, <2>11 DEF Next
<1>3. Inv /\ CachesInv /\ Typed => TypeOK
  <2> SUFFICES ASSUME Inv, CachesInv, Typed PROVE TypeOK
    OBVIOUS
  <2>1. order \in [Store -> Seq(Key)]
    BY DEF CachesInv, IsCache
  <2>2. ASSUME NEW s \in Store
        PROVE  Cached(s) \subseteq Key /\ items[s] \in [Cached(s) -> Item]
    <3>1. IsCurrent(loaded, s, items[s])
      BY DEF Inv, Current
    <3>2. Cached(s) \subseteq Key /\ items[s] = [k \in Cached(s) |-> items[s][k]]
      BY <3>1 DEF IsCurrent, Cached
    <3>3. ASSUME NEW k \in Cached(s) PROVE items[s][k] \in Item
      <4>1. PICK age \in 0 .. TTL + 1 :
                items[s][k] = [results |-> Search[<<Entries(loaded, s), k>>], age |-> age]
        BY <3>1 DEF IsCurrent, Cached
      <4>2. Search[<<Entries(loaded, s), k>>] \in Seq(Doc)
        BY <3>2, EntriesCorpus, SearchRanks DEF Inv
      <4> QED
        BY <4>1, <4>2 DEF Item, Results
    <3> QED
      BY <3>2, <3>3
  <2> QED
    BY <2>1, <2>2 DEF Inv, Typed, TypeOK
<1>4. Spec => []Typed
  BY <1>1, <1>2, CachesInvariant, PTL DEF Spec
<1> QED
  BY <1>3, <1>4, CachesInvariant, PTL
================================================================================
