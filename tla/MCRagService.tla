----------------------------- MODULE MCRagService -----------------------------
(* A finite instance of the knowledge base: three entries in two files, one without
   a domain.  *)
EXTENDS RagService, TLC
CONSTANTS d1, d2, d3, f1, f2, leak, pump, hot, it, plumbing, everything

Bag(words) == [w \in Word |-> Cardinality({i \in DOMAIN words : words[i] = w})]
Entry(n, d, s) == [name |-> Bag(n), description |-> Bag(d), symptoms |-> Bag(s)]

MCText ==
    d1 :> Entry(<<leak, it>>, <<pump>>, <<>>) @@
    d2 :> Entry(<<pump, leak>>, <<>>, <<it>>) @@
    d3 :> Entry(<<hot>>, <<pump, leak>>, <<>>)
MCDomainOf == f1 :> plumbing @@ f2 :> everything
MCProblems == f1 :> {d1, d2} @@ f2 :> {d3}
MCKey == {<<Bag(<<leak, it>>), 1>>, <<Bag(<<leak, it>>), 2>>, <<Bag(<<hot, pump>>), 2>>}
\* 100 times the logarithm of a quotient of small numbers.
MCLn(p, q) ==
    (0 :> -999 @@ 3 :> -139 @@ 4 :> -110 @@ 6 :> -69 @@ 8 :> -41 @@ 9 :> -29 @@ 12 :> 0 @@ 15 :> 22 @@
     16 :> 29 @@ 18 :> 41 @@ 20 :> 51 @@ 21 :> 56 @@ 24 :> 69 @@ 30 :> 92 @@ 36 :> 110 @@
     48 :> 139)[(12 * p) \div q]

ASSUME MCTables ==
    /\ Freq \in [Doc -> [Word -> Nat]]
    /\ computeDocTF \in [Doc -> [Word -> 0 .. Unit]]
    /\ Score \in [SUBSET Doc -> [Key -> [Doc -> Int]]]
    /\ Search \in [(SUBSET Doc) \X Key -> Seq(Doc)]
=============================================================================
