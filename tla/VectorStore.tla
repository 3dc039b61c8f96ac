------------------------------ MODULE VectorStore ------------------------------
(***************************************************************************)
(* The search over knowledge-base entries (MemoryVectorStore): TF-IDF with *)
(* a weight for each field.  A text is the number of times each word is in *)
(* it; weights are integers, in units of 1 / Unit.                         *)
(***************************************************************************)
EXTENDS Integers, FiniteSets, Sequences, SequencesExt

CONSTANTS
    Doc,         \* entries of the knowledge base
    Word,
    Short,       \* words with fewer than three letters
    Text,        \* an entry's fields: their texts
    Unit,        \* a multiple of every entry's weighted length
    Ln(_, _),    \* the logarithm of a quotient
    Key          \* query strings, each with a maxResults

Field == {"name", "description", "symptoms"}
Texts == [Word -> Nat]

ASSUME VectorStoreAssumption ==
    /\ IsFiniteSet(Doc) /\ IsFiniteSet(Word) /\ Short \subseteq Word
    /\ Text \in [Doc -> [Field -> Texts]]
    /\ Unit \in Nat \ {0}
    /\ Key \subseteq Texts \X Nat

tokenize(text) == [w \in Word |-> IF w \in Short THEN 0 ELSE text[w]]

Weight == [name |-> 3, description |-> 2, symptoms |-> 1]

\* The weighted counts of an entry's words, and their share of the total.
Freq == [d \in Doc |-> [w \in Word |->
            SumFunction([f \in Field |-> Weight[f] * tokenize(Text[d][f])[w]])]]

Total(d) == SumFunction(Freq[d])

computeDocTF == [d \in Doc |-> [w \in Word |->
                    IF Total(d) > 0 THEN (Unit * Freq[d][w]) \div Total(d) ELSE 0]]

ASSUME UnitAssumption == \A d \in Doc : Total(d) > 0 => Unit % Total(d) = 0

\* Documents of a corpus with a word.
Frequency(corpus, w) == Cardinality({d \in corpus : computeDocTF[d][w] > 0})

\* Mutant: no smoothing, and a word of every document weighs nothing.
IdfPlain(corpus, w) == Ln(Cardinality(corpus), 1 + Frequency(corpus, w))

\* log(1 + N / (1 + df))
Idf(corpus, w) ==
    Ln(1 + Frequency(corpus, w) + Cardinality(corpus), 1 + Frequency(corpus, w))

\* The logarithm of what is above one.
ASSUME LnAssumption ==
    \A size \in 1 .. Cardinality(Doc) : \A df \in 0 .. size : Ln(1 + df + size, 1 + df) \in Nat \ {0}

\* The vectors of Index, and the loop of Search over the words of a query.
Score ==
    [corpus \in SUBSET Doc |-> [k \in Key |-> [d \in Doc |->
        SumFunction([w \in Word |-> tokenize(k[1])[w] * (computeDocTF[d][w] * Idf(corpus, w))])]]]

NoText == [w \in Word |-> 0]

\* Documents that score.
Hits(corpus, k) == {d \in corpus : Score[corpus][k][d] > 0}

\* sort.Slice: best first, and those that score the same in any order.
Sorted(corpus, k) ==
    CHOOSE list \in SetToSeqs(Hits(corpus, k)) :
        \A i, j \in DOMAIN list : i < j => Score[corpus][k][list[i]] >= Score[corpus][k][list[j]]

\* At most topK of them.
Search ==
    [query \in (SUBSET Doc) \X Key |->
        LET corpus == query[1]
            k == query[2]
        IN  IF corpus = {} \/ tokenize(k[1]) = NoText THEN <<>>
            ELSE SubSeq(Sorted(corpus, k), 1, Min({k[2], Len(Sorted(corpus, k))}))]

\* What a search promises, in the words of the texts: documents of the corpus
\* that share a long word with the query, none of them while a better one is
\* left out, and as many as there are up to topK.
IsRanking(results, corpus, k) ==
    LET shares(d) == \E f \in Field, w \in Word \ Short : Text[d][f][w] > 0 /\ k[1][w] > 0
        matching == {d \in corpus : shares(d)}
        better(d, e) == Score[corpus][k][d] >= Score[corpus][k][e]
    IN
    /\ ToSet(results) \subseteq matching
    /\ Len(results) = Min({k[2], Cardinality(matching)})
    /\ \A i, j \in DOMAIN results : i < j =>
           results[i] # results[j] /\ better(results[i], results[j])
    /\ \A d \in ToSet(results), e \in matching \ ToSet(results) : better(d, e)
=============================================================================
