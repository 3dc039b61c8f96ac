---------------------------- MODULE KnowledgeLookup ----------------------------
(***************************************************************************)
(* What a query of the knowledge base promises: each question gets the     *)
(* answer that a search of the entries gives, however often and by         *)
(* whomever it was asked before.                                           *)
(***************************************************************************)
CONSTANTS
    Asker,
    Question,
    Files,       \* what the knowledge base may be read from
    Nothing,     \* the answer when nothing is found
    NoAnswer,
    Fresh(_, _)  \* the answer that a search of the files gives

VARIABLES
    files,       \* what it was read from at the start
    question,    \* what an asker asked last
    answer       \* what he was told

lookup == <<files, question, answer>>

Init ==
    /\ files \in Files
    /\ question \in [Asker -> Question]
    /\ answer = [a \in Asker |-> Nothing]

\* A question is put and not answered yet.
Ask(a, q) ==
    /\ question' = [question EXCEPT ![a] = q]
    /\ answer' = [answer EXCEPT ![a] = NoAnswer]
    /\ UNCHANGED files

\* A question, now put or put before, is answered.
Answer(a, q) ==
    /\ question' = [question EXCEPT ![a] = q]
    /\ answer' = [answer EXCEPT ![a] = Fresh(files, q)]
    /\ UNCHANGED files

Next ==
    \E a \in Asker :
        IF answer[a] = NoAnswer
        THEN Answer(a, question[a])
        ELSE \E q \in Question : Ask(a, q) \/ Answer(a, q)

Spec == Init /\ [][Next]_lookup
=============================================================================
