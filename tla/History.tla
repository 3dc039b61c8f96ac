-------------------------------- MODULE History --------------------------------
(***************************************************************************)
(* The conversation of one session as Go slices.  GetSessionSnapshot copies *)
(* the slice header, so that a reader goes on using the array that         *)
(* AddMessage appends to; only what lies beyond its own length may change. *)
(* An array that append has left belongs to the readers that hold it.      *)
(***************************************************************************)
EXTENDS Integers, Sequences, SequencesExt

CONSTANTS
    Reader,               \* REST handlers and model calls that use what they read
    Message,
    Blank,                \* an element nobody has written
    Shared,               \* a reader's array is the one of ConversationHistory
    MaxCap,               \* a bound on the length of an array
    maxConversationHistory,
    maxContextMessages

ASSUME HistoryAssumption ==
    /\ Blank \notin Message
    /\ Shared \notin Seq(Message \cup {Blank})
    /\ maxConversationHistory \in Nat \ {0}
    /\ maxContextMessages \in Nat \ {0}
    /\ MaxCap \in Nat /\ MaxCap > maxConversationHistory

VARIABLES
    array,       \* the array of ConversationHistory
    history,     \* where ConversationHistory lies in it
    snapshot     \* where a reader's slice lies, and in which array

historyVars == <<array, history, snapshot>>

Place == [first : 1 .. MaxCap + 1, len : 0 .. maxConversationHistory]
Elements(elements, s) == SubSeq(elements, s.first, s.first + s.len - 1)
End(s) == s.first + s.len

\* What a reader sees.
Snapshot(r) ==
    Elements(IF snapshot[r].array = Shared THEN array ELSE snapshot[r].array, snapshot[r].place)

NoSnapshot == [array |-> <<>>, place |-> [first |-> 1, len |-> 0]]

HistoryTypeOK ==
    /\ array \in Seq(Message \cup {Blank}) /\ Len(array) <= MaxCap
    /\ history \in Place
    /\ snapshot \in [Reader -> [array : Seq(Message \cup {Blank}) \cup {Shared}, place : Place]]

HistoryInit ==
    /\ array = <<>>
    /\ history = [first |-> 1, len |-> 0]
    /\ snapshot = [r \in Reader |-> NoSnapshot]

\* Mutant: the window is moved to the start of its array.
Shifted(elements, s) ==
    IF s.len < maxConversationHistory THEN elements
    ELSE [i \in DOMAIN elements |-> elements[IF i + 1 \in DOMAIN elements THEN i + 1 ELSE i]]

\* What the trim does to the elements.
Trimmed(elements, s) == elements

\* The slice from first after append and the trim to the rolling window.
Window(first) ==
    LET excess == IF history.len + 1 > maxConversationHistory
                  THEN history.len + 1 - maxConversationHistory ELSE 0
    IN  [first |-> first + excess, len |-> history.len + 1 - excess]

\* AddMessage, where append finds room behind the last element.
AddMessage(m) ==
    /\ End(history) <= Len(array)
    /\ array' = Trimmed([array EXCEPT ![End(history)] = m], history)
    /\ history' = Window(history.first)
    /\ UNCHANGED snapshot

\* AddMessage, where append copies to an array of a length that the runtime
\* chooses.
AddMessageToNew(m) ==
    /\ End(history) > Len(array)
    /\ \E room \in history.len + 1 .. MaxCap :
           array' = [i \in 1 .. room |->
                        IF i <= history.len THEN Elements(array, history)[i]
                        ELSE IF i = history.len + 1 THEN m ELSE Blank]
    /\ history' = Window(1)
    /\ snapshot' = [r \in Reader |->
           IF snapshot[r].array = Shared THEN [snapshot[r] EXCEPT !.array = array] ELSE snapshot[r]]

\* GetSessionSnapshot, for GetSessionMessages and the other readers.
GetSessionSnapshot(r) ==
    /\ snapshot' = [snapshot EXCEPT ![r] = [array |-> Shared, place |-> history]]
    /\ UNCHANGED <<array, history>>

\* The answer is sent.
Sent(r) ==
    /\ snapshot' = [snapshot EXCEPT ![r] = NoSnapshot]
    /\ UNCHANGED <<array, history>>

\* The last messages, copied into a prompt under the lock.
BuildContextForGemini(r) ==
    LET start == IF history.len > maxContextMessages THEN history.len - maxContextMessages ELSE 0
        lines == SubSeq(Elements(array, history), start + 1, history.len)
    IN
    /\ snapshot' = [snapshot EXCEPT ![r] =
           [array |-> lines, place |-> [first |-> 1, len |-> history.len - start]]]
    /\ UNCHANGED <<array, history>>

HistoryNext ==
    \/ \E m \in Message : AddMessage(m) \/ AddMessageToNew(m)
    \/ \E r \in Reader : GetSessionSnapshot(r) \/ BuildContextForGemini(r) \/ Sent(r)

HistorySpec == HistoryInit /\ [][HistoryNext]_historyVars

-----------------------------------------------------------------------------
(* Properties.                                                             *)

\* Readers and prompts get the last messages in order, and appending to the
\* array a reader still uses never changes what he was given.
Conversation == INSTANCE SlidingWindow WITH
    Size <- maxConversationHistory, PromptSize <- maxContextMessages,
    messages <- Elements(array, history),
    seen <- [r \in Reader |-> Snapshot(r)]

HistoryKept == Conversation!Spec
=============================================================================
