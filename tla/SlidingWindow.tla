----------------------------- MODULE SlidingWindow -----------------------------
(***************************************************************************)
(* What a session's conversation promises to those who read it: the last   *)
(* messages, in order, as they were when they were asked for.              *)
(***************************************************************************)
EXTENDS Integers, Sequences

CONSTANTS Reader, Message, Size, PromptSize

VARIABLES
    messages,    \* the conversation
    seen         \* what a reader was given

window == <<messages, seen>>

\* At most n elements from the end of s.
Latest(s, n) == IF Len(s) <= n THEN s ELSE SubSeq(s, Len(s) - n + 1, Len(s))

Init == messages = <<>> /\ seen = [r \in Reader |-> <<>>]

Say(m) == messages' = Latest(Append(messages, m), Size) /\ UNCHANGED seen

\* A reader gets all of the window, a prompt, or has answered.
Read(r, n) == seen' = [seen EXCEPT ![r] = Latest(messages, n)] /\ UNCHANGED messages

Next ==
    \/ \E m \in Message : Say(m)
    \/ \E r \in Reader : \E n \in {0, PromptSize, Size} : Read(r, n)

Spec == Init /\ [][Next]_window
=============================================================================
