---------------------------- MODULE SpokenReply ----------------------------
(***************************************************************************)
(* What a streamed reply promises the caller: of the answers the model may *)
(* give, one is told, from its beginning, without repetition or gap, and   *)
(* it may break off; a reply that succeeds has been told to its end.       *)
(* Pauses (blanks) are not counted.                                        *)
(***************************************************************************)
EXTENDS Naturals, Sequences

CONSTANT Answers    \* sequences of characters

VARIABLES answer,   \* the one being given: a set of at most one
          told,     \* the characters sent to the speech provider
          end       \* "no", "said" or "broken"

vars == <<answer, told, end>>

Init == answer = {} /\ told = <<>> /\ end = "no"

\* The model begins an answer, or begins again: only while nothing was told.
Begins == /\ end = "no" /\ told = <<>> /\ \E a \in Answers : answer' = {a}
          /\ UNCHANGED <<told, end>>

Tells == /\ end = "no"
         /\ \E a \in answer : \E n \in Len(told) + 1..Len(a) : told' = SubSeq(a, 1, n)
         /\ end' \in {"no", "broken"} /\ UNCHANGED answer

Ends == /\ end = "no"
        /\ \/ end' = "said" /\ answer = {told'}
           \/ end' = "broken" /\ told' = told
        /\ UNCHANGED answer

Next == Begins \/ Tells \/ Ends

Spec == Init /\ [][Next]_vars

=============================================================================
