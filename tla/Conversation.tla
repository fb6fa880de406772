---------------------------- MODULE Conversation ----------------------------
(***************************************************************************)
(* What a learner may rely on in the conversation about a problem: whole   *)
(* turns, in the order in which they were answered, the last Keep of them  *)
(* since the conversation was last cleared.                                *)
(***************************************************************************)
EXTENDS Naturals, Sequences

CONSTANTS
    Problems,
    Turns,      \* a question and its answer
    Keep        \* turns that are kept per problem

VARIABLE turns  \* per problem, the turns that are kept

LastOf(s) == IF Len(s) <= Keep THEN s ELSE SubSeq(s, Len(s) - Keep + 1, Len(s))

Init == turns = [p \in Problems |-> <<>>]

Answer(p) == \E n \in Turns : turns' = [turns EXCEPT ![p] = LastOf(Append(@, n))]
Clear(p) == turns' = [turns EXCEPT ![p] = <<>>]

Next == \E p \in Problems : Answer(p) \/ Clear(p)
Spec == Init /\ [][Next]_turns
=============================================================================
