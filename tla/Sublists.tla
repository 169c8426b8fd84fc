------------------------------ MODULE Sublists ------------------------------
(***************************************************************************)
(* SelectSeq, whose definition the provers do not know, as a recursion on  *)
(* the positions of a sequence: a sublist is given by the positions it     *)
(* keeps, so that facts about all sublists can be stated without a         *)
(* parameter that is an operator.                                          *)
(***************************************************************************)
EXTENDS Integers, Sequences

\* The elements at these positions, in their order.
Sublist(s, positions) ==
    LET kept[n \in 0..Len(s)] ==
            IF n = 0 THEN <<>>
            ELSE IF n \in positions THEN Append(kept[n - 1], s[n])
            ELSE kept[n - 1]
    IN  kept[Len(s)]

\* The elements that pass a test, in their order.
Those(s, Test(_)) == Sublist(s, {n \in DOMAIN s : Test(s[n])})

=============================================================================
