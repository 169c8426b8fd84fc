---------------------------- MODULE MCDecisionApi ----------------------------
(***************************************************************************)
(* A small instance of DecisionApi: one request id, an honest message, its *)
(* re-signed retry (new nonce, same body), a message that reuses the       *)
(* request id for another body, and one message each that is malformed,    *)
(* unsigned, or stamped differently in the header and in the body.         *)
(***************************************************************************)
EXTENDS DecisionApi, TLC

CONSTANTS c1, c2, c3, r1, r2, n1, n2

BodyA == [request |-> r1, content |-> "a"]
BodyB == [request |-> r1, content |-> "b"]
BodyC == [request |-> r2, content |-> "a"]

MCBodies == {BodyA, BodyB, BodyC}

Msg(body, ts, nonce) ==
    [body |-> body, bodyTs |-> ts, ts |-> ts, nonce |-> nonce,
     wellFormed |-> TRUE, signed |-> TRUE]

\* The race for one request id: duplicates, a re-signed retry and another body.
RaceMessages == {Msg(BodyA, 1, n1), Msg(BodyA, 1, n2), Msg(BodyB, 1, n2)}

\* One of each refused kind, and a message ahead of the servers' clock.
MixedMessages ==
    {Msg(BodyA, 1, n1), Msg(BodyC, 2, n1),
     [Msg(BodyA, 1, n1) EXCEPT !.wellFormed = FALSE],
     [Msg(BodyC, 1, n2) EXCEPT !.signed = FALSE],
     [Msg(BodyA, 1, n2) EXCEPT !.bodyTs = 0]}

Symmetry == Permutations(Calls)

=============================================================================
