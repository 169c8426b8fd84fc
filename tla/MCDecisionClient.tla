--------------------------- MODULE MCDecisionClient ---------------------------
(***************************************************************************)
(* A small instance of DecisionClient: an EA whose clock is one second     *)
(* behind asks for one candidate in the first second and for another in    *)
(* the next, each with its own request id and nonce.                       *)
(***************************************************************************)
EXTENDS DecisionClient, TLC

CONSTANTS r1, r2, n1, n2, c1, c2

MCOffsets == {-1}

Candidate(request, nonce, ts) ==
    [body |-> [request |-> request, content |-> "a"], bodyTs |-> ts, ts |-> ts,
     nonce |-> nonce, wellFormed |-> TRUE, signed |-> TRUE]

TwoCandidates == {Candidate(r1, n1, -1), Candidate(r2, n2, 0)}

OneCandidate == {Candidate(r1, n1, -1)}

MCBodies == {m.body : m \in {Candidate(r1, n1, -1), Candidate(r2, n2, 0)}}

Symmetry == Permutations(Calls)

=============================================================================
