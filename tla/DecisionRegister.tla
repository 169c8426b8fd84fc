-------------------------- MODULE DecisionRegister --------------------------
(***************************************************************************)
(* What the decision API promises, without invocations, nonces, clocks or  *)
(* faults: for every request id one decision at most is ever made, it      *)
(* never changes, and everybody who is told a decision is told that one,   *)
(* for the very body they signed.                                          *)
(***************************************************************************)
CONSTANTS
    RequestIds,
    Hashes,      \* hashes of bodies
    Responses,   \* what the service may answer
    None

VARIABLES
    register,    \* request id -> the decision on record, or None
    told         \* the decisions told to clients so far

Entry == [hash: Hashes, response: Responses]

Init ==
    /\ register = [r \in RequestIds |-> None]
    /\ told = [r \in RequestIds |-> {}]

\* Only r's entry changes, from nothing to some decision.
Enter(r) ==
    /\ register[r] = None
    /\ register'[r] \in Entry
    /\ register' = [register EXCEPT ![r] = register'[r]]

\* A first decision is put on record, and nobody is told yet.
Decide(r) == Enter(r) /\ UNCHANGED told

\* The decision on record is told to a client.
Tell(r) ==
    /\ register[r] # None
    /\ told' = [told EXCEPT ![r] = @ \cup {register[r]}]
    /\ UNCHANGED register

\* A decision is put on record and told to the client that asked first.
DecideAndTell(r) ==
    /\ Enter(r)
    /\ told' = [told EXCEPT ![r] = @ \cup {register'[r]}]

Next == \E r \in RequestIds : Decide(r) \/ Tell(r) \/ DecideAndTell(r)

Spec == Init /\ [][Next]_<<register, told>>

=============================================================================
