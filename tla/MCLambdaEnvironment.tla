------------------------ MODULE MCLambdaEnvironment ------------------------
(***************************************************************************)
(* A small instance of LambdaEnvironment: two contents that take turns as  *)
(* a shared key or as the API key, and one that is too short for a shared  *)
(* key; a model that loads, one that does not and one that nobody pinned.  *)
(***************************************************************************)
EXTENDS LambdaEnvironment, TLC

CONSTANTS k1, s1, s2, short, good, broken, foreign

\* The API key's validator accepts shorter contents than that of a shared key.
MCSound == [n \in Names |-> IF n = ApiKey THEN Values ELSE {s1, s2}]

MCConfigs ==
    {[checksum |-> c, llm |-> TRUE] : c \in {good, broken, None}}
        \cup {[checksum |-> good, llm |-> FALSE]}

Symmetry == Permutations({s1, s2})

=============================================================================
