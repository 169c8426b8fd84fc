---------------------------- MODULE MCTickDataset ----------------------------
(***************************************************************************)
(* A small instance of TickDataset: two chunks; a sound content, another   *)
(* of the same size whose ticks do not pass the validation, and an empty   *)
(* one; commands by two operators.                                         *)
(***************************************************************************)
EXTENDS TickDataset, TLC

CONSTANTS good, bad, bare, empty, p1, p2, ny, utc

MCBytes == [x \in Contents |-> IF x = empty THEN 0 ELSE 1]
MCTicked == Contents \ {bare, empty}
MCSound == {good}

Symmetry == Permutations(Procs)

=============================================================================
