\* A command with --force is killed between two of its writes.
SPECIFICATION Spec
CONSTANTS
    good = good
    bad = bad
    bare = bare
    empty = empty
    p1 = p1
    p2 = p2
    ny = ny
    utc = utc
    None = None
    N = 1
    Contents = {good, bad}
    Bytes <- MCBytes
    Ticked <- MCTicked
    Sound <- MCSound
    Rules = {ny}
    Forces = {TRUE, FALSE}
    Procs = {p1}
    MaxRuns = 5
SYMMETRY Symmetry
INVARIANTS
    OnlyValidatedIsConverted
CHECK_DEADLOCK FALSE
