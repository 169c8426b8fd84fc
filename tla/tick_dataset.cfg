\* Two operators download, normalize, validate and convert a dataset of two chunks.
SPECIFICATION Spec
CONSTANTS
    good = good
    bad = bad
    bare = bare
    empty = empty
    p1 = p1
    p2 = p2
    ny = ny
    utc = utc
    None = None
    N = 2
    Contents = {good, bad, bare, empty}
    Bytes <- MCBytes
    Ticked <- MCTicked
    Sound <- MCSound
    Rules = {ny, utc}
    Forces = {TRUE, FALSE}
    Procs = {p1, p2}
    MaxRuns = 3
SYMMETRY Symmetry
INVARIANTS
    TypeOK
    RecordsMatchFiles
    ConvertedDataWasValidated
    ImportIsOfThisConversion
PROPERTIES
    ProgressKept
CHECK_DEADLOCK FALSE
