\* A warm environment while its secrets are rotated and its model is replaced.
SPECIFICATION Spec
CONSTANTS
    k1 = k1
    s1 = s1
    s2 = s2
    short = short
    good = good
    broken = broken
    foreign = foreign
    None = None
    Envs = {e1}
    KeyIds = {k1}
    ApiKey = apiKey
    Values = {s1, s2, short}
    Sound <- MCSound
    Ttl = 2
    MaxFetch = 1
    Artifacts = {good, broken, foreign}
    Loadable = {good, foreign}
    Configs <- MCConfigs
    MaxWrites = 2
SYMMETRY Symmetry
INVARIANTS
    TypeOK
    OldSecretBounded
    CachedSecretsWereHeld
    ModelIsPinned
