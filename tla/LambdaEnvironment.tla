------------------------- MODULE LambdaEnvironment -------------------------
(***************************************************************************)
(* What a warm Lambda environment of the decision API keeps between the    *)
(* requests that it serves: the secrets that it read from the parameter    *)
(* store, in one TtlSecretCache for the shared keys and the API key of the *)
(* LLM, and the ML model that it loaded from S3.  Meanwhile an operator    *)
(* overwrites or deletes parameters and replaces the model object, and any *)
(* environment may be thrown away.                                         *)
(*                                                                         *)
(* Time is counted in ticks.  A cache entry holds the ticks that are left  *)
(* until its expiry instead of the monotonic time of it, so that time has  *)
(* no bound.  The content of the model object stands for its checksum.     *)
(***************************************************************************)
EXTENDS Integers

CONSTANTS
    Envs,           \* Lambda environments; each serves one request at a time
    KeyIds,         \* parameters that hold a shared key
    ApiKey,         \* the parameter that holds the API key of the LLM
    Values,         \* contents of a parameter
    Sound,          \* parameter -> the contents that its validator accepts
    Ttl,            \* SECRET_CACHE_TTL_SECONDS; 0 turns the cache off
    MaxFetch,       \* ticks that one get_parameter call may take
    Artifacts,      \* contents of the model object
    Loadable,       \* contents that LinearJsonMlProvider accepts
    Configs,        \* what an environment may be configured with
    MaxWrites,      \* bound: how many parameters and objects operators write
    None

Names == KeyIds \cup {ApiKey}
Cap == Ttl + MaxFetch + 1

ASSUME LambdaEnvironmentAssumption ==
    /\ ApiKey \notin KeyIds
    /\ Sound \in [Names -> SUBSET Values]
    /\ Ttl \in 0..3600
    /\ MaxFetch \in Nat
    /\ MaxWrites \in Nat
    /\ Loadable \subseteq Artifacts
    /\ None \notin Values \cup Artifacts \cup Configs
    /\ None \notin [key: KeyIds, secret: Values]
    /\ {"none", "unavailable", "unloaded"} \cap Artifacts = {}
    /\ \A c \in Configs : DOMAIN c = {"checksum", "llm"}
                          /\ c.llm \in BOOLEAN

VARIABLES
    ssm,        \* the parameter store: parameter -> content, or None
    since,      \* history: ticks since a content stopped being the current one
    held,       \* history: parameter -> every content it ever had
    object,     \* the model object in S3, or None
    writes,     \* bound's counter: the writes of operators
    phase,      \* what the environment does
    config,     \* the environment variables that it was started with
    request,    \* the request that it serves: the key id and the secret that signed it
    cache,      \* _secret_cache: parameter -> content and ticks left, or None
    fetch,      \* its get_parameter call: ticks it took so far and the answer
    model,      \* _ml: "none", "unavailable", "unloaded" or the loaded content
    stale,      \* history: how long the secret that the request
                \* last used had been out of date
    predicted   \* history: the content that made the request's prediction

parameters == <<ssm, since, held>>
external == <<parameters, object, writes>>
history == <<stale, predicted>>
globals == <<cache, model>>
vars == <<external, phase, config, request, globals, fetch, history>>

Maybe(S) == S \cup {None}
Entry == [value: Values, left: 0..Ttl]
Fetch == [name: Names, age: 0..MaxFetch, answered: BOOLEAN, value: Maybe(Values)]

TypeOK ==
    /\ ssm \in [Names -> Maybe(Values)]
    /\ since \in [Names -> [Values -> 0..Cap]]
    /\ held \in [Names -> SUBSET Values]
    /\ object \in Maybe(Artifacts)
    /\ writes \in 0..MaxWrites
    /\ phase \in [Envs -> {"cold", "idle", "auth", "ml", "llm"}]
    /\ config \in [Envs -> Maybe(Configs)]
    /\ request \in [Envs -> Maybe([key: KeyIds, secret: Values])]
    /\ cache \in [Envs -> [Names -> Maybe(Entry)]]
    /\ fetch \in [Envs -> Maybe(Fetch)]
    /\ model \in [Envs -> {"none", "unavailable", "unloaded"} \cup Artifacts]
    /\ stale \in [Envs -> 0..Cap]
    /\ predicted \in [Envs -> Maybe(Artifacts)]

Init ==
    /\ ssm \in [Names -> Maybe(Values)]
    /\ since = [n \in Names |-> [v \in Values |-> 0]]
    /\ held = [n \in Names |-> {ssm[n]} \ {None}]
    /\ object \in Maybe(Artifacts)
    /\ writes = 0
    /\ phase = [e \in Envs |-> "cold"]
    /\ config = [e \in Envs |-> None]
    /\ request = [e \in Envs |-> None]
    /\ cache = [e \in Envs |-> [n \in Names |-> None]]
    /\ fetch = [e \in Envs |-> None]
    /\ model = [e \in Envs |-> "none"]
    /\ stale = [e \in Envs |-> 0]
    /\ predicted = [e \in Envs |-> None]

-----------------------------------------------------------------------------
(* The environment's surroundings. *)

Write == writes < MaxWrites /\ writes' = writes + 1

\* An operator creates, overwrites or deletes a parameter.
WriteParameter(n, v) ==
    /\ Write
    /\ v # ssm[n]
    /\ ssm' = [ssm EXCEPT ![n] = v]
    /\ since' = [since EXCEPT ![n] =
                     [w \in Values |-> IF w \in {ssm[n], v} THEN 0 ELSE since[n][w]]]
    /\ held' = [held EXCEPT ![n] = @ \cup ({v} \ {None})]
    /\ UNCHANGED <<object, phase, config, request, globals, fetch, history>>

\* A model is uploaded or deleted.
WriteObject(a) ==
    /\ Write
    /\ a # object
    /\ object' = a
    /\ UNCHANGED <<parameters, phase, config, request, globals, fetch, history>>

Older(n, v) ==
    IF v \in held[n] \ {ssm[n]} /\ since[n][v] < Cap THEN since[n][v] + 1 ELSE since[n][v]

\* A tick passes: out-of-date contents, calls under way and entries grow older.
Tick ==
    /\ \A e \in Envs : fetch[e] # None => fetch[e].age < MaxFetch
    /\ since' = [n \in Names |-> [v \in Values |-> Older(n, v)]]
    /\ fetch' = [e \in Envs |-> IF fetch[e] = None THEN None
                                ELSE [fetch[e] EXCEPT !.age = @ + 1]]
    /\ cache' = [e \in Envs |-> [n \in Names |->
                     IF cache[e][n] = None \/ cache[e][n].left = 0 THEN cache[e][n]
                     ELSE [cache[e][n] EXCEPT !.left = @ - 1]]]
    /\ UNCHANGED <<ssm, held, object, writes, phase, config, request, model, history>>

\* Lambda throws an environment away: it timed out, failed, was scaled in or
\* replaced by a deployment.  All module globals go with it.
Recycle(e) ==
    /\ phase' = [phase EXCEPT ![e] = "cold"]
    /\ config' = [config EXCEPT ![e] = None]
    /\ request' = [request EXCEPT ![e] = None]
    /\ cache' = [cache EXCEPT ![e] = [n \in Names |-> None]]
    /\ fetch' = [fetch EXCEPT ![e] = None]
    /\ model' = [model EXCEPT ![e] = "none"]
    /\ stale' = [stale EXCEPT ![e] = 0]
    /\ predicted' = [predicted EXCEPT ![e] = None]
    /\ UNCHANGED external

\* A new environment starts with the variables of the deployed function.
ColdStart(e, c) ==
    /\ phase[e] = "cold"
    /\ phase' = [phase EXCEPT ![e] = "idle"]
    /\ config' = [config EXCEPT ![e] = c]
    /\ UNCHANGED <<external, request, globals, fetch, history>>

-----------------------------------------------------------------------------
(* Serving a request: _get_secure_parameter, twice, and the ML model. *)

\* A request arrives, signed with some secret, that of its key id or another.
Receive(e, k, s) ==
    /\ phase[e] = "idle"
    /\ phase' = [phase EXCEPT ![e] = "auth"]
    /\ request' = [request EXCEPT ![e] = [key |-> k, secret |-> s]]
    /\ stale' = [stale EXCEPT ![e] = 0]
    /\ predicted' = [predicted EXCEPT ![e] = None]
    /\ UNCHANGED <<external, config, globals, fetch>>

\* The parameter that the environment needs next.
Needed(e) == IF phase[e] = "auth" THEN request[e].key ELSE ApiKey

Needs(e) ==
    /\ phase[e] \in {"auth", "llm"}
    /\ fetch[e] = None

\* Mistaken: an entry is still valid at its expiry.
LiveAtExpiry(entry) == entry # None

\* The lookup of TtlSecretCache: an entry is valid before its expiry only.
Live(entry) == entry # None /\ entry.left > 0

Answer(e) ==
    /\ phase' = [phase EXCEPT ![e] = "idle"]
    /\ request' = [request EXCEPT ![e] = None]

\* The secret v decides the signature's check, or goes out to the LLM provider.
UseSecret(e, n, v) ==
    /\ stale' = [stale EXCEPT ![e] = IF v = ssm[n] THEN 0 ELSE since[n][v]]
    /\ \/ /\ phase[e] = "auth" /\ v = request[e].secret
          /\ phase' = [phase EXCEPT ![e] = "ml"]
          /\ UNCHANGED request
       \/ /\ phase[e] = "llm" \/ v # request[e].secret
          /\ Answer(e)

CacheHit(e) ==
    /\ Needs(e)
    /\ Live(cache[e][Needed(e)])
    /\ UseSecret(e, Needed(e), cache[e][Needed(e)].value)
    /\ UNCHANGED <<external, config, globals, fetch, predicted>>

\* No entry, or an expired one, which is deleted: the parameter store is asked.
CacheMiss(e) ==
    /\ Needs(e)
    /\ ~Live(cache[e][Needed(e)])
    /\ cache' = [cache EXCEPT ![e][Needed(e)] = None]
    /\ fetch' = [fetch EXCEPT ![e] = [name |-> Needed(e), age |-> 0,
                                      answered |-> FALSE, value |-> None]]
    /\ UNCHANGED <<external, phase, config, request, model, history>>

\* The parameter store reads the parameter; the answer is on its way.
ParameterRead(e) ==
    /\ fetch[e] # None
    /\ ~fetch[e].answered
    /\ fetch' = [fetch EXCEPT ![e].answered = TRUE, ![e].value = ssm[fetch[e].name]]
    /\ UNCHANGED <<external, phase, config, request, globals, history>>

\* Mistaken: any answer is handed out.
AcceptedUnchecked(n, v) == v # None

\* What the provider hands out: the answer passed the parameter's validator.
Accepted(n, v) == v # None /\ v \in Sound[n]

\* Mistaken: the time of the call is added to the time to live.
StoredForLonger(entries, n, v) ==
    [entries EXCEPT ![n] = [value |-> v, left |-> Ttl + MaxFetch]]

\* TtlSecretCache.put: the time to live starts when the answer is stored.
Stored(entries, n, v) ==
    IF Ttl > 0 THEN [entries EXCEPT ![n] = [value |-> v, left |-> Ttl]] ELSE entries

\* A sound answer arrives: it is stored, then used.
FetchCompletes(e) ==
    LET n == fetch[e].name
        v == fetch[e].value
    IN  /\ fetch[e] # None
        /\ fetch[e].answered
        /\ Accepted(n, v)
        /\ fetch' = [fetch EXCEPT ![e] = None]
        /\ cache' = [cache EXCEPT ![e] = Stored(cache[e], n, v)]
        /\ UseSecret(e, n, v)
        /\ UNCHANGED <<external, config, model, predicted>>

\* The call fails at any time, or answers that there is no such parameter or
\* with an unsound content: the request is refused and nothing is stored.
FetchFails(e) ==
    /\ fetch[e] # None
    /\ fetch' = [fetch EXCEPT ![e] = None]
    /\ Answer(e)
    /\ UNCHANGED <<external, config, globals, history>>

\* _ml_dependency, the provider of this environment, made at its first use.
Provider(e) ==
    IF model[e] # "none" THEN model[e]
    ELSE IF config[e].checksum = None THEN "unavailable" ELSE "unloaded"

\* Mistaken: the object's checksum is not compared.
LoadsUnpinned(e) == object \in Loadable

\* S3MlProvider._load accepts an object with the pinned checksum that is a model.
Loads(e) ==
    /\ object # None
    /\ object = config[e].checksum
    /\ object \in Loadable

\* The artifact a makes a prediction, unless the request is outside its scope;
\* above the thresholds the LLM is asked, if one is configured.
Predict(e, a) ==
    \/ /\ Answer(e)
       /\ UNCHANGED predicted
    \/ /\ predicted' = [predicted EXCEPT ![e] = a]
       /\ \/ config[e].llm /\ phase' = [phase EXCEPT ![e] = "llm"] /\ UNCHANGED request
          \/ Answer(e)

\* The model was loaded before, by an earlier request.
PredictLoaded(e) ==
    /\ phase[e] = "ml"
    /\ Provider(e) \in Artifacts
    /\ Predict(e, Provider(e))
    /\ UNCHANGED <<external, config, globals, fetch, stale>>

\* The first prediction: the object is read, checked and kept.
LoadModel(e) ==
    /\ phase[e] = "ml"
    /\ Provider(e) = "unloaded"
    /\ Loads(e)
    /\ model' = [model EXCEPT ![e] = object]
    /\ Predict(e, object)
    /\ UNCHANGED <<external, config, cache, fetch, stale>>

\* No model is used: none is configured, the object is missing, cannot be read
\* or is not the pinned one, which is a veto; or the request was answered before
\* and that answer is returned.
AnswerWithoutModel(e) ==
    /\ phase[e] = "ml"
    /\ model' = [model EXCEPT ![e] = Provider(e)]
    /\ Answer(e)
    /\ UNCHANGED <<external, config, cache, fetch, history>>

EnvStep(e) ==
    \/ CacheHit(e) \/ CacheMiss(e)
    \/ ParameterRead(e) \/ FetchCompletes(e) \/ FetchFails(e)
    \/ PredictLoaded(e) \/ LoadModel(e) \/ AnswerWithoutModel(e)

Next ==
    \/ \E n \in Names, v \in Maybe(Values) : WriteParameter(n, v)
    \/ \E a \in Maybe(Artifacts) : WriteObject(a)
    \/ Tick
    \/ \E e \in Envs : Recycle(e)
    \/ \E e \in Envs, c \in Configs : ColdStart(e, c)
    \/ \E e \in Envs, k \in KeyIds : \E s \in Sound[k] : Receive(e, k, s)
    \/ \E e \in Envs : EnvStep(e)

Spec == Init /\ [][Next]_vars

-----------------------------------------------------------------------------
(* Properties *)

(***************************************************************************)
(* A secret that was overwritten or deleted is not used for longer than    *)
(* its time to live after that, plus the time of the call that read it:    *)
(* TtlSecretCache counts from the arrival of the answer, not from the      *)
(* moment the parameter store read the value.  What the call itself        *)
(* returns, which is all there is when the cache is off, is at most as old *)
(* as the call.                                                            *)
(***************************************************************************)
OldSecretBounded ==
    \A e \in Envs : stale[e] <= MaxFetch \/ stale[e] < Ttl + MaxFetch

(***************************************************************************)
(* The cache that the shared keys and the API key live in never mixes them *)
(* up and never remembers a failure: what it holds for a parameter is a    *)
(* sound content that this very parameter had.  So a new key id is served  *)
(* with its own secret from its first request on.                          *)
(***************************************************************************)
CachedSecretsWereHeld ==
    \A e \in Envs, n \in Names :
        cache[e][n] # None => cache[e][n].value \in Sound[n] \cap held[n]

(***************************************************************************)
(* Whatever is uploaded in place of the model and whenever it is read, an  *)
(* environment predicts with the loadable artifact that its configuration  *)
(* pins and with no other; and a load that failed is not remembered: only  *)
(* an environment without a checksum gives its model up for good.          *)
(***************************************************************************)
ModelIsPinned ==
    \A e \in Envs :
        /\ predicted[e] # None => predicted[e] \in Loadable \cap {config[e].checksum}
        /\ model[e] = "unavailable" => config[e].checksum = None

=============================================================================
