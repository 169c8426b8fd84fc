---------------------- MODULE LambdaEnvironmentProofs ----------------------
(***************************************************************************)
(* What a warm environment keeps of its secrets is never older than the    *)
(* time to live and the fetch allow, and the model that it predicts with   *)
(* is the one that its configuration pins (TtlSecretCache,                 *)
(* _get_secure_parameter, S3MlProvider._load), for any number of           *)
(* environments and parameters.                                            *)
(***************************************************************************)
EXTENDS LambdaEnvironment, TLAPS

(***************************************************************************)
(* TypeOK names the kinds of all variables; a fetch that was answered, and *)
(* a live entry, carry the time for which they can have been out of date.  *)
(***************************************************************************)
Outdated(n, v) == v \in Values /\ v # ssm[n]

FetchYoung(e) ==
    \A n \in Names :
        fetch[e] # None /\ fetch[e].answered /\ fetch[e].name = n
            /\ Outdated(n, fetch[e].value)
        => since[n][fetch[e].value] <= fetch[e].age

EntryYoung(e, n) ==
    Live(cache[e][n]) /\ Outdated(n, cache[e][n].value)
    => since[n][cache[e][n].value] + cache[e][n].left <= Ttl + MaxFetch

Signed == \A e \in Envs : phase[e] = "auth" => request[e] # None

AgeInv ==
    /\ Signed
    /\ \A e \in Envs : FetchYoung(e)
    /\ \A e \in Envs, n \in Names : EntryYoung(e, n)
    /\ OldSecretBounded

LEMMA Numbers ==
    /\ Ttl \in Nat /\ MaxFetch \in Nat /\ MaxWrites \in Nat
    /\ Cap = Ttl + MaxFetch + 1
  BY LambdaEnvironmentAssumption DEF Cap

LEMMA InitType == Init => TypeOK
  BY Numbers DEF Init, TypeOK, Maybe

LEMMA UseSecretType ==
    ASSUME NEW e \in Envs, NEW n \in Names, NEW v \in Values, TypeOK, UseSecret(e, n, v)
    PROVE  /\ stale' \in [Envs -> 0..Cap]
           /\ phase' \in [Envs -> {"cold", "idle", "auth", "ml", "llm"}]
           /\ request' \in [Envs -> Maybe([key: KeyIds, secret: Values])]
  <1>1. stale' \in [Envs -> 0..Cap]
    BY Numbers DEF UseSecret, TypeOK
  <1>2. CASE Answer(e)
    BY <1>1, <1>2 DEF Answer, TypeOK, Maybe
  <1>3. CASE phase' = [phase EXCEPT ![e] = "ml"] /\ request' = request
    BY <1>1, <1>3 DEF TypeOK
  <1> QED
    BY <1>2, <1>3 DEF UseSecret

LEMMA NeededName ==
    ASSUME NEW e \in Envs, TypeOK, Signed
    PROVE  Needed(e) \in Names
  BY DEF Needed, Signed, TypeOK, Names, Maybe

LEMMA StoredType ==
    ASSUME NEW e \in Envs, NEW n \in Names, NEW v \in Values, TypeOK
    PROVE  Stored(cache[e], n, v) \in [Names -> Maybe(Entry)]
  BY Numbers DEF Stored, TypeOK, Maybe, Entry

LEMMA FetchParts ==
    ASSUME NEW e \in Envs, TypeOK, fetch[e] # None
    PROVE  /\ fetch[e] \in Fetch
           /\ fetch[e].name \in Names
           /\ fetch[e].age \in 0..MaxFetch
           /\ fetch[e].value \in Maybe(Values)
  BY DEF TypeOK, Maybe, Fetch

LEMMA EntryParts ==
    ASSUME NEW e \in Envs, NEW n \in Names, TypeOK, cache[e][n] # None
    PROVE  /\ cache[e][n] \in Entry
           /\ cache[e][n].value \in Values
           /\ cache[e][n].left \in 0..Ttl
  BY DEF TypeOK, Maybe, Entry

LEMMA TickType ==
    ASSUME TypeOK, Tick
    PROVE  TypeOK'
  <1>1. since' \in [Names -> [Values -> 0..Cap]]
    BY Numbers DEF TypeOK, Tick, Older
  <1>2. fetch' \in [Envs -> Maybe(Fetch)]
    <2> SUFFICES ASSUME NEW e \in Envs
                 PROVE  (IF fetch[e] = None THEN None
                         ELSE [fetch[e] EXCEPT !.age = @ + 1]) \in Maybe(Fetch)
      BY DEF Tick
    <2>1. CASE fetch[e] = None
      BY <2>1 DEF Maybe
    <2>2. CASE fetch[e] # None
      <3>1. fetch[e] \in Fetch /\ fetch[e].age + 1 \in 0..MaxFetch
        BY <2>2, FetchParts, Numbers DEF Tick
      <3> QED
        BY <2>2, <3>1 DEF Maybe, Fetch
    <2> QED
      BY <2>1, <2>2
  <1>3. cache' \in [Envs -> [Names -> Maybe(Entry)]]
    <2> SUFFICES ASSUME NEW e \in Envs, NEW n \in Names
                 PROVE  (IF cache[e][n] = None \/ cache[e][n].left = 0 THEN cache[e][n]
                         ELSE [cache[e][n] EXCEPT !.left = @ - 1]) \in Maybe(Entry)
      BY DEF Tick
    <2>1. CASE cache[e][n] = None \/ cache[e][n].left = 0
      BY <2>1 DEF TypeOK
    <2>2. CASE ~(cache[e][n] = None \/ cache[e][n].left = 0)
      <3>1. cache[e][n] \in Entry /\ cache[e][n].left - 1 \in 0..Ttl
        BY <2>2, EntryParts, Numbers
      <3> QED
        BY <2>2, <3>1 DEF Maybe, Entry
    <2> QED
      BY <2>1, <2>2
  <1> QED
    BY <1>1, <1>2, <1>3 DEF TypeOK, Tick, history

LEMMA WriteType ==
    ASSUME TypeOK, Write
    PROVE  writes' \in 0..MaxWrites
  BY Numbers DEF TypeOK, Write

LEMMA PredictType ==
    ASSUME NEW e \in Envs, NEW a \in Artifacts, TypeOK, Predict(e, a)
    PROVE  /\ predicted' \in [Envs -> Maybe(Artifacts)]
           /\ phase' \in [Envs -> {"cold", "idle", "auth", "ml", "llm"}]
           /\ request' \in [Envs -> Maybe([key: KeyIds, secret: Values])]
  <1>1. CASE Answer(e)
    BY <1>1 DEF Answer, Predict, TypeOK, Maybe
  <1>2. CASE /\ predicted' = [predicted EXCEPT ![e] = a]
             /\ phase' = [phase EXCEPT ![e] = "llm"]
             /\ request' = request
    BY <1>2 DEF TypeOK, Maybe
  <1> QED
    BY <1>1, <1>2 DEF Predict

LEMMA ProviderType ==
    ASSUME NEW e \in Envs, TypeOK
    PROVE  Provider(e) \in {"none", "unavailable", "unloaded"} \cup Artifacts
  BY DEF Provider, TypeOK

LEMMA StepType ==
    ASSUME TypeOK, Signed, [Next]_vars
    PROVE  TypeOK'
  <1>1. CASE UNCHANGED vars
    BY <1>1 DEF TypeOK, vars, external, parameters, globals, history
  <1>2. ASSUME NEW n \in Names, NEW v \in Maybe(Values), WriteParameter(n, v)
        PROVE  TypeOK'
    <2>1. ssm' \in [Names -> Maybe(Values)] /\ held' \in [Names -> SUBSET Values]
      BY <1>2 DEF WriteParameter, TypeOK, Maybe
    <2>2. since' \in [Names -> [Values -> 0..Cap]]
      BY <1>2, Numbers DEF WriteParameter, TypeOK
    <2> QED
      BY <1>2, <2>1, <2>2, WriteType DEF WriteParameter, TypeOK, globals, history
  <1>3. ASSUME NEW a \in Maybe(Artifacts), WriteObject(a)
        PROVE  TypeOK'
    BY <1>3, WriteType DEF WriteObject, TypeOK, parameters, globals, history
  <1>4. CASE Tick
    BY <1>4, TickType
  <1>5. ASSUME NEW e \in Envs, Recycle(e)
        PROVE  TypeOK'
    BY <1>5, Numbers DEF Recycle, TypeOK, Maybe, external, parameters
  <1>6. ASSUME NEW e \in Envs, NEW c \in Configs, ColdStart(e, c)
        PROVE  TypeOK'
    BY <1>6 DEF ColdStart, TypeOK, Maybe, external, parameters, globals, history
  <1>7. ASSUME NEW e \in Envs, NEW k \in KeyIds, NEW s \in Sound[k], Receive(e, k, s)
        PROVE  TypeOK'
    <2>1. [key |-> k, secret |-> s] \in [key: KeyIds, secret: Values]
      BY LambdaEnvironmentAssumption DEF Names
    <2> QED
      BY <1>7, <2>1, Numbers DEF Receive, TypeOK, Maybe, external, parameters, globals
  <1>8. ASSUME NEW e \in Envs, CacheHit(e)
        PROVE  TypeOK'
    <2>1. Needed(e) \in Names /\ cache[e][Needed(e)].value \in Values
      BY <1>8, NeededName, EntryParts DEF CacheHit, Live
    <2>2. UseSecret(e, Needed(e), cache[e][Needed(e)].value)
      BY <1>8 DEF CacheHit
    <2> QED
      BY <1>8, <2>1, <2>2, UseSecretType DEF CacheHit, TypeOK, external, parameters, globals
  <1>9. ASSUME NEW e \in Envs, CacheMiss(e)
        PROVE  TypeOK'
    <2>1. Needed(e) \in Names
      BY NeededName
    <2>2. [name |-> Needed(e), age |-> 0, answered |-> FALSE, value |-> None] \in Fetch
      BY <2>1, Numbers DEF Fetch, Maybe
    <2>3. cache' \in [Envs -> [Names -> Maybe(Entry)]]
      BY <1>9, <2>1 DEF CacheMiss, TypeOK, Maybe
    <2> QED
      BY <1>9, <2>2, <2>3 DEF CacheMiss, TypeOK, Maybe, external, parameters, history
  <1>10. ASSUME NEW e \in Envs, ParameterRead(e)
         PROVE  TypeOK'
    <2>1. [fetch[e] EXCEPT !.answered = TRUE, !.value = ssm[fetch[e].name]] \in Fetch
      BY <1>10, FetchParts DEF ParameterRead, TypeOK, Fetch
    <2>2. fetch' = [fetch EXCEPT ![e] = [fetch[e] EXCEPT !.answered = TRUE,
                                                         !.value = ssm[fetch[e].name]]]
      BY <1>10 DEF ParameterRead, TypeOK
    <2>3. fetch' \in [Envs -> Maybe(Fetch)]
      BY <2>1, <2>2 DEF TypeOK, Maybe
    <2> QED
      BY <1>10, <2>3 DEF ParameterRead, TypeOK, external, parameters, globals, history
  <1>11. ASSUME NEW e \in Envs, FetchCompletes(e)
         PROVE  TypeOK'
    <2>1. fetch[e].name \in Names /\ fetch[e].value \in Values
      BY <1>11, FetchParts DEF FetchCompletes, Accepted, Maybe
    <2>2. Stored(cache[e], fetch[e].name, fetch[e].value) \in [Names -> Maybe(Entry)]
      BY <2>1, StoredType
    <2>3. cache' \in [Envs -> [Names -> Maybe(Entry)]]
      BY <1>11, <2>2 DEF FetchCompletes, TypeOK
    <2>4. UseSecret(e, fetch[e].name, fetch[e].value)
      BY <1>11 DEF FetchCompletes
    <2> QED
      BY <1>11, <2>1, <2>3, <2>4, UseSecretType
         DEF FetchCompletes, TypeOK, external, parameters, Maybe
  <1>12. ASSUME NEW e \in Envs, FetchFails(e)
         PROVE  TypeOK'
    BY <1>12 DEF FetchFails, Answer, TypeOK, Maybe, external, parameters, globals, history
  <1>13. ASSUME NEW e \in Envs, PredictLoaded(e)
         PROVE  TypeOK'
    BY <1>13, PredictType DEF PredictLoaded, TypeOK, external, parameters, globals
  <1>14. ASSUME NEW e \in Envs, LoadModel(e)
         PROVE  TypeOK'
    <2>1. object \in Artifacts
      BY <1>14 DEF LoadModel, Loads, TypeOK, Maybe
    <2> QED
      BY <1>14, <2>1, PredictType DEF LoadModel, TypeOK, external, parameters
  <1>15. ASSUME NEW e \in Envs, AnswerWithoutModel(e)
         PROVE  TypeOK'
    BY <1>15, ProviderType
       DEF AnswerWithoutModel, Answer, TypeOK, Maybe, external, parameters, history
  <1> QED
    BY <1>1, <1>2, <1>3, <1>4, <1>5, <1>6, <1>7, <1>8, <1>9, <1>10, <1>11, <1>12,
       <1>13, <1>14, <1>15 DEF Next, EnvStep

-----------------------------------------------------------------------------
(* Nothing is older than its time to live allows. *)

\* A secret that is used has aged no more than the invariant says of its copy.
LEMMA UsedYoung ==
    ASSUME NEW e \in Envs, NEW n \in Names, NEW v \in Values, TypeOK,
           OldSecretBounded, UseSecret(e, n, v),
           Outdated(n, v) => \/ since[n][v] <= MaxFetch
                             \/ since[n][v] < Ttl + MaxFetch
    PROVE  OldSecretBounded'
  BY Numbers DEF UseSecret, OldSecretBounded, Outdated, TypeOK

LEMMA WriteParameterYoung ==
    ASSUME TypeOK, AgeInv, NEW n \in Names, NEW v \in Maybe(Values), WriteParameter(n, v)
    PROVE  AgeInv'
  <1>1. ASSUME NEW m \in Names, NEW w \in Values, Outdated(m, w)'
        PROVE  since'[m][w] = 0 \/ (since'[m][w] = since[m][w] /\ Outdated(m, w))
    BY <1>1 DEF WriteParameter, TypeOK, Outdated
  <1>2. UNCHANGED <<fetch, cache, stale, phase, request>>
    BY DEF WriteParameter, globals, history
  <1>3. ASSUME NEW e \in Envs
        PROVE  FetchYoung(e)'
    <2> SUFFICES ASSUME NEW m \in Names, fetch[e] # None, fetch[e].answered,
                        fetch[e].name = m, Outdated(m, fetch[e].value)'
                 PROVE  since'[m][fetch[e].value] <= fetch[e].age
      BY <1>2 DEF FetchYoung, Outdated
    <2>1. fetch[e].value \in Values /\ fetch[e].age \in 0..MaxFetch
      BY <1>2, FetchParts DEF Outdated
    <2>2. since'[m][fetch[e].value] = 0
          \/ (since'[m][fetch[e].value] = since[m][fetch[e].value]
              /\ Outdated(m, fetch[e].value))
      BY <1>1, <1>2, <2>1
    <2> QED
      BY <2>1, <2>2, Numbers DEF AgeInv, FetchYoung
  <1>4. ASSUME NEW e \in Envs, NEW m \in Names
        PROVE  EntryYoung(e, m)'
    <2> SUFFICES ASSUME Live(cache[e][m]), Outdated(m, cache[e][m].value)'
                 PROVE  since'[m][cache[e][m].value] + cache[e][m].left <= Ttl + MaxFetch
      BY <1>2 DEF EntryYoung, Live, Outdated
    <2>1. cache[e][m].value \in Values /\ cache[e][m].left \in 0..Ttl
      BY EntryParts DEF Live
    <2>2. since'[m][cache[e][m].value] = 0
          \/ (since'[m][cache[e][m].value] = since[m][cache[e][m].value]
              /\ Outdated(m, cache[e][m].value))
      BY <1>1, <1>2, <2>1
    <2> QED
      BY <2>1, <2>2, Numbers DEF AgeInv, EntryYoung
  <1> QED
    BY <1>2, <1>3, <1>4 DEF AgeInv, Signed, OldSecretBounded

LEMMA TickYoung ==
    ASSUME TypeOK, AgeInv, Tick
    PROVE  AgeInv'
  <1>1. ASSUME NEW m \in Names, NEW w \in Values
        PROVE  since'[m][w] <= since[m][w] + 1 /\ since[m][w] \in Nat /\ since'[m][w] \in Nat
    BY Numbers DEF Tick, TypeOK, Older
  <1>2. UNCHANGED <<ssm, stale, phase, request>>
    BY DEF Tick, history
  <1>3. ASSUME NEW e \in Envs
        PROVE  FetchYoung(e)'
    <2> SUFFICES ASSUME NEW m \in Names, fetch'[e] # None, fetch'[e].answered,
                        fetch'[e].name = m, Outdated(m, fetch[e].value)'
                 PROVE  since'[m][fetch'[e].value] <= fetch'[e].age
      BY DEF FetchYoung
    <2>1. fetch[e] # None /\ fetch'[e] = [fetch[e] EXCEPT !.age = @ + 1]
      BY DEF Tick
    <2>2. fetch[e] \in Fetch
      BY <2>1, FetchParts
    <2>3. /\ fetch'[e].value = fetch[e].value
          /\ fetch'[e].age = fetch[e].age + 1
          /\ fetch[e].answered /\ fetch[e].name = m
          /\ fetch[e].age \in Nat
      BY <2>1, <2>2, Numbers DEF Fetch
    <2>4. Outdated(m, fetch[e].value)
      BY <1>2, <2>3 DEF Outdated
    <2>5. since[m][fetch[e].value] <= fetch[e].age
      BY <2>1, <2>3, <2>4 DEF AgeInv, FetchYoung
    <2> QED
      BY <1>1, <2>3, <2>4, <2>5 DEF Outdated
  <1>4. ASSUME NEW e \in Envs, NEW m \in Names
        PROVE  EntryYoung(e, m)'
    <2> SUFFICES ASSUME Live(cache'[e][m]), Outdated(m, cache[e][m].value)'
                 PROVE  since'[m][cache'[e][m].value] + cache'[e][m].left <= Ttl + MaxFetch
      BY DEF EntryYoung, Live
    <2>1. cache'[e][m] = IF cache[e][m] = None \/ cache[e][m].left = 0 THEN cache[e][m]
                         ELSE [cache[e][m] EXCEPT !.left = @ - 1]
      BY DEF Tick
    <2>2. cache[e][m] # None /\ cache[e][m].left # 0
      BY <2>1 DEF Live
    <2>3. cache[e][m] \in Entry /\ cache[e][m].left \in 0..Ttl
      BY <2>2, EntryParts
    <2>4. /\ cache'[e][m].value = cache[e][m].value
          /\ cache'[e][m].left = cache[e][m].left - 1
          /\ Live(cache[e][m])
      BY <2>1, <2>2, <2>3, Numbers DEF Entry, Live
    <2>5. Outdated(m, cache[e][m].value)
      BY <1>2, <2>4 DEF Outdated
    <2>6. since[m][cache[e][m].value] + cache[e][m].left <= Ttl + MaxFetch
      BY <2>4, <2>5 DEF AgeInv, EntryYoung
    <2> QED
      BY <1>1, <2>3, <2>4, <2>5, <2>6, Numbers DEF Outdated
  <1> QED
    BY <1>2, <1>3, <1>4 DEF AgeInv, Signed, OldSecretBounded

\* A step of one environment: what it drops or keeps needs no proof.
LEMMA KeptYoung ==
    ASSUME AgeInv, UNCHANGED <<ssm, since>>, Signed', OldSecretBounded',
           \A e \in Envs : fetch'[e] \in {fetch[e], None} \/ FetchYoung(e)',
           \A e \in Envs, n \in Names :
               cache'[e][n] \in {cache[e][n], None} \/ EntryYoung(e, n)'
    PROVE  AgeInv'
  <1>1. \A e \in Envs : FetchYoung(e)'
    BY DEF AgeInv, FetchYoung, Outdated
  <1>2. \A e \in Envs, n \in Names : EntryYoung(e, n)'
    BY DEF AgeInv, EntryYoung, Outdated, Live
  <1> QED
    BY <1>1, <1>2 DEF AgeInv

LEMMA AnswerSigned ==
    ASSUME NEW e \in Envs, TypeOK, Signed, Answer(e)
    PROVE  Signed'
  BY DEF Answer, Signed, TypeOK

LEMMA UseSecretSigned ==
    ASSUME NEW e \in Envs, NEW n, NEW v, TypeOK, Signed, UseSecret(e, n, v)
    PROVE  Signed'
  <1>1. CASE Answer(e)
    BY <1>1, AnswerSigned
  <1>2. CASE phase' = [phase EXCEPT ![e] = "ml"] /\ request' = request
    BY <1>2 DEF Signed, TypeOK
  <1> QED
    BY <1>1, <1>2 DEF UseSecret

LEMMA PredictSigned ==
    ASSUME NEW e \in Envs, NEW a, TypeOK, Signed, Predict(e, a)
    PROVE  Signed'
  <1>1. CASE Answer(e)
    BY <1>1, AnswerSigned
  <1>2. CASE phase' = [phase EXCEPT ![e] = "llm"] /\ request' = request
    BY <1>2 DEF Signed, TypeOK
  <1> QED
    BY <1>1, <1>2 DEF Predict

LEMMA EnvStepYoung ==
    ASSUME TypeOK, AgeInv, NEW e \in Envs, EnvStep(e)
    PROVE  AgeInv'
  <1> USE DEF AgeInv
  <1>1. CASE CacheHit(e)
    <2> DEFINE n == Needed(e)
               v == cache[e][n].value
    <2>1. n \in Names /\ v \in Values /\ cache[e][n].left \in 0..Ttl
      BY <1>1, NeededName, EntryParts DEF CacheHit, Live
    <2>2. Live(cache[e][n]) /\ UseSecret(e, n, v)
      BY <1>1 DEF CacheHit
    <2>3. Outdated(n, v) => since[n][v] < Ttl + MaxFetch
      BY <2>1, <2>2, Numbers DEF EntryYoung, Live, Outdated, TypeOK
    <2>4. Signed' /\ OldSecretBounded'
      <3> HIDE DEF n, v
      <3> QED
        BY <2>1, <2>2, <2>3, UseSecretSigned, UsedYoung
    <2> QED
      BY <1>1, <2>4, KeptYoung DEF CacheHit, external, parameters, globals
  <1>2. CASE CacheMiss(e)
    <2>1. Needed(e) \in Names
      BY NeededName
    <2>2. FetchYoung(e)' /\ \A d \in Envs \ {e} : fetch'[d] = fetch[d]
      BY <1>2 DEF CacheMiss, FetchYoung, TypeOK
    <2>3. \A d \in Envs, n \in Names : cache'[d][n] \in {cache[d][n], None}
      BY <1>2, <2>1 DEF CacheMiss, TypeOK
    <2>4. Signed' /\ OldSecretBounded'
      BY <1>2 DEF CacheMiss, Signed, OldSecretBounded, history
    <2> QED
      BY <1>2, <2>2, <2>3, <2>4, KeptYoung DEF CacheMiss, external, parameters
  <1>3. CASE ParameterRead(e)
    <2>1. /\ fetch'[e].value = ssm[fetch[e].name]
          /\ fetch'[e].name = fetch[e].name
      BY <1>3, FetchParts DEF ParameterRead, TypeOK, Fetch
    <2>2. FetchYoung(e)' /\ \A d \in Envs \ {e} : fetch'[d] = fetch[d]
      BY <1>3, <2>1 DEF ParameterRead, FetchYoung, Outdated, TypeOK, external, parameters
    <2>3. Signed' /\ OldSecretBounded'
      BY <1>3 DEF ParameterRead, Signed, OldSecretBounded, history
    <2> QED
      BY <1>3, <2>2, <2>3, KeptYoung DEF ParameterRead, external, parameters, globals
  <1>4. CASE FetchCompletes(e)
    <2> DEFINE n == fetch[e].name
               v == fetch[e].value
    <2>1. n \in Names /\ v \in Values /\ fetch[e].age \in 0..MaxFetch
      BY <1>4, FetchParts DEF FetchCompletes, Accepted, Maybe
    <2>2. UseSecret(e, n, v)
      BY <1>4 DEF FetchCompletes
    <2>3. Outdated(n, v) => since[n][v] <= fetch[e].age
      BY <1>4, <2>1 DEF FetchCompletes, FetchYoung
    <2>4. Outdated(n, v) => since[n][v] <= MaxFetch
      BY <2>1, <2>3, Numbers DEF TypeOK, Outdated
    <2>5. Signed' /\ OldSecretBounded'
      <3> HIDE DEF n, v
      <3> QED
        BY <2>1, <2>2, <2>4, UseSecretSigned, UsedYoung
    <2>6. ASSUME NEW d \in Envs, NEW m \in Names
          PROVE  cache'[d][m] \in {cache[d][m], None} \/ EntryYoung(d, m)'
      <3>1. CASE d = e /\ m = n /\ Ttl > 0
        <4>1. cache'[d][m] = [value |-> v, left |-> Ttl]
          BY <1>4, <3>1 DEF FetchCompletes, Stored, TypeOK
        <4>2. UNCHANGED <<ssm, since>>
          BY <1>4 DEF FetchCompletes, external, parameters
        <4> QED
          BY <2>1, <2>4, <3>1, <4>1, <4>2, Numbers DEF EntryYoung, Outdated, TypeOK
      <3>2. CASE ~(d = e /\ m = n /\ Ttl > 0)
        BY <1>4, <3>2 DEF FetchCompletes, Stored, TypeOK
      <3> QED
        BY <3>1, <3>2
    <2>7. \A d \in Envs : fetch'[d] \in {fetch[d], None}
      BY <1>4 DEF FetchCompletes, TypeOK
    <2> QED
      BY <1>4, <2>5, <2>6, <2>7, KeptYoung DEF FetchCompletes, external, parameters
  <1>5. CASE FetchFails(e)
    <2>1. \A d \in Envs : fetch'[d] \in {fetch[d], None}
      BY <1>5 DEF FetchFails, TypeOK
    <2>2. Signed' /\ OldSecretBounded'
      BY <1>5, AnswerSigned DEF FetchFails, OldSecretBounded, history
    <2> QED
      BY <1>5, <2>1, <2>2, KeptYoung DEF FetchFails, external, parameters, globals
  <1>6. CASE PredictLoaded(e)
    <2>1. Signed' /\ OldSecretBounded'
      BY <1>6, PredictSigned DEF PredictLoaded, OldSecretBounded
    <2> QED
      BY <1>6, <2>1, KeptYoung DEF PredictLoaded, external, parameters, globals
  <1>7. CASE LoadModel(e)
    <2>1. Signed' /\ OldSecretBounded'
      BY <1>7, PredictSigned DEF LoadModel, OldSecretBounded
    <2> QED
      BY <1>7, <2>1, KeptYoung DEF LoadModel, external, parameters
  <1>8. CASE AnswerWithoutModel(e)
    <2>1. Signed' /\ OldSecretBounded'
      BY <1>8, AnswerSigned DEF AnswerWithoutModel, OldSecretBounded, history
    <2> QED
      BY <1>8, <2>1, KeptYoung DEF AnswerWithoutModel, external, parameters
  <1> QED
    BY <1>1, <1>2, <1>3, <1>4, <1>5, <1>6, <1>7, <1>8 DEF EnvStep

LEMMA StepYoung ==
    ASSUME TypeOK, AgeInv, [Next]_vars
    PROVE  AgeInv'
  <1>1. CASE UNCHANGED vars
    BY <1>1 DEF vars, external, parameters, globals, history, AgeInv, Signed,
                FetchYoung, EntryYoung, Outdated, Live, OldSecretBounded
  <1>2. ASSUME NEW n \in Names, NEW v \in Maybe(Values), WriteParameter(n, v)
        PROVE  AgeInv'
    BY <1>2, WriteParameterYoung
  <1>3. ASSUME NEW a \in Maybe(Artifacts), WriteObject(a)
        PROVE  AgeInv'
    BY <1>3, KeptYoung
       DEF WriteObject, AgeInv, Signed, OldSecretBounded, parameters, globals, history
  <1>4. CASE Tick
    BY <1>4, TickYoung
  <1>5. ASSUME NEW e \in Envs, Recycle(e)
        PROVE  AgeInv'
    <2>1. Signed' /\ OldSecretBounded'
      BY <1>5, Numbers DEF Recycle, AgeInv, Signed, OldSecretBounded, TypeOK
    <2>2. \A d \in Envs : fetch'[d] \in {fetch[d], None}
      BY <1>5 DEF Recycle, TypeOK
    <2>3. \A d \in Envs, n \in Names : cache'[d][n] \in {cache[d][n], None}
      BY <1>5 DEF Recycle, TypeOK
    <2> QED
      BY <1>5, <2>1, <2>2, <2>3, KeptYoung DEF Recycle, external, parameters
  <1>6. ASSUME NEW e \in Envs, NEW c \in Configs, ColdStart(e, c)
        PROVE  AgeInv'
    <2>1. Signed' /\ OldSecretBounded'
      BY <1>6 DEF ColdStart, AgeInv, Signed, OldSecretBounded, TypeOK, history
    <2> QED
      BY <1>6, <2>1, KeptYoung DEF ColdStart, external, parameters, globals
  <1>7. ASSUME NEW e \in Envs, NEW k \in KeyIds, NEW s \in Sound[k], Receive(e, k, s)
        PROVE  AgeInv'
    <2>1. OldSecretBounded'
      BY <1>7, Numbers DEF Receive, AgeInv, OldSecretBounded, TypeOK
    <2>2. Signed'
      <3>1. [key |-> k, secret |-> s] \in [key: KeyIds, secret: Values]
        BY LambdaEnvironmentAssumption DEF Names
      <3>2. [key |-> k, secret |-> s] # None
        BY <3>1, LambdaEnvironmentAssumption
      <3> QED
        BY <1>7, <3>2 DEF Receive, AgeInv, Signed, TypeOK
    <2> QED
      BY <1>7, <2>1, <2>2, KeptYoung DEF Receive, external, parameters, globals
  <1>8. ASSUME NEW e \in Envs, EnvStep(e)
        PROVE  AgeInv'
    BY <1>8, EnvStepYoung
  <1> QED
    BY <1>1, <1>2, <1>3, <1>4, <1>5, <1>6, <1>7, <1>8 DEF Next

LEMMA InitYoung == Init => TypeOK /\ AgeInv
  <1>1. Init => AgeInv
    BY Numbers DEF Init, AgeInv, Signed, FetchYoung, EntryYoung, Live, OldSecretBounded
  <1> QED
    BY <1>1, InitType

\* TypeOK is inductive only with Signed: an environment needs the name of a parameter.
LEMMA StepTypeYoung == TypeOK /\ AgeInv /\ [Next]_vars => (TypeOK /\ AgeInv)'
  BY StepType, StepYoung DEF AgeInv

\* In every reachable state every variable holds a value of its kind.
THEOREM TypeCorrect == Spec => []TypeOK
  BY InitYoung, StepTypeYoung, PTL DEF Spec

(***************************************************************************)
(* Every variable keeps its kind; no secret is used for longer after it    *)
(* was overwritten or deleted than its time to live and its own fetch      *)
(* allow, for every choice of the two.                                     *)
(***************************************************************************)
THEOREM OldSecretsDie == Spec => [](TypeOK /\ OldSecretBounded)
  <1>1. TypeOK /\ AgeInv => TypeOK /\ OldSecretBounded
    BY DEF AgeInv
  <1> QED
    BY <1>1, InitYoung, StepTypeYoung, PTL DEF Spec

-----------------------------------------------------------------------------
(* What is cached for a parameter was a content of that parameter. *)

(***************************************************************************)
(* CachedSecretsWereHeld needs the same of the answers that are on their   *)
(* way, and that the history of a parameter includes its current content.  *)
(***************************************************************************)
FetchHeld(e) ==
    fetch[e] # None /\ fetch[e].value # None => fetch[e].value \in held[fetch[e].name]

EntryHeld(e, n) ==
    cache[e][n] # None => cache[e][n].value \in Sound[n] \cap held[n]

HeldInv ==
    /\ \A n \in Names : ssm[n] # None => ssm[n] \in held[n]
    /\ \A e \in Envs : FetchHeld(e)
    /\ \A e \in Envs, n \in Names : EntryHeld(e, n)

\* A step that changes no parameter, and only adds answers and entries that were held.
LEMMA KeptHeld ==
    ASSUME HeldInv, UNCHANGED parameters,
           \A e \in Envs : fetch'[e] \in {fetch[e], None} \/ FetchHeld(e)',
           \A e \in Envs, n \in Names :
               cache'[e][n] \in {cache[e][n], None} \/ EntryHeld(e, n)'
    PROVE  HeldInv'
  <1>1. \A e \in Envs : FetchHeld(e)'
    BY DEF HeldInv, FetchHeld, parameters
  <1>2. \A e \in Envs, n \in Names : EntryHeld(e, n)'
    BY DEF HeldInv, EntryHeld, parameters
  <1> QED
    BY <1>1, <1>2 DEF HeldInv, parameters

LEMMA WriteParameterHeld ==
    ASSUME TypeOK, HeldInv, NEW n \in Names, NEW v \in Maybe(Values), WriteParameter(n, v)
    PROVE  HeldInv'
  <1>1. \A m \in Names : held[m] \subseteq held'[m]
    BY DEF WriteParameter, TypeOK
  <1>2. \A m \in Names : ssm'[m] # None => ssm'[m] \in held'[m]
    BY <1>1 DEF WriteParameter, TypeOK, HeldInv
  <1>3. \A e \in Envs : FetchHeld(e)'
    BY <1>1, FetchParts DEF WriteParameter, HeldInv, FetchHeld
  <1>4. \A e \in Envs, m \in Names : EntryHeld(e, m)'
    BY <1>1 DEF WriteParameter, HeldInv, EntryHeld, globals
  <1> QED
    BY <1>2, <1>3, <1>4 DEF HeldInv

LEMMA TickHeld ==
    ASSUME TypeOK, HeldInv, Tick
    PROVE  HeldInv'
  <1>1. ASSUME NEW e \in Envs
        PROVE  FetchHeld(e)'
    <2>1. fetch[e] # None => /\ fetch'[e].value = fetch[e].value
                             /\ fetch'[e].name = fetch[e].name
      BY FetchParts DEF Tick, Fetch
    <2>2. fetch[e] = None => fetch'[e] = None
      BY DEF Tick
    <2> QED
      BY <2>1, <2>2 DEF HeldInv, FetchHeld, Tick
  <1>2. ASSUME NEW e \in Envs, NEW n \in Names
        PROVE  EntryHeld(e, n)'
    <2>1. cache'[e][n] = IF cache[e][n] = None \/ cache[e][n].left = 0 THEN cache[e][n]
                         ELSE [cache[e][n] EXCEPT !.left = @ - 1]
      BY DEF Tick
    <2>2. cache[e][n] # None => cache'[e][n].value = cache[e][n].value
      BY <2>1, EntryParts DEF Entry
    <2>3. cache[e][n] = None => cache'[e][n] = None
      BY <2>1
    <2> QED
      BY <2>2, <2>3 DEF HeldInv, EntryHeld, Tick
  <1> QED
    BY <1>1, <1>2 DEF HeldInv, Tick

LEMMA EnvStepHeld ==
    ASSUME TypeOK, Signed, HeldInv, NEW e \in Envs, EnvStep(e)
    PROVE  HeldInv'
  <1>1. CASE CacheMiss(e)
    <2>1. Needed(e) \in Names
      BY NeededName
    <2>2. FetchHeld(e)' /\ \A d \in Envs \ {e} : fetch'[d] = fetch[d]
      BY <1>1 DEF CacheMiss, FetchHeld, TypeOK
    <2>3. \A d \in Envs, n \in Names : cache'[d][n] \in {cache[d][n], None}
      BY <1>1, <2>1 DEF CacheMiss, TypeOK
    <2> QED
      BY <1>1, <2>2, <2>3, KeptHeld DEF CacheMiss, external
  <1>2. CASE ParameterRead(e)
    <2>1. /\ fetch'[e].value = ssm[fetch[e].name]
          /\ fetch'[e].name = fetch[e].name
          /\ fetch[e].name \in Names
      BY <1>2, FetchParts DEF ParameterRead, TypeOK, Fetch
    <2>2. FetchHeld(e)' /\ \A d \in Envs \ {e} : fetch'[d] = fetch[d]
      BY <1>2, <2>1 DEF ParameterRead, FetchHeld, HeldInv, TypeOK, external, parameters
    <2> QED
      BY <1>2, <2>2, KeptHeld DEF ParameterRead, external, globals
  <1>3. CASE FetchCompletes(e)
    <2> DEFINE n == fetch[e].name
               v == fetch[e].value
    <2>1. n \in Names /\ v \in Sound[n] \cap held[n]
      BY <1>3, FetchParts DEF FetchCompletes, Accepted, HeldInv, FetchHeld
    <2>2. ASSUME NEW d \in Envs, NEW m \in Names
          PROVE  cache'[d][m] \in {cache[d][m], None} \/ EntryHeld(d, m)'
      <3>1. CASE d = e /\ m = n /\ Ttl > 0
        <4>1. cache'[d][m] = [value |-> v, left |-> Ttl]
          BY <1>3, <3>1 DEF FetchCompletes, Stored, TypeOK
        <4>2. UNCHANGED held
          BY <1>3 DEF FetchCompletes, external, parameters
        <4> QED
          BY <2>1, <3>1, <4>1, <4>2 DEF EntryHeld
      <3>2. CASE ~(d = e /\ m = n /\ Ttl > 0)
        BY <1>3, <3>2 DEF FetchCompletes, Stored, TypeOK
      <3> QED
        BY <3>1, <3>2
    <2>3. \A d \in Envs : fetch'[d] \in {fetch[d], None}
      BY <1>3 DEF FetchCompletes, TypeOK
    <2> QED
      BY <1>3, <2>2, <2>3, KeptHeld DEF FetchCompletes, external
  <1>4. CASE FetchFails(e)
    <2>1. \A d \in Envs : fetch'[d] \in {fetch[d], None}
      BY <1>4 DEF FetchFails, TypeOK
    <2> QED
      BY <1>4, <2>1, KeptHeld DEF FetchFails, external, globals
  <1>5. CASE CacheHit(e) \/ PredictLoaded(e)
    BY <1>5, KeptHeld DEF CacheHit, PredictLoaded, external, globals
  <1>6. CASE LoadModel(e) \/ AnswerWithoutModel(e)
    BY <1>6, KeptHeld DEF LoadModel, AnswerWithoutModel, external
  <1> QED
    BY <1>1, <1>2, <1>3, <1>4, <1>5, <1>6 DEF EnvStep

LEMMA StepHeld ==
    ASSUME TypeOK, Signed, HeldInv, [Next]_vars
    PROVE  HeldInv'
  <1>1. CASE UNCHANGED <<parameters, cache, fetch>>
    BY <1>1, KeptHeld
  <1>2. ASSUME NEW n \in Names, NEW v \in Maybe(Values), WriteParameter(n, v)
        PROVE  HeldInv'
    BY <1>2, WriteParameterHeld
  <1>3. CASE Tick
    BY <1>3, TickHeld
  <1>4. ASSUME NEW e \in Envs, Recycle(e)
        PROVE  HeldInv'
    <2>1. /\ \A d \in Envs : fetch'[d] \in {fetch[d], None}
          /\ \A d \in Envs, n \in Names : cache'[d][n] \in {cache[d][n], None}
      BY <1>4 DEF Recycle, TypeOK
    <2> QED
      BY <1>4, <2>1, KeptHeld DEF Recycle, external
  <1>5. ASSUME NEW e \in Envs, EnvStep(e)
        PROVE  HeldInv'
    BY <1>5, EnvStepHeld
  <1>6. ASSUME NEW a \in Maybe(Artifacts), WriteObject(a)
        PROVE  HeldInv'
    BY <1>1, <1>6 DEF WriteObject, globals
  <1>7. ASSUME NEW e \in Envs, NEW c \in Configs, ColdStart(e, c)
        PROVE  HeldInv'
    BY <1>1, <1>7 DEF ColdStart, external, globals
  <1>8. ASSUME NEW e \in Envs, NEW k \in KeyIds, NEW s \in Sound[k], Receive(e, k, s)
        PROVE  HeldInv'
    BY <1>1, <1>8 DEF Receive, external, globals
  <1>9. CASE UNCHANGED vars
    BY <1>1, <1>9 DEF vars, external, globals
  <1> QED
    BY <1>2, <1>3, <1>4, <1>5, <1>6, <1>7, <1>8, <1>9 DEF Next

(***************************************************************************)
(* The cache never mixes parameters up and never remembers a failure: what *)
(* it holds for a parameter passed that parameter's validator and was one  *)
(* of its contents (_get_secure_parameter, TtlSecretCache).                *)
(***************************************************************************)
THEOREM CacheIsFaithful == Spec => []CachedSecretsWereHeld
  <1>1. Init => HeldInv
    BY DEF Init, HeldInv, FetchHeld, EntryHeld
  <1>2. TypeOK /\ AgeInv /\ HeldInv /\ [Next]_vars => HeldInv'
    BY StepHeld DEF AgeInv
  <1>3. HeldInv => CachedSecretsWereHeld
    BY DEF HeldInv, EntryHeld, CachedSecretsWereHeld
  <1> QED
    BY <1>1, <1>2, <1>3, InitYoung, StepTypeYoung, PTL DEF Spec

-----------------------------------------------------------------------------
(* Predictions are made by the pinned model. *)

(***************************************************************************)
(* ModelIsPinned needs that the loaded model is the pinned one, and that a *)
(* cold environment, whose configuration is about to be chosen, has none.  *)
(***************************************************************************)
Pinned(e) == Loadable \cap {config[e].checksum}

PinInv ==
    \A e \in Envs :
        /\ phase[e] = "cold" => model[e] = "none" /\ predicted[e] = None
        /\ model[e] \in Artifacts => model[e] \in Pinned(e)
        /\ model[e] = "unavailable" => config[e].checksum = None
        /\ predicted[e] # None => predicted[e] \in Pinned(e)

LEMMA PredictPinned ==
    ASSUME NEW e \in Envs, NEW a \in Pinned(e), TypeOK, PinInv, Predict(e, a),
           config' = config, model' \in {model, [model EXCEPT ![e] = a]}, phase[e] = "ml"
    PROVE  PinInv'
  <1>1. /\ \A d \in Envs \ {e} : /\ phase'[d] = phase[d] /\ model'[d] = model[d]
                                 /\ predicted'[d] = predicted[d]
        /\ model'[e] \in {model[e], a}
        /\ predicted'[e] \in {predicted[e], a}
        /\ phase'[e] # "cold"
    BY DEF Predict, Answer, TypeOK
  <1>2. a \in Artifacts
    BY LambdaEnvironmentAssumption DEF Pinned
  <1>3. a # "unavailable"
    BY <1>2, LambdaEnvironmentAssumption
  <1> QED
    BY <1>1, <1>3 DEF PinInv, Pinned

LEMMA ProviderPinned ==
    ASSUME NEW e \in Envs, TypeOK, PinInv
    PROVE  /\ Provider(e) \in Artifacts => Provider(e) \in Pinned(e)
           /\ Provider(e) = "unavailable" => config[e].checksum = None
  <1>1. {"none", "unavailable", "unloaded"} \cap Artifacts = {}
    BY LambdaEnvironmentAssumption
  <1> QED
    BY <1>1 DEF PinInv, Provider

LEMMA UsePinned ==
    ASSUME NEW e \in Envs, NEW n, NEW v, TypeOK, PinInv, UseSecret(e, n, v),
           UNCHANGED <<config, model, predicted>>
    PROVE  PinInv'
  <1>1. /\ \A d \in Envs \ {e} : phase'[d] = phase[d]
        /\ phase'[e] # "cold"
    BY DEF UseSecret, Answer, TypeOK
  <1> QED
    BY <1>1 DEF PinInv, Pinned

LEMMA StepPinned ==
    ASSUME TypeOK, PinInv, [Next]_vars
    PROVE  PinInv'
  <1>1. CASE UNCHANGED <<phase, config, model, predicted>>
    BY <1>1 DEF PinInv, Pinned
  <1>2. ASSUME NEW e \in Envs, Recycle(e)
        PROVE  PinInv'
    BY <1>2, LambdaEnvironmentAssumption DEF Recycle, PinInv, Pinned, TypeOK
  <1>3. ASSUME NEW e \in Envs, NEW c \in Configs, ColdStart(e, c)
        PROVE  PinInv'
    BY <1>3, LambdaEnvironmentAssumption
       DEF ColdStart, PinInv, Pinned, TypeOK, globals, history
  <1>4. ASSUME NEW e \in Envs, NEW k \in KeyIds, NEW s \in Sound[k], Receive(e, k, s)
        PROVE  PinInv'
    BY <1>4 DEF Receive, PinInv, Pinned, TypeOK, globals
  <1>5. ASSUME NEW e \in Envs, CacheHit(e) \/ FetchCompletes(e)
        PROVE  PinInv'
    BY <1>5, UsePinned DEF CacheHit, FetchCompletes, globals
  <1>6. ASSUME NEW e \in Envs, FetchFails(e)
        PROVE  PinInv'
    BY <1>6 DEF FetchFails, Answer, PinInv, Pinned, TypeOK, globals, history
  <1>7. ASSUME NEW e \in Envs, PredictLoaded(e)
        PROVE  PinInv'
    BY <1>7, ProviderPinned, PredictPinned DEF PredictLoaded, globals
  <1>8. ASSUME NEW e \in Envs, LoadModel(e)
        PROVE  PinInv'
    BY <1>8, PredictPinned DEF LoadModel, Loads, Pinned
  <1>9. ASSUME NEW e \in Envs, AnswerWithoutModel(e)
        PROVE  PinInv'
    BY <1>9, ProviderPinned
       DEF AnswerWithoutModel, Answer, PinInv, Pinned, TypeOK, history
  <1>10. ASSUME NEW e \in Envs, CacheMiss(e) \/ ParameterRead(e)
         PROVE  PinInv'
    BY <1>1, <1>10 DEF CacheMiss, ParameterRead, globals, history
  <1>11. ASSUME NEW n \in Names, NEW v \in Maybe(Values), WriteParameter(n, v)
         PROVE  PinInv'
    BY <1>1, <1>11 DEF WriteParameter, globals, history
  <1>12. ASSUME NEW a \in Maybe(Artifacts), WriteObject(a)
         PROVE  PinInv'
    BY <1>1, <1>12 DEF WriteObject, globals, history
  <1>13. CASE Tick
    BY <1>1, <1>13 DEF Tick, history
  <1>14. CASE UNCHANGED vars
    BY <1>1, <1>14 DEF vars, globals, history
  <1> QED
    BY <1>2, <1>3, <1>4, <1>5, <1>6, <1>7, <1>8, <1>9, <1>10, <1>11, <1>12, <1>13,
       <1>14 DEF Next, EnvStep

(***************************************************************************)
(* Whatever operators upload and whenever it is read, an environment uses  *)
(* no model but the loadable one that its configuration pins.              *)
(***************************************************************************)
THEOREM ModelPinned == Spec => []ModelIsPinned
  <1>1. Init => TypeOK /\ AgeInv /\ PinInv
    <2>1. Init => PinInv
      <3>1. "none" \notin Artifacts
        BY LambdaEnvironmentAssumption
      <3> QED
        BY <3>1 DEF Init, PinInv
    <2> QED
      BY <2>1, InitYoung
  <1>2. TypeOK /\ AgeInv /\ PinInv /\ [Next]_vars => (TypeOK /\ AgeInv /\ PinInv)'
    BY StepTypeYoung, StepPinned
  <1>3. PinInv => ModelIsPinned
    BY DEF PinInv, Pinned, ModelIsPinned
  <1> QED
    BY <1>1, <1>2, <1>3, PTL DEF Spec

=============================================================================
