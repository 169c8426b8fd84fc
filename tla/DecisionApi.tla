----------------------------- MODULE DecisionApi -----------------------------
(***************************************************************************)
(* POST /v1/trade-decisions: concurrent Lambda invocations that share one  *)
(* DynamoDB table (handler.lambda_handler, DecisionService.decide,         *)
(* DynamoRepository).  One action per call that leaves the process: to     *)
(* DynamoDB, to the ML model, to the LLM provider.                         *)
(***************************************************************************)
EXTENDS SignedRequest

CONSTANTS
    RequestIds,         \* the request_id that a body carries is one of these
    ResponseTtl,        \* RESPONSE_TTL_SECONDS
    DecisionDeadline,   \* DECISION_DEADLINE_SECONDS
    LlmTimeout,         \* LLM_TIMEOUT_SECONDS
    LlmReserve,         \* LLM_DEADLINE_RESERVE_SECONDS
    KeyFetchMax,        \* bound: how long get_api_key may take before the LLM call
    ShadowMode          \* LLM_SHADOW_MODE

ASSUME DecisionApiAssumption ==
    /\ \A b \in Bodies : b.request \in RequestIds
    /\ ResponseTtl \in Nat
    /\ DecisionDeadline \in Nat
    /\ LlmTimeout \in Nat
    /\ LlmReserve \in Nat
    /\ KeyFetchMax \in Nat
    /\ ShadowMode \in BOOLEAN

VARIABLES
    decisions,   \* the table's REQUEST#/DECISION items: request id -> item, or None
    work         \* what decide() holds in its local variables, per invocation

vars == <<authVars, decisions, work>>

RequestId(c) == calls[c].msg.body.request
HashOf(c) == BodyHash(calls[c].msg)

MlStatuses == {"PASSED", "REJECTED", "ERROR"}
LlmStatuses == {"NOT_CALLED", "ALLOW", "VETO", "ERROR"}

Response == [request: RequestIds, decision: {"ALLOW", "VETO"}, ml: MlStatuses,
             llm: LlmStatuses, created: Nat]

Item == [hash: Bodies \X Int, response: Response]

ASSUME NoneIsNoItem == None \notin Item

Reply == [status: Errors] \cup [status: {"OK"}, item: Item]

ASSUME NoneIsNoReply == None \notin Reply

\* checked: the deadline was checked; called, ended: the provider was called, answered.
Work == [created: Nat, ml: MlStatuses, llm: LlmStatuses, checked: Nat,
         called: Nat, ended: Nat]

Steps == AuthSteps \cup {"handle", "ml", "key", "llm", "save", "reread"}

Init ==
    /\ SignedInit
    /\ decisions = [r \in RequestIds |-> None]
    /\ work = [c \in Calls |-> [created |-> 0, ml |-> "ERROR", llm |-> "NOT_CALLED",
                                checked |-> 0, called |-> 0, ended |-> 0]]

-----------------------------------------------------------------------------

\* A response read back is told to the client only if it was made for the same body.
TellStored(c) ==
    LET item == decisions[RequestId(c)]
    IN  IF item # None /\ item.hash = HashOf(c)
        THEN Finish(c, [status |-> "OK", item |-> item])
        ELSE Refuse(c, "CONFLICT")

\* The consistent read at the start of decide(); created_at is taken after it.
Lookup(c) ==
    /\ At(c, "handle")
    /\ calls[c].msg.bodyTs = calls[c].msg.ts
    /\ \/ /\ decisions[RequestId(c)] # None
          /\ TellStored(c)
          /\ UNCHANGED work
       \/ /\ decisions[RequestId(c)] = None
          /\ Goto(c, "ml")
          /\ work' = [work EXCEPT ![c].created = clock]
          /\ UNCHANGED replies
       \/ /\ Refuse(c, "INTERNAL_ERROR")
          /\ UNCHANGED work
    /\ UNCHANGED <<clock, nonces, decisions>>

LlmFitsIgnoringTimeout(c) ==
    calls[c].started + DecisionDeadline - clock >= LlmReserve

\* remaining_seconds(): until the deadline, or until Lambda's timeout if that is sooner.
LlmFits(c) ==
    /\ calls[c].started + DecisionDeadline - clock >= LlmTimeout + LlmReserve
    /\ calls[c].started + LambdaTimeout - clock >= LlmTimeout + LlmReserve

\* The ML verdict; only a pass goes on to the LLM, and only if its time fits.
Predict(c) ==
    /\ At(c, "ml")
    /\ \E verdict \in MlStatuses :
         IF verdict = "PASSED" /\ LlmFits(c)
         THEN /\ Goto(c, "key")
              /\ work' = [work EXCEPT ![c].ml = verdict, ![c].checked = clock]
         ELSE /\ Goto(c, "save")
              /\ work' = [work EXCEPT ![c].ml = verdict,
                            ![c].llm = IF verdict = "PASSED" THEN "ERROR" ELSE "NOT_CALLED"]
    /\ UNCHANGED <<clock, nonces, decisions, replies>>

\* get_api_key may ask SSM; the provider's own timer starts only after it.
CallLlm(c) ==
    /\ At(c, "key")
    /\ \/ /\ Goto(c, "llm")
          /\ work' = [work EXCEPT ![c].called = clock]
       \/ /\ Goto(c, "save")
          /\ work' = [work EXCEPT ![c].llm = "ERROR"]
    /\ UNCHANGED <<clock, nonces, decisions, replies>>

WithinTimeout(c) == clock - work[c].called <= LlmTimeout

\* A verdict counts only if the whole call took LlmTimeout at most.
LlmReturns(c) ==
    /\ At(c, "llm")
    /\ \E verdict \in {"ALLOW", "VETO", "ERROR"} :
         /\ verdict \in {"ALLOW", "VETO"} => WithinTimeout(c)
         /\ work' = [work EXCEPT ![c].llm = verdict, ![c].ended = clock]
    /\ Goto(c, "save")
    /\ UNCHANGED <<clock, nonces, decisions, replies>>

FinalDecisionUnchecked(w) == w.llm

FinalDecision(w) ==
    IF \/ w.ml = "PASSED" /\ w.llm = "ALLOW"
       \/ w.ml = "PASSED" /\ w.llm = "VETO" /\ ShadowMode
    THEN "ALLOW"
    ELSE "VETO"

ResponseOf(c) ==
    [request |-> RequestId(c), decision |-> FinalDecision(work[c]),
     ml |-> work[c].ml, llm |-> work[c].llm, created |-> work[c].created]

SaveUnconditionally(c) ==
    LET item == [hash |-> HashOf(c), response |-> ResponseOf(c)]
    IN  /\ At(c, "save")
        /\ decisions' = [decisions EXCEPT ![RequestId(c)] = item]
        /\ Finish(c, [status |-> "OK", item |-> item])
        /\ UNCHANGED <<clock, nonces, work>>

SaveBestEffort(c) ==
    LET item == [hash |-> HashOf(c), response |-> ResponseOf(c)]
    IN  /\ At(c, "save")
        /\ \/ decisions' = [decisions EXCEPT ![RequestId(c)] = item]
           \/ UNCHANGED decisions
        /\ Finish(c, [status |-> "OK", item |-> item])
        /\ UNCHANGED <<clock, nonces, work>>

(***************************************************************************)
(* The conditional put of the decision, with the same possible failures as *)
(* ClaimNonce: none, refused because an item exists, failed without        *)
(* effect, or written with its acknowledgement lost (then the AWS client   *)
(* gives up, or retries and is refused by its own item).                   *)
(***************************************************************************)
Save(c) ==
    LET r == RequestId(c)
        item == [hash |-> HashOf(c), response |-> ResponseOf(c)]
        Write == decisions' = [decisions EXCEPT ![r] = item]
    IN  /\ At(c, "save")
        /\ \/ /\ decisions[r] = None
              /\ Write
              /\ Finish(c, [status |-> "OK", item |-> item])
           \/ /\ decisions[r] # None
              /\ Goto(c, "reread")
              /\ UNCHANGED <<decisions, replies>>
           \/ /\ decisions[r] = None
              /\ Write
              /\ \/ Goto(c, "reread") /\ UNCHANGED replies
                 \/ Refuse(c, "INTERNAL_ERROR")
           \/ /\ Refuse(c, "INTERNAL_ERROR")
              /\ UNCHANGED decisions
        /\ UNCHANGED <<clock, nonces, work>>

RereadTellingOwn(c) ==
    /\ At(c, "reread")
    /\ Finish(c, [status |-> "OK", item |-> [hash |-> HashOf(c), response |-> ResponseOf(c)]])
    /\ UNCHANGED <<clock, nonces, decisions, work>>

\* After a refused put the decision on record wins over the one just made.
Reread(c) ==
    /\ At(c, "reread")
    /\ TellStored(c) \/ Refuse(c, "INTERNAL_ERROR")
    /\ UNCHANGED <<clock, nonces, decisions, work>>

DecideStep(c) == Lookup(c) \/ Predict(c) \/ CallLlm(c) \/ LlmReturns(c) \/ Save(c) \/ Reread(c)

Tick ==
    /\ clock < MaxClock
    /\ \A c \in Calls : calls[c].pc = "key" => clock - work[c].checked < KeyFetchMax
    /\ clock' = clock + 1
    /\ UNCHANGED <<nonces, calls, replies, decisions, work>>

ServerStep(available) ==
    \/ \E c \in Calls, m \in available : Receive(c, m) /\ UNCHANGED <<decisions, work>>
    \/ \E c \in Calls : AuthStep(c) /\ UNCHANGED <<decisions, work>>
    \/ \E c \in Calls : DecideStep(c)
    \/ \E n \in Nonces : ExpireNonce(n) /\ UNCHANGED <<decisions, work>>

\* Any message may arrive at any time, any number of times.
Next == ServerStep(Messages) \/ Tick

Spec == Init /\ [][Next]_vars

-----------------------------------------------------------------------------
(* Properties *)

\* Every variable holds a value of the kind the code keeps there.
TypeOK ==
    /\ clock \in Nat
    /\ nonces \in [Nonces -> Int \cup {None}]
    /\ calls \in [Calls -> [pc: Steps, msg: Messages \cup {None}, started: Nat, now: Nat,
                            claimed: BOOLEAN]]
    /\ \A c \in Calls : calls[c].pc # "idle" => calls[c].msg \in Messages
    /\ replies \in [Calls -> Reply \cup {None}]
    /\ decisions \in [RequestIds -> Item \cup {None}]
    /\ work \in [Calls -> Work]

(***************************************************************************)
(* Whoever got a 200 got the decision on record, for the body they signed  *)
(* and for their own request id: whatever invocations raced, crashed or    *)
(* lost their acknowledgements, the audit table and the clients agree      *)
(* (service.decide, save_decision).                                        *)
(***************************************************************************)
AnswersAreAudited ==
    \A c \in Calls :
        (replies[c] # None /\ replies[c].status = "OK") =>
            /\ replies[c].item = decisions[RequestId(c)]
            /\ replies[c].item.hash = HashOf(c)
            /\ replies[c].item.response.request = RequestId(c)

(***************************************************************************)
(* A nonce that a message claimed is not accepted again, from a duplicate  *)
(* or from any other message, before that message's timestamp has left the *)
(* window of acceptable ones: the item, removed by DynamoDB's TTL, covers  *)
(* every instant at which the message could still pass the timestamp       *)
(* check, one from a clock that is ahead included (auth.verify_request).   *)
(***************************************************************************)
NoReplayInWindow ==
    [][\A c, d \in Calls :
         (/\ calls[c].claimed
          /\ ~calls[d].claimed /\ calls'[d].claimed
          /\ calls[c].msg.nonce = calls[d].msg.nonce)
         => clock > calls[c].msg.ts + MaxClockSkew]_vars

(***************************************************************************)
(* An LLM verdict that entered a response was complete before the deadline *)
(* minus the reserve for saving and answering, but for the time that       *)
(* fetching the API key took (service.decide's deadline check,             *)
(* OpenAiResponsesProvider.decide's own timeout).                          *)
(***************************************************************************)
LlmVerdictInTime ==
    \A c \in Calls :
        work[c].llm \in {"ALLOW", "VETO"} =>
            work[c].ended + LlmReserve <= calls[c].started + DecisionDeadline + KeyFetchMax

(***************************************************************************)
(* Every decision on record was made by an invocation that authenticated,  *)
(* inside the timestamp window and with a nonce of its own, a message with *)
(* that very body and timestamp; it is the outcome of that invocation's    *)
(* filters, and a verdict of the LLM counts only if it came within the     *)
(* provider's timeout (lambda_handler, verify_request, decide).            *)
(***************************************************************************)
DecisionsAreTraceable ==
    \A r \in RequestIds : decisions[r] # None =>
        \E c \in Calls :
            /\ calls[c].claimed
            /\ calls[c].now - calls[c].msg.ts \in -MaxClockSkew .. MaxClockSkew
            /\ calls[c].msg.bodyTs = calls[c].msg.ts
            /\ decisions[r] = [hash |-> HashOf(c), response |-> ResponseOf(c)]
            /\ RequestId(c) = r
            /\ calls[c].started <= work[c].created
            /\ decisions[r].response.decision = "ALLOW" =>
                 /\ work[c].ml = "PASSED"
                 /\ work[c].ended - work[c].called \in 0 .. LlmTimeout

(***************************************************************************)
(* service.py:106 says why the deadline is checked: so that no ALLOW is    *)
(* made that would reach the EA after its timeout.  It would mean that     *)
(* every approval is complete by the deadline.                             *)
(***************************************************************************)
ApprovalWithinDeadline ==
    \A c \in Calls :
        work[c].llm = "ALLOW" => work[c].ended <= calls[c].started + DecisionDeadline

\* The abstract register: what is on record, and what the 200 answers have told.
Told(r) == {replies[c].item : c \in {d \in Calls : /\ replies[d] # None
                                                  /\ replies[d].status = "OK"
                                                  /\ RequestId(d) = r}}

Register == INSTANCE DecisionRegister
            WITH Hashes <- Bodies \X Int, Responses <- Response,
                 register <- decisions, told <- [r \in RequestIds |-> Told(r)]

(***************************************************************************)
(* The API implements the register: one decision per request id, never     *)
(* changed, the same one for every client, and only for the body it was    *)
(* made for.                                                               *)
(***************************************************************************)
RegisterSpec == Register!Spec

=============================================================================
