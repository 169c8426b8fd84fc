---------------------------- MODULE SignedRequest ----------------------------
(***************************************************************************)
(* The part every API of the decision service shares: a Lambda invocation  *)
(* receives a signed message, checks its timestamp, its signature and      *)
(* claims its nonce in the DynamoDB table before the handler's own work    *)
(* begins (auth.verify_request, DynamoRepository.claim_nonce).             *)
(*                                                                         *)
(* A message may reach any number of invocations, at any time and in any   *)
(* order: duplication, delay and reordering are all "an idle invocation    *)
(* receives some message".  Each member of Calls is one invocation, used   *)
(* once.  The clock is the servers' common clock, in seconds.              *)
(***************************************************************************)
EXTENDS Integers

CONSTANTS
    Calls,          \* Lambda invocations
    Messages,       \* the signed messages that clients may put on the wire
    Bodies,         \* what a body says, its timestamp apart
    Nonces,         \* the nonces that clients draw
    MaxClockSkew,   \* MAX_CLOCK_SKEW_SECONDS
    LambdaTimeout,  \* the configured timeout of the Lambda function
    MaxClock,       \* bound: the last instant the model looks at
    None            \* "no value"

\* The 4xx and 5xx answers of the handlers, by their error code.
Errors == {"BAD_REQUEST", "TIMESTAMP_EXPIRED", "AUTHENTICATION_FAILED",
           "REPLAY_DETECTED", "SIGNED_TIMESTAMP_MISMATCH", "CONFLICT",
           "INTERNAL_ERROR"}

(***************************************************************************)
(* wellFormed stands for the method, encoding, schema and idempotency-key  *)
(* checks and for the shape of the headers; signed, for an HMAC made with  *)
(* the key's secret.  The signature covers the path, so a message is       *)
(* signed for the one API that the module at hand describes.               *)
(***************************************************************************)
Message == [body: Bodies, bodyTs: Int, ts: Int, nonce: Nonces,
            wellFormed: BOOLEAN, signed: BOOLEAN]

\* The body carries its own timestamp, so the hash depends on both.
BodyHash(m) == <<m.body, m.bodyTs>>

ASSUME SignedRequestAssumption ==
    /\ Messages \subseteq Message
    /\ MaxClockSkew \in Nat
    /\ LambdaTimeout \in Nat
    /\ MaxClock \in Nat
    /\ None \notin Message
    /\ None \notin Int

VARIABLES
    clock,    \* the servers' time
    nonces,   \* the table's AUTH#/NONCE# items: nonce -> expiry, or None
    calls,    \* the invocations: where they are and what they work on
    replies   \* what each invocation answered, or None

authVars == <<clock, nonces, calls, replies>>

AuthSteps == {"idle", "window", "signature", "claim", "done"}

-----------------------------------------------------------------------------

SignedInit ==
    /\ clock = 0
    /\ nonces = [n \in Nonces |-> None]
    /\ calls = [c \in Calls |-> [pc |-> "idle", msg |-> None, started |-> 0,
                                 now |-> 0, claimed |-> FALSE]]
    /\ replies = [c \in Calls |-> None]

\* Lambda stops an invocation that outlives its timeout: it takes no more steps.
At(c, step) == /\ calls[c].pc = step
               /\ clock - calls[c].started <= LambdaTimeout

Goto(c, step) == calls' = [calls EXCEPT ![c].pc = step]

Finish(c, reply) == /\ calls' = [calls EXCEPT ![c].pc = "done"]
                    /\ replies' = [replies EXCEPT ![c] = reply]

Refuse(c, code) == Finish(c, [status |-> code])

\* lambda_handler up to verify_request: parse and validate, without any I/O.
Receive(c, m) ==
    /\ calls[c].pc = "idle"
    /\ IF m.wellFormed
       THEN /\ calls' = [calls EXCEPT ![c].pc = "window", ![c].msg = m,
                                      ![c].started = clock]
            /\ UNCHANGED replies
       ELSE /\ calls' = [calls EXCEPT ![c].pc = "done", ![c].msg = m,
                                      ![c].started = clock]
            /\ replies' = [replies EXCEPT ![c] = [status |-> "BAD_REQUEST"]]
    /\ UNCHANGED <<clock, nonces>>

InWindowNoLowerBound(now, ts) == ts - now <= MaxClockSkew

InWindowNoUpperBound(now, ts) == now - ts <= MaxClockSkew

\* abs(now - ts) <= MaxClockSkew
InWindow(now, ts) == /\ now - ts <= MaxClockSkew
                     /\ ts - now <= MaxClockSkew

\* verify_request reads the clock once; the nonce's expiry is computed from it.
CheckWindow(c) ==
    /\ At(c, "window")
    /\ IF InWindow(clock, calls[c].msg.ts)
       THEN /\ calls' = [calls EXCEPT ![c].pc = "signature", ![c].now = clock]
            /\ UNCHANGED replies
       ELSE Refuse(c, "TIMESTAMP_EXPIRED")
    /\ UNCHANGED <<clock, nonces>>

\* get_secret (any exception is a 401) and the comparison of the HMACs.
Authenticate(c) ==
    /\ At(c, "signature")
    /\ \/ /\ calls[c].msg.signed
          /\ Goto(c, "claim")
          /\ UNCHANGED replies
       \/ Refuse(c, "AUTHENTICATION_FAILED")
    /\ UNCHANGED <<clock, nonces>>

NonceExpiryTooSoon(now) == now + MaxClockSkew

NonceExpiry(now) == now + 2 * MaxClockSkew

(***************************************************************************)
(* The conditional put of the nonce.  DynamoDB may fail it without effect  *)
(* (a 500), and its acknowledgement may be lost after the item was         *)
(* written: the AWS client then gives up (a 500), or retries and finds its *)
(* own item (a 409).                                                       *)
(***************************************************************************)
ClaimNonce(c) ==
    LET n == calls[c].msg.nonce
        Write == nonces' = [nonces EXCEPT ![n] = NonceExpiry(calls[c].now)]
    IN  /\ At(c, "claim")
        /\ \/ /\ nonces[n] = None
              /\ Write
              /\ calls' = [calls EXCEPT ![c].pc = "handle", ![c].claimed = TRUE]
              /\ UNCHANGED replies
           \/ /\ nonces[n] # None
              /\ Refuse(c, "REPLAY_DETECTED")
              /\ UNCHANGED nonces
           \/ /\ nonces[n] = None
              /\ Write
              /\ \E code \in {"REPLAY_DETECTED", "INTERNAL_ERROR"} : Refuse(c, code)
           \/ /\ Refuse(c, "INTERNAL_ERROR")
              /\ UNCHANGED nonces
        /\ UNCHANGED clock

\* A body whose own timestamp is not the signed one; the nonce stays claimed.
RefuseTimestamp(c) ==
    /\ At(c, "handle")
    /\ calls[c].msg.bodyTs # calls[c].msg.ts
    /\ Refuse(c, "SIGNED_TIMESTAMP_MISMATCH")
    /\ UNCHANGED <<clock, nonces>>

\* A crash, or Lambda's timeout: the invocation ends without an answer.
Kill(c) ==
    /\ calls[c].pc \notin {"idle", "done"}
    /\ Goto(c, "done")
    /\ UNCHANGED <<clock, nonces, replies>>

\* DynamoDB removes an item some time after the instant in its ttl attribute.
ExpireNonce(n) ==
    /\ nonces[n] # None
    /\ clock > nonces[n]
    /\ nonces' = [nonces EXCEPT ![n] = None]
    /\ UNCHANGED <<clock, calls, replies>>

AuthStep(c) ==
    \/ CheckWindow(c)
    \/ Authenticate(c)
    \/ ClaimNonce(c)
    \/ RefuseTimestamp(c)
    \/ Kill(c)

=============================================================================
